---------------------------------- MODULE Job ----------------------------------
(***************************************************************************)
(* One job inside the execution engine (crates/execution): the job         *)
(* container and its services, the hooks, the Docker image prepass, the    *)
(* main steps with their node, Docker and composite actions, the post      *)
(* steps, the "Complete job" row and the one JobCompleted event.           *)
(*                                                                         *)
(* The engine is one task; what interleaves with it are the job's request  *)
(* to cancel, the runner's shutdown, the cleanup deadline, the watcher of  *)
(* the running step and the child processes.  A child process, a download  *)
(* or a call to Docker is `work': the engine waits for it and any outcome  *)
(* its caller tells apart may come back.                                   *)
(***************************************************************************)
EXTENDS Naturals, Sequences, FiniteSets, SequencesExt

CONSTANTS Plans,       \* the jobs GitHub may hand over
          MaxDepth,    \* MAX_COMPOSITE_DEPTH
          MaxTrouble   \* bound: how often Docker, a download or the disk fails

ASSUME JobAssumption == MaxDepth \in Nat /\ MaxTrouble \in Nat

VARIABLES
  plan,      \* the acquired job: [steps, container, services, images, hooks]
  pc,        \* how far entry::run has come
  idx,       \* the main step, image or post the engine is at
  todo,      \* the Docker calls the container phase has still to make
  frames,    \* the composite actions being run, outermost first
  work,      \* what the engine waits for
  request,   \* JobCancellation::request: cancel the job
  shutdown,  \* JobCancellation::shutdown: the runner is going down
  force,     \* JobCancellation::force: shutdown, or the grace has passed
  watch,     \* watch_step of the running main or post step
  status,    \* ExecutionContext::job_status
  result,    \* the conclusion so far (main steps, then the whole job)
  postAgg,   \* the aggregate drain_post_steps returns
  posts,     \* PostStepQueue
  nested,    \* ExecutionContext::nested_posts
  depth,     \* DepthTracker::current
  rows,      \* the timeline: row -> [n: step number, c: conclusion or "open"]
  docker,    \* the Docker objects of this job that exist
  refused,   \* those Docker would not remove, or never acknowledged
  served,    \* actions whose main stage came to an end, in order
  trouble,   \* failures so far
  verdict    \* conclusions JobCompleted carried

vars == <<plan, pc, idx, todo, frames, work, request, shutdown, force, watch,
          status, result, postAgg, posts, nested, depth, rows, docker, refused,
          served, trouble, verdict>>

signals == <<request, shutdown, force>>
docks   == <<todo, docker, refused>>
engine  == <<frames, watch, posts, nested, depth, served>>

NoWork == [stage |-> "none"]
Work(s, stage) == [stage |-> stage, step |-> s]

----------------------------------------------------------------------------
(* Status and conditions *)

\* ExecutionContext::job_status over JobCancellation::status: a live shutdown
\* or request overrides what the steps concluded.
JobStatus == IF shutdown THEN "Failure" ELSE IF request THEN "Cancelled" ELSE status

\* A composite's steps see their own composite's status, unless the job is
\* cancelled (scoped_job_status).
ScopedStatus(f) == IF JobStatus = "Cancelled" THEN "Cancelled" ELSE f.status

\* The status functions a condition may call; "broken" does not evaluate.
Holds(cond, s) ==
  CASE cond = "success()"   -> s = "Success"
    [] cond = "failure()"   -> s = "Failure"
    [] cond = "cancelled()" -> s = "Cancelled"
    [] cond = "always()"    -> TRUE
    [] cond = "broken"      -> FALSE

\* ExecutionContext::record_step_failure and record_job_cancelled.
AfterFailure(st) == IF JobStatus = "Cancelled" THEN st ELSE "Failure"
AfterCancel(st)  == IF request THEN "Cancelled" ELSE st

\* Cancellation outranks failure, failure outranks success, and a skipped
\* step says nothing.
Mutant_Aggregate(agg, c) == IF c = "Success" THEN agg ELSE c
Aggregate(agg, c) ==
  CASE c = "Cancelled"                      -> "Cancelled"
    [] c = "Failure" /\ agg # "Cancelled"   -> "Failure"
    [] OTHER                                -> agg

\* A stage's result as its step sees it: an error fails it, the error
\* RunnerError::Cancelled cancels it.
Outcome(r) == CASE r = "Error" -> "Failure" [] r = "Abort" -> "Cancelled" [] OTHER -> r

\* continue-on-error recovers a failure and nothing else.
Recovered(s, c) == IF c = "Failure" /\ s.coe THEN "Success" ELSE c

----------------------------------------------------------------------------
(* Rows of the timeline *)

Open(r, n)   == (r :> [n |-> n, c |-> "open"])
Close(rs, r, c) == [rs EXCEPT ![r].c = c]
Shut(r, n, c)   == (r :> [n |-> n, c |-> c])

MainRow(s) == <<"main", s.id>>
PreRow(s)  == <<"pre", s.id>>
PostRow(s) == <<"post", s.id>>
ImageRow(i) == <<"image", i>>
CompleteRow == <<"complete", 0>>

\* Image rows start at 2 (row 1 is "Set up job"), main rows follow the image
\* rows that were planned, posts follow the main rows, "Complete job" is last.
MainNumber(i) == 2 + plan.images + i - 1
Mutant_FirstPostNumber == 2 + Len(plan.steps)
FirstPostNumber == 2 + plan.images + Len(plan.steps)
PostNumber(i) == FirstPostNumber + i - 1
CompleteNumber == FirstPostNumber + Len(posts)

----------------------------------------------------------------------------
(* Cancellation *)

\* GitHub cancels the job; the deadline task starts the grace.
RequestCancel ==
  /\ pc # "done" /\ ~request
  /\ request' = TRUE
  /\ UNCHANGED <<plan, pc, idx, work, shutdown, force, status, result, postAgg, rows, trouble, verdict, docks, engine>>

\* The runner goes down: force is a child token of shutdown.
RequestShutdown ==
  /\ pc # "done" /\ ~shutdown
  /\ shutdown' = TRUE /\ force' = TRUE
  /\ UNCHANGED <<plan, pc, idx, work, request, status, result, postAgg, rows, trouble, verdict, docks, engine>>

\* The deadline watcher passes a shutdown on to the job's own request.
ShutdownCancels ==
  /\ pc # "done" /\ shutdown /\ ~request
  /\ request' = TRUE
  /\ UNCHANGED <<plan, pc, idx, work, shutdown, force, status, result, postAgg, rows, trouble, verdict, docks, engine>>

\* CLEANUP_GRACE after the request the watcher, or is_forced, latches force.
GraceExpires ==
  /\ pc # "done" /\ request /\ ~force
  /\ force' = TRUE
  /\ UNCHANGED <<plan, pc, idx, work, request, shutdown, status, result, postAgg, rows, trouble, verdict, docks, engine>>

\* watch_step: once the job is cancelled the running step is kept only if its
\* condition holds with the status cancelled.
WatchStep ==
  /\ request /\ watch \notin {"off", "kept", "fired"}
  /\ watch' = IF Holds(watch, "Cancelled") THEN "kept" ELSE "fired"
  /\ UNCHANGED <<plan, pc, idx, work, signals, status, result, postAgg, rows, trouble, verdict, docks, frames, posts, nested, depth, served>>

\* The token a process of the running step listens to: hooks and image builds
\* have the job's request; a composite that saw a cancelled step goes on under
\* the force token alone.
Mutant_Token ==
  CASE work.stage \in {"image", "started", "completed"} -> request
    [] frames # <<>> /\ Last(frames).token = "force"    -> FALSE
    [] OTHER                                            -> force \/ watch = "fired"
Token ==
  CASE work.stage \in {"image", "started", "completed"} -> request
    [] frames # <<>> /\ Last(frames).token = "force"    -> force
    [] OTHER                                            -> force \/ watch = "fired"

----------------------------------------------------------------------------
(* The job container, its services and the image prepass *)

\* The Docker calls of JobContainer::start and ServiceContainers::start, in
\* order; only the creating ones leave an object behind.
Objects == {"network", "container", "service"}
ContainerCalls == <<"pull", "network", "container", "start">>
ServiceCalls   == <<"pull", "service", "start", "health">>

\* start_container: services join the job container's network or own one.
Calls(p) ==
  (IF p.container THEN ContainerCalls ELSE <<>>) \o
  (CASE p.services = 0 -> <<>>
     [] p.container    -> ServiceCalls
     [] OTHER          -> <<"network">> \o ServiceCalls)

\* One call of start/initialize.  Cancellation is checked between the calls;
\* a failed call may or may not have reached Docker.
StartContainer ==
  /\ pc = "container" /\ todo # <<>> /\ ~request
  /\ \/ /\ todo' = Tail(todo)
        /\ docker' = docker \cup ({Head(todo)} \cap Objects)
        /\ UNCHANGED <<pc, trouble>>
     \/ /\ trouble < MaxTrouble
        /\ trouble' = trouble + 1
        /\ docker' \in {docker, docker \cup ({Head(todo)} \cap Objects)}
        /\ pc' = "undo"
        /\ UNCHANGED todo
  /\ UNCHANGED <<plan, idx, work, signals, status, result, postAgg, rows, verdict, refused, engine>>

\* check_cancel after the last call, or between two of them.
ContainerCancelled ==
  /\ pc = "container" /\ request /\ Calls(plan) # <<>>
  /\ pc' = "undo"
  /\ UNCHANGED <<plan, idx, work, signals, status, result, postAgg, rows, trouble, verdict, docks, engine>>

ContainerStarted ==
  /\ pc = "container" /\ todo = <<>> /\ (request => Calls(plan) = <<>>)
  /\ pc' = "started"
  /\ UNCHANGED <<plan, idx, work, signals, status, result, postAgg, rows, trouble, verdict, docks, engine>>

\* cleanup of services and container: every removal is attempted, `kept' is
\* what Docker would not remove.
Mutant_Removal(kept) == /\ docker' = IF kept = {} THEN {} ELSE docker
                        /\ refused' = refused \cup kept
                        /\ trouble' = IF kept \subseteq refused THEN trouble ELSE trouble + 1
Removal(kept) ==
  /\ docker' = kept
  /\ refused' = refused \cup kept
  /\ trouble' = IF kept \subseteq refused THEN trouble ELSE trouble + 1

\* What Docker refuses to remove, if it refuses at all.
Refusals(objects) == {kept \in SUBSET objects : kept # {} => trouble < MaxTrouble}

\* The one JobCompleted: the engine's conclusion or, when run_job returned an
\* error, report_job_failure's.
JobCompleted(err, c) == verdict' = Append(verdict, IF err THEN "Failure" ELSE c)

\* A container phase that failed or was cancelled: everything it created is
\* removed; a clean cancellation finishes the job, an error fails it.
Undo ==
  /\ pc = "undo"
  /\ \E kept \in Refusals(docker) :
       /\ Removal(kept)
       /\ JobCompleted(kept # {} \/ ~request \/ shutdown, "Cancelled")
  /\ pc' = "done"
  /\ UNCHANGED <<plan, idx, todo, work, signals, status, result, postAgg, rows, engine>>

\* run_job_hook: the script the operator configured, if any.
BeginHook ==
  /\ pc \in {"started", "completed"} /\ work = NoWork
  /\ IF plan.hooks
     THEN work' = [stage |-> pc] /\ UNCHANGED pc
     ELSE pc' = (IF pc = "started" THEN "images" ELSE "finish") /\ UNCHANGED work
  /\ UNCHANGED <<plan, idx, signals, status, result, postAgg, rows, trouble, verdict, docks, engine>>

\* The started hook gates the job; the completed hook changes nothing.
EndHook(r) ==
  /\ work.stage \in {"started", "completed"}
  /\ work' = NoWork
  /\ IF work.stage = "started" /\ r = "Success"
     THEN pc' = "images" /\ UNCHANGED result
     ELSE /\ pc' = "finish"
          /\ result' = IF work.stage = "started" THEN Outcome(r) ELSE result
  /\ UNCHANGED <<plan, idx, signals, status, postAgg, rows, verdict, todo, engine>>

HasActions == \E i \in 1..Len(plan.steps) : plan.steps[i].uses # "run"

\* finish_preparation_error: no step runs, the completed hook still does.
PreparationFails(r) ==
  LET c == IF r = "Abort" \/ request THEN "Cancelled" ELSE "Failure"
  IN  /\ result' = c
      /\ status' = IF c = "Cancelled" THEN "Cancelled" ELSE AfterFailure(status)
      /\ pc' = "completed"
      /\ idx' = 1

\* docker_prepare::discover and run_plan: one row per image, numbered from 2.
BeginImage ==
  /\ pc = "images" /\ work = NoWork
  /\ \/ /\ HasActions /\ request /\ idx = 1
        /\ PreparationFails("Abort")
        /\ UNCHANGED <<work, rows>>
     \/ /\ idx <= plan.images /\ ~(request /\ idx = 1)
        /\ work' = [stage |-> "image"]
        /\ rows' = rows @@ Open(ImageRow(idx), 1 + idx)
        /\ UNCHANGED <<pc, idx, status, result>>
     \/ /\ idx > plan.images /\ ~(HasActions /\ request /\ idx = 1)
        /\ pc' = "steps" /\ idx' = 1
        /\ UNCHANGED <<work, rows, status, result>>
  /\ UNCHANGED <<plan, signals, postAgg, trouble, verdict, docks, engine>>

EndImage(r) ==
  /\ work.stage = "image"
  /\ work' = NoWork
  /\ rows' = Close(rows, ImageRow(idx), Outcome(r))
  /\ IF r = "Success"
     THEN idx' = idx + 1 /\ UNCHANGED <<pc, status, result>>
     ELSE PreparationFails(r)
  /\ UNCHANGED <<plan, signals, postAgg, verdict, todo, engine>>

----------------------------------------------------------------------------
(* Running one step, at the top level or inside a composite *)

\* Where execute_step starts: a script runs, an action is resolved first.
FirstStage(s) == IF s.uses = "run" THEN "main" ELSE "resolve"

\* run_single_step for a main step that does not run: its row opens and closes.
PassOver(s, c) ==
  /\ rows' = rows @@ Shut(MainRow(s), MainNumber(idx), c)
  /\ status' = IF c = "Failure" THEN AfterFailure(AfterCancel(status)) ELSE AfterCancel(status)
  /\ result' = IF c = "Failure" THEN Aggregate(result, c) ELSE result
  /\ idx' = idx + 1
  /\ UNCHANGED <<watch, work>>

\* run_main_steps, run_single_step, execute_started_step up to the first await.
BeginStep ==
  /\ pc = "steps" /\ work = NoWork /\ frames = <<>> /\ idx <= Len(plan.steps)
  /\ LET s == plan.steps[idx]
     IN  CASE force                     -> PassOver(s, "Skipped")
           [] ~force /\ s.cond = "broken" -> PassOver(s, "Failure")
           [] ~force /\ s.cond # "broken" /\ ~Holds(s.cond, JobStatus) -> PassOver(s, "Skipped")
           [] OTHER ->
                /\ rows' = rows @@ Open(MainRow(s), MainNumber(idx))
                /\ status' = AfterCancel(status)
                /\ watch' = s.cond
                /\ work' = Work(s, FirstStage(s))
                /\ UNCHANGED <<idx, result>>
  /\ UNCHANGED <<plan, pc, signals, postAgg, trouble, verdict, docks, frames, posts, nested, depth, served>>

\* The step is over with result r and, for a node action, its own post.  In a
\* composite (fr, the composites around it) update_composite_status folds the
\* conclusion into the composite; a cancelled step leaves the later ones only
\* the force token.  At the top level record_step_result, complete_step and
\* save_action_result: the posts registered below come first, whatever r is.
Conclude(s, r, own, fr, rs) ==
  LET c == Recovered(s, Outcome(r))
  IN  /\ work' = NoWork
      /\ IF fr # <<>>
         THEN LET f == Last(fr)
                  g == [f EXCEPT !.i = @ + 1,
                                 !.agg = Aggregate(@, c),
                                 !.status = IF Aggregate(f.agg, c) = "Success" THEN @
                                            ELSE Aggregate(f.agg, c),
                                 !.token = IF c = "Cancelled" THEN "force" ELSE @]
              IN  /\ frames' = [fr EXCEPT ![Len(fr)] = g]
                  /\ nested' = nested \o own
                  /\ rows' = rs
                  /\ UNCHANGED <<idx, status, result, posts, watch>>
         ELSE /\ frames' = <<>>
              /\ posts' = posts \o nested \o own
              /\ nested' = <<>>
              /\ rows' = Close(rs, MainRow(s), c)
              /\ status' = CASE c = "Failure"   -> AfterFailure(status)
                             [] c = "Cancelled" -> "Cancelled"
                             [] OTHER           -> status
              /\ result' = Aggregate(result, c)
              /\ watch' = "off"
              /\ idx' = idx + 1

\* The node post is built once main has come to an end; a Docker post is
\* registered before pre.
OwnPost(s) == IF s.post THEN <<s>> ELSE <<>>

\* resolve_action came back (or Docker's prepare, for a Docker action).
EndResolve(r) ==
  /\ work.stage = "resolve"
  /\ LET s == work.step IN
     CASE r # "Success" ->
            /\ Conclude(s, r, <<>>, frames, rows)
            /\ UNCHANGED depth
       [] r = "Success" /\ s.uses = "composite" /\ depth >= MaxDepth ->
            /\ depth' = depth + 1   \* DepthTracker::enter counts before it refuses
            /\ Conclude(s, "Error", <<>>, frames, rows)
       [] r = "Success" /\ s.uses = "composite" /\ depth < MaxDepth ->
            /\ depth' = depth + 1
            /\ frames' = Append(frames,
                 [step |-> s, i |-> 1, agg |-> "Success", status |-> "Success",
                  token |-> IF frames = <<>> THEN "step" ELSE Last(frames).token])
            /\ work' = NoWork
            /\ UNCHANGED <<idx, rows, status, result, posts, nested, watch>>
       [] OTHER ->
            /\ work' = Work(s, IF s.pre THEN "pre" ELSE "main")
            /\ rows' = IF s.pre THEN rows @@ Open(PreRow(s), 0) ELSE rows
            /\ nested' = IF s.uses = "docker" THEN nested \o OwnPost(s) ELSE nested
            /\ UNCHANGED <<idx, frames, status, result, posts, watch, depth>>
  /\ UNCHANGED <<plan, pc, signals, postAgg, verdict, todo, served>>

\* The StepCompleted of a pre stage, sent before its error is passed on.
Mutant_PreReported(s, c) == IF c = "Cancelled" THEN rows ELSE Close(rows, PreRow(s), c)
PreReported(s, c) == Close(rows, PreRow(s), c)

\* report_pre_stage / run_pre: a row of its own (number 0); unless it succeeds
\* or continue-on-error recovers it, it is the step's result.  An error is not
\* recovered here, and ends the step as an error.
EndPre(r) ==
  /\ work.stage = "pre"
  /\ LET s == work.step
         c == IF r \in {"Error", "Abort"} THEN Outcome(r) ELSE Recovered(s, r)
     IN  IF c = "Success"
         THEN /\ rows' = PreReported(s, c)
              /\ work' = Work(s, "main")
              /\ UNCHANGED <<idx, frames, status, result, posts, nested, watch>>
         ELSE Conclude(s, IF r \in {"Error", "Abort"} THEN r ELSE c, <<>>, frames,
                       PreReported(s, c))
  /\ UNCHANGED <<plan, pc, signals, postAgg, verdict, todo, depth, served>>

\* run_script_step, run_node_stage, run_docker_stage: the step's own process.
EndMain(r) ==
  /\ work.stage = "main"
  /\ LET s == work.step
         ran == r \notin {"Error", "Abort"}
     IN  /\ Conclude(s, r, IF ran /\ s.uses = "node" THEN OwnPost(s) ELSE <<>>,
                     frames, rows)
         /\ served' = IF s.post /\ (ran \/ s.uses = "docker") THEN Append(served, s.id) ELSE served
  /\ UNCHANGED <<plan, pc, signals, postAgg, verdict, todo, depth>>

\* run_composite_steps between two inner steps.  Leaving the composite, whose
\* outputs may not evaluate, gives its level back.
Leave(c) ==
  LET f == Last(frames)
  IN  /\ depth' = depth - 1
      /\ \/ Conclude(f.step, c, <<>>, Front(frames), rows) /\ UNCHANGED trouble
         \/ /\ trouble < MaxTrouble
            /\ trouble' = trouble + 1
            /\ Conclude(f.step, "Error", <<>>, Front(frames), rows)

BeginInner ==
  /\ pc = "steps" /\ work = NoWork /\ frames # <<>>
  /\ LET f == Last(frames)
         over == f.i > Len(f.step.steps)
         s == f.step.steps[f.i]
     IN  CASE over                                        -> Leave(f.agg)
           [] ~over /\ force                              -> Leave("Cancelled")
           [] ~over /\ ~force /\ s.cond = "broken"        -> Leave(Aggregate(f.agg, "Failure"))
           [] ~over /\ ~force /\ s.cond # "broken" /\ ~Holds(s.cond, ScopedStatus(f)) ->
                /\ frames' = [frames EXCEPT ![Len(frames)].i = @ + 1]
                /\ UNCHANGED <<idx, work, watch, status, result, posts, nested, depth, rows, trouble>>
           [] OTHER ->
                /\ work' = Work(s, FirstStage(s))
                /\ UNCHANGED <<idx, frames, watch, status, result, posts, nested, depth, rows, trouble>>
  /\ UNCHANGED <<plan, pc, signals, postAgg, verdict, docks, served>>

----------------------------------------------------------------------------
(* Post steps, the "Complete job" row and the end of the job *)

\* run_main_and_posts once the last main step is over.
EndSteps ==
  /\ pc = "steps" /\ work = NoWork /\ frames = <<>> /\ idx > Len(plan.steps)
  /\ status' = IF result = "Cancelled" \/ request THEN "Cancelled" ELSE status
  /\ pc' = "posts" /\ idx' = 1
  /\ UNCHANGED <<plan, work, signals, result, postAgg, rows, trouble, verdict, docks, engine>>

\* drain_lifo: the post registered last runs first.
Mutant_Post(i) == posts[i]
Post(i) == Reverse(posts)[i]

FoldPost(c) ==
  /\ postAgg' = Aggregate(postAgg, c)
  /\ status' = CASE c = "Failure"   -> AfterFailure(AfterCancel(status))
                 [] c = "Cancelled" -> "Cancelled"
                 [] OTHER           -> AfterCancel(status)
  /\ idx' = idx + 1

\* drain_post_steps, run_one_post, run_scoped_post up to the post's process.
BeginPost ==
  /\ pc = "posts" /\ work = NoWork /\ idx <= Len(posts)
  /\ LET s == Post(idx)
         skip(c) == /\ rows' = rows @@ Shut(PostRow(s), PostNumber(idx), c)
                    /\ FoldPost(c)
                    /\ UNCHANGED <<work, watch>>
     IN  CASE force                                     -> skip("Skipped")
           [] ~force /\ s.postIf = "broken"             -> skip("Failure")
           [] ~force /\ s.postIf # "broken" /\ ~Holds(s.postIf, JobStatus) -> skip("Skipped")
           [] OTHER -> /\ rows' = rows @@ Open(PostRow(s), PostNumber(idx))
                       /\ work' = Work(s, "post")
                       /\ watch' = s.postIf
                       /\ status' = AfterCancel(status)
                       /\ UNCHANGED <<idx, postAgg>>
  /\ UNCHANGED <<plan, pc, signals, result, trouble, verdict, docks, frames, posts, nested, depth, served>>

EndPost(r) ==
  /\ work.stage = "post"
  /\ LET c == Recovered(work.step, Outcome(r))
     IN  /\ rows' = Close(rows, PostRow(work.step), c)
         /\ FoldPost(c)
  /\ work' = NoWork /\ watch' = "off"
  /\ UNCHANGED <<plan, pc, signals, result, verdict, todo, frames, posts, nested, depth, served>>

\* The conclusion of main and posts together: shutdown, then cancellation,
\* then the worse of the two.
Mutant_Merged == IF request THEN "Cancelled" ELSE result
Merged ==
  CASE shutdown -> "Failure"
    [] ~shutdown /\ request -> "Cancelled"
    [] OTHER -> Aggregate(result, postAgg)

EndPosts ==
  /\ pc = "posts" /\ work = NoWork /\ idx > Len(posts)
  /\ status' = AfterCancel(status)
  /\ result' = Merged
  /\ pc' = "complete"
  /\ UNCHANGED <<plan, idx, work, signals, postAgg, rows, trouble, verdict, docks, engine>>

\* after_shutdown: a shutdown fails the job whatever its steps concluded.
AfterShutdown(c) == IF shutdown THEN "Failure" ELSE c

\* run_complete_step: an output or the environment URL may not evaluate.
CompleteJob ==
  /\ pc = "complete"
  /\ \E bad \in BOOLEAN :
       /\ bad => trouble < MaxTrouble
       /\ trouble' = IF bad THEN trouble + 1 ELSE trouble
       /\ result' = AfterShutdown(IF bad THEN Aggregate(result, "Failure") ELSE result)
       /\ rows' = rows @@ Shut(CompleteRow, CompleteNumber, IF bad THEN "Failure" ELSE "Success")
  /\ pc' = "completed"
  /\ UNCHANGED <<plan, idx, work, signals, status, postAgg, verdict, docks, engine>>

\* finish_execution: services and container go, orphans are swept, then the
\* one JobCompleted; a removal Docker refuses fails the job.
FinishExecution ==
  /\ pc = "finish" /\ work = NoWork
  /\ \E kept \in Refusals(docker \cap Objects) :
       /\ Removal(kept \cup (docker \ Objects))
       /\ \E unread \in BOOLEAN :   \* dump_logs could not read a service's log
            /\ unread => plan.services > 0 /\ trouble < MaxTrouble
            /\ JobCompleted(kept # {} \/ unread, AfterShutdown(result))
  /\ pc' = "done"
  /\ UNCHANGED <<plan, idx, todo, work, signals, status, result, postAgg, rows, engine>>

----------------------------------------------------------------------------
(* What the engine waits for *)

\* The results each kind of work tells apart.  wait_bounded: an exit code, a
\* timeout (a failure) or, once the token is cancelled, a kill.
WaitBounded == {"Success", "Failure"} \cup (IF Token THEN {"Cancelled"} ELSE {})

\* resolve_within_bounds: before there is a process a cancelled token, or the
\* deadline, ends the wait with an error.
WithinBounds == IF Token THEN {"Abort"} ELSE {}

\* A `run:' step, or a hook: rendered, spawned, its output and file commands
\* read; each of these may err.
ScriptResults == WaitBounded \cup {"Error"}

\* A node stage looks its script and runtime up first, a Docker stage connects.
NodeResults   == WaitBounded \cup WithinBounds \cup {"Error"}
DockerResults == WaitBounded \cup WithinBounds \cup {"Error"}

\* Resolving an action, and pulling or building an image, yields no conclusion.
ResolveResults == {"Success", "Error"} \cup WithinBounds
ImageResults   == {"Success", "Error"} \cup WithinBounds

StageResults ==
  CASE work.stage \in {"started", "completed"} -> ScriptResults
    [] work.stage = "image"                    -> ImageResults
    [] work.stage = "resolve"                  -> ResolveResults
    [] OTHER -> CASE work.step.uses = "run"  -> ScriptResults
                  [] work.step.uses = "node" -> NodeResults
                  [] OTHER                   -> DockerResults

Results == StageResults \ (IF trouble < MaxTrouble THEN {} ELSE {"Error"})

\* ActionContainer::run removes what it created, unless Docker refuses or never
\* acknowledged the creation.
ActionContainerLeft(r) ==
  IF r = "Error" /\ work.stage \in {"pre", "main", "post"} /\ work.step.uses = "docker"
  THEN \E left \in SUBSET {"action"} :
         docker' = docker \cup left /\ refused' = refused \cup left
  ELSE UNCHANGED <<docker, refused>>

EndWork(r) ==
  /\ work # NoWork /\ r \in Results
  /\ trouble' = IF r = "Error" THEN trouble + 1 ELSE trouble
  /\ ActionContainerLeft(r)
  /\ \/ EndHook(r) \/ EndImage(r) \/ EndResolve(r) \/ EndPre(r) \/ EndMain(r) \/ EndPost(r)

\* wait_bounded and resolve_within_bounds end what their token cancels.
Killed == Token /\ \E r \in {"Cancelled", "Abort"} : EndWork(r)

Init ==
  /\ plan \in Plans
  /\ pc = "container" /\ todo = Calls(plan)
  /\ idx = 1 /\ frames = <<>> /\ work = NoWork
  /\ request = FALSE /\ shutdown = FALSE /\ force = FALSE /\ watch = "off"
  /\ status = "Success" /\ result = "Success" /\ postAgg = "Success"
  /\ posts = <<>> /\ nested = <<>> /\ depth = 0 /\ rows = <<>>
  /\ docker = {} /\ refused = {} /\ served = <<>> /\ trouble = 0 /\ verdict = <<>>

\* The engine's own steps, from one await to the next.
EngineStep ==
  \/ StartContainer \/ ContainerCancelled \/ ContainerStarted \/ Undo
  \/ BeginHook \/ BeginImage \/ BeginStep \/ BeginInner \/ EndSteps
  \/ BeginPost \/ EndPosts \/ CompleteJob \/ FinishExecution

Next ==
  \/ EngineStep
  \/ \E r \in {"Success", "Failure", "Cancelled", "Abort", "Error"} : EndWork(r)
  \/ RequestCancel \/ RequestShutdown \/ ShutdownCancels \/ GraceExpires \/ WatchStep
  \/ pc = "done" /\ UNCHANGED vars

\* The tokio tasks make progress, the clock runs and a kill is delivered; a
\* process left alone may run for ever.
Fairness ==
  /\ WF_vars(EngineStep) /\ WF_vars(Killed)
  /\ WF_vars(ShutdownCancels) /\ WF_vars(GraceExpires) /\ WF_vars(WatchStep)

Spec == Init /\ [][Next]_vars /\ Fairness

----------------------------------------------------------------------------
(* Properties *)

Conclusions == {"Success", "Failure", "Cancelled", "Skipped"}

\* The engine's state has its type, and JobCompleted is sent once, at the end.
TypeOK ==
  /\ pc \in {"container", "undo", "started", "images", "steps", "posts",
             "complete", "completed", "finish", "done"}
  /\ idx \in Nat \ {0} /\ depth \in Nat /\ trouble \in 0..MaxTrouble
  /\ {request, shutdown, force} \subseteq BOOLEAN
  /\ watch \in {"off", "kept", "fired", "success()", "failure()", "cancelled()", "always()"}
  /\ {status, result, postAgg} \subseteq Conclusions \ {"Skipped"}
  /\ \A r \in DOMAIN rows : rows[r].n \in Nat /\ rows[r].c \in Conclusions \cup {"open"}
  /\ Len(verdict) = IF pc = "done" THEN 1 ELSE 0
  /\ ToSet(verdict) \subseteq Conclusions \ {"Skipped"}

\* The numbered rows of the timeline (image rows, main rows, post rows,
\* "Complete job") are numbered 2, 3, ... without a gap or a repetition, however
\* the job goes: post_number and setup_step_number agree with each other.
NumbersAreGapless ==
  LET numbered == {r \in DOMAIN rows : rows[r].n # 0}
  IN  {rows[r].n : r \in numbered} = 2..(Cardinality(numbered) + 1)

\* A row that started completes: at JobCompleted none is still in progress, and
\* before that only the row the engine is working on is open.
RowsClosed ==
  LET open == {r \in DOMAIN rows : rows[r].c = "open"}
  IN  /\ pc = "done" => open = {}
      /\ work = NoWork /\ frames = <<>> => open = {}

\* Every action whose main stage came to an end and that declares a post gets
\* its post row before the job is reported, last registered first: through
\* errors, cancellation and a composite that failed around it.
PostsDrained ==
  pc = "done" =>
    /\ \A i \in 1..Len(served) : <<"post", served[i]>> \in DOMAIN rows
    /\ \A i, j \in 1..Len(served) :
         i < j => rows[<<"post", served[i]>>].n > rows[<<"post", served[j]>>].n

\* What JobCompleted says agrees with the timeline: a green job has no red or
\* cancelled row (a pre row may be red, its step recovers), a cancelled job was
\* asked to stop, and a job that failed after its "Complete job" row has a red
\* row, met a shutdown, or had its resources' teardown fail.
VerdictHonest ==
  pc = "done" =>
    /\ verdict[1] = "Success" =>
         \A r \in DOMAIN rows : r[1] # "pre" => rows[r].c \in {"Success", "Skipped"}
    /\ verdict[1] = "Cancelled" => request
    /\ verdict[1] = "Failure" /\ CompleteRow \in DOMAIN rows =>
         \/ shutdown \/ refused # {} \/ plan.services > 0
         \/ \E r \in DOMAIN rows : rows[r].c = "Failure"

\* When the job is reported nothing it created in Docker is left, except what
\* Docker refused to remove or never acknowledged.
NothingLeft == pc = "done" => docker \subseteq refused

\* A job that is asked to stop is reported: conditions, cleanup steps, posts
\* and hooks together cannot outlive the one grace.
CancelledEnds == request ~> pc = "done"

(* GitHub is told of the job what happened: rows numbered without gaps and
   all closed, every post that was registered run or reported, and a verdict
   that follows from them. *)
JobIsTold == TypeOK /\ NumbersAreGapless /\ RowsClosed /\ PostsDrained /\ VerdictHonest
=============================================================================
