------------------------------- MODULE Daemon -------------------------------
(***************************************************************************)
(* The toolu compute daemon (crates/daemon): HTTP handlers, detached create *)
(* and reap tasks, the reconcile tick and start-up adoption, all acting on  *)
(* one Docker engine and on four locked values (gate, registry, start       *)
(* queue, created-container map).  The runtime is multi-threaded, so the    *)
(* unit of atomicity is one critical section or one Docker call; a handler  *)
(* that takes several locks one after the other takes several steps.        *)
(***************************************************************************)
EXTENDS Gate, JobRegistry, StartQueue

CONSTANTS
    JobOf,          \* the sh.toolu.job-id label of each container: [Cids -> Jobs]
    Tasks,          \* slots for requests being served at the same time
    NoJob,
    Faults,         \* which Docker and client failures can happen, a subset of FaultKinds
    PullAttempts,   \* PREPULL_ATTEMPTS
    MaxPosts,       \* bound: admitted deliveries of one job id
    MaxCrashes      \* bound: daemon stops

FaultKinds == {"create", "create_lost", "start", "start_lost", "remove",
               "list", "reap_list", "inspect", "disconnect", "image", "age"}

ASSUME DaemonAssumption ==
    /\ JobOf \in [Cids -> Jobs]
    /\ NoJob \notin Jobs
    /\ Faults \subseteq FaultKinds
    /\ PullAttempts \in Nat \ {0}
    /\ MaxPosts \in Nat
    /\ MaxCrashes \in Nat

VARIABLES
    gate,       \* Mutex<Gate>
    registry,   \* Mutex<JobRegistry>
    queue,      \* Mutex<StartQueue>
    created,    \* Mutex<CreatedContainers>
    task,       \* the requests in flight, one record per slot
    phase,      \* where the process is between start-up and serving
    todo,       \* containers adoption has yet to look at
    pulls,      \* pull attempts made by this start-up
    tick,       \* where the reconcile tick is
    now,        \* the clock adoption or the tick read: job ids past their deadline then
    snap,       \* the tick's container listing
    remove,     \* containers adoption or the tick decided to force-remove
    start,      \* TickOutcome::start, the containers still to be started
    docker,     \* external: the state of every container
    resident,   \* external: the pinned image is on the box
    expired,    \* external: job ids whose deadline has passed
    posts,      \* admitted deliveries so far, for MaxPosts
    crashes     \* daemon stops so far, for MaxCrashes

memory == <<gate, registry, queue, created>>
startup == <<phase, todo, pulls>>
ticker == <<tick, now, snap, remove, start>>
world == <<docker, resident, expired>>
bounds == <<posts, crashes>>
vars == <<memory, task, startup, ticker, world, bounds>>

-----------------------------------------------------------------------------
(* Types.                                                                   *)

TaskPcs == {"idle",
            "begin", "creating", "failed", "finish", "discard", "record",
            "abandon", "remove", "forget",
            "reap_known", "reap_list", "reap_listed",
            "rel_gate", "rel_queue", "rel_created"}

(* job and cid are what the request is about, left the labelled containers  *)
(* a reap has still to remove, ok whether it settled so far, rel whether    *)
(* the handler releases the job after the backend's destroy.                *)
TaskRecords == [pc : TaskPcs, job : Jobs \cup {NoJob}, cid : Cids \cup {NoCid},
                left : SUBSET Cids, ok : BOOLEAN, rel : BOOLEAN]

Idle == [pc |-> "idle", job |-> NoJob, cid |-> NoCid, left |-> {},
         ok |-> TRUE, rel |-> FALSE]

ContainerStates == {"unborn", "created", "running", "exited", "gone"}
Sightings == {"unseen", "created", "running", "exited"}
StartRequests == [job : Jobs, cid : Cids]
Unseen == [c \in Cids |-> "unseen"]

TypeOK ==
    /\ gate \in GateStates
    /\ registry \in RegistryStates(Jobs)
    /\ queue \in Seq(Jobs)
    /\ created \in [Jobs -> Cids \cup {NoCid}]
    /\ task \in [Tasks -> TaskRecords]
    /\ phase \in {"down", "inspecting", "adopting", "serving"}
    /\ todo \in SUBSET Cids
    /\ pulls \in 0..PullAttempts
    /\ tick \in {"idle", "reconcile", "act", "unstart", "requeue", "vanish"}
    /\ now \in SUBSET Jobs
    /\ snap \in [Cids -> Sightings]
    /\ remove \in SUBSET Cids
    /\ start \in Seq(StartRequests)
    /\ docker \in [Cids -> ContainerStates]
    /\ resident \in BOOLEAN
    /\ expired \in SUBSET Jobs
    /\ posts \in [Jobs -> 0..MaxPosts]
    /\ crashes \in 0..MaxCrashes

-----------------------------------------------------------------------------
(* Docker, external to the repository.                                      *)

Live(d) == {c \in Cids : d[c] \in {"created", "running", "exited"}}
Sighting(c) == IF c \in Live(docker) THEN docker[c] ELSE "unseen"
RunningContainers == {c \in Cids : docker[c] = "running"}

(* force_remove and remove_container on c: gone whatever its state was, or, *)
(* when removals may fail, untouched.                                       *)
Removed(c) == [docker EXCEPT ![c] = "gone"]
RemovalMayFail == "remove" \in Faults
ForceRemove(c) == docker' = Removed(c) \/ (RemovalMayFail /\ docker' = docker)

NoCreated == [j \in Jobs |-> NoCid]
ForgetCreated(m, js) == [j \in Jobs |-> IF j \in js THEN NoCid ELSE m[j]]

Init ==
    /\ gate = EmptyGate
    /\ registry = EmptyRegistry(Jobs)
    /\ queue = <<>>
    /\ created = NoCreated
    /\ task = [t \in Tasks |-> Idle]
    /\ phase = "down"
    /\ todo = {}
    /\ pulls = 0
    /\ tick = "idle"
    /\ now = {}
    /\ snap = Unseen
    /\ remove = {}
    /\ start = <<>>
    /\ docker = [c \in Cids |-> "unborn"]
    /\ resident \in BOOLEAN
    /\ expired = {}
    /\ posts = [j \in Jobs |-> 0]
    /\ crashes = 0

-----------------------------------------------------------------------------
(* POST /v1/jobs.  A foreign image, a duplicate, a full queue and a job      *)
(* larger than the box are answered (503, 201 or 503, 429, 500) without      *)
(* touching any state; the rest runs on a detached task.                     *)

Goto(t, pc) == task' = [task EXCEPT ![t].pc = pc]
Done(t) == task' = [task EXCEPT ![t] = Idle]

CreateJob(t, j) ==
    /\ phase = "serving"
    /\ task[t] = Idle
    /\ posts[j] < MaxPosts
    /\ AdmitOutcome(gate, j) = "Ok"
    /\ gate' = Admit(gate, j)
    /\ task' = [task EXCEPT ![t] = [Idle EXCEPT !.pc = "begin", !.job = j]]
    /\ posts' = [posts EXCEPT ![j] = @ + 1]
    /\ UNCHANGED <<registry, queue, created, startup, ticker, world, crashes>>

(* DockerBackend::create claims the id before its first Docker call.        *)
CreateClaims(t) ==
    /\ task[t].pc = "begin"
    /\ registry' = BeginCreate(registry, task[t].job)
    /\ Goto(t, IF BeginOutcome(registry, task[t].job) = "Proceed"
               THEN "creating" ELSE "rel_gate")
    /\ UNCHANGED <<gate, queue, created, startup, ticker, world, bounds>>

(* Docker makes the container; its answer arrives later, or is an error     *)
(* although the container was made.                                         *)
DockerCreates(t, c) ==
    /\ task[t].pc = "creating"
    /\ resident
    /\ JobOf[c] = task[t].job
    /\ docker[c] = "unborn"
    /\ docker' = [docker EXCEPT ![c] = "created"]
    /\ \/ task' = [task EXCEPT ![t].pc = "finish", ![t].cid = c]
       \/ "create_lost" \in Faults /\ Goto(t, "failed")
    /\ UNCHANGED <<memory, startup, ticker, resident, expired, bounds>>

(* Mutant of CreateFails: the admission is not given back.                  *)
CreateFailsKeepingSlot(t) ==
    /\ \/ task[t].pc = "failed"
       \/ task[t].pc = "creating" /\ (~resident \/ "create" \in Faults)
    /\ registry' = AbandonCreate(registry, task[t].job)
    /\ Done(t)
    /\ UNCHANGED <<gate, queue, created, startup, ticker, world, bounds>>

(* run_create, error answer: give the claim up, then the admission.         *)
CreateFails(t) ==
    /\ \/ task[t].pc = "failed"
       \/ task[t].pc = "creating" /\ (~resident \/ "create" \in Faults)
    /\ registry' = AbandonCreate(registry, task[t].job)
    /\ Goto(t, "rel_gate")
    /\ UNCHANGED <<gate, queue, created, startup, ticker, world, bounds>>

(* run_create, success answer: the tombstone decides.                       *)
CreateFinishes(t) ==
    /\ task[t].pc = "finish"
    /\ registry' = FinishCreate(registry, task[t].job, task[t].cid)
    /\ Goto(t, IF FinishOutcome(registry, task[t].job) = "Keep"
               THEN "record" ELSE "discard")
    /\ UNCHANGED <<gate, queue, created, startup, ticker, world, bounds>>

(* Mutant of CreateDiscards: the container of a reaped job is left behind.  *)
DiscardLeaves(t) ==
    /\ task[t].pc = "discard"
    /\ Goto(t, "rel_gate")
    /\ UNCHANGED <<memory, startup, ticker, world, bounds>>

(* The container of a reaped job is removed unstarted and the create fails. *)
CreateDiscards(t) ==
    /\ task[t].pc = "discard"
    /\ ForceRemove(task[t].cid)
    /\ Goto(t, "rel_gate")
    /\ UNCHANGED <<memory, startup, ticker, resident, expired, bounds>>

(* Mutant of RememberCreated: recorded whether or not the gate tracks it.   *)
RememberUnchecked(t) ==
    /\ task[t].pc = "record"
    /\ created' = [created EXCEPT ![task[t].job] = task[t].cid]
    /\ queue' = Append(queue, task[t].job)
    /\ Done(t)
    /\ UNCHANGED <<gate, registry, startup, ticker, world, bounds>>

(* remember_created: record and queue under one critical section, unless    *)
(* the job was released meanwhile.                                          *)
RememberCreated(t) ==
    /\ task[t].pc = "record"
    /\ IF Tracks(gate, task[t].job)
       THEN /\ created' = [created EXCEPT ![task[t].job] = task[t].cid]
            /\ queue' = Append(queue, task[t].job)
            /\ Done(t)
       ELSE /\ Goto(t, "abandon")
            /\ UNCHANGED <<created, queue>>
    /\ UNCHANGED <<gate, registry, startup, ticker, world, bounds>>

-----------------------------------------------------------------------------
(* DELETE /v1/jobs/{containerId}, and the same backend call made by a       *)
(* create whose job is no longer tracked.  Not detached: a client that      *)
(* disconnects drops the handler at its next await.                         *)

(* DockerBackend::destroy reads the label first; 404 and errors end it.     *)
DestroyInspects(t, c, rel) ==
    IF docker[c] \in {"unborn", "gone"} THEN Done(t)
    ELSE \/ task' = [task EXCEPT ![t] = [Idle EXCEPT !.pc = "remove", !.job = JobOf[c],
                                                     !.cid = c, !.rel = rel]]
         \/ "inspect" \in Faults /\ Done(t)

DestroyJob(t, c) ==
    /\ phase = "serving"
    /\ task[t] = Idle
    /\ docker[c] \in {"created", "running", "exited"}
    /\ DestroyInspects(t, c, TRUE)
    /\ UNCHANGED <<memory, startup, ticker, world, bounds>>

AbandonUntracked(t) ==
    /\ task[t].pc = "abandon"
    /\ DestroyInspects(t, task[t].cid, FALSE)
    /\ UNCHANGED <<memory, startup, ticker, world, bounds>>

(* Mutant of DestroyRemoves: without force, a running container stays.      *)
DestroySparesRunning(t) ==
    /\ task[t].pc = "remove"
    /\ docker' = IF docker[task[t].cid] = "running" THEN docker ELSE Removed(task[t].cid)
    /\ Goto(t, "forget")
    /\ UNCHANGED <<memory, startup, ticker, resident, expired, bounds>>

DestroyRemoves(t) ==
    /\ task[t].pc = "remove"
    /\ \/ /\ docker[task[t].cid] # "gone"
          /\ docker' = Removed(task[t].cid)
          /\ Goto(t, "forget")
       \/ /\ docker[task[t].cid] = "gone" \/ RemovalMayFail
          /\ docker' = docker
          /\ Done(t)
    /\ UNCHANGED <<memory, startup, ticker, resident, expired, bounds>>

DestroyForgets(t) ==
    /\ task[t].pc = "forget"
    /\ registry' = Forget(registry, task[t].job)
    /\ IF task[t].rel THEN Goto(t, "rel_gate") ELSE Done(t)
    /\ UNCHANGED <<gate, queue, created, startup, ticker, world, bounds>>

DestroyDisconnected(t) ==
    /\ "disconnect" \in Faults
    /\ task[t].pc \in {"remove", "forget"} /\ task[t].rel
    /\ Done(t)
    /\ UNCHANGED <<memory, startup, ticker, world, bounds>>

-----------------------------------------------------------------------------
(* DELETE /v1/jobs?jobId=.  run_reap is detached; only the release that     *)
(* follows it belongs to the request.                                       *)

ReapJob(t, j) ==
    /\ phase = "serving"
    /\ task[t] = Idle
    /\ registry' = Reap(registry, j)
    /\ LET known == ReapKnown(registry, j) IN
       task' = [task EXCEPT ![t] = [Idle EXCEPT !.job = j, !.cid = known,
                    !.pc = IF known = NoCid THEN "reap_list" ELSE "reap_known"]]
    /\ UNCHANGED <<gate, queue, created, startup, ticker, world, bounds>>

ReapRemovesKnown(t) ==
    /\ task[t].pc = "reap_known"
    /\ \/ /\ docker' = Removed(task[t].cid)
          /\ Goto(t, "reap_list")
       \/ /\ RemovalMayFail
          /\ docker' = docker
          /\ task' = [task EXCEPT ![t].pc = "reap_list", ![t].ok = FALSE]
    /\ UNCHANGED <<memory, startup, ticker, resident, expired, bounds>>

ReapLists(t) ==
    /\ task[t].pc = "reap_list"
    /\ \/ task' = [task EXCEPT ![t].pc = "reap_listed",
                     ![t].left = {c \in Live(docker) : JobOf[c] = task[t].job}]
       \/ /\ "reap_list" \in Faults
          /\ task' = [task EXCEPT ![t].pc = "reap_listed", ![t].ok = FALSE]
    /\ UNCHANGED <<memory, startup, ticker, world, bounds>>

ReapRemovesListed(t, c) ==
    /\ task[t].pc = "reap_listed"
    /\ c \in task[t].left
    /\ \/ /\ docker' = Removed(c)
          /\ task' = [task EXCEPT ![t].left = @ \ {c}]
       \/ /\ RemovalMayFail
          /\ docker' = docker
          /\ task' = [task EXCEPT ![t].left = @ \ {c}, ![t].ok = FALSE]
    /\ UNCHANGED <<memory, startup, ticker, resident, expired, bounds>>

(* Mutant of ReapSettles: an unresolved reap releases the job too.          *)
ReapAlwaysReleases(t) ==
    /\ task[t].pc = "reap_listed"
    /\ task[t].left = {}
    /\ Goto(t, "rel_gate")
    /\ UNCHANGED <<memory, startup, ticker, world, bounds>>

(* Settled: the handler releases the job, if its client is still there.     *)
(* Unresolved: the budget is kept.                                          *)
ReapSettles(t) ==
    /\ task[t].pc = "reap_listed"
    /\ task[t].left = {}
    /\ \/ task[t].ok /\ Goto(t, "rel_gate")
       \/ (~task[t].ok \/ "disconnect" \in Faults) /\ Done(t)
    /\ UNCHANGED <<memory, startup, ticker, world, bounds>>

-----------------------------------------------------------------------------
(* handlers::release: three locks taken one after the other.                *)

ReleaseGate(t) ==
    /\ task[t].pc = "rel_gate"
    /\ gate' = Release(gate, task[t].job)
    /\ Goto(t, "rel_queue")
    /\ UNCHANGED <<registry, queue, created, startup, ticker, world, bounds>>

ReleaseQueue(t) ==
    /\ task[t].pc = "rel_queue"
    /\ queue' = Without(queue, {task[t].job})
    /\ Goto(t, "rel_created")
    /\ UNCHANGED <<gate, registry, created, startup, ticker, world, bounds>>

(* Mutant of ReleaseCreated: the created-container entry stays.             *)
ReleaseKeepsCreated(t) ==
    /\ task[t].pc = "rel_created"
    /\ Done(t)
    /\ UNCHANGED <<memory, startup, ticker, world, bounds>>

ReleaseCreated(t) ==
    /\ task[t].pc = "rel_created"
    /\ created' = ForgetCreated(created, {task[t].job})
    /\ Done(t)
    /\ UNCHANGED <<gate, registry, queue, startup, ticker, world, bounds>>

-----------------------------------------------------------------------------
(* The reconcile tick: clock, listing, one critical section that decides,   *)
(* then removals and starts.                                                *)

(* The clock is read just before the listing; a deadline that passes in     *)
(* between is one the tick has not seen.  DockerBackend::snapshot reads a   *)
(* failed listing as an empty one.                                          *)
TickLists ==
    /\ phase = "serving"
    /\ tick = "idle"
    /\ now' = expired
    /\ tick' = "reconcile"
    /\ \/ snap' = [c \in Cids |-> Sighting(c)]
       \/ "list" \in Faults /\ snap' = Unseen
    /\ UNCHANGED <<memory, task, startup, remove, start, world, bounds>>

(* Mutants of Doomed: a queued job's container counts as exited; deadlines  *)
(* are not enforced.                                                        *)
DoomedWhenTracked ==
    {c \in Cids : /\ snap[c] # "unseen"
                  /\ \/ JobOf[c] \in now
                     \/ snap[c] # "running" /\ Tracks(gate, JobOf[c])}
DoomedOnExit ==
    {c \in Cids : snap[c] \notin {"unseen", "running"} /\ gate[JobOf[c]] = "running"}

(* reconcile, passes 1 and 2: containers to remove, jobs to release.        *)
Doomed == {c \in Cids : /\ snap[c] # "unseen"
                        /\ \/ JobOf[c] \in now
                           \/ snap[c] # "running" /\ gate[JobOf[c]] = "running"}
Vanished == {j \in RunningIds(gate) : \A c \in Cids : JobOf[c] = j => snap[c] = "unseen"}
Released == {JobOf[c] : c \in Doomed} \cup Vanished

(* reconcile, pass 3: promote offers what is free to the queue in arrival   *)
(* order.  S is started iff each of its jobs, and no other tracked job of   *)
(* q, fits beside what runs already and what S holds from earlier in q.     *)
Promotes(g, q, S) ==
    \A i \in 1..Len(q) :
        (\A k \in 1..(i - 1) : q[k] # q[i]) =>
            (q[i] \in S <=>
                /\ Tracks(g, q[i])
                /\ \/ g[q[i]] = "running"
                   \/ FitsBeside(q[i], RunningIds(g) \cup ({q[k] : k \in 1..(i - 1)} \cap S)))

TickReconciles ==
    /\ tick = "reconcile"
    /\ LET q == Without(queue, Released)
           g == ReleaseAll(gate, Released)
           m == ForgetCreated(created, Released)
       IN \E S \in SUBSET ToSet(q) :
            LET requested == Only(q, {j \in S : m[j] # NoCid})
            IN /\ Promotes(g, q, S)
               /\ gate' = StartAll(g, S)
               /\ queue' = Without(q, S)
               /\ created' = m
               /\ start' = [n \in 1..Len(requested) |->
                               [job |-> requested[n], cid |-> m[requested[n]]]]
    /\ registry' = ForgetAll(registry, Released)
    /\ remove' = Doomed
    /\ snap' = Unseen
    /\ now' = {}
    /\ tick' = "act"
    /\ UNCHANGED <<task, startup, world, bounds>>

TickRemoves(c) ==
    /\ tick = "act"
    /\ c \in remove
    /\ ForceRemove(c)
    /\ remove' = remove \ {c}
    /\ UNCHANGED <<memory, task, startup, tick, now, snap, start, resident, expired, bounds>>

TickEnds ==
    /\ tick = "act"
    /\ remove = {}
    /\ start = <<>>
    /\ tick' = "idle"
    /\ UNCHANGED <<memory, task, startup, now, snap, remove, start, world, bounds>>

(* Mutant of TickStarts: a failed start leaves the claim in the gate.       *)
StartFailureIgnored ==
    /\ tick = "act"
    /\ remove = {}
    /\ start # <<>>
    /\ LET c == Head(start).cid IN
       \/ /\ docker[c] \in {"created", "running", "exited"}
          /\ docker' = [docker EXCEPT ![c] = "running"]
       \/ "start" \in Faults /\ docker' = docker
    /\ start' = Tail(start)
    /\ UNCHANGED <<memory, task, startup, tick, now, snap, remove, resident, expired, bounds>>

(* Every removal is attempted before the first start.                       *)
(* docker start: a created container runs, a running one is left as it is,  *)
(* an exited one runs again, a missing one is a 404.  A start may fail with *)
(* or without having taken effect.                                          *)
TickStarts ==
    /\ tick = "act"
    /\ remove = {}
    /\ start # <<>>
    /\ LET c == Head(start).cid
           effect == docker' = [docker EXCEPT ![c] = "running"]
       IN \/ /\ docker[c] \in {"created", "running", "exited"}
             /\ effect
             /\ start' = Tail(start)
             /\ tick' = tick
          \/ /\ docker[c] \in {"created", "running", "exited"}
             /\ \/ "start" \in Faults /\ docker' = docker
                \/ "start_lost" \in Faults /\ effect
             /\ tick' = "unstart"
             /\ start' = start
          \/ /\ docker[c] \in {"unborn", "gone"}
             /\ docker' = docker
             /\ tick' = "vanish"
             /\ start' = start
    /\ UNCHANGED <<memory, task, startup, now, snap, remove, resident, expired, bounds>>

(* requeue_after_failed_start: the gate's lock, then the queue's.           *)
TickUnstarts ==
    /\ tick = "unstart"
    /\ LET j == Head(start).job IN
       /\ gate' = Unstart(gate, j)
       /\ IF Tracks(gate, j)
          THEN tick' = "requeue" /\ start' = start
          ELSE tick' = "act" /\ start' = Tail(start)
    /\ UNCHANGED <<registry, queue, created, task, startup, now, snap, remove, world, bounds>>

TickRequeues ==
    /\ tick = "requeue"
    /\ queue' = Append(queue, Head(start).job)
    /\ start' = Tail(start)
    /\ tick' = "act"
    /\ UNCHANGED <<gate, registry, created, task, startup, now, snap, remove, world, bounds>>

(* release_vanished: every lock at once.                                    *)
TickReleasesVanished ==
    /\ tick = "vanish"
    /\ LET j == Head(start).job IN
       /\ gate' = Release(gate, j)
       /\ registry' = Forget(registry, j)
       /\ created' = ForgetCreated(created, {j})
       /\ queue' = Without(queue, {j})
    /\ start' = Tail(start)
    /\ tick' = "act"
    /\ UNCHANGED <<task, startup, now, snap, remove, world, bounds>>

-----------------------------------------------------------------------------
(* Start-up: list, inspect every container, read the clock, adopt, remove    *)
(* what is over, pull the image, serve.  Nothing else of the process runs    *)
(* meanwhile.  A listing that fails ends the process, which is a Crash.      *)

StartUp ==
    /\ phase = "down"
    /\ phase' = "inspecting"
    /\ todo' = Live(docker)
    /\ UNCHANGED <<memory, task, pulls, ticker, world, bounds>>

(* existing_jobs inspects one listed container after the other; one that is *)
(* gone, or whose inspect fails for any other reason, is skipped.           *)
AdoptInspects(c) ==
    /\ phase = "inspecting" /\ c \in todo
    /\ \/ snap' = [snap EXCEPT ![c] = Sighting(c)]
       \/ "inspect" \in Faults /\ snap' = snap
    /\ todo' = todo \ {c}
    /\ UNCHANGED <<memory, task, phase, pulls, tick, now, remove, start, world, bounds>>

AdoptReadsClock ==
    /\ phase = "inspecting" /\ todo = {}
    /\ phase' = "adopting"
    /\ now' = expired
    /\ todo' = {c \in Cids : snap[c] # "unseen"}
    /\ UNCHANGED <<memory, task, pulls, tick, snap, remove, start, world, bounds>>

(* adopt takes the containers in the order Docker listed them, which is any; *)
(* it is synchronous and alone, so its loop is one step per container.       *)
(* action_for looks at the deadline first, then at the lifecycle.            *)
Adopting(c, lifecycle) ==
    /\ phase = "adopting" /\ c \in todo
    /\ JobOf[c] \notin now /\ snap[c] = lifecycle

AdoptResumes(c) ==
    /\ Adopting(c, "running")
    /\ ~Tracks(gate, JobOf[c])
    /\ gate' = AdoptRunning(gate, JobOf[c])
    /\ created' = [created EXCEPT ![JobOf[c]] = c]
    /\ todo' = todo \ {c}
    /\ UNCHANGED <<registry, queue, task, phase, pulls, ticker, world, bounds>>

(* Mutant of AdoptRequeues: a finished container is queued to start again.  *)
AdoptRequeuesFinished(c) ==
    /\ Adopting(c, "created") \/ Adopting(c, "exited")
    /\ AdmitOutcome(gate, JobOf[c]) = "Ok"
    /\ gate' = Admit(gate, JobOf[c])
    /\ created' = [created EXCEPT ![JobOf[c]] = c]
    /\ queue' = Append(queue, JobOf[c])
    /\ todo' = todo \ {c}
    /\ UNCHANGED <<registry, task, phase, pulls, ticker, world, bounds>>

AdoptRequeues(c) ==
    /\ Adopting(c, "created")
    /\ AdmitOutcome(gate, JobOf[c]) = "Ok"
    /\ gate' = Admit(gate, JobOf[c])
    /\ created' = [created EXCEPT ![JobOf[c]] = c]
    /\ queue' = Append(queue, JobOf[c])
    /\ todo' = todo \ {c}
    /\ UNCHANGED <<registry, task, phase, pulls, ticker, world, bounds>>

(* Expired, finished, a second container of a running job, or inadmissible. *)
AdoptDooms(c) ==
    /\ phase = "adopting" /\ c \in todo
    /\ \/ JobOf[c] \in now
       \/ Adopting(c, "exited")
       \/ Adopting(c, "running") /\ Tracks(gate, JobOf[c])
       \/ Adopting(c, "created") /\ AdmitOutcome(gate, JobOf[c]) # "Ok"
    /\ remove' = remove \cup {c}
    /\ todo' = todo \ {c}
    /\ UNCHANGED <<memory, task, phase, pulls, tick, now, snap, start, world, bounds>>

(* remove_all, once every container has been looked at.                     *)
AdoptRemoves(c) ==
    /\ phase = "adopting" /\ todo = {}
    /\ c \in remove
    /\ ForceRemove(c)
    /\ remove' = remove \ {c}
    /\ UNCHANGED <<memory, task, startup, tick, now, snap, start, resident, expired, bounds>>

Adopted == phase = "adopting" /\ todo = {} /\ remove = {}

(* Process memory, and every task of the runtime, is gone.                  *)
ProcessGone ==
    /\ gate' = EmptyGate
    /\ registry' = EmptyRegistry(Jobs)
    /\ queue' = <<>>
    /\ created' = NoCreated
    /\ task' = [t \in Tasks |-> Idle]
    /\ phase' = "down"
    /\ todo' = {}
    /\ pulls' = 0
    /\ tick' = "idle"
    /\ now' = {}
    /\ snap' = Unseen
    /\ remove' = {}
    /\ start' = <<>>

(* attempt_pull and startup_decision: only an image that is resident once   *)
(* the pull has settled binds the listener.                                 *)
PullBinds ==
    /\ Adopted
    /\ resident' = TRUE
    /\ phase' = "serving"
    /\ pulls' = 0
    /\ now' = {}
    /\ snap' = Unseen
    /\ UNCHANGED <<memory, task, todo, tick, remove, start, docker, expired, bounds>>

(* Mutant of PullFails: the attempts are not counted down.                  *)
PullFailsForever ==
    /\ Adopted
    /\ ~resident \/ "image" \in Faults
    /\ pulls' = pulls + 1
    /\ UNCHANGED <<memory, task, phase, todo, ticker, world, bounds>>

PullFails ==
    /\ Adopted
    /\ ~resident \/ "image" \in Faults
    /\ pulls + 1 < PullAttempts
    /\ pulls' = pulls + 1
    /\ UNCHANGED <<memory, task, phase, todo, ticker, world, bounds>>

PullGivesUp ==
    /\ Adopted
    /\ ~resident \/ "image" \in Faults
    /\ pulls + 1 = PullAttempts
    /\ ProcessGone
    /\ UNCHANGED <<world, bounds>>

(* A stop, a SIGKILL or a panic at any point of any of the above.           *)
Crash ==
    /\ phase # "down"
    /\ crashes < MaxCrashes
    /\ crashes' = crashes + 1
    /\ ProcessGone
    /\ UNCHANGED <<world, posts>>

-----------------------------------------------------------------------------
(* The box around the daemon.                                               *)

ContainerExits(c) ==
    /\ docker[c] = "running"
    /\ docker' = [docker EXCEPT ![c] = "exited"]
    /\ UNCHANGED <<memory, task, startup, ticker, resident, expired, bounds>>

DeadlinePasses(j) ==
    /\ posts[j] > 0 /\ j \notin expired
    /\ expired' = expired \cup {j}
    /\ UNCHANGED <<memory, task, startup, ticker, docker, resident, bounds>>

(* No request spans TOMBSTONE_TTL: its Docker calls time out well before,   *)
(* so a tombstone only ages once the requests for its job have ended.       *)
TombstoneAges(j) ==
    /\ "age" \in Faults
    /\ registry[j] = Reaped
    /\ \A t \in Tasks : task[t].job # j
    /\ registry' = [registry EXCEPT ![j] = Stale]
    /\ UNCHANGED <<gate, queue, created, task, startup, ticker, world, bounds>>

ImageLost ==
    /\ "image" \in Faults
    /\ resident
    /\ resident' = FALSE
    /\ UNCHANGED <<memory, task, startup, ticker, docker, expired, bounds>>

(* refresh_loop.                                                            *)
ImageRefreshed ==
    /\ phase = "serving"
    /\ ~resident
    /\ resident' = TRUE
    /\ UNCHANGED <<memory, task, startup, ticker, docker, expired, bounds>>

-----------------------------------------------------------------------------
Request(t) ==
    \/ \E j \in Jobs : CreateJob(t, j) \/ ReapJob(t, j)
    \/ \E c \in Cids : DestroyJob(t, c)

CreateStep(t) ==
    \/ CreateClaims(t) \/ CreateFails(t) \/ CreateFinishes(t) \/ CreateDiscards(t)
    \/ RememberCreated(t) \/ AbandonUntracked(t)
    \/ \E c \in Cids : DockerCreates(t, c)

DestroyStep(t) == DestroyRemoves(t) \/ DestroyForgets(t)

ReapStep(t) ==
    \/ ReapRemovesKnown(t) \/ ReapLists(t) \/ ReapSettles(t)
    \/ \E c \in Cids : ReapRemovesListed(t, c)

ReleaseStep(t) == ReleaseGate(t) \/ ReleaseQueue(t) \/ ReleaseCreated(t)

TaskStep(t) == CreateStep(t) \/ DestroyStep(t) \/ ReapStep(t) \/ ReleaseStep(t)

TickStep ==
    \/ TickLists \/ TickReconciles \/ TickEnds
    \/ TickStarts \/ TickUnstarts \/ TickRequeues \/ TickReleasesVanished
    \/ \E c \in Cids : TickRemoves(c)

StartUpStep ==
    \/ StartUp \/ AdoptReadsClock \/ PullBinds \/ PullFails \/ PullGivesUp
    \/ \E c \in Cids : AdoptInspects(c) \/ AdoptResumes(c) \/ AdoptRequeues(c)
                       \/ AdoptDooms(c) \/ AdoptRemoves(c)

Environment ==
    \/ Crash \/ ImageLost \/ ImageRefreshed
    \/ \E c \in Cids : ContainerExits(c)
    \/ \E j \in Jobs : DeadlinePasses(j) \/ TombstoneAges(j)

Next ==
    \/ \E t \in Tasks : Request(t) \/ TaskStep(t) \/ DestroyDisconnected(t)
    \/ TickStep
    \/ StartUpStep
    \/ Environment

Spec == Init /\ [][Next]_vars

-----------------------------------------------------------------------------
(* Fairness.  The runtime polls every detached task again, each Docker call  *)
(* is bounded by a client timeout, reconcile_loop and the supervisor that    *)
(* restarts the daemon never give up, and wall clocks reach deadlines.  No   *)
(* fairness is asked of clients, of containers exiting or of fault steps.    *)

FairSpec ==
    /\ Spec
    /\ \A t \in Tasks : WF_vars(TaskStep(t))
    /\ WF_vars(TickStep)
    /\ WF_vars(StartUpStep)
    /\ \A j \in Jobs : WF_vars(DeadlinePasses(j))

-----------------------------------------------------------------------------
(* Properties.                                                              *)

CreateInFlight(j) ==
    \E t \in Tasks : /\ task[t].job = j
                     /\ task[t].pc \in {"begin", "creating", "failed", "finish", "discard", "record"}
ReapInFlight(j) ==
    \E t \in Tasks : task[t].job = j /\ task[t].pc \in {"reap_known", "reap_list", "reap_listed"}
ReleaseInFlight(j) ==
    \E t \in Tasks : task[t].job = j /\ task[t].pc \in {"rel_gate", "rel_queue", "rel_created"}
NoRequest(j) == \A t \in Tasks : task[t].job # j
InQueue(j) == j \in ToSet(queue)

ContainerFootprint(cs) ==
    [d \in Dims |-> Load([c \in Cids |-> Size[JobOf[c]][d]], cs)]

(* The containers that really run never need more vCPU or memory than the   *)
(* box has: the gate's bookkeeping (gate.rs) bounds Docker's reality.       *)
NoOvercommit == FitsWithin(ContainerFootprint(RunningContainers), Budget)

(* While the daemon serves, every container that runs is charged to the     *)
(* gate, or is one this tick has decided to remove (reaper::reconcile and    *)
(* adopt keep the gate's `running` flags in step with Docker).              *)
RunningIsAccounted ==
    phase = "serving" =>
        \A c \in RunningContainers : gate[JobOf[c]] = "running" \/ c \in remove

(* A job with a reap tombstone has no running container once its reap has   *)
(* ended: run_reap's removals and finish_create's check leave no gap.       *)
ReapedIsDead ==
    \A c \in RunningContainers :
        IsTombstone(registry, JobOf[c]) => ReapInFlight(JobOf[c])

(* An admitted job that has not started always has something that will move *)
(* it on: its queue entry, its create, its release or a pending re-queue.   *)
(* The reconcile pass only walks running jobs, so anything else is a queue  *)
(* slot lost until the daemon restarts (handlers::create_job).              *)
NoLeakedSlot ==
    \A j \in Jobs :
        phase = "serving" /\ gate[j] = "queued" =>
            \/ InQueue(j)
            \/ CreateInFlight(j) \/ ReleaseInFlight(j)
            \/ tick = "requeue" /\ Head(start).job = j

(* The start queue and the created-container map hold nothing for a job the *)
(* gate has let go, except while its release is on its way through the      *)
(* three locks: remember_created's reason for one critical section.         *)
NoGhostEntry ==
    \A j \in Jobs : InQueue(j) \/ created[j] # NoCid => Tracks(gate, j) \/ ReleaseInFlight(j)

(* With no request for the job in flight, the created-container map has an  *)
(* entry exactly for the jobs the gate tracks (CreatedContainers::forget:   *)
(* "called wherever its gate entry is released, so the two never drift      *)
(* apart").                                                                 *)
MapsAgree ==
    \A j \in Jobs :
        phase = "serving" /\ NoRequest(j) => (created[j] # NoCid <=> Tracks(gate, j))

(* A tick only removes containers that have exited, have already gone or    *)
(* are past their deadline: never one that is waiting to start or working,  *)
(* for which the client holds a 201 (reaper::reconcile, passes 1 and 2).    *)
NoInnocentRemoval ==
    phase = "serving" =>
        \A c \in remove : docker[c] \in {"exited", "gone"} \/ JobOf[c] \in expired

(* What the box sees of a container.                                        *)
Life(c) ==
    CASE docker[c] \in {"unborn", "created"} -> "fresh"
      [] docker[c] = "running" -> "running"
      [] docker[c] \in {"exited", "gone"} -> "over"

Box == INSTANCE Host WITH
    Containers <- Cids, Dimensions <- Dims, Capacity <- Budget,
    Need <- [c \in Cids |-> Size[JobOf[c]]], life <- [c \in Cids |-> Life(c)]

(* The daemon implements Host: a start only ever happens when the container *)
(* fits beside all that really run, and a container that has run, whose JIT *)
(* configuration is spent, is never started again, across daemon restarts.  *)
ImplementsHost == Box!Spec

(* However often a delivery is repeated, two containers of one job never    *)
(* run at the same time (admit's duplicate check and begin_create).         *)
OneRunnerPerJob ==
    \A c, e \in RunningContainers : JobOf[c] = JobOf[e] => c = e

(* A created container that no request and no tick is working on is the one *)
(* recorded for its job, queued to start and admitted: nothing is left on   *)
(* disk that no code path will start or remove.                             *)
NoOrphan ==
    \A c \in Cids :
        (phase = "serving" /\ docker[c] = "created" /\ NoRequest(JobOf[c]) /\ tick = "idle")
            => InQueue(JobOf[c]) /\ created[JobOf[c]] = c /\ gate[JobOf[c]] = "queued"

(* The books of the daemon: what runs on the box is what the gate, the queue *)
(* and the created map say, and no tick removes a container that belongs.   *)
BooksBalance == RunningIsAccounted /\ NoInnocentRemoval /\ MapsAgree

(* Whatever fails or crashes, nothing is lost: no running container without *)
(* its budget, none removed that belongs, no slot without a holder, no      *)
(* container that nobody will ever remove.                                  *)
NothingLost == RunningIsAccounted /\ NoInnocentRemoval /\ NoLeakedSlot /\ NoOrphan

(* Every admission is given back in the end: the job's container exits, is  *)
(* reaped or destroyed, or its deadline passes and the reaper removes it.   *)
SlotComesBack == \A j \in Jobs : Tracks(gate, j) ~> ~Tracks(gate, j)
=============================================================================
