------------------------------- MODULE Machine -------------------------------
(***************************************************************************)
(* A toolu.sh machine at work: the poll loop, a claimed job's JIT lifecycle *)
(* with the claim watcher beside it, and the report at its end              *)
(* (crates/toolu-runner: poll_loop, poll_job; crates/wire and               *)
(* crates/protocol: toolu_jobs), over the pairing of module Pairing; and    *)
(* `boot`, which runs one JIT the same way with a deadline watchdog beside  *)
(* it (boot_cmd).                                                           *)
(*                                                                         *)
(* toolu.sh's job rows are external: a claim is fenced by its epoch, and a  *)
(* lapsed lease puts the row back in the queue.  GitHubListener::run is     *)
(* abstracted to what it returns; module Listener models its inside.        *)
(***************************************************************************)
EXTENDS Pairing, FiniteSets, LoopDecision

CONSTANTS Jobs,       \* rows of toolu.sh's queue, oldest first: 1 .. n
          MaxClaims,  \* bound on the claims toolu.sh grants
          MaxStarts,  \* bound on starts of the loop
          Attempts    \* COMPLETE_ATTEMPTS

ASSUME MachineAssumption ==
  Jobs \subseteq Nat /\ MaxClaims \in Nat /\ MaxStarts \in Nat /\ Attempts \in Nat \ {0}

VARIABLES
  row,      \* toolu.sh: [st, epoch, mine] of each job
  loop,     \* the poll loop: [pc, token, todo, job, epoch, tries, res]
  jit,      \* the listener of the claimed (or booted) JIT config
  watch,    \* the claim watcher: [pc, renewing, fired]; boot's watchdog
  late,     \* the claim's deadline (TOOLU_DEADLINE) has passed
  cancel,   \* the process's cancel token
  drain,    \* the loop's drain token
  jobCancel,\* the child token handed to the listener
  pending,  \* .pending_remove
  starts,   \* starts of the loop so far
  exit,     \* boot: the process's exit code, Running while it runs
  heard,    \* for the properties: the loop or the watcher was answered 401 ...
  spoke,    \* ... and sent a request after that
  ran       \* for the properties: claims whose lifecycle ran a job to a conclusion

signals == <<cancel, drain, jobCancel, pending>>
ghosts == <<heard, spoke, ran>>
vars == <<pairVars, row, loop, jit, watch, late, signals, starts, exit, ghosts>>

\* The exit code of a boot that has none yet.
Running == ""

Off == [pc |-> "off", token |-> 0, todo |-> {}, job |-> 0, epoch |-> 0, tries |-> 0, res |-> "none"]
NoWatch == [pc |-> "off", renewing |-> FALSE, fired |-> FALSE]
Booting == loop.pc = "boot"

Stopping == cancel \/ drain
Active == loop.pc \notin {"off", "boot"}
Goto(pc) == loop' = [loop EXCEPT !.pc = pc]

Results == {"none", "job", "idle", "conflict", "auth", "error"}
TypeOK ==
  /\ PairTypeOK
  /\ row \in [Jobs -> [st : {"queued", "claimed", "done", "failed"}, epoch : 0 .. MaxClaims,
                       mine : BOOLEAN]]
  /\ loop.pc \in {"off", "top", "list", "next", "claim", "run", "complete", "settle", "boot"}
  /\ loop.res \in Results
  /\ jit \in {"none", "live", "over"}
  /\ watch.pc \in {"off", "dispatch", "watch", "beat", "revoked", "grace"}
  /\ (jit # "none") => loop.pc \in {"run", "boot"}
  /\ loop.pc = "complete" => watch = NoWatch /\ loop.tries < Attempts
  /\ exit \in {Running, "0", "1", "2", "5", "124"}

Init ==
  /\ PairInit
  /\ row = [j \in Jobs |-> [st |-> "queued", epoch |-> 0, mine |-> FALSE]]
  /\ loop = Off /\ jit = "none" /\ watch = NoWatch /\ late = FALSE
  /\ cancel = FALSE /\ drain = FALSE /\ jobCancel = FALSE /\ pending = FALSE
  /\ starts = 0 /\ exit = Running /\ heard = FALSE /\ spoke = FALSE /\ ran = {}

----------------------------------------------------------------------------
(* toolu.sh's job rows *)

Send == spoke' = (spoke \/ heard)

\* A machine has one slot: it may claim while it holds no row.
Holds(j) == row[j].st = "claimed" /\ row[j].mine
SlotFree == \A j \in Jobs : ~Holds(j)

\* Epochs are given out in increasing order.
LastEpoch == CHOOSE e \in 0 .. MaxClaims :
  /\ \A j \in Jobs : row[j].epoch <= e
  /\ e = 0 \/ \E j \in Jobs : row[j].epoch = e

TakeRow(j, mine) ==
  /\ row[j].st = "queued" /\ LastEpoch < MaxClaims
  /\ row' = [row EXCEPT ![j] = [st |-> "claimed", epoch |-> LastEpoch + 1, mine |-> mine]]

\* Another machine claims a row.  It holds it until its lease lapses.
OthersClaim ==
  /\ \E j \in Jobs : TakeRow(j, FALSE)
  /\ UNCHANGED <<pairVars, loop, jit, watch, late, signals, starts, exit, ghosts>>

Lapse ==
  /\ \E j \in Jobs : /\ row[j].st = "claimed"
                     /\ row' = [row EXCEPT ![j].st = "queued", ![j].mine = FALSE]
  /\ UNCHANGED <<pairVars, loop, jit, watch, late, signals, starts, exit, ghosts>>

\* The claim (j, e) is still this machine's.
Fenced(j, e) == Holds(j) /\ row[j].epoch = e

----------------------------------------------------------------------------
(* The poll loop *)

\* `run`, or the service's loop for the registration, once it holds the lock.
LoopStarts ==
  /\ loop.pc = "off" /\ config /\ starts < MaxStarts /\ remove \in {"off", "wait"}
  /\ exit = Running
  /\ loop' = [Off EXCEPT !.pc = "top"]
  /\ starts' = starts + 1
  /\ heard' = FALSE
  /\ UNCHANGED <<pairVars, row, jit, watch, late, signals, exit, spoke, ran>>

\* The end of drive (the lock is released), and another turn of it: a pass
\* keeps nothing of the one before.
LoopEnds == loop' = Off
Again == loop' = [Off EXCEPT !.pc = "top"]

(* drive's check between jobs, then pass up to the request: config and host
   token are read again; either missing is fatal. *)
Mutant_Top ==
  /\ loop.pc = "top"
  /\ IF ~config \/ creds = 0
     THEN LoopEnds /\ UNCHANGED spoke
     ELSE loop' = [loop EXCEPT !.pc = "list", !.token = creds] /\ Send
  /\ UNCHANGED <<pairVars, row, jit, watch, late, jobCancel, pending, starts, exit, heard, ran>>
Top ==
  /\ loop.pc = "top"
  /\ IF Stopping \/ pending \/ ~config \/ creds = 0
     THEN LoopEnds /\ UNCHANGED spoke
     ELSE loop' = [loop EXCEPT !.pc = "list", !.token = creds] /\ Send
  /\ UNCHANGED <<pairVars, row, jit, watch, late, jobCancel, pending, starts, exit, heard, ran>>

(* list: abandoned on cancel or drain. *)
List ==
  /\ loop.pc = "list"
  /\ \/ Stopping /\ Again /\ UNCHANGED <<faults, heard>>
     \/ /\ Accepted(loop.token)
        /\ loop' = [loop EXCEPT !.pc = "next",
                      !.todo = IF SlotFree THEN {j \in Jobs : row[j].st = "queued"} ELSE {}]
        /\ UNCHANGED <<faults, heard>>
     \/ ~Accepted(loop.token) /\ LoopEnds /\ heard' = TRUE /\ UNCHANGED faults
     \/ Fault /\ Again /\ UNCHANGED heard
  /\ UNCHANGED <<server, code, files, setup, grant, remove, row, jit, watch, late, jobCancel, pending,
                 starts, exit, spoke, ran>>

(* poll_once, the head of its loop over the listed jobs. *)
NextJob ==
  /\ loop.pc = "next"
  /\ IF loop.todo = {} \/ Stopping THEN Again /\ UNCHANGED spoke
     ELSE LET j == CHOOSE k \in loop.todo : \A m \in loop.todo : k <= m IN
          /\ loop' = [loop EXCEPT !.pc = "claim", !.job = j, !.todo = @ \ {j}]
          /\ Send
  /\ UNCHANGED <<pairVars, row, jit, watch, late, jobCancel, pending, starts, exit, heard, ran>>

\* Both starts of a JIT: nothing has run yet.
StartJit == jit' = "live" /\ jobCancel' = cancel

(* claim and claim_refused: the claim and ClaimedJob::run up to the lifecycle
   (a deadline already past is reported without one); a taken row or a reply
   outside the contract tries the next job; full slots and any other refusal
   (toolu.sh's own cap, MaxClaims here) end the pass; an unanswered claim backs off, though toolu.sh may have made it. *)
Claim ==
  /\ loop.pc = "claim"
  /\ \/ /\ Accepted(loop.token) /\ SlotFree /\ TakeRow(loop.job, TRUE)
        /\ \/ /\ loop' = [loop EXCEPT !.pc = "run", !.epoch = row'[loop.job].epoch, !.todo = {}]
              /\ StartJit /\ watch' = [pc |-> "dispatch", renewing |-> TRUE, fired |-> FALSE]
           \/ /\ loop' = [loop EXCEPT !.pc = "complete", !.epoch = row'[loop.job].epoch,
                             !.todo = {}, !.res = "error"]
              /\ UNCHANGED <<jit, jobCancel, watch>>
        /\ Send
        /\ UNCHANGED <<faults, heard>>
     \/ /\ Accepted(loop.token) /\ row[loop.job].st # "queued" /\ Goto("next")
        /\ UNCHANGED <<row, jit, jobCancel, watch, faults, heard, spoke>>
     \/ /\ Accepted(loop.token) /\ (~SlotFree \/ LastEpoch = MaxClaims) /\ Again
        /\ UNCHANGED <<row, jit, jobCancel, watch, faults, heard, spoke>>
     \/ /\ ~Accepted(loop.token) /\ LoopEnds /\ heard' = TRUE
        /\ UNCHANGED <<row, jit, jobCancel, watch, faults, spoke>>
     \/ /\ Fault /\ Again
        /\ IF Accepted(loop.token) /\ SlotFree THEN TakeRow(loop.job, TRUE) ELSE UNCHANGED row
        /\ UNCHANGED <<jit, jobCancel, watch, heard, spoke>>
     \/ /\ Fault /\ (Goto("next") \/ Again)
        /\ UNCHANGED <<row, jit, jobCancel, watch, heard, spoke>>
  /\ UNCHANGED <<server, code, files, setup, grant, remove, late, pending,
                 starts, exit, ran>>

----------------------------------------------------------------------------
(* The JIT lifecycle *)

(* listener.run returns: a job's conclusion, nothing when it was cancelled
   before one, or an error.  The watcher is told to stop. *)
ListenerReturns ==
  /\ jit = "live"
  /\ \E r \in Results \ {"none"} :
       /\ r = "idle" => jobCancel
       /\ loop' = [loop EXCEPT !.res = r]
       /\ ran' = IF r = "job" /\ ~Booting /\ Fenced(loop.job, loop.epoch)
                THEN {<<j, row[j].epoch>> : j \in Jobs} \cap (ran \cup {<<loop.job, loop.epoch>>})
                ELSE ran
  /\ jit' = "over"
  /\ UNCHANGED <<pairVars, row, watch, late, signals, starts, exit, heard, spoke>>

Stop == jit = "over"

DeadlinePasses ==
  /\ jit = "live" /\ ~late
  /\ late' = TRUE
  /\ UNCHANGED <<pairVars, row, loop, jit, watch, signals, starts, exit, ghosts>>

\* revoke: a 401 cancels the job and ends the watch with its reason.
Revoke ==
  /\ watch' = [watch EXCEPT !.pc = "revoked"] /\ jobCancel' = TRUE /\ heard' = TRUE

(* mark_dispatched: advisory; waits for the answer or for stop, nothing else. *)
Dispatch ==
  /\ watch.pc = "dispatch" /\ ~Booting
  /\ \/ Stop /\ watch' = NoWatch /\ UNCHANGED <<jobCancel, heard, faults>>
     \/ /\ Accepted(loop.token) /\ watch' = [watch EXCEPT !.pc = "watch"]
        /\ UNCHANGED <<jobCancel, heard, faults>>
     \/ ~Accepted(loop.token) /\ Revoke /\ UNCHANGED faults
     \/ Fault /\ watch' = [watch EXCEPT !.pc = "watch"] /\ UNCHANGED <<jobCancel, heard>>
  /\ UNCHANGED <<server, code, files, setup, grant, remove, row, loop, jit, late, cancel, drain,
                 pending, starts, exit, spoke, ran>>

\* Beat::Deadline, once.
Fire == watch' = [watch EXCEPT !.pc = "watch", !.fired = TRUE] /\ jobCancel' = TRUE

(* watch_claim, one turn of its select: any ready branch may be taken. *)
Mutant_Watch ==
  /\ watch.pc = "watch" /\ ~Booting
  /\ \/ Stop /\ watch' = NoWatch /\ UNCHANGED <<jobCancel, spoke>>
     \/ /\ watch.renewing /\ watch' = [watch EXCEPT !.pc = "beat"] /\ Send
        /\ UNCHANGED jobCancel
  /\ UNCHANGED <<pairVars, row, loop, jit, late, cancel, drain, pending, starts, exit, heard, ran>>
Watch ==
  /\ watch.pc = "watch" /\ ~Booting
  /\ \/ Stop /\ watch' = NoWatch /\ UNCHANGED <<jobCancel, spoke>>
     \/ late /\ ~watch.fired /\ Fire /\ UNCHANGED spoke
     \/ /\ watch.renewing /\ watch' = [watch EXCEPT !.pc = "beat"] /\ Send
        /\ UNCHANGED jobCancel
  /\ UNCHANGED <<pairVars, row, loop, jit, late, cancel, drain, pending, starts, exit, heard, ran>>

(* heartbeat: abandoned for stop or the deadline; renewed, lost (the job runs
   to its end without renewals), retried, or revoked. *)
Mutant_Heartbeat ==
  /\ watch.pc = "beat"
  /\ \/ Stop /\ watch' = NoWatch /\ UNCHANGED <<jobCancel, heard, faults>>
     \/ late /\ ~watch.fired /\ Fire /\ UNCHANGED <<heard, faults>>
     \/ /\ Accepted(loop.token)
        /\ watch' = [watch EXCEPT !.pc = "watch", !.renewing = Fenced(loop.job, loop.epoch)]
        /\ UNCHANGED <<jobCancel, heard, faults>>
     \/ /\ ~Accepted(loop.token) /\ watch' = [watch EXCEPT !.pc = "watch"] /\ heard' = TRUE
        /\ UNCHANGED <<jobCancel, faults>>
     \/ Fault /\ watch' = [watch EXCEPT !.pc = "watch"] /\ UNCHANGED <<jobCancel, heard>>
  /\ UNCHANGED <<server, code, files, setup, grant, remove, row, loop, jit, late, cancel, drain,
                 pending, starts, exit, spoke, ran>>
Heartbeat ==
  /\ watch.pc = "beat"
  /\ \/ Stop /\ watch' = NoWatch /\ UNCHANGED <<jobCancel, heard, faults>>
     \/ late /\ ~watch.fired /\ Fire /\ UNCHANGED <<heard, faults>>
     \/ /\ Accepted(loop.token)
        /\ watch' = [watch EXCEPT !.pc = "watch", !.renewing = Fenced(loop.job, loop.epoch)]
        /\ UNCHANGED <<jobCancel, heard, faults>>
     \/ ~Accepted(loop.token) /\ Revoke /\ UNCHANGED faults
     \/ Fault /\ watch' = [watch EXCEPT !.pc = "watch"] /\ UNCHANGED <<jobCancel, heard>>
  /\ UNCHANGED <<server, code, files, setup, grant, remove, row, loop, jit, late, cancel, drain,
                 pending, starts, exit, spoke, ran>>

(* The tail of lifecycle: the watcher is joined; its reason, if it has one,
   is fatal and nothing is reported. *)
Mutant_LifecycleEnds ==
  /\ loop.pc = "run" /\ Stop
  /\ IF watch.pc = "revoked" THEN LoopEnds /\ UNCHANGED spoke
     ELSE loop' = [loop EXCEPT !.pc = "complete", !.tries = 0] /\ Send
  /\ jit' = "none" /\ jobCancel' = FALSE /\ late' = FALSE
  /\ UNCHANGED <<pairVars, row, watch, pending, starts, exit, heard, ran>>
LifecycleEnds ==
  /\ loop.pc = "run" /\ Stop /\ watch.pc \in {"off", "revoked"}
  /\ IF watch.pc = "revoked" THEN LoopEnds /\ UNCHANGED spoke
     ELSE loop' = [loop EXCEPT !.pc = "complete", !.tries = 0] /\ Send
  /\ jit' = "none" /\ watch' = NoWatch /\ jobCancel' = FALSE /\ late' = FALSE
  /\ UNCHANGED <<pairVars, row, pending, starts, exit, heard, ran>>

----------------------------------------------------------------------------
(* The report *)

\* complete_body.
Mutant_CompleteBody(r) == IF r \in {"job", "idle"} THEN "done" ELSE "failed"
CompleteBody(r) == IF r = "job" THEN "done" ELSE "failed"

\* toolu.sh takes the report of a claim that is still this machine's.
Reported ==
  IF Fenced(loop.job, loop.epoch)
  THEN row' = [row EXCEPT ![loop.job].st = CompleteBody(loop.res)]
  ELSE UNCHANGED row

(* complete, one attempt: taken or refused, revoked, or unanswered, which is
   retried whether or not the loop is cancelled. *)
Complete ==
  /\ loop.pc = "complete"
  /\ \/ Accepted(loop.token) /\ Reported /\ Goto("settle") /\ UNCHANGED <<faults, heard>>
     \/ ~Accepted(loop.token) /\ LoopEnds /\ heard' = TRUE /\ UNCHANGED <<row, faults>>
     \/ /\ Fault
        /\ IF Accepted(loop.token) THEN Reported \/ UNCHANGED row ELSE UNCHANGED row
        /\ loop' = IF loop.tries + 1 < Attempts
                   THEN [loop EXCEPT !.tries = @ + 1] ELSE [loop EXCEPT !.pc = "settle"]
        /\ UNCHANGED heard
  /\ UNCHANGED <<server, code, files, setup, grant, remove, jit, watch, late, jobCancel, pending, starts,
                 exit, spoke, ran>>

(* settle after a run; both ways to go on poll again. *)
Settle ==
  /\ loop.pc = "settle"
  /\ \E once \in BOOLEAN :
       loop' = IF NextAction(loop.res, once, Stopping, pending) \in {"end", "fatal"}
               THEN Off ELSE [Off EXCEPT !.pc = "top"]
  /\ UNCHANGED <<pairVars, row, jit, watch, late, jobCancel, pending, starts, exit, ghosts>>

----------------------------------------------------------------------------
(* Signals, and `remove` meeting the loop *)

\* SIGINT or SIGTERM; a child token is cancelled with its parent.
Signal ==
  /\ loop.pc # "off" /\ ~cancel
  /\ cancel' = TRUE /\ jobCancel' = (jobCancel \/ jit # "none")
  /\ UNCHANGED <<pairVars, row, loop, jit, watch, late, drain, pending, starts, exit, ghosts>>

(* cmd_remove: a loop that holds the lock is drained first. *)
RemoveStarts ==
  /\ Idle /\ config /\ exit = Running /\ ~Booting
  /\ remove' = "wait"
  /\ pending' = Active
  /\ drain' = Active
  /\ UNCHANGED <<server, code, files, setup, grant, faults, row, loop, jit, watch, late, cancel,
                 jobCancel, starts, exit, ghosts>>

PairStep ==
  /\ PairNext
  /\ remove = "wait" /\ remove' = "revoke" => ~Active
  /\ pending' = (pending /\ ~(remove = "creds" /\ remove' = "off"))
  /\ UNCHANGED <<row, loop, jit, watch, late, cancel, drain, jobCancel, starts, exit, ghosts>>

----------------------------------------------------------------------------
(* boot: one JIT from the environment, on a box that is no machine *)

(* cmd_boot up to listener.run: inputs that are missing, past their deadline
   or unusable end it; without a usable TOOLU_DEADLINE there is no watchdog. *)
Boot ==
  /\ loop.pc = "off" /\ starts = 0 /\ setup = "off" /\ issued = 0 /\ exit = Running
  /\ \/ exit' \in {"2", "124"} /\ UNCHANGED <<loop, jit, jobCancel, watch>>
     \/ /\ loop' = [Off EXCEPT !.pc = "boot"] /\ StartJit
        /\ watch' \in {NoWatch, [NoWatch EXCEPT !.pc = "watch"]}
        /\ UNCHANGED exit
  /\ UNCHANGED <<pairVars, row, late, cancel, drain, pending, starts, ghosts>>

(* spawn_watchdog: stands down on a cancel, else flags the deadline and
   cancels; after the grace it exits the process. *)
Mutant_Watchdog ==
  /\ Booting /\ exit = Running
  /\ \/ /\ watch.pc = "watch" /\ cancel /\ watch' = NoWatch
        /\ UNCHANGED <<cancel, jobCancel, exit>>
     \/ /\ watch.pc = "watch" /\ late /\ watch' = [watch EXCEPT !.pc = "grace", !.fired = TRUE]
        /\ cancel' = TRUE /\ jobCancel' = TRUE /\ UNCHANGED exit
  /\ UNCHANGED <<pairVars, row, loop, jit, late, drain, pending, starts, ghosts>>
Watchdog ==
  /\ Booting /\ exit = Running
  /\ \/ /\ watch.pc = "watch" /\ cancel /\ watch' = NoWatch
        /\ UNCHANGED <<cancel, jobCancel, exit>>
     \/ /\ watch.pc = "watch" /\ late /\ watch' = [watch EXCEPT !.pc = "grace", !.fired = TRUE]
        /\ cancel' = TRUE /\ jobCancel' = TRUE /\ UNCHANGED exit
     \/ /\ watch.pc = "grace" /\ exit' = "124" /\ UNCHANGED <<watch, cancel, jobCancel>>
  /\ UNCHANGED <<pairVars, row, loop, jit, late, drain, pending, starts, ghosts>>

\* exit_code_for.
ExitCode(r) ==
  CASE r = "idle" -> {"0"} [] r = "job" -> {"0", "1"} [] r = "conflict" -> {"5"} [] OTHER -> {"1"}

(* run_listener_once after the listener returned: the deadline wins. *)
Mutant_BootReturns ==
  /\ Booting /\ Stop /\ exit = Running
  /\ exit' \in ExitCode(loop.res)
  /\ UNCHANGED <<pairVars, row, loop, jit, watch, late, signals, starts, ghosts>>
BootReturns ==
  /\ Booting /\ Stop /\ exit = Running
  /\ exit' \in IF watch.fired THEN {"124"} ELSE ExitCode(loop.res)
  /\ UNCHANGED <<pairVars, row, loop, jit, watch, late, signals, starts, ghosts>>

----------------------------------------------------------------------------

\* The tokens of a loop go with it.
LoopStep ==
  /\ Top \/ List \/ NextJob \/ Claim \/ LifecycleEnds \/ Complete \/ Settle
  /\ cancel' = (cancel /\ loop'.pc # "off")
  /\ drain' = (drain /\ loop'.pc # "off")
WatchStep == Dispatch \/ Watch \/ Heartbeat

Next ==
  \/ OthersClaim \/ Lapse
  \/ LoopStarts \/ LoopStep \/ WatchStep
  \/ ListenerReturns \/ DeadlinePasses
  \/ Signal \/ RemoveStarts \/ PairStep
  \/ Boot \/ Watchdog \/ BootReturns

(* The loop and the watcher are tasks of the runtime and every request is
   answered or times out; the clock reaches a deadline; a listener that was
   cancelled returns, except under boot, whose watchdog is there for one that
   does not.  Each of the watcher's selects polls all its branches, so one that
   stays ready is taken. *)
Fairness ==
  /\ WF_vars(LoopStep) /\ WF_vars(WatchStep) /\ WF_vars(Watchdog) /\ WF_vars(BootReturns)
  /\ WF_vars(DeadlinePasses)
  /\ WF_vars(WatchStep /\ (watch'.fired # watch.fired \/ watch'.pc = "off"))
  /\ WF_vars(ListenerReturns /\ ~Booting /\ jobCancel)

Spec == Init /\ [][Next]_vars /\ Fairness

----------------------------------------------------------------------------
(* Properties *)

(* A listed registration has a host token, wherever `setup` or `remove` was
   killed (persist's order, delete_registration_state's order). *)
ListedHasToken == config => creds # 0

(* After a 401 the loop sends nothing more with that token, and the job that
   was running was cancelled first (poll_job.rs: "nothing more is sent"). *)
SilentOnceRevoked ==
  ~spoke /\ (heard /\ jit = "live" => jobCancel)

(* toolu.sh shows a row of this machine as done only if the lifecycle of the
   row's own claim ran a job to a conclusion, whatever lapsed, was reclaimed
   or was reported twice in between. *)
DoneIsDone ==
  \A j \in Jobs : row[j].st = "done" => <<j, row[j].epoch>> \in ran

(* boot exits 0 only if no deadline was hit and 124 only if one was, and a
   conflict keeps its own code. *)
ExitIsTrue ==
  Booting /\ exit # Running =>
    /\ exit = "124" <=> watch.fired
    /\ exit = "0" => loop.res \in {"job", "idle"}

(* remove forgets a host token only once toolu.sh no longer accepts it
   (toolu_host::revoke: "or the machine would keep a token nobody can
   revoke"). *)
RemoveRevokesFirst ==
  [][remove = "creds" /\ creds # 0 /\ creds' = 0 => creds \notin tokens]_vars

(* A claim whose deadline passed does not keep its job: the lifecycle ends,
   whatever the heartbeats meet. *)
DeadlineEndsJob == loop.pc = "run" /\ late ~> loop.pc # "run"

(* A drained or cancelled loop ends, after the job in hand. *)
StoppedLoopEnds == Active /\ Stopping ~> ~Active

(* A boot whose deadline passed while nobody had cancelled it exits, even
   when its listener never returns. *)
BootEnds == (Booting /\ watch.pc = "watch" /\ late /\ ~cancel) ~> (exit # Running \/ watch.pc = "off")

(* What the box and toolu.sh hold of each other is true: a listed machine has
   a token, a revoked one is silent, a done row was run, an exit code tells
   what happened. *)
ClaimsAreTrue == TypeOK /\ ListedHasToken /\ SilentOnceRevoked /\ DoneIsDone /\ ExitIsTrue

(* Deadlines and stops end what they are for. *)
MachineEnds == DeadlineEndsJob /\ StoppedLoopEnds /\ BootEnds
=============================================================================
