-------------------------------- MODULE Orphans --------------------------------
(***************************************************************************)
(* The processes of one job on the host: step children and what they leave  *)
(* behind, and the sweep at the job's end (crates/execution:                *)
(* orphan_cleanup, cgroup_join, step_timeout, handlers::script,             *)
(* handlers::node_exec).                                                    *)
(*                                                                         *)
(* The kernel is external: a pid is given out again only when no process    *)
(* and no process group has it, and never within one tick of the clock in   *)
(* which start times are measured.  The sweep reads a candidate, checks it  *)
(* and signals it in separate steps, and a signal goes to whoever has the   *)
(* pid by then.                                                             *)
(***************************************************************************)
EXTENDS Naturals, FiniteSets

CONSTANTS Pids,       \* pids of this host, the runner's own aside
          MaxSteps,   \* bound on the job's host steps
          MaxSpawns,  \* bound on processes started
          MaxChanges, \* bound on processes that change what ties them to the job
          MaxClock,   \* bound on the clock
          Slack       \* START_SLACK_SECS

ASSUME OrphansAssumption ==
  MaxSteps \in Nat /\ MaxSpawns \in Nat /\ MaxChanges \in Nat /\ MaxClock \in Nat /\ Slack \in Nat

VARIABLES
  proc,     \* the process table
  clock,    \* the unit of Process::start_time
  started,  \* the last start time given out for a pid
  job,      \* ProcessTracking: [on, at, groups], how far the job is, and, for the
            \* properties, the groups a step left empty
  step,     \* the step child being waited for
  sweep,    \* the blocking sweep
  report,   \* CleanupReport
  killed,   \* for the properties: what received SIGKILL, as it was then
  logged,   \* pids whose kill is in the job log
  spawns    \* processes started and changed so far

vars == <<proc, clock, started, job, step, sweep, report, killed, logged, spawns>>

\* gen tells the incarnations of a group id apart; only properties read it.
Gone == [st |-> "gone", start |-> 0, id |-> FALSE, grp |-> 0, ours |-> TRUE, of |-> "nobody", gen |-> 0, pipe |-> FALSE]
Live(p) == proc[p].st = "live"
There(p) == proc[p].st # "gone"
Members(g) == {p \in Pids : There(p) /\ proc[p].grp = g}

----------------------------------------------------------------------------
(* The kernel and the processes *)

PidFree(p) == ~There(p) /\ Members(p) = {} /\ started[p] < clock

\* The kernel gives out the lowest pid there is.
NextPid(taken) ==
  LET free == {p \in Pids \ taken : PidFree(p)} IN
  {p \in free : \A q \in free : p <= q}

Start(p, r) ==
  /\ spawns.new < MaxSpawns /\ spawns' = [spawns EXCEPT !.new = @ + 1]
  /\ proc' = [proc EXCEPT ![p] = [r EXCEPT !.start = clock]]
  /\ started' = [started EXCEPT ![p] = clock]

Tick ==
  /\ clock < MaxClock /\ clock' = clock + 1
  /\ UNCHANGED <<proc, started, job, step, sweep, report, killed, logged, spawns>>

\* A process of the job forks: the child has its environment, group and pipe.
\* The kernel runs through the pids before it gives one out again, so the job's
\* own forks do not meet a pid the sweep has acted on.
Fork(p) ==
  /\ Live(p) /\ proc[p].of # "alien"
  /\ \E q \in NextPid(sweep.done \cup {t[1] : t \in sweep.tried}) : Start(q, proc[p])
  /\ UNCHANGED <<clock, job, step, sweep, report, killed, logged>>

\* exec of a program whose environment cannot be read, or that drops the id;
\* setsid or setpgid; a change of user.
Changes(p) ==
  /\ Live(p) /\ proc[p].of # "alien"
  /\ spawns.changed < MaxChanges /\ spawns' = [spawns EXCEPT !.changed = @ + 1]
  /\ \E r \in {[proc[p] EXCEPT !.id = FALSE],
               [proc[p] EXCEPT !.grp = p, !.gen = clock, !.of = IF @ = "job" THEN "left" ELSE @],
               [proc[p] EXCEPT !.ours = FALSE, !.id = FALSE]} :
       (r.grp # proc[p].grp \/ r.id # proc[p].id \/ r.ours # proc[p].ours) /\ proc' = [proc EXCEPT ![p] = r]
  /\ (proc'[p].grp # proc[p].grp => Members(p) = {})
  /\ UNCHANGED <<clock, started, job, step, sweep, report, killed, logged>>

\* A process of somebody else starts, in a group of its own or in one of theirs.
Unrelated ==
  /\ \E q \in NextPid({}) :
       \E g \in {<<q, clock>>} \cup {<<proc[p].grp, proc[p].gen>> :
                                  p \in {p \in Pids : There(p) /\ proc[p].of = "alien"}} :
         Start(q, [Gone EXCEPT !.st = "live", !.grp = g[1], !.gen = g[2], !.of = "alien"])
  /\ UNCHANGED <<clock, job, step, sweep, report, killed, logged>>

\* A process ends.  The child of a running step stays a zombie until the step
\* waits for it; one that was killed may be a zombie for a while.
Ends(p) ==
  /\ proc[p].st \in {"live", "dying", "zombie"}
  /\ \/ /\ proc[p].st # "zombie"
        /\ proc' = [proc EXCEPT ![p].st = "zombie", ![p].id = FALSE, ![p].pipe = FALSE]
        /\ (proc[p].st = "live" => step.pc = "running" /\ step.root = p)
     \/ ~(step.pc = "running" /\ step.root = p) /\ proc' = [proc EXCEPT ![p] = Gone]
  /\ UNCHANGED <<clock, started, job, step, sweep, report, killed, logged, spawns>>

----------------------------------------------------------------------------
(* A host step: ScriptHandler::execute, execute_node_action *)

\* step_process_env::apply: the workflow's own RUNNER_TRACKING_ID, the empty
\* opt-out included, wins over the job's.
ChildEnv(optout) == job.on /\ ~optout

\* register_group: only a step whose environment carries the id.
Mutant_Registered(p, optout) == job.groups \cup {[id |-> p, start |-> clock]}
Registered(p, optout) ==
  IF ChildEnv(optout) THEN job.groups \cup {[id |-> p, start |-> clock]} ELSE job.groups

\* spawn_in_cgroup: the child leads a process group of its own.
Mutant_OwnGroup(p) == 0
OwnGroup(p) == p
SpawnStep(p, optout) ==
  /\ job.pc = "steps" /\ step.pc = "none" /\ step.n < MaxSteps /\ p \in NextPid({})
  /\ Start(p, [st |-> "live", start |-> 0, id |-> ChildEnv(optout), grp |-> OwnGroup(p), ours |-> TRUE,
               gen |-> clock,
               of |-> IF ChildEnv(optout) THEN "job" ELSE "optout", pipe |-> TRUE])
  /\ job' = [job EXCEPT !.groups = IF job.on THEN Registered(p, optout) ELSE {}, !.empty = @ \ {p}]
  /\ step' = [step EXCEPT !.pc = "running", !.root = p]
  /\ UNCHANGED <<clock, sweep, report, killed, logged>>

\* wait_bounded: the child exits and is reaped.
StepExits ==
  /\ step.pc = "running" /\ proc[step.root].st = "zombie"
  /\ proc' = [proc EXCEPT ![step.root] = Gone]
  /\ step' = [step EXCEPT !.pc = "waited"]
  /\ UNCHANGED <<clock, started, job, sweep, report, killed, logged, spawns>>

\* kill_process_group, then kill_and_reap of the child: on a timeout or a
\* cancel every member of the group gets SIGKILL.  A child that does not die in
\* the grace period is left behind.
Signalled(ps) == [p \in Pids |-> IF p \in ps /\ proc[p].st = "live" THEN [proc[p] EXCEPT !.st = "dying"]
                                 ELSE proc[p]]
StepKilled ==
  /\ step.pc = "running"
  /\ \E reaped \in BOOLEAN :
       proc' = IF reaped THEN [Signalled(Members(step.root)) EXCEPT ![step.root] = Gone]
               ELSE Signalled(Members(step.root))
  /\ step' = [step EXCEPT !.pc = "waited"]
  /\ UNCHANGED <<clock, started, job, sweep, report, killed, logged, spawns>>

\* A cleanup deadline drops the whole stage: kill_on_drop signals the child
\* alone, and the group stays registered.
StepDropped ==
  /\ step.pc = "running"
  /\ proc' = Signalled({step.root})
  /\ step' = [step EXCEPT !.pc = "none", !.root = 0, !.n = @ + 1]
  /\ UNCHANGED <<clock, started, job, sweep, report, killed, logged, spawns>>

\* release_if_empty.
Release(g) == IF Members(g) = {} THEN {t \in job.groups : t.id # g} ELSE job.groups
ReleaseGroup ==
  /\ step.pc = "waited"
  /\ job' = [job EXCEPT !.groups = Release(step.root),
                        !.empty = IF Members(step.root) = {} THEN @ \cup {step.root} ELSE @]
  /\ step' = [step EXCEPT !.pc = "drain"]
  /\ UNCHANGED <<proc, clock, started, sweep, report, killed, logged, spawns>>

\* bounded_drain of the readers: end of file once nobody holds the pipe, or
\* the grace period.
PipeHeld == \E p \in Pids : There(p) /\ proc[p].pipe
StepOver == step' = [step EXCEPT !.pc = "none", !.root = 0, !.n = @ + 1]
DrainEnds ==
  /\ step.pc = "drain" /\ ~PipeHeld /\ StepOver
  /\ UNCHANGED <<proc, clock, started, job, sweep, report, killed, logged, spawns>>
Mutant_DrainGrace ==
  /\ step.pc = "drain" /\ ~PipeHeld /\ StepOver
  /\ UNCHANGED <<proc, clock, started, job, sweep, report, killed, logged, spawns>>
DrainGrace ==
  /\ step.pc = "drain" /\ PipeHeld
  /\ step' = [step EXCEPT !.pc = "none", !.root = 0, !.n = @ + 1]
  \* The reader is aborted: its end of the pipe is closed.
  /\ proc' = [p \in Pids |-> [proc[p] EXCEPT !.pipe = FALSE]]
  /\ UNCHANGED <<clock, started, job, sweep, report, killed, logged, spawns>>

----------------------------------------------------------------------------
(* The sweep *)

\* The body is over and the containers are gone: snapshot() of the tracking,
\* and the blocking thread starts.  Without tracking there is no sweep.
BeginSweep ==
  /\ job.pc = "steps" /\ step.pc = "none"
  /\ job' = [job EXCEPT !.pc = IF job.on THEN "sweep" ELSE "done"]
  /\ sweep' = IF job.on THEN [sweep EXCEPT !.pc = "scan", !.groups = job.groups] ELSE sweep
  /\ UNCHANGED <<proc, clock, started, step, report, killed, logged, spawns>>

\* What the thread reports is read only by a job that still waits for it.
Reports(r) == report' = IF job.pc = "sweep" THEN r ELSE report

SweepRuns == sweep.pc \in {"scan", "kill", "wait"}

\* A refresh of the System: the start time of who is there, 0 for nobody.
StartOf(p) == IF There(p) THEN proc[p].start ELSE 0
Starts == [p \in Pids |-> StartOf(p)]
Unread == [p \in Pids |-> 0]

\* group_owned: by what was read last, the leader is gone or the one registered.
\* The group of a process is asked for at the moment of the check.
GroupOwned(g, system) == system[g.id] \in {0, g.start}
OwnedGroup(p, system) == \E g \in sweep.groups : g.id = proc[p].grp /\ GroupOwned(g, system)
InTrackedGroup(p) == proc[p].start + Slack >= job.at /\ proc[p].ours /\ OwnedGroup(p, Starts)

Evidence(p) == IF proc[p].id THEN "environment" ELSE "group"

\* scan_candidates: a zombie is no candidate.
Candidates == {p \in Pids : proc[p].st \in {"live", "dying"} /\ (proc[p].id \/ InTrackedGroup(p))}

\* Attempts::fresh: once for each kind of evidence, never after it is done.
Mutant_Fresh(ps) == {p \in ps : p \notin sweep.done /\ \A t \in sweep.tried : t[1] # p}
Fresh(ps) == {p \in ps : p \notin sweep.done /\ <<p, Evidence(p)>> \notin sweep.tried}

\* A pass: the deadline, the scan, and the candidates not yet attempted.
ScanPass ==
  /\ SweepRuns /\ sweep.pc = "scan"
  /\ \E seen \in BOOLEAN :
       LET fresh == Fresh(IF seen THEN Candidates ELSE {}) IN
       IF sweep.late
       THEN /\ seen /\ Reports([report EXCEPT !.late = TRUE])
            /\ sweep' = [sweep EXCEPT !.pc = "wait"]
       ELSE /\ Reports([report EXCEPT !.degraded = @ \/ ~seen])
            /\ sweep' = [sweep EXCEPT !.pc = IF fresh = {} THEN "wait" ELSE "kill",
                           !.todo = {[pid |-> p, start |-> proc[p].start, by |-> Evidence(p)] : p \in fresh},
                           !.tried = @ \cup {<<p, Evidence(p)>> : p \in fresh},
                           !.system = Starts]
  /\ UNCHANGED <<proc, clock, started, job, step, killed, logged, spawns>>

\* The deadline is looked at before each candidate.  kill_verified asks for the
\* group of a candidate found by it, and reads its start time again; the thread
\* may then be parked in the kernel for as long as a read takes.
TakeCandidate(c) ==
  /\ SweepRuns /\ sweep.pc = "kill" /\ sweep.at = {} /\ ~sweep.late
  /\ sweep' = [sweep EXCEPT !.at = {c}, !.system[c.pid] = StartOf(c.pid),
                 !.leader = IF c.by = "group" /\ There(c.pid) THEN {proc[c.pid].grp} \ {c.pid} ELSE {}]
  /\ UNCHANGED <<proc, clock, started, job, step, report, killed, logged, spawns>>

\* The same refresh reads the leader of that group.
ReadLeader(c) ==
  /\ SweepRuns /\ sweep.pc = "kill" /\ c \in sweep.at /\ sweep.leader # {}
  /\ sweep' = [sweep EXCEPT !.leader = {},
                 !.system = [p \in Pids |-> IF p \in sweep.leader THEN StartOf(p) ELSE @[p]]]
  /\ UNCHANGED <<proc, clock, started, job, step, report, killed, logged, spawns>>

\* kill_verified: what was read is the process of the scan, and the pid is still
\* tied to the job by the same evidence.
Mutant_StillTied(c) ==
  IF c.by = "environment" THEN There(c.pid) /\ proc[c.pid].id ELSE OwnedGroup(c.pid, sweep.system)
StillTied(c) ==
  /\ sweep.system[c.pid] = c.start
  /\ IF c.by = "environment" THEN proc[c.pid].id ELSE There(c.pid) /\ OwnedGroup(c.pid, sweep.system)

\* The sweep is through with a candidate; the next pass reads everything again.
After(c) ==
  [sweep EXCEPT !.todo = @ \ {c}, !.at = {}, !.sure = {}, !.pc = IF sweep.todo = {c} THEN "scan" ELSE "kill",
     !.system = IF sweep.todo = {c} THEN Unread ELSE @]

\* sure holds, for the properties, the group the candidate was found in.
Verify(c) ==
  /\ SweepRuns /\ sweep.pc = "kill" /\ c \in sweep.at /\ sweep.leader = {} /\ sweep.sure = {}
  /\ sweep' =
       IF StillTied(c)
       THEN [sweep EXCEPT !.sure =
               {[grp |-> proc[c.pid].grp, led |-> There(proc[c.pid].grp),
                 reused |-> \A g \in sweep.groups : g.id = proc[c.pid].grp => g.start # proc[c.pid].gen]}]
       ELSE After(c)
  /\ UNCHANGED <<proc, clock, started, job, step, report, killed, logged, spawns>>

\* kill_with: SIGKILL to whoever has the pid now.  Nobody, or another user's
\* process, is a failure.
KillOne(c) ==
  /\ SweepRuns /\ sweep.pc = "kill" /\ c \in sweep.at
  /\ \E s \in sweep.sure :
       \/ /\ There(c.pid) /\ proc[c.pid].ours
          /\ sweep' = [After(c) EXCEPT !.done = @ \cup {c.pid}, !.waiting = @ \cup {c}]
          /\ killed' = killed \cup {[pid |-> c.pid, of |-> proc[c.pid].of, was |-> s,
                                     same |-> proc[c.pid].start = sweep.system[c.pid],
                                     backstop |-> job.pc = "done"]}
          /\ proc' = Signalled({c.pid}) /\ UNCHANGED report
       \/ /\ ~(There(c.pid) /\ proc[c.pid].ours)
          /\ sweep' = [After(c) EXCEPT !.done = @ \cup {c.pid}]
          /\ Reports([report EXCEPT !.survivors = @ \cup {c.pid}])
          /\ UNCHANGED <<proc, killed>>
  /\ UNCHANGED <<clock, started, job, step, logged, spawns>>

KillsCutShort ==
  /\ SweepRuns /\ sweep.pc = "kill" /\ sweep.late /\ sweep.at = {}
  /\ sweep' = [sweep EXCEPT !.pc = "wait", !.todo = {}, !.system = Unread]
  /\ Reports([report EXCEPT !.late = TRUE])
  /\ UNCHANGED <<proc, clock, started, job, step, killed, logged, spawns>>

\* has_exited: gone, a zombie, or another process now.
Exited(c) == ~There(c.pid) \/ proc[c.pid].st = "zombie" \/ proc[c.pid].start # c.start

\* sweep_blocking is over: what it kept goes with it.
Returned ==
  [sweep EXCEPT !.pc = "reported", !.todo = {}, !.at = {}, !.tried = {}, !.done = {}, !.waiting = {},
     !.system = Unread, !.leader = {}, !.sure = {}]

\* wait_for_exit: polls until all are gone, or the deadline; then the survivors
\* are looked at once more.
WaitForExit ==
  LET left == {c.pid : c \in {c \in sweep.waiting : ~Exited(c)}}
      survivors == report.survivors \cup left IN
  /\ SweepRuns /\ sweep.pc = "wait" /\ (left = {} \/ sweep.late)
  /\ sweep' = Returned
  /\ Reports([report EXCEPT !.late = @ \/ left # {},
                !.survivors = {p \in survivors : proc[p].st \in {"live", "dying"}}])
  /\ UNCHANGED <<proc, clock, started, job, step, killed, logged, spawns>>

\* The deadline of 15 s passes.
DeadlinePasses ==
  /\ sweep.pc \in {"scan", "kill", "wait"} /\ ~sweep.late
  /\ sweep' = [sweep EXCEPT !.late = TRUE]
  /\ UNCHANGED <<proc, clock, started, job, step, report, killed, logged, spawns>>

\* Every arm takes the kills made so far out of the shared list.
Mutant_TakeKills == IF sweep.pc = "reported" THEN {k.pid : k \in killed} ELSE {}
TakeKills == {k.pid : k \in killed}

\* sweep(): the thread is joined, its kills logged, its report warned about.
Joined ==
  /\ job.pc = "sweep" /\ sweep.pc = "reported"
  /\ job' = [job EXCEPT !.pc = "done"] /\ logged' = TakeKills
  /\ UNCHANGED <<proc, clock, started, step, sweep, report, killed, spawns>>

\* The blocking task panicked.
JoinFails ==
  /\ job.pc = "sweep" /\ SweepRuns
  /\ job' = [job EXCEPT !.pc = "done"] /\ logged' = TakeKills
  /\ sweep' = Returned
  /\ report' = [late |-> FALSE, degraded |-> FALSE, failed |-> TRUE, survivors |-> {}]
  /\ UNCHANGED <<proc, clock, started, step, killed, spawns>>

\* JOIN_BACKSTOP, 2 s after the deadline: the job goes on without the thread.
Mutant_Backstop == FALSE /\ UNCHANGED vars
Backstop ==
  /\ job.pc = "sweep" /\ sweep.late /\ sweep.pc # "reported"
  /\ job' = [job EXCEPT !.pc = "done"] /\ logged' = TakeKills
  /\ report' = [late |-> TRUE, degraded |-> FALSE, failed |-> FALSE, survivors |-> {}]
  /\ UNCHANGED <<proc, clock, started, step, sweep, killed, spawns>>

----------------------------------------------------------------------------
Init ==
  /\ proc = [p \in Pids |-> Gone] /\ clock = 1 /\ started = [p \in Pids |-> 0]
  /\ \E on \in BOOLEAN : job = [pc |-> "steps", on |-> on, at |-> 1, groups |-> {}, empty |-> {}]
  /\ step = [pc |-> "none", root |-> 0, n |-> 0]
  /\ sweep = [pc |-> "idle", groups |-> {}, todo |-> {}, at |-> {}, tried |-> {}, done |-> {},
              waiting |-> {}, late |-> FALSE, system |-> Unread, leader |-> {}, sure |-> {}]
  /\ report = [late |-> FALSE, degraded |-> FALSE, failed |-> FALSE, survivors |-> {}]
  /\ killed = {} /\ logged = {} /\ spawns = [new |-> 0, changed |-> 0]

KernelStep ==
  \/ Tick
  \/ Unrelated
  \/ \E p \in Pids : Fork(p) \/ Changes(p) \/ Ends(p)
SpawnNext == \E p \in Pids, optout \in BOOLEAN : SpawnStep(p, optout)
StepNext == StepExits \/ ReleaseGroup \/ DrainEnds \/ DrainGrace
SweepNext ==
  \/ ScanPass \/ KillsCutShort \/ WaitForExit
  \/ \E c \in sweep.todo : TakeCandidate(c) \/ ReadLeader(c) \/ Verify(c) \/ KillOne(c)
JoinNext == Joined \/ Backstop

Next ==
  \/ (job.pc # "done" \/ sweep.pc = "kill") /\ KernelStep
  \/ SpawnNext \/ StepNext \/ StepKilled \/ StepDropped
  \/ BeginSweep \/ SweepNext \/ DeadlinePasses \/ JoinNext \/ JoinFails

\* The runner's tasks run and the timers fire; nothing is asked of the blocking
\* thread, which may stay in the kernel.
Fairness == WF_vars(StepNext) /\ WF_vars(JoinNext) /\ WF_vars(DeadlinePasses)

Spec == Init /\ [][Next]_vars /\ Fairness

----------------------------------------------------------------------------
(* Properties *)

\* A running step's child is in the process table under its own group, and the
\* groups the sweep matches were all registered.
TypeOK ==
  /\ \A p \in Pids : proc[p].st \in {"live", "dying", "zombie", "gone"}
  /\ step.pc = "running" => There(step.root) /\ proc[step.root].grp = step.root
  /\ sweep.groups \subseteq job.groups
  /\ \A g \in job.groups : g.id \in Pids /\ g.start <= clock
  /\ \A c \in sweep.todo \cup sweep.waiting : c.pid \in Pids
  /\ spawns.new <= MaxSpawns

\* The sweep kills only what tracked steps left behind: nothing of others and
\* nothing of a step that opted out.  Two narrow cases remain: the one
\* orphan_cleanup's own comment names, a member of a group that got the id of one
\* a step left members in, and whose leader has exited; and a process that got
\* the pid after its start time was read and before the signal.
NoInnocentKilled ==
  \A k \in killed :
    k.of \in {"alien", "optout"} /\ k.same => k.was.reused /\ ~k.was.led /\ k.was.grp \notin job.empty

\* A sweep whose report has no warning left nothing that carries the job's id
\* or sits in a group of its steps.
CleanReportIsTrue ==
  job.pc = "done" /\ job.on /\ ~(report.late \/ report.degraded \/ report.failed) /\ report.survivors = {} =>
    \A p \in Pids : Live(p) =>
      /\ proc[p].of \in {"job", "left"} => ~proc[p].id
      /\ proc[p].of = "job" => ~InTrackedGroup(p)

\* Every kill made while the job waited is in its log.
KillsAreLogged == job.pc = "done" => \A k \in killed : k.backstop \/ k.pid \in logged

\* A step whose child has ended is over, whoever holds its pipe.
StepCompletes == step.pc = "waited" ~> step.pc = "none"

\* The job completes whatever the sweep meets: a parked thread, a process that
\* cannot be killed, processes that keep forking.
SweepEnds == job.pc = "sweep" ~> job.pc = "done"

(* The sweep of a job's processes kills nobody else, and what it reports is
   so: no warning means nothing was left, and every kill in time is logged. *)
SweepIsSafe == TypeOK /\ NoInnocentKilled /\ CleanReportIsTrue /\ KillsAreLogged

(* Neither a step nor the sweep waits for ever for a process. *)
NothingHangs == StepCompletes /\ SweepEnds
=============================================================================
