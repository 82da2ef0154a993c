---------------------------- MODULE OrphansProofs ----------------------------
(***************************************************************************)
(* Proofs about module Orphans for any number of pids, steps, forks and     *)
(* changes: the sweep at a job's end kills nobody else, and what it         *)
(* reports is so.                                                           *)
(*                                                                         *)
(* The invariant, SweepInv, has two halves.  Kernel ties the process table  *)
(* to the groups the job registered: start times only grow, so a pid and a  *)
(* start time, or a group number and its making, name one process or one    *)
(* incarnation for ever, and a group number is taken by nobody but its      *)
(* leader while it has members.  Attempted is the argument of the sweep: a  *)
(* candidate that was looked at lost the evidence it was looked at for, or  *)
(* was signalled; a pass over everything with nothing new to attempt has    *)
(* therefore settled everything, and settled processes stay settled.        *)
(* Reading is what the refresh of one candidate is good for: until the      *)
(* signal, what was read of the candidate and of its group's leader still   *)
(* decides whether the process of that pid is the job's, unless the pid     *)
(* has been given out again.                                                *)
(***************************************************************************)
EXTENDS Orphans, TLAPS

\* ----- The process table.

\* Start times only grow, pid by pid; what is there started last of its pid.
Clocks ==
  \A p \in Pids :
    /\ started[p] <= clock
    /\ There(p) => proc[p].start = started[p] /\ 1 <= proc[p].start

\* What never had the job's id, or may not be signalled, does not carry it.
Marked ==
  \A p \in Pids :
    /\ proc[p].of \in {"alien", "optout"} => ~proc[p].id
    /\ ~proc[p].ours => ~proc[p].id
    /\ ~There(p) => ~proc[p].id /\ proc[p].of = "nobody"
    /\ There(p) => proc[p].of # "nobody" /\ proc[p].grp \in Pids

\* A group is of one making: a process whose pid names a group leads that
\* group, and its members are of one incarnation and of one origin.
Grouped ==
  /\ \A p \in Pids : There(p) /\ There(proc[p].grp) => proc[proc[p].grp].grp = proc[p].grp
  /\ \A p, q \in Pids : There(p) /\ There(q) /\ proc[p].grp = proc[q].grp =>
                          proc[p].gen = proc[q].gen /\ proc[p].of = proc[q].of

\* ----- The groups the job registered.

\* What a tracked step left is in a registered group, made when its leader started.
Tracked ==
  \A p \in Pids : There(p) /\ proc[p].of = "job" =>
    /\ job.on /\ [id |-> proc[p].grp, start |-> proc[p].gen] \in job.groups
    /\ proc[p].grp = p => proc[p].gen = proc[p].start

\* A registered group was started for a tracked step, was never left empty, and
\* neither its leader nor a member of that incarnation is anybody else's.
Registry ==
  \A g \in job.groups :
    /\ g.id \in Pids /\ g.start \in Nat /\ 1 <= g.start /\ g.start <= started[g.id]
    /\ g.id \notin job.empty
    /\ There(g.id) /\ proc[g.id].start = g.start => proc[g.id].of \notin {"alien", "optout"}
    /\ \A p \in Pids : There(p) /\ proc[p].grp = g.id /\ proc[p].gen = g.start =>
                         proc[p].of \notin {"alien", "optout"}

Proc == [st : {"live", "dying", "zombie", "gone"}, start : Nat, id : BOOLEAN,
         grp : Pids \cup {0}, ours : BOOLEAN,
         of : {"job", "left", "optout", "alien", "nobody"}, gen : Nat, pipe : BOOLEAN]

ProcType ==
  /\ proc \in [Pids -> Proc]
  /\ clock \in Nat /\ 1 <= clock /\ started \in [Pids -> Nat]

Kernel == ProcType /\ Clocks /\ Marked /\ Grouped /\ Tracked /\ Registry

\* ----- The step and the stages of the job.

JobStages ==
  /\ job \in [pc : {"steps", "sweep", "done"}, on : BOOLEAN, at : {1},
              groups : SUBSET [id : Pids, start : Nat], empty : SUBSET Pids]
  /\ step \in [pc : {"none", "running", "waited", "drain"}, root : Pids \cup {0}, n : Nat]
  /\ step.pc # "none" => job.pc = "steps" /\ step.root \in Pids
  /\ job.pc = "steps" => sweep.pc = "idle"
  /\ job.pc = "sweep" => sweep.pc # "idle" /\ job.on
  /\ spawns \in [new : 0..MaxSpawns, changed : Nat]

\* A running step's child is there, under its own group.
Stages ==
  /\ JobStages
  /\ step.pc = "running" => There(step.root) /\ proc[step.root].grp = step.root

\* ----- The sweep.

Candidate == [pid : Pids, start : Nat, by : {"environment", "group"}]

SweepRecord ==
  [pc : {"idle", "scan", "kill", "wait", "reported"}, groups : SUBSET [id : Pids, start : Nat],
   todo : SUBSET Candidate, at : SUBSET Candidate,
   tried : SUBSET (Pids \X {"environment", "group"}), done : SUBSET Pids,
   waiting : SUBSET Candidate, late : BOOLEAN,
   system : [Pids -> Nat], leader : SUBSET Pids,
   sure : SUBSET [grp : Pids \cup {0}, led : BOOLEAN, reused : BOOLEAN]]
CleanupReport == [late : BOOLEAN, degraded : BOOLEAN, failed : BOOLEAN, survivors : SUBSET Pids]

Sweep ==
  /\ sweep \in SweepRecord /\ report \in CleanupReport
  /\ sweep.pc = "idle" =>
       /\ sweep.groups = {} /\ sweep.todo = {} /\ sweep.tried = {} /\ sweep.done = {}
       /\ sweep.waiting = {} /\ killed = {}
  /\ sweep.pc # "idle" => job.pc # "steps" /\ job.on /\ sweep.groups = job.groups
  /\ sweep.pc = "scan" => sweep.todo = {}
  /\ \A c \in sweep.todo : <<c.pid, c.by>> \in sweep.tried
  \* A pid the sweep means to signal is not given to another process of the job.
  /\ \A c \in sweep.todo : proc[c.pid].of \in {"nobody", "alien"} \/ proc[c.pid].start = c.start

\* The process whose start time was read last for this pid.
Same(p) == There(p) /\ proc[p].start = sweep.system[p]

\* Of a candidate in hand: a process of the job under its pid is the one that was
\* read, and the leader of its group was read as gone or as the one registered;
\* somebody else's in a group read as owned is one whose leader has exited; and
\* what was found tied to the job, if it is somebody else's, is the known case.
Reading ==
  /\ \A p \in Pids : sweep.system[p] <= started[p]
  /\ sweep.at = {} => sweep.leader = {} /\ sweep.sure = {}
  /\ sweep.sure # {} => sweep.leader = {}
  /\ \A c, d \in sweep.at : c = d
  /\ \A c \in sweep.at :
       /\ c \in sweep.todo /\ c.pid \notin sweep.leader
       /\ proc[c.pid].of \notin {"nobody", "alien"} => sweep.system[c.pid] = c.start
       /\ c.by = "group" /\ proc[c.pid].of = "job" /\ proc[c.pid].grp \notin sweep.leader =>
            sweep.system[proc[c.pid].grp] \in {0, proc[c.pid].gen}
       /\ /\ c.by = "group" /\ Same(c.pid) /\ proc[c.pid].of \in {"alien", "optout"}
          /\ proc[c.pid].grp \notin sweep.leader /\ There(proc[c.pid].grp)
          => \A g \in sweep.groups :
               g.id = proc[c.pid].grp => sweep.system[g.id] \notin {0, g.start}
       /\ Same(c.pid) /\ proc[c.pid].of \in {"alien", "optout"} =>
            \A s \in sweep.sure : s.reused /\ ~s.led /\ s.grp \notin job.empty

\* Nothing of this process is left for the sweep.
Settled(p) ==
  proc[p].st = "live" =>
    /\ proc[p].of \in {"job", "left"} => ~proc[p].id
    /\ proc[p].of = "job" => ~proc[p].ours

Waits(p, by) == \E c \in sweep.todo : c.pid = p /\ c.by = by

\* What the sweep is done with is settled, and an attempt that was made settled
\* the evidence it was made for.
Attempted ==
  /\ \A p \in sweep.done : Settled(p)
  /\ sweep.pc \in {"scan", "kill"} =>
       \A p \in Pids :
         /\ <<p, "environment">> \in sweep.tried /\ ~Waits(p, "environment") =>
              p \in sweep.done \/ ~proc[p].id
         /\ <<p, "group">> \in sweep.tried /\ ~Waits(p, "group") =>
              p \in sweep.done \/ proc[p].of # "job"

\* A pass over all processes with nothing left to attempt settled them all; the
\* job ends with it, or its report carries a warning.
Unwarned == ~report.late /\ ~report.degraded /\ ~report.failed
Told ==
  /\ job.pc = "sweep" /\ sweep.pc \in {"wait", "reported"} /\ Unwarned => \A p \in Pids : Settled(p)
  /\ job.pc = "done" /\ job.on /\ Unwarned => sweep.pc = "reported" /\ \A p \in Pids : Settled(p)

SweepInv == Kernel /\ Stages /\ Sweep /\ Reading /\ Attempted /\ Told /\ NoInnocentKilled /\ KillsAreLogged

-----------------------------------------------------------------------------
(* The process table: signals, ends and forks.                              *)

\* Processes only end, are signalled, or lose their id; who
\* is of another user has lost it.
Shrinks ==
  \A p \in Pids :
    \/ proc'[p] = proc[p]
    \/ ~There(p)' /\ ~proc'[p].id /\ proc'[p].of = "nobody"
    \/ /\ There(p) /\ proc'[p].st # "gone"
       /\ proc'[p].start = proc[p].start /\ proc'[p].grp = proc[p].grp
       /\ proc'[p].of = proc[p].of /\ proc'[p].gen = proc[p].gen
       /\ ~proc'[p].id \/ (proc[p].id /\ proc'[p].ours = proc[p].ours)
       /\ proc'[p].ours => proc[p].ours
       /\ proc'[p].st = "live" => proc[p].st = "live"

SameGroups == job'.on = job.on /\ job'.groups = job.groups /\ job'.empty = job.empty

LEMMA GoneRecord ==
  /\ Gone \in Proc /\ Gone.st = "gone" /\ Gone.of = "nobody"
  /\ ~Gone.id /\ Gone.ours
  BY DEF Gone, Proc

LEMMA ShrinksKernel ==
  ASSUME Kernel, Shrinks, proc' \in [Pids -> Proc], UNCHANGED <<clock, started>>, SameGroups
  PROVE  Kernel'
<1> USE DEF Kernel, ProcType, Proc, There
<1>1. ProcType'
  BY DEF Proc
<1>2. \A p \in Pids : There(p)' =>
        /\ There(p) /\ proc'[p].start = proc[p].start /\ proc'[p].grp = proc[p].grp
        /\ proc'[p].of = proc[p].of /\ proc'[p].gen = proc[p].gen
  BY DEF Shrinks
<1>3. Clocks'
  BY <1>2 DEF Clocks
<1>4. Marked'
  <2>1. \A p \in Pids : proc'[p].id => proc[p].id
    BY Zenon DEF Shrinks
  <2> QED BY <2>1, <1>2 DEF Marked, Shrinks
<1>5. Grouped'
  BY <1>2 DEF Grouped, Marked
<1>6. Tracked'
  BY <1>2 DEF Tracked, SameGroups
<1>7. Registry'
  BY <1>2 DEF Registry, SameGroups
<1> QED BY <1>1, <1>3, <1>4, <1>5, <1>6, <1>7

\* A pid that is given out: nothing is there, and no group has its number.
LEMMA FreePid ==
  ASSUME NEW taken, NEW q \in NextPid(taken)
  PROVE  /\ q \in Pids /\ q \notin taken /\ ~There(q) /\ started[q] < clock
         /\ \A p \in Pids : There(p) => proc[p].grp # q
  BY DEF NextPid, PidFree, Members

LEMMA ForkKernel ==
  ASSUME Kernel, NEW p \in Pids, Fork(p)
  PROVE  Kernel'
<1> USE DEF Kernel, ProcType, Proc, There
<1>1. PICK q \in NextPid(sweep.done \cup {t[1] : t \in sweep.tried}) : Start(q, proc[p])
  BY DEF Fork
<1>2. /\ proc' = [proc EXCEPT ![q] = [proc[p] EXCEPT !.start = clock]]
      /\ started' = [started EXCEPT ![q] = clock] /\ clock' = clock /\ job' = job
      /\ proc[p].st = "live" /\ proc[p].of # "alien"
  BY <1>1 DEF Start, Fork, Live
<1>3. /\ q \in Pids /\ ~There(q) /\ started[q] < clock
      /\ \A r \in Pids : There(r) => proc[r].grp # q
  BY <1>1, FreePid
<1>4. /\ proc'[q].start = clock /\ proc'[q].grp = proc[p].grp /\ proc'[q].of = proc[p].of
      /\ proc'[q].gen = proc[p].gen /\ proc'[q].st = "live"
      /\ \A r \in Pids : r # q => proc'[r] = proc[r]
      /\ p # q
  BY <1>2, <1>3
<1>5. ProcType'
  BY <1>2, <1>3
<1>6. Clocks'
  BY <1>2, <1>3, <1>4 DEF Clocks
<1>7. Marked'
  <2>1. proc'[q].id = proc[p].id /\ proc'[q].ours = proc[p].ours
    BY <1>2, <1>3
  <2> SUFFICES ASSUME NEW r \in Pids PROVE Marked!(r)'
    BY DEF Marked
  <2>2. CASE r = q
    BY <2>1, <2>2, <1>2, <1>4 DEF Marked
  <2>3. CASE r # q
    BY <2>3, <1>4 DEF Marked
  <2> QED BY <2>2, <2>3
<1>8. Grouped'
  BY <1>2, <1>3, <1>4 DEF Grouped, Marked
<1>9. Tracked'
  BY <1>2, <1>3, <1>4 DEF Tracked, Marked
<1>10. Registry'
  <2> SUFFICES ASSUME NEW g \in job.groups PROVE Registry!(g)'
    BY <1>2 DEF Registry
  <2>1. g.id \in Pids /\ g.start \in Nat /\ 1 <= g.start /\ g.start <= started'[g.id] /\ g.id \notin job'.empty
    BY <1>2, <1>3 DEF Registry
  <2>2. There(g.id)' /\ proc'[g.id].start = g.start => proc'[g.id].of \notin {"alien", "optout"}
    BY <1>2, <1>3, <1>4 DEF Registry
  <2>3. \A r \in Pids : There(r)' /\ proc'[r].grp = g.id /\ proc'[r].gen = g.start =>
                          proc'[r].of \notin {"alien", "optout"}
    BY <1>2, <1>3, <1>4 DEF Registry
  <2> QED BY <2>1, <2>2, <2>3
<1> QED BY <1>5, <1>6, <1>7, <1>8, <1>9, <1>10

\* exec, setsid and a change of user.
LEMMA ChangesKernel ==
  ASSUME Kernel, NEW p \in Pids, Changes(p)
  PROVE  Kernel'
<1>1. /\ proc[p].st = "live" /\ proc[p].of # "alien"
      /\ clock' = clock /\ started' = started /\ job' = job
      /\ proc'[p].grp # proc[p].grp => Members(p) = {}
  BY DEF Changes, Live
<1>9. proc'[p].grp # proc[p].grp \/ proc'[p].id # proc[p].id \/ proc'[p].ours # proc[p].ours
  <2>1. PICK r \in {[proc[p] EXCEPT !.id = FALSE],
                    [proc[p] EXCEPT !.grp = p, !.gen = clock, !.of = IF @ = "job" THEN "left" ELSE @],
                    [proc[p] EXCEPT !.ours = FALSE, !.id = FALSE]} :
          (r.grp # proc[p].grp \/ r.id # proc[p].id \/ r.ours # proc[p].ours)
          /\ proc' = [proc EXCEPT ![p] = r]
    BY DEF Changes
  <2>2. proc'[p] = r
    BY <2>1 DEF Kernel, ProcType, Proc
  <2> QED BY <2>1, <2>2
<1>2. proc \in [Pids -> Proc]
  BY DEF Kernel, ProcType, Proc
<1>3. CASE proc' = [proc EXCEPT ![p] = [proc[p] EXCEPT !.id = FALSE]]
  <2>1. proc' \in [Pids -> Proc]
    BY <1>2, <1>3 DEF Proc
  <2>2. Shrinks
    BY <1>1, <1>2, <1>3 DEF Shrinks, Proc, There
  <2> QED BY <1>1, <2>1, <2>2, ShrinksKernel DEF SameGroups
<1>4. CASE proc' = [proc EXCEPT ![p] = [proc[p] EXCEPT !.ours = FALSE, !.id = FALSE]]
  <2>1. proc' \in [Pids -> Proc]
    BY <1>2, <1>4 DEF Proc
  <2>2. Shrinks
    BY <1>1, <1>2, <1>4 DEF Shrinks, Proc, There
  <2> QED BY <1>1, <2>1, <2>2, ShrinksKernel DEF SameGroups
<1>5. CASE proc' = [proc EXCEPT ![p] = [proc[p] EXCEPT !.grp = p, !.gen = clock,
                                          !.of = IF @ = "job" THEN "left" ELSE @]]
  <2> USE DEF Kernel, ProcType, Proc, There
  <2>1. /\ proc'[p].grp = p /\ proc'[p].gen = clock /\ proc'[p].st = "live"
        /\ proc'[p].start = proc[p].start
        /\ proc'[p].of = IF proc[p].of = "job" THEN "left" ELSE proc[p].of
        /\ \A r \in Pids : r # p => proc'[r] = proc[r]
    BY <1>1, <1>2, <1>5 DEF Proc
  <2>2. proc'[p].id = proc[p].id /\ proc'[p].ours = proc[p].ours
    BY <1>1, <1>2, <1>5 DEF Proc
  <2>3. proc'[p].grp # proc[p].grp
    BY <1>9, <2>2
  <2>4. \A r \in Pids : There(r) => proc[r].grp # p
    BY <1>1, <2>3 DEF Members
  <2>5. ProcType'
    <3>1. \A o \in {"job", "left", "optout", "alien", "nobody"} :
            [proc[p] EXCEPT !.grp = p, !.gen = clock, !.of = o] \in Proc
      BY <1>2 DEF Proc
    <3>2. proc'[p] \in Proc
      BY <1>2, <1>5, <3>1 DEF Proc
    <3> QED BY <1>1, <1>2, <1>5, <3>2 DEF Proc
  <2>6. Clocks'
    BY <1>1, <2>1 DEF Clocks
  <2>7. Marked'
    <3>1. Marked!(p)'
      BY <1>1, <2>1, <2>2 DEF Marked
    <3> QED BY <2>1, <3>1 DEF Marked
  <2>8. Grouped'
    BY <1>1, <2>1, <2>4 DEF Grouped, Marked
  <2>9. Tracked'
    BY <1>1, <2>1, <2>4 DEF Tracked, Marked
  <2>10. Registry'
    <3> SUFFICES ASSUME NEW g \in job.groups PROVE Registry!(g)'
      BY <1>1 DEF Registry
    <3>1. g.id = p /\ g.start = clock => proc[p].start = g.start
      BY <1>1 DEF Registry, Clocks
    <3>2. g.id = p /\ g.start = clock => proc[p].of \notin {"alien", "optout"}
      BY <1>1, <3>1 DEF Registry
    <3>3. There(g.id)' /\ proc'[g.id].start = g.start => proc'[g.id].of \notin {"alien", "optout"}
      BY <1>1, <2>1 DEF Registry
    <3>4. \A r \in Pids : There(r)' /\ proc'[r].grp = g.id /\ proc'[r].gen = g.start =>
                            proc'[r].of \notin {"alien", "optout"}
      BY <1>1, <2>1, <3>2 DEF Registry
    <3> QED BY <1>1, <3>3, <3>4 DEF Registry
  <2> QED BY <2>5, <2>6, <2>7, <2>8, <2>9, <2>10
<1> QED BY <1>3, <1>4, <1>5 DEF Changes

\* A process of somebody else, in a new group or in one of theirs.
LEMMA UnrelatedKernel ==
  ASSUME Kernel, Unrelated
  PROVE  Kernel'
<1> USE DEF Kernel, ProcType, Proc, There
<1> DEFINE Theirs(q, grp, gen) ==
      [Gone EXCEPT !.st = "live", !.grp = grp, !.gen = gen, !.of = "alien"]
<1>1. PICK q \in NextPid({}) :
        \E g \in {<<q, clock>>} \cup {<<proc[p].grp, proc[p].gen>> :
                                  p \in {p \in Pids : There(p) /\ proc[p].of = "alien"}} :
          Start(q, Theirs(q, g[1], g[2]))
  BY DEF Unrelated
<1>2. \E grp, gen :
        /\ Start(q, Theirs(q, grp, gen))
        /\ \/ grp = q /\ gen = clock
           \/ \E p \in Pids : There(p) /\ proc[p].of = "alien" /\ grp = proc[p].grp /\ gen = proc[p].gen
  <2> HIDE DEF Theirs
  <2> PICK g \in {<<q, clock>>} \cup {<<proc[p].grp, proc[p].gen>> :
                                  p \in {p \in Pids : There(p) /\ proc[p].of = "alien"}} :
          Start(q, Theirs(q, g[1], g[2]))
    BY <1>1
  <2>1. \/ g[1] = q /\ g[2] = clock
        \/ \E p \in Pids : There(p) /\ proc[p].of = "alien" /\ g[1] = proc[p].grp /\ g[2] = proc[p].gen
    OBVIOUS
  <2> QED BY <2>1, Zenon
<1> PICK grp, gen :
        /\ Start(q, Theirs(q, grp, gen))
        /\ \/ grp = q /\ gen = clock
           \/ \E p \in Pids : There(p) /\ proc[p].of = "alien" /\ grp = proc[p].grp /\ gen = proc[p].gen
  BY <1>2
<1>3. /\ q \in Pids /\ ~There(q) /\ started[q] < clock
      /\ \A r \in Pids : There(r) => proc[r].grp # q
  BY FreePid
<1>4. /\ proc' = [proc EXCEPT ![q] = [Theirs(q, grp, gen) EXCEPT !.start = clock]]
      /\ started' = [started EXCEPT ![q] = clock] /\ clock' = clock /\ job' = job
  BY <1>2 DEF Start, Unrelated
<1>5. /\ proc'[q].start = clock /\ proc'[q].grp = grp /\ proc'[q].gen = gen
      /\ proc'[q].of = "alien" /\ proc'[q].st = "live"
      /\ \A r \in Pids : r # q => proc'[r] = proc[r]
  BY <1>3, <1>4 DEF Gone
<1>6. ~proc'[q].id /\ proc'[q].ours
  BY <1>3, <1>4 DEF Gone
<1>7. grp \in Pids /\ gen \in Nat
  BY <1>2, <1>3 DEF Marked
<1>8. ProcType'
  BY <1>3, <1>4, <1>7 DEF Gone
<1>9. Clocks'
  BY <1>3, <1>4, <1>5 DEF Clocks
<1>10. Marked'
  <2>1. Marked!(q)'
    BY <1>5, <1>6, <1>7 DEF Marked
  <2> QED BY <1>5, <2>1 DEF Marked
<1>11. Grouped'
  BY <1>2, <1>3, <1>5 DEF Grouped, Marked
<1>12. Tracked'
  BY <1>4, <1>5 DEF Tracked, Marked
<1>13. Registry'
  <2> SUFFICES ASSUME NEW g \in job.groups PROVE Registry!(g)'
    BY <1>4 DEF Registry
  <2>1. g.id \in Pids /\ g.start \in Nat /\ 1 <= g.start /\ g.start <= started'[g.id] /\ g.id \notin job'.empty
    BY <1>3, <1>4 DEF Registry
  <2>2. There(g.id)' /\ proc'[g.id].start = g.start => proc'[g.id].of \notin {"alien", "optout"}
    BY <1>3, <1>4, <1>5 DEF Registry
  <2>3. ~(grp = g.id /\ gen = g.start)
    BY <1>2, <1>3 DEF Registry
  <2>4. \A r \in Pids : There(r)' /\ proc'[r].grp = g.id /\ proc'[r].gen = g.start =>
                          proc'[r].of \notin {"alien", "optout"}
    BY <1>5, <2>3 DEF Registry
  <2> QED BY <2>1, <2>2, <2>4
<1> QED BY <1>8, <1>9, <1>10, <1>11, <1>12, <1>13

\* The child of a step, in a group of its own; the group is registered if the
\* child's environment carries the job's id.
LEMMA SpawnKernel ==
  ASSUME Kernel, Stages, NEW p \in Pids, NEW optout \in BOOLEAN, SpawnStep(p, optout)
  PROVE  Kernel'
<1> USE DEF Kernel, ProcType, Proc, There
<1> DEFINE tracked == job.on /\ ~optout
           origin == IF tracked THEN "job" ELSE "optout"
           new == [id |-> p, start |-> clock]
<1>1. /\ p \in Pids /\ ~There(p) /\ started[p] < clock
      /\ \A r \in Pids : There(r) => proc[r].grp # p
  BY FreePid DEF SpawnStep
<1>2. /\ proc' = [proc EXCEPT ![p] =
                   [[st |-> "live", start |-> 0, id |-> tracked, grp |-> p, ours |-> TRUE,
                     gen |-> clock, of |-> origin, pipe |-> TRUE] EXCEPT !.start = clock]]
      /\ started' = [started EXCEPT ![p] = clock] /\ clock' = clock
  BY DEF SpawnStep, Start, ChildEnv, OwnGroup
<1>3. /\ job'.on = job.on /\ job'.empty = job.empty \ {p}
      /\ job'.groups = IF ~job.on THEN {} ELSE IF tracked THEN job.groups \cup {new} ELSE job.groups
  BY DEF SpawnStep, Stages, JobStages, Registered, ChildEnv
<1>4. /\ proc'[p].start = clock /\ proc'[p].grp = p /\ proc'[p].gen = clock
      /\ proc'[p].of = origin /\ proc'[p].st = "live"
      /\ \A r \in Pids : r # p => proc'[r] = proc[r]
  BY <1>1, <1>2
<1>5. (proc'[p].id <=> tracked) /\ proc'[p].ours
  BY <1>1, <1>2
<1>6. tracked \in BOOLEAN /\ origin \in {"job", "optout"}
  OBVIOUS
<1>7. ProcType'
  BY <1>1, <1>2, <1>6
<1>8. Clocks'
  BY <1>1, <1>2, <1>4 DEF Clocks
<1>9. Marked'
  <2>1. Marked!(p)'
    BY <1>4, <1>5, <1>6 DEF Marked
  <2> QED BY <1>4, <2>1 DEF Marked
<1>10. Grouped'
  BY <1>1, <1>4 DEF Grouped, Marked
<1>11. Tracked'
  <2>1. Tracked!(p)'
    BY <1>3, <1>4
  <2> QED BY <1>3, <1>4, <2>1 DEF Tracked
<1>12. Registry'
  <2>1. ASSUME NEW g \in job.groups PROVE Registry!(g)'
    <3>1. /\ g.id \in Pids /\ g.start \in Nat /\ 1 <= g.start /\ g.start <= started'[g.id]
          /\ g.id \notin job'.empty
      BY <1>1, <1>2, <1>3 DEF Registry
    <3>2. There(g.id)' /\ proc'[g.id].start = g.start => proc'[g.id].of \notin {"alien", "optout"}
      BY <1>1, <1>2, <1>4 DEF Registry
    <3>3. ~(p = g.id /\ clock = g.start)
      BY <1>1 DEF Registry
    <3>4. \A r \in Pids : There(r)' /\ proc'[r].grp = g.id /\ proc'[r].gen = g.start =>
                            proc'[r].of \notin {"alien", "optout"}
      BY <1>4, <3>3 DEF Registry
    <3> QED BY <3>1, <3>2, <3>4
  <2>2. ASSUME NEW g, g = new, tracked PROVE Registry!(g)'
    BY <1>1, <1>2, <1>3, <1>4, <2>2
  <2>3. \A g \in job'.groups : Registry!(g)'
    <3> TAKE g \in job'.groups
    <3>1. CASE g \in job.groups
      BY <2>1, <3>1
    <3>2. CASE g \notin job.groups
      <4>1. tracked /\ g = new
        BY <1>3, <3>2
      <4> QED BY <2>2, <4>1
    <3> QED BY <3>1, <3>2
  <2> QED BY <2>3 DEF Registry
<1> QED BY <1>7, <1>8, <1>9, <1>10, <1>11, <1>12

\* SIGKILL: whoever is alive is about to die.
LEMMA SignalledProc ==
  ASSUME Kernel, NEW ps
  PROVE  /\ Signalled(ps) \in [Pids -> Proc]
         /\ \A p \in Pids : \/ Signalled(ps)[p] = proc[p]
                            \/ /\ p \in ps /\ proc[p].st = "live"
                               /\ Signalled(ps)[p] = [proc[p] EXCEPT !.st = "dying"]
         /\ \A p \in ps \cap Pids : Signalled(ps)[p].st # "live"
  BY DEF Signalled, Kernel, ProcType, Proc

LEMMA EndsShrinks ==
  ASSUME Kernel, NEW p \in Pids, Ends(p)
  PROVE  Shrinks /\ proc' \in [Pids -> Proc] /\ proc'[p].st # "live" /\ ~proc'[p].id
<1>1. proc \in [Pids -> Proc]
  BY DEF Kernel, ProcType, Proc
<1>2. CASE proc' = [proc EXCEPT ![p] = Gone]
  BY <1>1, <1>2, GoneRecord DEF Shrinks, There
<1>3. CASE proc' = [proc EXCEPT ![p].st = "zombie", ![p].id = FALSE, ![p].pipe = FALSE]
  <2>4. proc' = [proc EXCEPT ![p] = [proc[p] EXCEPT !.st = "zombie", !.id = FALSE, !.pipe = FALSE]]
    BY <1>1, <1>3
  <2>5. [proc[p] EXCEPT !.st = "zombie", !.id = FALSE, !.pipe = FALSE] \in Proc
    BY <1>1 DEF Proc
  <2>1. proc' \in [Pids -> Proc]
    BY <1>1, <2>4, <2>5
  <2>3. proc'[p].st = "zombie" /\ proc'[p].id = FALSE
    BY <1>1, <1>3 DEF Proc
  <2>2. There(p)
    BY DEF Ends, There
  <2> QED BY <1>1, <1>3, <2>1, <2>2, <2>3 DEF Shrinks, Proc
<1> QED BY <1>2, <1>3 DEF Ends

\* The steps that end, signal or forget processes.
Reaps ==
  \/ \E p \in Pids : Ends(p)
  \/ StepExits \/ StepKilled \/ StepDropped \/ DrainGrace
  \/ \E c \in sweep.todo : KillOne(c)

LEMMA SignalShrinks ==
  ASSUME Kernel, NEW ps, proc' = Signalled(ps)
  PROVE  Shrinks /\ proc' \in [Pids -> Proc]
<1>1. proc \in [Pids -> Proc]
  BY DEF Kernel, ProcType, Proc
<1>2. ASSUME NEW p \in Pids, proc[p].st = "live", proc'[p] = [proc[p] EXCEPT !.st = "dying"]
      PROVE  /\ There(p) /\ proc'[p].st \notin {"gone", "live"}
             /\ proc'[p].start = proc[p].start /\ proc'[p].grp = proc[p].grp
             /\ proc'[p].of = proc[p].of /\ proc'[p].gen = proc[p].gen
             /\ proc'[p].id = proc[p].id /\ proc'[p].ours = proc[p].ours
  BY <1>1, <1>2 DEF Proc, There
<1>3. \A p \in Pids : proc'[p] = proc[p]
                       \/ (proc[p].st = "live" /\ proc'[p] = [proc[p] EXCEPT !.st = "dying"])
  BY SignalledProc
<1>4. proc' \in [Pids -> Proc]
  BY SignalledProc
<1> QED BY <1>2, <1>3, <1>4 DEF Shrinks

LEMMA ReapsShrink ==
  ASSUME Kernel, Stages, Reaps
  PROVE  Shrinks /\ proc' \in [Pids -> Proc] /\ UNCHANGED <<clock, started>> /\ SameGroups
<1>1. proc \in [Pids -> Proc]
  BY DEF Kernel, ProcType, Proc
<1>2. UNCHANGED <<clock, started, job>> /\ SameGroups
  BY DEF Reaps, Ends, StepExits, StepKilled, StepDropped, DrainGrace, KillOne, SameGroups
<1>3. CASE \E p \in Pids : Ends(p)
  BY <1>2, <1>3, EndsShrinks
<1>4. CASE StepExits
  BY <1>1, <1>2, <1>4, GoneRecord DEF StepExits, Shrinks, Stages, JobStages, There
<1>5. CASE StepKilled
  <2>1. PICK reaped \in BOOLEAN :
          proc' = IF reaped THEN [Signalled(Members(step.root)) EXCEPT ![step.root] = Gone]
                  ELSE Signalled(Members(step.root))
    BY <1>5 DEF StepKilled
  <2>2. CASE proc' = Signalled(Members(step.root))
    BY <1>2, <2>2, SignalShrinks
  <2>3. CASE proc' = [Signalled(Members(step.root)) EXCEPT ![step.root] = Gone]
    <3> DEFINE sig == Signalled(Members(step.root))
    <3>1. /\ sig \in [Pids -> Proc]
          /\ \A p \in Pids : \/ sig[p] = proc[p]
                             \/ proc[p].st = "live" /\ sig[p] = [proc[p] EXCEPT !.st = "dying"]
      BY SignalledProc
    <3> HIDE DEF sig
    <3>2. proc' \in [Pids -> Proc]
      BY <2>3, <3>1, GoneRecord DEF sig
    <3>3. \A p \in Pids : proc'[p] = Gone \/ proc'[p] = sig[p]
      BY <2>3, <3>1 DEF sig
    <3>4. ASSUME NEW p \in Pids, proc[p].st = "live", proc'[p] = [proc[p] EXCEPT !.st = "dying"]
          PROVE  /\ There(p) /\ proc'[p].st \notin {"gone", "live"}
                 /\ proc'[p].start = proc[p].start /\ proc'[p].grp = proc[p].grp
                 /\ proc'[p].of = proc[p].of /\ proc'[p].gen = proc[p].gen
                 /\ proc'[p].id = proc[p].id /\ proc'[p].ours = proc[p].ours
      BY <1>1, <3>4 DEF Proc, There
    <3> QED BY <1>2, <3>1, <3>2, <3>3, <3>4, GoneRecord DEF Shrinks, There
  <2> QED BY <2>1, <2>2, <2>3
<1>6. CASE StepDropped
  BY <1>2, <1>6, SignalShrinks DEF StepDropped
<1>7. CASE DrainGrace
  <2>1. proc' = [p \in Pids |-> [proc[p] EXCEPT !.pipe = FALSE]]
    BY <1>7 DEF DrainGrace
  <2>2. \A p \in Pids : [proc[p] EXCEPT !.pipe = FALSE] \in Proc
    BY <1>1 DEF Proc
  <2>3. ASSUME NEW p \in Pids
        PROVE  /\ proc'[p].st = proc[p].st
               /\ proc'[p].start = proc[p].start /\ proc'[p].grp = proc[p].grp
               /\ proc'[p].of = proc[p].of /\ proc'[p].gen = proc[p].gen
               /\ proc'[p].id = proc[p].id /\ proc'[p].ours = proc[p].ours
    BY <1>1, <2>1 DEF Proc
  <2>4. \A p \in Pids : ~There(p) => ~proc[p].id /\ proc[p].of = "nobody"
    BY DEF Kernel, Marked
  <2> QED BY <1>2, <2>1, <2>2, <2>3, <2>4 DEF Shrinks, There
<1>8. CASE \E c \in sweep.todo : KillOne(c)
  <2> PICK c \in sweep.todo : KillOne(c)
    BY <1>8
  <2>1. CASE UNCHANGED proc
    BY <1>1, <1>2, <2>1 DEF Shrinks
  <2>2. CASE proc' = Signalled({c.pid})
    BY <1>2, <2>2, SignalShrinks
  <2> QED BY <2>1, <2>2 DEF KillOne
<1> QED BY <1>3, <1>4, <1>5, <1>6, <1>7, <1>8 DEF Reaps

LEMMA TickKernel ==
  ASSUME Kernel, Tick
  PROVE  Kernel'
  BY DEF Kernel, ProcType, Proc, Clocks, Marked, Grouped, Tracked, Registry, Tick, There

\* release_if_empty forgets a group nobody is in.
LEMMA ReleaseKernel ==
  ASSUME Kernel, Stages, ReleaseGroup
  PROVE  Kernel'
<1> USE DEF Kernel, There
<1>1. UNCHANGED <<proc, clock, started>>
  BY DEF ReleaseGroup
<1>2. ProcType' /\ Clocks' /\ Marked' /\ Grouped'
  BY <1>1 DEF ProcType, Proc, Clocks, Marked, Grouped
<1>3. /\ job'.on = job.on
      /\ job'.groups = Release(step.root)
      /\ job'.empty = IF Members(step.root) = {} THEN job.empty \cup {step.root} ELSE job.empty
  BY DEF ReleaseGroup, Stages, JobStages
<1>4. CASE Members(step.root) # {}
  BY <1>1, <1>2, <1>3, <1>4 DEF Tracked, Registry, Release
<1>5. CASE Members(step.root) = {}
  <2>1. \A p \in Pids : There(p) => proc[p].grp # step.root
    BY <1>5 DEF Members
  <2>2. Tracked'
    BY <1>1, <1>3, <1>5, <2>1 DEF Tracked, Release
  <2>3. Registry'
    BY <1>1, <1>3, <1>5 DEF Registry, Release
  <2> QED BY <1>2, <2>2, <2>3
<1> QED BY <1>4, <1>5

\* The steps that leave the process table and the registered groups alone.
Looks ==
  \/ DrainEnds \/ BeginSweep \/ ScanPass \/ KillsCutShort \/ WaitForExit
  \/ \E c \in sweep.todo : TakeCandidate(c) \/ ReadLeader(c) \/ Verify(c)
  \/ DeadlinePasses \/ Joined \/ Backstop \/ JoinFails

LEMMA LooksQuiet ==
  ASSUME Stages, Looks
  PROVE  UNCHANGED <<proc, clock, started, spawns>> /\ SameGroups
  BY DEF Looks, DrainEnds, BeginSweep, ScanPass, KillsCutShort, WaitForExit, TakeCandidate, ReadLeader, Verify,
         DeadlinePasses, Joined, Backstop, JoinFails, SameGroups, Stages, JobStages

LEMMA NextKinds ==
  ASSUME [Next]_vars
  PROVE  \/ Tick \/ Unrelated \/ (\E p \in Pids : Fork(p) \/ Changes(p))
         \/ SpawnNext \/ ReleaseGroup \/ Reaps \/ Looks \/ UNCHANGED vars
  BY DEF Next, KernelStep, StepNext, SweepNext, JoinNext, Reaps, Looks

LEMMA NextKernel ==
  ASSUME Kernel, Stages, [Next]_vars
  PROVE  Kernel'
<1>1. proc \in [Pids -> Proc]
  BY DEF Kernel, ProcType, Proc
<1>2. CASE UNCHANGED <<proc, clock, started>> /\ SameGroups
  BY <1>1, <1>2, ShrinksKernel DEF Shrinks
<1>3. CASE UNCHANGED vars
  BY <1>2, <1>3 DEF vars, SameGroups
<1>4. CASE SpawnNext
  BY <1>4, SpawnKernel DEF SpawnNext
<1>5. CASE Reaps
  BY <1>5, ReapsShrink, ShrinksKernel
<1>6. CASE Looks
  BY <1>2, <1>6, LooksQuiet
<1> QED BY <1>3, <1>4, <1>5, <1>6, NextKinds, TickKernel, UnrelatedKernel, ForkKernel,
           ChangesKernel, ReleaseKernel

-----------------------------------------------------------------------------
(* The stages of the job.                                                   *)

\* A running step's child stays in the process table, under its own group.
LEMMA RootStays ==
  ASSUME Kernel, Stages, [Next]_vars, (step.pc = "running")'
  PROVE  (There(step.root) /\ proc[step.root].grp = step.root)'
<1> USE DEF There
<1>1. proc \in [Pids -> Proc]
  BY DEF Kernel, ProcType, Proc
<1>2. CASE UNCHANGED <<step, proc>>
  BY <1>2 DEF Stages, JobStages
<1>3. CASE Tick \/ Looks
  <2>1. proc' = proc
    BY <1>3, LooksQuiet DEF Tick
  <2>2. step' = step \/ step'.pc = "none"
    BY <1>3 DEF Tick, Looks, DrainEnds, StepOver, BeginSweep, ScanPass, KillsCutShort, WaitForExit,
                TakeCandidate, ReadLeader, Verify, DeadlinePasses, Joined, Backstop, JoinFails, Stages, JobStages
  <2> QED BY <2>1, <2>2 DEF Stages, JobStages
<1>4. CASE Unrelated \/ \E p \in Pids : Fork(p)
  <2>1. PICK q, r, taken : q \in NextPid(taken) /\ Start(q, r)
    BY <1>4 DEF Unrelated, Fork
  <2>2. step' = step
    BY <1>4 DEF Unrelated, Fork
  <2> QED BY <1>1, <2>1, <2>2, FreePid DEF Start, Stages, JobStages
<1>5. CASE \E p \in Pids : Changes(p)
  <2> PICK p \in Pids : Changes(p)
    BY <1>5
  <2>1. step' = step /\ proc[p].st = "live"
    BY DEF Changes, Live
  <2>2. PICK r \in {[proc[p] EXCEPT !.id = FALSE],
                    [proc[p] EXCEPT !.grp = p, !.gen = clock, !.of = IF @ = "job" THEN "left" ELSE @],
                    [proc[p] EXCEPT !.ours = FALSE, !.id = FALSE]} : proc' = [proc EXCEPT ![p] = r]
    BY DEF Changes
  <2>3. r.st = "live" /\ r.grp \in {proc[p].grp, p}
    BY <1>1, <2>1 DEF Proc
  <2> QED BY <1>1, <2>1, <2>2, <2>3 DEF Stages, JobStages
<1>6. CASE SpawnNext
  <2> PICK p \in Pids, optout \in BOOLEAN : SpawnStep(p, optout)
    BY <1>6 DEF SpawnNext
  <2>1. step'.root = p
    BY DEF SpawnStep, Stages, JobStages
  <2> QED BY <1>1, <2>1 DEF SpawnStep, Start, OwnGroup
<1>7. CASE ReleaseGroup
  BY <1>7 DEF ReleaseGroup, Stages, JobStages
<1>8. CASE Reaps
  <2>1. CASE \E p \in Pids : Ends(p)
    <3> PICK p \in Pids : Ends(p)
      BY <2>1
    <3>1. step' = step
      BY DEF Ends
    <3>2. CASE proc' = [proc EXCEPT ![p].st = "zombie", ![p].id = FALSE, ![p].pipe = FALSE]
      BY <1>1, <3>1, <3>2 DEF Stages, JobStages, Proc
    <3>3. CASE ~(step.pc = "running" /\ step.root = p) /\ proc' = [proc EXCEPT ![p] = Gone]
      BY <1>1, <3>1, <3>3 DEF Stages, JobStages
    <3> QED BY <3>2, <3>3 DEF Ends
  <2>2. CASE StepExits \/ StepKilled \/ StepDropped \/ DrainGrace
    BY <2>2 DEF StepExits, StepKilled, StepDropped, DrainGrace, Stages, JobStages
  <2>3. CASE \E c \in sweep.todo : KillOne(c)
    <3>1. proc' = proc \/ \E ps : proc' = Signalled(ps)
      BY <2>3 DEF KillOne
    <3>2. step' = step
      BY <2>3 DEF KillOne
    <3>3. CASE \E ps : proc' = Signalled(ps)
      <4> PICK ps : proc' = Signalled(ps)
        BY <3>3
      <4>1. proc'[step.root] = proc[step.root] \/ proc'[step.root] = [proc[step.root] EXCEPT !.st = "dying"]
        BY <3>2, SignalledProc DEF Stages, JobStages
      <4> QED BY <1>1, <3>2, <4>1 DEF Stages, JobStages, Proc
    <3> QED BY <3>1, <3>2, <3>3 DEF Stages, JobStages
  <2> QED BY <1>8, <2>1, <2>2, <2>3 DEF Reaps
<1> QED BY <1>2, <1>3, <1>4, <1>5, <1>6, <1>7, <1>8, NextKinds DEF vars

LEMMA NextStages ==
  ASSUME Kernel, Stages, Sweep, [Next]_vars
  PROVE  Stages'
<1> SUFFICES JobStages'
  BY RootStays DEF Stages, JobStages
<1>1. JobStages
  BY DEF Stages, JobStages
<1> USE DEF JobStages
<1>2. CASE Tick \/ (\E p \in Pids : Ends(p)) \/ UNCHANGED vars
  BY <1>1, <1>2 DEF Tick, Ends, vars
<1>3. CASE Unrelated \/ (\E p \in Pids : Fork(p) \/ Changes(p))
  <2>1. UNCHANGED <<job, step, sweep>>
    BY <1>3 DEF Unrelated, Fork, Changes
  <2>2. \/ spawns.new < MaxSpawns /\ spawns' = [spawns EXCEPT !.new = @ + 1]
        \/ spawns' = [spawns EXCEPT !.changed = @ + 1]
    BY <1>3 DEF Unrelated, Fork, Changes, Start
  <2>3. spawns' \in [new : 0..MaxSpawns, changed : Nat]
    BY <1>1, <2>2, OrphansAssumption
  <2> QED BY <1>1, <2>1, <2>3
<1>4. CASE SpawnNext
  <2> PICK p \in Pids, optout \in BOOLEAN : SpawnStep(p, optout)
    BY <1>4 DEF SpawnNext
  <2>1. spawns' \in [new : 0..MaxSpawns, changed : Nat]
    BY <1>1, OrphansAssumption DEF SpawnStep, Start
  <2>2. job'.groups \in SUBSET [id : Pids, start : Nat]
    BY <1>1 DEF SpawnStep, Registered, Kernel, ProcType, Proc
  <2> QED BY <1>1, <2>1, <2>2 DEF SpawnStep
<1>5. CASE ReleaseGroup
  BY <1>1, <1>5 DEF ReleaseGroup, Release
<1>6. CASE StepExits \/ StepKilled \/ StepDropped \/ DrainGrace \/ DrainEnds
  <2>1. UNCHANGED <<job, sweep, spawns>>
    BY <1>6 DEF StepExits, StepKilled, StepDropped, DrainGrace, DrainEnds
  <2>2. \/ step' = [step EXCEPT !.pc = "waited"] /\ step.pc = "running"
        \/ step' = [step EXCEPT !.pc = "none", !.root = 0, !.n = @ + 1]
    BY <1>6 DEF StepExits, StepKilled, StepDropped, DrainGrace, DrainEnds, StepOver
  <2>3. CASE step' = [step EXCEPT !.pc = "waited"] /\ step.pc = "running"
    BY <1>1, <2>1, <2>3
  <2>4. CASE step' = [step EXCEPT !.pc = "none", !.root = 0, !.n = @ + 1]
    <3>1. step' \in [pc : {"none", "running", "waited", "drain"}, root : Pids \cup {0}, n : Nat]
      <4>1. step \in [pc : {"none", "running", "waited", "drain"}, root : Pids \cup {0}, n : Nat]
        BY <1>1
      <4>2. step.n + 1 \in Nat
        BY <4>1
      <4> HIDE DEF JobStages
      <4> QED BY <2>4, <4>1, <4>2
    <3>2. step'.pc = "none"
      BY <1>1, <2>4
    <3> QED BY <1>1, <2>1, <3>1, <3>2
  <2> QED BY <2>2, <2>3, <2>4
<1>7. CASE \E c \in sweep.todo : KillOne(c) \/ TakeCandidate(c) \/ ReadLeader(c) \/ Verify(c)
  <2>1. UNCHANGED <<job, step, spawns>>
    BY <1>7 DEF KillOne, TakeCandidate, ReadLeader, Verify
  <2>2. sweep.pc # "idle" /\ sweep'.pc # "idle"
    <3>1. ASSUME NEW c, TakeCandidate(c) PROVE sweep.pc # "idle" /\ sweep'.pc # "idle"
      BY <3>1 DEF TakeCandidate, Sweep, SweepRecord, CleanupReport
    <3>2. ASSUME NEW c, KillOne(c) PROVE sweep.pc # "idle" /\ sweep'.pc \in {"scan", "kill"}
      BY <3>2 DEF KillOne, After, SweepRuns, Sweep, SweepRecord
    <3>3. ASSUME NEW c, ReadLeader(c) \/ Verify(c) PROVE sweep.pc # "idle" /\ sweep'.pc # "idle"
      BY <3>3 DEF ReadLeader, Verify, After, SweepRuns, Sweep, SweepRecord
    <3> QED BY <1>7, <3>1, <3>2, <3>3
  <2>3. job.pc # "steps"
    BY <2>2 DEF Sweep, SweepRecord, CleanupReport
  <2> QED BY <1>1, <2>1, <2>2, <2>3
<1>8. CASE BeginSweep
  BY <1>1, <1>8 DEF BeginSweep, Sweep, SweepRecord, CleanupReport
<1>9. CASE ScanPass \/ KillsCutShort \/ WaitForExit \/ DeadlinePasses
  <2>1. sweep \in SweepRecord /\ job.pc # "steps"
    BY <1>9 DEF ScanPass, KillsCutShort, WaitForExit, DeadlinePasses, SweepRuns, Sweep
  <2>2. UNCHANGED <<job, step, spawns>> /\ sweep'.pc # "idle"
    BY <1>9, <2>1 DEF ScanPass, KillsCutShort, WaitForExit, Returned, DeadlinePasses, SweepRuns, SweepRecord
  <2> QED BY <1>1, <2>1, <2>2
<1>10. CASE Joined \/ Backstop \/ JoinFails
  BY <1>1, <1>10 DEF Joined, Backstop, JoinFails, Returned, Sweep, SweepRecord
<1> QED BY <1>2, <1>3, <1>4, <1>5, <1>6, <1>7, <1>8, <1>9, <1>10, NextKinds DEF Reaps, Looks

-----------------------------------------------------------------------------
(* What may become of a pid while the sweep is at work.                     *)

\* The same process, which keeps no more of its ties than it had.
Ages(p) ==
  /\ proc'[p].start = proc[p].start
  /\ proc'[p].of = proc[p].of \/ (proc[p].of = "job" /\ proc'[p].of = "left")
  /\ proc'[p].id => proc[p].id
  /\ proc'[p].ours => proc[p].ours
  /\ proc'[p].st = "live" => proc[p].st = "live"
  /\ proc'[p].of = "job" => proc'[p].grp = proc[p].grp /\ proc'[p].gen = proc[p].gen

\* Nobody, or somebody else.
Leaves(p) == proc'[p].of \in {"nobody", "alien"} /\ ~proc'[p].id

\* The fork of a process of the job, under a pid the sweep has not met.
Forked(p) ==
  /\ p \notin sweep.done /\ \A t \in sweep.tried : t[1] # p
  /\ \E q \in Pids : /\ proc[q].st = "live" /\ proc'[p].of = proc[q].of
                     /\ proc'[p].id = proc[q].id /\ proc'[p].ours = proc[q].ours

LEMMA ReapsAges ==
  ASSUME Shrinks
  PROVE  \A p \in Pids : Ages(p) \/ Leaves(p)
  BY DEF Shrinks, Ages, Leaves

LEMMA KernelAges ==
  ASSUME Kernel, Tick \/ Unrelated \/ (\E p \in Pids : Fork(p) \/ Changes(p))
  PROVE  \A p \in Pids : Ages(p) \/ Leaves(p) \/ Forked(p)
<1>1. proc \in [Pids -> Proc]
  BY DEF Kernel, ProcType, Proc
<1>2. ASSUME NEW p \in Pids, proc'[p] = proc[p] PROVE Ages(p)
  BY <1>2 DEF Ages
<1>3. CASE Tick
  BY <1>2, <1>3 DEF Tick
<1>4. CASE Unrelated
  <2>1. PICK q, r : q \in NextPid({}) /\ Start(q, r) /\ r.of = "alien" /\ r.id = FALSE
    <3>1. PICK q \in NextPid({}) : \E g : Start(q, [Gone EXCEPT !.st = "live", !.grp = g[1], !.gen = g[2],
                                                                   !.of = "alien"])
      BY <1>4 DEF Unrelated
    <3>2. \A g : LET r == [Gone EXCEPT !.st = "live", !.grp = g[1], !.gen = g[2], !.of = "alien"]
                 IN  r.of = "alien" /\ r.id = FALSE
      BY DEF Gone
    <3> QED BY <3>1, <3>2
  <2>2. q \in Pids /\ proc' = [proc EXCEPT ![q] = [r EXCEPT !.start = clock]]
    BY <2>1, FreePid DEF Start
  <2>3. Leaves(q)
    BY <1>1, <2>1, <2>2 DEF Leaves
  <2> QED BY <1>1, <1>2, <2>2, <2>3
<1>5. ASSUME NEW p \in Pids, Fork(p) PROVE \A q \in Pids : Ages(q) \/ Forked(q)
  <2>1. PICK q \in NextPid(sweep.done \cup {t[1] : t \in sweep.tried}) : Start(q, proc[p])
    BY <1>5 DEF Fork
  <2>2. q \in Pids /\ q \notin sweep.done /\ \A t \in sweep.tried : t[1] # q
    BY FreePid
  <2>3. proc' = [proc EXCEPT ![q] = [proc[p] EXCEPT !.start = clock]] /\ proc[p].st = "live"
    BY <1>5, <2>1 DEF Start, Fork, Live
  <2>4. Forked(q)
    BY <1>1, <2>2, <2>3 DEF Forked, Proc
  <2> QED BY <1>1, <1>2, <2>2, <2>3, <2>4
<1>6. ASSUME NEW p \in Pids, Changes(p) PROVE \A q \in Pids : Ages(q)
  <2>1. PICK r \in {[proc[p] EXCEPT !.id = FALSE],
                    [proc[p] EXCEPT !.grp = p, !.gen = clock, !.of = IF @ = "job" THEN "left" ELSE @],
                    [proc[p] EXCEPT !.ours = FALSE, !.id = FALSE]} : proc' = [proc EXCEPT ![p] = r]
    BY <1>6 DEF Changes
  <2>2. proc'[p] = r
    BY <1>1, <2>1
  <2>3. r.start = proc[p].start /\ r.st = proc[p].st
    BY <1>1 DEF Proc
  <2>4. r.of = proc[p].of \/ (proc[p].of = "job" /\ r.of = "left")
    BY <1>1 DEF Proc
  <2>5. (r.id = FALSE \/ r.id = proc[p].id) /\ (r.ours = FALSE \/ r.ours = proc[p].ours)
    BY <1>1 DEF Proc
  <2>7. r.of = "job" => r.grp = proc[p].grp /\ r.gen = proc[p].gen
    BY <1>1 DEF Proc
  <2>6. Ages(p)
    BY <2>2, <2>3, <2>4, <2>5, <2>7 DEF Ages
  <2> QED BY <1>1, <1>2, <2>1, <2>6
<1> QED BY <1>3, <1>4, <1>5, <1>6

\* What is settled stays settled.
LEMMA SettledStays ==
  ASSUME NEW p \in Pids, Ages(p) \/ Leaves(p), Settled(p)
  PROVE  Settled(p)'
  BY DEF Ages, Leaves, Settled

LEMMA AllSettledStay ==
  ASSUME \A p \in Pids : Ages(p) \/ Leaves(p) \/ Forked(p), \A p \in Pids : Settled(p)
  PROVE  (\A p \in Pids : Settled(p))'
<1> SUFFICES ASSUME NEW p \in Pids PROVE Settled(p)'
  OBVIOUS
<1>1. CASE Ages(p) \/ Leaves(p)
  BY <1>1, SettledStays DEF Settled
<1>2. CASE Forked(p)
  BY <1>2 DEF Forked, Settled
<1> QED BY <1>1, <1>2

-----------------------------------------------------------------------------
(* The sweep.                                                               *)

\* Processes come and go beside the sweep.
LEMMA KernelSweep ==
  ASSUME Kernel, Stages, Sweep, Attempted, Told, KernelStep, job.pc # "done" \/ sweep.pc = "kill"
  PROVE  Sweep' /\ Attempted' /\ Told'
<1>1. UNCHANGED <<job, step, sweep, report, killed, logged>>
  BY DEF KernelStep, Tick, Unrelated, Fork, Changes, Ends
<1>2. \A p \in Pids : Ages(p) \/ Leaves(p) \/ Forked(p)
  BY KernelAges, EndsShrinks, ReapsAges DEF KernelStep
<1>3. \A p \in Pids : (\E t \in sweep.tried : t[1] = p) \/ p \in sweep.done => Ages(p) \/ Leaves(p)
  BY <1>2 DEF Forked
<1>4. Sweep'
  <2>1. \A c \in sweep.todo : c.pid \in Pids /\ (Ages(c.pid) \/ Leaves(c.pid))
    <3> TAKE c \in sweep.todo
    <3>1. c.pid \in Pids /\ <<c.pid, c.by>> \in sweep.tried
      BY DEF Sweep, SweepRecord, CleanupReport, Candidate
    <3> QED BY <1>3, <3>1
  <2>2. \A c \in sweep.todo : proc'[c.pid].of \in {"nobody", "alien"} \/ proc'[c.pid].start = c.start
    BY <2>1 DEF Sweep, SweepRecord, CleanupReport, Ages, Leaves
  <2> QED BY <1>1, <2>2 DEF Sweep, SweepRecord, CleanupReport
<1>5. Attempted'
  <2>1. ASSUME NEW p \in sweep.done PROVE Settled(p)'
    BY <1>3, SettledStays DEF Attempted, Sweep, SweepRecord, CleanupReport
  <2>2. ASSUME NEW p \in Pids, <<p, "environment">> \in sweep.tried,
               p \in sweep.done \/ ~proc[p].id
        PROVE  p \in sweep.done \/ ~proc'[p].id
    BY <1>3, <2>2 DEF Ages, Leaves
  <2>3. ASSUME NEW p \in Pids, <<p, "group">> \in sweep.tried,
               p \in sweep.done \/ proc[p].of # "job"
        PROVE  p \in sweep.done \/ proc'[p].of # "job"
    BY <1>3, <2>3 DEF Ages, Leaves
  <2> QED BY <1>1, <2>1, <2>2, <2>3 DEF Attempted, Waits
<1>6. Told'
  <2>1. (\A p \in Pids : Settled(p)) => (\A p \in Pids : Settled(p))'
    BY <1>2, AllSettledStay
  <2> QED BY <1>1, <2>1 DEF Told, Unwarned
<1> QED BY <1>4, <1>5, <1>6

\* No sweep has begun: there is nothing to say.
LEMMA IdleSweep ==
  ASSUME Sweep, sweep.pc = "idle", UNCHANGED <<sweep, report, killed>>, job'.pc = "steps"
  PROVE  Sweep' /\ Attempted' /\ Told'
<1>1. sweep.todo = {} /\ sweep.tried = {} /\ sweep.done = {}
  BY DEF Sweep, SweepRecord, CleanupReport
<1>2. Sweep'
  BY <1>1 DEF Sweep, SweepRecord, CleanupReport
<1>3. Attempted'
  BY <1>1 DEF Attempted
<1> QED BY <1>2, <1>3 DEF Told

LEMMA StepSweep ==
  ASSUME Stages, Sweep, SpawnNext \/ StepNext \/ StepKilled \/ StepDropped
  PROVE  Sweep' /\ Attempted' /\ Told'
<1>1. UNCHANGED <<sweep, report, killed>>
  BY DEF SpawnNext, SpawnStep, StepNext, StepExits, StepKilled, StepDropped, ReleaseGroup,
         DrainEnds, DrainGrace
<1>2. job.pc = "steps" /\ job'.pc = "steps"
  BY DEF SpawnNext, SpawnStep, StepNext, StepExits, StepKilled, StepDropped, ReleaseGroup,
         DrainEnds, DrainGrace, Stages, JobStages
<1> QED BY <1>1, <1>2, IdleSweep DEF Stages, JobStages

LEMMA BeginsSweep ==
  ASSUME Stages, Sweep, Told, BeginSweep
  PROVE  Sweep' /\ Attempted' /\ Told'
<1>1. /\ sweep.pc = "idle" /\ sweep.todo = {} /\ sweep.tried = {} /\ sweep.done = {}
      /\ job.pc = "steps" /\ UNCHANGED <<proc, report, killed>>
  BY DEF BeginSweep, Stages, JobStages, Sweep, SweepRecord, CleanupReport
<1>2. CASE job.on
  <2>1. sweep' = [sweep EXCEPT !.pc = "scan", !.groups = job.groups] /\ job' = [job EXCEPT !.pc = "sweep"]
    BY <1>2 DEF BeginSweep
  <2>2. /\ sweep'.pc = "scan" /\ sweep'.groups = job.groups
        /\ sweep'.todo = {} /\ sweep'.tried = {} /\ sweep'.done = {}
        /\ job'.pc = "sweep" /\ job'.on /\ job'.groups = job.groups
    BY <1>1, <1>2, <2>1 DEF Stages, JobStages, Sweep, SweepRecord, CleanupReport
  <2>3. Sweep'
    BY <1>1, <2>1, <2>2 DEF Stages, JobStages, Sweep, SweepRecord, CleanupReport
  <2>4. Attempted'
    BY <2>2 DEF Attempted
  <2> QED BY <2>2, <2>3, <2>4 DEF Told
<1>3. CASE ~job.on
  <2>1. sweep' = sweep /\ job' = [job EXCEPT !.pc = "done"]
    BY <1>3 DEF BeginSweep
  <2>2. Sweep'
    BY <1>1, <2>1 DEF Sweep, SweepRecord, CleanupReport
  <2>3. Attempted'
    BY <1>1, <2>1 DEF Attempted
  <2>4. Told'
    BY <1>3, <2>1 DEF Told, Stages, JobStages
  <2> QED BY <2>2, <2>3, <2>4
<1> QED BY <1>2, <1>3

\* Nobody but its first leader can sit on the number of a group with a process
\* of the job in it.
LEMMA LeaderStart ==
  ASSUME Kernel, NEW p \in Pids, There(p), proc[p].of = "job"
  PROVE  proc[p].grp \in Pids /\ StartOf(proc[p].grp) \in {0, proc[p].gen}
<1>1. proc[p].grp \in Pids
  BY DEF Kernel, Marked
<1>2. ASSUME There(proc[p].grp) PROVE proc[proc[p].grp].start = proc[p].gen
  <2> DEFINE l == proc[p].grp
  <2>1. proc[l].grp = l /\ proc[l].gen = proc[p].gen /\ proc[l].of = "job"
    BY <1>1, <1>2 DEF Kernel, Grouped
  <2> QED BY <1>1, <1>2, <2>1 DEF Kernel, Tracked
<1> QED BY <1>1, <1>2 DEF StartOf

\* Whatever a tracked step left is found by its group: the group is registered.
LEMMA OwnedByJob ==
  ASSUME Kernel, Stages, Sweep, sweep.pc # "idle", NEW p \in Pids, There(p), proc[p].of = "job",
         NEW system, system[proc[p].grp] \in {0, proc[p].gen}
  PROVE  OwnedGroup(p, system)
<1>1. [id |-> proc[p].grp, start |-> proc[p].gen] \in sweep.groups
  BY DEF Kernel, Tracked, Sweep, SweepRecord, CleanupReport
<1> QED BY <1>1 DEF OwnedGroup, GroupOwned

\* A pass that sees every process and finds nothing new to attempt settles all.
LEMMA PassSettles ==
  ASSUME Kernel, Stages, Sweep, Attempted, sweep.pc = "scan", Fresh(Candidates) = {}
  PROVE  \A p \in Pids : Settled(p)
<1> SUFFICES ASSUME NEW p \in Pids, proc[p].st = "live"
             PROVE  /\ proc[p].of \in {"job", "left"} => ~proc[p].id
                    /\ proc[p].of = "job" => ~proc[p].ours
  BY DEF Settled
<1>1. ~Waits(p, "environment") /\ ~Waits(p, "group")
  BY DEF Sweep, SweepRecord, CleanupReport, Waits
<1>2. CASE p \in sweep.done
  BY <1>2 DEF Attempted, Settled
<1>3. CASE p \notin sweep.done /\ proc[p].id
  <2>1. p \in Candidates
    BY <1>3 DEF Candidates
  <2>2. <<p, "environment">> \in sweep.tried
    BY <1>3, <2>1 DEF Fresh, Evidence
  <2> QED BY <1>1, <1>3, <2>2 DEF Attempted
<1>4. CASE p \notin sweep.done /\ ~proc[p].id
  <2> SUFFICES ASSUME proc[p].of = "job", proc[p].ours PROVE FALSE
    BY <1>4
  <2>1. OwnedGroup(p, Starts)
    <3>1. proc[p].grp \in Pids /\ Starts[proc[p].grp] \in {0, proc[p].gen}
      BY LeaderStart DEF Starts, There
    <3> QED BY <3>1, OwnedByJob DEF There
  <2>2. proc[p].start + Slack >= job.at
    BY OrphansAssumption DEF Kernel, ProcType, Proc, Clocks, Stages, JobStages, There
  <2>3. p \in Candidates
    BY <2>1, <2>2 DEF Candidates, InTrackedGroup
  <2>4. <<p, "group">> \in sweep.tried
    BY <1>4, <2>3 DEF Fresh, Evidence
  <2> QED BY <1>1, <1>4, <2>4 DEF Attempted
<1> QED BY <1>2, <1>3, <1>4

\* A warning stays.
LEMMA WarningStays ==
  ASSUME Told, sweep.pc # "reported", UNCHANGED job, NEW r, Reports(r),
         job.pc = "sweep" => (r.late \/ r.degraded \/ r.failed)
  PROVE  Told'
<1>1. CASE job.pc = "sweep"
  BY <1>1 DEF Told, Unwarned, Reports
<1>2. CASE job.pc # "sweep"
  BY <1>2 DEF Told, Unwarned, Reports
<1> QED BY <1>1, <1>2

LEMMA StartsType ==
  ASSUME Kernel
  PROVE  /\ Starts \in [Pids -> Nat] /\ Unread \in [Pids -> Nat]
         /\ \A p \in Pids : StartOf(p) \in Nat /\ StartOf(p) <= started[p] /\ Unread[p] <= started[p]
  BY DEF Kernel, ProcType, Proc, Clocks, Starts, StartOf, Unread, There

LEMMA ScanSweep ==
  ASSUME Kernel, Stages, Sweep, Attempted, Told, ScanPass
  PROVE  Sweep' /\ Attempted' /\ Told'
<1>1. /\ sweep.pc = "scan" /\ sweep.todo = {} /\ UNCHANGED <<proc, job, killed>>
  BY DEF ScanPass, Sweep, SweepRecord, CleanupReport
<1>2. CASE sweep.late
  <2>1. sweep' = [sweep EXCEPT !.pc = "wait"] /\ Reports([report EXCEPT !.late = TRUE])
    BY <1>2 DEF ScanPass
  <2>2. report' \in CleanupReport
    BY <2>1 DEF Reports, Sweep, SweepRecord, CleanupReport
  <2>3. Sweep'
    BY <1>1, <2>1, <2>2 DEF Sweep, SweepRecord, CleanupReport
  <2>4. Attempted'
    BY <1>1, <2>1 DEF Attempted, Sweep, SweepRecord, CleanupReport, Settled
  <2>5. Told'
    BY <1>1, <2>1, WarningStays DEF Sweep, SweepRecord, CleanupReport
  <2> QED BY <2>3, <2>4, <2>5
<1>3. CASE ~sweep.late
  <2>1. PICK seen \in BOOLEAN :
          LET fresh == Fresh(IF seen THEN Candidates ELSE {}) IN
          /\ Reports([report EXCEPT !.degraded = @ \/ ~seen])
          /\ sweep' = [sweep EXCEPT !.pc = IF fresh = {} THEN "wait" ELSE "kill",
                         !.todo = {[pid |-> p, start |-> proc[p].start, by |-> Evidence(p)] : p \in fresh},
                         !.tried = @ \cup {<<p, Evidence(p)>> : p \in fresh}, !.system = Starts]
    BY <1>3 DEF ScanPass
  <2> DEFINE fresh == Fresh(IF seen THEN Candidates ELSE {})
             todo == {[pid |-> p, start |-> proc[p].start, by |-> Evidence(p)] : p \in fresh}
             tried == {<<p, Evidence(p)>> : p \in fresh}
  <2>2. fresh \subseteq Pids /\ \A p \in Pids : Evidence(p) \in {"environment", "group"}
    BY DEF Fresh, Candidates, Evidence
  <2>3. todo \subseteq Candidate /\ tried \subseteq Pids \X {"environment", "group"}
    BY <2>2 DEF Candidate, Kernel, ProcType, Proc
  <2>4. /\ sweep'.pc = (IF fresh = {} THEN "wait" ELSE "kill")
        /\ sweep'.todo = todo /\ sweep'.tried = sweep.tried \cup tried
        /\ sweep'.done = sweep.done /\ sweep'.groups = sweep.groups
    BY <2>1 DEF Sweep, SweepRecord, CleanupReport
  <2>5. report' \in CleanupReport
    BY <2>1 DEF Reports, Sweep, SweepRecord, CleanupReport
  <2>9. Starts \in [Pids -> Nat]
    BY StartsType
  <2>6. sweep' \in SweepRecord
    <3> HIDE DEF fresh, todo, tried
    <3>1. sweep' = [sweep EXCEPT !.pc = IF fresh = {} THEN "wait" ELSE "kill", !.todo = todo,
                      !.tried = @ \cup tried, !.system = Starts]
      BY <2>1 DEF fresh, todo, tried
    <3>2. sweep.tried \cup tried \subseteq Pids \X {"environment", "group"}
      BY <2>3 DEF Sweep, SweepRecord
    <3> QED BY <2>3, <2>9, <3>1, <3>2 DEF Sweep, SweepRecord
  <2>7. Sweep'
    BY <1>1, <2>2, <2>4, <2>5, <2>6 DEF Sweep, SweepRecord, CleanupReport
  <2>8. Attempted'
    <3>1. \A p \in Pids, by \in {"environment", "group"} :
            <<p, by>> \in tried => \E c \in todo : c.pid = p /\ c.by = by
      <4> SUFFICES ASSUME NEW p \in Pids, NEW by, <<p, by>> \in tried
                   PROVE  \E c \in todo : c.pid = p /\ c.by = by
        OBVIOUS
      <4>1. p \in fresh /\ by = Evidence(p)
        OBVIOUS
      <4>2. [pid |-> p, start |-> proc[p].start, by |-> Evidence(p)] \in todo
        BY <4>1
      <4> QED BY <4>1, <4>2
    <3>2. \A p \in Pids : ~Waits(p, "environment") /\ ~Waits(p, "group")
      BY <1>1 DEF Waits
    <3> QED BY <1>1, <2>4, <3>1, <3>2 DEF Attempted, Waits, Settled
  <2>10. Told'
    <3>1. CASE seen /\ fresh = {}
      <4>1. \A p \in Pids : Settled(p)'
        BY <1>1, <3>1, PassSettles DEF Settled
      <4> QED BY <1>1, <2>1, <4>1 DEF Told, Reports, Unwarned
    <3>2. CASE seen /\ fresh # {}
      BY <1>1, <2>1, <2>4, <3>2 DEF Told, Reports, Unwarned
    <3>3. CASE ~seen
      BY <1>1, <2>1, <3>3, WarningStays DEF Sweep, SweepRecord, CleanupReport
    <3> QED BY <3>1, <3>2, <3>3
  <2> QED BY <2>7, <2>8, <2>10
<1> QED BY <1>2, <1>3

\* The sweep when it is through with a candidate.
LEMMA AfterRecord ==
  ASSUME Kernel, sweep \in SweepRecord, Reading, NEW c \in sweep.todo
  PROVE  /\ After(c) \in SweepRecord
         /\ After(c).pc = (IF sweep.todo = {c} THEN "scan" ELSE "kill")
         /\ After(c).todo = sweep.todo \ {c} /\ After(c).tried = sweep.tried
         /\ After(c).groups = sweep.groups /\ After(c).done = sweep.done
         /\ After(c).at = {} /\ After(c).sure = {} /\ After(c).leader = sweep.leader
         /\ \A p \in Pids : After(c).system[p] <= started[p]
<1> DEFINE system == IF sweep.todo = {c} THEN Unread ELSE sweep.system
<1>1. system \in [Pids -> Nat] /\ \A p \in Pids : system[p] <= started[p]
  BY StartsType DEF SweepRecord, Reading
<1>2. After(c) = [sweep EXCEPT !.todo = @ \ {c}, !.at = {}, !.sure = {},
                    !.pc = IF sweep.todo = {c} THEN "scan" ELSE "kill", !.system = system]
  BY DEF After
<1>3. sweep.todo \ {c} \in SUBSET Candidate
  BY DEF SweepRecord
<1> HIDE DEF system
<1>4. After(c).system = system
  BY <1>2 DEF SweepRecord
<1>5. After(c) \in SweepRecord
  BY <1>1, <1>2, <1>3 DEF SweepRecord
<1> QED BY <1>1, <1>2, <1>4, <1>5 DEF SweepRecord

\* A candidate checked: one that is not tied to the job any more has lost the
\* evidence it was found by.
LEMMA VerifySweep ==
  ASSUME Kernel, Stages, Sweep, Reading, Attempted, Told, NEW c \in sweep.todo, Verify(c)
  PROVE  Sweep' /\ Attempted' /\ Told'
<1> DEFINE pid == c.pid
<1>1. /\ UNCHANGED <<proc, clock, started, job, report, killed>>
      /\ c \in sweep.at /\ sweep.leader = {} /\ sweep \in SweepRecord
      /\ c \in Candidate /\ pid \in Pids /\ c.by \in {"environment", "group"}
      /\ <<pid, c.by>> \in sweep.tried /\ sweep.pc # "idle"
  BY DEF Verify, SweepRuns, Sweep, SweepRecord, Candidate
<1>2. CASE StillTied(c)
  <2>1. PICK s : sweep' = [sweep EXCEPT !.sure = {s}] /\ s \in [grp : Pids \cup {0}, led : BOOLEAN, reused : BOOLEAN]
    <3> DEFINE s == [grp |-> proc[pid].grp, led |-> There(proc[pid].grp),
                     reused |-> \A g \in sweep.groups : g.id = proc[pid].grp => g.start # proc[pid].gen]
    <3>1. proc[pid].grp \in Pids \cup {0}
      BY <1>1 DEF Kernel, ProcType, Proc
    <3>2. There(proc[pid].grp) \in BOOLEAN
      BY DEF There
    <3>3. s \in [grp : Pids \cup {0}, led : BOOLEAN, reused : BOOLEAN]
      BY <3>1, <3>2
    <3>4. sweep' = [sweep EXCEPT !.sure = {s}]
      BY <1>2, Zenon DEF Verify
    <3> HIDE DEF s
    <3> QED BY <3>3, <3>4
  <2> QED BY <1>1, <2>1 DEF Sweep, SweepRecord, CleanupReport, Attempted, Told, Settled, Waits, Unwarned
<1>3. CASE ~StillTied(c)
  <2>1. /\ sweep' \in SweepRecord
        /\ sweep'.pc = (IF sweep.todo = {c} THEN "scan" ELSE "kill")
        /\ sweep'.todo = sweep.todo \ {c} /\ sweep'.tried = sweep.tried
        /\ sweep'.groups = sweep.groups /\ sweep'.done = sweep.done
    BY <1>1, <1>3, AfterRecord DEF Verify
  <2>2. Sweep'
    BY <1>1, <2>1 DEF Sweep
  <2>3. c.by = "environment" => ~proc[pid].id
    <3> SUFFICES ASSUME c.by = "environment", proc[pid].id PROVE FALSE
      OBVIOUS
    <3>1. proc[pid].of \notin {"nobody", "alien"}
      BY <1>1 DEF Kernel, Marked
    <3> QED BY <1>1, <1>3, <3>1 DEF Reading, StillTied
  <2>4. c.by = "group" => proc[pid].of # "job"
    <3> SUFFICES ASSUME c.by = "group", proc[pid].of = "job" PROVE FALSE
      OBVIOUS
    <3>1. There(pid)
      BY <1>1 DEF Kernel, Marked
    <3>2. sweep.system[pid] = c.start /\ sweep.system[proc[pid].grp] \in {0, proc[pid].gen}
      BY <1>1 DEF Reading
    <3>3. OwnedGroup(pid, sweep.system)
      BY <1>1, <3>1, <3>2, OwnedByJob
    <3> QED BY <1>3, <3>1, <3>2, <3>3 DEF StillTied
  <2>5. \A p \in Pids, by \in {"environment", "group"} :
          Waits(p, by) => Waits(p, by)' \/ (p = pid /\ by = c.by)
    BY <2>1 DEF Waits
  <2>6. sweep.pc = "kill"
    BY DEF Verify
  <2>7. Attempted'
    <3>1. \A p \in sweep'.done : Settled(p)'
      BY <1>1, <2>1 DEF Attempted, Settled
    <3>2. ASSUME NEW p \in Pids, <<p, "environment">> \in sweep.tried, ~Waits(p, "environment")'
          PROVE  p \in sweep.done \/ ~proc[p].id
      <4>1. CASE ~Waits(p, "environment")
        BY <2>6, <3>2, <4>1 DEF Attempted
      <4>2. CASE Waits(p, "environment")
        <5>1. p = pid /\ c.by = "environment"
          BY <2>5, <3>2, <4>2
        <5> QED BY <2>3, <5>1
      <4> QED BY <4>1, <4>2
    <3>3. ASSUME NEW p \in Pids, <<p, "group">> \in sweep.tried, ~Waits(p, "group")'
          PROVE  p \in sweep.done \/ proc[p].of # "job"
      <4>1. CASE ~Waits(p, "group")
        BY <2>6, <3>3, <4>1 DEF Attempted
      <4>2. CASE Waits(p, "group")
        <5>1. p = pid /\ c.by = "group"
          BY <2>5, <3>3, <4>2
        <5> QED BY <2>4, <5>1
      <4> QED BY <4>1, <4>2
    <3> QED BY <1>1, <2>1, <3>1, <3>2, <3>3 DEF Attempted
  <2>8. Told'
    BY <1>1, <2>1, <2>6 DEF Told, Unwarned
  <2> QED BY <2>2, <2>7, <2>8
<1> QED BY <1>2, <1>3

\* A candidate signalled: whoever has its pid now is not alive after it, or is
\* gone or of another user.
LEMMA KillSweep ==
  ASSUME Kernel, Stages, Sweep, Reading, Attempted, Told, NEW c \in sweep.todo, KillOne(c)
  PROVE  Sweep' /\ Attempted' /\ Told'
<1> DEFINE pid == c.pid
<1>1. /\ UNCHANGED <<clock, started, job>> /\ sweep \in SweepRecord /\ sweep.pc = "kill"
      /\ c \in Candidate /\ pid \in Pids /\ <<pid, c.by>> \in sweep.tried
  BY DEF KillOne, SweepRuns, Sweep, SweepRecord, Candidate
<1>2. \A p \in Pids : Ages(p) \/ Leaves(p)
  BY ReapsShrink, ReapsAges DEF Reaps
<1>3. \/ /\ sweep' = [After(c) EXCEPT !.done = @ \cup {pid}, !.waiting = @ \cup {c}]
         /\ proc' = Signalled({pid}) /\ UNCHANGED report
      \/ /\ sweep' = [After(c) EXCEPT !.done = @ \cup {pid}]
         /\ Reports([report EXCEPT !.survivors = @ \cup {pid}])
         /\ ~(There(pid) /\ proc[pid].ours) /\ UNCHANGED proc
  BY DEF KillOne
<1>4. /\ sweep' \in SweepRecord
      /\ sweep'.pc = (IF sweep.todo = {c} THEN "scan" ELSE "kill")
      /\ sweep'.todo = sweep.todo \ {c} /\ sweep'.tried = sweep.tried
      /\ sweep'.groups = sweep.groups /\ sweep'.done = sweep.done \cup {pid}
  <2> DEFINE rest == After(c)
  <2>1. /\ rest \in SweepRecord
        /\ rest.pc = (IF sweep.todo = {c} THEN "scan" ELSE "kill")
        /\ rest.todo = sweep.todo \ {c} /\ rest.tried = sweep.tried
        /\ rest.groups = sweep.groups /\ rest.done = sweep.done
    BY <1>1, AfterRecord
  <2>2. \/ sweep' = [rest EXCEPT !.done = @ \cup {pid}, !.waiting = @ \cup {c}]
        \/ sweep' = [rest EXCEPT !.done = @ \cup {pid}]
    BY <1>3
  <2> HIDE DEF rest
  <2>3. rest.done \cup {pid} \in SUBSET Pids /\ rest.waiting \cup {c} \in SUBSET Candidate
    BY <1>1, <2>1 DEF SweepRecord
  <2> QED BY <2>1, <2>2, <2>3 DEF SweepRecord
<1>5. report' \in CleanupReport
  BY <1>1, <1>3 DEF Reports, Sweep, CleanupReport
<1>6. Sweep'
  <2>1. \A d \in sweep.todo : proc'[d.pid].of \in {"nobody", "alien"} \/ proc'[d.pid].start = d.start
    BY <1>2 DEF Sweep, SweepRecord, CleanupReport, Candidate, Ages, Leaves
  <2> QED BY <1>1, <1>4, <1>5, <2>1 DEF Sweep
<1>7. Attempted'
  <2>1. \A p \in sweep.done : Settled(p)'
    BY <1>2, SettledStays DEF Attempted, Sweep, SweepRecord, CleanupReport
  <2>2. Settled(pid)'
    <3>1. CASE proc' = Signalled({pid})
      BY <1>1, <3>1, SignalledProc DEF Settled
    <3>2. CASE ~(There(pid) /\ proc[pid].ours) /\ UNCHANGED proc
      BY <1>1, <3>2 DEF Settled, Kernel, Marked, There
    <3> QED BY <1>3, <3>1, <3>2
  <2>3. \A p \in Pids, by \in {"environment", "group"} :
          Waits(p, by) => Waits(p, by)' \/ p \in sweep'.done
    BY <1>4 DEF Waits
  <2>4. ASSUME NEW p \in Pids, <<p, "environment">> \in sweep.tried, ~Waits(p, "environment")'
        PROVE  p \in sweep'.done \/ ~proc'[p].id
    <3>1. CASE ~Waits(p, "environment")
      BY <1>1, <1>2, <1>4, <2>4, <3>1 DEF Attempted, Ages, Leaves
    <3> QED BY <2>3, <2>4, <3>1
  <2>5. ASSUME NEW p \in Pids, <<p, "group">> \in sweep.tried, ~Waits(p, "group")'
        PROVE  p \in sweep'.done \/ proc'[p].of # "job"
    <3>1. CASE ~Waits(p, "group")
      BY <1>1, <1>2, <1>4, <2>5, <3>1 DEF Attempted, Ages, Leaves
    <3> QED BY <2>3, <2>5, <3>1
  <2> QED BY <1>4, <2>1, <2>2, <2>4, <2>5 DEF Attempted
<1>8. Told'
  <2>1. CASE job.pc = "sweep"
    BY <1>1, <1>4, <2>1 DEF Told
  <2>2. CASE job.pc # "sweep"
    BY <1>1, <1>3, <2>2 DEF Told, Unwarned, Reports
  <2> QED BY <2>1, <2>2
<1> QED BY <1>6, <1>7, <1>8

\* The other steps of the thread and of the job that waits for it.
LEMMA OtherSweep ==
  ASSUME Kernel, Stages, Sweep, Attempted, Told,
         \/ \E c \in sweep.todo : TakeCandidate(c) \/ ReadLeader(c)
         \/ KillsCutShort \/ WaitForExit \/ DeadlinePasses \/ Joined \/ Backstop \/ JoinFails
  PROVE  Sweep' /\ Attempted' /\ Told'
<1>1. UNCHANGED <<proc, clock, started, killed>>
  BY DEF TakeCandidate, ReadLeader, KillsCutShort, WaitForExit, DeadlinePasses, Joined, Backstop, JoinFails
<1>10. sweep \in SweepRecord
  BY DEF Sweep
<1>2. ASSUME NEW c \in sweep.todo, TakeCandidate(c) PROVE Sweep' /\ Attempted' /\ Told'
  <2>2. c.pid \in Pids /\ StartOf(c.pid) \in Nat /\ (There(c.pid) => proc[c.pid].grp \in Pids)
    BY <1>10, StartsType DEF SweepRecord, Candidate, Kernel, Marked
  <2>1. /\ \E system \in [Pids -> Nat], leader \in SUBSET Pids :
             sweep' = [sweep EXCEPT !.at = {c}, !.system = system, !.leader = leader]
        /\ UNCHANGED <<job, report>>
    <3> DEFINE system == [sweep.system EXCEPT ![c.pid] = StartOf(c.pid)]
               leader == IF c.by = "group" /\ There(c.pid) THEN {proc[c.pid].grp} \ {c.pid} ELSE {}
    <3>1. system \in [Pids -> Nat] /\ leader \in SUBSET Pids
      BY <1>10, <2>2 DEF SweepRecord
    <3>2. sweep' = [sweep EXCEPT !.at = {c}, !.system = system, !.leader = leader]
      BY <1>2, <1>10 DEF TakeCandidate, SweepRecord
    <3>3. UNCHANGED <<job, report>>
      BY <1>2 DEF TakeCandidate
    <3> HIDE DEF system, leader
    <3> QED BY <3>1, <3>2, <3>3
  <2> PICK system \in [Pids -> Nat], leader \in SUBSET Pids :
        sweep' = [sweep EXCEPT !.at = {c}, !.system = system, !.leader = leader]
    BY <2>1
  <2>3. Sweep'
    BY <1>1, <2>1 DEF Sweep, SweepRecord, CleanupReport
  <2>4. /\ sweep'.pc = sweep.pc /\ sweep'.todo = sweep.todo /\ sweep'.tried = sweep.tried
        /\ sweep'.done = sweep.done
    BY <1>10 DEF SweepRecord
  <2> QED BY <1>1, <2>1, <2>3, <2>4 DEF Attempted, Told, Settled, Waits, Unwarned
<1>9. ASSUME NEW c \in sweep.todo, ReadLeader(c) PROVE Sweep' /\ Attempted' /\ Told'
  <2> DEFINE system == [p \in Pids |-> IF p \in sweep.leader THEN StartOf(p) ELSE sweep.system[p]]
  <2>1. sweep' = [sweep EXCEPT !.leader = {}, !.system = system] /\ UNCHANGED <<job, report>>
    BY <1>9, <1>10 DEF ReadLeader, SweepRecord
  <2>2. system \in [Pids -> Nat]
    BY <1>10, StartsType DEF SweepRecord
  <2> HIDE DEF system
  <2> QED BY <1>1, <2>1, <2>2 DEF Sweep, SweepRecord, CleanupReport, Attempted, Told, Settled, Waits, Unwarned
<1>11. /\ Returned \in SweepRecord /\ Returned.pc = "reported" /\ Returned.groups = sweep.groups
       /\ Returned.todo = {} /\ Returned.done = {}
  BY <1>10, StartsType DEF Returned, SweepRecord
<1>3. CASE KillsCutShort
  <2>1. /\ sweep' = [sweep EXCEPT !.pc = "wait", !.todo = {}, !.system = Unread] /\ sweep.pc = "kill"
        /\ Reports([report EXCEPT !.late = TRUE]) /\ UNCHANGED job
    BY <1>3 DEF KillsCutShort
  <2>2. report' \in CleanupReport
    BY <2>1 DEF Reports, Sweep, SweepRecord, CleanupReport
  <2>3. Sweep'
    BY <1>1, <2>1, <2>2, StartsType DEF Sweep, SweepRecord, CleanupReport
  <2>4. Attempted'
    BY <1>1, <2>1 DEF Attempted, Sweep, SweepRecord, CleanupReport, Settled
  <2>5. Told'
    BY <1>1, <2>1, WarningStays DEF Sweep, SweepRecord, CleanupReport
  <2> QED BY <2>3, <2>4, <2>5
<1>4. CASE WaitForExit
  <2> DEFINE left == {c.pid : c \in {c \in sweep.waiting : ~Exited(c)}}
             survivors == {p \in report.survivors \cup left : proc[p].st \in {"live", "dying"}}
  <2>1. Reports([report EXCEPT !.late = @ \/ left # {}, !.survivors = survivors])
    BY <1>4 DEF WaitForExit
  <2>7. survivors \in SUBSET Pids
    BY DEF Sweep, SweepRecord, CleanupReport, Candidate
  <2> HIDE DEF left, survivors
  <2>2. /\ sweep' = Returned /\ sweep.pc = "wait" /\ UNCHANGED job
    BY <1>4 DEF WaitForExit
  <2>3. report' \in CleanupReport
    BY <2>1, <2>7 DEF Reports, Sweep, SweepRecord, CleanupReport
  <2>4. Sweep'
    BY <1>1, <1>11, <2>2, <2>3 DEF Sweep, CleanupReport
  <2>5. Attempted'
    BY <1>11, <2>2 DEF Attempted
  <2>6. Told'
    BY <1>1, <1>11, <2>1, <2>2 DEF Told, Reports, Unwarned, Settled, Sweep, SweepRecord, CleanupReport
  <2> QED BY <2>4, <2>5, <2>6
<1>5. CASE DeadlinePasses
  <2>1. sweep' = [sweep EXCEPT !.late = TRUE] /\ UNCHANGED <<job, report>>
    BY <1>5 DEF DeadlinePasses
  <2> QED BY <1>1, <2>1 DEF Sweep, SweepRecord, CleanupReport, Attempted, Told, Settled, Waits, Unwarned
<1>6. CASE Joined
  <2>1. job' = [job EXCEPT !.pc = "done"] /\ UNCHANGED <<sweep, report>> /\ sweep.pc = "reported" /\ job.pc = "sweep"
    BY <1>6 DEF Joined
  <2> QED BY <1>1, <2>1 DEF Sweep, SweepRecord, CleanupReport, Attempted, Told, Settled, Waits, Unwarned, Stages, JobStages
<1>7. CASE Backstop
  <2>1. /\ job' = [job EXCEPT !.pc = "done"] /\ UNCHANGED sweep
        /\ report' = [late |-> TRUE, degraded |-> FALSE, failed |-> FALSE, survivors |-> {}]
    BY <1>7 DEF Backstop
  <2> QED BY <1>1, <2>1 DEF Sweep, SweepRecord, CleanupReport, Attempted, Told, Settled, Waits, Unwarned, Stages, JobStages
<1>8. CASE JoinFails
  <2>1. /\ job' = [job EXCEPT !.pc = "done"] /\ sweep' = Returned
        /\ report' = [late |-> FALSE, degraded |-> FALSE, failed |-> TRUE, survivors |-> {}]
        /\ sweep.pc # "idle"
    BY <1>8 DEF JoinFails, SweepRuns
  <2> QED BY <1>1, <1>11, <2>1 DEF Sweep, SweepRecord, CleanupReport, Attempted, Told, Settled, Waits, Unwarned, Stages, JobStages
<1> QED BY <1>2, <1>3, <1>4, <1>5, <1>6, <1>7, <1>8, <1>9

-----------------------------------------------------------------------------
(* What the refresh of a candidate is good for until the signal.            *)

\* Somebody else's process that is there after a step of the kernel was there
\* before, in the same group or in a group that is now its own, or has just been
\* started, under a number no group has.
Keeps(p) ==
  There(p)' =>
    \/ There(p) /\ proc'[p].start = proc[p].start
       /\ (proc'[p].of \in {"alien", "optout"} =>
             proc'[p].of = proc[p].of /\ proc'[p].grp \in {proc[p].grp, p})
    \/ /\ ~There(p) /\ started[p] < proc'[p].start
       /\ \A q \in Pids : There(q) => proc[q].grp # p

LEMMA StartKeeps ==
  ASSUME Kernel, NEW taken, NEW q \in NextPid(taken), NEW r, Start(q, r), r.st = "live",
         [r EXCEPT !.start = clock].start = clock
  PROVE  /\ \A p \in Pids : Keeps(p)
         /\ \A p \in Pids : started[p] <= started'[p]
<1>1. /\ q \in Pids /\ ~There(q) /\ started[q] < clock
      /\ \A p \in Pids : There(p) => proc[p].grp # q
  BY FreePid
<1>2. /\ proc' = [proc EXCEPT ![q] = [r EXCEPT !.start = clock]]
      /\ started' = [started EXCEPT ![q] = clock]
  BY DEF Start
<1>3. proc \in [Pids -> Proc] /\ started \in [Pids -> Nat] /\ clock \in Nat
  BY DEF Kernel, ProcType
<1>4. proc'[q].start = clock
  BY <1>1, <1>2, <1>3
<1>5. \A p \in Pids : p # q => proc'[p] = proc[p]
  BY <1>1, <1>2, <1>3
<1> QED BY <1>1, <1>2, <1>3, <1>4, <1>5 DEF Keeps, There

LEMMA KernelKeeps ==
  ASSUME Kernel, KernelStep
  PROVE  /\ \A p \in Pids : Keeps(p)
         /\ \A p \in Pids : started[p] <= started'[p]
<1>1. proc \in [Pids -> Proc] /\ started \in [Pids -> Nat] /\ clock \in Nat
  BY DEF Kernel, ProcType
<1>2. CASE Tick
  BY <1>1, <1>2 DEF Tick, Keeps, There
<1>3. CASE Unrelated
  <2>1. PICK q \in NextPid({}) : \E g : Start(q, [Gone EXCEPT !.st = "live", !.grp = g[1], !.gen = g[2],
                                                                 !.of = "alien"])
    BY <1>3 DEF Unrelated
  <2>2. PICK r : Start(q, r) /\ r.st = "live" /\ [r EXCEPT !.start = clock].start = clock
    <3>1. \A g : LET r == [Gone EXCEPT !.st = "live", !.grp = g[1], !.gen = g[2], !.of = "alien"]
                 IN  r.st = "live" /\ [r EXCEPT !.start = clock].start = clock
      BY DEF Gone
    <3> QED BY <2>1, <3>1
  <2> QED BY <2>1, <2>2, StartKeeps
<1>4. ASSUME NEW p \in Pids, Fork(p) PROVE (\A q \in Pids : Keeps(q)) /\ \A q \in Pids : started[q] <= started'[q]
  <2>1. PICK q \in NextPid(sweep.done \cup {t[1] : t \in sweep.tried}) : Start(q, proc[p])
    BY <1>4 DEF Fork
  <2>2. proc[p].st = "live" /\ [proc[p] EXCEPT !.start = clock].start = clock
    BY <1>1, <1>4 DEF Fork, Live, Proc
  <2> QED BY <2>1, <2>2, StartKeeps
<1>5. ASSUME NEW p \in Pids, Changes(p) PROVE (\A q \in Pids : Keeps(q)) /\ \A q \in Pids : started[q] <= started'[q]
  <2>1. PICK r \in {[proc[p] EXCEPT !.id = FALSE],
                    [proc[p] EXCEPT !.grp = p, !.gen = clock, !.of = IF @ = "job" THEN "left" ELSE @],
                    [proc[p] EXCEPT !.ours = FALSE, !.id = FALSE]} : proc' = [proc EXCEPT ![p] = r]
    BY <1>5 DEF Changes
  <2>2. r.start = proc[p].start /\ r.st = proc[p].st /\ r.grp \in {proc[p].grp, p}
    BY <1>1 DEF Proc
  <2>3. r.of = proc[p].of \/ r.of = "left"
    BY <1>1 DEF Proc
  <2>4. proc'[p] = r /\ \A q \in Pids : q # p => proc'[q] = proc[q]
    BY <1>1, <2>1
  <2>5. started' = started
    BY <1>5 DEF Changes
  <2> QED BY <1>1, <2>2, <2>3, <2>4, <2>5 DEF Keeps, There
<1>6. ASSUME NEW p \in Pids, Ends(p) PROVE (\A q \in Pids : Keeps(q)) /\ \A q \in Pids : started[q] <= started'[q]
  <2>1. Shrinks
    BY <1>6, EndsShrinks
  <2>2. started' = started
    BY <1>6 DEF Ends
  <2>3. \A q \in Pids : There(q)' => /\ There(q) /\ proc'[q].start = proc[q].start
                                     /\ proc'[q].of = proc[q].of /\ proc'[q].grp = proc[q].grp
    BY <2>1 DEF Shrinks, There
  <2>4. \A q \in Pids : Keeps(q)
    BY <2>3 DEF Keeps
  <2>5. \A q \in Pids : started[q] <= started'[q]
    BY <1>1, <2>2
  <2> QED BY <2>4, <2>5
<1> QED BY <1>2, <1>3, <1>4, <1>5, <1>6 DEF KernelStep

\* A live process that is not of the job leads no registered group.
LEMMA NotRegistered ==
  ASSUME Kernel, Sweep, sweep.pc # "idle", NEW p \in Pids, There(p), proc[p].of \in {"alien", "optout"},
         NEW l \in Pids, There(l), proc[p].grp = l, NEW g \in sweep.groups, g.id = l
  PROVE  proc[l].start \notin {0, g.start}
<1>1. g \in job.groups
  BY DEF Sweep
<1>2. proc[l].grp = l
  BY DEF Kernel, Grouped
<1>3. proc[l].of = proc[p].of
  BY <1>2 DEF Kernel, Grouped
<1>4. proc[l].start # g.start
  BY <1>1, <1>3 DEF Kernel, Registry
<1>5. proc[l].start # 0
  BY DEF Kernel, Clocks, ProcType, Proc
<1> QED BY <1>4, <1>5

LEMMA KernelReading ==
  ASSUME Kernel, Kernel', Stages, Sweep, Sweep', Reading, KernelStep
  PROVE  Reading'
<1>1. UNCHANGED <<job, sweep>>
  BY DEF KernelStep, Tick, Unrelated, Fork, Changes, Ends
<1>2. \A p \in Pids : Ages(p) \/ Leaves(p) \/ Forked(p)
  BY KernelAges, EndsShrinks, ReapsAges DEF KernelStep
<1>3. (\A p \in Pids : Keeps(p)) /\ \A p \in Pids : started[p] <= started'[p]
  BY KernelKeeps
<1>4. \A p \in Pids : sweep.system[p] <= started'[p]
  BY <1>3 DEF Reading, Sweep, SweepRecord, Kernel, ProcType
<1>5. ASSUME NEW c \in sweep.at PROVE Reading!5!(c)'
  <2> DEFINE p == c.pid
  <2>1. /\ c \in sweep.todo /\ p \in Pids /\ p \notin sweep.leader /\ sweep.pc # "idle"
        /\ <<p, c.by>> \in sweep.tried
    BY DEF Reading, Sweep, SweepRecord, Candidate
  <2>2. Ages(p) \/ Leaves(p)
    BY <1>2, <2>1 DEF Forked
  <2>3. proc'[p].of \notin {"nobody", "alien"} => sweep.system[p] = c.start
    BY <2>2 DEF Ages, Leaves, Reading
  <2>4. c.by = "group" /\ proc'[p].of = "job" /\ proc'[p].grp \notin sweep.leader =>
          sweep.system[proc'[p].grp] \in {0, proc'[p].gen}
    BY <2>2 DEF Ages, Leaves, Reading
  <2>5. ASSUME Same(p)', proc'[p].of \in {"alien", "optout"}
        PROVE  Same(p) /\ proc'[p].of = proc[p].of /\ proc'[p].grp \in {proc[p].grp, p}
    BY <1>1, <1>3, <2>1, <2>5 DEF Keeps, Same, Reading, Sweep, SweepRecord, Kernel, ProcType, Proc
  <2>6. ASSUME c.by = "group", Same(p)', proc'[p].of \in {"alien", "optout"},
               proc'[p].grp \notin sweep.leader, proc'[proc'[p].grp].st # "gone", NEW g \in sweep.groups, g.id = proc'[p].grp
        PROVE  sweep.system[g.id] \notin {0, g.start}
    <3>1. There(p)' /\ sweep.system[p] = proc'[p].start
      BY <1>1, <2>6 DEF Same
    <3>2. CASE proc'[p].grp = p
      <4>1. proc'[p].start \notin {0, g.start}
        BY <1>1, <2>1, <2>6, <3>1, <3>2 DEF Kernel, Registry, Clocks, Sweep, ProcType, Proc
      <4> QED BY <2>6, <3>1, <3>2, <4>1
    <3>3. CASE proc'[p].grp # p
      <4>1. Same(p) /\ proc'[p].of = proc[p].of /\ proc'[p].grp = proc[p].grp
        BY <2>5, <2>6, <3>3
      <4>2. proc[p].grp \in Pids
        BY <2>1, <4>1 DEF Same, Kernel, Marked
      <4> DEFINE l == proc[p].grp
      <4>3. proc'[l].st # "gone"
        BY <2>6, <4>1
      <4>4. There(l)
        BY <1>3, <2>1, <4>1, <4>2, <4>3 DEF Keeps, Same, There
      <4> QED BY <2>6, <4>1, <4>4 DEF Reading
    <3> QED BY <3>2, <3>3
  <2>7. Same(p)' /\ proc'[p].of \in {"alien", "optout"} =>
          \A s \in sweep.sure : s.reused /\ ~s.led /\ s.grp \notin job.empty
    <3> SUFFICES ASSUME Same(p)', proc'[p].of \in {"alien", "optout"}, NEW s \in sweep.sure
                 PROVE  s.reused /\ ~s.led /\ s.grp \notin job.empty
      OBVIOUS
    <3>1. Same(p) /\ proc[p].of \in {"alien", "optout"}
      BY <2>5
    <3> QED BY <3>1, Zenon DEF Reading
  <2> QED BY <1>1, <2>1, <2>3, <2>4, <2>6, <2>7 DEF There
<1> QED BY <1>1, <1>4, <1>5 DEF Reading

\* No candidate is in hand.
LEMMA NoneReading ==
  ASSUME sweep'.at = {}, sweep'.leader = {}, sweep'.sure = {},
         \A p \in Pids : sweep'.system[p] <= started'[p]
  PROVE  Reading'
  BY DEF Reading

LEMMA TakeReading ==
  ASSUME Kernel, Sweep, Reading, NEW c \in sweep.todo, TakeCandidate(c)
  PROVE  Reading'
<1> DEFINE p == c.pid
<1>1. /\ UNCHANGED <<proc, clock, started, job>> /\ sweep \in SweepRecord /\ p \in Pids
      /\ sweep.leader = {} /\ sweep.sure = {} /\ sweep.pc # "idle"
      /\ proc[p].of \in {"nobody", "alien"} \/ proc[p].start = c.start
  BY DEF TakeCandidate, Sweep, SweepRecord, Candidate, Reading
<1>2. /\ sweep'.at = {c} /\ sweep'.sure = {} /\ sweep'.todo = sweep.todo /\ sweep'.groups = sweep.groups
      /\ sweep'.leader = IF c.by = "group" /\ There(p) THEN {proc[p].grp} \ {p} ELSE {}
      /\ sweep'.system = [sweep.system EXCEPT ![p] = StartOf(p)]
  BY <1>1 DEF TakeCandidate, SweepRecord
<1>3. sweep'.system[p] = StartOf(p) /\ \A q \in Pids : sweep'.system[q] <= started[q]
  BY <1>1, <1>2, StartsType DEF SweepRecord, Reading
<1>4. There(p) => StartOf(p) = proc[p].start
  BY DEF StartOf
<1>5. proc[p].of \notin {"nobody", "alien"} => sweep'.system[p] = c.start
  BY <1>1, <1>3, <1>4 DEF Kernel, Marked
<1>6. ASSUME c.by = "group", proc[p].of = "job", proc[p].grp \notin sweep'.leader
      PROVE  sweep'.system[proc[p].grp] = proc[p].gen
  <2>1. There(p)
    BY <1>1, <1>6 DEF Kernel, Marked
  <2>2. proc[p].grp = p
    BY <1>2, <1>6, <2>1
  <2> QED BY <1>1, <1>3, <1>4, <1>6, <2>1, <2>2 DEF Kernel, Tracked
<1>7. ASSUME c.by = "group", Same(p)', proc[p].of \in {"alien", "optout"}, proc[p].grp \notin sweep'.leader,
             There(proc[p].grp), NEW g \in sweep.groups, g.id = proc[p].grp
      PROVE  sweep'.system[g.id] \notin {0, g.start}
  <2>1. There(p)
    BY <1>1, <1>7 DEF Same, There
  <2>2. proc[p].grp = p
    BY <1>2, <1>7, <2>1
  <2> QED BY <1>1, <1>3, <1>4, <1>7, <2>1, <2>2, NotRegistered
<1> QED BY <1>1, <1>2, <1>3, <1>5, <1>6, <1>7 DEF Reading, There

LEMMA LeaderReading ==
  ASSUME Kernel, Sweep, Reading, NEW c \in sweep.todo, ReadLeader(c)
  PROVE  Reading'
<1> DEFINE p == c.pid
<1>1. /\ UNCHANGED <<proc, clock, started, job>> /\ sweep \in SweepRecord /\ p \in Pids
      /\ sweep.sure = {} /\ c \in sweep.at /\ sweep.pc # "idle" /\ p \notin sweep.leader
      /\ \A d \in sweep.at : d = c
  BY DEF ReadLeader, SweepRuns, Sweep, SweepRecord, Candidate, Reading
<1>2. /\ sweep'.at = sweep.at /\ sweep'.sure = sweep.sure /\ sweep'.todo = sweep.todo
      /\ sweep'.groups = sweep.groups /\ sweep'.leader = {}
      /\ \A q \in Pids : sweep'.system[q] = IF q \in sweep.leader THEN StartOf(q) ELSE sweep.system[q]
  BY <1>1 DEF ReadLeader, SweepRecord
<1>3. \A q \in Pids : sweep'.system[q] <= started[q]
  BY <1>2, StartsType DEF Reading
<1>4. sweep'.system[p] = sweep.system[p]
  BY <1>1, <1>2
<1>5. ASSUME c.by = "group", proc[p].of = "job"
      PROVE  sweep'.system[proc[p].grp] \in {0, proc[p].gen}
  <2>1. There(p)
    BY <1>1, <1>5 DEF Kernel, Marked
  <2>2. proc[p].grp \in Pids /\ StartOf(proc[p].grp) \in {0, proc[p].gen}
    BY <1>1, <1>5, <2>1, LeaderStart
  <2>3. CASE proc[p].grp \in sweep.leader
    BY <1>2, <2>2, <2>3
  <2>4. CASE proc[p].grp \notin sweep.leader
    BY <1>1, <1>2, <1>5, <2>2, <2>4 DEF Reading
  <2> QED BY <2>3, <2>4
<1>6. ASSUME c.by = "group", Same(p)', proc[p].of \in {"alien", "optout"},
             There(proc[p].grp), NEW g \in sweep.groups, g.id = proc[p].grp
      PROVE  sweep'.system[g.id] \notin {0, g.start}
  <2>1. Same(p) /\ There(p)
    BY <1>1, <1>4, <1>6 DEF Same, There
  <2>2. proc[p].grp \in Pids
    BY <1>1, <2>1 DEF Kernel, Marked
  <2>3. CASE proc[p].grp \in sweep.leader
    <3>1. sweep'.system[g.id] = proc[g.id].start
      BY <1>2, <1>6, <2>2, <2>3 DEF StartOf
    <3>2. proc[g.id].start \notin {0, g.start}
      BY <1>1, <1>6, <2>1, <2>2, NotRegistered
    <3> QED BY <3>1, <3>2
  <2>4. CASE proc[p].grp \notin sweep.leader
    <3>1. sweep.system[g.id] \notin {0, g.start}
      BY <1>1, <1>6, <2>1, <2>4 DEF Reading
    <3> QED BY <1>2, <1>6, <2>2, <2>4, <3>1
  <2> QED BY <2>3, <2>4
<1>7. proc[p].of \notin {"nobody", "alien"} => sweep'.system[p] = c.start
  BY <1>1, <1>4 DEF Reading
<1> QED BY <1>1, <1>2, <1>3, <1>5, <1>6, <1>7 DEF Reading, There

LEMMA VerifyReading ==
  ASSUME Kernel, Sweep, Reading, NEW c \in sweep.todo, Verify(c)
  PROVE  Reading'
<1> DEFINE p == c.pid
<1>1. /\ UNCHANGED <<proc, clock, started, job>> /\ sweep \in SweepRecord /\ p \in Pids
      /\ c \in sweep.at /\ sweep.leader = {} /\ sweep.pc # "idle" /\ sweep.groups = job.groups
      /\ \A d \in sweep.at : d = c
  BY DEF Verify, SweepRuns, Sweep, SweepRecord, Candidate, Reading
<1>2. CASE StillTied(c)
  <2> DEFINE s == [grp |-> proc[p].grp, led |-> There(proc[p].grp),
                   reused |-> \A g \in sweep.groups : g.id = proc[p].grp => g.start # proc[p].gen]
  <2>1. sweep' = [sweep EXCEPT !.sure = {s}]
    BY <1>2, Zenon DEF Verify
  <2>2. ASSUME Same(p), proc[p].of \in {"alien", "optout"}
        PROVE  s.reused /\ ~s.led /\ s.grp \notin job.empty
    <3>1. There(p) /\ ~proc[p].id
      BY <1>1, <2>2 DEF Same, Kernel, Marked
    <3>2. c.by = "group" /\ OwnedGroup(p, sweep.system)
      BY <1>1, <1>2, <3>1 DEF StillTied, Sweep, SweepRecord, Candidate
    <3>3. PICK g \in sweep.groups : g.id = proc[p].grp /\ sweep.system[g.id] \in {0, g.start}
      BY <3>2 DEF OwnedGroup, GroupOwned
    <3>4. ~There(proc[p].grp)
      BY <1>1, <2>2, <3>2, <3>3 DEF Reading
    <3>5. proc[p].grp \notin job.empty
      BY <1>1, <3>3 DEF Kernel, Registry
    <3>6. \A h \in sweep.groups : h.id = proc[p].grp => h.start # proc[p].gen
      BY <1>1, <2>2, <3>1 DEF Kernel, Registry
    <3> QED BY <3>4, <3>5, <3>6, Zenon
  <2> HIDE DEF s
  <2>3. /\ sweep'.at = sweep.at /\ sweep'.sure = {s} /\ sweep'.todo = sweep.todo
        /\ sweep'.groups = sweep.groups /\ sweep'.leader = {} /\ sweep'.system = sweep.system
    BY <1>1, <2>1 DEF SweepRecord
  <2>4. Same(p)' => Same(p)
    BY <1>1, <2>3 DEF Same, There
  <2>5. ASSUME NEW d \in sweep.at PROVE Reading!5!(d)'
    <3>1. d = c
      BY <1>1
    <3>2. Reading!5!(c)
      BY <1>1 DEF Reading
    <3>3. Same(p)' /\ proc'[p].of \in {"alien", "optout"} =>
            \A t \in sweep'.sure : t.reused /\ ~t.led /\ t.grp \notin job'.empty
      BY <1>1, <2>2, <2>3, <2>4, Zenon
    <3> QED BY <1>1, <2>3, <2>4, <3>1, <3>2, <3>3 DEF There
  <2> QED BY <1>1, <2>3, <2>5 DEF Reading
<1>3. CASE ~StillTied(c)
  <2>1. sweep' = After(c)
    BY <1>3 DEF Verify
  <2> QED BY <1>1, <2>1, AfterRecord, NoneReading
<1> QED BY <1>2, <1>3

LEMMA NextReading ==
  ASSUME Kernel, Kernel', Stages, Sweep, Sweep', Reading, [Next]_vars
  PROVE  Reading'
<1>1. sweep \in SweepRecord /\ started \in [Pids -> Nat]
  BY DEF Sweep, Kernel, ProcType
<1>2. sweep.todo = {} => sweep.at = {} /\ sweep.leader = {} /\ sweep.sure = {}
  BY DEF Reading
<1>3. CASE KernelStep
  BY <1>3, KernelReading
<1>4. CASE SpawnNext
  <2>1. PICK p \in Pids, optout \in BOOLEAN : SpawnStep(p, optout)
    BY <1>4 DEF SpawnNext
  <2>2. sweep' = sweep /\ sweep.todo = {}
    BY <2>1 DEF SpawnStep, Sweep, Stages, JobStages
  <2>3. started' = [started EXCEPT ![p] = clock] /\ started[p] < clock /\ clock \in Nat
    BY <2>1, FreePid DEF SpawnStep, Start, Kernel, ProcType
  <2>4. \A q \in Pids : sweep.system[q] <= started'[q]
    BY <1>1, <2>3 DEF Reading, SweepRecord
  <2> QED BY <1>2, <2>2, <2>4, NoneReading
<1>5. CASE StepNext \/ StepKilled \/ StepDropped \/ BeginSweep
  <2>1. sweep.todo = {} /\ started' = started
    BY <1>5 DEF StepNext, StepExits, ReleaseGroup, DrainEnds, DrainGrace, StepKilled, StepDropped,
                BeginSweep, Sweep, Stages, JobStages
  <2>2. sweep' = sweep \/ sweep' = [sweep EXCEPT !.pc = "scan", !.groups = job.groups]
    BY <1>5 DEF StepNext, StepExits, ReleaseGroup, DrainEnds, DrainGrace, StepKilled, StepDropped, BeginSweep
  <2>3. sweep'.at = sweep.at /\ sweep'.leader = sweep.leader /\ sweep'.sure = sweep.sure /\ sweep'.system = sweep.system
    BY <1>1, <2>2 DEF SweepRecord
  <2> QED BY <1>2, <2>1, <2>3, NoneReading DEF Reading
<1>6. CASE ScanPass
  <2>1. sweep.todo = {} /\ started' = started
    BY <1>6 DEF ScanPass, Sweep
  <2>2. /\ sweep'.at = sweep.at /\ sweep'.leader = sweep.leader /\ sweep'.sure = sweep.sure
        /\ sweep'.system \in {sweep.system, Starts}
    BY <1>1, <1>6 DEF ScanPass, SweepRecord
  <2>3. \A p \in Pids : sweep'.system[p] <= started'[p]
    BY <2>1, <2>2, StartsType DEF Starts, Reading
  <2> QED BY <1>2, <2>1, <2>2, <2>3, NoneReading
<1>7. CASE \E c \in sweep.todo : TakeCandidate(c) \/ ReadLeader(c) \/ Verify(c)
  BY <1>7, TakeReading, LeaderReading, VerifyReading
<1>8. CASE \E c \in sweep.todo : KillOne(c)
  <2>1. PICK c \in sweep.todo : KillOne(c)
    BY <1>8
  <2>2. /\ sweep' = [After(c) EXCEPT !.done = @ \cup {c.pid}, !.waiting = @ \cup {c}]
           \/ sweep' = [After(c) EXCEPT !.done = @ \cup {c.pid}]
        /\ started' = started /\ sweep.sure # {}
    BY <2>1 DEF KillOne
  <2>3. sweep.leader = {}
    BY <2>2 DEF Reading
  <2> DEFINE rest == After(c)
  <2>4. /\ rest \in SweepRecord /\ rest.at = {} /\ rest.sure = {} /\ rest.leader = {}
        /\ \A p \in Pids : rest.system[p] <= started[p]
    BY <1>1, <2>3, AfterRecord
  <2>5. sweep' = [rest EXCEPT !.done = @ \cup {c.pid}, !.waiting = @ \cup {c}] \/ sweep' = [rest EXCEPT !.done = @ \cup {c.pid}]
    BY <2>2
  <2> HIDE DEF rest
  <2>6. sweep'.at = {} /\ sweep'.sure = {} /\ sweep'.leader = {} /\ sweep'.system = rest.system
    BY <2>4, <2>5 DEF SweepRecord
  <2> QED BY <2>2, <2>4, <2>6, NoneReading
<1>9. CASE KillsCutShort
  <2>1. sweep' = [sweep EXCEPT !.pc = "wait", !.todo = {}, !.system = Unread] /\ sweep.at = {} /\ started' = started
    BY <1>9 DEF KillsCutShort
  <2>2. sweep'.at = {} /\ sweep'.sure = {} /\ sweep'.leader = {} /\ sweep'.system = Unread
    BY <1>1, <2>1 DEF SweepRecord, Reading
  <2> QED BY <2>1, <2>2, StartsType, NoneReading
<1>10. CASE WaitForExit \/ JoinFails
  <2>1. sweep' = Returned /\ started' = started
    BY <1>10 DEF WaitForExit, JoinFails
  <2>2. sweep'.at = {} /\ sweep'.sure = {} /\ sweep'.leader = {} /\ sweep'.system = Unread
    BY <1>1, <2>1 DEF Returned, SweepRecord
  <2> QED BY <2>1, <2>2, StartsType, NoneReading
<1>11. CASE DeadlinePasses \/ Joined \/ Backstop \/ UNCHANGED vars
  <2>1. sweep' = sweep \/ sweep' = [sweep EXCEPT !.late = TRUE]
    BY <1>11 DEF DeadlinePasses, Joined, Backstop, vars
  <2>2. UNCHANGED <<proc, started>> /\ job'.empty = job.empty
    BY <1>11 DEF DeadlinePasses, Joined, Backstop, vars, Stages, JobStages
  <2>3. /\ sweep'.at = sweep.at /\ sweep'.leader = sweep.leader /\ sweep'.sure = sweep.sure
        /\ sweep'.system = sweep.system /\ sweep'.todo = sweep.todo /\ sweep'.groups = sweep.groups
    BY <1>1, <2>1 DEF SweepRecord
  <2>4. \A c : Same(c)' <=> Same(c)
    BY <2>2, <2>3 DEF Same, There
  <2> QED BY <2>2, <2>3, <2>4 DEF Reading, There
<1> QED BY <1>3, <1>4, <1>5, <1>6, <1>7, <1>8, <1>9, <1>10, <1>11 DEF Next, SweepNext, JoinNext

-----------------------------------------------------------------------------
(* Whom the sweep kills, and what it logs.                                  *)

\* Whoever is signalled is somebody's of the job, but for the member of a later
\* group of the same number, whose leader is gone.
LEMMA NextInnocents ==
  ASSUME Kernel, Stages, Sweep, Reading, NoInnocentKilled, [Next]_vars
  PROVE  NoInnocentKilled'
<1>1. CASE UNCHANGED killed /\ (job'.empty = job.empty \/ killed = {})
  BY <1>1 DEF NoInnocentKilled
<1>2. ASSUME NEW c \in sweep.todo, KillOne(c) PROVE NoInnocentKilled'
  <2> DEFINE kill(s) == [pid |-> c.pid, of |-> proc[c.pid].of, was |-> s,
                         same |-> proc[c.pid].start = sweep.system[c.pid], backstop |-> job.pc = "done"]
  <2>1. /\ job' = job /\ c \in sweep.at
        /\ UNCHANGED killed \/ \E s \in sweep.sure : There(c.pid) /\ killed' = killed \cup {kill(s)}
    BY <1>2, Zenon DEF KillOne
  <2>2. ASSUME NEW s \in sweep.sure, There(c.pid), kill(s).of \in {"alien", "optout"}, kill(s).same
        PROVE  kill(s).was.reused /\ ~kill(s).was.led /\ kill(s).was.grp \notin job.empty
    <3>1. Same(c.pid) /\ proc[c.pid].of \in {"alien", "optout"}
      BY <2>2, Zenon DEF Same
    <3>2. s.reused /\ ~s.led /\ s.grp \notin job.empty
      BY <2>1, <2>2, <3>1, Zenon DEF Reading
    <3> QED BY <3>2, Zenon
  <2>3. CASE UNCHANGED killed
    BY <2>1, <2>3 DEF NoInnocentKilled
  <2>4. ASSUME NEW s \in sweep.sure, There(c.pid), killed' = killed \cup {kill(s)}
        PROVE  NoInnocentKilled'
    <3> DEFINE one == kill(s)
    <3>1. one.of \in {"alien", "optout"} /\ one.same =>
            one.was.reused /\ ~one.was.led /\ one.was.grp \notin job.empty
      BY <2>2, <2>4, Zenon
    <3>2. killed' = killed \cup {one}
      BY <2>4
    <3> HIDE DEF one
    <3> QED BY <2>1, <3>1, <3>2, Zenon DEF NoInnocentKilled
  <2> QED BY <2>1, <2>3, <2>4
<1>3. CASE SpawnNext \/ ReleaseGroup
  <2>1. UNCHANGED killed /\ sweep.pc = "idle"
    BY <1>3 DEF SpawnNext, SpawnStep, ReleaseGroup, Stages, JobStages
  <2> QED BY <1>1, <2>1 DEF Sweep, SweepRecord, CleanupReport
<1>4. CASE Tick \/ Unrelated \/ (\E p \in Pids : Fork(p) \/ Changes(p)) \/ UNCHANGED vars
  BY <1>1, <1>4 DEF Tick, Unrelated, Fork, Changes, vars
<1>5. CASE Looks
  <2>1. UNCHANGED killed
    BY <1>5 DEF Looks, DrainEnds, BeginSweep, ScanPass, KillsCutShort, WaitForExit, TakeCandidate,
                ReadLeader, Verify, DeadlinePasses, Joined, Backstop, JoinFails
  <2> QED BY <1>1, <1>5, <2>1, LooksQuiet DEF SameGroups
<1>6. CASE Reaps
  <2>1. CASE \E c \in sweep.todo : KillOne(c)
    BY <1>2, <2>1
  <2>2. CASE (\E p \in Pids : Ends(p)) \/ StepExits \/ StepKilled \/ StepDropped \/ DrainGrace
    BY <1>1, <2>2 DEF Ends, StepExits, StepKilled, StepDropped, DrainGrace
  <2> QED BY <1>6, <2>1, <2>2 DEF Reaps
<1> QED BY <1>3, <1>4, <1>5, <1>6, NextKinds

\* The pids of what was killed are logged when the job stops waiting.
LEMMA NextLogged ==
  ASSUME Stages, Sweep, KillsAreLogged, [Next]_vars
  PROVE  KillsAreLogged'
<1>1. CASE UNCHANGED <<killed, logged>> /\ job'.pc = job.pc
  BY <1>1 DEF KillsAreLogged
<1>2. CASE job'.pc # "done"
  BY <1>2 DEF KillsAreLogged
<1>3. CASE Joined \/ Backstop \/ JoinFails
  <2>1. logged' = {k.pid : k \in killed} /\ killed' = killed
    BY <1>3 DEF Joined, Backstop, JoinFails, TakeKills
  <2> QED BY <2>1 DEF KillsAreLogged
<1>4. ASSUME NEW c \in sweep.todo, KillOne(c) PROVE KillsAreLogged'
  <2>1. CASE killed' = killed
    BY <1>1, <1>4, <2>1 DEF KillOne
  <2>2. CASE killed' # killed
    <3>1. PICK k : killed' = killed \cup {k} /\ (job.pc = "done" => k.backstop)
      <4> DEFINE kill(s, b) == [pid |-> c.pid, of |-> proc[c.pid].of, was |-> s,
                                same |-> proc[c.pid].start = sweep.system[c.pid], backstop |-> b]
                 one(s) == kill(s, job.pc = "done")
      <4>1. PICK s : killed' = killed \cup {one(s)}
        BY <1>4, <2>2, Zenon DEF KillOne
      <4>3. job.pc = "done" => one(s).backstop
        OBVIOUS
      <4> HIDE DEF one
      <4> QED BY <4>1, <4>3, Zenon
    <3>2. job' = job /\ logged' = logged
      BY <1>4 DEF KillOne
    <3> QED BY <3>1, <3>2 DEF KillsAreLogged
  <2> QED BY <2>1, <2>2
<1>5. CASE BeginSweep
  <2>1. killed' = {}
    BY <1>5 DEF BeginSweep, Stages, JobStages, Sweep, SweepRecord, CleanupReport
  <2> QED BY <2>1 DEF KillsAreLogged
<1>6. CASE SpawnNext \/ ReleaseGroup
  BY <1>2, <1>6 DEF SpawnNext, SpawnStep, ReleaseGroup, Stages, JobStages
<1>7. CASE Tick \/ Unrelated \/ (\E p \in Pids : Fork(p) \/ Changes(p)) \/ UNCHANGED vars
  BY <1>1, <1>7 DEF Tick, Unrelated, Fork, Changes, vars
<1>8. CASE (\E p \in Pids : Ends(p)) \/ StepExits \/ StepKilled \/ StepDropped \/ DrainGrace \/ DrainEnds
  BY <1>1, <1>8 DEF Ends, StepExits, StepKilled, StepDropped, DrainGrace, DrainEnds
<1>9. CASE ScanPass \/ KillsCutShort \/ WaitForExit \/ DeadlinePasses \/ (\E c \in sweep.todo : TakeCandidate(c) \/ ReadLeader(c) \/ Verify(c))
  BY <1>1, <1>9 DEF ScanPass, KillsCutShort, WaitForExit, DeadlinePasses, TakeCandidate, ReadLeader, Verify
<1> QED BY <1>3, <1>4, <1>5, <1>6, <1>7, <1>8, <1>9, NextKinds DEF Reaps, Looks

-----------------------------------------------------------------------------

LEMMA InitSweepInv == Init => SweepInv
<1> SUFFICES ASSUME Init PROVE SweepInv
  OBVIOUS
<1> USE DEF Init
<1>1. Kernel
  BY GoneRecord DEF Kernel, ProcType, Proc, Clocks, Marked, Grouped, Tracked, Registry, There
<1>2. Stages
  BY OrphansAssumption DEF Stages, JobStages
<1>3. Sweep /\ Reading
  BY DEF Sweep, SweepRecord, CleanupReport, Reading, Unread
<1>4. Attempted /\ Told /\ NoInnocentKilled /\ KillsAreLogged
  BY DEF Attempted, Told, NoInnocentKilled, KillsAreLogged
<1> QED BY <1>1, <1>2, <1>3, <1>4 DEF SweepInv

LEMMA NextSweepInv == SweepInv /\ [Next]_vars => SweepInv'
<1> SUFFICES ASSUME SweepInv, [Next]_vars PROVE SweepInv'
  OBVIOUS
<1>1. Kernel /\ Stages /\ Sweep /\ Reading /\ Attempted /\ Told /\ NoInnocentKilled /\ KillsAreLogged
  BY DEF SweepInv
<1>2. Sweep' /\ Attempted' /\ Told'
  <2>1. CASE KernelStep /\ (job.pc # "done" \/ sweep.pc = "kill")
    BY <1>1, <2>1, KernelSweep
  <2>2. CASE SpawnNext \/ StepNext \/ StepKilled \/ StepDropped
    BY <1>1, <2>2, StepSweep
  <2>3. CASE BeginSweep
    BY <1>1, <2>3, BeginsSweep
  <2>4. CASE ScanPass
    BY <1>1, <2>4, ScanSweep
  <2>5. CASE \E c \in sweep.todo : KillOne(c)
    BY <1>1, <2>5, KillSweep
  <2>8. CASE \E c \in sweep.todo : Verify(c)
    BY <1>1, <2>8, VerifySweep
  <2>6. CASE \/ \E c \in sweep.todo : TakeCandidate(c) \/ ReadLeader(c)
             \/ KillsCutShort \/ WaitForExit \/ DeadlinePasses \/ Joined \/ Backstop \/ JoinFails
    BY <1>1, <2>6, OtherSweep
  <2>7. CASE UNCHANGED vars
    BY <1>1, <2>7 DEF vars, Sweep, SweepRecord, CleanupReport, Attempted, Told, Settled, Waits, Unwarned
  <2> QED BY <2>1, <2>2, <2>3, <2>4, <2>5, <2>6, <2>7, <2>8 DEF Next, SweepNext, JoinNext
<1> QED BY <1>1, <1>2, NextKernel, NextStages, NextReading, NextInnocents, NextLogged DEF SweepInv

\* What is settled carries no tie that the sweep could still find.
LEMMA SweepInvSafe == SweepInv => SweepIsSafe
<1> SUFFICES ASSUME SweepInv PROVE SweepIsSafe
  OBVIOUS
<1> USE DEF SweepInv
<1>1. TypeOK
  BY DEF TypeOK, Kernel, ProcType, Proc, Clocks, Registry, Stages, JobStages, Sweep, SweepRecord, CleanupReport, Candidate
<1>2. CleanReportIsTrue
  BY DEF CleanReportIsTrue, Told, Unwarned, Settled, Live, InTrackedGroup
<1> QED BY <1>1, <1>2 DEF SweepIsSafe

\* The sweep at a job's end (orphan_cleanup: scan_candidates, kill_verified,
\* wait_for_exit, sweep) signals nobody but what tracked steps left, except in
\* the one case its comment names; a report without a warning means that nothing
\* tied to the job is left; and every kill made while the job waited is logged.
\* For any number of pids, steps, forks and changes, however pids are reused.
THEOREM SweepsAreSafe == Spec => []SweepIsSafe
<1>1. SweepInv /\ [Next]_vars => SweepInv'
  BY NextSweepInv
<1> QED BY InitSweepInv, <1>1, SweepInvSafe, PTL DEF Spec

=============================================================================
