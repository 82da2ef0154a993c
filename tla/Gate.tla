-------------------------------- MODULE Gate --------------------------------
(***************************************************************************)
(* The daemon's resource gate (crates/daemon/src/gate.rs): which job ids    *)
(* it is responsible for and how much of the box's vCPU and memory budget   *)
(* the running ones consume.  The Rust type is a plain value mutated under  *)
(* a lock, so it is modelled as a function g from job ids to the entry the  *)
(* map holds and as one operator per method; module Daemon owns the         *)
(* variable.  A job id always comes with the same footprint (the webhook    *)
(* that is redelivered is the same one), so Size is a constant.             *)
(***************************************************************************)
EXTENDS Integers, FiniteSets, FiniteSetsExt

CONSTANTS
    Jobs,       \* job ids GitHub may ask this daemon to serve
    Size,       \* footprint of each job: [Jobs -> [Dims -> 0..U32Max]]
    Budget,     \* TOOLU_DAEMON_VCPU / TOOLU_DAEMON_MEMORY_MB: [Dims -> 0..U32Max]
    QueueMax,   \* TOOLU_DAEMON_QUEUE_MAX
    U32Max      \* u32::MAX; a parameter because TLC's integers are 32-bit signed

Dims == {"vcpu", "memory_mb"}

ASSUME GateAssumption ==
    /\ U32Max \in Nat
    /\ QueueMax \in 0..U32Max
    /\ Budget \in [Dims -> 0..U32Max]
    /\ Size \in [Jobs -> [Dims -> 0..U32Max]]
    /\ IsFiniteSet(Jobs)

(* No map entry, an Entry with running = false, an Entry with running = true. *)
Entries == {"untracked", "queued", "running"}
GateStates == [Jobs -> Entries]
EmptyGate == [j \in Jobs |-> "untracked"]

Tracks(g, j) == g[j] # "untracked"
TrackedIds(g) == {j \in Jobs : Tracks(g, j)}
RunningIds(g) == {j \in Jobs : g[j] = "running"}
QueueDepth(g) == Min({Cardinality(TrackedIds(g)), U32Max})

SaturatingSub(a, b) == Max({a - b, 0})
FitsWithin(s, b) == \A d \in Dims : s[d] <= b[d]

(* What the members of xs need together, counted unit by unit.             *)
Load(need, xs) == Cardinality(UNION {{x} \X (1..need[x]) : x \in xs})

(* Total footprint of a set of running jobs.  The code folds saturating     *)
(* adds, which in whatever order end at the sum or, if that is less, U32Max. *)
Footprint(js) ==
    [d \in Dims |-> Min({Load([j \in Jobs |-> Size[j][d]], js), U32Max})]

Remaining(js) == [d \in Dims |-> SaturatingSub(Budget[d], Footprint(js)[d])]

(* Mutant of FitsBeside: what already runs is not subtracted.               *)
FitsTheEmptyBox(j, js) == FitsWithin(Size[j], Budget)

(* try_start's test, given the set js of jobs running at that moment.       *)
FitsBeside(j, js) == FitsWithin(Size[j], Remaining(js))

(* Mutant of AdmitOutcome: a tracked job id is admitted a second time.      *)
AdmitOutcomeAgain(g, j) ==
    IF ~FitsWithin(Size[j], Budget) THEN "ExceedsBudget"
    ELSE IF QueueDepth(g) >= QueueMax THEN "QueueFull"
    ELSE "Ok"

(* The early returns of admit, in the code's order.                         *)
AdmitOutcome(g, j) ==
    IF Tracks(g, j) THEN "DuplicateJobId"
    ELSE IF ~FitsWithin(Size[j], Budget) THEN "ExceedsBudget"
    ELSE IF QueueDepth(g) >= QueueMax THEN "QueueFull"
    ELSE "Ok"

Admit(g, j) == [g EXCEPT ![j] = "queued"]

AdoptRunning(g, j) == [g EXCEPT ![j] = "running"]
Unstart(g, j) == [g EXCEPT ![j] = IF Tracks(g, j) THEN "queued" ELSE @]
ReleaseAll(g, js) == [j \in Jobs |-> IF j \in js THEN "untracked" ELSE g[j]]
Release(g, j) == ReleaseAll(g, {j})
StartAll(g, js) == [j \in Jobs |-> IF j \in js THEN "running" ELSE g[j]]
=============================================================================
