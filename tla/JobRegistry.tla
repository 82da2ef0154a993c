----------------------------- MODULE JobRegistry -----------------------------
(***************************************************************************)
(* The tombstone registry (crates/daemon/src/docker/registry.rs): what the  *)
(* daemon knows about each job id's `docker create`, and the tombstone that *)
(* lets a reap cancel a create still in flight.  A pure value like the      *)
(* gate: r maps each job id to its entry, one operator per method.          *)
(* The clock is abstracted to what prune tells apart: a tombstone is        *)
(* "reaped" while younger than TOMBSTONE_TTL and "stale" afterwards.        *)
(***************************************************************************)
CONSTANTS
    Cids,       \* container ids Docker may hand out
    NoCid       \* the absent container id

ASSUME RegistryAssumption == NoCid \notin Cids

Absent   == [state |-> "none", cid |-> NoCid]
Creating == [state |-> "creating", cid |-> NoCid]
Created(c) == [state |-> "created", cid |-> c]
Reaped   == [state |-> "reaped", cid |-> NoCid]
Stale    == [state |-> "stale", cid |-> NoCid]

JobStates == {Absent, Creating, Reaped, Stale} \cup {Created(c) : c \in Cids}
RegistryStates(js) == [js -> JobStates]
EmptyRegistry(js) == [j \in js |-> Absent]

IsTombstone(r, j) == r[j] \in {Reaped, Stale}

(* Live claims never expire by time; only stale tombstones are dropped.     *)
Prune(r) == [j \in DOMAIN r |-> IF r[j] = Stale THEN Absent ELSE r[j]]

(* begin_create: prune, then claim the id unless something holds it.        *)
BeginOutcome(r, j) ==
    IF Prune(r)[j] = Absent THEN "Proceed"
    ELSE IF Prune(r)[j] = Reaped THEN "AlreadyReaped"
    ELSE "AlreadyTracked"
BeginCreate(r, j) ==
    [Prune(r) EXCEPT ![j] = IF @ = Absent THEN Creating ELSE @]

(* Mutant of FinishOutcome: the tombstone is not looked at.                 *)
FinishKeeps(r, j) == "Keep"

(* finish_create: a tombstone, however old, is refreshed and wins.          *)
FinishOutcome(r, j) == IF IsTombstone(r, j) THEN "DiscardReaped" ELSE "Keep"
FinishCreate(r, j, c) ==
    [r EXCEPT ![j] = IF IsTombstone(r, j) THEN Reaped ELSE Created(c)]

(* abandon_create: a claim is dropped, a tombstone is left alone.           *)
AbandonCreate(r, j) == [r EXCEPT ![j] = IF IsTombstone(r, j) THEN @ ELSE Absent]

(* reap: prune, leave a tombstone, report the container known before.       *)
Reap(r, j) == [Prune(r) EXCEPT ![j] = Reaped]
ReapKnown(r, j) == r[j].cid

ForgetAll(r, js) == [j \in DOMAIN r |-> IF j \in js THEN Absent ELSE r[j]]
Forget(r, j) == ForgetAll(r, {j})
=============================================================================
