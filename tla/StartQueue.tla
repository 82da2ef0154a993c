----------------------------- MODULE StartQueue -----------------------------
(***************************************************************************)
(* The daemon's start queue (crates/daemon/src/reaper.rs, StartQueue): the  *)
(* arrival order of admitted jobs whose containers exist but have not       *)
(* started.  A queue is a sequence of job ids; push is Append.  Removal is  *)
(* defined by the positions that survive it, so that it can be reasoned     *)
(* about without recursion: the n-th entry of Without(q, js) is the entry   *)
(* of q at the n-th smallest surviving position.                            *)
(***************************************************************************)
EXTENDS Integers, Sequences, FiniteSets, SequencesExt

Surviving(q, js) == {i \in 1..Len(q) : q[i] \notin js}
Rank(I, i) == Cardinality({k \in I : k <= i})
Nth(I, n) == CHOOSE i \in I : Rank(I, i) = n

(* StartQueue::remove, for each job of js.                                  *)
Without(q, js) ==
    LET I == Surviving(q, js) IN [n \in 1..Cardinality(I) |-> q[Nth(I, n)]]

(* The entries of q that are in js, in arrival order.                       *)
Only(q, js) == Without(q, ToSet(q) \ js)
=============================================================================
