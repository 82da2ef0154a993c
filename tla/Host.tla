-------------------------------- MODULE Host --------------------------------
(***************************************************************************)
(* What the daemon promises about the box it runs on, without saying how:   *)
(* a job container runs at most once, and the ones that run at the same     *)
(* time fit into the budget together.  Shown to be implemented by Daemon.   *)
(***************************************************************************)
EXTENDS Integers, FiniteSets

CONSTANTS
    Containers,     \* every container the box may ever hold
    Dimensions,     \* vCPU and memory
    Need,           \* [Containers -> [Dimensions -> Nat]]
    Capacity        \* [Dimensions -> Nat]

VARIABLE life       \* "fresh" until started, "running", then "over" for good

Working == {c \in Containers : life[c] = "running"}
Fits(cs) ==
    \A d \in Dimensions :
        Cardinality(UNION {{c} \X (1..Need[c][d]) : c \in cs}) <= Capacity[d]

Init == life = [c \in Containers |-> "fresh"]

Begin(c) ==
    /\ life[c] = "fresh"
    /\ Fits(Working \cup {c})
    /\ life' = [life EXCEPT ![c] = "running"]

(* The job finishes or is killed; or it is given up before it ever ran.     *)
End(c) ==
    /\ life[c] \in {"fresh", "running"}
    /\ life' = [life EXCEPT ![c] = "over"]

Next == \E c \in Containers : Begin(c) \/ End(c)

Spec == Init /\ [][Next]_life
=============================================================================
