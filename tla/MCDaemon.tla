------------------------------ MODULE MCDaemon ------------------------------
(* Instances of Daemon for TLC.                                             *)
EXTENDS Daemon

CONSTANTS j1, j2, c1, c2, c3

(* A box of 2 vCPU and 2 GiB-units; every job fills its vCPU and takes half *)
(* of its memory, so two of them never run together.                        *)
MCBudget == [d \in Dims |-> 2]
MCSize == [j \in Jobs |-> [d \in Dims |-> IF d = "vcpu" THEN 2 ELSE 1]]

(* One container per job, and a second one of j2.                           *)
MCJobOf == [c \in Cids |-> IF c = c1 THEN j1 ELSE j2]

(* Request slots are interchangeable, and so are the two jobs together with *)
(* their containers.                                                        *)
TaskSymmetry == Permutations(Tasks)
JobSymmetry == {[x \in {j1, j2, c1, c2} |-> x],
                [x \in {j1, j2, c1, c2} |->
                   CASE x = j1 -> j2 [] x = j2 -> j1 [] x = c1 -> c2 [] OTHER -> c1]}
BothSymmetries == {p @@ q : p \in TaskSymmetry, q \in JobSymmetry}

(* However often a job is delivered and reaped: at most one runner of it at *)
(* a time, and none after its reap.                                         *)
OneLife == OneRunnerPerJob /\ ReapedIsDead
=============================================================================
