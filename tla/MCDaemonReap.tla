---------------------------- MODULE MCDaemonReap ----------------------------
(* MCDaemon with a record of the reaps whose client got its answer.         *)
EXTENDS MCDaemon

VARIABLE answered       \* jobs whose settled reap has been answered with 204

(* ReapSettles took the branch that answers a client that is still there.   *)
SettledNow ==
    {j \in Jobs : \E t \in Tasks : /\ task[t].pc = "reap_listed" /\ task[t].job = j
                                   /\ task'[t].pc = "rel_gate"}

ReapInit == Init /\ answered = {}
ReapNext == Next /\ answered' = answered \cup SettledNow
ReapSpec == ReapInit /\ [][ReapNext]_<<vars, answered>>

(* Once a reap has settled and been answered, no container of that job ever *)
(* starts (JobBackend::create: a reap arriving mid-create is binding, "the   *)
(* container it is about to create must then never start").                 *)
ReapIsFinal ==
    [][\A c \in Cids : docker[c] = "created" /\ docker'[c] = "running"
                        => JobOf[c] \notin answered]_<<vars, answered>>
=============================================================================
