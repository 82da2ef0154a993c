------------------------------ MODULE MCCache ------------------------------
(* Instances of Cache for TLC: two chunks of different lengths, an archive *)
(* that is a part of the other, jobs on a protected branch and on a topic. *)
EXTENDS Cache, TLC

ClientSymmetry == Permutations(Clients)
MCChunkLen == [c \in {"c1", "c2"} |-> IF c = "c2" THEN 1 ELSE 2]
MCArchives == {<<"c1", "c2">>, <<"c2">>}
MCQueries == {[key |-> "k1", restore |-> <<>>], [key |-> "k0", restore |-> <<{"k0"}, {"k1"}>>]}
MCRanges == {<<1, -1>>, <<3, 9>>}
MCSpecs == {[event |-> "push", ref |-> "main", base |-> NoRef],
            [event |-> "workflow_run", ref |-> "main", base |-> NoRef],
            [event |-> "push", ref |-> "topic", base |-> NoRef]}
MCProtected == <<"main">>
=============================================================================
