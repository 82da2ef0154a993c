-------------------------------- MODULE MCBox --------------------------------
(* What a box keeps on its disk between processes: the registrations and    *)
(* units `setup` leaves (Onboard), and the workspaces jobs leave (Workspace:*)
(* two registrations on one work root, two repositories of the same name).  *)
EXTENDS Onboard, Workspace

MCRunnerOf == [j \in Jobs |-> IF j = "j2" THEN "r2" ELSE "r1"]
MCRepoOf == [j \in Jobs |-> IF j = "j3" THEN "beta" ELSE "acme"]
MCDirNames == <<"r", "r_2">>

\* One of the two at a time; they share nothing.
VARIABLE part
IdleSetup ==
  /\ hub = [t \in Targets |-> [m \in Names |-> "none"]]
  /\ file = [u \in Unit |-> Runs("none")]
  /\ Init

MCInit ==
  /\ WorkspaceInit
  /\ \/ part = "setup" /\ Init
     \/ part = "workspace" /\ IdleSetup
\* Bound: sweeps run on the root of r1 only, beside the job of r2.
SweepsOfOne == gc'["j2"].pc \in {"idle", "open"}
MCNext ==
  \/ part = "setup" /\ Next /\ UNCHANGED <<workspaceVars, part>>
  \/ part = "workspace" /\ WorkspaceNext /\ SweepsOfOne /\ UNCHANGED <<vars, part>>
MCSpec == MCInit /\ [][MCNext]_<<vars, workspaceVars, part>>

\* Nothing of others on the box is touched: GitHub runners and units that are
\* not this setup's, workspaces of another registration.
OthersAreKept == NoSilentReplace /\ OthersUnitsKept /\ OnlyItsOwn
=============================================================================
