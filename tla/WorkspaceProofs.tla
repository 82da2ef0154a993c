---------------------------- MODULE WorkspaceProofs ----------------------------
(***************************************************************************)
(* Theorems about job workspaces, for every number of registrations, jobs, *)
(* repositories, candidate names, failures and sweeps.  One assumption: a  *)
(* mapping that was saved can be read back by the jobs that look for a     *)
(* name.  The sweeps need no such assumption.                              *)
(***************************************************************************)
EXTENDS Workspace, WellFoundedInduction, TLAPS

\* The empty string, which stands for nothing in the records of Workspace.
Nothing == ""

Threads == {NoOne} \cup {JobThread(j) : j \in Jobs} \cup {GcThread(j) : j \in Jobs}

Track == [st : {"none", "ok"}, dir : NameSet \cup {Nothing}, owner : Runners \cup {Nothing}, old : BOOLEAN]
JobLease == [file : BOOLEAN, body : Runners \cup {Nothing}, by : Threads]
JobState ==
  [pc : {"waiting", "root", "map", "fresh", "built", "leased", "running", "over"},
   dir : Dirs \cup {Nothing}]
FilePass == {"files", "reread", "tree", "file"}
EntryPass == {"entries", "old", "prune", "unlock"}
Sweep ==
  [pc : {"idle", "open", "done"} \cup FilePass \cup EntryPass, files : SUBSET Repos,
   at : Dirs \cup Repos \cup {Nothing}, keep : Dirs \cup {Nothing}, claimed : SUBSET NameSet,
   unreadable : BOOLEAN, stale : SUBSET Dirs, seen : SUBSET Dirs]

Types ==
  /\ track \in [Repos -> Track] /\ dirs \in [Dirs -> {"absent", "young", "old"}]
  /\ root \in Threads /\ lease \in [Repos -> Threads] /\ jlease \in [Jobs -> JobLease]
  /\ job \in [Jobs -> JobState] /\ gc \in [Jobs -> Sweep]
  /\ faults \in 0..MaxFaults
  /\ \A r \in Repos : track[r].st = "ok" => track[r].dir \in NameSet

\* The work-root lock is held by the one job that maps its repository.
RootHeld ==
  \A j \in Jobs : (root = JobThread(j) <=> At(j, "map")) /\ root # GcThread(j)

\* A repository's lease is with the job that uses its workspace, from the mapping
\* to the end, or with the one sweep that looks at it.
LeaseHeld ==
  /\ \A j \in Jobs, r \in Repos :
       /\ lease[r] = JobThread(j) => RepoOf[j] = r /\ job[j].pc \in {"map", "built", "running"}
       /\ lease[r] = GcThread(j) => gc[j].at = r /\ gc[j].pc \in {"reread", "tree", "file"}
  /\ \A j \in Jobs :
       /\ job[j].pc \in {"root", "map"} => RepoOf[j] \in Repos
       /\ At(j, "map") => lease[RepoOf[j]] = JobThread(j)

\* A job that has its paths is in its own fresh directory or in the one its
\* repository is mapped to, whose lease it holds.
Placed ==
  \A j \in Jobs :
    /\ At(j, "leased") => job[j].dir = j
    /\ At(j, "built") /\ job[j].dir = j => \A r \in Repos : lease[r] # JobThread(j)
    /\ job[j].pc \in {"built", "running"} /\ job[j].dir # j =>
         /\ RepoOf[j] \in Repos /\ lease[RepoOf[j]] = JobThread(j)
         /\ track[RepoOf[j]].st = "ok" /\ track[RepoOf[j]].dir = job[j].dir

\* A job runs in a directory that is there.
Present == \A j \in Jobs : At(j, "running") => dirs[job[j].dir] # "absent"

\* A sweep is its job's, from when the job's directory is there.
Started == \A j \in Jobs : gc[j].pc # "idle" => job[j].pc \in {"running", "over"}

\* A fresh directory exists only under its lease file, and a job that runs in it
\* holds the lock of that file.
JobLeaseHeld ==
  \A j \in Jobs :
    /\ dirs[j] # "absent" => jlease[j].file /\ job[j].pc \in {"running", "over"}
    /\ At(j, "leased") \/ (At(j, "running") /\ job[j].dir = j) =>
         jlease[j].file /\ jlease[j].by = JobThread(j)
    /\ \A k \in Jobs :
         /\ jlease[j].by = JobThread(k) => j = k /\ job[k].pc \in {"leased", "running"}
         /\ jlease[j].by = GcThread(k) => gc[k].at = j /\ gc[k].pc \in {"prune", "unlock"}

\* A sweep removes only what it has the lease of, and what its registration used.
SweepHolds ==
  \A j \in Jobs :
    /\ gc[j].pc \in {"reread", "tree", "file"} =>
         /\ gc[j].at \in Repos /\ lease[gc[j].at] = GcThread(j) /\ track[gc[j].at].st = "ok"
    /\ gc[j].pc \in {"tree", "file"} => track[gc[j].at].owner = RunnerOf[j]
    /\ gc[j].pc = "file" => dirs[track[gc[j].at].dir] = "absent"
    /\ gc[j].pc \in {"prune", "unlock"} =>
         /\ gc[j].at \in Jobs /\ jlease[gc[j].at].by = GcThread(j)
         /\ jlease[gc[j].at].file /\ jlease[gc[j].at].body = RunnerOf[j]
    /\ gc[j].pc = "unlock" => dirs[gc[j].at] = "absent"
    /\ gc[j].pc # "old"

\* The directory of a repository exists only while it is mapped.
Mapped ==
  \A d \in NameSet : dirs[d] # "absent" => \E r \in Repos : track[r].st = "ok" /\ track[r].dir = d

\* Whatever mapped directory is old is still to be looked at by a pass over the
\* tracking files, or claimed by it; and what the second pass may judge old is
\* claimed or gone.
Covered ==
  \A j \in Jobs :
    /\ gc[j].pc \in FilePass =>
         \A r \in Repos :
           track[r].st = "ok" /\ dirs[track[r].dir] = "old" =>
             \/ r \in gc[j].files \/ gc[j].unreadable \/ track[r].dir \in gc[j].claimed
    /\ gc[j].pc \in EntryPass =>
         \A d \in NameSet :
           d \in gc[j].stale /\ dirs[d] # "absent" => gc[j].unreadable \/ d \in gc[j].claimed

WInv ==
  /\ Types /\ RootHeld /\ LeaseHeld /\ Placed /\ Present /\ Started /\ JobLeaseHeld
  /\ SweepHolds /\ Mapped /\ OneMappingPerDirectory /\ Covered

\* Jobs can read the mappings that were saved.
MappingsReadable == {"own_read", "claim_read"} \cap Faults = {}

\* Two threads that may hold a lock are the same only when they say so.
LEMMA ThreadsDiffer ==
  \A j, k \in Jobs :
    /\ JobThread(j) # NoOne /\ GcThread(j) # NoOne /\ JobThread(j) # GcThread(k)
    /\ JobThread(j) = JobThread(k) => j = k
    /\ GcThread(j) = GcThread(k) => j = k
    /\ JobThread(j) \in Threads /\ GcThread(j) \in Threads /\ NoOne \in Threads
  BY DEF JobThread, GcThread, NoOne, Threads

\* The directories of repositories are not those of jobs.
LEMMA NamesDiffer == NameSet \cap Jobs = {}
  BY WorkspaceAssumption DEF NameSet

\* A step that may fail once more keeps the bound on failures.
LEMMA FaultsBounded ==
  ASSUME Types, Fine \/ \E f \in Faults : Fault(f)
  PROVE  faults' \in 0..MaxFaults
  BY WorkspaceAssumption DEF Types, Fine, Fault

\* The records that hold nothing.
LEMMA Empty ==
  /\ NoTrack = [st |-> "none", dir |-> Nothing, owner |-> Nothing, old |-> FALSE]
  /\ NoLease = [file |-> FALSE, body |-> Nothing, by |-> NoOne]
  /\ NoSweep = [pc |-> "idle", files |-> {}, at |-> Nothing, keep |-> Nothing, claimed |-> {},
                 unreadable |-> FALSE, stale |-> {}, seen |-> {}]
  BY DEF NoTrack, NoLease, NoSweep, Nothing

\* There is a first candidate.
LEMMA FirstIsThere ==
  ASSUME NEW s \in SUBSET Nat, s # {}
  PROVE  First(s) \in s
<1> DEFINE R == OpToRel(<, Nat)
<1>1. \A k, i \in Nat : <<k, i>> \in R <=> k < i
  BY DEF OpToRel
<1>2. IsWellFoundedOn(R, Nat)
  BY NatLessThanWellFounded
<1> HIDE DEF R
<1>3. PICK i \in s : \A k \in s : <<k, i>> \notin R
  BY <1>2, WFMin
<1>4. ASSUME NEW k \in s PROVE i <= k
  <2>1. k \in Nat /\ i \in Nat
    OBVIOUS
  <2>2. ~ (k < i)
    BY <1>1, <1>3, <2>1, Zenon
  <2> QED BY <2>1, <2>2
<1> QED BY <1>4 DEF First

\* A step of one sweep leaves the others alone.
LEMMA SweptTo ==
  ASSUME Types, NEW j \in Jobs, NEW g \in Sweep, gc' = [gc EXCEPT ![j] = g]
  PROVE  gc' \in [Jobs -> Sweep] /\ gc'[j] = g /\ \A k \in Jobs : k # j => gc'[k] = gc[k]
  BY DEF Types

\* Where the jobs that have a directory are.
LEMMA Where ==
  ASSUME WInv
  PROVE  /\ \A d \in NameSet : d \in Dirs /\ d \notin Jobs
         /\ \A k \in Jobs : k \in Dirs /\ k \notin NameSet
         /\ \A d \in Dirs : d \in NameSet \/ d \in Jobs
         /\ \A r \in Repos : track[r].st = "ok" => track[r].dir \in NameSet
         /\ \A k \in Jobs : job[k].pc \in {"built", "leased", "running"} =>
              /\ job[k].dir \in Dirs
              /\ job[k].dir # k => job[k].dir \in NameSet
<1>1. \A r \in Repos : track[r].st = "ok" => track[r].dir \in NameSet
  BY DEF WInv, Types
<1>2. \A k \in Jobs : job[k].pc \in {"built", "leased", "running"} /\ job[k].dir # k =>
        job[k].dir \in NameSet
  BY <1>1 DEF WInv, Placed, At
<1> QED BY <1>1, <1>2, NamesDiffer DEF Dirs

\* A job is taken.
LEMMA TakeJobStep ==
  ASSUME WInv, NEW j \in Jobs, TakeJob(j)
  PROVE  WInv'
<1> USE DEF WInv
<1>1. /\ job' \in [Jobs -> JobState] /\ \A k \in Jobs : k # j => job'[k] = job[k]
      /\ job[j].pc = "waiting" /\ job'[j].dir = job[j].dir
      /\ job'[j].pc = IF RepoOf[j] = NoRepo THEN "fresh" ELSE "root"
  BY DEF Types, TakeJob, At, JobAt, JobState
<1>2. UNCHANGED <<track, dirs, root, lease, jlease, gc, faults>>
  BY DEF TakeJob
<1>3. RepoOf[j] # NoRepo => RepoOf[j] \in Repos
  BY WorkspaceAssumption
<1>4. Types'
  BY <1>1, <1>2, <1>3 DEF Types
<1>5. RootHeld'
  BY <1>1, <1>2, <1>3 DEF RootHeld, At
<1>6. LeaseHeld'
  BY <1>1, <1>2, <1>3 DEF LeaseHeld, At
<1>7. Placed'
  BY <1>1, <1>2, <1>3 DEF LeaseHeld, Placed, At
<1>8. Present'
  BY <1>1, <1>2, <1>3 DEF Present, At
<1>9. Started'
  BY <1>1, <1>2, <1>3 DEF Started
<1>10. JobLeaseHeld'
  BY <1>1, <1>2, <1>3 DEF JobLeaseHeld, At
<1>11. SweepHolds'
  BY <1>1, <1>2, <1>3 DEF LeaseHeld, SweepHolds
<1>12. Mapped'
  BY <1>1, <1>2, <1>3 DEF Mapped
<1>13. OneMappingPerDirectory'
  BY <1>1, <1>2, <1>3 DEF OneMappingPerDirectory
<1>14. Covered'
  BY <1>1, <1>2, <1>3 DEF Covered
<1> QED BY <1>4, <1>5, <1>6, <1>7, <1>8, <1>9, <1>10, <1>11, <1>12, <1>13, <1>14

\* A job takes the work-root lock and its repository, if both are free.
LEMMA LockRootStep ==
  ASSUME WInv, NEW j \in Jobs, LockRoot(j)
  PROVE  WInv'
<1> USE DEF WInv
<1>1. RepoOf[j] \in Repos /\ job[j].pc = "root" /\ root = NoOne
  BY DEF LockRoot, At, LeaseHeld
<1>2. JobAt(j, IF lease[RepoOf[j]] = NoOne THEN "map" ELSE "fresh")
  BY DEF LockRoot, JobAt
<1>3. /\ job' \in [Jobs -> JobState] /\ \A k \in Jobs : k # j => job'[k] = job[k]
      /\ job'[j].dir = job[j].dir
      /\ job'[j].pc = IF lease[RepoOf[j]] = NoOne THEN "map" ELSE "fresh"
  BY <1>2 DEF Types, JobAt, JobState
<1>4. UNCHANGED <<track, dirs, jlease, gc, faults>>
  BY DEF LockRoot
<1>5. /\ lease' \in [Repos -> Threads] /\ root' \in Threads
      /\ \A r \in Repos : r # RepoOf[j] => lease'[r] = lease[r]
      /\ lease[RepoOf[j]] = NoOne => lease'[RepoOf[j]] = JobThread(j) /\ root' = JobThread(j)
      /\ lease[RepoOf[j]] # NoOne => UNCHANGED <<lease, root>>
  BY <1>1, ThreadsDiffer DEF Types, LockRoot
<1>6. Types'
  BY <1>1, <1>2, <1>3, <1>4, <1>5, ThreadsDiffer DEF Types, At
<1>7. RootHeld'
  BY <1>1, <1>2, <1>3, <1>4, <1>5, ThreadsDiffer DEF RootHeld, At
<1>8. LeaseHeld'
  BY <1>1, <1>2, <1>3, <1>4, <1>5, ThreadsDiffer DEF LeaseHeld, At
<1>9. Placed'
  BY <1>1, <1>2, <1>3, <1>4, <1>5, ThreadsDiffer DEF LeaseHeld, Placed, At
<1>10. Present'
  BY <1>1, <1>2, <1>3, <1>4, <1>5, ThreadsDiffer DEF Present, At
<1>11. Started'
  BY <1>1, <1>2, <1>3, <1>4, <1>5, ThreadsDiffer DEF Started, At
<1>12. JobLeaseHeld'
  BY <1>1, <1>2, <1>3, <1>4, <1>5, ThreadsDiffer DEF JobLeaseHeld, At
<1>13. SweepHolds'
  BY <1>1, <1>2, <1>3, <1>4, <1>5, ThreadsDiffer DEF LeaseHeld, SweepHolds, At
<1>14. Mapped'
  BY <1>1, <1>2, <1>3, <1>4, <1>5, ThreadsDiffer DEF Mapped, At
<1>15. OneMappingPerDirectory'
  BY <1>1, <1>2, <1>3, <1>4, <1>5, ThreadsDiffer DEF OneMappingPerDirectory, At
<1>16. Covered'
  BY <1>1, <1>2, <1>3, <1>4, <1>5, ThreadsDiffer DEF Covered, At
<1> QED BY <1>6, <1>7, <1>8, <1>9, <1>10, <1>11, <1>12, <1>13, <1>14, <1>15, <1>16

\* A job computes its own directory.
LEMMA PrepareFreshStep ==
  ASSUME WInv, NEW j \in Jobs, PrepareFresh(j)
  PROVE  WInv'
<1> USE DEF WInv
<1>1. /\ job' \in [Jobs -> JobState] /\ \A k \in Jobs : k # j => job'[k] = job[k]
      /\ job[j].pc = "fresh" /\ job'[j].pc = "built" /\ job'[j].dir = j
  BY DEF Types, PrepareFresh, At, JobState, Dirs
<1>2. UNCHANGED <<track, dirs, root, lease, jlease, gc, faults>>
  BY DEF PrepareFresh
<1>3. Types'
  BY <1>1, <1>2 DEF Types, At
<1>4. RootHeld'
  BY <1>1, <1>2 DEF RootHeld, At
<1>5. LeaseHeld'
  BY <1>1, <1>2 DEF LeaseHeld, At
<1>6. Placed'
  BY <1>1, <1>2 DEF LeaseHeld, Placed, At
<1>7. Present'
  BY <1>1, <1>2 DEF Present, At
<1>8. Started'
  BY <1>1, <1>2 DEF Started, At
<1>9. JobLeaseHeld'
  BY <1>1, <1>2 DEF JobLeaseHeld, At
<1>10. SweepHolds'
  BY <1>1, <1>2 DEF LeaseHeld, SweepHolds, At
<1>11. Mapped'
  BY <1>1, <1>2 DEF Mapped, At
<1>12. OneMappingPerDirectory'
  BY <1>1, <1>2 DEF OneMappingPerDirectory, At
<1>13. Covered'
  BY <1>1, <1>2 DEF Covered, At
<1> QED BY <1>3, <1>4, <1>5, <1>6, <1>7, <1>8, <1>9, <1>10, <1>11, <1>12, <1>13

\* A job is over, and every lease it holds is dropped.
LEMMA FailsStep ==
  ASSUME WInv, NEW j \in Jobs, Fails(j), faults' \in 0..MaxFaults,
         job[j].pc \in {"map", "built", "leased", "running"}
  PROVE  WInv'
<1> USE DEF WInv
<1>1. /\ job' \in [Jobs -> JobState] /\ \A k \in Jobs : k # j => job'[k] = job[k]
      /\ job'[j].pc = "over"
  BY DEF Types, Fails, JobState, Nothing
<1>2. /\ root' \in Threads
      /\ \A k \in Jobs :
           /\ root' = JobThread(k) <=> root = JobThread(k) /\ k # j
           /\ root' = GcThread(k) <=> root = GcThread(k)
  BY ThreadsDiffer DEF Types, Fails
<1>3. /\ lease' \in [Repos -> Threads]
      /\ \A r \in Repos, k \in Jobs :
           /\ lease'[r] = JobThread(k) <=> lease[r] = JobThread(k) /\ k # j
           /\ lease'[r] = GcThread(k) <=> lease[r] = GcThread(k)
  BY ThreadsDiffer DEF Types, Fails, Released
<1>4. /\ jlease' \in [Jobs -> JobLease]
      /\ \A i \in Jobs : jlease'[i].file = jlease[i].file /\ jlease'[i].body = jlease[i].body
      /\ \A i, k \in Jobs :
           /\ jlease'[i].by = JobThread(k) <=> jlease[i].by = JobThread(k) /\ k # j
           /\ jlease'[i].by = GcThread(k) <=> jlease[i].by = GcThread(k)
  BY ThreadsDiffer DEF Types, Fails, ReleasedJob, JobLease
<1>5. UNCHANGED <<track, dirs, gc>>
  BY DEF Fails
<1>6. Types'
  BY <1>1, <1>2, <1>3, <1>4, <1>5 DEF Types, At
<1>7. RootHeld'
  BY <1>1, <1>2 DEF RootHeld, At
<1>8. LeaseHeld'
  BY <1>1, <1>3, <1>5 DEF LeaseHeld, At
<1>9. Placed'
  BY <1>1, <1>3, <1>5 DEF LeaseHeld, Placed, At
<1>10. Present'
  BY <1>1, <1>2, <1>3, <1>4, <1>5 DEF Present, At
<1>11. Started'
  BY <1>1, <1>2, <1>3, <1>4, <1>5 DEF Started, At
<1>12. JobLeaseHeld'
  BY <1>1, <1>4, <1>5 DEF JobLeaseHeld, At
<1>13. SweepHolds'
  BY <1>1, <1>3, <1>4, <1>5 DEF LeaseHeld, SweepHolds
<1>14. Mapped'
  BY <1>1, <1>2, <1>3, <1>4, <1>5 DEF Mapped, At
<1>15. OneMappingPerDirectory'
  BY <1>1, <1>2, <1>3, <1>4, <1>5 DEF OneMappingPerDirectory, At
<1>16. Covered'
  BY <1>1, <1>2, <1>3, <1>4, <1>5 DEF Covered, At
<1> QED BY <1>6, <1>7, <1>8, <1>9, <1>10, <1>11, <1>12, <1>13, <1>14, <1>15, <1>16

\* A mapping is saved: the one there was, or one no other repository has.
LEMMA SaveStep ==
  ASSUME WInv, NEW j \in Jobs, NEW name \in NameSet, At(j, "map"), Save(j, name),
         faults' \in 0..MaxFaults,
         \/ track[RepoOf[j]].st = "ok" /\ track[RepoOf[j]].dir = name
         \/ track[RepoOf[j]].st = "none" /\ dirs[name] = "absent" /\ name \notin Claimed({})
  PROVE  WInv'
<1> USE DEF WInv
<1>1. RepoOf[j] \in Repos /\ job[j].pc = "map" /\ lease[RepoOf[j]] = JobThread(j) /\ name \notin Jobs
  BY NamesDiffer DEF At, LeaseHeld
<1>2. /\ job' \in [Jobs -> JobState] /\ \A k \in Jobs : k # j => job'[k] = job[k]
      /\ job'[j].pc = "built" /\ job'[j].dir = name
  BY DEF Types, Save, JobState, Dirs
<1>3. /\ track' \in [Repos -> Track] /\ \A r \in Repos : r # RepoOf[j] => track'[r] = track[r]
      /\ track'[RepoOf[j]].st = "ok" /\ track'[RepoOf[j]].dir = name
  BY <1>1, WorkspaceAssumption DEF Types, Save, Track
<1>4. root' = NoOne /\ root = JobThread(j) /\ NoOne \in Threads /\ UNCHANGED <<dirs, lease, jlease, gc>>
  BY <1>1, ThreadsDiffer DEF Save, RootHeld, At
<1>5. \A r \in Repos : r # RepoOf[j] /\ track[r].st = "ok" => track[r].dir # name
  BY <1>1 DEF Claimed, OneMappingPerDirectory
<1>6. Types'
  BY <1>1, <1>2, <1>3, <1>4, <1>5, ThreadsDiffer DEF Types, At
<1>7. RootHeld'
  BY <1>1, <1>2, <1>3, <1>4, <1>5, ThreadsDiffer DEF RootHeld, At
<1>8. LeaseHeld'
  BY <1>1, <1>2, <1>3, <1>4, <1>5, ThreadsDiffer DEF LeaseHeld, At
<1>9. Placed'
  BY <1>1, <1>2, <1>3, <1>4, <1>5, ThreadsDiffer DEF LeaseHeld, Placed, At
<1>10. Present'
  BY <1>1, <1>2, <1>3, <1>4, <1>5, ThreadsDiffer DEF Present, At
<1>11. Started'
  BY <1>1, <1>2, <1>3, <1>4, <1>5, ThreadsDiffer DEF Started, At
<1>12. JobLeaseHeld'
  BY <1>1, <1>2, <1>3, <1>4, <1>5, ThreadsDiffer DEF JobLeaseHeld, At
<1>13. SweepHolds'
  BY <1>1, <1>2, <1>3, <1>4, <1>5, ThreadsDiffer DEF LeaseHeld, SweepHolds, LeaseHeld
<1>14. Mapped'
  BY <1>1, <1>2, <1>3, <1>4, <1>5 DEF Mapped, Types
<1>15. OneMappingPerDirectory'
  BY <1>1, <1>2, <1>3, <1>4, <1>5, ThreadsDiffer DEF OneMappingPerDirectory, At
<1>16. Covered'
  BY <1>1, <1>2, <1>3, <1>4, <1>5, ThreadsDiffer DEF Covered, At
<1> QED BY <1>6, <1>7, <1>8, <1>9, <1>10, <1>11, <1>12, <1>13, <1>14, <1>15, <1>16

\* A job locks the lease file of its own directory, or fails to write it.
LEMMA TakeJobLeaseStep ==
  ASSUME WInv, NEW j \in Jobs, TakeJobLease(j)
  PROVE  WInv'
<1> USE DEF WInv
<1>1. job[j].pc = "built" /\ job[j].dir = j /\ jlease[j].by = NoOne
  BY DEF TakeJobLease, At
<1>2. /\ job' \in [Jobs -> JobState] /\ \A k \in Jobs : k # j => job'[k] = job[k]
      /\ job'[j].pc \in {"leased", "over"} /\ (job'[j].pc = "leased" => job'[j].dir = j)
      /\ jlease' \in [Jobs -> JobLease] /\ \A k \in Jobs : k # j => jlease'[k] = jlease[k]
      /\ job'[j].pc = "leased" => jlease'[j].file /\ jlease'[j].by = JobThread(j)
      /\ job'[j].pc = "over" => jlease'[j].by = NoOne
  <2>1. CASE /\ JobAt(j, "leased")
             /\ jlease' = [jlease EXCEPT ![j] = [file |-> TRUE, body |-> RunnerOf[j], by |-> JobThread(j)]]
    <3>1. /\ job' \in [Jobs -> JobState] /\ \A k \in Jobs : k # j => job'[k] = job[k]
          /\ job'[j].pc = "leased" /\ job'[j].dir = j
      BY <1>1, <2>1 DEF Types, JobAt, JobState
    <3>2. /\ jlease' \in [Jobs -> JobLease] /\ \A k \in Jobs : k # j => jlease'[k] = jlease[k]
          /\ jlease'[j].file /\ jlease'[j].by = JobThread(j)
      BY <2>1, WorkspaceAssumption, ThreadsDiffer DEF Types, JobLease
    <3> QED BY <3>1, <3>2
  <2>2. CASE /\ job' = [job EXCEPT ![j] = [pc |-> "over", dir |-> Nothing]]
             /\ jlease' = [jlease EXCEPT ![j] = NoLease]
    <3>1. /\ job' \in [Jobs -> JobState] /\ \A k \in Jobs : k # j => job'[k] = job[k]
          /\ job'[j].pc = "over"
      BY <1>1, <2>2, Empty DEF Types, JobState
    <3>2. /\ jlease' \in [Jobs -> JobLease] /\ \A k \in Jobs : k # j => jlease'[k] = jlease[k]
          /\ jlease'[j].by = NoOne
      BY <2>2, Empty, ThreadsDiffer DEF Types, JobLease
    <3> QED BY <3>1, <3>2
  <2> QED BY <2>1, <2>2 DEF TakeJobLease, Nothing
<1>3. UNCHANGED <<track, dirs, root, lease, gc>> /\ faults' \in 0..MaxFaults
  BY FaultsBounded DEF TakeJobLease, Fine, Fault
<1>4. dirs[j] = "absent" /\ \A k \in Jobs : gc[k].pc \in {"prune", "unlock"} => gc[k].at # j
  BY <1>1, ThreadsDiffer DEF JobLeaseHeld, SweepHolds
<1>5. Types'
  BY <1>1, <1>2, <1>3, <1>4, ThreadsDiffer DEF Types, At
<1>6. RootHeld'
  BY <1>1, <1>2, <1>3, <1>4, ThreadsDiffer DEF RootHeld, At
<1>7. LeaseHeld'
  BY <1>1, <1>2, <1>3, <1>4, ThreadsDiffer DEF LeaseHeld, Placed, At
<1>8. Placed'
  BY <1>1, <1>2, <1>3, <1>4, ThreadsDiffer DEF LeaseHeld, Placed, At
<1>9. Present'
  BY <1>1, <1>2, <1>3, <1>4, ThreadsDiffer DEF Present, At
<1>10. Started'
  BY <1>1, <1>2, <1>3, <1>4, ThreadsDiffer DEF Started, At
<1>11. JobLeaseHeld'
  BY <1>1, <1>2, <1>3, <1>4, ThreadsDiffer DEF JobLeaseHeld, At
<1>12. SweepHolds'
  BY <1>1, <1>2, <1>3, <1>4, ThreadsDiffer DEF LeaseHeld, SweepHolds, At
<1>13. Mapped'
  BY <1>1, <1>2, <1>3, <1>4, ThreadsDiffer DEF Mapped, At
<1>14. OneMappingPerDirectory'
  BY <1>1, <1>2, <1>3, <1>4, ThreadsDiffer DEF OneMappingPerDirectory, At
<1>15. Covered'
  BY <1>1, <1>2, <1>3, <1>4, ThreadsDiffer DEF Covered, At
<1> QED BY <1>5, <1>6, <1>7, <1>8, <1>9, <1>10, <1>11, <1>12, <1>13, <1>14, <1>15

\* A job creates its directory and starts its sweep.
LEMMA CreateDirsStep ==
  ASSUME WInv, NEW j \in Jobs, CreateDirs(j)
  PROVE  WInv'
<1> USE DEF WInv
<1>1. /\ job[j].pc \in {"built", "leased"} /\ (job[j].dir = j => job[j].pc = "leased")
      /\ (job[j].pc = "leased" => job[j].dir = j)
  BY DEF CreateDirs, At, Placed
<1>2. /\ \/ job[j].dir \in NameSet /\ job[j].dir # j
         \/ job[j].dir = j /\ job[j].dir \notin NameSet
      /\ job[j].dir \in Dirs
  BY <1>1, NamesDiffer DEF Placed, At, Types, Dirs
<1>3. JobAt(j, "running")
  BY DEF CreateDirs
<1>4. /\ job' \in [Jobs -> JobState] /\ \A k \in Jobs : k # j => job'[k] = job[k]
      /\ job'[j].pc = "running" /\ job'[j].dir = job[j].dir
  BY <1>3 DEF Types, JobAt, JobState
<1>5. UNCHANGED <<track, root, lease, jlease, faults>>
  BY DEF CreateDirs
<1>6. PICK clean \in BOOLEAN :
        LET touched == clean \/ dirs[job[j].dir] = "absent" IN
        /\ dirs' = [dirs EXCEPT ![job[j].dir] = IF touched THEN "young" ELSE @]
        /\ gc' = [k \in Jobs |->
                    IF k = j THEN [NoSweep EXCEPT !.pc = "open", !.keep = job[j].dir]
                    ELSE [gc[k] EXCEPT !.stale = IF touched THEN @ \ {job[j].dir} ELSE @]]
  BY DEF CreateDirs
<1>7. /\ dirs' \in [Dirs -> {"absent", "young", "old"}] /\ dirs'[job[j].dir] # "absent"
      /\ \A d \in Dirs : d # job[j].dir => dirs'[d] = dirs[d]
      /\ dirs[job[j].dir] = "absent" => dirs'[job[j].dir] = "young"
      /\ dirs'[job[j].dir] = "old" => dirs[job[j].dir] = "old"
  BY <1>2, <1>6 DEF Types
<1>8. \A k \in Jobs :
         /\ gc'[k] \in Sweep
         /\ k = j => gc'[k].pc = "open"
         /\ k # j =>
              /\ gc'[k].pc = gc[k].pc /\ gc'[k].at = gc[k].at /\ gc'[k].files = gc[k].files
              /\ gc'[k].claimed = gc[k].claimed /\ gc'[k].unreadable = gc[k].unreadable
              /\ gc'[k].stale \subseteq gc[k].stale
              /\ dirs[job[j].dir] = "absent" => job[j].dir \notin gc'[k].stale
  <2> TAKE k \in Jobs
  <2>1. gc[k] \in Sweep
    BY DEF Types
  <2>2. CASE k = j
    <3>1. gc'[k] = [NoSweep EXCEPT !.pc = "open", !.keep = job[j].dir]
      BY <1>6, <2>2
    <3> QED BY <1>2, <2>2, <3>1, Empty DEF Sweep
  <2>3. CASE k # j
    <3>1. PICK S \in SUBSET Dirs : /\ gc'[k] = [gc[k] EXCEPT !.stale = S] /\ S \subseteq gc[k].stale
                                  /\ (dirs[job[j].dir] = "absent" => job[j].dir \notin S)
      <4> DEFINE S == IF clean \/ dirs[job[j].dir] = "absent" THEN gc[k].stale \ {job[j].dir} ELSE gc[k].stale
      <4>1. gc'[k] = [gc[k] EXCEPT !.stale = S]
        BY <1>6, <2>3
      <4>2. S \in SUBSET Dirs
        BY <2>1 DEF Sweep
      <4> QED BY <4>1, <4>2
    <3> QED BY <2>1, <2>3, <3>1 DEF Sweep
  <2> QED BY <2>2, <2>3
<1>9. gc' \in [Jobs -> Sweep]
  BY <1>6, <1>8
<1>10. Dirs = NameSet \cup Jobs /\ gc[j].pc = "idle"
  BY <1>1 DEF Dirs, Started
<1>11. Types'
  BY <1>4, <1>5, <1>7, <1>9 DEF Types
<1>12. RootHeld'
  BY <1>1, <1>4, <1>5 DEF RootHeld, At
<1>13. LeaseHeld'
  BY <1>1, <1>4, <1>5, <1>8, <1>10 DEF LeaseHeld, At
<1>14. Placed'
  BY <1>1, <1>2, <1>4, <1>5 DEF LeaseHeld, Placed, At
<1>15. Present'
  BY <1>2, <1>4, <1>5, <1>7, Where DEF Present, At
<1>16. Started'
  BY <1>4, <1>8 DEF Started
<1>17. JobLeaseHeld'
  BY <1>1, <1>2, <1>4, <1>5, <1>7, <1>8, <1>10, Where DEF JobLeaseHeld, At
<1>18. SweepHolds'
  BY <1>1, <1>2, <1>4, <1>5, <1>7, <1>8, <1>10, Where, ThreadsDiffer
  DEF LeaseHeld, Placed, JobLeaseHeld, SweepHolds, OneMappingPerDirectory, At
<1>19. Mapped'
  BY <1>1, <1>2, <1>4, <1>5, <1>7, Where DEF Placed, Mapped, At
<1>20. OneMappingPerDirectory'
  BY <1>5 DEF OneMappingPerDirectory
<1>21. Covered'
  BY <1>2, <1>5, <1>7, <1>8, <1>10, Where DEF Covered, FilePass, EntryPass
<1> QED BY <1>11, <1>12, <1>13, <1>14, <1>15, <1>16, <1>17, <1>18, <1>19, <1>20, <1>21

\* A sweep lists the tracking files.
LEMMA OpenSweepStep ==
  ASSUME WInv, NEW j \in Jobs, OpenSweep(j)
  PROVE  WInv'
<1> USE DEF WInv
<1>1. /\ gc[j].pc = "open"
      /\ gc' = [gc EXCEPT ![j] =
                  [gc[j] EXCEPT !.pc = "files", !.files = {r \in Repos : track[r].st # "none"}]]
  BY DEF OpenSweep, Sweeping, SweepAt
<1>2. /\ gc' \in [Jobs -> Sweep] /\ \A k \in Jobs : k # j => gc'[k] = gc[k]
      /\ gc'[j].pc = "files" /\ gc'[j].files = {r \in Repos : track[r].st # "none"}
  BY <1>1 DEF Types, Sweep, FilePass
<1>3. UNCHANGED <<track, dirs, root, lease, jlease, job, faults>>
  BY DEF OpenSweep
<1>4. Types'
  BY <1>1, <1>2, <1>3 DEF Types, At, FilePass, EntryPass
<1>5. RootHeld'
  BY <1>1, <1>2, <1>3 DEF RootHeld, At, FilePass, EntryPass
<1>6. LeaseHeld'
  BY <1>1, <1>2, <1>3 DEF LeaseHeld, At, FilePass, EntryPass
<1>7. Placed'
  BY <1>1, <1>2, <1>3 DEF LeaseHeld, Placed, At, FilePass, EntryPass
<1>8. Present'
  BY <1>1, <1>2, <1>3 DEF Present, At, FilePass, EntryPass
<1>9. Started'
  BY <1>1, <1>2, <1>3 DEF Started, At, FilePass, EntryPass
<1>10. JobLeaseHeld'
  BY <1>1, <1>2, <1>3 DEF JobLeaseHeld, At, FilePass, EntryPass
<1>11. SweepHolds'
  BY <1>1, <1>2, <1>3 DEF LeaseHeld, SweepHolds, At, FilePass, EntryPass
<1>12. Mapped'
  BY <1>1, <1>2, <1>3 DEF Mapped, At, FilePass, EntryPass
<1>13. OneMappingPerDirectory'
  BY <1>1, <1>2, <1>3 DEF OneMappingPerDirectory, At, FilePass, EntryPass
<1>14. Covered'
  BY <1>1, <1>2, <1>3 DEF Covered, At, FilePass, EntryPass
<1> QED BY <1>4, <1>5, <1>6, <1>7, <1>8, <1>9, <1>10, <1>11, <1>12, <1>13, <1>14

\* Jobs that end, at whatever point, and for whatever reason.
LEMMA EndStep ==
  ASSUME WInv, NEW j \in Jobs, EvaluationFails(j) \/ CreateFails(j) \/ Finish(j)
  PROVE  WInv'
<1>1. Fails(j) /\ job[j].pc \in {"map", "built", "leased", "running"}
  BY DEF EvaluationFails, CreateFails, Finish, At
<1>2. faults' \in 0..MaxFaults
  BY FaultsBounded DEF WInv, EvaluationFails, CreateFails, Finish, Fine, Fault
<1> QED BY <1>1, <1>2, FailsStep

\* A job maps its repository, or fails to.
LEMMA MapRepositoryStep ==
  ASSUME MappingsReadable, WInv, NEW j \in Jobs, MapRepository(j)
  PROVE  WInv'
<1> DEFINE t == track[RepoOf[j]]
<1>1. /\ At(j, "map") /\ RepoOf[j] \in Repos
      /\ faults' \in 0..MaxFaults
  BY FaultsBounded DEF MapRepository, WInv, LeaseHeld, At, Fine, Fault
<1>2. \/ t.st = "ok" /\ Save(j, t.dir)
      \/ t.st # "ok" /\ Candidates({}) # {} /\ Save(j, DirNames[First(Candidates({}))])
      \/ Fails(j)
  BY DEF MapRepository, MappingsReadable, Fault
<1>3. CASE Fails(j)
  BY <1>1, <1>3, FailsStep DEF At
<1>4. CASE t.st = "ok" /\ Save(j, t.dir)
  <2>1. t.dir \in NameSet
    BY <1>1, <1>4, Where
  <2> QED BY <1>1, <1>4, <2>1, SaveStep
<1>5. CASE t.st # "ok" /\ Candidates({}) # {} /\ Save(j, DirNames[First(Candidates({}))])
  <2>1. Candidates({}) \in SUBSET Nat
    BY DEF Candidates
  <2>2. First(Candidates({})) \in Candidates({})
    BY <1>5, <2>1, FirstIsThere
  <2> DEFINE name == DirNames[First(Candidates({}))]
  <2>3. name \in NameSet /\ dirs[name] = "absent" /\ name \notin Claimed({})
    BY <2>2 DEF Candidates, NameSet
  <2>4. t.st = "none"
    BY <1>1, <1>5 DEF WInv, Types, Track
  <2> QED BY <1>1, <1>5, <2>3, <2>4, SaveStep
<1> QED BY <1>2, <1>3, <1>4, <1>5

\* A sweep looks at a tracking file, and takes its lease or passes it over.
LEMMA SweepFileStep ==
  ASSUME WInv, NEW j \in Jobs, NEW r \in Repos, SweepFile(j, r)
  PROVE  WInv'
<1> USE DEF WInv
<1>1. gc[j].pc = "files" /\ gc[j] \in Sweep /\ track[r] \in Track
  BY DEF Types, SweepFile, Sweeping
<1>2. PICK g \in Sweep :
        /\ gc' = [gc EXCEPT ![j] = g]
        /\ g.files = gc[j].files \ {r} /\ gc[j].claimed \subseteq g.claimed
        /\ g.unreadable \/ track[r].dir \in g.claimed \/ track[r].st # "ok"
        /\ gc[j].unreadable => g.unreadable
        /\ \/ g.pc = "files" /\ lease' = lease
           \/ /\ g.pc = "reread" /\ g.at = r /\ lease[r] = NoOne /\ track[r].st = "ok"
              /\ lease' = [lease EXCEPT ![r] = GcThread(j)]
  <2> DEFINE g == [gc[j] EXCEPT !.files = @ \ {r}]
             k == [g EXCEPT !.claimed = @ \cup {track[r].dir}]
  <2>1. CASE SweepAt(j, Unreadable(g)) /\ UNCHANGED lease
    <3>1. Unreadable(g) \in Sweep
      BY <1>1 DEF Sweep, Unreadable
    <3> QED BY <1>1, <2>1, <3>1 DEF SweepAt, Sweep, Unreadable
  <2>2. CASE SweepAt(j, k) /\ UNCHANGED lease /\ track[r].st = "ok"
    <3>1. k \in Sweep
      BY <1>1, <2>2 DEF Sweep, Types
    <3> QED BY <1>1, <2>2, <3>1 DEF SweepAt, Sweep
  <2>3. CASE /\ lease[r] = NoOne /\ track[r].st = "ok" /\ lease' = [lease EXCEPT ![r] = GcThread(j)]
             /\ SweepAt(j, [g EXCEPT !.pc = "reread", !.at = r, !.claimed = @ \cup {track[r].dir}])
    <3>1. [g EXCEPT !.pc = "reread", !.at = r, !.claimed = @ \cup {track[r].dir}] \in Sweep
      BY <1>1, <2>3 DEF Sweep, Types, FilePass
    <3> QED BY <1>1, <2>3, <3>1 DEF SweepAt, Sweep
  <2> QED BY <2>1, <2>2, <2>3 DEF SweepFile, Eligible
<1>3. /\ gc' \in [Jobs -> Sweep] /\ gc'[j] = g /\ \A k \in Jobs : k # j => gc'[k] = gc[k]
  BY <1>2, SweptTo
<1>4. /\ UNCHANGED <<track, dirs, root, jlease, job>> /\ faults' \in 0..MaxFaults
  BY FaultsBounded DEF SweepFile, Fine, Fault
<1>5. /\ lease' \in [Repos -> Threads] /\ \A q \in Repos : q # r => lease'[q] = lease[q]
      /\ g.pc = "files" => lease' = lease
      /\ g.pc = "reread" => g.at = r /\ lease[r] = NoOne /\ lease'[r] = GcThread(j) /\ track[r].st = "ok"
      /\ g.pc \in {"files", "reread"}
  BY <1>2, ThreadsDiffer DEF Types
<1>6. Types'
  BY <1>3, <1>4, <1>5 DEF Types
<1>7. RootHeld'
  BY <1>4 DEF RootHeld, At
<1>8. LeaseHeld'
  BY <1>1, <1>3, <1>4, <1>5, ThreadsDiffer DEF LeaseHeld, At
<1>9. Placed'
  BY <1>3, <1>4, <1>5, ThreadsDiffer DEF LeaseHeld, Placed, At
<1>10. Present'
  BY <1>4 DEF Present, At
<1>11. Started'
  BY <1>1, <1>3, <1>4, <1>5 DEF Started, At
<1>12. JobLeaseHeld'
  BY <1>1, <1>3, <1>4, <1>5 DEF JobLeaseHeld, At
<1>13. SweepHolds'
  BY <1>1, <1>3, <1>4, <1>5, ThreadsDiffer DEF LeaseHeld, SweepHolds
<1>14. Mapped'
  BY <1>4 DEF Mapped
<1>15. OneMappingPerDirectory'
  BY <1>4 DEF OneMappingPerDirectory
<1>16. Covered'
  BY <1>1, <1>2, <1>3, <1>4, <1>5 DEF Covered, FilePass, EntryPass
<1> QED BY <1>6, <1>7, <1>8, <1>9, <1>10, <1>11, <1>12, <1>13, <1>14, <1>15, <1>16

\* A sweep that lets go holds nothing any more; nobody else is disturbed.
LEMMA LetGo ==
  ASSUME Types, NEW j \in Jobs, NEW g \in Sweep, NEW pc \in {"files", "entries"}, Return(j, g, pc)
  PROVE  /\ gc' \in [Jobs -> Sweep] /\ \A k \in Jobs : k # j => gc'[k] = gc[k]
         /\ gc'[j].pc = pc /\ gc'[j].files = g.files /\ gc'[j].claimed = g.claimed
         /\ gc'[j].unreadable = g.unreadable /\ gc'[j].stale = g.stale
         /\ lease' \in [Repos -> Threads]
         /\ \A r \in Repos, k \in Jobs :
              /\ lease'[r] = JobThread(k) <=> lease[r] = JobThread(k)
              /\ lease'[r] = GcThread(k) <=> lease[r] = GcThread(k) /\ k # j
         /\ jlease' \in [Jobs -> JobLease]
         /\ \A i \in Jobs : jlease'[i].file = jlease[i].file /\ jlease'[i].body = jlease[i].body
         /\ \A i, k \in Jobs :
              /\ jlease'[i].by = JobThread(k) <=> jlease[i].by = JobThread(k)
              /\ jlease'[i].by = GcThread(k) <=> jlease[i].by = GcThread(k) /\ k # j
<1> DEFINE h == [g EXCEPT !.pc = pc, !.at = Nothing]
<1>1. gc' = [gc EXCEPT ![j] = h]
  BY DEF Return, SweepAt, Nothing
<1>2. h \in Sweep
  BY DEF Sweep, FilePass, EntryPass
<1>3. /\ gc' \in [Jobs -> Sweep] /\ gc'[j] = h /\ \A k \in Jobs : k # j => gc'[k] = gc[k]
  BY <1>1, <1>2, SweptTo
<1>4. /\ lease' \in [Repos -> Threads]
      /\ \A r \in Repos, k \in Jobs :
           /\ lease'[r] = JobThread(k) <=> lease[r] = JobThread(k)
           /\ lease'[r] = GcThread(k) <=> lease[r] = GcThread(k) /\ k # j
  BY ThreadsDiffer DEF Types, Return, Released
<1>5. /\ jlease' \in [Jobs -> JobLease]
      /\ \A i \in Jobs : jlease'[i].file = jlease[i].file /\ jlease'[i].body = jlease[i].body
      /\ \A i, k \in Jobs :
           /\ jlease'[i].by = JobThread(k) <=> jlease[i].by = JobThread(k)
           /\ jlease'[i].by = GcThread(k) <=> jlease[i].by = GcThread(k) /\ k # j
  BY ThreadsDiffer DEF Types, Return, ReleasedJob, JobLease
<1>6. /\ h.pc = pc /\ h.files = g.files /\ h.claimed = g.claimed
      /\ h.unreadable = g.unreadable /\ h.stale = g.stale
  BY DEF Sweep
<1> HIDE DEF h
<1> QED BY <1>3, <1>4, <1>5, <1>6

\* A sweep lets go of what it looked at and goes on.
LEMMA ReturnStep ==
  ASSUME WInv, NEW j \in Jobs, NEW pc \in {"files", "entries"},
         pc = "files" => gc[j].pc \in FilePass, pc = "entries" => gc[j].pc \in EntryPass,
         Return(j, gc[j], pc), UNCHANGED <<track, dirs, root, job>>, faults' \in 0..MaxFaults
  PROVE  WInv'
<1> USE DEF WInv
<1>1. gc[j] \in Sweep
  BY DEF Types
<1>2. /\ gc' \in [Jobs -> Sweep] /\ \A k \in Jobs : k # j => gc'[k] = gc[k]
      /\ gc'[j].pc = pc /\ gc'[j].files = gc[j].files /\ gc'[j].claimed = gc[j].claimed
      /\ gc'[j].unreadable = gc[j].unreadable /\ gc'[j].stale = gc[j].stale
  BY <1>1, LetGo
<1>3. /\ lease' \in [Repos -> Threads]
      /\ \A r \in Repos, k \in Jobs :
           /\ lease'[r] = JobThread(k) <=> lease[r] = JobThread(k)
           /\ lease'[r] = GcThread(k) <=> lease[r] = GcThread(k) /\ k # j
  BY <1>1, LetGo
<1>4. /\ jlease' \in [Jobs -> JobLease]
      /\ \A i \in Jobs : jlease'[i].file = jlease[i].file /\ jlease'[i].body = jlease[i].body
      /\ \A i, k \in Jobs :
           /\ jlease'[i].by = JobThread(k) <=> jlease[i].by = JobThread(k)
           /\ jlease'[i].by = GcThread(k) <=> jlease[i].by = GcThread(k) /\ k # j
  BY <1>1, LetGo
<1>5. UNCHANGED <<track, dirs, root, job>>
  OBVIOUS
<1>6. Types'
  BY <1>2, <1>3, <1>4, <1>5 DEF Types
<1>7. RootHeld'
  BY <1>5 DEF RootHeld, At
<1>8. LeaseHeld'
  BY <1>2, <1>3, <1>5 DEF LeaseHeld, At
<1>9. Placed'
  BY <1>3, <1>5 DEF LeaseHeld, Placed, At
<1>10. Present'
  BY <1>5 DEF Present, At
<1>11. Started'
  BY <1>2, <1>5 DEF Started, FilePass, EntryPass
<1>12. JobLeaseHeld'
  BY <1>2, <1>4, <1>5 DEF JobLeaseHeld, At
<1>13. SweepHolds'
  BY <1>2, <1>3, <1>4, <1>5 DEF LeaseHeld, SweepHolds
<1>14. Mapped'
  BY <1>5 DEF Mapped
<1>15. OneMappingPerDirectory'
  BY <1>5 DEF OneMappingPerDirectory
<1>16. Covered'
  BY <1>2, <1>5 DEF Covered, FilePass, EntryPass
<1> QED BY <1>6, <1>7, <1>8, <1>9, <1>10, <1>11, <1>12, <1>13, <1>14, <1>15, <1>16

\* The mapping is still old and still its registration's.
LEMMA ConfirmStep ==
  ASSUME WInv, NEW j \in Jobs, UNCHANGED <<track, dirs, root, lease, jlease, job>>, gc[j].pc = "reread",
         faults' \in 0..MaxFaults, SweepAt(j, [gc[j] EXCEPT !.pc = "tree"]), Eligible(track[gc[j].at], j)
  PROVE  WInv'
<1> USE DEF WInv
<1>1. gc' = [gc EXCEPT ![j] = [gc[j] EXCEPT !.pc = "tree"]]
  BY DEF SweepAt
<1>2. /\ gc' \in [Jobs -> Sweep] /\ \A k \in Jobs : k # j => gc'[k] = gc[k]
      /\ gc'[j].pc = "tree" /\ gc'[j].at = gc[j].at
      /\ gc'[j].files = gc[j].files /\ gc'[j].claimed = gc[j].claimed
      /\ gc'[j].unreadable = gc[j].unreadable /\ gc'[j].stale = gc[j].stale
  <2>1. gc[j] \in Sweep
    BY DEF Types
  <2>2. [gc[j] EXCEPT !.pc = "tree"] \in Sweep
    BY <2>1 DEF Sweep, FilePass, EntryPass
  <2> QED BY <1>1, <2>1, <2>2, SweptTo DEF Sweep
<1>3. track[gc[j].at].owner = RunnerOf[j]
  BY DEF Eligible
<1>4. Types'
  BY <1>2 DEF Types
<1>5. RootHeld'
  BY  DEF RootHeld, At
<1>6. LeaseHeld'
  BY <1>2 DEF LeaseHeld, At
<1>7. Placed'
  BY  DEF LeaseHeld, Placed, At
<1>8. Present'
  BY  DEF Present, At
<1>9. Started'
  BY <1>2 DEF Started
<1>10. JobLeaseHeld'
  BY <1>2 DEF JobLeaseHeld, At
<1>11. SweepHolds'
  BY <1>2, <1>3 DEF LeaseHeld, SweepHolds
<1>12. Mapped'
  BY  DEF Mapped
<1>13. OneMappingPerDirectory'
  BY  DEF OneMappingPerDirectory
<1>14. Covered'
  BY <1>2 DEF Covered, FilePass, EntryPass
<1> QED BY <1>4, <1>5, <1>6, <1>7, <1>8, <1>9, <1>10, <1>11, <1>12, <1>13, <1>14

\* A sweep reads a mapping again, under its lease.
LEMMA RereadStep ==
  ASSUME WInv, NEW j \in Jobs, Reread(j)
  PROVE  WInv'
<1>1. UNCHANGED <<track, dirs, root, job>> /\ gc[j].pc = "reread" /\ faults' \in 0..MaxFaults
  BY FaultsBounded DEF WInv, Reread, Fine, Sweeping
<1>2. CASE Return(j, gc[j], "files")
  BY <1>1, <1>2, ReturnStep DEF FilePass
<1>3. CASE /\ SweepAt(j, [gc[j] EXCEPT !.pc = "tree"]) /\ UNCHANGED <<lease, jlease>>
           /\ Eligible(track[gc[j].at], j)
  BY <1>1, <1>3, ConfirmStep
<1> QED BY <1>2, <1>3 DEF Reread

\* The tree of a mapped workspace is removed, under its lease.
LEMMA DropTreeStep ==
  ASSUME WInv, NEW j \in Jobs, UNCHANGED <<track, root, lease, jlease, job>>, gc[j].pc = "tree",
         faults' \in 0..MaxFaults, dirs' = [dirs EXCEPT ![track[gc[j].at].dir] = "absent"],
         SweepAt(j, [gc[j] EXCEPT !.pc = "file"])
  PROVE  WInv'
<1> USE DEF WInv
<1>1. gc' = [gc EXCEPT ![j] = [gc[j] EXCEPT !.pc = "file"]]
  BY DEF SweepAt
<1>2. /\ gc' \in [Jobs -> Sweep] /\ \A k \in Jobs : k # j => gc'[k] = gc[k]
      /\ gc'[j].pc = "file" /\ gc'[j].at = gc[j].at
      /\ gc'[j].files = gc[j].files /\ gc'[j].claimed = gc[j].claimed
      /\ gc'[j].unreadable = gc[j].unreadable /\ gc'[j].stale = gc[j].stale
  <2>1. gc[j] \in Sweep
    BY DEF Types
  <2>2. [gc[j] EXCEPT !.pc = "file"] \in Sweep
    BY <2>1 DEF Sweep, FilePass, EntryPass
  <2> QED BY <1>1, <2>1, <2>2, SweptTo DEF Sweep
<1>3. /\ gc[j].at \in Repos /\ lease[gc[j].at] = GcThread(j) /\ track[gc[j].at].st = "ok"
      /\ track[gc[j].at].owner = RunnerOf[j]
  BY DEF SweepHolds
<1>4. /\ dirs' \in [Dirs -> {"absent", "young", "old"}] /\ dirs'[track[gc[j].at].dir] = "absent"
      /\ \A d \in Dirs : /\ d # track[gc[j].at].dir => dirs'[d] = dirs[d]
                        /\ dirs'[d] # "absent" => dirs'[d] = dirs[d]
  <2>1. track[gc[j].at].dir \in Dirs
    BY <1>3, Where
  <2> QED BY <2>1 DEF Types
<1>5. Types'
  BY <1>2, <1>4 DEF Types
<1>6. RootHeld'
  BY  DEF RootHeld, At
<1>7. LeaseHeld'
  BY <1>2 DEF LeaseHeld, At
<1>8. Placed'
  BY  DEF LeaseHeld, Placed, At
<1>9. Present'
  BY <1>3, <1>4, Where, ThreadsDiffer DEF Placed, Present, OneMappingPerDirectory, At
<1>10. Started'
  BY <1>2 DEF Started
<1>11. JobLeaseHeld'
  BY <1>2, <1>4, Where DEF JobLeaseHeld, At
<1>12. SweepHolds'
  BY <1>2, <1>3, <1>4, Where DEF LeaseHeld, SweepHolds
<1>13. Mapped'
  BY <1>4, Where DEF Mapped
<1>14. OneMappingPerDirectory'
  BY  DEF OneMappingPerDirectory
<1>15. Covered'
  BY <1>2, <1>4, Where DEF Covered, FilePass, EntryPass
<1> QED BY <1>5, <1>6, <1>7, <1>8, <1>9, <1>10, <1>11, <1>12, <1>13, <1>14, <1>15

\* A sweep removes the tree of a mapped workspace, or fails to.
LEMMA RemoveStableStep ==
  ASSUME WInv, NEW j \in Jobs, RemoveStable(j)
  PROVE  WInv'
<1>1. UNCHANGED <<track, root, job>> /\ gc[j].pc = "tree" /\ faults' \in 0..MaxFaults
  BY FaultsBounded DEF WInv, RemoveStable, Fine, Fault, Sweeping
<1>2. CASE Return(j, gc[j], "files") /\ UNCHANGED dirs
  BY <1>1, <1>2, ReturnStep DEF FilePass
<1>3. CASE /\ SweepAt(j, [gc[j] EXCEPT !.pc = "file"]) /\ UNCHANGED <<lease, jlease>>
           /\ dirs' = [dirs EXCEPT ![track[gc[j].at].dir] = "absent"]
  BY <1>1, <1>3, DropTreeStep
<1> QED BY <1>2, <1>3 DEF RemoveStable

\* A mapping is removed once its tree is gone.
LEMMA DropMappingStep ==
  ASSUME WInv, NEW j \in Jobs, UNCHANGED <<dirs, root, job>>, gc[j].pc = "file",
         faults' \in 0..MaxFaults, track' = [track EXCEPT ![gc[j].at] = NoTrack],
         Return(j, [gc[j] EXCEPT !.claimed = @ \ {track[gc[j].at].dir}], "files")
  PROVE  WInv'
<1> USE DEF WInv
<1>1. /\ gc[j].at \in Repos /\ lease[gc[j].at] = GcThread(j) /\ track[gc[j].at].st = "ok"
      /\ dirs[track[gc[j].at].dir] = "absent"
  BY DEF SweepHolds
<1>2. PICK g \in Sweep :
        /\ g.files = gc[j].files /\ g.claimed = gc[j].claimed \ {track[gc[j].at].dir}
        /\ g.unreadable = gc[j].unreadable /\ Return(j, g, "files")
  <2> DEFINE g == [gc[j] EXCEPT !.claimed = @ \ {track[gc[j].at].dir}]
  <2>1. gc[j] \in Sweep
    BY DEF Types
  <2>2. g \in Sweep
    BY <2>1 DEF Sweep
  <2> QED BY <2>1, <2>2 DEF Sweep
<1>3. /\ gc' \in [Jobs -> Sweep] /\ \A k \in Jobs : k # j => gc'[k] = gc[k]
      /\ gc'[j].pc = "files" /\ gc'[j].files = g.files /\ gc'[j].claimed = g.claimed
      /\ gc'[j].unreadable = g.unreadable
  BY <1>2, LetGo
<1>4. /\ lease' \in [Repos -> Threads]
      /\ \A r \in Repos, k \in Jobs :
           /\ lease'[r] = JobThread(k) <=> lease[r] = JobThread(k)
           /\ lease'[r] = GcThread(k) <=> lease[r] = GcThread(k) /\ k # j
  BY <1>2, LetGo
<1>5. /\ jlease' \in [Jobs -> JobLease]
      /\ \A i \in Jobs : jlease'[i].file = jlease[i].file /\ jlease'[i].body = jlease[i].body
      /\ \A i, k \in Jobs :
           /\ jlease'[i].by = JobThread(k) <=> jlease[i].by = JobThread(k)
           /\ jlease'[i].by = GcThread(k) <=> jlease[i].by = GcThread(k) /\ k # j
  BY <1>2, LetGo
<1>6. /\ track' \in [Repos -> Track] /\ track'[gc[j].at].st # "ok"
      /\ \A r \in Repos : track'[r] = track[r] \/ r = gc[j].at
  BY <1>1, Empty DEF Types, Track
<1>7. Types'
  BY <1>3, <1>4, <1>5, <1>6 DEF Types
<1>8. RootHeld'
  BY  DEF RootHeld, At
<1>9. LeaseHeld'
  BY <1>3, <1>4 DEF LeaseHeld, At
<1>10. Placed'
  BY <1>1, <1>4, <1>6, ThreadsDiffer DEF LeaseHeld, Placed, At
<1>11. Present'
  BY  DEF Present, At
<1>12. Started'
  BY <1>3 DEF Started
<1>13. JobLeaseHeld'
  BY <1>3, <1>5 DEF JobLeaseHeld, At
<1>14. SweepHolds'
  BY <1>1, <1>3, <1>4, <1>5, <1>6, ThreadsDiffer DEF LeaseHeld, SweepHolds
<1>15. Mapped'
  BY <1>1, <1>6 DEF Mapped
<1>16. OneMappingPerDirectory'
  BY <1>1, <1>6 DEF OneMappingPerDirectory
<1>17. Covered'
  BY <1>1, <1>2, <1>3, <1>6, Where DEF OneMappingPerDirectory, Covered, FilePass, EntryPass
<1> QED BY <1>7, <1>8, <1>9, <1>10, <1>11, <1>12, <1>13, <1>14, <1>15, <1>16, <1>17

\* A sweep removes a mapping, or fails to.
LEMMA RemoveMappingStep ==
  ASSUME WInv, NEW j \in Jobs, RemoveMapping(j)
  PROVE  WInv'
<1>1. UNCHANGED <<dirs, root, job>> /\ gc[j].pc = "file" /\ faults' \in 0..MaxFaults
  BY FaultsBounded DEF WInv, RemoveMapping, Fine, Fault, Sweeping
<1>2. CASE Return(j, gc[j], "files") /\ UNCHANGED track
  BY <1>1, <1>2, ReturnStep DEF FilePass
<1>3. CASE /\ track' = [track EXCEPT ![gc[j].at] = NoTrack]
           /\ Return(j, [gc[j] EXCEPT !.claimed = @ \ {track[gc[j].at].dir}], "files")
  BY <1>1, <1>3, DropMappingStep
<1> QED BY <1>2, <1>3 DEF RemoveMapping

\* The second pass starts: what is old now, and not claimed, may go.
LEMMA BeginJobDirsStep ==
  ASSUME WInv, NEW j \in Jobs, BeginJobDirs(j)
  PROVE  WInv'
<1> USE DEF WInv
<1>1. /\ gc[j].pc = "files" /\ gc[j].files = {} /\ UNCHANGED <<track, dirs, root, lease, jlease, job, faults>>
      /\ gc' = [gc EXCEPT ![j] = [gc[j] EXCEPT !.pc = "entries", !.stale = {d \in Dirs : dirs[d] = "old"}]]
  BY DEF BeginJobDirs, Sweeping, SweepAt
<1>2. /\ gc' \in [Jobs -> Sweep] /\ \A k \in Jobs : k # j => gc'[k] = gc[k]
      /\ gc'[j].pc = "entries" /\ gc'[j].stale = {d \in Dirs : dirs[d] = "old"}
      /\ gc'[j].claimed = gc[j].claimed /\ gc'[j].unreadable = gc[j].unreadable
  <2>1. gc[j] \in Sweep
    BY DEF Types
  <2>2. [gc[j] EXCEPT !.pc = "entries", !.stale = {d \in Dirs : dirs[d] = "old"}] \in Sweep
    BY <2>1 DEF Sweep, FilePass, EntryPass
  <2> QED BY <1>1, <2>1, <2>2, SweptTo DEF Sweep
<1>3. Types'
  BY <1>1, <1>2 DEF Types
<1>4. RootHeld'
  BY <1>1 DEF RootHeld, At
<1>5. LeaseHeld'
  BY <1>1, <1>2 DEF LeaseHeld, At
<1>6. Placed'
  BY <1>1 DEF LeaseHeld, Placed, At
<1>7. Present'
  BY <1>1 DEF Present, At
<1>8. Started'
  BY <1>1, <1>2 DEF Started
<1>9. JobLeaseHeld'
  BY <1>1, <1>2 DEF JobLeaseHeld, At
<1>10. SweepHolds'
  BY <1>1, <1>2 DEF LeaseHeld, SweepHolds
<1>11. Mapped'
  BY <1>1 DEF Mapped
<1>12. OneMappingPerDirectory'
  BY <1>1 DEF OneMappingPerDirectory
<1>13. Covered'
  BY <1>1, <1>2, Where DEF Mapped, Covered, FilePass, EntryPass
<1> QED BY <1>3, <1>4, <1>5, <1>6, <1>7, <1>8, <1>9, <1>10, <1>11, <1>12, <1>13

\* An entry is passed over.
LEMMA SkipStep ==
  ASSUME WInv, NEW j \in Jobs, gc[j].pc = "entries",
         UNCHANGED <<track, dirs, root, lease, jlease, job, faults>>,
         NEW d \in Dirs, SweepAt(j, [gc[j] EXCEPT !.seen = @ \cup {d}])
  PROVE  WInv'
<1> USE DEF WInv
<1>1. gc' = [gc EXCEPT ![j] = [gc[j] EXCEPT !.seen = @ \cup {d}]]
  BY DEF SweepAt
<1>2. /\ gc' \in [Jobs -> Sweep] /\ \A k \in Jobs : k # j => gc'[k] = gc[k]
      /\ gc'[j].pc = "entries"
      /\ gc'[j].files = gc[j].files /\ gc'[j].claimed = gc[j].claimed
      /\ gc'[j].unreadable = gc[j].unreadable /\ gc'[j].stale = gc[j].stale
  <2>1. gc[j] \in Sweep
    BY DEF Types
  <2>2. [gc[j] EXCEPT !.seen = @ \cup {d}] \in Sweep
    BY <2>1 DEF Sweep, FilePass, EntryPass
  <2> QED BY <1>1, <2>1, <2>2, SweptTo DEF Sweep
<1>3. Types'
  BY <1>2 DEF Types
<1>4. RootHeld'
  BY  DEF RootHeld, At
<1>5. LeaseHeld'
  BY <1>2 DEF LeaseHeld, At
<1>6. Placed'
  BY  DEF LeaseHeld, Placed, At
<1>7. Present'
  BY  DEF Present, At
<1>8. Started'
  BY <1>2 DEF Started
<1>9. JobLeaseHeld'
  BY <1>2 DEF JobLeaseHeld, At
<1>10. SweepHolds'
  BY <1>2 DEF LeaseHeld, SweepHolds
<1>11. Mapped'
  BY  DEF Mapped
<1>12. OneMappingPerDirectory'
  BY  DEF OneMappingPerDirectory
<1>13. Covered'
  BY <1>2 DEF Covered, FilePass, EntryPass
<1> QED BY <1>3, <1>4, <1>5, <1>6, <1>7, <1>8, <1>9, <1>10, <1>11, <1>12, <1>13

\* A sweep takes the lease file of a job directory.
LEMMA TakeEntryStep ==
  ASSUME WInv, NEW j \in Jobs, gc[j].pc = "entries", UNCHANGED <<track, dirs, root, lease, job, faults>>,
         NEW d \in Jobs, jlease[d].file, jlease[d].body = RunnerOf[j], jlease[d].by = NoOne,
         jlease' = [jlease EXCEPT ![d].by = GcThread(j)],
         SweepAt(j, [[gc[j] EXCEPT !.seen = @ \cup {d}] EXCEPT !.pc = "prune", !.at = d])
  PROVE  WInv'
<1> USE DEF WInv
<1>1. gc' = [gc EXCEPT ![j] = [gc[j] EXCEPT !.seen = @ \cup {d}, !.pc = "prune", !.at = d]]
  <2>1. gc[j] \in Sweep
    BY DEF Types
  <2> QED BY <2>1 DEF SweepAt, Sweep
<1>2. /\ gc' \in [Jobs -> Sweep] /\ \A k \in Jobs : k # j => gc'[k] = gc[k]
      /\ gc'[j].pc = "prune" /\ gc'[j].at = d
      /\ gc'[j].files = gc[j].files /\ gc'[j].claimed = gc[j].claimed
      /\ gc'[j].unreadable = gc[j].unreadable /\ gc'[j].stale = gc[j].stale
  <2>1. gc[j] \in Sweep
    BY DEF Types
  <2>2. [gc[j] EXCEPT !.seen = @ \cup {d}, !.pc = "prune", !.at = d] \in Sweep
    BY <2>1 DEF Sweep, FilePass, EntryPass, Dirs
  <2> QED BY <1>1, <2>1, <2>2, SweptTo DEF Sweep
<1>3. /\ jlease' \in [Jobs -> JobLease] /\ \A k \in Jobs : k # d => jlease'[k] = jlease[k]
      /\ jlease'[d].file /\ jlease'[d].body = RunnerOf[j] /\ jlease'[d].by = GcThread(j)
  BY ThreadsDiffer DEF Types, JobLease
<1>4. Types'
  BY <1>2, <1>3 DEF Types
<1>5. RootHeld'
  BY  DEF RootHeld, At
<1>6. LeaseHeld'
  BY <1>2 DEF LeaseHeld, At
<1>7. Placed'
  BY  DEF LeaseHeld, Placed, At
<1>8. Present'
  BY  DEF Present, At
<1>9. Started'
  BY <1>2 DEF Started
<1>10. JobLeaseHeld'
  BY <1>2, <1>3, ThreadsDiffer DEF JobLeaseHeld, At
<1>11. SweepHolds'
  BY <1>2, <1>3, ThreadsDiffer DEF LeaseHeld, SweepHolds
<1>12. Mapped'
  BY  DEF Mapped
<1>13. OneMappingPerDirectory'
  BY  DEF OneMappingPerDirectory
<1>14. Covered'
  BY <1>2 DEF Covered, FilePass, EntryPass
<1> QED BY <1>4, <1>5, <1>6, <1>7, <1>8, <1>9, <1>10, <1>11, <1>12, <1>13, <1>14

\* A sweep looks at an entry of the work root.  A directory without a lease file
\* is a repository's, and one that is old is claimed: the sweep spares it.
LEMMA SweepEntryStep ==
  ASSUME WInv, NEW j \in Jobs, NEW d \in Dirs, SweepEntry(j, d)
  PROVE  WInv'
<1> DEFINE g == [gc[j] EXCEPT !.seen = @ \cup {d}]
           file == d \in Jobs /\ jlease[d].file
<1>1. /\ UNCHANGED <<track, dirs, root, lease, job, faults>> /\ gc[j].pc = "entries"
      /\ dirs[d] # "absent" /\ ~ Spared(j, d)
  BY DEF SweepEntry, Sweeping
<1>2. \/ SweepAt(j, g) /\ UNCHANGED jlease
      \/ ~ file /\ IsStale(j, d)
      \/ /\ file /\ jlease[d].body = RunnerOf[j] /\ jlease[d].by = NoOne
         /\ jlease' = [jlease EXCEPT ![d].by = GcThread(j)]
         /\ SweepAt(j, [g EXCEPT !.pc = "prune", !.at = d])
  BY DEF SweepEntry
<1>3. CASE SweepAt(j, g) /\ UNCHANGED jlease
  BY <1>1, <1>3, SkipStep
<1>4. ~ (~ file /\ IsStale(j, d))
  <2> SUFFICES ASSUME ~ file, IsStale(j, d) PROVE FALSE
    OBVIOUS
  <2>1. d \in NameSet
    BY <1>1, Where DEF WInv, JobLeaseHeld
  <2>2. gc[j].unreadable \/ d \in gc[j].claimed
    BY <1>1, <2>1 DEF WInv, Covered, IsStale, EntryPass
  <2> QED BY <1>1, <2>1, <2>2 DEF Spared, PipelineName
<1>5. CASE /\ file /\ jlease[d].body = RunnerOf[j] /\ jlease[d].by = NoOne
           /\ jlease' = [jlease EXCEPT ![d].by = GcThread(j)]
           /\ SweepAt(j, [g EXCEPT !.pc = "prune", !.at = d])
  BY <1>1, <1>5, TakeEntryStep
<1> QED BY <1>2, <1>3, <1>4, <1>5

\* No directory is ever removed by its age alone.
LEMMA RemoveOldStep ==
  ASSUME WInv, NEW j \in Jobs, RemoveOld(j)
  PROVE  FALSE
  BY DEF WInv, SweepHolds, RemoveOld, Sweeping

\* The directory of a job that is over is removed, under its lease.
LEMMA DropJobDirStep ==
  ASSUME WInv, NEW j \in Jobs, UNCHANGED <<track, root, lease, jlease, job>>, gc[j].pc = "prune",
         faults' \in 0..MaxFaults, dirs' = [dirs EXCEPT ![gc[j].at] = "absent"],
         SweepAt(j, [gc[j] EXCEPT !.pc = "unlock"])
  PROVE  WInv'
<1> USE DEF WInv
<1>1. gc' = [gc EXCEPT ![j] = [gc[j] EXCEPT !.pc = "unlock"]]
  BY DEF SweepAt
<1>2. /\ gc' \in [Jobs -> Sweep] /\ \A k \in Jobs : k # j => gc'[k] = gc[k]
      /\ gc'[j].pc = "unlock" /\ gc'[j].at = gc[j].at
      /\ gc'[j].files = gc[j].files /\ gc'[j].claimed = gc[j].claimed
      /\ gc'[j].unreadable = gc[j].unreadable /\ gc'[j].stale = gc[j].stale
  <2>1. gc[j] \in Sweep
    BY DEF Types
  <2>2. [gc[j] EXCEPT !.pc = "unlock"] \in Sweep
    BY <2>1 DEF Sweep, FilePass, EntryPass
  <2> QED BY <1>1, <2>1, <2>2, SweptTo DEF Sweep
<1>3. /\ gc[j].at \in Jobs /\ jlease[gc[j].at].by = GcThread(j)
  BY DEF SweepHolds
<1>4. /\ dirs' \in [Dirs -> {"absent", "young", "old"}] /\ dirs'[gc[j].at] = "absent"
      /\ \A d \in Dirs : /\ d # gc[j].at => dirs'[d] = dirs[d]
                        /\ dirs'[d] # "absent" => dirs'[d] = dirs[d]
  BY <1>3 DEF Types, Dirs
<1>5. Types'
  BY <1>2, <1>4 DEF Types
<1>6. RootHeld'
  BY  DEF RootHeld, At
<1>7. LeaseHeld'
  BY <1>2 DEF LeaseHeld, At
<1>8. Placed'
  BY  DEF LeaseHeld, Placed, At
<1>9. Present'
  BY <1>3, <1>4, Where, ThreadsDiffer DEF Present, JobLeaseHeld, At
<1>10. Started'
  BY <1>2 DEF Started
<1>11. JobLeaseHeld'
  BY <1>2, <1>4, Where DEF JobLeaseHeld, At
<1>12. SweepHolds'
  BY <1>2, <1>3, <1>4, Where DEF LeaseHeld, SweepHolds
<1>13. Mapped'
  BY <1>4, Where DEF Mapped
<1>14. OneMappingPerDirectory'
  BY  DEF OneMappingPerDirectory
<1>15. Covered'
  BY <1>2, <1>4, Where DEF Covered, FilePass, EntryPass
<1> QED BY <1>5, <1>6, <1>7, <1>8, <1>9, <1>10, <1>11, <1>12, <1>13, <1>14, <1>15

\* A sweep removes a job directory, or keeps it, or fails to.
LEMMA RemoveJobDirStep ==
  ASSUME WInv, NEW j \in Jobs, RemoveJobDir(j)
  PROVE  WInv'
<1>1. UNCHANGED <<track, root, job>> /\ gc[j].pc = "prune" /\ faults' \in 0..MaxFaults
  BY FaultsBounded DEF WInv, RemoveJobDir, Fine, Fault, Sweeping
<1>2. CASE Return(j, gc[j], "entries") /\ UNCHANGED dirs
  BY <1>1, <1>2, ReturnStep DEF EntryPass
<1>3. CASE /\ SweepAt(j, [gc[j] EXCEPT !.pc = "unlock"]) /\ UNCHANGED <<lease, jlease>>
           /\ dirs' = [dirs EXCEPT ![gc[j].at] = "absent"]
  BY <1>1, <1>3, DropJobDirStep
<1> QED BY <1>2, <1>3 DEF RemoveJobDir

\* The lease file of a directory that is gone is removed.
LEMMA RemoveJobLeaseStep ==
  ASSUME WInv, NEW j \in Jobs, RemoveJobLease(j)
  PROVE  WInv'
<1> USE DEF WInv
<1>1. /\ gc[j].pc = "unlock" /\ UNCHANGED <<track, dirs, root, lease, job, faults>>
      /\ gc[j].at \in Jobs /\ jlease[gc[j].at].by = GcThread(j) /\ dirs[gc[j].at] = "absent"
  BY DEF RemoveJobLease, Sweeping, Fine, SweepHolds
<1>2. PICK g \in Sweep :
        /\ gc' = [gc EXCEPT ![j] = g] /\ g.pc = "entries"
        /\ g.claimed = gc[j].claimed /\ g.unreadable = gc[j].unreadable /\ g.stale = gc[j].stale
  <2> DEFINE g == [gc[j] EXCEPT !.pc = "entries", !.at = Nothing]
  <2>1. gc[j] \in Sweep /\ gc' = [gc EXCEPT ![j] = g]
    BY DEF Types, RemoveJobLease, SweepAt, Nothing
  <2>2. g \in Sweep
    BY <2>1 DEF Sweep, EntryPass
  <2> QED BY <2>1, <2>2 DEF Sweep
<1>3. /\ gc' \in [Jobs -> Sweep] /\ gc'[j] = g /\ \A k \in Jobs : k # j => gc'[k] = gc[k]
  BY <1>2, SweptTo
<1>4. /\ jlease' \in [Jobs -> JobLease] /\ jlease'[gc[j].at].by = NoOne
      /\ \A k \in Jobs : k # gc[j].at => jlease'[k] = jlease[k]
  BY <1>1, Empty, ThreadsDiffer DEF Types, RemoveJobLease, JobLease
<1>5. Types'
  BY <1>1, <1>3, <1>4 DEF Types
<1>6. RootHeld'
  BY <1>1 DEF RootHeld, At
<1>7. LeaseHeld'
  BY <1>1, <1>2, <1>3 DEF LeaseHeld, At
<1>8. Placed'
  BY <1>1 DEF LeaseHeld, Placed, At
<1>9. Present'
  BY <1>1 DEF Present, At
<1>10. Started'
  BY <1>1, <1>2, <1>3 DEF Started
<1>11. JobLeaseHeld'
  BY <1>1, <1>2, <1>3, <1>4, ThreadsDiffer DEF JobLeaseHeld, At
<1>12. SweepHolds'
  BY <1>1, <1>2, <1>3, <1>4, ThreadsDiffer DEF LeaseHeld, SweepHolds
<1>13. Mapped'
  BY <1>1 DEF Mapped
<1>14. OneMappingPerDirectory'
  BY <1>1 DEF OneMappingPerDirectory
<1>15. Covered'
  BY <1>1, <1>2, <1>3 DEF Covered, FilePass, EntryPass
<1> QED BY <1>5, <1>6, <1>7, <1>8, <1>9, <1>10, <1>11, <1>12, <1>13, <1>14, <1>15

\* A sweep is over.
LEMMA EndSweepStep ==
  ASSUME WInv, NEW j \in Jobs, EndSweep(j)
  PROVE  WInv'
<1> USE DEF WInv
<1>1. /\ gc[j].pc = "entries" /\ UNCHANGED <<track, dirs, root, lease, jlease, job, faults>>
      /\ gc' = [gc EXCEPT ![j] = [NoSweep EXCEPT !.pc = "done"]]
  BY DEF EndSweep, Sweeping, SweepAt
<1>2. /\ gc' \in [Jobs -> Sweep] /\ \A k \in Jobs : k # j => gc'[k] = gc[k]
      /\ gc'[j].pc = "done"
  <2>1. [NoSweep EXCEPT !.pc = "done"] \in Sweep /\ [NoSweep EXCEPT !.pc = "done"].pc = "done"
    BY Empty DEF Sweep
  <2> QED BY <1>1, <2>1, SweptTo
<1>3. Types'
  BY <1>1, <1>2 DEF Types
<1>4. RootHeld'
  BY <1>1 DEF RootHeld, At
<1>5. LeaseHeld'
  BY <1>1, <1>2 DEF LeaseHeld, At
<1>6. Placed'
  BY <1>1 DEF LeaseHeld, Placed, At
<1>7. Present'
  BY <1>1 DEF Present, At
<1>8. Started'
  BY <1>1, <1>2 DEF Started
<1>9. JobLeaseHeld'
  BY <1>1, <1>2 DEF JobLeaseHeld, At
<1>10. SweepHolds'
  BY <1>1, <1>2 DEF LeaseHeld, SweepHolds
<1>11. Mapped'
  BY <1>1 DEF Mapped
<1>12. OneMappingPerDirectory'
  BY <1>1 DEF OneMappingPerDirectory
<1>13. Covered'
  BY <1>1, <1>2 DEF Covered, FilePass, EntryPass
<1> QED BY <1>3, <1>4, <1>5, <1>6, <1>7, <1>8, <1>9, <1>10, <1>11, <1>12, <1>13

\* Time goes by.
LEMMA AgesStep ==
  ASSUME WInv, Ages
  PROVE  WInv'
<1> USE DEF WInv
<1>1. UNCHANGED <<root, lease, jlease, job, gc, faults>> /\ \A j \in Jobs : gc[j].pc \notin FilePass
  BY DEF Ages, FilePass
<1>2. /\ dirs' \in [Dirs -> {"absent", "young", "old"}]
      /\ \A d \in Dirs : dirs'[d] = "absent" <=> dirs[d] = "absent"
  BY DEF Ages, Types
<1>3. \A r \in Repos : /\ track'[r] \in Track /\ track'[r].st = track[r].st
                      /\ track'[r].dir = track[r].dir /\ track'[r].owner = track[r].owner
  <2>1. CASE track' = [r \in Repos |-> IF track[r].st = "ok" THEN [track[r] EXCEPT !.old = TRUE]
                                        ELSE track[r]]
    <3> TAKE r \in Repos
    <3>1. track[r] \in Track
      BY DEF Types
    <3>2. CASE track[r].st = "ok"
      <4>1. track'[r] = [track[r] EXCEPT !.old = TRUE]
        BY <2>1, <3>2
      <4> QED BY <3>1, <4>1 DEF Track
    <3>3. CASE track[r].st # "ok"
      BY <2>1, <3>1, <3>3
    <3> QED BY <3>2, <3>3
  <2>2. CASE UNCHANGED track
    BY <2>2 DEF Types
  <2> QED BY <2>1, <2>2 DEF Ages
<1>4. track' \in [Repos -> Track]
  BY <1>3 DEF Ages, Types
<1>5. Types'
  BY <1>1, <1>2, <1>3, <1>4 DEF Types
<1>6. RootHeld'
  BY <1>1 DEF RootHeld, At
<1>7. LeaseHeld'
  BY <1>1 DEF LeaseHeld, At
<1>8. Placed'
  BY <1>1, <1>3 DEF LeaseHeld, Placed, At
<1>9. Present'
  BY <1>1, <1>2, Where DEF Present, At
<1>10. Started'
  BY <1>1 DEF Started
<1>11. JobLeaseHeld'
  BY <1>1, <1>2, Where DEF JobLeaseHeld, At
<1>12. SweepHolds'
  BY <1>1, <1>2, <1>3, Where DEF LeaseHeld, SweepHolds, FilePass
<1>13. Mapped'
  BY <1>2, <1>3, Where DEF Mapped
<1>14. OneMappingPerDirectory'
  BY <1>3 DEF OneMappingPerDirectory
<1>15. Covered'
  BY <1>1, <1>2, <1>3, Where DEF Covered, EntryPass, FilePass
<1> QED BY <1>5, <1>6, <1>7, <1>8, <1>9, <1>10, <1>11, <1>12, <1>13, <1>14, <1>15

\* Who holds a lock that w held, once the process of r is dead.
Survivor(w, r) == IF w[1] # "nobody" /\ RunnerOf[w[2]] = r THEN NoOne ELSE w

\* The locks of the others survive, its own do not.
LEMMA Survivors ==
  ASSUME NEW w \in Threads, NEW r
  PROVE  /\ Survivor(w, r) \in Threads
         /\ \A k \in Jobs :
              /\ Survivor(w, r) = JobThread(k) <=> w = JobThread(k) /\ RunnerOf[k] # r
              /\ Survivor(w, r) = GcThread(k) <=> w = GcThread(k) /\ RunnerOf[k] # r
<1>1. CASE w = NoOne
  <2>1. Survivor(w, r) = NoOne
    BY <1>1 DEF Survivor, NoOne
  <2> QED BY <1>1, <2>1, ThreadsDiffer
<1>2. ASSUME NEW i \in Jobs, w = JobThread(i) \/ w = GcThread(i)
      PROVE  Survivor(w, r) = IF RunnerOf[i] = r THEN NoOne ELSE w
  BY <1>2 DEF Survivor, JobThread, GcThread
<1>3. w = NoOne \/ \E i \in Jobs : w = JobThread(i) \/ w = GcThread(i)
  BY DEF Threads
<1> QED BY <1>1, <1>2, <1>3, ThreadsDiffer

\* The process of a registration dies.
LEMMA CrashStep ==
  ASSUME WInv, NEW r \in Runners, Crash(r)
  PROVE  WInv'
<1> USE DEF WInv
<1>1. \A k \in Jobs : /\ job'[k] \in JobState
                      /\ RunnerOf[k] # r => job'[k] = job[k]
                      /\ RunnerOf[k] = r => job'[k].pc \in {"waiting", "over"}
                      /\ job'[k].pc # "over" => job'[k] = job[k]
  <2> TAKE k \in Jobs
  <2>1. job[k] \in JobState
    BY DEF Types
  <2>2. CASE job'[k] = [pc |-> "over", dir |-> Nothing] /\ RunnerOf[k] = r
    BY <2>2 DEF JobState
  <2>3. CASE job'[k] = job[k] /\ (RunnerOf[k] # r \/ job[k].pc \in {"waiting", "over"})
    BY <2>1, <2>3
  <2> QED BY <2>2, <2>3 DEF Crash, Active, Nothing
<1>2. \A k \in Jobs : /\ gc'[k] \in Sweep
                      /\ RunnerOf[k] # r => gc'[k] = gc[k]
                      /\ gc'[k].pc # "idle" => gc'[k] = gc[k] /\ RunnerOf[k] # r
  <2> TAKE k \in Jobs
  <2>1. gc[k] \in Sweep /\ NoSweep \in Sweep /\ NoSweep.pc = "idle"
    BY Empty DEF Types, Sweep
  <2> QED BY <2>1 DEF Crash
<1>3. /\ root' = Survivor(root, r)
      /\ lease' = [q \in Repos |-> Survivor(lease[q], r)]
      /\ jlease' = [i \in Jobs |-> IF Survivor(jlease[i].by, r) # jlease[i].by
                                   THEN [jlease[i] EXCEPT !.by = NoOne] ELSE jlease[i]]
  <2>1. \A w : Survivor(w, r) # w => Survivor(w, r) = NoOne /\ w[1] # "nobody" /\ RunnerOf[w[2]] = r
    BY DEF Survivor
  <2>2. NoOne[1] = "nobody"
    BY DEF NoOne
  <2>3. \A w : w[1] # "nobody" /\ RunnerOf[w[2]] = r => Survivor(w, r) # w
    BY <2>2 DEF Survivor
  <2> QED BY <2>1, <2>3 DEF Crash, Survivor
<1>4. /\ root' \in Threads
      /\ \A k \in Jobs :
           /\ root' = JobThread(k) <=> root = JobThread(k) /\ RunnerOf[k] # r
           /\ root' = GcThread(k) <=> root = GcThread(k) /\ RunnerOf[k] # r
  BY <1>3, Survivors DEF Types
<1>5. /\ lease' \in [Repos -> Threads]
      /\ \A q \in Repos, k \in Jobs :
           /\ lease'[q] = JobThread(k) <=> lease[q] = JobThread(k) /\ RunnerOf[k] # r
           /\ lease'[q] = GcThread(k) <=> lease[q] = GcThread(k) /\ RunnerOf[k] # r
  BY <1>3, Survivors DEF Types
<1>6. \A i \in Jobs :
         /\ jlease'[i] \in JobLease /\ jlease'[i].file = jlease[i].file /\ jlease'[i].body = jlease[i].body
         /\ jlease'[i].by = Survivor(jlease[i].by, r)
  <2> TAKE i \in Jobs
  <2>1. jlease[i] \in JobLease /\ jlease[i].by \in Threads
    BY DEF Types, JobLease
  <2>2. CASE Survivor(jlease[i].by, r) # jlease[i].by
    <3>1. jlease'[i] = [jlease[i] EXCEPT !.by = NoOne] /\ Survivor(jlease[i].by, r) = NoOne
      BY <1>3, <2>2 DEF Survivor
    <3> QED BY <2>1, <3>1, ThreadsDiffer DEF JobLease, Threads
  <2>3. CASE Survivor(jlease[i].by, r) = jlease[i].by
    BY <1>3, <2>1, <2>3
  <2> QED BY <2>2, <2>3
<1>7. /\ jlease' \in [Jobs -> JobLease] /\ job' \in [Jobs -> JobState] /\ gc' \in [Jobs -> Sweep]
      /\ \A i, k \in Jobs :
           /\ jlease'[i].by = JobThread(k) <=> jlease[i].by = JobThread(k) /\ RunnerOf[k] # r
           /\ jlease'[i].by = GcThread(k) <=> jlease[i].by = GcThread(k) /\ RunnerOf[k] # r
  <2>1. \A i \in Jobs : jlease[i].by \in Threads
    BY DEF Types, JobLease
  <2>2. jlease' \in [Jobs -> JobLease] /\ job' \in [Jobs -> JobState] /\ gc' \in [Jobs -> Sweep]
    BY <1>1, <1>2, <1>6 DEF Crash
  <2> QED BY <1>6, <2>1, <2>2, Survivors
<1>8. UNCHANGED <<track, dirs>> /\ faults' \in 0..MaxFaults
  BY FaultsBounded DEF Crash, Fault
<1>9. Types'
  BY <1>4, <1>5, <1>7, <1>8 DEF Types
<1>10. RootHeld'
  BY <1>1, <1>4 DEF RootHeld, At
<1>11. LeaseHeld'
  BY <1>1, <1>2, <1>5 DEF LeaseHeld, At
<1>12. Placed'
  BY <1>1, <1>5, <1>8 DEF LeaseHeld, Placed, At
<1>13. Present'
  BY <1>1, <1>8 DEF Present, At
<1>14. Started'
  BY <1>1, <1>2 DEF Started
<1>15. JobLeaseHeld'
  BY <1>1, <1>2, <1>6, <1>7, <1>8 DEF JobLeaseHeld, At
<1>16. SweepHolds'
  BY <1>2, <1>5, <1>6, <1>7, <1>8 DEF LeaseHeld, SweepHolds
<1>17. Mapped'
  BY <1>8 DEF Mapped
<1>18. OneMappingPerDirectory'
  BY <1>8 DEF OneMappingPerDirectory
<1>19. Covered'
  BY <1>2, <1>8 DEF Covered, FilePass, EntryPass
<1> QED BY <1>9, <1>10, <1>11, <1>12, <1>13, <1>14, <1>15, <1>16, <1>17, <1>18, <1>19

\* An empty work root satisfies the invariant.
LEMMA WInitHolds ==
  WorkspaceInit => WInv
<1> SUFFICES ASSUME WorkspaceInit PROVE WInv
  OBVIOUS
<1>1. NoTrack \in Track /\ NoTrack.st = "none" /\ NoLease \in JobLease /\ NoLease.by = NoOne
  BY Empty, ThreadsDiffer DEF Track, JobLease, Threads
<1>2. NoSweep \in Sweep /\ NoSweep.pc = "idle"
  BY Empty DEF Sweep
<1>3. /\ job \in [Jobs -> JobState] /\ \A j \in Jobs : job[j].pc = "waiting"
  BY DEF WorkspaceInit, JobState, Nothing
<1>4. /\ \A r \in Repos : track[r] = NoTrack /\ lease[r] = NoOne
      /\ \A d \in Dirs : dirs[d] = "absent"
      /\ \A j \in Jobs : jlease[j] = NoLease /\ gc[j] = NoSweep
      /\ root = NoOne
  BY DEF WorkspaceInit
<1>5. Types
  <2>1. faults \in 0..MaxFaults
    <3>1. faults = 0
      BY DEF WorkspaceInit
    <3> QED BY <3>1, WorkspaceAssumption
  <2>2. root \in Threads /\ lease \in [Repos -> Threads]
    BY DEF WorkspaceInit, Threads
  <2>3. /\ track \in [Repos -> Track] /\ dirs \in [Dirs -> {"absent", "young", "old"}]
        /\ jlease \in [Jobs -> JobLease] /\ gc \in [Jobs -> Sweep]
    BY <1>1, <1>2 DEF WorkspaceInit
  <2> QED BY <1>1, <1>3, <1>4, <2>1, <2>2, <2>3 DEF Types
<1>6. \A d \in NameSet \cup Jobs : d \in Dirs
  BY DEF Dirs
<1>7. RootHeld /\ LeaseHeld /\ Placed /\ Present /\ Started
  BY <1>1, <1>2, <1>3, <1>4, ThreadsDiffer DEF RootHeld, LeaseHeld, Placed, Present, Started, At
<1>8. JobLeaseHeld /\ SweepHolds
  BY <1>1, <1>2, <1>3, <1>4, <1>6, ThreadsDiffer DEF JobLeaseHeld, SweepHolds, At
<1>9. Mapped /\ OneMappingPerDirectory /\ Covered
  BY <1>1, <1>2, <1>4, <1>6 DEF Mapped, OneMappingPerDirectory, Covered, FilePass, EntryPass
<1> QED BY <1>5, <1>7, <1>8, <1>9 DEF WInv

\* Every step keeps the invariant, one lemma per action.
LEMMA WNextHolds ==
  MappingsReadable /\ WInv /\ [WorkspaceNext]_workspaceVars => WInv'
<1> SUFFICES ASSUME MappingsReadable, WInv, [WorkspaceNext]_workspaceVars PROVE WInv'
  OBVIOUS
<1>1. CASE UNCHANGED workspaceVars
  BY <1>1 DEF workspaceVars, WInv, Types, RootHeld, LeaseHeld, Placed, Present, Started, JobLeaseHeld,
     SweepHolds, Mapped, OneMappingPerDirectory, Covered, At
<1>2. ASSUME NEW j \in Jobs, TakeJob(j) \/ ClaimStep(j) PROVE WInv'
  BY <1>2, TakeJobStep, LockRootStep, MapRepositoryStep, PrepareFreshStep DEF ClaimStep
<1>3. ASSUME NEW j \in Jobs, CreateStep(j) \/ Finish(j) PROVE WInv'
  BY <1>3, EndStep, TakeJobLeaseStep, CreateDirsStep DEF CreateStep
<1>4. ASSUME NEW j \in Jobs, SweepStep(j) PROVE WInv'
  <2>1. \/ OpenSweep(j) \/ \E r \in Repos : SweepFile(j, r)
        \/ Reread(j) \/ RemoveStable(j) \/ RemoveMapping(j) \/ BeginJobDirs(j)
        \/ \E d \in Dirs : SweepEntry(j, d)
        \/ RemoveOld(j) \/ RemoveJobDir(j) \/ RemoveJobLease(j) \/ EndSweep(j)
    BY <1>4 DEF SweepStep
  <2> QED
    BY <2>1, OpenSweepStep, SweepFileStep, RereadStep, RemoveStableStep, RemoveMappingStep,
       BeginJobDirsStep, SweepEntryStep, RemoveOldStep, RemoveJobDirStep, RemoveJobLeaseStep, EndSweepStep
<1>5. ASSUME NEW r \in Runners, Crash(r) PROVE WInv'
  BY <1>5, CrashStep
<1>6. CASE Ages
  BY <1>6, AgesStep
<1> QED BY <1>1, <1>2, <1>3, <1>4, <1>5, <1>6 DEF WorkspaceNext

\* What the invariant says of the jobs.
LEMMA WInvIsSafe == WInv => WorkspacesAreSafe
<1> SUFFICES ASSUME WInv PROVE WorkspacesAreSafe
  OBVIOUS
<1> USE DEF WInv
<1>1. WorkspaceTypeOK
  <2>1. \A d \in Dirs : dirs[d] \in {"absent", "young", "old"}
    BY DEF Types
  <2>2. \A r \in Repos : track[r].st \in {"none", "ok"} /\ track[r].dir \in NameSet \cup {""}
    BY DEF Types, Track, Nothing
  <2>3. root = NoOne \/ \E j \in Jobs : root = JobThread(j) /\ At(j, "map")
    BY DEF Types, RootHeld, Threads
  <2>4. ASSUME NEW r \in Repos
        PROVE  lease[r] = NoOne \/ \E j \in Jobs :
                 \/ lease[r] = JobThread(j) /\ RepoOf[j] = r /\ job[j].pc \in {"map", "built", "running"}
                 \/ lease[r] = GcThread(j) /\ gc[j].at = r
    BY DEF Types, LeaseHeld, Threads
  <2> QED BY <2>1, <2>2, <2>3, <2>4 DEF WorkspaceTypeOK, Types
<1>2. NoSharedWorkspace
  <2> SUFFICES ASSUME NEW j \in Jobs, NEW k \in Jobs, At(j, "running"), At(k, "running"), j # k,
                      job[j].dir = job[k].dir
               PROVE  FALSE
    BY DEF NoSharedWorkspace
  <2>1. job[j].dir # j /\ job[k].dir # k
    BY Where DEF At
  <2> QED BY <2>1, ThreadsDiffer DEF Placed, OneMappingPerDirectory, At
<1>3. NeverSweptUnderJob /\ OneMappingPerDirectory
  BY DEF Present, NeverSweptUnderJob
<1> QED BY <1>1, <1>2, <1>3 DEF WorkspacesAreSafe

\* The invariant holds in every reachable state.
LEMMA WInvAlways ==
  ASSUME MappingsReadable
  PROVE  WorkspaceSpec => []WInv
<1>1. WInv /\ [WorkspaceNext]_workspaceVars => WInv'
  BY WNextHolds
<1> QED BY <1>1, WInitHolds, PTL DEF WorkspaceSpec

\* WorkspacesAreSafe: on a work root that any number of registrations share, no
\* two jobs run in one directory, no sweep takes the directory a job is running
\* in, and no two repositories are mapped to one directory (workspace_layout.rs,
\* workspace_lease.rs, workspace_gc.rs).
THEOREM WorkspacesStaySafe ==
  ASSUME MappingsReadable
  PROVE  WorkspaceSpec => []WorkspacesAreSafe
  BY WInvAlways, WInvIsSafe, PTL


\* What a sweep that takes d may take.
Takes(j, d) ==
  /\ gc[j].at \in {d} \cup {r \in Repos : track[r].dir = d}
  /\ \A r \in Repos : track[r].st = "ok" /\ track[r].dir = d => track[r].owner = RunnerOf[j]
  /\ d \in Jobs /\ jlease[d].file => jlease[d].body = RunnerOf[j]

\* Only the two removals make a directory absent, each of what its sweep may take.
LEMMA RemovesItsOwn ==
  ASSUME WInv, WorkspaceNext, NEW d \in Dirs, dirs[d] # "absent", dirs'[d] = "absent"
  PROVE  \E j \in Jobs : Takes(j, d)
<1>1. dirs' # dirs
  OBVIOUS
<1>2. ASSUME NEW j \in Jobs, CreateDirs(j) PROVE FALSE
  <2>1. PICK clean \in BOOLEAN :
          dirs' = [dirs EXCEPT ![job[j].dir] = IF clean \/ dirs[job[j].dir] = "absent" THEN "young" ELSE @]
    BY <1>2 DEF CreateDirs
  <2>2. dirs'[d] = dirs[d] \/ dirs'[d] = "young"
    BY <2>1 DEF WInv, Types
  <2> QED BY <2>2
<1>3. ~ Ages
  BY DEF Ages, WInv, Types
<1>4. ASSUME NEW j \in Jobs, RemoveStable(j) PROVE Takes(j, d)
  <2>1. /\ gc[j].pc = "tree" /\ gc[j].at \in Repos /\ track[gc[j].at].st = "ok"
        /\ track[gc[j].at].owner = RunnerOf[j]
    BY <1>4 DEF RemoveStable, Sweeping, WInv, SweepHolds
  <2>2. dirs' = [dirs EXCEPT ![track[gc[j].at].dir] = "absent"]
    BY <1>1, <1>4 DEF RemoveStable
  <2>3. d = track[gc[j].at].dir
    BY <2>2 DEF WInv, Types
  <2> QED BY <2>1, <2>3, Where DEF Takes, WInv, OneMappingPerDirectory
<1>5. ASSUME NEW j \in Jobs, RemoveJobDir(j) PROVE Takes(j, d)
  <2>1. gc[j].at \in Jobs /\ jlease[gc[j].at].body = RunnerOf[j]
    BY <1>5 DEF RemoveJobDir, Sweeping, WInv, SweepHolds
  <2>2. dirs' = [dirs EXCEPT ![gc[j].at] = "absent"]
    BY <1>1, <1>5 DEF RemoveJobDir
  <2>3. d = gc[j].at
    BY <2>2 DEF WInv, Types
  <2> QED BY <2>1, <2>3, Where DEF Takes
<1>6. ASSUME NEW j \in Jobs
      PROVE  /\ ~ TakeJob(j) /\ ~ ClaimStep(j) /\ ~ Finish(j)
             /\ ~ EvaluationFails(j) /\ ~ TakeJobLease(j) /\ ~ CreateFails(j)
  BY <1>1 DEF TakeJob, ClaimStep, LockRoot, MapRepository, PrepareFresh, Save, Fails, Finish,
     EvaluationFails, TakeJobLease, CreateFails
<1>7. ASSUME NEW j \in Jobs
      PROVE  /\ ~ OpenSweep(j) /\ ~ Reread(j) /\ ~ RemoveMapping(j) /\ ~ BeginJobDirs(j)
             /\ ~ RemoveJobLease(j) /\ ~ EndSweep(j)
             /\ \A r \in Repos : ~ SweepFile(j, r)
             /\ \A e \in Dirs : ~ SweepEntry(j, e)
  BY <1>1 DEF OpenSweep, Reread, RemoveMapping, BeginJobDirs, RemoveJobLease, EndSweep, SweepFile, SweepEntry
<1>8. ASSUME NEW r \in Runners PROVE ~ Crash(r)
  BY <1>1 DEF Crash
<1>9. PICK j \in Jobs : TakeJob(j) \/ ClaimStep(j) \/ CreateStep(j) \/ Finish(j) \/ SweepStep(j)
  BY <1>3, <1>8 DEF WorkspaceNext
<1>10. RemoveStable(j) \/ RemoveJobDir(j)
  BY <1>2, <1>6, <1>7, <1>9, RemoveOldStep DEF CreateStep, SweepStep
<1> QED BY <1>4, <1>5, <1>10

\* OnlyItsOwn: a directory goes only by a sweep of the registration that used it
\* last: the owner of its mapping, or the one its lease file names
\* (workspace_gc.rs, prune_stable and prune_job_dir).
THEOREM SweepsTakeOnlyTheirOwn ==
  ASSUME MappingsReadable
  PROVE  WorkspaceSpec => OnlyItsOwn
<1> DEFINE Own == \A d \in Dirs : dirs[d] # "absent" /\ dirs'[d] = "absent" => \E j \in Jobs : Takes(j, d)
<1>1. WInv /\ [WorkspaceNext]_workspaceVars => [Own]_workspaceVars
  BY RemovesItsOwn
<1>2. [Own]_workspaceVars =>
        [\A d \in Dirs : dirs[d] # "absent" /\ dirs'[d] = "absent" =>
           \E j \in Jobs :
             /\ gc[j].at \in {d} \cup {r \in Repos : track[r].dir = d}
             /\ \A r \in Repos : track[r].st = "ok" /\ track[r].dir = d => track[r].owner = RunnerOf[j]
             /\ d \in Jobs /\ jlease[d].file => jlease[d].body = RunnerOf[j]]_workspaceVars
  BY DEF Takes
<1> HIDE DEF Own
<1> QED BY <1>1, <1>2, WInvAlways, PTL DEF WorkspaceSpec, OnlyItsOwn

=============================================================================
