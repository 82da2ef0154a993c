------------------------------- MODULE Workspace -------------------------------
(***************************************************************************)
(* Job workspaces on a work root that several registrations share          *)
(* (crates/execution: workspace_layout, workspace_lease,                    *)
(* workspace_tracking, workspace_gc).                                       *)
(*                                                                         *)
(* A job claims its workspace first (the repository's mapping and lease, or *)
(* a directory of its own), creates it once its context is evaluated, and   *)
(* starts a sweep of stale workspaces that runs beside it and may outlive   *)
(* it.  Every registration is a process of its own; the lock files are all  *)
(* they have in common.                                                     *)
(***************************************************************************)
EXTENDS Naturals, FiniteSets, Sequences

CONSTANTS Runners,    \* registrations, each with its own data_dir
          Jobs,       \* job ids, each also the name of a fresh directory; a UUID,
                      \* so never the name of a repository's directory
          RunnerOf,   \* the registration a job is given to
          Repos,      \* repositories, all of the same base name
          RepoOf,     \* a job's github.repository, or NoRepo
          NoRepo,
          DirNames,      \* candidates of new_tracking in order: <repo>, <repo>_2, ...
          Faults,     \* what may fail: "save", "build", "dirs", "remove", "own_read",
                      \* "claim_read", "gc_read", "crash"
          MaxFaults,  \* bound on failures
          MaxSweeps   \* bound on the sweeps that get to run

ASSUME WorkspaceAssumption ==
  /\ RunnerOf \in [Jobs -> Runners]
  /\ RepoOf \in [Jobs -> Repos \cup {NoRepo}] /\ NoRepo \notin Repos
  /\ DirNames \in Seq(STRING) /\ \A i \in 1..Len(DirNames) : DirNames[i] \notin Jobs
  /\ MaxFaults \in Nat /\ MaxSweeps \in Nat

VARIABLES
  track,    \* PipelineFolder.json of a repository
  dirs,     \* children of the work root: "absent", "young" or "old" by mtime
  root,     \* who holds _PipelineMapping/.lock
  lease,    \* who holds a repository's .lock
  jlease,   \* the lock file of a fresh job
  job,      \* each job's PreparedWorkspace and how far it is
  gc,       \* the sweep each job starts
  faults

workspaceVars == <<track, dirs, root, lease, jlease, job, gc, faults>>

NameSet == {DirNames[i] : i \in 1..Len(DirNames)}
Dirs == NameSet \cup Jobs

NoOne == <<"nobody", "">>
JobThread(j) == <<"job", j>>
GcThread(j)  == <<"gc", j>>

NoTrack  == [st |-> "none", dir |-> "", owner |-> "", old |-> FALSE]
NoLease  == [file |-> FALSE, body |-> "", by |-> NoOne]
NoSweep  == [pc |-> "idle", files |-> {}, at |-> "", keep |-> "", claimed |-> {},
             unreadable |-> FALSE, stale |-> {}, seen |-> {}]

Fault(f) == f \in Faults /\ faults < MaxFaults /\ faults' = faults + 1
Fine == faults' = faults

Active(j) == job[j].pc \notin {"waiting", "over"}

----------------------------------------------------------------------------
(* Claiming: prepare_workspace *)

At(j, pc) == job[j].pc = pc
JobAt(j, pc) == job' = [job EXCEPT ![j].pc = pc]

\* WorkspaceLease is dropped with its PreparedWorkspace.
Released(ls, who) == [r \in Repos |-> IF ls[r] = who THEN NoOne ELSE ls[r]]
ReleasedJob(ls, who) == [j \in Jobs |-> IF ls[j].by = who THEN [ls[j] EXCEPT !.by = NoOne]
                                        ELSE ls[j]]

\* A registration runs one job at a time.
TakeJob(j) ==
  /\ At(j, "waiting")
  /\ \A k \in Jobs : RunnerOf[k] = RunnerOf[j] => ~Active(k)
  /\ JobAt(j, IF RepoOf[j] = NoRepo THEN "fresh" ELSE "root")
  /\ UNCHANGED <<track, dirs, root, lease, jlease, gc, faults>>

\* WorkspaceLease::acquire waits for the work-root lock; under it try_acquire of
\* the repository: a job that finds it held uses a fresh workspace instead.
Mutant_LockRoot(j) ==
  /\ At(j, "root") /\ root = NoOne
  /\ lease' = [lease EXCEPT ![RepoOf[j]] = JobThread(j)] /\ root' = JobThread(j) /\ JobAt(j, "map")
  /\ UNCHANGED <<track, dirs, jlease, gc, faults>>
LockRoot(j) ==
  LET r == RepoOf[j] IN
  /\ At(j, "root") /\ root = NoOne
  /\ IF lease[r] = NoOne
     THEN /\ lease' = [lease EXCEPT ![r] = JobThread(j)] /\ root' = JobThread(j) /\ JobAt(j, "map")
     ELSE JobAt(j, "fresh") /\ UNCHANGED <<root, lease>>
  /\ UNCHANGED <<track, dirs, jlease, gc, faults>>

\* The directory names other mappings claim, as far as they can be read.
Claimed(unread) == {track[r].dir : r \in {r \in Repos : track[r].st = "ok" /\ r \notin unread}}

\* new_tracking: the first candidate that is neither claimed nor there.
Mutant_Candidates(unread) == {i \in 1..Len(DirNames) : dirs[DirNames[i]] = "absent"}
Candidates(unread) ==
  {i \in 1..Len(DirNames) : DirNames[i] \notin Claimed(unread) /\ dirs[DirNames[i]] = "absent"}
First(s) == CHOOSE i \in s : \A k \in s : i <= k

\* TrackingConfig::save of the mapping under both locks; the root lock is
\* dropped, the repository's lease kept.
Mutant_Save(j, name) ==
  /\ track' = [track EXCEPT ![RepoOf[j]] =
                 [st |-> "ok", dir |-> name, owner |-> RunnerOf[j], old |-> FALSE]]
  /\ job' = [job EXCEPT ![j].pc = "built", ![j].dir = name]
  /\ UNCHANGED <<root, dirs, lease, jlease, gc>>
Save(j, name) ==
  /\ track' = [track EXCEPT ![RepoOf[j]] =
                 [st |-> "ok", dir |-> name, owner |-> RunnerOf[j], old |-> FALSE]]
  /\ job' = [job EXCEPT ![j].pc = "built", ![j].dir = name]
  /\ root' = NoOne
  /\ UNCHANGED <<dirs, lease, jlease, gc>>

\* An error returns from entry::run: every lease is dropped.
Fails(j) ==
  /\ job' = [job EXCEPT ![j] = [pc |-> "over", dir |-> ""]]
  /\ root' = IF root = JobThread(j) THEN NoOne ELSE root
  /\ lease' = Released(lease, JobThread(j)) /\ jlease' = ReleasedJob(jlease, JobThread(j))
  /\ UNCHANGED <<track, dirs, gc>>

\* TrackingConfig::load of the repository's own file, then the mapping.
MapRepository(j) ==
  LET t == track[RepoOf[j]]
      New(unread) == IF Candidates(unread) = {} THEN Fails(j)
                     ELSE Save(j, DirNames[First(Candidates(unread))])
  IN  /\ At(j, "map")
      /\ \/ Fine /\ IF t.st = "ok" THEN Save(j, t.dir) ELSE New({})
         \/ Fault("own_read") /\ t.st = "ok" /\ New({})
         \/ Fault("claim_read") /\ t.st = "none" /\ \E r \in Repos : New({r})
         \/ Fault("save") /\ Fails(j)

\* prepare_fresh only computes the paths.
PrepareFresh(j) ==
  /\ At(j, "fresh")
  /\ job' = [job EXCEPT ![j].pc = "built", ![j].dir = j]
  /\ UNCHANGED <<track, dirs, root, lease, jlease, gc, faults>>

----------------------------------------------------------------------------
(* Creating: the context evaluates, then create_dirs *)

EvaluationFails(j) == At(j, "built") /\ Fault("build") /\ Fails(j)

\* take_job_lease: the lock, then the owner; a body that cannot be written
\* takes the file with it.
TakeJobLease(j) ==
  /\ At(j, "built") /\ job[j].dir = j /\ jlease[j].by = NoOne
  /\ \/ /\ Fine /\ JobAt(j, "leased")
        /\ jlease' = [jlease EXCEPT ![j] = [file |-> TRUE, body |-> RunnerOf[j], by |-> JobThread(j)]]
        /\ UNCHANGED <<track, dirs, root, lease, gc>>
     \/ /\ Fault("dirs") /\ job' = [job EXCEPT ![j] = [pc |-> "over", dir |-> ""]]
        /\ jlease' = [jlease EXCEPT ![j] = NoLease]
        /\ UNCHANGED <<track, dirs, root, lease, gc>>

\* apply_clean and create_dir_all; then spawn_workspace_gc, sparing this job.
\* A directory made or cleaned now is younger than any pass under way.
CreateDirs(j) ==
  LET d == job[j].dir IN
  /\ IF d = j THEN At(j, "leased") ELSE At(j, "built")
  /\ JobAt(j, "running")
  /\ \E clean \in BOOLEAN :
       LET touched == clean \/ dirs[d] = "absent" IN
       /\ dirs' = [dirs EXCEPT ![d] = IF touched THEN "young" ELSE @]
       /\ gc' = [k \in Jobs |->
                   IF k = j THEN [NoSweep EXCEPT !.pc = "open", !.keep = d]
                   ELSE [gc[k] EXCEPT !.stale = IF touched THEN @ \ {d} ELSE @]]
  /\ UNCHANGED <<track, root, lease, jlease, faults>>

CreateFails(j) == job[j].pc \in {"built", "leased"} /\ Fault("dirs") /\ Fails(j)

\* The job is over: its PreparedWorkspace is dropped, its sweep may go on.
Finish(j) == At(j, "running") /\ Fine /\ Fails(j)

----------------------------------------------------------------------------
(* The sweep: gc_workspaces *)

Sweeping(j, pc) == gc[j].pc = pc
SweepAt(j, g) == gc' = [gc EXCEPT ![j] = g]

\* read_dir of the work root and tracking_files.
OpenSweep(j) ==
  /\ Sweeping(j, "open")
  /\ Cardinality({k \in Jobs : gc[k].pc \notin {"idle", "open"}}) < MaxSweeps
  /\ SweepAt(j, [gc[j] EXCEPT !.pc = "files", !.files = {r \in Repos : track[r].st # "none"}])
  /\ UNCHANGED <<track, dirs, root, lease, jlease, job, faults>>

\* prune_stable's `eligible': this registration used it last, and long ago.
Mutant_Eligible(t, j) == t.st = "ok" /\ t.dir # gc[j].keep /\ t.old
Eligible(t, j) ==
  t.st = "ok" /\ t.owner = RunnerOf[j] /\ t.dir # gc[j].keep /\ t.old

\* A tracking file that cannot be read, or has gone, claims every name its
\* repository could have been given.
Unreadable(g) == [g EXCEPT !.unreadable = TRUE]

\* One tracking file: kept, or its lease is tried.
SweepFile(j, r) ==
  LET g == [gc[j] EXCEPT !.files = @ \ {r}]
      t == track[r]
      Keep == SweepAt(j, [g EXCEPT !.claimed = @ \cup {t.dir}]) /\ UNCHANGED lease
  IN  /\ Sweeping(j, "files") /\ r \in gc[j].files
      /\ \/ /\ Fault("gc_read") \/ (t.st = "none" /\ Fine)
            /\ SweepAt(j, Unreadable(g)) /\ UNCHANGED lease
         \/ Fine /\ t.st = "ok" /\ ~Eligible(t, j) /\ Keep
         \/ Fine /\ Eligible(t, j) /\ lease[r] # NoOne /\ Keep
         \/ /\ Fine /\ Eligible(t, j) /\ lease[r] = NoOne
            /\ lease' = [lease EXCEPT ![r] = GcThread(j)]
            /\ SweepAt(j, [g EXCEPT !.pc = "reread", !.at = r, !.claimed = @ \cup {t.dir}])
      /\ UNCHANGED <<track, dirs, root, jlease, job>>

\* The sweep lets go of the lease it holds and goes on.
Return(j, g, pc) ==
  /\ SweepAt(j, [g EXCEPT !.pc = pc, !.at = ""])
  /\ lease' = Released(lease, GcThread(j)) /\ jlease' = ReleasedJob(jlease, GcThread(j))

\* Re-read under the lease: a job may have used the workspace meanwhile.
Reread(j) ==
  /\ Sweeping(j, "reread")
  /\ IF Eligible(track[gc[j].at], j)
     THEN SweepAt(j, [gc[j] EXCEPT !.pc = "tree"]) /\ UNCHANGED <<lease, jlease>>
     ELSE Return(j, gc[j], "files")
  /\ Fine /\ UNCHANGED <<track, dirs, root, job>>

\* remove_tree of the stable workspace.
RemoveStable(j) ==
  /\ Sweeping(j, "tree")
  /\ \/ /\ Fine /\ dirs' = [dirs EXCEPT ![track[gc[j].at].dir] = "absent"]
        /\ SweepAt(j, [gc[j] EXCEPT !.pc = "file"]) /\ UNCHANGED <<lease, jlease>>
     \/ /\ Fault("remove") /\ Return(j, gc[j], "files") /\ UNCHANGED dirs
  /\ UNCHANGED <<track, root, job>>

\* remove_file of its mapping; only then is the lease released.
RemoveMapping(j) ==
  LET r == gc[j].at IN
  /\ Sweeping(j, "file")
  /\ \/ /\ Fine /\ track' = [track EXCEPT ![r] = NoTrack]
        /\ Return(j, [gc[j] EXCEPT !.claimed = @ \ {track[r].dir}], "files")
     \/ /\ Fault("remove") /\ UNCHANGED track
        /\ Return(j, gc[j], "files")
  /\ UNCHANGED <<dirs, root, job>>

\* The second pass judges ages by the time it starts.
BeginJobDirs(j) ==
  /\ Sweeping(j, "files") /\ gc[j].files = {}
  /\ SweepAt(j, [gc[j] EXCEPT !.pc = "entries", !.stale = {d \in Dirs : dirs[d] = "old"}])
  /\ UNCHANGED <<track, dirs, root, lease, jlease, job, faults>>

\* is_stale_dir: past its age when the pass began, and not touched since.
IsStale(j, d) == d \in gc[j].stale /\ dirs[d] = "old"

\* is_pipeline_name_for: every repository here has the same base name.
PipelineName(d) == d \in NameSet

Spared(j, d) ==
  \/ d = gc[j].keep \/ d \in gc[j].claimed
  \/ gc[j].unreadable /\ PipelineName(d)

\* One directory entry: prune_job_dir up to the removal.  The entries come
\* while the pass runs, so a directory created meanwhile may be among them; the
\* ones it spares from the start make no step.
\* A directory without a lease file goes by its age alone.
Mutant_SweepEntry(j, d) ==
  LET g == [gc[j] EXCEPT !.seen = @ \cup {d}] IN
  /\ Sweeping(j, "entries") /\ dirs[d] # "absent" /\ d \notin gc[j].seen /\ ~Spared(j, d)
  /\ SweepAt(j, IF IsStale(j, d) THEN [g EXCEPT !.pc = "old", !.at = d] ELSE g)
  /\ UNCHANGED <<track, dirs, root, lease, jlease, job, faults>>
SweepEntry(j, d) ==
  LET g == [gc[j] EXCEPT !.seen = @ \cup {d}]
      Skip == SweepAt(j, g) /\ UNCHANGED jlease
      file == d \in Jobs /\ jlease[d].file
  IN  /\ Sweeping(j, "entries") /\ dirs[d] # "absent" /\ d \notin gc[j].seen /\ ~Spared(j, d)
      /\ CASE file /\ (jlease[d].body # RunnerOf[j] \/ jlease[d].by # NoOne) -> Skip
           [] ~file ->
                /\ IF IsStale(j, d) THEN SweepAt(j, [g EXCEPT !.pc = "old", !.at = d]) ELSE SweepAt(j, g)
                /\ UNCHANGED jlease
           [] OTHER -> /\ jlease' = [jlease EXCEPT ![d].by = GcThread(j)]
                       /\ SweepAt(j, [g EXCEPT !.pc = "prune", !.at = d])
      /\ UNCHANGED <<track, dirs, root, lease, job, faults>>

\* A directory that no job of this version leased is removed by its age alone.
RemoveOld(j) ==
  /\ Sweeping(j, "old")
  /\ \/ Fine /\ dirs' = [dirs EXCEPT ![gc[j].at] = "absent"]
     \/ Fault("remove") /\ UNCHANGED dirs
  /\ SweepAt(j, [gc[j] EXCEPT !.pc = "entries", !.at = ""])
  /\ UNCHANGED <<track, root, lease, jlease, job>>

\* remove_tree of a stale job directory, under its lease.
RemoveJobDir(j) ==
  LET d == gc[j].at IN
  /\ Sweeping(j, "prune")
  /\ \/ /\ IsStale(j, d) /\ Fine /\ dirs' = [dirs EXCEPT ![d] = "absent"]
        /\ SweepAt(j, [gc[j] EXCEPT !.pc = "unlock"]) /\ UNCHANGED <<lease, jlease>>
     \/ /\ IsStale(j, d) /\ Fault("remove") /\ UNCHANGED dirs
        /\ Return(j, gc[j], "entries")
     \/ /\ ~IsStale(j, d) /\ Fine /\ UNCHANGED dirs /\ Return(j, gc[j], "entries")
  /\ UNCHANGED <<track, root, job>>

\* remove_file of its lease, which is released afterwards.
RemoveJobLease(j) ==
  /\ Sweeping(j, "unlock") /\ Fine
  /\ SweepAt(j, [gc[j] EXCEPT !.pc = "entries", !.at = ""])
  /\ jlease' = [jlease EXCEPT ![gc[j].at] = NoLease]
  /\ UNCHANGED <<track, dirs, root, lease, job>>

EndSweep(j) ==
  /\ Sweeping(j, "entries")
  /\ \A d \in Dirs : dirs[d] = "absent" \/ d \in gc[j].seen \/ Spared(j, d)
  /\ SweepAt(j, [NoSweep EXCEPT !.pc = "done"])
  /\ UNCHANGED <<track, dirs, root, lease, jlease, job, faults>>

----------------------------------------------------------------------------
(* Time and crashes *)

\* Longer than a limit goes by: every mtime of a directory, or every
\* lastRunOnUnix, is past its age.  The pass over the tracking files is shorter
\* than either limit.
Ages ==
  /\ \A j \in Jobs : gc[j].pc \notin {"files", "reread", "tree", "file"}
  /\ \/ /\ dirs' = [d \in Dirs |-> IF dirs[d] = "young" THEN "old" ELSE dirs[d]]
        /\ UNCHANGED track
     \/ /\ track' = [r \in Repos |-> IF track[r].st = "ok" THEN [track[r] EXCEPT !.old = TRUE]
                                     ELSE track[r]]
        /\ UNCHANGED dirs
  /\ UNCHANGED <<root, lease, jlease, job, gc, faults>>

\* The process of a registration dies: the kernel drops its locks, the files
\* and directories stay.
Crash(r) ==
  LET Mine(who) == who[1] # "nobody" /\ RunnerOf[who[2]] = r IN
  /\ Fault("crash")
  /\ \E j \in Jobs : RunnerOf[j] = r /\ (Active(j) \/ gc[j].pc \notin {"idle", "done"})
  /\ job' = [j \in Jobs |-> IF RunnerOf[j] = r /\ Active(j) THEN [pc |-> "over", dir |-> ""]
                            ELSE job[j]]
  /\ gc' = [j \in Jobs |-> IF RunnerOf[j] = r THEN NoSweep ELSE gc[j]]
  /\ root' = IF Mine(root) THEN NoOne ELSE root
  /\ lease' = [p \in Repos |-> IF Mine(lease[p]) THEN NoOne ELSE lease[p]]
  /\ jlease' = [j \in Jobs |-> IF Mine(jlease[j].by) THEN [jlease[j] EXCEPT !.by = NoOne]
                               ELSE jlease[j]]
  /\ UNCHANGED <<track, dirs>>

WorkspaceInit ==
  /\ track = [r \in Repos |-> NoTrack] /\ dirs = [d \in Dirs |-> "absent"]
  /\ root = NoOne /\ lease = [r \in Repos |-> NoOne] /\ jlease = [j \in Jobs |-> NoLease]
  /\ job = [j \in Jobs |-> [pc |-> "waiting", dir |-> ""]]
  /\ gc = [j \in Jobs |-> NoSweep] /\ faults = 0

ClaimStep(j) == LockRoot(j) \/ MapRepository(j) \/ PrepareFresh(j)
CreateStep(j) == EvaluationFails(j) \/ TakeJobLease(j) \/ CreateDirs(j) \/ CreateFails(j)
SweepStep(j) ==
  \/ OpenSweep(j) \/ \E r \in Repos : SweepFile(j, r)
  \/ Reread(j) \/ RemoveStable(j) \/ RemoveMapping(j)
  \/ BeginJobDirs(j) \/ \E d \in Dirs : SweepEntry(j, d)
  \/ RemoveOld(j) \/ RemoveJobDir(j) \/ RemoveJobLease(j) \/ EndSweep(j)

WorkspaceNext ==
  \/ \E j \in Jobs : TakeJob(j) \/ ClaimStep(j) \/ CreateStep(j) \/ Finish(j) \/ SweepStep(j)
  \/ \E r \in Runners : Crash(r)
  \/ Ages

WorkspaceSpec == WorkspaceInit /\ [][WorkspaceNext]_workspaceVars

----------------------------------------------------------------------------
(* Properties *)

\* Locks are held by threads that exist and are at a point where they hold one.
WorkspaceTypeOK ==
  /\ \A d \in Dirs : dirs[d] \in {"absent", "young", "old"}
  /\ \A r \in Repos : track[r].st \in {"none", "ok"} /\ track[r].dir \in NameSet \cup {""}
  /\ root = NoOne \/ \E j \in Jobs : root = JobThread(j) /\ At(j, "map")
  /\ \A r \in Repos : lease[r] = NoOne \/ \E j \in Jobs :
       \/ lease[r] = JobThread(j) /\ RepoOf[j] = r /\ job[j].pc \in {"map", "built", "running"}
       \/ lease[r] = GcThread(j) /\ gc[j].at = r
  /\ faults \in 0..MaxFaults

\* No two jobs that have created their workspace are in the same directory.
NoSharedWorkspace ==
  \A j, k \in Jobs : At(j, "running") /\ At(k, "running") /\ j # k => job[j].dir # job[k].dir

\* A sweep, of any registration, never takes the directory a job is running in.
NeverSweptUnderJob == \A j \in Jobs : At(j, "running") => dirs[job[j].dir] # "absent"

\* Two repositories are never mapped to the same directory.
OneMappingPerDirectory ==
  \A r, p \in Repos : r # p /\ track[r].st = "ok" /\ track[p].st = "ok" => track[r].dir # track[p].dir

\* A workspace whose mapping another registration wrote outlives every sweep of
\* this one: a sweep's removal is of something it may take.
OnlyItsOwn ==
  [][\A d \in Dirs : dirs[d] # "absent" /\ dirs'[d] = "absent" =>
       \E j \in Jobs :
         /\ gc[j].at \in {d} \cup {r \in Repos : track[r].dir = d}
         /\ \A r \in Repos : track[r].st = "ok" /\ track[r].dir = d => track[r].owner = RunnerOf[j]
         /\ d \in Jobs /\ jlease[d].file => jlease[d].body = RunnerOf[j]]_workspaceVars

\* A running job has its workspace to itself, mapping included.
WorkspacesAreSafe ==
  /\ WorkspaceTypeOK /\ NoSharedWorkspace /\ NeverSweptUnderJob /\ OneMappingPerDirectory
=============================================================================
