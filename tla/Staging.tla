------------------------------- MODULE Staging -------------------------------
(***************************************************************************)
(* The commit of a downloaded tree into a cache directory that jobs and    *)
(* runner processes share (promote_staging of actions/downloader.rs and of *)
(* node/download.rs): extract into a private staging directory, complete   *)
(* it with its marker (the watermark, or bin/node), rename it onto the     *)
(* cache directory, and decide what a refused rename means.  A cache       *)
(* directory may hold the unmarked remains an older runner left there.     *)
(***************************************************************************)
EXTENDS Naturals, FiniteSets, Sequences

CONSTANTS Workers,     \* whoever downloads: calls, in one process or several
          Dirs,        \* the cache directories
          MaxFaults    \* bound: how often the network or the disk fails

VARIABLES
  dir,       \* cache directory -> what it holds
  staging,   \* worker -> its staging directory
  at,        \* worker -> where it is
  late,      \* ghost: directories a commit was removed from by a late removal
  faults     \* failures so far

stageVars == <<dir, staging, at, late, faults>>

\* What a path holds: a marker, every file or not, and the revision (or build).
Absent       == [there |-> FALSE, mark |-> FALSE, whole |-> FALSE, of |-> ""]
Remains      == [Absent EXCEPT !.there = TRUE]
Whole(d)     == d.mark /\ d.whole

\* is_action_cached: the marker alone decides.
Cached(k) == dir[k].there /\ dir[k].mark

Go(w, place) == at' = [at EXCEPT ![w] = place]

\* cleanup_staging.
Discard(w) == staging' = [staging EXCEPT ![w] = Absent]

Fault == faults < MaxFaults /\ faults' = faults + 1

\* staging_dir_for: a fresh name, so extraction shares no path with anyone.
NewStaging(w, of) == staging' = [staging EXCEPT ![w] = [Remains EXCEPT !.of = of]]

\* A tree whose extraction came to its end.
Extracted(w) == staging' = [staging EXCEPT ![w].whole = TRUE]

\* rename(2): onto a path that is free; the file system may refuse.
Rename(w, k) ==
  /\ ~dir[k].there
  /\ dir' = [dir EXCEPT ![k] = staging[w]] /\ Discard(w) /\ Go(w, "promoted")
  /\ UNCHANGED <<late, faults>>

RenameRefused(w, k) ==
  /\ \/ dir[k].there /\ UNCHANGED faults
     \/ ~dir[k].there /\ Fault
  /\ Go(w, "refused") /\ UNCHANGED <<dir, staging, late>>

\* Why the rename was refused: a rival committed, remains are in the way, or
\* (nothing there) the file system.
JudgeRefusal(w, k) ==
  /\ CASE Cached(k)    -> Discard(w) /\ Go(w, "promoted")
       [] dir[k].there /\ ~Cached(k) -> Go(w, "stale") /\ UNCHANGED staging
       [] OTHER        -> Discard(w) /\ Go(w, "unpromoted")
  /\ UNCHANGED <<dir, late, faults>>

\* The last look before the removal.
Recheck(w, k) ==
  /\ IF Cached(k) THEN Discard(w) /\ Go(w, "promoted")
                  ELSE Go(w, "remove") /\ UNCHANGED staging
  /\ UNCHANGED <<dir, late, faults>>

\* remove_dir_all takes files away one by one, the marker at any point of it;
\* it goes on in the directory it opened, so what a rival renames to the path
\* meanwhile is out of its reach.
RemoveSome(w, k) ==
  /\ IF dir[k].there
     THEN /\ \E m \in {FALSE, dir[k].mark} :
               dir' = [dir EXCEPT ![k].mark = m, ![k].whole = FALSE]
          /\ Go(w, "removing")
     ELSE Go(w, "retry") /\ UNCHANGED dir
  /\ late' = IF Cached(k) THEN late \cup {k} ELSE late
  /\ UNCHANGED <<staging, faults>>

RemoveRest(w, k) ==
  /\ \/ /\ dir' = [dir EXCEPT ![k] = IF @.whole THEN @ ELSE Absent]
        /\ UNCHANGED faults
     \/ Fault /\ UNCHANGED dir
  /\ Go(w, "retry") /\ UNCHANGED <<staging, late>>

\* The one retry.
RenameAgain(w, k) ==
  /\ \/ ~dir[k].there /\ dir' = [dir EXCEPT ![k] = staging[w]]
        /\ Go(w, "promoted") /\ UNCHANGED faults
     \/ dir[k].there /\ Go(w, "unpromoted") /\ UNCHANGED <<dir, faults>>
     \/ ~dir[k].there /\ Fault /\ Go(w, "unpromoted") /\ UNCHANGED dir
  /\ Discard(w) /\ UNCHANGED late

\* promote_staging: synchronous code, but other processes run beside it.
Promoting == {"promote", "refused", "stale", "remove", "removing", "retry"}
Promote(w, k) ==
  \/ at[w] = "promote"  /\ Rename(w, k)
  \/ at[w] = "promote"  /\ RenameRefused(w, k)
  \/ at[w] = "refused"  /\ JudgeRefusal(w, k)
  \/ at[w] = "stale"    /\ Recheck(w, k)
  \/ at[w] = "remove"   /\ RemoveSome(w, k)
  \/ at[w] = "removing" /\ RemoveRest(w, k)
  \/ at[w] = "retry"    /\ RenameAgain(w, k)

\* A cache directory starts empty; some may hold remains of an old download.
StagingInit(littered) ==
  /\ \E l \in SUBSET littered : dir = [k \in Dirs |-> IF k \in l THEN Remains ELSE Absent]
  /\ staging = [w \in Workers |-> Absent]
  /\ late = {} /\ faults = 0

\* Everything that carries the marker is complete, whoever is downloading,
\* failing or dying: a reader that trusts is_action_cached or bin/node never
\* finds half a tree.  The one way around it is in the directory's history: a
\* removal decided upon when the directory held unmarked remains, and carried
\* out after a rival had replaced them.
TreesAreWhole == \A k \in Dirs : dir[k].mark => Whole(dir[k]) \/ k \in late
=============================================================================
