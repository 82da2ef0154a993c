----------------------------- MODULE RunnerProofs -----------------------------
(***************************************************************************)
(* Proofs about module Runner for any number of loops, of minted           *)
(* configurations and of failures: one driver at a time, and records that  *)
(* stay true.  The argument is an inductive invariant, RInv.  Its centre   *)
(* is the kernel lock: who holds it is on the file the path names, so a    *)
(* contender always meets its holder, finds it neither old nor gone, and   *)
(* is refused.  Whoever drives holds the lock; what a driver, `register'   *)
(* or `remove' may do to the records follows from where it is.             *)
(*                                                                         *)
(* Overlap = FALSE is assumed where it is used: a call of acquire, and the *)
(* other activities of Brief, run undisturbed, and the operator runs one   *)
(* command at a time.  With Overlap the takeover of a stale lock file by   *)
(* path lets two drivers in.                                               *)
(***************************************************************************)
EXTENDS Runner, FiniteSetTheorems, TLAPS

\* Users that hold the kernel lock, and those about to let go of it.
Holds(u) == lk[u] \in {"write", "held"}
Leaving(u) == u \in Drivers /\ pc[u] \in {"end", "fatal"}

\* The activities during which nobody else acts.
Busy(u) == lk[u] \in Acquiring \/ (u \in Drivers /\ pc[u] \in Brief)

Serial == \A u, v \in Users : Busy(u) /\ Busy(v) => u = v
OneHolder == \A u, v \in Users : Holds(u) /\ Holds(v) => u = v

\* A held lock is on the file the path names, unless the holder has just removed
\* that file or is on its way out, and it is not old.
Gripped ==
  /\ \A u \in Users : Holds(u) =>
       /\ fd[u] \in Inodes /\ flock[fd[u]] = u
       /\ Leaving(u) \/ (path = fd[u] /\ (lk[u] = "held" => path \notin aged))
  /\ \A i \in Inodes : flock[i] # None => Holds(flock[i]) /\ fd[flock[i]] = i

\* A contender has the file the path names; it finds a holder that is not itself.
Trying ==
  \A u \in Users :
    /\ lk[u] \notin {"unlink", "create", "failed"}
    /\ lk[u] \in {"idle", "open", "refused"} => fd[u] = 0
    /\ lk[u] \in {"try", "judge"} => fd[u] = path /\ path \in Inodes
    /\ lk[u] = "judge" => flock[path] \notin {None, u}

\* Where a driver is goes with what it has of the lock.
Placed ==
  \A d \in Drivers :
    /\ pc[d] \in Driving \cup {"ready", "top", "wipe"} => lk[d] = "held"
    /\ pc[d] = "lock" => lk[d] \in Acquiring \cup {"held", "refused"}
    /\ pc[d] = "wait" => lk[d] = "refused"
    /\ pc[d] \in {"end", "fatal"} => lk[d] \in {"held", "refused", "idle"}
    /\ pc[d] \in {"off", "load", "record", "done"} => lk[d] = "idle"
    /\ pc[d] = "persist" => cfg[d].mint # 0
    /\ pc[d] = "wipe" => runner = 0 \/ "unverified" \in waived

\* The same for the commands.
Commanded ==
  /\ rm \in {"off", "after", "kept"} => lk["rm"] = "idle"
  /\ rm \in {"lock", "wait"} => lk["rm"] \in Acquiring \cup {"held", "refused"}
  /\ rm = "drain" => lk["rm"] = "refused"
  /\ rm \in {"reload", "unregister"} => lk["rm"] = "held"
  /\ rm = "delete" =>
       \/ lk["rm"] = "held" /\ (runner = 0 \/ "unregister" \in waived)
       \/ lk["rm"] = "refused" /\ "force" \in waived
  /\ rm \in {"lock", "unregister"} => cfg["rm"] # Absent
  /\ rm # "off" => reg = "off"
  /\ reg = "save" => wanted.mint # 0

\* A driver's registration is there, unless it was removed by force.
Recorded ==
  /\ NoStrandedRunner
  /\ config = Absent /\ "force" \notin waived => \A d \in Drivers : pc[d] \notin Driving

NobodyDrives == \A l \in Loops : pc[l] \notin Driving \cup {"top"}

\* .stopped goes before a loop drives, and comes only after it let go.
Marked ==
  /\ stopped => NobodyDrives
  /\ \A l \in Loops : pc[l] = "fatal" => lk[l] = "held" \/ config = Absent
  /\ \A d \in Drivers : pc[d] = "record" => config = Absent \/ NobodyDrives

RInv ==
  /\ TypeOK /\ Serial /\ OneHolder /\ Gripped /\ Trying /\ Placed /\ Commanded
  /\ Recorded /\ Marked
\* Nobody but u is busy.
Quiet(u) == \A v \in Users : Busy(v) => v = u

LockInv == Serial /\ OneHolder /\ Gripped /\ Trying

\* Without Overlap an activity acts only while nobody else is busy.
LEMMA OthersWait ==
  ASSUME Overlap = FALSE, NEW u, Undisturbed(u)
  PROVE  Quiet(u)
BY DEF Undisturbed, Quiet, Busy

-----------------------------------------------------------------------------
(* The lock file                                                           *)

\* There are more inodes than anybody can refer to.
LEMMA SpareInode ==
  ASSUME TypeOK, path = 0
  PROVE  Unused # {}
<1> DEFINE T == {fd[u] : u \in Users}
<1>1. fd \in Surjection(Users, T)
  BY DEF Surjection, TypeOK, LockTypeOK
<1>2. IsFiniteSet(T) /\ Cardinality(T) <= Cardinality(Users)
  BY <1>1, BoundsAssumption, FS_Surjection
<1>3. Cardinality(Users) \in Nat /\ Cardinality(T) \in Nat
  BY <1>2, BoundsAssumption, FS_CardinalityType
<1>4. Cardinality(Inodes) = Cardinality(Users) + 1
  BY <1>3, FS_Interval DEF Inodes
<1>5. ~(Inodes \subseteq T)
  <2> SUFFICES ASSUME Inodes \in SUBSET T PROVE FALSE
    OBVIOUS
  <2>1. Cardinality(Inodes) <= Cardinality(T)
    BY <1>2, FS_Subset
  <2> QED BY <1>2, <1>3, <1>4, <2>1
<1>6. 0 \notin Inodes
  BY <1>3 DEF Inodes
<1> QED BY <1>5, <1>6 DEF Unused

\* What a user of the lock may change: its own place in acquire, and files.
LEMMA StepOpens ==
  ASSUME TypeOK, LockInv, NEW u \in Users, LockOpen(u), Quiet(u), pc' = pc
  PROVE  LockTypeOK' /\ LockInv' /\ lk'[u] = "try" /\ \A v \in Users \ {u} : lk'[v] = lk[v]
<1>1. /\ path \in {0} \cup Inodes /\ flock \in [Inodes -> Users \cup {None}]
      /\ body \in [Inodes -> Procs \cup {None}] /\ aged \subseteq Inodes
      /\ lk \in [Users -> Acquiring \cup {"idle", "held", "refused", "failed"}]
      /\ fd \in [Users -> {0} \cup Inodes] /\ seen \in [Users -> Procs \cup {None}]
  BY DEF TypeOK, LockTypeOK
<1>2. /\ lk[u] = "open" /\ lk' = [lk EXCEPT ![u] = "try"] /\ seen' = seen
      /\ fd' = [fd EXCEPT ![u] = path'] /\ path' \in Inodes
      /\ path # 0 => path' = path /\ flock' = flock /\ body' = body /\ aged' = aged
      /\ path = 0 => path' \in Unused /\ flock' = [flock EXCEPT ![path'] = None]
                     /\ body' = [body EXCEPT ![path'] = None] /\ aged' = aged \ {path'}
  <2>1. path = 0 => (CHOOSE i \in Unused : TRUE) \in Unused
    BY SpareInode
  <2>2. Unused \subseteq Inodes
    BY DEF Unused
  <2> QED BY <1>1, <2>1, <2>2 DEF LockOpen, OpenPath
<1>3. LockTypeOK'
  BY <1>1, <1>2 DEF LockTypeOK, Acquiring
<1>4. \A v \in Users \ {u} : lk'[v] = lk[v] /\ fd'[v] = fd[v]
  BY <1>1, <1>2
<1>5. lk'[u] = "try" /\ fd'[u] = path'
  BY <1>1, <1>2
<1>6. \A v \in Users : (Holds(v))' <=> Holds(v)
  BY <1>2, <1>4, <1>5 DEF Holds
<1>7. \A v \in Users : Busy(v)' => v = u
  BY <1>4 DEF Busy, Quiet
<1>8. Serial' /\ OneHolder'
  BY <1>6, <1>7 DEF Serial, OneHolder, LockInv
<1>9. \A v \in Users : Holds(v) => v # u /\ ~Leaving(v) /\ path # 0
  BY <1>1, <1>2 DEF Holds, Leaving, Quiet, Busy, Brief, Gripped, LockInv, Inodes
<1>10. Gripped'
  BY <1>1, <1>2, <1>4, <1>6, <1>9 DEF Gripped, LockInv, Unused, Leaving
<1>11. Trying'
  BY <1>1, <1>2, <1>4, <1>5, <1>7 DEF Trying, LockInv, Busy, Acquiring
<1> QED BY <1>3, <1>4, <1>5, <1>8, <1>10, <1>11 DEF LockInv

LEMMA StepTries ==
  ASSUME TypeOK, LockInv, NEW u \in Users, LockTry(u), Quiet(u), pc' = pc
  PROVE  /\ LockTypeOK' /\ LockInv' /\ lk'[u] \in {"write", "judge"}
         /\ \A v \in Users \ {u} : lk'[v] = lk[v]
<1>1. /\ flock \in [Inodes -> Users \cup {None}]
      /\ lk \in [Users -> Acquiring \cup {"idle", "held", "refused", "failed"}]
      /\ fd \in [Users -> {0} \cup Inodes]
  BY DEF TypeOK, LockTypeOK
<1>2. /\ lk[u] = "try" /\ UNCHANGED <<path, body, aged, fd, seen>>
      /\ \/ flock[path] = None /\ flock' = [flock EXCEPT ![path] = u] /\ lk' = [lk EXCEPT ![u] = "write"]
         \/ flock[path] # None /\ flock' = flock /\ lk' = [lk EXCEPT ![u] = "judge"]
      /\ fd[u] = path /\ path \in Inodes
  BY DEF LockTry, LockInv, Trying
<1>3. LockTypeOK'
  BY <1>2 DEF TypeOK, LockTypeOK, Acquiring
<1>4. \A v \in Users \ {u} : lk'[v] = lk[v]
  BY <1>1, <1>2
<1>5. lk'[u] \in {"write", "judge"}
  BY <1>1, <1>2
<1>6. \A v \in Users : Busy(v)' => v = u
  BY <1>4 DEF Busy, Quiet
<1>7. \A v \in Users : Holds(v) => v # u /\ path = fd[v] /\ flock[path] = v
  BY <1>1, <1>2 DEF Holds, Leaving, Quiet, Busy, Brief, Gripped, LockInv
<1>8. CASE flock[path] = None
  <2>1. \A v \in Users : ~Holds(v)
    BY <1>7, <1>8, BoundsAssumption
  <2>2. \A v \in Users : (Holds(v))' => v = u
    BY <1>4, <2>1 DEF Holds
  <2>3. lk'[u] = "write" /\ Holds(u)' /\ flock'[path] = u
    BY <1>1, <1>2, <1>8 DEF Holds
  <2>4. \A i \in Inodes : flock[i] = None
    BY <1>1, <2>1 DEF Gripped, LockInv
  <2>5. Gripped'
    BY <1>1, <1>2, <1>8, <2>2, <2>3, <2>4 DEF Gripped, Leaving
  <2>6. Trying'
    BY <1>1, <1>2, <1>4, <1>6, <2>3 DEF Trying, LockInv, Busy, Acquiring
  <2> QED BY <1>3, <1>4, <1>5, <1>6, <2>2, <2>5, <2>6 DEF LockInv, Serial, OneHolder
<1>9. CASE flock[path] # None
  <2>1. lk'[u] = "judge" /\ flock' = flock
    BY <1>1, <1>2, <1>9
  <2>2. \A v \in Users : (Holds(v))' <=> Holds(v)
    BY <1>2, <1>4, <2>1 DEF Holds
  <2>3. flock[path] # u
    BY <1>2, <1>9 DEF Gripped, LockInv, Holds
  <2>4. Gripped'
    BY <1>1, <1>2, <1>4, <2>1, <2>2, <1>7 DEF Gripped, LockInv, Leaving
  <2>5. Trying'
    BY <1>1, <1>2, <1>4, <1>6, <1>9, <2>1, <2>3 DEF Trying, LockInv, Busy, Acquiring
  <2> QED BY <1>3, <1>4, <1>5, <1>6, <2>2, <2>4, <2>5 DEF LockInv, Serial, OneHolder
<1> QED BY <1>3, <1>4, <1>5, <1>8, <1>9

LEMMA StepWrites ==
  ASSUME TypeOK, LockInv, NEW u \in Users, LockWrite(u), Quiet(u), pc' = pc
  PROVE  /\ LockTypeOK' /\ LockInv' /\ lk'[u] = "held"
         /\ \A v \in Users \ {u} : lk'[v] = lk[v]
<1>1. /\ body \in [Inodes -> Procs \cup {None}] /\ fd \in [Users -> {0} \cup Inodes]
      /\ lk \in [Users -> Acquiring \cup {"idle", "held", "refused", "failed"}]
  BY DEF TypeOK, LockTypeOK
<1>2. /\ lk[u] = "write" /\ lk' = [lk EXCEPT ![u] = "held"] /\ UNCHANGED <<path, flock, fd, seen>>
      /\ aged' = aged \ {fd[u]} /\ body' = [body EXCEPT ![fd[u]] = ProcOf(u)]
  BY DEF LockWrite
<1>3. LockTypeOK'
  <2>1. ProcOf(u) \in Procs
    BY DEF ProcOf, Procs
  <2> QED BY <1>1, <1>2, <2>1 DEF TypeOK, LockTypeOK, Acquiring
<1>4. lk'[u] = "held" /\ \A v \in Users \ {u} : lk'[v] = lk[v]
  BY <1>1, <1>2
<1>5. \A v \in Users : Busy(v)' => v = u
  BY <1>4 DEF Busy, Quiet
<1>6. \A v \in Users : (Holds(v))' <=> Holds(v)
  BY <1>2, <1>4 DEF Holds
<1>7. Gripped'
  BY <1>1, <1>2, <1>4, <1>6 DEF Gripped, LockInv, Leaving, Holds, OneHolder
<1>8. Trying'
  BY <1>1, <1>2, <1>4, <1>5 DEF Trying, LockInv, Busy, Acquiring
<1> QED BY <1>3, <1>4, <1>5, <1>6, <1>7, <1>8 DEF LockInv, Serial, OneHolder

\* A contended lock is never judged stale: its holder has written its body.
LEMMA StepJudges ==
  ASSUME TypeOK, LockInv, NEW u \in Users, NEW alive, LockJudge(u, alive), Quiet(u), pc' = pc
  PROVE  /\ LockTypeOK' /\ LockInv' /\ lk'[u] = "refused"
         /\ \A v \in Users \ {u} : lk'[v] = lk[v]
<1>1. /\ flock \in [Inodes -> Users \cup {None}] /\ body \in [Inodes -> Procs \cup {None}]
      /\ lk \in [Users -> Acquiring \cup {"idle", "held", "refused", "failed"}]
      /\ fd \in [Users -> {0} \cup Inodes] /\ seen \in [Users -> Procs \cup {None}]
  BY DEF TypeOK, LockTypeOK
<1>2. lk[u] = "judge" /\ path \in Inodes /\ flock[path] \in Users \ {u} /\ path # 0
  <2>1. 0 \notin Inodes
    BY DEF Inodes
  <2> QED BY <1>1, <2>1 DEF LockJudge, LockInv, Trying
<1>3. ~Stale(alive)
  <2>1. Holds(flock[path]) /\ ~Busy(flock[path])
    BY <1>2, BoundsAssumption DEF Gripped, LockInv, Quiet
  <2>2. lk[flock[path]] = "held" /\ ~Leaving(flock[path])
    BY <2>1 DEF Holds, Leaving, Busy, Acquiring, Brief
  <2> QED BY <1>2, <2>1, <2>2 DEF Stale, Gripped, LockInv
<1>4. /\ lk' = [lk EXCEPT ![u] = "refused"] /\ fd' = [fd EXCEPT ![u] = 0]
      /\ seen' = [seen EXCEPT ![u] = body[path]] /\ UNCHANGED <<path, flock, body, aged>>
  BY <1>3 DEF LockJudge
<1>5. LockTypeOK'
  BY <1>1, <1>2, <1>4 DEF TypeOK, LockTypeOK, Acquiring
<1>6. lk'[u] = "refused" /\ fd'[u] = 0 /\ \A v \in Users \ {u} : lk'[v] = lk[v] /\ fd'[v] = fd[v]
  BY <1>1, <1>4
<1>7. \A v \in Users : Busy(v)' => v = u
  BY <1>6 DEF Busy, Quiet
<1>8. \A v \in Users : (Holds(v))' <=> Holds(v)
  BY <1>2, <1>6 DEF Holds
<1>9. Gripped'
  BY <1>1, <1>2, <1>4, <1>6, <1>8 DEF Gripped, LockInv, Leaving, Holds
<1>10. Trying'
  BY <1>4, <1>6, <1>7 DEF Trying, LockInv, Busy, Acquiring
<1> QED BY <1>5, <1>6, <1>7, <1>8, <1>9, <1>10 DEF LockInv, Serial, OneHolder

\* acquire keeps what is known of the lock, and answers "held" or "refused".
LEMMA StepAcquires ==
  ASSUME TypeOK, LockInv, NEW u \in Users, AcquireStep(u, Alive), Quiet(u), pc' = pc
  PROVE  /\ LockTypeOK' /\ LockInv' /\ lk[u] \in Acquiring
         /\ lk'[u] \in Acquiring \cup {"held", "refused"}
         /\ \A v \in Users \ {u} : lk'[v] = lk[v]
<1>1. lk[u] \notin {"unlink", "create"}
  BY DEF LockInv, Trying
<1>2. CASE LockOpen(u)
  BY <1>2, StepOpens DEF Acquiring, LockOpen
<1>3. CASE LockTry(u)
  BY <1>3, StepTries DEF Acquiring, LockTry
<1>4. CASE LockWrite(u)
  BY <1>4, StepWrites DEF Acquiring, LockWrite
<1>5. CASE LockJudge(u, Alive)
  BY <1>5, StepJudges DEF Acquiring, LockJudge
<1> QED BY <1>1, <1>2, <1>3, <1>4, <1>5 DEF AcquireStep, LockUnlink, LockCreate

\* A user that is not busy asks for the lock, or forgets that it was refused.
LEMMA Turns ==
  ASSUME TypeOK, LockInv, NEW u \in Users, Quiet(u), lk[u] \in {"idle", "refused"},
         NEW to \in {"open", "idle"}, lk' = [lk EXCEPT ![u] = to],
         UNCHANGED <<path, flock, body, aged, fd>>, seen' \in [Users -> Procs \cup {None}],
         \A d \in Drivers \ {u} : pc'[d] = pc[d]
  PROVE  LockTypeOK' /\ LockInv' /\ lk'[u] = to /\ \A v \in Users \ {u} : lk'[v] = lk[v]
<1>1. lk \in [Users -> Acquiring \cup {"idle", "held", "refused", "failed"}]
  BY DEF TypeOK, LockTypeOK
<1>2. LockTypeOK'
  BY DEF TypeOK, LockTypeOK, Acquiring
<1>3. lk'[u] = to /\ \A v \in Users \ {u} : lk'[v] = lk[v]
  BY <1>1
<1>4. \A v \in Users : Busy(v)' => v = u
  BY <1>3 DEF Busy, Quiet
<1>5. \A v \in Users : (Holds(v))' <=> Holds(v)
  BY <1>3 DEF Holds
<1>6. Gripped'
  BY <1>3, <1>5 DEF Gripped, LockInv, Leaving, Holds
<1>7. Trying'
  BY <1>3, <1>4 DEF Trying, LockInv, Busy, Acquiring
<1> QED BY <1>2, <1>3, <1>4, <1>5, <1>6, <1>7 DEF LockInv, Serial, OneHolder

LEMMA Asks ==
  ASSUME TypeOK, LockInv, NEW u \in Users, Quiet(u), lk[u] \in {"idle", "refused"},
         lk' = [lk EXCEPT ![u] = "open"], UNCHANGED <<path, flock, body, aged, fd>>,
         seen' \in [Users -> Procs \cup {None}],
         \A d \in Drivers \ {u} : pc'[d] = pc[d]
  PROVE  LockTypeOK' /\ LockInv' /\ lk'[u] = "open" /\ \A v \in Users \ {u} : lk'[v] = lk[v]
BY Turns

\* A user lets go of the lock, or of having been refused.
LEMMA Releases ==
  ASSUME TypeOK, LockInv, NEW u \in Users, NEW unlink \in BOOLEAN, Release(u, unlink), Quiet(u),
         lk[u] \in {"held", "refused", "idle"}, unlink => lk[u] = "held",
         \A d \in Drivers \ {u} : pc'[d] = pc[d]
  PROVE  LockTypeOK' /\ LockInv' /\ lk'[u] = "idle" /\ \A v \in Users \ {u} : lk'[v] = lk[v]
<1>1. /\ flock \in [Inodes -> Users \cup {None}] /\ body \in [Inodes -> Procs \cup {None}]
      /\ lk \in [Users -> Acquiring \cup {"idle", "held", "refused", "failed"}]
      /\ fd \in [Users -> {0} \cup Inodes] /\ aged \subseteq Inodes /\ path \in {0} \cup Inodes
  BY DEF TypeOK, LockTypeOK
<1>2. /\ path' = (IF unlink THEN 0 ELSE path) /\ seen' = seen
      /\ fd' = [fd EXCEPT ![u] = 0] /\ lk' = [lk EXCEPT ![u] = "idle"]
      /\ fd[u] = 0 => UNCHANGED <<body, flock, aged>>
      /\ fd[u] # 0 => body' = [body EXCEPT ![fd[u]] = None] /\ flock' = [flock EXCEPT ![fd[u]] = None]
                      /\ aged' = aged \ {fd[u]}
  BY DEF Release
<1>3. LockTypeOK'
  BY <1>1, <1>2 DEF TypeOK, LockTypeOK, Acquiring
<1>4. /\ lk'[u] = "idle" /\ fd'[u] = 0
      /\ \A v \in Users \ {u} : lk'[v] = lk[v] /\ fd'[v] = fd[v]
  BY <1>1, <1>2
<1>5. \A v \in Users : Busy(v)' => v = u
  BY <1>4 DEF Busy, Quiet
<1>6. \A v \in Users : (Holds(v))' => Holds(v) /\ v # u
  BY <1>4 DEF Holds
<1>7. Holds(u) \/ fd[u] = 0
  BY DEF Trying, LockInv, Holds
<1>8. Gripped'
  <2>1. CASE Holds(u)
    <3>1. \A v \in Users : ~Holds(v)'
      BY <1>6, <2>1 DEF OneHolder, LockInv
    <3>2. \A i \in Inodes : flock[i] # None => i = fd[u]
      BY <1>1, <2>1 DEF Gripped, LockInv, OneHolder
    <3>3. fd[u] \in Inodes /\ fd[u] # 0
      BY <2>1 DEF Gripped, LockInv, Inodes
    <3>4. \A i \in Inodes : flock'[i] = None
      BY <1>1, <1>2, <3>2, <3>3
    <3> QED BY <3>1, <3>4 DEF Gripped
  <2>2. CASE ~Holds(u)
    <3>1. fd[u] = 0 /\ ~unlink /\ UNCHANGED <<path, flock, aged>>
      BY <1>2, <1>7, <2>2 DEF Holds
    <3>2. \A v \in Users \ {u} : (Holds(v)' <=> Holds(v)) /\ (Leaving(v)' <=> Leaving(v))
      BY <1>4 DEF Holds, Leaving
    <3> QED BY <1>1, <1>4, <1>6, <2>2, <3>1, <3>2 DEF Gripped, LockInv
  <2> QED BY <2>1, <2>2
<1>9. Trying'
  BY <1>4, <1>5 DEF Trying, LockInv, Busy, Acquiring
<1> QED BY <1>3, <1>4, <1>5, <1>6, <1>8, <1>9 DEF LockInv, Serial, OneHolder

\* The supervisor's process is gone.
LEMMA Vanishes ==
  ASSUME TypeOK, LockInv, Quiet(None), Vanish(Loops),
         \A d \in Drivers : pc'[d] = IF d \in Loops THEN "off" ELSE pc[d]
  PROVE  /\ LockTypeOK' /\ LockInv'
         /\ \A u \in Users : lk'[u] = IF u \in Loops THEN "idle" ELSE lk[u]
<1>1. /\ flock \in [Inodes -> Users \cup {None}]
      /\ lk \in [Users -> Acquiring \cup {"idle", "held", "refused", "failed"}]
      /\ fd \in [Users -> {0} \cup Inodes]
  BY DEF TypeOK, LockTypeOK
<1>2. /\ flock' = [i \in Inodes |-> IF flock[i] \in Loops THEN None ELSE flock[i]]
      /\ fd' = [u \in Users |-> IF u \in Loops THEN 0 ELSE fd[u]]
      /\ lk' = [u \in Users |-> IF u \in Loops THEN "idle" ELSE lk[u]]
      /\ UNCHANGED <<path, body, aged, seen>>
  BY DEF Vanish
<1>3. LockTypeOK'
  BY <1>1, <1>2 DEF TypeOK, LockTypeOK, Acquiring
<1>4. \A u \in Users : lk'[u] = IF u \in Loops THEN "idle" ELSE lk[u]
  BY <1>2
<1>5. \A u \in Users : fd'[u] = IF u \in Loops THEN 0 ELSE fd[u]
  BY <1>2
<1>6. \A u \in Users : ~Busy(u)
  BY BoundsAssumption DEF Quiet
<1>7. \A u \in Users : ~Busy(u)'
  BY <1>4, <1>6 DEF Busy, Acquiring, Brief
<1>8. \A u \in Users : (Holds(u))' <=> Holds(u) /\ u \notin Loops
  BY <1>4 DEF Holds
<1>9. \A u \in Users : ~Leaving(u) /\ ~Leaving(u)'
  BY <1>6, <1>7 DEF Leaving, Busy, Brief
<1>10. Gripped'
  BY <1>1, <1>2, <1>4, <1>5, <1>8, <1>9, BoundsAssumption DEF Gripped, LockInv
<1>11. Trying'
  BY <1>2, <1>4, <1>5, <1>6 DEF Trying, LockInv, Busy, Acquiring
<1> QED BY <1>3, <1>4, <1>7, <1>8, <1>10, <1>11 DEF LockInv, Serial, OneHolder

\* A driver goes on, and the lock is left alone.
LEMMA Moves ==
  ASSUME LockInv, NEW d, Quiet(d) \/ (\A e \in Drivers : pc'[e] \in Brief => pc[e] \in Brief),
         UNCHANGED <<path, flock, aged, lk, fd>>, \A e \in Drivers \ {d} : pc'[e] = pc[e],
         d \in Drivers /\ pc[d] \in {"end", "fatal"} => pc'[d] = pc[d]
  PROVE  LockInv'
<1>1. Serial'
  BY DEF LockInv, Serial, Quiet, Busy
<1>2. \A u \in Users : (Holds(u)' <=> Holds(u)) /\ (Leaving(u) => Leaving(u)')
  BY DEF Holds, Leaving
<1>3. OneHolder'
  BY <1>2 DEF OneHolder, LockInv
<1>5. Gripped'
  <2>1. \A u \in Users : Holds(u)' =>
          /\ fd'[u] \in Inodes /\ flock'[fd'[u]] = u
          /\ Leaving(u)' \/ (path' = fd'[u] /\ (lk'[u] = "held" => path' \notin aged'))
    BY <1>2 DEF Gripped, LockInv
  <2>2. \A i \in Inodes : flock'[i] # None => lk'[flock'[i]] \in {"write", "held"} /\ fd'[flock'[i]] = i
    BY DEF Gripped, LockInv, Holds
  <2> QED BY <2>1, <2>2 DEF Gripped, Holds
<1>4. Trying'
  BY DEF Trying, LockInv
<1> QED BY <1>1, <1>3, <1>4, <1>5 DEF LockInv

-----------------------------------------------------------------------------
(* The drivers                                                             *)

LEMMA Types ==
  /\ Absent \in [mint : 0 .. MaxMints, ephemeral : BOOLEAN] /\ Absent.mint = 0
  /\ \A c \in Configs : c # Absent /\ c.mint # 0 /\ c \in [mint : 0 .. MaxMints, ephemeral : BOOLEAN]
  /\ \A c \in [mint : 0 .. MaxMints, ephemeral : BOOLEAN] : c.mint # 0 => c \in Configs
  /\ "rm" \in Users \ Drivers /\ Loops \subseteq Drivers /\ Drivers \subseteq Users /\ None \notin Users
BY BoundsAssumption DEF Absent, Configs, Drivers, Loops

\* What a driver that holds the lock may change in a step.
Drives(d) ==
  /\ UNCHANGED <<lockVars, pending, cancelled, supervisor, commands>>
  /\ waived' \in {waived, waived \cup {"unverified"}}
  /\ pc[d] \in Driving \cup {"ready", "top"}
  /\ pc' = [pc EXCEPT ![d] = pc'[d]] /\ pc'[d] \in Driving \cup {"top", "wipe", "end", "fatal"}
  /\ cfg' = [cfg EXCEPT ![d] = cfg'[d]] /\ cfg'[d] \in Configs \cup {Absent}
  /\ out' \in [Drivers -> Outcomes]
  /\ runner' \in 0 .. MaxMints /\ minted' \in 0 .. MaxMints /\ trouble' \in 0 .. MaxTrouble
  /\ config' = config \/ config' \in Configs
  /\ stopped' = stopped \/ stopped' = FALSE
  /\ runner' \in {runner, 0} \/ pc[d] \in Driving
  /\ pc'[d] = "persist" => cfg'[d].mint # 0
  /\ pc'[d] = "wipe" => runner' = 0 \/ "unverified" \in waived'
  /\ pc'[d] \in Driving => pc[d] \in Driving \/ config # Absent
  /\ pc[d] = "ready" => stopped' = FALSE \/ pc'[d] = "end"

LEMMA DrivesOn ==
  ASSUME RInv, NEW d \in Drivers, Quiet(d), Drives(d)
  PROVE  RInv'
<1>1. TypeOK /\ LockInv /\ Placed /\ Commanded /\ Recorded /\ Marked
  BY DEF RInv, LockInv
<1>2. /\ pc \in [Drivers -> Phases] /\ cfg \in [Users -> Configs \cup {Absent}]
      /\ config \in Configs \cup {Absent} /\ stopped \in BOOLEAN
  BY <1>1 DEF TypeOK
<1>3. TypeOK'
  <2>1. LockTypeOK'
    BY <1>1 DEF TypeOK, LockTypeOK, Drives, lockVars
  <2>2. pc' \in [Drivers -> Phases]
    BY <1>2 DEF Drives, Phases, Driving
  <2>3. cfg' \in [Users -> Configs \cup {Absent}] /\ cfg'["rm"] = cfg["rm"]
    BY <1>2, Types DEF Drives
  <2>4. stopped' \in BOOLEAN
    BY Zenon, <1>2 DEF Drives
  <2>5. waived' \subseteq Waivers
    BY <1>1 DEF TypeOK, Drives, Waivers
  <2> QED BY <1>1, <1>2, <2>1, <2>2, <2>3, <2>4, <2>5 DEF TypeOK, Drives, supervisor, commands
<1>4. LockInv'
  BY <1>1, <1>2, Moves DEF Drives, lockVars, Driving
<1>5. \A e \in Drivers \ {d} : pc'[e] = pc[e] /\ cfg'[e] = cfg[e] /\ pc[e] \notin Brief
  BY <1>2, Types DEF Drives, Quiet, Busy
<1>6. lk[d] = "held" /\ lk' = lk
  BY <1>1 DEF Placed, Drives, lockVars
<1>7. Placed'
  <2>1. \A e \in Drivers \ {d} : pc[e] \notin {"wipe"}
    BY <1>5 DEF Brief
  <2>2. \A e \in Drivers \ {d} : pc[e] = "persist" => cfg[e].mint # 0
    BY <1>1 DEF Placed
  <2> QED BY <1>1, <1>5, <1>6, <2>1, <2>2 DEF Placed, Drives, Driving
<1>8. Commanded'
  <2>1. lk["rm"] # "held"
    BY <1>1, <1>6, Types DEF LockInv, OneHolder, Holds
  <2>2. cfg'["rm"] = cfg["rm"]
    BY <1>2, Types DEF Drives
  <2> QED BY <1>1, <1>6, <2>1, <2>2 DEF Commanded, Drives, commands
<1>9. Recorded'
  <2>1. config' = Absent => config = Absent
    BY Types DEF Drives
  <2>2. NoStrandedRunner'
    BY <1>1, <2>1 DEF Recorded, NoStrandedRunner, Drives, commands
  <2>3. config' = Absent /\ "force" \notin waived' => pc'[d] \notin Driving
    BY <1>1, <2>1 DEF Recorded, Drives
  <2> QED BY <1>1, <1>5, <2>1, <2>2, <2>3 DEF Recorded, Drives
<1>10. Marked'
  <2>1. stopped' => NobodyDrives'
    <3> SUFFICES ASSUME stopped', NEW l \in Loops PROVE pc'[l] \notin Driving \cup {"top"}
      BY DEF NobodyDrives
    <3>1. (stopped /\ pc[d] # "ready") \/ pc'[d] = "end"
      BY Zenon DEF Drives
    <3>2. stopped
      BY Zenon DEF Drives
    <3>3. pc[l] \notin Driving \cup {"top"}
      BY <1>1, <3>2 DEF Marked, NobodyDrives
    <3> QED BY <1>5, <3>1, <3>3, Types DEF Drives, Driving
  <2>2. \A l \in Drivers : pc'[l] \in {"fatal", "record"} => l = d /\ pc'[l] = "fatal"
    BY <1>5, Types DEF Drives, Brief, Driving
  <2> QED BY <1>6, <2>1, <2>2, Types DEF Marked
<1> QED BY <1>3, <1>4, <1>7, <1>8, <1>9, <1>10 DEF RInv, LockInv

\* What a pass may go on to.
LEMMA Decisions ==
  ASSUME NEW o, NEW once, NEW stop, NEW removing
  PROVE  /\ NextAction(o, once, stop, removing) \in {"end", "fatal", "mint", "backoff"}
         /\ NextEphemeralAction(o, once, stop, removing) \in {"end", "fatal", "cleanup", "backoff"}
<1>1. NextAction(o, once, stop, removing) \in {"end", "fatal", "mint", "backoff"}
  BY DEF NextAction
<1>2. NextEphemeralAction(o, once, stop, removing) \in {"end", "fatal", "cleanup", "backoff"}
  BY DEF NextEphemeralAction
<1> QED BY <1>1, <1>2

LEMMA DriverTypes ==
  ASSUME TypeOK
  PROVE  /\ pc \in [Drivers -> Phases] /\ cfg \in [Users -> Configs \cup {Absent}]
         /\ out \in [Drivers -> Outcomes] /\ config \in Configs \cup {Absent}
         /\ runner \in 0 .. MaxMints /\ minted \in 0 .. MaxMints /\ trouble \in 0 .. MaxTrouble
         /\ MaxMints \in Nat \ {0} /\ MaxTrouble \in Nat
         /\ pending \in BOOLEAN /\ stopped \in BOOLEAN
         /\ Absent \in [mint : 0 .. MaxMints, ephemeral : BOOLEAN]
         /\ Configs \subseteq [mint : 0 .. MaxMints, ephemeral : BOOLEAN]
BY BoundsAssumption, Types DEF TypeOK

LEMMA TroubleBounded ==
  ASSUME TypeOK, Trouble \/ UNCHANGED trouble
  PROVE  trouble' \in 0 .. MaxTrouble
BY DriverTypes DEF Trouble

LEMMA MintsBounded ==
  ASSUME TypeOK, Registers
  PROVE  minted' \in 1 .. MaxMints /\ runner' = minted' /\ minted' # 0
BY DriverTypes DEF Registers

LEMMA ReadyDrives ==
  ASSUME TypeOK, NEW d \in Drivers, Ready(d)
  PROVE  Drives(d)
<1>1. /\ pc[d] = "ready" /\ pc' = [pc EXCEPT ![d] = pc'[d]] /\ pc'[d] \in {"end", "top"}
      /\ pc'[d] = "end" \/ stopped' = FALSE
  BY DriverTypes DEF Ready, Goto
<1>2. cfg' = [cfg EXCEPT ![d] = cfg'[d]] /\ cfg'[d] \in Configs \cup {Absent}
  BY DriverTypes, Types DEF Ready
<1>3. stopped' = stopped \/ stopped' = FALSE
  BY Zenon DEF Ready
<1> QED BY <1>1, <1>2, <1>3, DriverTypes, TroubleBounded DEF Ready, Drives, Driving, github

LEMMA TopDrives ==
  ASSUME TypeOK, NEW d \in Drivers, Top(d)
  PROVE  Drives(d)
<1>1. /\ pc[d] = "top" /\ pc' = [pc EXCEPT ![d] = pc'[d]]
      /\ pc'[d] = IF config = Absent THEN "fatal" ELSE "session"
  BY DriverTypes DEF Top, Goto
<1>2. cfg' = [cfg EXCEPT ![d] = cfg'[d]] /\ cfg'[d] \in Configs \cup {Absent}
  BY DriverTypes, Types DEF Top
<1> QED BY <1>1, <1>2, DriverTypes, TroubleBounded DEF Top, Drives, Driving, github, disk

LEMMA SessionDrives ==
  ASSUME TypeOK, NEW d \in Drivers, Session(d)
  PROVE  Drives(d)
<1>1. /\ pc[d] = "session" /\ pc' = [pc EXCEPT ![d] = pc'[d]]
      /\ pc'[d] \in {"decide", "job"}
  BY DriverTypes DEF Session, Goto
<1>2. cfg' = [cfg EXCEPT ![d] = cfg'[d]] /\ cfg'[d] \in Configs \cup {Absent}
  BY DriverTypes, Types DEF Session
<1>3. out' \in [Drivers -> Outcomes]
  BY DriverTypes DEF Session, Outcomes
<1>4. runner' \in {runner, 0} /\ trouble' \in 0 .. MaxTrouble
  BY TroubleBounded DEF Session
<1> QED BY <1>1, <1>2, <1>3, <1>4, DriverTypes DEF Session, Drives, Driving, disk

LEMMA JobDrives ==
  ASSUME TypeOK, NEW d \in Drivers, Job(d)
  PROVE  Drives(d)
<1>1. /\ pc[d] = "job" /\ pc' = [pc EXCEPT ![d] = pc'[d]] /\ pc'[d] = "decide"
  BY DriverTypes DEF Job, Goto
<1>2. cfg' = [cfg EXCEPT ![d] = cfg'[d]] /\ cfg'[d] \in Configs \cup {Absent}
  BY DriverTypes, Types DEF Job
<1>3. out' \in [Drivers -> Outcomes] /\ trouble' \in 0 .. MaxTrouble
  BY DriverTypes, TroubleBounded DEF Job, Outcomes
<1> QED BY <1>1, <1>2, <1>3, DriverTypes DEF Job, Drives, Driving, disk, github

LEMMA DecideDrives ==
  ASSUME TypeOK, NEW d \in Drivers, Decide(d)
  PROVE  Drives(d)
<1>1. /\ pc[d] = "decide" /\ pc' = [pc EXCEPT ![d] = pc'[d]]
      /\ pc'[d] \in {"end", "fatal", "mint", "cleanup", "backoff"}
  <2>1. \E x \in {"end", "fatal", "mint", "cleanup", "backoff"} : pc' = [pc EXCEPT ![d] = x]
    <3>1. PICK once : pc' = [pc EXCEPT ![d] =
                        IF cfg[d].ephemeral THEN NextEphemeralAction(out[d], once, Cancelled(d), pending)
                        ELSE NextAction(out[d], once, Cancelled(d), pending)]
      BY Zenon DEF Decide, Goto
    <3>2. CASE cfg[d].ephemeral
      <4>1. pc' = [pc EXCEPT ![d] = NextEphemeralAction(out[d], once, Cancelled(d), pending)]
        BY Zenon, <3>1, <3>2
      <4> QED BY Zenon, <4>1, Decisions
    <3>3. CASE ~cfg[d].ephemeral
      <4>1. pc' = [pc EXCEPT ![d] = NextAction(out[d], once, Cancelled(d), pending)]
        BY Zenon, <3>1, <3>3
      <4> QED BY Zenon, <4>1, Decisions
    <3> QED BY <3>2, <3>3
  <2> QED BY <2>1, DriverTypes DEF Decide
<1>2. cfg' = [cfg EXCEPT ![d] = cfg'[d]] /\ cfg'[d] \in Configs \cup {Absent}
  BY DriverTypes, Types DEF Decide, PassEnds
<1>3. out' \in [Drivers -> Outcomes]
  BY DriverTypes DEF Decide, Outcomes
<1> QED BY <1>1, <1>2, <1>3, DriverTypes, TroubleBounded DEF Decide, Drives, Driving, disk, github

LEMMA MintDrives ==
  ASSUME TypeOK, NEW d \in Drivers, Mint(d)
  PROVE  Drives(d)
<1>1. /\ pc[d] = "mint" /\ pc' = [pc EXCEPT ![d] = pc'[d]]
      /\ pc'[d] \in {"persist", "fatal", "backoff"}
  BY DriverTypes DEF Mint, Goto
<1>2. CASE /\ Registers /\ Goto(d, "persist") /\ UNCHANGED trouble
           /\ cfg' = [cfg EXCEPT ![d].mint = minted']
  <2>1. /\ cfg' = [cfg EXCEPT ![d] = cfg'[d]] /\ cfg'[d].mint = minted'
        /\ cfg'[d] \in [mint : 0 .. MaxMints, ephemeral : BOOLEAN]
    <3> DEFINE c == [cfg[d] EXCEPT !.mint = minted']
    <3>1. cfg[d] \in [mint : 0 .. MaxMints, ephemeral : BOOLEAN]
      BY DriverTypes, Types
    <3>2. c \in [mint : 0 .. MaxMints, ephemeral : BOOLEAN] /\ c.mint = minted'
      BY <1>2, <3>1, DriverTypes, MintsBounded
    <3>3. cfg' = [cfg EXCEPT ![d] = c]
      BY <1>2
    <3> QED BY <3>2, <3>3, DriverTypes, Types
  <2> QED BY <1>1, <1>2, <2>1, Types, DriverTypes, MintsBounded DEF Mint, Drives, Driving, disk
<1>3. CASE RegisterFails /\ PassEnds(d) /\ pc'[d] # "persist"
  <2>1. cfg' = [cfg EXCEPT ![d] = cfg'[d]] /\ cfg'[d] = Absent
    BY <1>3, DriverTypes, Types DEF PassEnds
  <2>2. runner' \in {0, runner} /\ minted' = minted /\ trouble' \in 0 .. MaxTrouble
    BY <1>3, TroubleBounded DEF RegisterFails
  <2> QED BY <1>1, <1>3, <2>1, <2>2, DriverTypes DEF Mint, Drives, Driving, disk
<1>4. \/ Registers /\ Goto(d, "persist") /\ UNCHANGED trouble /\ cfg' = [cfg EXCEPT ![d].mint = minted']
      \/ RegisterFails /\ PassEnds(d) /\ pc'[d] # "persist"
  BY DriverTypes DEF Mint, Goto
<1> QED BY <1>2, <1>3, <1>4

LEMMA PersistDrives ==
  ASSUME TypeOK, Placed, NEW d \in Drivers, Persist(d)
  PROVE  Drives(d)
<1>1. /\ pc[d] = "persist" /\ pc' = [pc EXCEPT ![d] = pc'[d]] /\ pc'[d] \in {"top", "backoff"}
  BY DriverTypes DEF Persist, Goto
<1>2. cfg' = [cfg EXCEPT ![d] = cfg'[d]] /\ cfg'[d] \in Configs \cup {Absent}
  BY DriverTypes, Types DEF Persist, PassEnds
<1>3. cfg[d] \in Configs
  BY <1>1, DriverTypes, Types DEF Placed
<1>4. (config' = config \/ config' \in Configs) /\ trouble' \in 0 .. MaxTrouble
  BY <1>3, TroubleBounded DEF Persist
<1> QED BY <1>1, <1>2, <1>4, DriverTypes DEF Persist, Drives, Driving, github

LEMMA BackoffDrives ==
  ASSUME TypeOK, NEW d \in Drivers, Backoff(d)
  PROVE  Drives(d)
<1>1. /\ pc[d] = "backoff" /\ pc' = [pc EXCEPT ![d] = pc'[d]] /\ pc'[d] \in {"end", "top"}
  BY DriverTypes DEF Backoff, Goto
<1>2. cfg' = [cfg EXCEPT ![d] = cfg'[d]] /\ cfg'[d] \in Configs \cup {Absent}
  BY DriverTypes, Types DEF Backoff
<1> QED BY <1>1, <1>2, DriverTypes, TroubleBounded DEF Backoff, Drives, Driving, disk, github

LEMMA CleanupDrives ==
  ASSUME TypeOK, NEW d \in Drivers, Cleanup(d)
  PROVE  Drives(d)
<1>1. /\ pc[d] = "cleanup" /\ pc' = [pc EXCEPT ![d] = pc'[d]] /\ pc'[d] \in {"wipe", "fatal"}
      /\ (pc'[d] = "wipe" => runner' = 0 \/ "unverified" \in waived')
      /\ waived' \in {waived, waived \cup {"unverified"}}
  BY DriverTypes DEF Cleanup, Goto, Unregisters, SkipsUnregister
<1>2. cfg' = [cfg EXCEPT ![d] = cfg'[d]] /\ cfg'[d] \in Configs \cup {Absent}
  BY DriverTypes, Types DEF Cleanup
<1>3. runner' \in {runner, 0} /\ trouble' \in 0 .. MaxTrouble
  BY TroubleBounded DEF Cleanup, Unregisters, UnregisterFails, SkipsUnregister
<1> QED BY <1>1, <1>2, <1>3, DriverTypes DEF Cleanup, Drives, Driving, disk

\* What a driver may do on its way to the lock.
Walks(d) ==
  /\ UNCHANGED <<disk, cfg, out, cancelled, supervisor, commands, github, trouble, waived>>
  /\ \A v \in Users \ {d} : lk'[v] = lk[v]
  /\ pc' = [pc EXCEPT ![d] = pc'[d]]
  /\ pc'[d] \in {"lock", "wait", "ready", "top", "end", "fatal"}
  /\ pc'[d] = "top" => d = "fg"
  /\ pc'[d] \in {"ready", "top"} => lk'[d] = "held"
  /\ pc'[d] = "lock" => lk'[d] \in Acquiring \cup {"held", "refused"}
  /\ pc'[d] = "wait" => lk'[d] = "refused"
  /\ pc'[d] \in {"end", "fatal"} => lk'[d] \in {"held", "refused", "idle"}
  /\ pc'[d] = "fatal" /\ d \in Loops => lk'[d] = "held" \/ config = Absent

LEMMA WalksOn ==
  ASSUME RInv, NEW d \in Drivers, Quiet(d), Walks(d), LockTypeOK', LockInv'
  PROVE  RInv'
<1>1. TypeOK /\ Placed /\ Commanded /\ Recorded /\ Marked
  BY DEF RInv
<1>2. TypeOK'
  <2>1. pc' \in [Drivers -> Phases]
    BY <1>1, DriverTypes DEF Walks, Phases
  <2> QED BY <1>1, <2>1 DEF TypeOK, Walks, disk, supervisor, commands, github
<1>3. \A e \in Drivers \ {d} : pc'[e] = pc[e] /\ lk'[e] = lk[e] /\ pc[e] \notin Brief
  BY <1>1, DriverTypes, Types DEF Walks, Quiet, Busy
<1>4. Placed'
  BY <1>1, <1>3 DEF Placed, Walks, Driving, github
<1>5. Commanded'
  <2>1. lk'["rm"] = lk["rm"]
    BY Types DEF Walks
  <2> QED BY <1>1, <2>1 DEF Commanded, Walks, commands, github
<1>6. Recorded'
  BY <1>1, <1>3 DEF Recorded, NoStrandedRunner, Walks, Driving, commands, github, disk
<1>7. Marked'
  <2>1. stopped' = stopped /\ config' = config
    BY DEF Walks, disk
  <2>2. d \in Loops => pc'[d] \notin Driving \cup {"top"}
    BY DEF Walks, Driving, Loops
  <2>3. NobodyDrives => NobodyDrives'
    BY <1>3, <2>2, Types DEF NobodyDrives
  <2>4. \A l \in Drivers : pc'[l] \in {"fatal", "record"} => l = d /\ pc'[l] = "fatal"
    BY <1>3, Types DEF Walks, Brief
  <2>5. \A l \in Loops : pc'[l] = "fatal" => lk'[l] = "held" \/ config' = Absent
    BY <2>1, <2>4, Types DEF Walks
  <2>6. stopped' => NobodyDrives'
    <3>1. stopped => NobodyDrives
      BY Zenon, <1>1 DEF Marked
    <3> QED BY Zenon, <2>1, <2>3, <3>1
  <2> QED BY <2>4, <2>5, <2>6 DEF Marked
<1> QED BY <1>2, <1>4, <1>5, <1>6, <1>7 DEF RInv, LockInv

LEMMA LoadStep ==
  ASSUME RInv, NEW d \in Drivers, Quiet(d), Load(d)
  PROVE  RInv'
<1>1. TypeOK /\ LockInv /\ Placed
  BY DEF RInv, LockInv
<1>2. pc[d] = "load" /\ lk[d] = "idle"
  BY <1>1 DEF Load, Placed
<1>3. CASE config = Absent
  <2>1. pc' = [pc EXCEPT ![d] = "fatal"] /\ UNCHANGED lockVars
    BY <1>3 DEF Load, Goto
  <2>2. pc'[d] = "fatal" /\ \A e \in Drivers \ {d} : pc'[e] = pc[e]
    BY <1>1, <2>1, DriverTypes
  <2>3. LockTypeOK' /\ LockInv'
    BY <1>1, <1>2, <2>1, <2>2, Moves DEF lockVars, TypeOK, LockTypeOK
  <2>4. Walks(d)
    BY <1>2, <1>3, <2>1, <2>2 DEF Walks, Load, lockVars
  <2> QED BY <2>3, <2>4, WalksOn
<1>4. CASE config # Absent
  <2>1. /\ pc' = [pc EXCEPT ![d] = "lock"] /\ lk' = [lk EXCEPT ![d] = "open"]
        /\ UNCHANGED <<path, flock, body, aged, fd, seen>>
    BY <1>4 DEF Load, Goto
  <2>2. pc'[d] = "lock" /\ \A e \in Drivers \ {d} : pc'[e] = pc[e]
    BY <1>1, <2>1, DriverTypes
  <2>3. LockTypeOK' /\ LockInv' /\ lk'[d] = "open" /\ \A v \in Users \ {d} : lk'[v] = lk[v]
    BY <1>1, <1>2, <2>1, <2>2, Asks, Types DEF TypeOK, LockTypeOK
  <2>4. Walks(d)
    BY <2>1, <2>2, <2>3 DEF Walks, Load, Acquiring
  <2> QED BY <2>3, <2>4, WalksOn
<1> QED BY <1>3, <1>4

LEMMA LockAnswerStep ==
  ASSUME RInv, NEW d \in Drivers, Quiet(d), LockAnswer(d)
  PROVE  RInv'
<1>1. TypeOK /\ LockInv /\ Placed
  BY DEF RInv, LockInv
<1>2. pc[d] = "lock" /\ lk[d] \in {"held", "refused"}
  BY <1>1, Types DEF LockAnswer, LockInv, Trying
<1>3. /\ pc' = [pc EXCEPT ![d] = pc'[d]]
      /\ pc'[d] = IF lk[d] = "held" THEN IF d = "fg" THEN "top" ELSE "ready"
                  ELSE IF d = "fg" THEN "fatal" ELSE "wait"
  BY <1>1, <1>2, DriverTypes DEF LockAnswer, Goto
<1>4. \A e \in Drivers \ {d} : pc'[e] = pc[e]
  BY <1>1, <1>3, DriverTypes
<1>5. LockTypeOK' /\ LockInv'
  <2>1. seen' \in [Users -> Procs \cup {None}]
    BY <1>1 DEF LockAnswer, TypeOK, LockTypeOK
  <2>2. UNCHANGED <<path, flock, body, aged, lk, fd>>
    BY DEF LockAnswer
  <2>3. LockTypeOK'
    BY <1>1, <2>1, <2>2 DEF TypeOK, LockTypeOK
  <2> QED BY <1>1, <1>2, <1>4, <2>2, <2>3, Moves
<1>6. Walks(d)
  BY <1>2, <1>3 DEF Walks, LockAnswer, Loops
<1> QED BY <1>5, <1>6, WalksOn

LEMMA RetryLockStep ==
  ASSUME RInv, NEW d \in Drivers, Quiet(d), RetryLock(d)
  PROVE  RInv'
<1>1. TypeOK /\ LockInv /\ Placed
  BY DEF RInv, LockInv
<1>2. pc[d] = "wait" /\ lk[d] = "refused"
  BY <1>1 DEF RetryLock, Placed
<1>3. CASE pc' = [pc EXCEPT ![d] = "end"] /\ UNCHANGED lockVars
  <2>1. pc'[d] = "end" /\ \A e \in Drivers \ {d} : pc'[e] = pc[e]
    BY <1>1, <1>3, DriverTypes
  <2>2. LockTypeOK' /\ LockInv'
    BY <1>1, <1>2, <1>3, <2>1, Moves DEF lockVars, TypeOK, LockTypeOK
  <2>3. Walks(d)
    BY <1>2, <1>3, <2>1 DEF Walks, RetryLock, lockVars
  <2> QED BY <2>2, <2>3, WalksOn
<1>4. CASE /\ pc' = [pc EXCEPT ![d] = "lock"] /\ lk' = [lk EXCEPT ![d] = "open"]
           /\ UNCHANGED <<path, flock, body, aged, fd, seen>>
  <2>1. pc'[d] = "lock" /\ \A e \in Drivers \ {d} : pc'[e] = pc[e]
    BY <1>1, <1>4, DriverTypes
  <2>2. LockTypeOK' /\ LockInv' /\ lk'[d] = "open" /\ \A v \in Users \ {d} : lk'[v] = lk[v]
    BY <1>1, <1>2, <1>4, <2>1, Asks, Types DEF TypeOK, LockTypeOK
  <2>3. Walks(d)
    BY <1>4, <2>1, <2>2 DEF Walks, RetryLock, Acquiring
  <2> QED BY <2>2, <2>3, WalksOn
<1> QED BY <1>3, <1>4 DEF RetryLock, Goto

\* While one driver has the lock nobody else drives.
LEMMA HolderDrives ==
  ASSUME RInv, NEW u \in Users, Holds(u), NEW d \in Drivers, d # u
  PROVE  pc[d] \notin Driving \cup {"ready", "top", "wipe"}
BY Types DEF RInv, Placed, OneHolder, Holds

LEMMA WipeStep ==
  ASSUME RInv, NEW d \in Drivers, Quiet(d), Wipe(d)
  PROVE  RInv'
<1>1. TypeOK /\ LockInv /\ Placed /\ Commanded /\ Recorded /\ Marked
  BY DEF RInv, LockInv
<1>2. pc[d] = "wipe" /\ lk[d] = "held" /\ Holds(d) /\ (runner = 0 \/ "unverified" \in waived)
  BY <1>1 DEF Wipe, Placed, Holds
<1>3. /\ pc' = [pc EXCEPT ![d] = pc'[d]] /\ pc'[d] \in {"end", "fatal"} /\ lk' = lk /\ cfg' = cfg
      /\ \A e \in Drivers \ {d} : pc'[e] = pc[e]
  BY <1>1, DriverTypes DEF Wipe, Goto, disk
<1>4. /\ UNCHANGED <<flock, body, aged, lk, fd, seen, cfg, out, cancelled, supervisor, commands,
                     github, trouble, waived>>
      /\ config' = Absent /\ path' \in {path, 0}
      /\ pending' \in BOOLEAN /\ (stopped' = stopped \/ stopped' = FALSE)
  <2>1. pending' = pending \/ pending' = FALSE
    BY Zenon DEF Wipe, disk
  <2>2. stopped' = stopped \/ stopped' = FALSE
    BY Zenon DEF Wipe, disk
  <2>3. pending' \in BOOLEAN
    BY Zenon, <1>1, <2>1, DriverTypes
  <2> QED BY <2>2, <2>3 DEF Wipe, disk
<1>5. TypeOK'
  <2>1. LockTypeOK'
    BY <1>1, <1>4 DEF TypeOK, LockTypeOK
  <2>2. pc' \in [Drivers -> Phases]
    BY <1>1, <1>3, DriverTypes DEF Phases
  <2>3. stopped' \in BOOLEAN
    BY Zenon, <1>1, <1>4, DriverTypes
  <2> QED BY <1>1, <1>4, <2>1, <2>2, <2>3 DEF TypeOK, supervisor, commands, github
<1>6. LockInv'
  <2>1. \A v \in Users : Holds(v)' => v = d
    BY <1>1, <1>2, <1>4, Types DEF LockInv, OneHolder, Holds
  <2>2. \A v \in Users : Busy(v)' => v = d
    BY <1>3, <1>4 DEF Quiet, Busy
  <2>3. Leaving(d)'
    BY <1>3 DEF Leaving
  <2>4. Gripped'
    BY <1>1, <1>4, <2>1, <2>3 DEF LockInv, Gripped, Holds
  <2>5. Trying'
    BY <1>1, <1>2, <1>4, <2>2 DEF LockInv, Trying, Busy, Acquiring
  <2> QED BY <2>1, <2>2, <2>4, <2>5 DEF LockInv, Serial, OneHolder
<1>7. Placed'
  BY <1>1, <1>2, <1>3, <1>4 DEF Placed, Driving, github
<1>8. Commanded'
  BY <1>1, <1>2, <1>4 DEF Commanded, github, commands
<1>9. \A e \in Drivers : pc'[e] \notin Driving \cup {"top"}
  BY <1>2, <1>3, HolderDrives, Types DEF Driving
<1>10. Recorded'
  BY <1>2, <1>4, <1>9 DEF Recorded, NoStrandedRunner, github
<1>11. Marked'
  BY <1>4, <1>9, Types DEF Marked, NobodyDrives
<1> QED BY <1>5, <1>6, <1>7, <1>8, <1>10, <1>11 DEF RInv, LockInv

LEMMA EndStep ==
  ASSUME RInv, NEW d \in Drivers, Quiet(d), End(d)
  PROVE  RInv'
<1>1. TypeOK /\ LockInv /\ Placed /\ Commanded /\ Recorded /\ Marked
  BY DEF RInv, LockInv
<1>2. pc[d] \in {"end", "fatal"} /\ lk[d] \in {"held", "refused", "idle"}
  BY <1>1 DEF End, Placed
<1>3. /\ pc' = [pc EXCEPT ![d] = pc'[d]] /\ pc'[d] \in {"off", "record", "done"}
      /\ pc'[d] = "record" => pc[d] = "fatal" /\ d \in Loops
      /\ \A e \in Drivers \ {d} : pc'[e] = pc[e]
  BY <1>1, DriverTypes DEF End, Goto, Loops, Drivers
<1>4. LockTypeOK' /\ LockInv' /\ lk'[d] = "idle" /\ \A v \in Users \ {d} : lk'[v] = lk[v]
  BY <1>1, <1>2, <1>3, Releases, Types DEF End
<1>5. /\ UNCHANGED <<disk, supervisor, commands, github, trouble, waived>>
      /\ cfg' = [cfg EXCEPT ![d] = Absent] /\ out' = [out EXCEPT ![d] = "none"]
      /\ cancelled' \subseteq cancelled
  BY DEF End
<1>6. TypeOK'
  <2>1. pc' \in [Drivers -> Phases]
    BY <1>1, <1>3, DriverTypes DEF Phases
  <2>2. /\ cfg' \in [Users -> Configs \cup {Absent}] /\ cfg'["rm"] = cfg["rm"]
        /\ out' \in [Drivers -> Outcomes]
    BY <1>1, <1>5, DriverTypes, Types DEF Outcomes
  <2> QED BY <1>1, <1>4, <1>5, <2>1, <2>2 DEF TypeOK, disk, supervisor, commands, github
<1>7. \A e \in Drivers \ {d} : pc[e] \notin Brief /\ lk'[e] = lk[e] /\ cfg'[e] = cfg[e]
  BY <1>1, <1>4, <1>5, DriverTypes, Types DEF Quiet, Busy
<1>8. Placed'
  BY <1>1, <1>3, <1>4, <1>5, <1>7 DEF Placed, Driving, github, Brief
<1>9. Commanded'
  <2>1. lk'["rm"] = lk["rm"] /\ cfg'["rm"] = cfg["rm"]
    BY <1>1, <1>4, <1>5, DriverTypes, Types
  <2> QED BY <1>1, <1>5, <2>1 DEF Commanded, commands, github
<1>10. Recorded'
  BY <1>1, <1>3, <1>5 DEF Recorded, NoStrandedRunner, disk, github, commands, Driving
<1>11. Marked'
  <2>1. NobodyDrives => NobodyDrives'
    BY <1>3, Types DEF NobodyDrives, Driving
  <2>2. pc[d] = "fatal" /\ d \in Loops /\ config # Absent => NobodyDrives'
    <3> SUFFICES ASSUME pc[d] = "fatal", d \in Loops, config # Absent PROVE NobodyDrives'
      OBVIOUS
    <3>1. Holds(d)
      BY <1>1 DEF Marked, Holds
    <3> QED BY <1>3, <3>1, HolderDrives, Types DEF NobodyDrives, Driving
  <2>3. \A l \in Drivers : pc'[l] \in {"fatal", "record"} => l = d /\ pc'[l] = "record"
    BY <1>3, <1>7, Types DEF Brief
  <2>4. stopped' => NobodyDrives'
    <3>1. stopped' = stopped /\ (stopped => NobodyDrives)
      BY Zenon, <1>1, <1>5 DEF Marked, disk
    <3> QED BY Zenon, <2>1, <3>1
  <2> QED BY <1>3, <1>5, <2>2, <2>3, <2>4, Types DEF Marked, disk
<1> QED BY <1>4, <1>6, <1>8, <1>9, <1>10, <1>11 DEF RInv, LockInv

LEMMA RecordStopStep ==
  ASSUME RInv, NEW d \in Drivers, Quiet(d), RecordStop(d)
  PROVE  RInv'
<1>1. TypeOK /\ LockInv /\ Placed /\ Commanded /\ Recorded /\ Marked
  BY DEF RInv, LockInv
<1>2. /\ pc[d] = "record" /\ pc'[d] = "done" /\ pc' = [pc EXCEPT ![d] = pc'[d]]
      /\ \A e \in Drivers \ {d} : pc'[e] = pc[e] /\ pc[e] \notin Brief
  BY <1>1, DriverTypes, Types DEF RecordStop, Goto, Quiet, Busy
<1>3. /\ UNCHANGED <<lockVars, config, pending, cfg, out, cancelled, supervisor, commands, github,
                     trouble, waived>>
      /\ (config = Absent /\ stopped' = stopped) \/ (config # Absent /\ stopped' = TRUE)
  <2>1. stopped' = IF config = Absent THEN stopped ELSE TRUE
    BY Zenon DEF RecordStop
  <2>2. (config = Absent /\ stopped' = stopped) \/ (config # Absent /\ stopped' = TRUE)
    <3>1. CASE config = Absent
      BY Zenon, <2>1, <3>1
    <3>2. CASE config # Absent
      BY Zenon, <2>1, <3>2
    <3> QED BY Zenon, <3>1, <3>2
  <2> QED BY <2>2 DEF RecordStop
<1>4. LockInv'
  BY <1>1, <1>2, <1>3, Moves DEF lockVars
<1>5. TypeOK'
  <2>1. LockTypeOK' /\ pc' \in [Drivers -> Phases]
    BY <1>1, <1>2, <1>3, DriverTypes DEF TypeOK, LockTypeOK, lockVars, Phases
  <2>2. stopped' \in BOOLEAN
    BY Zenon, <1>1, <1>3, DriverTypes
  <2> QED BY <1>1, <1>3, <2>1, <2>2 DEF TypeOK, supervisor, commands, github
<1>6. Placed' /\ Commanded' /\ Recorded'
  <2>1. Placed'
    BY <1>1, <1>2, <1>3 DEF Placed, lockVars, github, Driving
  <2>2. Commanded'
    BY <1>1, <1>3 DEF Commanded, lockVars, commands, github
  <2>3. Recorded'
    BY <1>1, <1>2, <1>3 DEF Recorded, NoStrandedRunner, github, commands, Driving
  <2> QED BY <2>1, <2>2, <2>3
<1>7. Marked'
  <2>1. NobodyDrives => NobodyDrives'
    BY <1>2, Types DEF NobodyDrives, Driving
  <2>2. \A l \in Drivers : pc'[l] \notin {"fatal", "record"}
    BY <1>2, Types DEF Brief
  <2>3. config = Absent \/ NobodyDrives
    BY <1>1, <1>2 DEF Marked
  <2>4. stopped' => NobodyDrives'
    <3>1. stopped => NobodyDrives
      BY Zenon, <1>1 DEF Marked
    <3> QED BY Zenon, <1>3, <2>1, <2>3, <3>1
  <2> QED BY <2>2, <2>4, Types DEF Marked
<1> QED BY <1>4, <1>5, <1>6, <1>7 DEF RInv, LockInv

LEMMA DriverSteps ==
  ASSUME RInv, NEW d \in Drivers, Quiet(d), DriverStep(d)
  PROVE  RInv'
<1>1. TypeOK /\ Placed
  BY DEF RInv
<1>2. CASE Load(d) \/ LockAnswer(d) \/ RetryLock(d)
  BY <1>2, LoadStep, LockAnswerStep, RetryLockStep
<1>3. CASE Ready(d) \/ Top(d) \/ Session(d) \/ Job(d) \/ Decide(d)
  BY <1>1, <1>3, DrivesOn, ReadyDrives, TopDrives, SessionDrives, JobDrives, DecideDrives
<1>4. CASE Mint(d) \/ Persist(d) \/ Backoff(d) \/ Cleanup(d)
  BY <1>1, <1>4, DrivesOn, MintDrives, PersistDrives, BackoffDrives, CleanupDrives
<1>5. CASE Wipe(d) \/ End(d) \/ RecordStop(d)
  BY <1>5, WipeStep, EndStep, RecordStopStep
<1> QED BY <1>2, <1>3, <1>4, <1>5 DEF DriverStep

-----------------------------------------------------------------------------
(* The lock, the supervisor and the commands                               *)

LEMMA LockSteps ==
  ASSUME RInv, NEW u \in Users, Quiet(u), LockStep(u)
  PROVE  RInv'
<1>1. TypeOK /\ LockInv /\ Placed /\ Commanded /\ Recorded /\ Marked
  BY DEF RInv, LockInv
<1>2. /\ AcquireStep(u, Alive) /\ pc' = pc /\ cfg' = cfg /\ out' = out
      /\ UNCHANGED <<disk, cancelled, supervisor, commands, github, trouble, waived>>
  BY DEF LockStep, drivers
<1>3. /\ LockTypeOK' /\ LockInv' /\ lk[u] \in Acquiring
      /\ lk'[u] \in Acquiring \cup {"held", "refused"}
      /\ \A v \in Users \ {u} : lk'[v] = lk[v]
  BY <1>1, <1>2, StepAcquires
<1>4. CASE u \in Drivers
  <2>1. pc[u] = "lock"
    <3>1. pc[u] \in Phases
      BY <1>1, <1>4, DriverTypes
    <3> QED BY <1>1, <1>3, <1>4, <3>1 DEF Placed, Phases, Driving, Acquiring
  <2>2. Walks(u)
    BY <1>1, <1>2, <1>3, <2>1, DriverTypes DEF Walks
  <2> QED BY <1>3, <1>4, <2>2, WalksOn
<1>5. CASE u \notin Drivers
  <2>1. u = "rm" /\ rm \in {"lock", "wait"}
    <3>1. u = "rm"
      BY <1>5 DEF Drivers
    <3> QED BY <1>1, <1>3, <3>1 DEF Commanded, TypeOK, Acquiring
  <2>2. TypeOK'
    BY <1>1, <1>2, <1>3 DEF TypeOK, disk, supervisor, commands, github
  <2>3. \A d \in Drivers : lk'[d] = lk[d]
    BY <1>3, <1>5, Types
  <2>4. Placed'
    BY <1>1, <1>2, <2>3 DEF Placed, github
  <2>5. Commanded'
    BY <1>1, <1>2, <1>3, <2>1 DEF Commanded, commands, github
  <2>6. Recorded'
    BY <1>1, <1>2 DEF Recorded, NoStrandedRunner, disk, commands, github
  <2>7. NobodyDrives' <=> NobodyDrives
    BY <1>2 DEF NobodyDrives
  <2>8. stopped' => NobodyDrives'
    <3>1. stopped' = stopped /\ (stopped => NobodyDrives)
      BY Zenon, <1>1, <1>2 DEF Marked, disk
    <3> QED BY Zenon, <2>7, <3>1
  <2>9. Marked'
    BY <1>1, <1>2, <2>3, <2>7, <2>8, Types DEF Marked, disk
  <2> QED BY <1>3, <2>2, <2>4, <2>5, <2>6, <2>9 DEF RInv, LockInv
<1> QED BY <1>4, <1>5

\* What a command, the supervisor or the operator may do beside the drivers.
LEMMA BesideDrivers ==
  ASSUME RInv, Quiet("rm"), TypeOK', LockInv', pc' = pc,
         \A d \in Drivers : lk'[d] = lk[d] /\ cfg'[d] = cfg[d],
         Commanded', NoStrandedRunner', stopped' => stopped,
         config' = Absent /\ "force" \notin waived' =>
           (config = Absent /\ "force" \notin waived) \/ \A d \in Drivers : pc[d] \notin Driving
  PROVE  RInv'
<1>1. Placed /\ Recorded /\ Marked
  BY DEF RInv
<1>2. \A d \in Drivers : pc[d] \notin Brief
  BY Types DEF Quiet, Busy
<1>3. Placed'
  BY <1>1, <1>2 DEF Placed, Brief
<1>4. Recorded'
  BY <1>1 DEF Recorded
<1>5. NobodyDrives' <=> NobodyDrives
  BY DEF NobodyDrives
<1>6. stopped' => NobodyDrives'
  <2>1. stopped => NobodyDrives
    BY Zenon, <1>1 DEF Marked
  <2> QED BY Zenon, <1>5, <2>1
<1>7. Marked'
  BY <1>2, <1>6, Types DEF Marked, Brief
<1> QED BY <1>3, <1>4, <1>7 DEF RInv, LockInv

\* A user that is not busy lets everybody act.
LEMMA QuietForAll ==
  ASSUME Quiet(None), NEW u
  PROVE  Quiet(u)
BY Types DEF Quiet

\* Nothing of the lock, the files, the drivers or GitHub changes.
LEMMA Aside ==
  ASSUME RInv, Quiet(None), TypeOK', UNCHANGED <<lockVars, disk, drivers, runner, waived, rm>>,
         reg = "save" => reg' = "save" /\ wanted' = wanted,
         reg' # "off" => reg # "off" \/ rm = "off", reg' = "save" => reg = "save"
  PROVE  RInv'
<1>1. TypeOK /\ LockInv /\ Commanded /\ Recorded
  BY DEF RInv, LockInv
<1>2. LockInv' /\ pc' = pc /\ cfg' = cfg /\ lk' = lk /\ config' = config
  BY <1>1, Moves DEF lockVars, drivers, disk
<1>3. stopped' => stopped
  BY Zenon DEF disk
<1>4. Commanded'
  BY <1>1, <1>2 DEF Commanded
<1>5. NoStrandedRunner'
  BY <1>1, <1>2 DEF Recorded, NoStrandedRunner
<1> QED BY <1>2, <1>3, <1>4, <1>5, QuietForAll, BesideDrivers

LEMMA SupervisorAside ==
  ASSUME RInv, Quiet(None), SupervisorStarts \/ TakeHup \/ ReadScan \/ Shutdown
  PROVE  RInv'
<1>1. TypeOK
  BY DEF RInv
<1>2. /\ UNCHANGED <<lockVars, disk, drivers, cancelled, commands, github, waived>>
      /\ drained' = drained
  BY DEF SupervisorStarts, TakeHup, ReadScan, Shutdown
<1>3. /\ sup' \in {"scan", "apply", "serve", "stop"} /\ cur' \in Loops \cup {None}
      /\ retired' \subseteq Loops
  BY <1>1 DEF TypeOK, SupervisorStarts, TakeHup, ReadScan, Shutdown
<1>4. hup' \in BOOLEAN
  <2>1. hup' = FALSE \/ hup' = hup
    BY Zenon DEF SupervisorStarts, TakeHup, ReadScan, Shutdown
  <2>2. hup \in BOOLEAN
    BY Zenon, <1>1 DEF TypeOK
  <2> QED BY Zenon, <2>1, <2>2
<1>5. trouble' \in 0 .. MaxTrouble
  BY <1>1, TroubleBounded DEF SupervisorStarts, TakeHup, ReadScan, Shutdown
<1>6. scan' \in [entry : BOOLEAN, pending : BOOLEAN, departing : BOOLEAN]
  <2>1. scan \in [entry : BOOLEAN, pending : BOOLEAN, departing : BOOLEAN]
    BY <1>1 DEF TypeOK
  <2>2. CASE ReadScan
    <3>1. pending \in BOOLEAN
      BY Zenon, <1>1 DEF TypeOK
    <3>2. (cur # None /\ (config = Absent \/ pending)) \in BOOLEAN /\ (config # Absent) \in BOOLEAN
      OBVIOUS
    <3>3. \A a, b, c \in BOOLEAN : [entry |-> a, pending |-> b, departing |-> c]
                                     \in [entry : BOOLEAN, pending : BOOLEAN, departing : BOOLEAN]
      OBVIOUS
    <3>4. [entry |-> config # Absent, pending |-> pending,
           departing |-> cur # None /\ (config = Absent \/ pending)]
            \in [entry : BOOLEAN, pending : BOOLEAN, departing : BOOLEAN]
      BY Zenon, <3>1, <3>2, <3>3
    <3> QED BY Zenon, <2>1, <2>2, <3>4 DEF ReadScan
  <2>3. CASE SupervisorStarts \/ TakeHup \/ Shutdown
    BY <2>1, <2>3 DEF SupervisorStarts, TakeHup, Shutdown
  <2> QED BY <2>2, <2>3
<1>7. TypeOK'
  <2>1. LockTypeOK'
    BY <1>1, <1>2 DEF TypeOK, LockTypeOK, lockVars
  <2> QED BY <1>1, <1>2, <1>3, <1>4, <1>5, <1>6, <2>1 DEF TypeOK, disk, drivers, commands, github
<1> QED BY <1>2, <1>7, Aside DEF commands, github

LEMMA SignalStep ==
  ASSUME RInv, Quiet(None), NEW p \in {"supervisor", "fg"}, Signal(p)
  PROVE  RInv'
<1>1. TypeOK
  BY DEF RInv
<1>2. trouble' \in 0 .. MaxTrouble
  BY <1>1, TroubleBounded DEF Signal
<1>3. TypeOK'
  BY <1>1, <1>2 DEF Signal, TypeOK, LockTypeOK, lockVars, disk, drivers, supervisor, commands, github
<1> QED BY <1>3, Aside DEF Signal, commands, github

LEMMA RegisterAside ==
  ASSUME Overlap = FALSE, RInv, Quiet(None), RegisterStarts \/ RegisterNotifies
  PROVE  RInv'
<1>1. TypeOK
  BY DEF RInv
<1>2. CASE RegisterStarts
  <2>1. wanted' \in [mint : 0 .. MaxMints, ephemeral : BOOLEAN]
    BY <1>2, Types DEF RegisterStarts, Absent
  <2>2. TypeOK'
    BY <1>1, <1>2, <2>1
       DEF RegisterStarts, TypeOK, LockTypeOK, lockVars, disk, drivers, supervisor, github
  <2> QED BY <1>2, <2>2, Aside DEF RegisterStarts, CommandFree, github
<1>3. CASE RegisterNotifies
  <2>1. hup' \in BOOLEAN
    BY Zenon, <1>3 DEF RegisterNotifies, Notify
  <2>2. TypeOK'
    BY <1>1, <1>3, <2>1
       DEF RegisterNotifies, TypeOK, LockTypeOK, lockVars, disk, drivers, github
  <2> QED BY <1>3, <2>2, Aside DEF RegisterNotifies, github
<1> QED BY <1>2, <1>3

\* A loop, or a foreground run, is started.
LEMMA Starts ==
  ASSUME RInv, Quiet(None), NEW d \in Drivers, pc[d] \in {"off", "done"},
         pc' = [pc EXCEPT ![d] = "load"], TypeOK',
         UNCHANGED <<lockVars, disk, cfg, out, commands, github, waived>>
  PROVE  RInv'
<1>1. TypeOK /\ LockInv /\ Placed /\ Commanded /\ Recorded /\ Marked
  BY DEF RInv, LockInv
<1>2. pc'[d] = "load" /\ \A e \in Drivers \ {d} : pc'[e] = pc[e]
  BY <1>1, DriverTypes
<1>3. LockInv' /\ lk' = lk
  BY <1>1, <1>2, QuietForAll, Moves DEF lockVars
<1>4. Placed'
  BY <1>1, <1>2, <1>3 DEF Placed, Driving, github
<1>5. Commanded'
  BY <1>1, <1>3 DEF Commanded, commands, github
<1>6. Recorded'
  BY <1>1, <1>2 DEF Recorded, NoStrandedRunner, disk, commands, github, Driving
<1>7. Marked'
  <2>1. NobodyDrives => NobodyDrives'
    BY <1>2, Types DEF NobodyDrives, Driving
  <2>2. \A e \in Drivers : pc'[e] \notin {"fatal", "record"}
    BY <1>2, Types DEF Quiet, Busy, Brief
  <2>3. stopped' => NobodyDrives'
    <3>1. stopped' = stopped /\ (stopped => NobodyDrives)
      BY Zenon, <1>1 DEF Marked, disk
    <3> QED BY Zenon, <2>1, <3>1
  <2> QED BY <2>2, <2>3, Types DEF Marked
<1> QED BY <1>3, <1>4, <1>5, <1>6, <1>7 DEF RInv, LockInv

LEMMA ForegroundStep ==
  ASSUME RInv, Quiet(None), ForegroundStarts
  PROVE  RInv'
<1>1. TypeOK
  BY DEF RInv
<1>2. pc["fg"] = "off" /\ "fg" \in Drivers /\ pc' = [pc EXCEPT !["fg"] = "load"]
  BY DEF ForegroundStarts, Goto
<1>3. trouble' \in 0 .. MaxTrouble
  BY <1>1, TroubleBounded DEF ForegroundStarts
<1>4. pc' \in [Drivers -> Phases]
  BY <1>1, <1>2, DriverTypes DEF Phases
<1>5. TypeOK'
  BY <1>1, <1>3, <1>4
     DEF ForegroundStarts, TypeOK, LockTypeOK, lockVars, disk, supervisor, commands, github
<1> QED BY <1>2, <1>5, Starts DEF ForegroundStarts

LEMMA ApplyScanStep ==
  ASSUME RInv, Quiet(None), ApplyScan
  PROVE  RInv'
<1> DEFINE leaving == IF scan.departing /\ cur # None THEN {cur} ELSE {}
           spawn == scan.entry /\ ~scan.pending /\ (cur = None \/ cur \in drained \cup leaving)
           free == {l \in Loops : pc[l] \in {"off", "done"}} \ ({cur} \cup retired)
           l == CHOOSE x \in free : TRUE
<1>1. TypeOK
  BY DEF RInv
<1>2. /\ UNCHANGED <<lockVars, disk, cfg, out, cancelled, hup, commands, github, trouble, waived>>
      /\ sup' = "serve" /\ scan' = NoScan
      /\ \/ /\ free # {} /\ cur' = l /\ pc' = [pc EXCEPT ![l] = "load"]
            /\ retired' = retired \cup ({cur} \ {None})
            /\ drained' = (drained \cup leaving) \ {l}
         \/ drained' = drained \cup leaving /\ UNCHANGED <<cur, pc, retired>>
  <2>1. CASE spawn
    BY Zenon, <2>1 DEF ApplyScan, Goto
  <2>2. CASE ~spawn
    BY Zenon, <2>2 DEF ApplyScan, Goto
  <2> QED BY <2>1, <2>2
<1>3. leaving \subseteq Loops
  BY <1>1 DEF TypeOK
<1>4. free # {} => l \in Loops /\ pc[l] \in {"off", "done"}
  <2>1. free # {} => l \in free
    OBVIOUS
  <2> QED BY <2>1
<1>5. NoScan \in [entry : BOOLEAN, pending : BOOLEAN, departing : BOOLEAN]
  BY DEF NoScan
<1>6. TypeOK'
  <2>1. LockTypeOK'
    BY <1>1, <1>2 DEF TypeOK, LockTypeOK, lockVars
  <2>2. /\ pc' \in [Drivers -> Phases] /\ cur' \in Loops \cup {None}
        /\ drained' \subseteq Loops /\ retired' \subseteq Loops
    <3> HIDE DEF leaving, free, l
    <3>1. /\ pc \in [Drivers -> Phases] /\ cur \in Loops \cup {None}
          /\ drained \subseteq Loops /\ retired \subseteq Loops
      BY <1>1 DEF TypeOK
    <3> QED BY <1>2, <1>3, <1>4, <3>1, Types DEF Phases
  <2>3. hup' \in BOOLEAN
    <3>1. hup' = hup /\ hup \in BOOLEAN
      BY Zenon, <1>1, <1>2 DEF TypeOK
    <3> QED BY Zenon, <3>1
  <2>4. /\ sup' \in {"down", "scan", "apply", "serve", "stop"}
        /\ UNCHANGED <<lockVars, disk, cfg, out, cancelled, commands, github, trouble, waived>>
    BY <1>2
  <2>5. scan' \in [entry : BOOLEAN, pending : BOOLEAN, departing : BOOLEAN]
    BY <1>2, <1>5
  <2> HIDE DEF leaving, free, l
  <2> QED BY <1>1, <2>1, <2>2, <2>3, <2>4, <2>5 DEF TypeOK, disk, commands, github
<1>7. CASE free # {} /\ pc' = [pc EXCEPT ![l] = "load"]
  <2> HIDE DEF l, free
  <2> QED BY <1>2, <1>4, <1>6, <1>7, Starts, Types
<1>8. CASE UNCHANGED pc
  <2>1. UNCHANGED <<lockVars, disk, cfg, out, commands, github, waived>>
    BY <1>2
  <2> HIDE DEF l, free, leaving
  <2> QED BY <1>6, <1>8, <2>1, Aside DEF drivers, commands, github
<1> QED BY <1>2, <1>7, <1>8

\* The supervisor's process ends, or is killed.
LEMMA SupervisorGoes ==
  ASSUME RInv, Quiet(None), Exit \/ Crash
  PROVE  RInv'
<1>1. TypeOK /\ LockInv /\ Placed /\ Commanded /\ Recorded /\ Marked
  BY DEF RInv, LockInv
<1>2. /\ Vanish(Loops) /\ UNCHANGED <<disk, commands, github, waived>>
      /\ pc' = [d \in Drivers |-> IF d \in Loops THEN "off" ELSE pc[d]]
      /\ sup' = "down" /\ hup' = FALSE /\ cur' = None /\ drained' = {} /\ retired' = {}
      /\ cancelled' = cancelled \ {"supervisor"}
      /\ scan' = scan \/ scan' = NoScan
      /\ cfg' = cfg \/ cfg' = [u \in Users |-> IF u \in Loops THEN Absent ELSE cfg[u]]
      /\ out' = out \/ out' = [d \in Drivers |-> IF d \in Loops THEN "none" ELSE out[d]]
  BY DEF Exit, Crash
<1>3. /\ LockTypeOK' /\ LockInv'
      /\ \A u \in Users : lk'[u] = IF u \in Loops THEN "idle" ELSE lk[u]
  BY <1>1, <1>2, Vanishes
<1>4. \A d \in Drivers : pc'[d] = IF d \in Loops THEN "off" ELSE pc[d]
  BY <1>2
<1>5. \A u \in Users \ Loops : cfg'[u] = cfg[u]
  BY <1>2
<1>6. \A d \in Drivers \ Loops : lk'[d] = lk[d] /\ cfg'[d] = cfg[d]
  BY <1>3, <1>5, Types
<1>7. lk'["rm"] = lk["rm"] /\ cfg'["rm"] = cfg["rm"]
  BY <1>3, <1>5, Types DEF Loops
<1>8. TypeOK'
  <2>1. pc' \in [Drivers -> Phases]
    BY <1>1, <1>2, DriverTypes DEF Phases
  <2>2. cfg' \in [Users -> Configs \cup {Absent}]
    BY <1>1, <1>2, DriverTypes
  <2>3. out' \in [Drivers -> Outcomes]
    BY <1>1, <1>2, DriverTypes DEF Outcomes
  <2>4. scan' \in [entry : BOOLEAN, pending : BOOLEAN, departing : BOOLEAN]
    <3>1. scan \in [entry : BOOLEAN, pending : BOOLEAN, departing : BOOLEAN]
      BY <1>1 DEF TypeOK
    <3>2. NoScan \in [entry : BOOLEAN, pending : BOOLEAN, departing : BOOLEAN]
      BY DEF NoScan
    <3> QED BY Zenon, <1>2, <3>1, <3>2
  <2>5. trouble' \in 0 .. MaxTrouble
    BY <1>1, TroubleBounded DEF Exit, Crash
  <2>6. hup' \in BOOLEAN
    BY Zenon, <1>2
  <2> QED BY <1>1, <1>2, <1>3, <1>7, <2>1, <2>2, <2>3, <2>4, <2>5, <2>6
          DEF TypeOK, disk, commands, github
<1>9. Placed'
  BY <1>1, <1>2, <1>3, <1>4, <1>6, Types DEF Placed, Driving, github
<1>10. Commanded'
  BY <1>1, <1>2, <1>7 DEF Commanded, commands, github
<1>11. Recorded'
  BY <1>1, <1>2, <1>4 DEF Recorded, NoStrandedRunner, disk, commands, github, Driving
<1>12. Marked'
  <2>1. \A l \in Loops : pc'[l] = "off"
    BY <1>4, Types
  <2>2. NobodyDrives'
    BY <2>1 DEF NobodyDrives, Driving
  <2>3. \A d \in Drivers : pc'[d] \notin {"record"}
    BY <1>4, Types DEF Quiet, Busy, Brief
  <2> QED BY <2>1, <2>2, <2>3 DEF Marked
<1> QED BY <1>3, <1>8, <1>9, <1>10, <1>11, <1>12 DEF RInv, LockInv

LEMMA RegisterMintsStep ==
  ASSUME RInv, Quiet(None), RegisterMints
  PROVE  RInv'
<1>1. TypeOK /\ LockInv /\ Commanded /\ Recorded
  BY DEF RInv, LockInv
<1>2. /\ UNCHANGED <<lockVars, disk, drivers, cancelled, supervisor, rm, force, waived>>
      /\ reg = "mint" /\ rm = "off"
  BY <1>1 DEF RegisterMints, Commanded, TypeOK
<1>3. LockInv' /\ pc' = pc /\ cfg' = cfg /\ lk' = lk /\ config' = config
  BY <1>1, <1>2, Moves DEF lockVars, drivers, disk
<1>4. \/ /\ reg' = "save" /\ wanted' \in Configs /\ UNCHANGED trouble
         /\ runner' \in 0 .. MaxMints /\ minted' \in 0 .. MaxMints
      \/ /\ reg' = "off" /\ wanted' = Absent /\ trouble' \in 0 .. MaxTrouble
         /\ runner' \in {0, runner} /\ minted' = minted
  <2>1. CASE /\ Registers /\ reg' = "save" /\ UNCHANGED trouble
             /\ wanted' = [wanted EXCEPT !.mint = minted']
    <3>1. minted' \in 1 .. MaxMints /\ runner' = minted'
      BY <1>1, <2>1, MintsBounded
    <3>2. wanted' \in Configs
      BY <1>1, <2>1, <3>1 DEF TypeOK, Configs
    <3> QED BY <1>1, <2>1, <3>1, <3>2, DriverTypes
  <2>2. CASE RegisterFails /\ reg' = "off" /\ wanted' = Absent
    BY <1>1, <2>2, TroubleBounded DEF RegisterFails
  <2> QED BY <2>1, <2>2 DEF RegisterMints
<1>5. TypeOK'
  BY <1>1, <1>2, <1>4, DriverTypes
     DEF TypeOK, LockTypeOK, lockVars, disk, drivers, supervisor
<1>6. Commanded'
  BY <1>1, <1>2, <1>3, <1>4, Types DEF Commanded
<1>7. NoStrandedRunner'
  BY <1>1, <1>2, <1>3, <1>4 DEF Recorded, NoStrandedRunner
<1>8. stopped' => stopped
  BY Zenon, <1>2 DEF disk
<1> QED BY <1>2, <1>3, <1>5, <1>6, <1>7, <1>8, QuietForAll, BesideDrivers

LEMMA RegisterSavesStep ==
  ASSUME RInv, Quiet(None), RegisterSaves
  PROVE  RInv'
<1>1. TypeOK /\ LockInv /\ Commanded /\ Recorded
  BY DEF RInv, LockInv
<1>2. /\ UNCHANGED <<lockVars, pending, stopped, drivers, cancelled, supervisor, rm, force, github>>
      /\ reg = "save" /\ rm = "off" /\ wanted' = Absent
  BY <1>1 DEF RegisterSaves, Commanded, TypeOK
<1>3. LockInv' /\ pc' = pc /\ cfg' = cfg /\ lk' = lk
  BY <1>1, <1>2, Moves DEF lockVars, drivers
<1>4. wanted \in Configs
  BY <1>1, <1>2, Types DEF Commanded, TypeOK
<1>5. /\ reg' \in {"notify", "off"} /\ waived' \subseteq Waivers
      /\ "force" \in waived => "force" \in waived'
      /\ trouble' \in 0 .. MaxTrouble
      /\ config' = wanted \/ (config' = config /\ "runner" \in waived')
  BY <1>1, TroubleBounded DEF RegisterSaves, TypeOK, Waivers
<1>6. TypeOK'
  BY <1>1, <1>2, <1>4, <1>5, DriverTypes
     DEF TypeOK, LockTypeOK, lockVars, drivers, supervisor, github
<1>7. Commanded'
  BY <1>1, <1>2, <1>3, <1>5 DEF Commanded
<1>8. NoStrandedRunner'
  BY <1>4, <1>5, Types DEF NoStrandedRunner
<1>9. stopped' => stopped
  BY Zenon, <1>2
<1>10. config' = Absent => config = Absent
  BY <1>4, <1>5, Types
<1> QED BY <1>3, <1>5, <1>6, <1>7, <1>8, <1>9, <1>10, QuietForAll, BesideDrivers

-----------------------------------------------------------------------------
(* The command remove                                                      *)

LEMMA RemoveStartsStep ==
  ASSUME Overlap = FALSE, RInv, Quiet(None), RemoveStarts
  PROVE  RInv'
<1>1. TypeOK /\ LockInv /\ Commanded /\ Recorded
  BY DEF RInv, LockInv
<1>2. /\ rm = "off" /\ reg = "off" /\ rm' = "lock" /\ config # Absent
      /\ cfg' = [cfg EXCEPT !["rm"] = config] /\ lk' = [lk EXCEPT !["rm"] = "open"]
      /\ UNCHANGED <<path, flock, body, aged, fd, seen, disk, pc, out, cancelled, supervisor,
                     reg, wanted, github, waived>>
  BY DEF RemoveStarts, CommandFree
<1>3. trouble' \in 0 .. MaxTrouble
  BY <1>1, TroubleBounded DEF RemoveStarts
<1>4. force' \in BOOLEAN
  BY DEF RemoveStarts
<1>5. /\ LockTypeOK' /\ LockInv' /\ lk'["rm"] = "open"
      /\ \A v \in Users \ {"rm"} : lk'[v] = lk[v]
  BY <1>1, <1>2, Asks, QuietForAll, Types DEF Commanded, TypeOK, LockTypeOK
<1>6. /\ cfg' \in [Users -> Configs \cup {Absent}] /\ cfg'["rm"] # Absent
      /\ \A d \in Drivers : cfg'[d] = cfg[d]
  BY <1>1, <1>2, DriverTypes, Types
<1>7. TypeOK'
  BY <1>1, <1>2, <1>3, <1>4, <1>5, <1>6 DEF TypeOK, disk, supervisor, github
<1>8. Commanded'
  BY <1>2, <1>5, <1>6 DEF Commanded, Acquiring
<1>9. NoStrandedRunner'
  BY <1>1, <1>2 DEF Recorded, NoStrandedRunner, disk, github
<1>10. stopped' => stopped
  BY Zenon, <1>2 DEF disk
<1>11. config' = config /\ waived' = waived /\ \A d \in Drivers : lk'[d] = lk[d]
  BY <1>2, <1>5, Types DEF disk
<1> QED BY <1>2, <1>5, <1>6, <1>7, <1>8, <1>9, <1>10, <1>11, QuietForAll, BesideDrivers

\* What the other steps of remove have in common.
LEMMA RemoveGoesOn ==
  ASSUME RInv, Quiet(None), rm # "off", LockTypeOK', LockInv', Commanded',
         UNCHANGED <<pc, out, sup, scan, cur, drained, retired, reg, wanted, minted>>,
         \A v \in Users \ {"rm"} : lk'[v] = lk[v],
         cfg' = [cfg EXCEPT !["rm"] = cfg'["rm"]], cfg'["rm"] \in Configs \cup {Absent},
         rm' \in {"off", "drain", "wait", "reload", "unregister", "delete", "after", "kept"},
         force' \in BOOLEAN, hup' \in BOOLEAN, cancelled' \subseteq {"supervisor", "fg"},
         pending' \in BOOLEAN, stopped' \in BOOLEAN, stopped' => stopped,
         config' \in {config, Absent}, trouble' \in 0 .. MaxTrouble, runner' \in {runner, 0},
         waived \subseteq waived', waived' \subseteq Waivers,
         config' # config => "force" \in waived' \/ (\A d \in Drivers : pc[d] \notin Driving),
         config' # config => waived' # {} \/ runner' = 0
  PROVE  RInv'
<1>1. TypeOK /\ Recorded /\ Commanded
  BY DEF RInv
<1>2. /\ cfg' \in [Users -> Configs \cup {Absent}]
      /\ \A d \in Drivers : cfg'[d] = cfg[d] /\ lk'[d] = lk[d]
  BY <1>1, DriverTypes, Types
<1>3. TypeOK'
  <2>1. pc \in [Drivers -> Phases] /\ out \in [Drivers -> Outcomes]
    BY <1>1 DEF TypeOK
  <2>2. /\ config' \in Configs \cup {Absent} /\ runner' \in 0 .. MaxMints
        /\ rm' = "unregister" => cfg'["rm"] # Absent
    BY <1>1, DriverTypes DEF Commanded
  <2> QED BY <1>1, <1>2, <2>1, <2>2 DEF TypeOK
<1>4. NoStrandedRunner'
  BY <1>1 DEF Recorded, NoStrandedRunner
<1>5. config' = Absent /\ "force" \notin waived' =>
        (config = Absent /\ "force" \notin waived) \/ \A d \in Drivers : pc[d] \notin Driving
  OBVIOUS
<1> QED BY <1>2, <1>3, <1>4, <1>5, QuietForAll, BesideDrivers

LEMMA RemoveTypes ==
  ASSUME TypeOK
  PROVE  /\ pending \in BOOLEAN /\ stopped \in BOOLEAN /\ force \in BOOLEAN /\ hup \in BOOLEAN
         /\ cancelled \subseteq {"supervisor", "fg"}
         /\ waived \subseteq Waivers
         /\ trouble \in 0 .. MaxTrouble /\ LockTypeOK
BY Zenon DEF TypeOK

LEMMA RemoveLockedStep ==
  ASSUME RInv, Quiet(None), RemoveLocked
  PROVE  RInv'
<1>1. TypeOK /\ LockInv /\ Commanded
  BY DEF RInv, LockInv
<1>2. /\ rm = "lock" /\ cfg["rm"] # Absent
      /\ UNCHANGED <<lockVars, config, stopped, drivers, cancelled, supervisor, force, reg, wanted,
                     github, trouble>>
      /\ lk["rm"] \in {"held", "refused"}
  BY <1>1, Types DEF RemoveLocked, Commanded, LockInv, Trying
<1>3. /\ \/ lk["rm"] = "refused" /\ rm' = "delete"
         \/ lk["rm"] = "refused" /\ rm' = "drain"
         \/ lk["rm"] = "held" /\ rm' = "unregister"
      /\ waived' = IF rm' = "delete" THEN waived \cup {"force"} ELSE waived
  <2>1. rm' = IF lk["rm"] = "refused" THEN IF force THEN "delete" ELSE "drain" ELSE "unregister"
    BY Zenon DEF RemoveLocked
  <2>2. rm' = "delete" \/ rm' = "drain" \/ lk["rm"] # "refused"
    BY Zenon, <2>1
  <2>3. lk["rm"] # "refused" => rm' = "unregister"
    BY Zenon, <2>1
  <2> QED BY <1>2, <2>2, <2>3 DEF RemoveLocked
<1>4. pending' \in BOOLEAN /\ stopped' \in BOOLEAN /\ force' \in BOOLEAN /\ hup' \in BOOLEAN
      /\ (stopped' => stopped)
  <2>1. pending' = (pending \/ rm' = "drain")
    BY Zenon DEF RemoveLocked
  <2> QED BY Zenon, <1>1, <1>2, <2>1, RemoveTypes DEF supervisor
<1>5. LockInv' /\ LockTypeOK'
  BY <1>1, <1>2, RemoveTypes, Moves DEF lockVars, drivers, LockTypeOK
<1>6. lk' = lk /\ cfg' = cfg /\ pc' = pc /\ out' = out
  BY <1>2 DEF lockVars, drivers
<1>7. Commanded'
  BY <1>1, <1>2, <1>3, <1>6 DEF Commanded
<1>8. cfg' = [cfg EXCEPT !["rm"] = cfg'["rm"]] /\ cfg'["rm"] \in Configs \cup {Absent}
  BY <1>1, <1>6, DriverTypes, Types
<1> QED BY <1>1, <1>2, <1>3, <1>4, <1>5, <1>6, <1>7, <1>8, RemoveTypes, RemoveGoesOn
        DEF Waivers, supervisor, github

LEMMA RemoveDrainsStep ==
  ASSUME RInv, Quiet(None), RemoveDrains
  PROVE  RInv'
<1>1. TypeOK /\ LockInv /\ Commanded
  BY DEF RInv, LockInv
<1>2. /\ rm = "drain" /\ lk["rm"] = "refused"
      /\ UNCHANGED <<path, flock, body, aged, fd, disk, pc, out, cancelled, sup, scan, cur, drained,
                     retired, reg, wanted, github, trouble, waived>>
      /\ seen' \in [Users -> Procs \cup {None}]
  BY <1>1 DEF RemoveDrains, Commanded, TypeOK, LockTypeOK
<1>3. \/ rm' = "wait" /\ UNCHANGED <<lk, cfg, force>>
      \/ /\ rm' = "off" /\ force' = FALSE /\ lk' = [lk EXCEPT !["rm"] = "idle"]
         /\ cfg' = [cfg EXCEPT !["rm"] = Absent]
  BY DEF RemoveDrains, RemoveFails
<1>4. /\ pending' \in BOOLEAN /\ stopped' \in BOOLEAN /\ force' \in BOOLEAN /\ hup' \in BOOLEAN
      /\ (stopped' => stopped)
  <2>1. hup' = hup \/ hup' = (hup \/ sup # "down")
    BY Zenon DEF RemoveDrains, Notify
  <2>2. force' = force \/ force' = FALSE
    BY Zenon, <1>3
  <2> QED BY Zenon, <1>1, <1>2, <2>1, <2>2, RemoveTypes DEF disk
<1>5. /\ LockInv' /\ LockTypeOK' /\ (\A v \in Users \ {"rm"} : lk'[v] = lk[v])
      /\ lk'["rm"] = IF rm' = "wait" THEN "refused" ELSE "idle"
  <2>1. CASE rm' = "wait" /\ UNCHANGED <<lk, cfg, force>>
    <3>1. LockTypeOK'
      BY <1>2, <2>1, <1>1, RemoveTypes DEF LockTypeOK
    <3> QED BY <1>1, <1>2, <2>1, <3>1, Moves
  <2>2. CASE rm' = "off" /\ lk' = [lk EXCEPT !["rm"] = "idle"]
    BY <1>1, <1>2, <2>2, QuietForAll, Turns, Types
  <2> QED BY <1>3, <2>1, <2>2
<1>6. Commanded'
  BY <1>1, <1>2, <1>3, <1>5 DEF Commanded
<1>7. cfg' = [cfg EXCEPT !["rm"] = cfg'["rm"]] /\ cfg'["rm"] \in Configs \cup {Absent}
  BY <1>1, <1>3, DriverTypes, Types
<1> QED BY <1>1, <1>2, <1>3, <1>4, <1>5, <1>6, <1>7, RemoveTypes, RemoveGoesOn DEF disk, github

LEMMA RemoveWaitsStep ==
  ASSUME RInv, Quiet(None), RemoveWaits
  PROVE  RInv'
<1>1. TypeOK /\ LockInv /\ Commanded
  BY DEF RInv, LockInv
<1>2. /\ rm = "wait" /\ lk["rm"] \in {"held", "refused"}
      /\ UNCHANGED <<path, flock, body, aged, fd, disk, pc, out, cancelled, supervisor,
                     reg, wanted, github, trouble, waived>>
      /\ seen' \in [Users -> Procs \cup {None}]
  BY <1>1, Types DEF RemoveWaits, LockInv, Trying, TypeOK, LockTypeOK
<1>3. \/ lk["rm"] = "held" /\ rm' = "reload" /\ UNCHANGED <<lk, cfg, force>>
      \/ /\ lk["rm"] = "refused" /\ lk' = [lk EXCEPT !["rm"] = "open"]
         /\ rm' = "wait" /\ UNCHANGED <<cfg, force>>
      \/ /\ lk["rm"] = "refused" /\ rm' = "off" /\ force' = FALSE
         /\ cfg' = [cfg EXCEPT !["rm"] = Absent] /\ lk' = [lk EXCEPT !["rm"] = "idle"]
  BY <1>2 DEF RemoveWaits, RemoveFails
<1>4. /\ pending' \in BOOLEAN /\ stopped' \in BOOLEAN /\ force' \in BOOLEAN /\ hup' \in BOOLEAN
      /\ (stopped' => stopped)
  <2>1. force' = force \/ force' = FALSE
    BY Zenon, <1>3
  <2> QED BY Zenon, <1>1, <1>2, <2>1, RemoveTypes DEF disk, supervisor
<1>5. /\ LockInv' /\ LockTypeOK' /\ \A v \in Users \ {"rm"} : lk'[v] = lk[v]
      /\ rm' = "reload" => lk'["rm"] = "held"
      /\ rm' = "wait" => lk'["rm"] \in Acquiring
      /\ rm' = "off" => lk'["rm"] = "idle"
  <2>1. CASE lk["rm"] = "held" /\ rm' = "reload" /\ UNCHANGED <<lk, cfg, force>>
    <3>1. LockTypeOK'
      BY <1>2, <2>1, <1>1, RemoveTypes DEF LockTypeOK
    <3> QED BY <1>1, <1>2, <2>1, <3>1, Moves
  <2>2. CASE lk["rm"] = "refused" /\ lk' = [lk EXCEPT !["rm"] = "open"] /\ rm' = "wait"
    BY <1>1, <1>2, <2>2, QuietForAll, Asks, Types DEF Acquiring
  <2>3. CASE lk["rm"] = "refused" /\ lk' = [lk EXCEPT !["rm"] = "idle"] /\ rm' = "off"
    BY <1>1, <1>2, <2>3, QuietForAll, Turns, Types
  <2> QED BY <1>3, <2>1, <2>2, <2>3
<1>6. Commanded'
  BY <1>1, <1>2, <1>3, <1>5 DEF Commanded
<1>7. cfg' = [cfg EXCEPT !["rm"] = cfg'["rm"]] /\ cfg'["rm"] \in Configs \cup {Absent}
  BY <1>1, <1>3, DriverTypes, Types
<1> QED BY <1>1, <1>2, <1>3, <1>4, <1>5, <1>6, <1>7, RemoveTypes, RemoveGoesOn
        DEF disk, github, supervisor

LEMMA RemoveReloadsStep ==
  ASSUME RInv, Quiet(None), RemoveReloads
  PROVE  RInv'
<1>1. TypeOK /\ LockInv /\ Commanded
  BY DEF RInv, LockInv
<1>2. /\ rm = "reload" /\ lk["rm"] = "held"
      /\ UNCHANGED <<config, stopped, pc, out, cancelled, supervisor, force, reg, wanted, github,
                     trouble, waived>>
  BY <1>1 DEF RemoveReloads, Commanded
<1>3. \/ /\ pending' = FALSE /\ Release("rm", TRUE) /\ rm' = "after"
         /\ cfg' = [cfg EXCEPT !["rm"] = Absent]
      \/ /\ config # Absent /\ rm' = "unregister" /\ cfg' = [cfg EXCEPT !["rm"] = config]
         /\ UNCHANGED <<pending, lockVars>>
  BY DEF RemoveReloads
<1>4. /\ pending' \in BOOLEAN /\ stopped' \in BOOLEAN /\ force' \in BOOLEAN /\ hup' \in BOOLEAN
      /\ (stopped' => stopped)
  <2>1. pending' = pending \/ pending' = FALSE
    BY Zenon, <1>3
  <2> QED BY Zenon, <1>1, <1>2, <2>1, RemoveTypes DEF supervisor
<1>5. /\ LockInv' /\ LockTypeOK' /\ \A v \in Users \ {"rm"} : lk'[v] = lk[v]
      /\ lk'["rm"] = IF rm' = "after" THEN "idle" ELSE "held"
  <2>1. CASE Release("rm", TRUE) /\ rm' = "after"
    BY <1>1, <1>2, <2>1, QuietForAll, Releases, Types
  <2>2. CASE UNCHANGED lockVars /\ rm' = "unregister"
    <3>1. LockTypeOK'
      BY <2>2, <1>1, RemoveTypes DEF LockTypeOK, lockVars
    <3> QED BY <1>1, <1>2, <2>2, <3>1, Moves DEF lockVars
  <2> QED BY <1>3, <2>1, <2>2
<1>6. /\ cfg' = [cfg EXCEPT !["rm"] = cfg'["rm"]] /\ cfg'["rm"] \in Configs \cup {Absent}
      /\ rm' = "unregister" => cfg'["rm"] # Absent
  BY <1>1, <1>3, DriverTypes, Types
<1>7. Commanded'
  BY <1>1, <1>2, <1>3, <1>5, <1>6 DEF Commanded
<1> QED BY <1>1, <1>2, <1>3, <1>4, <1>5, <1>6, <1>7, RemoveTypes, RemoveGoesOn DEF github, supervisor

LEMMA RemoveUnregistersStep ==
  ASSUME RInv, Quiet(None), RemoveUnregisters
  PROVE  RInv'
<1>1. TypeOK /\ LockInv /\ Commanded
  BY DEF RInv, LockInv
<1>2. /\ rm = "unregister" /\ lk["rm"] = "held" /\ cfg["rm"] # Absent /\ reg = "off"
      /\ UNCHANGED <<disk, pc, out, cancelled, supervisor, reg, wanted, minted>>
  BY <1>1 DEF RemoveUnregisters, Commanded
<1>3. \/ /\ runner' = 0 /\ rm' = "delete" /\ UNCHANGED <<trouble, waived, lockVars, cfg, force>>
      \/ /\ trouble' \in 0 .. MaxTrouble /\ rm' = "delete" /\ waived' = waived \cup {"unregister"}
         /\ UNCHANGED <<runner, lockVars, cfg, force>>
      \/ /\ trouble' \in 0 .. MaxTrouble /\ rm' = "off" /\ force' = FALSE
         /\ cfg' = [cfg EXCEPT !["rm"] = Absent] /\ Release("rm", FALSE)
         /\ UNCHANGED <<runner, waived>>
  BY <1>1, TroubleBounded DEF RemoveUnregisters, RemoveFails, Unregisters, UnregisterFails
<1>4. /\ pending' \in BOOLEAN /\ stopped' \in BOOLEAN /\ force' \in BOOLEAN /\ hup' \in BOOLEAN
      /\ (stopped' => stopped)
  <2>1. force' = force \/ force' = FALSE
    BY Zenon, <1>3
  <2> QED BY Zenon, <1>1, <1>2, <2>1, RemoveTypes DEF supervisor, disk
<1>5. /\ LockInv' /\ LockTypeOK' /\ \A v \in Users \ {"rm"} : lk'[v] = lk[v]
      /\ lk'["rm"] = IF rm' = "delete" THEN "held" ELSE "idle"
  <2>1. CASE Release("rm", FALSE) /\ rm' = "off"
    BY <1>1, <1>2, <2>1, QuietForAll, Releases, Types
  <2>2. CASE UNCHANGED lockVars /\ rm' = "delete"
    <3>1. LockTypeOK'
      BY <2>2, <1>1, RemoveTypes DEF LockTypeOK, lockVars
    <3> QED BY <1>1, <1>2, <2>2, <3>1, Moves DEF lockVars
  <2> QED BY <1>3, <2>1, <2>2
<1>6. cfg' = [cfg EXCEPT !["rm"] = cfg'["rm"]] /\ cfg'["rm"] \in Configs \cup {Absent}
  BY <1>1, <1>3, DriverTypes, Types
<1>7. Commanded'
  BY <1>1, <1>2, <1>3, <1>5 DEF Commanded
<1>8. /\ trouble' \in 0 .. MaxTrouble /\ runner' \in {runner, 0} /\ waived \subseteq waived'
      /\ waived' \subseteq Waivers /\ config' = config
      /\ rm' \in {"off", "delete"}
  BY <1>1, <1>2, <1>3, RemoveTypes DEF disk, Waivers
<1> QED BY <1>1, <1>2, <1>4, <1>5, <1>6, <1>7, <1>8, RemoveTypes, RemoveGoesOn DEF supervisor

LEMMA RemoveDeletesStep ==
  ASSUME RInv, Quiet(None), RemoveDeletes
  PROVE  RInv'
<1>1. TypeOK /\ LockInv /\ Commanded
  BY DEF RInv, LockInv
<1>2. /\ rm = "delete" /\ lk["rm"] \in {"held", "refused"} /\ reg = "off"
      /\ lk["rm"] = "held" => runner = 0 \/ "unregister" \in waived
      /\ lk["rm"] = "refused" => "force" \in waived
      /\ UNCHANGED <<pc, out, cancelled, supervisor, reg, wanted, github, trouble, waived>>
  BY <1>1 DEF RemoveDeletes, Commanded
<1>3. \/ /\ rm' = "off" /\ force' = FALSE /\ cfg' = [cfg EXCEPT !["rm"] = Absent]
         /\ Release("rm", FALSE) /\ UNCHANGED disk
      \/ /\ config' = Absent /\ pending' = FALSE /\ stopped' = FALSE
         /\ Release("rm", lk["rm"] = "held") /\ rm' \in {"after", "kept"} /\ UNCHANGED <<force, cfg>>
  <2>1. CASE config = Absent
    BY Zenon, <2>1 DEF RemoveDeletes, RemoveFails
  <2>2. CASE config # Absent
    <3>1. rm' = "after" \/ rm' = "kept"
      BY Zenon, <2>2 DEF RemoveDeletes
    <3>2. /\ config' = Absent /\ pending' = FALSE /\ stopped' = FALSE
          /\ Release("rm", lk["rm"] = "held") /\ UNCHANGED <<force, cfg>>
      BY Zenon, <2>2 DEF RemoveDeletes
    <3> QED BY Zenon, <3>1, <3>2
  <2> QED BY <2>1, <2>2
<1>4. /\ pending' \in BOOLEAN /\ stopped' \in BOOLEAN /\ force' \in BOOLEAN /\ hup' \in BOOLEAN
      /\ (stopped' => stopped)
  <2>1. force' = force \/ force' = FALSE
    BY Zenon, <1>3
  <2>2. pending' = pending \/ pending' = FALSE
    BY Zenon, <1>3 DEF disk
  <2>3. stopped' = stopped \/ stopped' = FALSE
    BY Zenon, <1>3 DEF disk
  <2>4. /\ pending \in BOOLEAN /\ stopped \in BOOLEAN /\ force \in BOOLEAN
        /\ hup' = hup /\ hup \in BOOLEAN
    BY Zenon, <1>1, <1>2, RemoveTypes DEF supervisor
  <2>5. pending' \in BOOLEAN
    BY Zenon, <2>2, <2>4
  <2>6. stopped' \in BOOLEAN /\ (stopped' => stopped)
    <3>1. CASE stopped' = stopped
      BY Zenon, <2>4, <3>1
    <3>2. CASE stopped' = FALSE
      <4>1. ~stopped'
        BY Zenon, <3>2
      <4> QED BY Zenon, <3>2, <4>1
    <3> QED BY Zenon, <2>3, <3>1, <3>2
  <2>7. force' \in BOOLEAN
    BY Zenon, <2>1, <2>4
  <2> QED BY Zenon, <2>4, <2>5, <2>6, <2>7
<1>5. /\ LockInv' /\ LockTypeOK' /\ lk'["rm"] = "idle"
      /\ \A v \in Users \ {"rm"} : lk'[v] = lk[v]
  <2>1. PICK unlink \in BOOLEAN : Release("rm", unlink) /\ (unlink => lk["rm"] = "held")
    BY <1>3
  <2> QED BY <1>1, <1>2, <2>1, QuietForAll, Releases, Types
<1>6. cfg' = [cfg EXCEPT !["rm"] = cfg'["rm"]] /\ cfg'["rm"] \in Configs \cup {Absent}
  BY <1>1, <1>3, DriverTypes, Types
<1>7. Commanded'
  BY <1>1, <1>2, <1>3, <1>5 DEF Commanded
<1>8. "force" \in waived \/ \A d \in Drivers : pc[d] \notin Driving
  <2>1. lk["rm"] = "held" => \A d \in Drivers : pc[d] \notin Driving
    BY HolderDrives, Types DEF Holds
  <2> QED BY <1>2, <2>1
<1>9. config' \in {config, Absent} /\ rm' \in {"off", "after", "kept"}
  BY <1>3 DEF disk
<1>10. waived # {} \/ runner = 0
  BY <1>2
<1>11. /\ trouble' = trouble /\ runner' = runner /\ minted' = minted /\ waived' = waived
       /\ UNCHANGED <<sup, scan, cur, drained, retired>>
  BY <1>2 DEF github, supervisor
<1> QED BY <1>1, <1>2, <1>4, <1>5, <1>6, <1>7, <1>8, <1>9, <1>10, <1>11, RemoveTypes, DriverTypes,
           RemoveGoesOn

LEMMA RemoveEndsStep ==
  ASSUME RInv, Quiet(None), RemoveEnds
  PROVE  RInv'
<1>1. TypeOK /\ LockInv /\ Commanded
  BY DEF RInv, LockInv
<1>2. /\ rm \in {"after", "kept"} /\ lk["rm"] = "idle" /\ rm' = "off" /\ force' = FALSE
      /\ cfg' = [cfg EXCEPT !["rm"] = Absent]
      /\ UNCHANGED <<lockVars, disk, pc, out, sup, scan, cur, drained, retired, reg, wanted, github,
                     trouble, waived>>
  BY <1>1 DEF RemoveEnds, RemoveFails, Commanded
<1>3. /\ pending' \in BOOLEAN /\ stopped' \in BOOLEAN /\ force' \in BOOLEAN /\ hup' \in BOOLEAN
      /\ (stopped' => stopped)
  <2>1. hup' = hup \/ hup' = (hup \/ sup # "down")
    BY Zenon DEF RemoveEnds, Notify
  <2> QED BY Zenon, <1>1, <1>2, <2>1, RemoveTypes DEF disk
<1>4. LockInv' /\ LockTypeOK' /\ lk' = lk
  <2>1. LockTypeOK'
    BY <1>2, <1>1, RemoveTypes DEF LockTypeOK, lockVars
  <2> QED BY <1>1, <1>2, <2>1, Moves DEF lockVars
<1>5. cfg' = [cfg EXCEPT !["rm"] = cfg'["rm"]] /\ cfg'["rm"] \in Configs \cup {Absent}
  BY <1>1, <1>2, DriverTypes, Types
<1>6. cancelled' \subseteq {"supervisor", "fg"}
  BY <1>1, RemoveTypes DEF RemoveEnds
<1>7. Commanded'
  BY <1>1, <1>2, <1>4 DEF Commanded
<1> QED BY <1>1, <1>2, <1>3, <1>4, <1>5, <1>6, <1>7, RemoveTypes, RemoveGoesOn DEF disk, github

LEMMA RemoveSteps ==
  ASSUME RInv, Quiet(None), RemoveStep
  PROVE  RInv'
BY RemoveLockedStep, RemoveDrainsStep, RemoveWaitsStep, RemoveReloadsStep, RemoveUnregistersStep,
   RemoveDeletesStep, RemoveEndsStep DEF RemoveStep

-----------------------------------------------------------------------------
(* The specification                                                       *)

LEMMA RInvStarts == Init => RInv
<1> SUFFICES ASSUME Init PROVE RInv
  OBVIOUS
<1>1. LockTypeOK
  <2>1. 1 \in Inodes
    BY BoundsAssumption, FS_CardinalityType DEF Inodes
  <2>2. /\ path \in {0, 1} /\ flock = [i \in Inodes |-> None] /\ aged \subseteq {1}
        /\ lk = [u \in Users |-> "idle"] /\ fd = [u \in Users |-> 0] /\ seen = [u \in Users |-> None]
    BY DEF Init, LockInit
  <2>3. body \in [Inodes -> Procs \cup {None}]
    BY DEF Init, LockInit, Procs
  <2> QED BY <2>1, <2>2, <2>3 DEF LockTypeOK
<1>2. /\ lk = [u \in Users |-> "idle"] /\ fd = [u \in Users |-> 0] /\ flock = [i \in Inodes |-> None]
      /\ pc = [d \in Drivers |-> "off"]
  BY DEF Init, LockInit
<1>3. TypeOK
  <2>1. cfg = [u \in Users |-> Absent] /\ cfg \in [Users -> Configs \cup {Absent}]
    BY DEF Init
  <2>2. pc \in [Drivers -> Phases] /\ out \in [Drivers -> Outcomes]
    BY <1>2 DEF Init, Phases, Outcomes
  <2>3. scan \in [entry : BOOLEAN, pending : BOOLEAN, departing : BOOLEAN]
    BY DEF Init, NoScan
  <2>4. runner \in 0 .. MaxMints /\ minted \in 0 .. MaxMints /\ trouble \in 0 .. MaxTrouble
    BY BoundsAssumption DEF Init
  <2> QED BY <1>1, <2>1, <2>2, <2>3, <2>4, Types DEF Init, TypeOK
<1>4. Serial /\ OneHolder /\ Gripped /\ Trying
  BY <1>2 DEF Serial, OneHolder, Gripped, Trying, Busy, Holds, Acquiring, Brief
<1>5. Placed
  BY <1>2, Types DEF Placed, Driving
<1>6. Commanded
  BY <1>2, Types DEF Init, Commanded
<1>7. Recorded
  BY <1>2 DEF Init, Recorded, NoStrandedRunner, Driving
<1>8. Marked
  <2>1. ~stopped
    BY Zenon DEF Init
  <2> QED BY <1>2, <2>1, Types DEF Marked
<1> QED BY <1>3, <1>4, <1>5, <1>6, <1>7, <1>8 DEF RInv

LEMMA RInvStutters == RInv /\ UNCHANGED vars => RInv'
<1> SUFFICES ASSUME RInv, UNCHANGED vars PROVE RInv'
  OBVIOUS
<1>1. TypeOK' /\ LockTypeOK'
  BY DEF RInv, TypeOK, LockTypeOK, vars, lockVars, disk, drivers, supervisor, commands, github
<1>2. Serial' /\ OneHolder' /\ Gripped' /\ Trying'
  BY DEF RInv, Serial, OneHolder, Gripped, Trying, Busy, Holds, Leaving, vars, lockVars, drivers
<1>3. Placed' /\ Commanded'
  BY DEF RInv, Placed, Commanded, vars, lockVars, drivers, commands, github
<1>4. Recorded'
  BY DEF RInv, Recorded, NoStrandedRunner, vars, disk, drivers, commands, github
<1>5. Marked'
  <2>1. NobodyDrives' <=> NobodyDrives
    BY DEF NobodyDrives, vars, drivers
  <2>2. (stopped' => NobodyDrives') /\ lk' = lk /\ pc' = pc /\ config' = config
    BY Zenon, <2>1 DEF RInv, Marked, vars, disk, lockVars, drivers
  <2> QED BY <2>1, <2>2 DEF RInv, Marked
<1> QED BY <1>1, <1>2, <1>3, <1>4, <1>5 DEF RInv

LEMMA RInvSteps ==
  ASSUME Overlap = FALSE, RInv, Next
  PROVE  RInv'
<1>1. ASSUME NEW u \in Users, Undisturbed(u), LockStep(u) PROVE RInv'
  BY <1>1, OthersWait, LockSteps
<1>2. ASSUME NEW d \in Drivers, Undisturbed(d), DriverStep(d) PROVE RInv'
  BY <1>2, OthersWait, DriverSteps
<1>3. CASE Undisturbed(None) /\ SupervisorStep
  BY <1>3, OthersWait, SupervisorAside, ApplyScanStep, SupervisorGoes DEF SupervisorStep
<1>4. CASE Undisturbed(None) /\ (RegisterStep \/ RemoveStep)
  BY <1>4, OthersWait, RegisterMintsStep, RegisterSavesStep, RegisterAside, RemoveSteps DEF RegisterStep
<1>5. CASE Undisturbed(None) /\ (RegisterStarts \/ RemoveStarts)
  BY <1>5, OthersWait, RegisterAside, RemoveStartsStep
<1>6. CASE Undisturbed(None) /\ (ForegroundStarts \/ Crash)
  BY <1>6, OthersWait, ForegroundStep, SupervisorGoes
<1>7. ASSUME Undisturbed(None), NEW p \in {"supervisor", "fg"}, Signal(p) PROVE RInv'
  BY <1>7, OthersWait, SignalStep
<1> QED BY <1>1, <1>2, <1>3, <1>4, <1>5, <1>6, <1>7 DEF Next

LEMMA RInvHolds ==
  ASSUME Overlap = FALSE
  PROVE  Spec => []RInv
<1>1. RInv /\ [Next]_vars => RInv'
  BY RInvSteps, RInvStutters
<1> QED BY <1>1, RInvStarts, PTL DEF Spec

(* lockfile.rs: "at most one live `run` per data directory".  However many   *)
(* loops the supervisor has started, drained and retired, and whatever was   *)
(* crashed, re-registered or removed by force, no two of them drive the      *)
(* registration.  Calls of acquire and operator commands do not overlap: the *)
(* takeover of a stale lock file is not atomic in the code, and with         *)
(* overlapping calls two drivers are possible.                               *)
THEOREM OneDriverHolds ==
  ASSUME Overlap = FALSE
  PROVE  Spec => []OneDriver
<1>1. RInv => OneDriver
  BY Types DEF RInv, Placed, OneHolder, Holds, OneDriver
<1> QED BY <1>1, RInvHolds, PTL

(* main.rs and ephemeral.rs unregister a runner before they delete the local *)
(* record of it, and supervisor.rs clears .stopped before it drives: GitHub  *)
(* keeps no runner whose registration is gone, unless the operator or a      *)
(* failed request waived it, and no driven registration is marked stopped.   *)
(* Again calls of acquire and operator commands do not overlap.              *)
THEOREM RecordsStayTrue ==
  ASSUME Overlap = FALSE
  PROVE  Spec => []RecordsAreTrue
<1>1. RInv => RecordsAreTrue
  <2> SUFFICES ASSUME RInv PROVE RecordsAreTrue
    OBVIOUS
  <2>1. TypeOK /\ NoStrandedRunner
    BY DEF RInv, Recorded
  <2>2. StoppedIsTrue
    <3>1. NobodyDrives => \A l \in Loops : pc[l] \notin Driving
      BY DEF NobodyDrives
    <3>2. stopped => NobodyDrives
      BY Zenon DEF RInv, Marked
    <3> QED BY Zenon, <3>1, <3>2 DEF StoppedIsTrue
  <2> QED BY <2>1, <2>2 DEF RecordsAreTrue
<1> QED BY <1>1, RInvHolds, PTL

=============================================================================
