------------------------------ MODULE Lockfile ------------------------------
(***************************************************************************)
(* The single-job lock of a registration, <data_dir>/.lock                  *)
(* (crates/config/src/lockfile.rs).  The kernel lock belongs to an inode   *)
(* while every user finds the file by its path, and whoever judges a held  *)
(* lock stale unlinks the path: both are state here.  lockfile::acquire is *)
(* one call in the code and one phase per system call here; the caller     *)
(* starts it by setting lk[u] to "open" and reads the answer from lk[u]:   *)
(* "held", "refused" (LockHeld) or "failed" (any other error).             *)
(***************************************************************************)
EXTENDS Naturals, FiniteSets

CONSTANT
  Users       \* the activities that call acquire: "fg" (a foreground `run`),
              \* "rm" (`remove`) and the loops of the `run --all` supervisor

Procs == {"supervisor", "fg", "rm"}

(* The process a user lives in, which is what its lock body names. *)
ProcOf(u) == IF u \in {"fg", "rm"} THEN u ELSE "supervisor"

VARIABLES
  path,       \* the inode .lock names, 0 when there is no such file
  flock,      \* inode -> the user whose descriptor holds its lock
  body,       \* inode -> the process its LockBody names
  aged,       \* inodes not written for STALE_LOCK_AGE
  lk,         \* where a user's call of acquire is
  fd,         \* the inode a user's descriptor is on, 0 when it has none
  seen        \* the process named by the LockHeld a user was answered with

lockVars == <<path, flock, body, aged, lk, fd, seen>>

None == "none"

(* An inode is in use while the path or a descriptor refers to it, so one
   more than the users is always enough. *)
Inodes == 1 .. Cardinality(Users) + 1

Unused == Inodes \ ({path} \cup {fd[u] : u \in Users})

(* The phases in which acquire has started and not yet returned. *)
Acquiring == {"open", "try", "write", "judge", "unlink", "create"}

LockTypeOK ==
  /\ path \in {0} \cup Inodes
  /\ flock \in [Inodes -> Users \cup {None}]
  /\ body \in [Inodes -> Procs \cup {None}]
  /\ aged \subseteq Inodes
  /\ lk \in [Users -> Acquiring \cup {"idle", "held", "refused", "failed"}]
  /\ fd \in [Users -> {0} \cup Inodes]
  /\ seen \in [Users -> Procs \cup {None}]

(* An empty .lock directory, or the file a killed process of name p left. *)
LockInit(p) ==
  /\ path = IF p = None THEN 0 ELSE 1
  /\ body = [i \in Inodes |-> IF i = 1 THEN p ELSE None]
  /\ aged = IF p = None THEN {} ELSE {1}
  /\ flock = [i \in Inodes |-> None]
  /\ lk = [u \in Users |-> "idle"]
  /\ fd = [u \in Users |-> 0]
  /\ seen = [u \in Users |-> None]

(* OpenOptions::create(true).truncate(false): the file the path names, or a
   new one. *)
OpenPath(u) ==
  LET i == IF path # 0 THEN path ELSE CHOOSE i \in Unused : TRUE
  IN  /\ path' = i
      /\ fd' = [fd EXCEPT ![u] = i]
      /\ flock' = IF path # 0 THEN flock ELSE [flock EXCEPT ![i] = None]
      /\ body' = IF path # 0 THEN body ELSE [body EXCEPT ![i] = None]
      /\ aged' = IF path # 0 THEN aged ELSE aged \ {i}

LockOpen(u) ==
  /\ lk[u] = "open"
  /\ OpenPath(u)
  /\ lk' = [lk EXCEPT ![u] = "try"]
  /\ UNCHANGED seen

(* try_lock_exclusive, ten times: the lock, or a lock contended throughout. *)
LockTry(u) ==
  /\ lk[u] = "try"
  /\ IF flock[fd[u]] = None
     THEN /\ flock' = [flock EXCEPT ![fd[u]] = u]
          /\ lk' = [lk EXCEPT ![u] = "write"]
     ELSE /\ lk' = [lk EXCEPT ![u] = "judge"]
          /\ UNCHANGED flock
  /\ UNCHANGED <<path, body, aged, fd, seen>>

(* write_body: truncate and write, which also renews the file's mtime. *)
LockWrite(u) ==
  /\ lk[u] = "write"
  /\ body' = [body EXCEPT ![fd[u]] = ProcOf(u)]
  /\ aged' = aged \ {fd[u]}
  /\ lk' = [lk EXCEPT ![u] = "held"]
  /\ UNCHANGED <<path, flock, fd, seen>>

(* Whether handle_contended may take the lock away from its holder: there is
   no file any more, or its body is old and names no live process. *)
Stale(alive) ==
  path = 0 \/ (path \in aged /\ body[path] \notin alive)

(* handle_contended up to its verdict: body and mtime are read by path. *)
LockJudge(u, alive) ==
  /\ lk[u] = "judge"
  /\ IF Stale(alive)
     THEN /\ lk' = [lk EXCEPT ![u] = "unlink"]
          /\ UNCHANGED <<fd, seen>>
     ELSE /\ lk' = [lk EXCEPT ![u] = "refused"]
          /\ fd' = [fd EXCEPT ![u] = 0]
          /\ seen' = [seen EXCEPT ![u] = body[path]]
  /\ UNCHANGED <<path, flock, body, aged>>

(* The stale file goes, by path, whatever the path names by now. *)
LockUnlink(u) ==
  /\ lk[u] = "unlink"
  /\ path' = 0
  /\ lk' = [lk EXCEPT ![u] = "create"]
  /\ fd' = [fd EXCEPT ![u] = 0]
  /\ UNCHANGED <<flock, body, aged, seen>>

(* A fresh file, and one try for its lock: losing it is an error. *)
LockCreate(u) ==
  /\ lk[u] = "create"
  /\ IF path # 0 /\ flock[path] # None
     THEN /\ lk' = [lk EXCEPT ![u] = "failed"]
          /\ UNCHANGED <<path, flock, body, aged, fd>>
     ELSE LET i == IF path # 0 THEN path ELSE CHOOSE i \in Unused : TRUE
          IN  /\ path' = i
              /\ fd' = [fd EXCEPT ![u] = i]
              /\ flock' = [flock EXCEPT ![i] = u]
              /\ body' = IF path # 0 THEN body ELSE [body EXCEPT ![i] = None]
              /\ aged' = IF path # 0 THEN aged ELSE aged \ {i}
              /\ lk' = [lk EXCEPT ![u] = "write"]
  /\ UNCHANGED seen

AcquireStep(u, alive) ==
  \/ LockOpen(u)
  \/ LockTry(u)
  \/ LockWrite(u)
  \/ LockJudge(u, alive)
  \/ LockUnlink(u)
  \/ LockCreate(u)

(* LockGuard::drop, when unlinked after the path has been removed: the body
   is truncated, then the descriptor closes and with it the kernel lock. *)
Release(u, unlink) ==
  /\ path' = IF unlink THEN 0 ELSE path
  /\ IF fd[u] # 0
     THEN /\ body' = [body EXCEPT ![fd[u]] = None]
          /\ flock' = [flock EXCEPT ![fd[u]] = None]
          /\ aged' = aged \ {fd[u]}
     ELSE UNCHANGED <<body, flock, aged>>
  /\ fd' = [fd EXCEPT ![u] = 0]
  /\ lk' = [lk EXCEPT ![u] = "idle"]
  /\ UNCHANGED seen

(* A process is killed: the kernel drops its locks and the bodies stay. *)
Vanish(us) ==
  /\ flock' = [i \in Inodes |-> IF flock[i] \in us THEN None ELSE flock[i]]
  /\ fd' = [u \in Users |-> IF u \in us THEN 0 ELSE fd[u]]
  /\ lk' = [u \in Users |-> IF u \in us THEN "idle" ELSE lk[u]]
  /\ UNCHANGED <<path, body, aged, seen>>
=============================================================================
