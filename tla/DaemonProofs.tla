---------------------------- MODULE DaemonProofs ----------------------------
(* Theorems about Daemon, for every set of jobs, containers and requests,   *)
(* every budget and every choice of faults.                                 *)
EXTENDS Daemon, FiniteSetTheorems, WellFoundedInduction, NaturalsInduction, TLAPS

-----------------------------------------------------------------------------
(* What removal from the start queue leaves behind.                         *)

(* Every set of queue positions is finite, and so is each of its lower parts. *)
LEMMA PositionsFinite ==
    ASSUME NEW N \in Nat, NEW I \in SUBSET (1..N)
    PROVE  /\ IsFiniteSet(I)
           /\ \A i : IsFiniteSet({k \in I : k <= i})
           /\ Cardinality(I) \in Nat
           /\ \A i : Rank(I, i) \in Nat
<1>1. IsFiniteSet(1..N)
  BY FS_Interval
<1>2. IsFiniteSet(I) /\ \A i : IsFiniteSet({k \in I : k <= i})
  BY <1>1, FS_Subset
<1> QED BY <1>2, FS_CardinalityType DEF Rank

(* A non-empty set of positions has a smallest one.                         *)
LEMMA SmallestPosition ==
    ASSUME NEW N \in Nat, NEW I \in SUBSET (1..N), I # {}
    PROVE  \E m \in I : \A k \in I : m <= k
<1>1. I \subseteq Nat
  OBVIOUS
<1>2. PICK m \in I : \A k \in Nat : <<k, m>> \in OpToRel(<, Nat) => k \notin I
  BY <1>1, NatLessThanWellFounded, WFMin
<1>3. \A k \in I : ~(k < m)
  BY <1>1, <1>2 DEF OpToRel
<1> QED BY <1>1, <1>3

(* Ranks run from 1 to the number of positions and tell positions apart.    *)
LEMMA RankProperties ==
    ASSUME NEW N \in Nat, NEW I \in SUBSET (1..N), NEW i \in I
    PROVE  /\ Rank(I, i) \in 1..Cardinality(I)
           /\ \A j \in I : i < j => Rank(I, i) + 1 <= Rank(I, j)
<1> DEFINE Low(x) == {k \in I : k <= x}
<1>0. \A k \in I : k \in Int
  OBVIOUS
<1>1. IsFiniteSet(I) /\ \A x : IsFiniteSet(Low(x))
  BY PositionsFinite
<1>2. \A x : Rank(I, x) = Cardinality(Low(x)) /\ Cardinality(Low(x)) \in Nat
  BY PositionsFinite DEF Rank
<1>3. Cardinality(Low(i)) <= Cardinality(I)
  <2>1. Low(i) \in SUBSET I
    OBVIOUS
  <2> QED BY <2>1, <1>1, FS_Subset
<1>4. Cardinality(Low(i)) >= 1
  <2>1. {i} \in SUBSET Low(i)
    OBVIOUS
  <2>2. Cardinality({i}) = 1
    BY FS_Singleton
  <2>3. Cardinality({i}) <= Cardinality(Low(i))
    BY <2>1, <1>1, FS_Subset
  <2> QED BY <2>2, <2>3, <1>2
<1>5. ASSUME NEW j \in I, i < j PROVE Cardinality(Low(i)) + 1 <= Cardinality(Low(j))
  <2>1. j \notin Low(i)
    BY <1>5
  <2>2. Cardinality(Low(i) \cup {j}) = Cardinality(Low(i)) + 1
    BY <2>1, <1>1, FS_AddElement
  <2>3. Low(i) \cup {j} \in SUBSET Low(j)
    <3>1. \A k \in I : k <= i => k <= j
      BY <1>0, <1>5
    <3>2. j <= j
      BY <1>0
    <3> QED BY <3>1, <3>2
  <2>4. Cardinality(Low(i) \cup {j}) <= Cardinality(Low(j))
    BY <2>3, <1>1, FS_Subset
  <2> QED BY <2>2, <2>4
<1>6. Cardinality(I) \in Nat
  BY PositionsFinite
<1>7. Rank(I, i) \in 1..Cardinality(I)
  BY <1>2, <1>3, <1>4, <1>6
<1>8. ASSUME NEW j \in I, i < j PROVE Rank(I, i) + 1 <= Rank(I, j)
  BY <1>2, <1>5, <1>8
<1> QED BY <1>7, <1>8

(* There is a position of every rank: the least rank without one would be   *)
(* taken by the position that follows the one of the rank before.           *)
LEMMA NthExists ==
    ASSUME NEW N \in Nat, NEW I \in SUBSET (1..N), NEW n \in 1..Cardinality(I)
    PROVE  Nth(I, n) \in I /\ Rank(I, Nth(I, n)) = n
<1> DEFINE Bad == {m \in 1..Cardinality(I) : \A i \in I : Rank(I, i) # m}
<1> DEFINE Low(x) == {k \in I : k <= x}
<1>0. \A k \in I : k \in Int
  OBVIOUS
<1>1. /\ IsFiniteSet(I) /\ Cardinality(I) \in Nat
      /\ \A x : IsFiniteSet(Low(x)) /\ Rank(I, x) = Cardinality(Low(x))
  BY PositionsFinite DEF Rank
<1>2. Bad = {}
  <2> SUFFICES ASSUME Bad # {} PROVE FALSE
    OBVIOUS
  <2>1. PICK m \in Bad : \A k \in Bad : m <= k
    BY <1>1, SmallestPosition
  <2>2. CASE m = 1
    <3>1. I # {}
      BY <1>1, FS_EmptySet
    <3>2. PICK s \in I : \A k \in I : s <= k
      BY <3>1, SmallestPosition
    <3>3. Low(s) = {s}
      <4>1. \A k \in I : k <= s <=> k = s
        BY <3>2, <1>0
      <4> QED BY <4>1
    <3>4. Rank(I, s) = 1
      BY <3>3, <1>1, FS_Singleton
    <3> QED BY <3>4, <2>2
  <2>3. CASE m # 1
    <3>1. m - 1 \in 1..Cardinality(I) /\ m - 1 \notin Bad
      BY <2>1, <2>3, <1>1
    <3>2. PICK i \in I : Rank(I, i) = m - 1
      BY <3>1
    <3>3. {k \in I : k > i} # {}
      <4> SUFFICES ASSUME {k \in I : k > i} = {} PROVE FALSE
        OBVIOUS
      <4>1. \A k \in I : k <= i
        BY <1>0
      <4>2. Low(i) = I
        BY <4>1
      <4> QED BY <4>2, <3>2, <1>1, <2>1
    <3>4. PICK s \in {k \in I : k > i} : \A k \in {x \in I : x > i} : s <= k
      <4>1. {k \in I : k > i} \in SUBSET (1..N)
        OBVIOUS
      <4> QED BY <4>1, <3>3, SmallestPosition
    <3>5. Low(s) = Low(i) \cup {s} /\ s \notin Low(i)
      <4>1. \A k \in I : k <= s <=> (k <= i \/ k = s)
        BY <3>4, <1>0
      <4>2. ~(s <= i)
        BY <3>4, <1>0
      <4> QED BY <4>1, <4>2
    <3>6. Cardinality(Low(s)) = Cardinality(Low(i)) + 1
      <4>1. IsFiniteSet(Low(i)) /\ s \notin Low(i)
        BY <3>5, <1>1
      <4>2. Cardinality(Low(i) \cup {s}) = Cardinality(Low(i)) + 1
        BY <4>1, FS_AddElement
      <4> QED BY <4>2, <3>5
    <3>7. Rank(I, s) = m
      BY <3>6, <3>2, <1>1, <2>1
    <3> QED BY <3>7, <3>4
  <2> QED BY <2>2, <2>3
<1>3. \E i \in I : Rank(I, i) = n
  BY <1>2
<1> QED BY <1>3 DEF Nth

(* Removing the jobs of js from a queue leaves a queue that holds exactly   *)
(* the other jobs: StartQueue::remove drops every entry of the job, and     *)
(* nothing else.                                                            *)
LEMMA WithoutProperties ==
    ASSUME NEW S, NEW q \in Seq(S), NEW js
    PROVE  /\ Without(q, js) \in Seq(S)
           /\ ToSet(Without(q, js)) = ToSet(q) \ js
<1> DEFINE I == Surviving(q, js)
<1> DEFINE w == Without(q, js)
<1>0. Len(q) \in Nat /\ I \in SUBSET (1..Len(q))
  BY DEF Surviving
<1>1. Len(q) \in Nat /\ I \in SUBSET (1..Len(q)) /\ Cardinality(I) \in Nat
  BY <1>0, PositionsFinite
<1>2. \A n \in 1..Cardinality(I) : Nth(I, n) \in I /\ Rank(I, Nth(I, n)) = n
  BY <1>1, NthExists
<1>3. w = [n \in 1..Cardinality(I) |-> q[Nth(I, n)]]
  BY DEF Without
<1>4. \A n \in 1..Cardinality(I) : q[Nth(I, n)] \in S \ js
  BY <1>2 DEF Surviving
<1>5. w \in Seq(S) /\ Len(w) = Cardinality(I)
  BY <1>1, <1>3, <1>4
<1>6. ToSet(w) \subseteq ToSet(q) \ js
  <2>1. \A n \in 1..Cardinality(I) : Nth(I, n) \in 1..Len(q)
    BY <1>1, <1>2
  <2>2. \A i \in 1..Len(q) : q[i] \in ToSet(q)
    BY DEF ToSet
  <2> QED BY <2>1, <2>2, <1>3, <1>4 DEF ToSet
<1>7. ASSUME NEW j \in ToSet(q) \ js PROVE j \in ToSet(w)
  <2>1. PICK i \in 1..Len(q) : q[i] = j
    BY <1>7 DEF ToSet
  <2>2. i \in I
    BY <2>1, <1>7 DEF Surviving
  <2>3. Rank(I, i) \in 1..Cardinality(I)
    BY <2>2, <1>1, RankProperties
  <2>4. Nth(I, Rank(I, i)) = i
    <3> DEFINE p == Nth(I, Rank(I, i))
    <3>1. p \in I /\ Rank(I, p) = Rank(I, i)
      BY <2>3, <1>2
    <3>2. p < i => Rank(I, p) + 1 <= Rank(I, i)
      BY <3>1, <2>2, <1>0, RankProperties
    <3>3. i < p => Rank(I, i) + 1 <= Rank(I, p)
      BY <3>1, <2>2, <1>0, RankProperties
    <3>4. p \in Int /\ i \in Int /\ Rank(I, i) \in Int
      BY <3>1, <2>2, <2>3, <1>0
    <3>5. p = i
      <4> HIDE DEF p
      <4> QED BY <3>1, <3>2, <3>3, <3>4
    <3> QED BY <3>5
  <2>5. w[Rank(I, i)] = j
    BY <2>3, <2>4, <2>1, <1>3
  <2> QED BY <2>3, <2>5, <1>3 DEF ToSet
<1> QED BY <1>5, <1>6, <1>7

(* Selecting the entries of js keeps exactly those jobs of the queue.       *)
LEMMA OnlyProperties ==
    ASSUME NEW S, NEW q \in Seq(S), NEW js
    PROVE  /\ Only(q, js) \in Seq(S)
           /\ ToSet(Only(q, js)) = ToSet(q) \cap js
<1>1. ToSet(q) \ (ToSet(q) \ js) = ToSet(q) \cap js
  OBVIOUS
<1> QED BY <1>1, WithoutProperties DEF Only

(* StartQueue::push adds its job and keeps the others.                      *)
LEMMA AppendSet ==
    ASSUME NEW S, NEW q \in Seq(S), NEW e \in S
    PROVE  ToSet(Append(q, e)) = ToSet(q) \cup {e}
<1> DEFINE a == Append(q, e)
<1>1. Len(a) = Len(q) + 1 /\ a[Len(q) + 1] = e /\ \A i \in 1..Len(q) : a[i] = q[i]
  OBVIOUS
<1>2. Len(q) \in Nat
  OBVIOUS
<1> HIDE DEF a
<1>3. 1..Len(a) = 1..Len(q) \cup {Len(q) + 1}
  BY <1>1, <1>2
<1> QED BY <1>1, <1>3 DEF ToSet, a

(* Two entries of the queue that survive a removal were different before:    *)
(* StartQueue::remove makes no copies.                                      *)
LEMMA WithoutDistinct ==
    ASSUME NEW S, NEW q \in Seq(S), NEW js,
           \A i, k \in 1..Len(q) : q[i] = q[k] => i = k
    PROVE  \A i, k \in 1..Len(Without(q, js)) :
              Without(q, js)[i] = Without(q, js)[k] => i = k
<1> DEFINE I == Surviving(q, js)
           w == Without(q, js)
<1>1. Len(q) \in Nat /\ I \in SUBSET (1..Len(q)) /\ Cardinality(I) \in Nat
  <2>1. Len(q) \in Nat /\ I \in SUBSET (1..Len(q))
    BY DEF Surviving
  <2> QED BY <2>1, PositionsFinite
<1>2. \A n \in 1..Cardinality(I) : Nth(I, n) \in I /\ Rank(I, Nth(I, n)) = n
  BY <1>1, NthExists
<1>3. w = [n \in 1..Cardinality(I) |-> q[Nth(I, n)]] /\ Len(w) = Cardinality(I)
  BY <1>1 DEF Without
<1>4. ASSUME NEW i \in 1..Cardinality(I), NEW k \in 1..Cardinality(I), w[i] = w[k]
      PROVE  i = k
  <2>1. q[Nth(I, i)] = q[Nth(I, k)]
    BY <1>3, <1>4
  <2>2. Nth(I, i) \in 1..Len(q) /\ Nth(I, k) \in 1..Len(q)
    BY <1>1, <1>2
  <2>3. Nth(I, i) = Nth(I, k)
    BY <2>1, <2>2
  <2> QED BY <2>3, <1>2
<1> QED BY <1>3, <1>4

-----------------------------------------------------------------------------

(* A request that is being served is about a job, and one that has a        *)
(* container in hand knows which.                                           *)
HoldsContainer == {"finish", "discard", "record", "abandon", "remove", "forget", "reap_known"}
TaskFine(r) ==
    /\ r.pc # "idle" => r.job \in Jobs
    /\ r.pc \in HoldsContainer => r.cid \in Cids
TaskOK == task \in [Tasks -> TaskRecords] /\ \A t \in Tasks : TaskFine(task[t])

(* A tick that is handling one start has that start at the head of its list. *)
TickOK == tick \in {"unstart", "requeue", "vanish"} => start # <<>>

TypeInv == TypeOK /\ TaskOK /\ TickOK

-----------------------------------------------------------------------------
(* Task records.                                                            *)

LEMMA IdleType == Idle \in TaskRecords /\ TaskFine(Idle)
BY DEF Idle, TaskRecords, TaskPcs, TaskFine, HoldsContainer

(* Replacing one task record by a fine one.                                 *)
LEMMA SetTask ==
    ASSUME TaskOK, NEW t \in Tasks, NEW r \in TaskRecords, TaskFine(r),
           task' = [task EXCEPT ![t] = r]
    PROVE  TaskOK'
<1>1. \A u \in Tasks : task'[u] = IF u = t THEN r ELSE task[u]
  BY DEF TaskOK
<1>2. task' \in [Tasks -> TaskRecords]
  BY DEF TaskOK
<1>3. \A u \in Tasks : TaskFine(task'[u])
  BY <1>1 DEF TaskOK
<1> QED BY <1>2, <1>3 DEF TaskOK

(* Moving a task on: its pc changes and nothing else of it.                 *)
LEMMA GotoType ==
    ASSUME TaskOK, NEW t \in Tasks, NEW pc \in TaskPcs, Goto(t, pc),
           task[t].job \in Jobs,
           pc \in HoldsContainer => task[t].cid \in Cids
    PROVE  TaskOK'
<1> DEFINE r == [task[t] EXCEPT !.pc = pc]
<1>1. r \in TaskRecords /\ r.pc = pc /\ r.job = task[t].job /\ r.cid = task[t].cid
  BY DEF TaskOK, TaskRecords
<1>2. TaskFine(r)
  BY <1>1 DEF TaskFine
<1>3. task' = [task EXCEPT ![t] = r]
  BY DEF Goto
<1> HIDE DEF r
<1> QED BY <1>1, <1>2, <1>3, SetTask

LEMMA DoneType ==
    ASSUME TaskOK, NEW t \in Tasks, Done(t)
    PROVE  TaskOK'
BY IdleType, SetTask DEF Done

(* A busy task has a job; one that holds a container knows it.              *)
LEMMA TaskFacts ==
    ASSUME TaskOK, NEW t \in Tasks
    PROVE  /\ task[t] \in TaskRecords
           /\ task[t].pc # "idle" => task[t].job \in Jobs
           /\ task[t].pc \in HoldsContainer => task[t].cid \in Cids
BY DEF TaskOK, TaskFine

(* destroy's inspect either ends the request or hands it its container.     *)
LEMMA InspectType ==
    ASSUME TaskOK, NEW t \in Tasks, NEW c \in Cids, NEW rel \in BOOLEAN,
           DestroyInspects(t, c, rel)
    PROVE  TaskOK'
<1> DEFINE r == [Idle EXCEPT !.pc = "remove", !.job = JobOf[c], !.cid = c, !.rel = rel]
<1>1. r \in TaskRecords /\ TaskFine(r)
  BY DaemonAssumption DEF Idle, TaskRecords, TaskPcs, TaskFine, HoldsContainer
<1>2. CASE Done(t)
  BY <1>2, DoneType
<1>3. CASE task' = [task EXCEPT ![t] = r]
  BY <1>1, <1>3, SetTask
<1> QED BY <1>2, <1>3 DEF DestroyInspects

(* The bookkeeping values stay what they are under every method.            *)
LEMMA GateType ==
    ASSUME NEW g \in GateStates, NEW j \in Jobs
    PROVE  /\ Admit(g, j) \in GateStates /\ AdoptRunning(g, j) \in GateStates
           /\ Unstart(g, j) \in GateStates /\ Release(g, j) \in GateStates
BY DEF GateStates, Entries, Admit, AdoptRunning, Unstart, Release, ReleaseAll

LEMMA GateAll ==
    ASSUME NEW g \in GateStates, NEW js \in SUBSET Jobs
    PROVE  ReleaseAll(g, js) \in GateStates /\ StartAll(g, js) \in GateStates
BY DEF GateStates, Entries, ReleaseAll, StartAll

LEMMA RegistryAll ==
    ASSUME NEW r \in RegistryStates(Jobs), NEW js \in SUBSET Jobs
    PROVE  ForgetAll(r, js) \in RegistryStates(Jobs)
BY DEF RegistryStates, ForgetAll, JobStates

LEMMA RegistryType ==
    ASSUME NEW r \in RegistryStates(Jobs), NEW j \in Jobs
    PROVE  /\ BeginCreate(r, j) \in RegistryStates(Jobs)
           /\ \A c \in Cids : FinishCreate(r, j, c) \in RegistryStates(Jobs)
           /\ AbandonCreate(r, j) \in RegistryStates(Jobs)
           /\ Reap(r, j) \in RegistryStates(Jobs)
           /\ Forget(r, j) \in RegistryStates(Jobs)
           /\ ReapKnown(r, j) \in Cids \cup {NoCid}
<1>1. Absent \in JobStates /\ Creating \in JobStates /\ Reaped \in JobStates
      /\ \A c \in Cids : Created(c) \in JobStates
  BY DEF JobStates
<1>2. \A x \in JobStates : x.cid \in Cids \cup {NoCid}
  BY DEF JobStates, Absent, Creating, Reaped, Stale, Created
<1>3. Prune(r) \in RegistryStates(Jobs)
  BY <1>1 DEF RegistryStates, Prune
<1> HIDE DEF JobStates
<1> QED BY <1>1, <1>2, <1>3 DEF RegistryStates, BeginCreate, FinishCreate, AbandonCreate,
                               Reap, Forget, ForgetAll, ReapKnown

-----------------------------------------------------------------------------
(* Type correctness, one lemma per group of actions of Next.                *)

LEMMA TypeInit == Init => TypeInv
<1> SUFFICES ASSUME Init PROVE TypeInv
  OBVIOUS
<1>1. EmptyGate \in GateStates
  BY DEF EmptyGate, GateStates, Entries
<1>2. EmptyRegistry(Jobs) \in RegistryStates(Jobs)
  BY DEF EmptyRegistry, RegistryStates, JobStates
<1>3. Unseen \in [Cids -> Sightings]
  BY DEF Unseen, Sightings
<1>4. task \in [Tasks -> TaskRecords] /\ TaskOK
  BY IdleType DEF Init, TaskOK
<1>5. TickOK
  BY DEF Init, TickOK
<1>6. created \in [Jobs -> Cids \cup {NoCid}]
  BY DEF Init, NoCreated
<1>7. docker \in [Cids -> ContainerStates]
  BY DEF Init, ContainerStates
<1>8. posts \in [Jobs -> 0..MaxPosts] /\ pulls \in 0..PullAttempts /\ crashes \in 0..MaxCrashes
  BY DaemonAssumption DEF Init
<1>9. queue \in Seq(Jobs) /\ start \in Seq(StartRequests)
  BY DEF Init
<1> QED BY <1>1, <1>2, <1>3, <1>4, <1>5, <1>6, <1>7, <1>8, <1>9 DEF Init, TypeInv, TypeOK

(* A new request: the task record of an idle slot is replaced.              *)
LEMMA TypeRequest ==
    ASSUME TypeInv, NEW t \in Tasks, Request(t)
    PROVE  TypeInv'
<1> USE DEF memory, startup, ticker, world, bounds
<1>1. ASSUME NEW j \in Jobs, CreateJob(t, j) PROVE TypeInv'
  <2> DEFINE r == [Idle EXCEPT !.pc = "begin", !.job = j]
  <2>1. gate' \in GateStates
    BY <1>1, GateType DEF CreateJob, TypeInv, TypeOK
  <2>2. r \in TaskRecords /\ TaskFine(r)
    BY DEF Idle, TaskRecords, TaskPcs, TaskFine, HoldsContainer
  <2>3. TaskOK'
    BY <1>1, <2>2, SetTask DEF CreateJob, TypeInv
  <2>4. posts' \in [Jobs -> 0..MaxPosts]
    BY <1>1, DaemonAssumption DEF CreateJob, TypeInv, TypeOK
  <2> QED BY <1>1, <2>1, <2>3, <2>4 DEF CreateJob, TypeInv, TypeOK, TaskOK, TickOK
<1>2. ASSUME NEW j \in Jobs, ReapJob(t, j) PROVE TypeInv'
  <2> DEFINE known == ReapKnown(registry, j)
             r == [Idle EXCEPT !.job = j, !.cid = known,
                       !.pc = IF known = NoCid THEN "reap_list" ELSE "reap_known"]
  <2>1. registry' \in RegistryStates(Jobs) /\ known \in Cids \cup {NoCid}
    BY <1>2, RegistryType DEF ReapJob, TypeInv, TypeOK
  <2> HIDE DEF known
  <2>2. r \in TaskRecords /\ TaskFine(r)
    BY <2>1 DEF Idle, TaskRecords, TaskPcs, TaskFine, HoldsContainer
  <2>3. task' = [task EXCEPT ![t] = r]
    BY <1>2 DEF ReapJob, known
  <2>4. TaskOK'
    BY <2>2, <2>3, SetTask DEF TypeInv
  <2> QED BY <1>2, <2>1, <2>4 DEF ReapJob, TypeInv, TypeOK, TaskOK, TickOK
<1>3. ASSUME NEW c \in Cids, DestroyJob(t, c) PROVE TypeInv'
  <2>1. TaskOK'
    BY <1>3, InspectType DEF DestroyJob, TypeInv
  <2> QED BY <1>3, <2>1 DEF DestroyJob, TypeInv, TypeOK, TaskOK, TickOK
<1> QED BY <1>1, <1>2, <1>3 DEF Request

LEMMA TypeCreateStep ==
    ASSUME TypeInv, NEW t \in Tasks, CreateStep(t)
    PROVE  TypeInv'
<1> USE DEF memory, startup, ticker, world, bounds
<1>0. TaskOK
  BY DEF TypeInv
<1>1. CASE CreateClaims(t)
  <2>1. task[t].job \in Jobs
    BY <1>0, <1>1, TaskFacts DEF CreateClaims
  <2>2. registry' \in RegistryStates(Jobs)
    BY <1>1, <2>1, RegistryType DEF CreateClaims, TypeInv, TypeOK
  <2>3. TaskOK'
    BY <1>0, <1>1, <2>1, GotoType DEF CreateClaims, TaskPcs, HoldsContainer
  <2> QED BY <1>1, <2>2, <2>3 DEF CreateClaims, TypeInv, TypeOK, TaskOK, TickOK
<1>2. CASE CreateFails(t)
  <2>1. task[t].job \in Jobs
    BY <1>0, <1>2, TaskFacts DEF CreateFails
  <2>2. registry' \in RegistryStates(Jobs)
    BY <1>2, <2>1, RegistryType DEF CreateFails, TypeInv, TypeOK
  <2>3. TaskOK'
    BY <1>0, <1>2, <2>1, GotoType DEF CreateFails, TaskPcs, HoldsContainer
  <2> QED BY <1>2, <2>2, <2>3 DEF CreateFails, TypeInv, TypeOK, TaskOK, TickOK
<1>3. CASE CreateFinishes(t)
  <2>1. task[t].job \in Jobs /\ task[t].cid \in Cids
    BY <1>0, <1>3, TaskFacts DEF CreateFinishes, HoldsContainer
  <2>2. registry' \in RegistryStates(Jobs)
    BY <1>3, <2>1, RegistryType DEF CreateFinishes, TypeInv, TypeOK
  <2>3. TaskOK'
    BY <1>0, <1>3, <2>1, GotoType DEF CreateFinishes, TaskPcs
  <2> QED BY <1>3, <2>2, <2>3 DEF CreateFinishes, TypeInv, TypeOK, TaskOK, TickOK
<1>4. CASE CreateDiscards(t)
  <2>1. task[t].job \in Jobs /\ task[t].cid \in Cids
    BY <1>0, <1>4, TaskFacts DEF CreateDiscards, HoldsContainer
  <2>2. docker' \in [Cids -> ContainerStates]
    BY <1>4 DEF CreateDiscards, ForceRemove, Removed, TypeInv, TypeOK, ContainerStates
  <2>3. TaskOK'
    BY <1>0, <1>4, <2>1, GotoType DEF CreateDiscards, TaskPcs
  <2> QED BY <1>4, <2>2, <2>3 DEF CreateDiscards, TypeInv, TypeOK, TaskOK, TickOK
<1>5. CASE RememberCreated(t)
  <2>1. task[t].job \in Jobs /\ task[t].cid \in Cids
    BY <1>0, <1>5, TaskFacts DEF RememberCreated, HoldsContainer
  <2>2. queue' \in Seq(Jobs)
    <3>1. queue \in Seq(Jobs)
      BY DEF TypeInv, TypeOK
    <3>2. Append(queue, task[t].job) \in Seq(Jobs)
      BY <3>1, <2>1
    <3>3. queue' = Append(queue, task[t].job) \/ queue' = queue
      BY <1>5 DEF RememberCreated
    <3> QED BY <3>1, <3>2, <3>3
  <2>3. created' \in [Jobs -> Cids \cup {NoCid}]
    BY <1>5, <2>1 DEF RememberCreated, TypeInv, TypeOK
  <2>4. TaskOK'
    <3>1. CASE Done(t)
      BY <1>0, <3>1, DoneType
    <3>2. CASE Goto(t, "abandon")
      BY <1>0, <2>1, <3>2, GotoType DEF TaskPcs
    <3> QED BY <1>5, <3>1, <3>2 DEF RememberCreated
  <2> QED BY <1>5, <2>2, <2>3, <2>4 DEF RememberCreated, TypeInv, TypeOK, TaskOK, TickOK
<1>6. CASE AbandonUntracked(t)
  <2>1. task[t].cid \in Cids
    BY <1>0, <1>6, TaskFacts DEF AbandonUntracked, HoldsContainer
  <2>2. TaskOK'
    BY <1>0, <1>6, <2>1, InspectType DEF AbandonUntracked
  <2> QED BY <1>6, <2>2 DEF AbandonUntracked, TypeInv, TypeOK, TaskOK, TickOK
<1>7. ASSUME NEW c \in Cids, DockerCreates(t, c) PROVE TypeInv'
  <2>1. task[t].job \in Jobs
    BY <1>0, <1>7, TaskFacts DEF DockerCreates
  <2>2. docker' \in [Cids -> ContainerStates]
    BY <1>7 DEF DockerCreates, TypeInv, TypeOK, ContainerStates
  <2>3. TaskOK'
    <3>1. CASE Goto(t, "failed")
      BY <1>0, <2>1, <3>1, GotoType DEF TaskPcs, HoldsContainer
    <3>2. CASE task' = [task EXCEPT ![t].pc = "finish", ![t].cid = c]
      <4> DEFINE r == [task[t] EXCEPT !.pc = "finish", !.cid = c]
      <4>1. r \in TaskRecords /\ TaskFine(r)
        BY <1>0, <2>1 DEF TaskOK, TaskRecords, TaskPcs, TaskFine
      <4>2. task' = [task EXCEPT ![t] = r]
        BY <3>2, <1>0 DEF TaskOK
      <4> QED BY <1>0, <4>1, <4>2, SetTask
    <3> QED BY <1>7, <3>1, <3>2 DEF DockerCreates
  <2> QED BY <1>7, <2>2, <2>3 DEF DockerCreates, TypeInv, TypeOK, TaskOK, TickOK
<1> QED BY <1>1, <1>2, <1>3, <1>4, <1>5, <1>6, <1>7 DEF CreateStep

LEMMA TypeDestroyStep ==
    ASSUME TypeInv, NEW t \in Tasks, DestroyStep(t) \/ DestroyDisconnected(t)
    PROVE  TypeInv'
<1> USE DEF memory, startup, ticker, world, bounds
<1>0. TaskOK
  BY DEF TypeInv
<1>1. CASE DestroyRemoves(t)
  <2>1. task[t].job \in Jobs /\ task[t].cid \in Cids
    BY <1>0, <1>1, TaskFacts DEF DestroyRemoves, HoldsContainer
  <2>2. docker' \in [Cids -> ContainerStates]
    BY <1>1 DEF DestroyRemoves, Removed, TypeInv, TypeOK, ContainerStates
  <2>3. TaskOK'
    <3>1. CASE Goto(t, "forget")
      BY <1>0, <2>1, <3>1, GotoType DEF TaskPcs
    <3>2. CASE Done(t)
      BY <1>0, <3>2, DoneType
    <3> QED BY <1>1, <3>1, <3>2 DEF DestroyRemoves
  <2> QED BY <1>1, <2>2, <2>3 DEF DestroyRemoves, TypeInv, TypeOK, TaskOK, TickOK
<1>2. CASE DestroyForgets(t)
  <2>1. task[t].job \in Jobs
    BY <1>0, <1>2, TaskFacts DEF DestroyForgets
  <2>2. registry' \in RegistryStates(Jobs)
    BY <1>2, <2>1, RegistryType DEF DestroyForgets, TypeInv, TypeOK
  <2>3. TaskOK'
    <3>1. CASE Goto(t, "rel_gate")
      BY <1>0, <2>1, <3>1, GotoType DEF TaskPcs, HoldsContainer
    <3>2. CASE Done(t)
      BY <1>0, <3>2, DoneType
    <3> QED BY <1>2, <3>1, <3>2 DEF DestroyForgets
  <2> QED BY <1>2, <2>2, <2>3 DEF DestroyForgets, TypeInv, TypeOK, TaskOK, TickOK
<1>3. CASE DestroyDisconnected(t)
  <2>1. TaskOK'
    BY <1>0, <1>3, DoneType DEF DestroyDisconnected
  <2> QED BY <1>3, <2>1 DEF DestroyDisconnected, TypeInv, TypeOK, TaskOK, TickOK
<1> QED BY <1>1, <1>2, <1>3 DEF DestroyStep

LEMMA TypeReapStep ==
    ASSUME TypeInv, NEW t \in Tasks, ReapStep(t)
    PROVE  TypeInv'
<1> USE DEF memory, startup, ticker, world, bounds
<1>0. TaskOK
  BY DEF TypeInv
<1>1. task[t].pc # "idle" => task[t].job \in Jobs
  BY <1>0, TaskFacts
<1>2. CASE ReapRemovesKnown(t)
  <2>1. docker' \in [Cids -> ContainerStates]
    BY <1>2 DEF ReapRemovesKnown, Removed, TypeInv, TypeOK, ContainerStates
  <2>2. TaskOK'
    <3>1. CASE Goto(t, "reap_list")
      BY <1>0, <1>1, <1>2, <3>1, GotoType DEF ReapRemovesKnown, TaskPcs, HoldsContainer
    <3>2. CASE task' = [task EXCEPT ![t].pc = "reap_list", ![t].ok = FALSE]
      <4> DEFINE r == [task[t] EXCEPT !.pc = "reap_list", !.ok = FALSE]
      <4>1. r \in TaskRecords /\ TaskFine(r)
        BY <1>0, <1>1, <1>2 DEF ReapRemovesKnown, TaskOK, TaskRecords, TaskPcs, TaskFine, HoldsContainer
      <4>2. task' = [task EXCEPT ![t] = r]
        BY <3>2, <1>0 DEF TaskOK
      <4> QED BY <1>0, <4>1, <4>2, SetTask
    <3> QED BY <1>2, <3>1, <3>2 DEF ReapRemovesKnown
  <2> QED BY <1>2, <2>1, <2>2 DEF ReapRemovesKnown, TypeInv, TypeOK, TaskOK, TickOK
<1>3. CASE ReapLists(t)
  <2> DEFINE r(left, ok) == [task[t] EXCEPT !.pc = "reap_listed", !.left = left, !.ok = ok]
  <2>1. ASSUME NEW left \in SUBSET Cids, NEW ok \in BOOLEAN
        PROVE  r(left, ok) \in TaskRecords /\ TaskFine(r(left, ok))
    <3>1. task[t] \in TaskRecords /\ task[t].job \in Jobs
      BY <1>0, <1>1, <1>3 DEF ReapLists, TaskOK
    <3>2. r(left, ok) \in TaskRecords
      BY <3>1 DEF TaskRecords, TaskPcs
    <3>3. r(left, ok).pc = "reap_listed" /\ r(left, ok).job = task[t].job
      BY <3>1 DEF TaskRecords
    <3> QED BY <3>1, <3>2, <3>3 DEF TaskFine, HoldsContainer
  <2>2. PICK left \in SUBSET Cids, ok \in BOOLEAN : task' = [task EXCEPT ![t] = r(left, ok)]
    <3>1. task[t] \in TaskRecords
      BY <1>0 DEF TaskOK
    <3>2. {c \in Live(docker) : JobOf[c] = task[t].job} \in SUBSET Cids
      BY DEF Live
    <3>3. CASE task' = [task EXCEPT ![t].pc = "reap_listed",
                          ![t].left = {c \in Live(docker) : JobOf[c] = task[t].job}]
      <4>1. task' = [task EXCEPT ![t] = r({c \in Live(docker) : JobOf[c] = task[t].job}, task[t].ok)]
        BY <3>1, <3>3, <1>0 DEF TaskOK, TaskRecords
      <4> QED BY <3>1, <3>2, <4>1 DEF TaskRecords
    <3>4. CASE task' = [task EXCEPT ![t].pc = "reap_listed", ![t].ok = FALSE]
      <4>1. task' = [task EXCEPT ![t] = r(task[t].left, FALSE)]
        BY <3>1, <3>4, <1>0 DEF TaskOK, TaskRecords
      <4> QED BY <3>1, <4>1 DEF TaskRecords
    <3> QED BY <1>3, <3>3, <3>4 DEF ReapLists
  <2>3. TaskOK'
    BY <1>0, <2>1, <2>2, SetTask
  <2> QED BY <1>3, <2>3 DEF ReapLists, TypeInv, TypeOK, TaskOK, TickOK
<1>4. CASE ReapSettles(t)
  <2>1. TaskOK'
    <3>1. CASE Goto(t, "rel_gate")
      BY <1>0, <1>1, <1>4, <3>1, GotoType DEF ReapSettles, TaskPcs, HoldsContainer
    <3>2. CASE Done(t)
      BY <1>0, <3>2, DoneType
    <3> QED BY <1>4, <3>1, <3>2 DEF ReapSettles
  <2> QED BY <1>4, <2>1 DEF ReapSettles, TypeInv, TypeOK, TaskOK, TickOK
<1>5. ASSUME NEW c \in Cids, ReapRemovesListed(t, c) PROVE TypeInv'
  <2>1. docker' \in [Cids -> ContainerStates]
    BY <1>5 DEF ReapRemovesListed, Removed, TypeInv, TypeOK, ContainerStates
  <2>2. TaskOK'
    <3> DEFINE r(ok) == [task[t] EXCEPT !.left = @ \ {c}, !.ok = ok]
    <3>1. \A ok \in BOOLEAN : r(ok) \in TaskRecords /\ TaskFine(r(ok))
      BY <1>0, <1>1, <1>5 DEF ReapRemovesListed, TaskOK, TaskRecords, TaskPcs, TaskFine, HoldsContainer
    <3>2. task[t] \in TaskRecords
      BY <1>0 DEF TaskOK
    <3>3. CASE task' = [task EXCEPT ![t].left = @ \ {c}]
      <4>1. task' = [task EXCEPT ![t] = r(task[t].ok)] /\ task[t].ok \in BOOLEAN
        BY <3>2, <3>3, <1>0 DEF TaskOK, TaskRecords
      <4> QED BY <1>0, <3>1, <4>1, SetTask
    <3>4. CASE task' = [task EXCEPT ![t].left = @ \ {c}, ![t].ok = FALSE]
      <4>1. task' = [task EXCEPT ![t] = r(FALSE)]
        BY <3>2, <3>4, <1>0 DEF TaskOK, TaskRecords
      <4> QED BY <1>0, <3>1, <4>1, SetTask
    <3> QED BY <1>5, <3>3, <3>4 DEF ReapRemovesListed
  <2> QED BY <1>5, <2>1, <2>2 DEF ReapRemovesListed, TypeInv, TypeOK, TaskOK, TickOK
<1> QED BY <1>2, <1>3, <1>4, <1>5 DEF ReapStep

LEMMA TypeReleaseStep ==
    ASSUME TypeInv, NEW t \in Tasks, ReleaseStep(t)
    PROVE  TypeInv'
<1> USE DEF memory, startup, ticker, world, bounds
<1>0. TaskOK
  BY DEF TypeInv
<1>1. CASE ReleaseGate(t)
  <2>1. task[t].job \in Jobs
    BY <1>0, <1>1, TaskFacts DEF ReleaseGate
  <2>2. gate' \in GateStates
    BY <1>1, <2>1, GateType DEF ReleaseGate, TypeInv, TypeOK
  <2>3. TaskOK'
    BY <1>0, <1>1, <2>1, GotoType DEF ReleaseGate, TaskPcs, HoldsContainer
  <2> QED BY <1>1, <2>2, <2>3 DEF ReleaseGate, TypeInv, TypeOK, TaskOK, TickOK
<1>2. CASE ReleaseQueue(t)
  <2>1. task[t].job \in Jobs
    BY <1>0, <1>2, TaskFacts DEF ReleaseQueue
  <2>2. queue' \in Seq(Jobs)
    BY <1>2, WithoutProperties DEF ReleaseQueue, TypeInv, TypeOK
  <2>3. TaskOK'
    BY <1>0, <1>2, <2>1, GotoType DEF ReleaseQueue, TaskPcs, HoldsContainer
  <2> QED BY <1>2, <2>2, <2>3 DEF ReleaseQueue, TypeInv, TypeOK, TaskOK, TickOK
<1>3. CASE ReleaseCreated(t)
  <2>1. created' \in [Jobs -> Cids \cup {NoCid}]
    BY <1>3 DEF ReleaseCreated, ForgetCreated, TypeInv, TypeOK
  <2>2. TaskOK'
    BY <1>0, <1>3, DoneType DEF ReleaseCreated
  <2> QED BY <1>3, <2>1, <2>2 DEF ReleaseCreated, TypeInv, TypeOK, TaskOK, TickOK
<1> QED BY <1>1, <1>2, <1>3 DEF ReleaseStep

(* What the tick's critical section computes, given what it starts.         *)
LEMMA TypeReconcile ==
    ASSUME TypeInv, TickReconciles
    PROVE  TypeInv'
<1> USE DEF memory, startup, ticker, world, bounds
<1> DEFINE q == Without(queue, Released)
           g == ReleaseAll(gate, Released)
           m == ForgetCreated(created, Released)
           Startable(S) == {j \in S : m[j] # NoCid}
           requested(S) == Only(q, Startable(S))
<1>0. Released \in SUBSET Jobs
  BY DaemonAssumption DEF Released, Doomed, Vanished, RunningIds
<1>1. PICK S \in SUBSET ToSet(q) :
        /\ gate' = StartAll(g, S)
        /\ queue' = Without(q, S)
        /\ created' = m
        /\ start' = [n \in 1..Len(requested(S)) |->
                        [job |-> requested(S)[n], cid |-> m[requested(S)[n]]]]
  BY DEF TickReconciles
<1>2. q \in Seq(Jobs) /\ g \in GateStates /\ m \in [Jobs -> Cids \cup {NoCid}]
  <2>1. q \in Seq(Jobs)
    BY WithoutProperties DEF TypeInv, TypeOK
  <2>2. g \in GateStates
    BY <1>0, GateAll DEF TypeInv, TypeOK
  <2>3. m \in [Jobs -> Cids \cup {NoCid}]
    BY DEF ForgetCreated, TypeInv, TypeOK
  <2> QED BY <2>1, <2>2, <2>3
<1>3. registry' \in RegistryStates(Jobs)
  BY <1>0, RegistryAll DEF TickReconciles, TypeInv, TypeOK
<1> HIDE DEF q, g, m
<1>4. S \in SUBSET Jobs
  BY <1>1, <1>2 DEF ToSet
<1>5. gate' \in GateStates /\ queue' \in Seq(Jobs) /\ created' \in [Jobs -> Cids \cup {NoCid}]
  <2>1. gate' \in GateStates
    BY <1>1, <1>2, <1>4, GateAll
  <2>2. queue' \in Seq(Jobs)
    BY <1>1, <1>2, WithoutProperties
  <2> QED BY <1>1, <1>2, <2>1, <2>2
<1>6. start' \in Seq(StartRequests)
  <2> DEFINE w == requested(S)
  <2>1. w \in Seq(Jobs) /\ ToSet(w) \subseteq Startable(S)
    BY <1>2, OnlyProperties
  <2>2. Len(w) \in Nat
    BY <2>1
  <2>3. \A n \in 1..Len(w) : w[n] \in Jobs /\ m[w[n]] \in Cids
    <3>1. \A n \in 1..Len(w) : w[n] \in ToSet(w)
      <4> HIDE DEF w
      <4> QED BY DEF ToSet
    <3>2. \A n \in 1..Len(w) : w[n] \in Startable(S)
      <4> HIDE DEF w
      <4> QED BY <2>1, <3>1
    <3> QED BY <3>2, <1>2, <1>4
  <2>4. start' = [n \in 1..Len(w) |-> [job |-> w[n], cid |-> m[w[n]]]]
    BY <1>1
  <2> HIDE DEF w
  <2>5. \A n \in 1..Len(w) : [job |-> w[n], cid |-> m[w[n]]] \in StartRequests
    BY <2>3 DEF StartRequests
  <2> QED BY <2>2, <2>4, <2>5
<1>7. remove' \in SUBSET Cids /\ snap' \in [Cids -> Sightings] /\ now' \in SUBSET Jobs
  BY DEF TickReconciles, Doomed, Unseen, Sightings
<1> QED BY <1>3, <1>5, <1>6, <1>7 DEF TickReconciles, TypeInv, TypeOK, TaskOK, TickOK

LEMMA TypeTick ==
    ASSUME TypeInv, TickStep
    PROVE  TypeInv'
<1> USE DEF memory, startup, ticker, world, bounds
<1>0. start \in Seq(StartRequests) /\ TaskOK
  BY DEF TypeInv, TypeOK
<1>1. start # <<>> => /\ Tail(start) \in Seq(StartRequests)
                      /\ Head(start).job \in Jobs /\ Head(start).cid \in Cids
  <2> SUFFICES ASSUME start # <<>>
               PROVE  /\ Tail(start) \in Seq(StartRequests)
                      /\ Head(start).job \in Jobs /\ Head(start).cid \in Cids
    OBVIOUS
  <2>1. Tail(start) \in Seq(StartRequests) /\ Head(start) \in StartRequests
    BY <1>0
  <2> QED BY <2>1 DEF StartRequests
<1>2. CASE TickLists
  <2>1. snap' \in [Cids -> Sightings]
    BY <1>2 DEF TickLists, Sighting, Sightings, Live, Unseen, TypeInv, TypeOK, ContainerStates
  <2> QED BY <1>2, <2>1 DEF TickLists, TypeInv, TypeOK, TaskOK, TickOK
<1>3. CASE TickReconciles
  BY <1>3, TypeReconcile
<1>4. CASE TickEnds
  BY <1>4 DEF TickEnds, TypeInv, TypeOK, TaskOK, TickOK
<1>5. CASE TickStarts
  <2>1. docker' \in [Cids -> ContainerStates]
    BY <1>5 DEF TickStarts, TypeInv, TypeOK, ContainerStates
  <2>2. start' \in Seq(StartRequests) /\ TickOK'
    BY <1>1, <1>5, <1>0 DEF TickStarts, TickOK, TypeInv, TypeOK
  <2>3. tick' \in {"act", "unstart", "vanish"}
    BY <1>5 DEF TickStarts
  <2> QED BY <1>5, <2>1, <2>2, <2>3 DEF TickStarts, TypeInv, TypeOK, TaskOK
<1>6. CASE TickUnstarts
  <2>1. start # <<>>
    BY <1>6 DEF TickUnstarts, TypeInv, TickOK
  <2>2. gate' \in GateStates
    BY <1>1, <1>6, <2>1, GateType DEF TickUnstarts, TypeInv, TypeOK
  <2>3. start' \in Seq(StartRequests) /\ TickOK'
    BY <1>0, <1>1, <1>6, <2>1 DEF TickUnstarts, TickOK
  <2>4. tick' \in {"act", "requeue"}
    BY <1>6 DEF TickUnstarts
  <2> QED BY <1>6, <2>2, <2>3, <2>4 DEF TickUnstarts, TypeInv, TypeOK, TaskOK
<1>7. CASE TickRequeues
  <2>1. start # <<>>
    BY <1>7 DEF TickRequeues, TypeInv, TickOK
  <2>2. queue' \in Seq(Jobs)
    BY <1>1, <1>7, <2>1 DEF TickRequeues, TypeInv, TypeOK
  <2>3. start' \in Seq(StartRequests) /\ TickOK'
    BY <1>1, <1>7, <2>1 DEF TickRequeues, TickOK
  <2> QED BY <1>7, <2>2, <2>3 DEF TickRequeues, TypeInv, TypeOK, TaskOK
<1>8. CASE TickReleasesVanished
  <2>1. start # <<>>
    BY <1>8 DEF TickReleasesVanished, TypeInv, TickOK
  <2>2. gate' \in GateStates /\ registry' \in RegistryStates(Jobs)
    BY <1>1, <1>8, <2>1, GateType, RegistryType DEF TickReleasesVanished, TypeInv, TypeOK
  <2>3. created' \in [Jobs -> Cids \cup {NoCid}]
    BY <1>8 DEF TickReleasesVanished, ForgetCreated, TypeInv, TypeOK
  <2>4. queue' \in Seq(Jobs)
    BY <1>8, WithoutProperties DEF TickReleasesVanished, TypeInv, TypeOK
  <2>5. start' \in Seq(StartRequests) /\ TickOK'
    BY <1>1, <1>8, <2>1 DEF TickReleasesVanished, TickOK
  <2> QED BY <1>8, <2>2, <2>3, <2>4, <2>5 DEF TickReleasesVanished, TypeInv, TypeOK, TaskOK
<1>9. ASSUME NEW c \in Cids, TickRemoves(c) PROVE TypeInv'
  BY <1>9 DEF TickRemoves, ForceRemove, Removed, TypeInv, TypeOK, TaskOK, TickOK, ContainerStates
<1> QED BY <1>2, <1>3, <1>4, <1>5, <1>6, <1>7, <1>8, <1>9 DEF TickStep

(* Start-up after a crash; ProcessGone puts everything in memory back.      *)
LEMMA TypeProcessGone ==
    ASSUME TypeInv, ProcessGone, UNCHANGED <<world, posts>>, crashes' \in 0..MaxCrashes
    PROVE  TypeInv'
<1>1. EmptyGate \in GateStates /\ EmptyRegistry(Jobs) \in RegistryStates(Jobs)
  BY DEF EmptyGate, GateStates, Entries, EmptyRegistry, RegistryStates, JobStates
<1>2. TaskOK'
  BY IdleType DEF ProcessGone, TaskOK
<1>3. NoCreated \in [Jobs -> Cids \cup {NoCid}] /\ Unseen \in [Cids -> Sightings]
  BY DEF NoCreated, Unseen, Sightings
<1>4. pulls' \in 0..PullAttempts
  BY DaemonAssumption DEF ProcessGone
<1>5. queue' \in Seq(Jobs) /\ start' \in Seq(StartRequests)
  BY DEF ProcessGone
<1> QED BY <1>1, <1>2, <1>3, <1>4, <1>5 DEF ProcessGone, TypeInv, TypeOK, TaskOK, TickOK, world

LEMMA TypeStartUp ==
    ASSUME TypeInv, StartUpStep
    PROVE  TypeInv'
<1> USE DEF memory, startup, ticker, world, bounds
<1>1. CASE StartUp
  BY <1>1 DEF StartUp, Live, TypeInv, TypeOK, TaskOK, TickOK
<1>2. CASE AdoptReadsClock
  BY <1>2 DEF AdoptReadsClock, TypeInv, TypeOK, TaskOK, TickOK
<1>3. CASE PullBinds
  <2>1. pulls' \in 0..PullAttempts /\ snap' \in [Cids -> Sightings]
    BY <1>3, DaemonAssumption DEF PullBinds, Unseen, Sightings
  <2> QED BY <1>3, <2>1 DEF PullBinds, TypeInv, TypeOK, TaskOK, TickOK
<1>4. CASE PullFails
  <2>1. pulls' \in 0..PullAttempts
    BY <1>4, DaemonAssumption DEF PullFails, TypeInv, TypeOK
  <2> QED BY <1>4, <2>1 DEF PullFails, TypeInv, TypeOK, TaskOK, TickOK
<1>5. CASE PullGivesUp
  BY <1>5, TypeProcessGone DEF PullGivesUp, TypeInv, TypeOK
<1>6. ASSUME NEW c \in Cids, AdoptInspects(c) PROVE TypeInv'
  <2>1. snap' \in [Cids -> Sightings]
    BY <1>6 DEF AdoptInspects, Sighting, Sightings, Live, TypeInv, TypeOK, ContainerStates
  <2> QED BY <1>6, <2>1 DEF AdoptInspects, TypeInv, TypeOK, TaskOK, TickOK
<1>7. ASSUME NEW c \in Cids, AdoptResumes(c) PROVE TypeInv'
  <2>1. JobOf[c] \in Jobs
    BY DaemonAssumption
  <2>2. gate' \in GateStates
    BY <1>7, <2>1, GateType DEF AdoptResumes, TypeInv, TypeOK
  <2> QED BY <1>7, <2>1, <2>2 DEF AdoptResumes, TypeInv, TypeOK, TaskOK, TickOK
<1>8. ASSUME NEW c \in Cids, AdoptRequeues(c) PROVE TypeInv'
  <2>1. JobOf[c] \in Jobs
    BY DaemonAssumption
  <2>2. gate' \in GateStates
    BY <1>8, <2>1, GateType DEF AdoptRequeues, TypeInv, TypeOK
  <2>3. queue' \in Seq(Jobs)
    BY <1>8, <2>1 DEF AdoptRequeues, TypeInv, TypeOK
  <2> QED BY <1>8, <2>1, <2>2, <2>3 DEF AdoptRequeues, TypeInv, TypeOK, TaskOK, TickOK
<1>9. ASSUME NEW c \in Cids, AdoptDooms(c) PROVE TypeInv'
  BY <1>9 DEF AdoptDooms, TypeInv, TypeOK, TaskOK, TickOK
<1>10. ASSUME NEW c \in Cids, AdoptRemoves(c) PROVE TypeInv'
  BY <1>10 DEF AdoptRemoves, ForceRemove, Removed, TypeInv, TypeOK, TaskOK, TickOK, ContainerStates
<1> QED BY <1>1, <1>2, <1>3, <1>4, <1>5, <1>6, <1>7, <1>8, <1>9, <1>10 DEF StartUpStep

LEMMA TypeEnvironment ==
    ASSUME TypeInv, Environment
    PROVE  TypeInv'
<1> USE DEF memory, startup, ticker, world, bounds
<1>1. CASE Crash
  <2>1. crashes' \in 0..MaxCrashes
    BY <1>1, DaemonAssumption DEF Crash, TypeInv, TypeOK
  <2> QED BY <1>1, <2>1, TypeProcessGone DEF Crash
<1>2. CASE ImageLost \/ ImageRefreshed
  BY <1>2 DEF ImageLost, ImageRefreshed, TypeInv, TypeOK, TaskOK, TickOK
<1>3. ASSUME NEW c \in Cids, ContainerExits(c) PROVE TypeInv'
  BY <1>3 DEF ContainerExits, TypeInv, TypeOK, TaskOK, TickOK, ContainerStates
<1>4. ASSUME NEW j \in Jobs, DeadlinePasses(j) PROVE TypeInv'
  BY <1>4 DEF DeadlinePasses, TypeInv, TypeOK, TaskOK, TickOK
<1>5. ASSUME NEW j \in Jobs, TombstoneAges(j) PROVE TypeInv'
  <2>1. Stale \in JobStates
    BY DEF JobStates
  <2>2. registry' \in RegistryStates(Jobs)
    BY <1>5, <2>1 DEF TombstoneAges, TypeInv, TypeOK, RegistryStates
  <2> QED BY <1>5, <2>2 DEF TombstoneAges, TypeInv, TypeOK, TaskOK, TickOK
<1> QED BY <1>1, <1>2, <1>3, <1>4, <1>5 DEF Environment

LEMMA TypeNext == TypeInv /\ [Next]_vars => TypeInv'
<1> SUFFICES ASSUME TypeInv, [Next]_vars PROVE TypeInv'
  OBVIOUS
<1>1. ASSUME NEW t \in Tasks, Request(t) \/ TaskStep(t) \/ DestroyDisconnected(t) PROVE TypeInv'
  BY <1>1, TypeRequest, TypeCreateStep, TypeDestroyStep, TypeReapStep, TypeReleaseStep DEF TaskStep
<1>2. CASE TickStep \/ StartUpStep \/ Environment
  BY <1>2, TypeTick, TypeStartUp, TypeEnvironment
<1>3. CASE UNCHANGED vars
  BY <1>3 DEF vars, memory, startup, ticker, world, bounds, TypeInv, TypeOK, TaskOK, TickOK
<1> QED BY <1>1, <1>2, <1>3 DEF Next

(* Every value the daemon keeps has its type in every reachable state, for  *)
(* every number of jobs, containers and concurrent requests: in particular  *)
(* the tick never looks at a start request that is not there and no request *)
(* acts on a container it does not hold.                                    *)
THEOREM TypeCorrect == Spec => []TypeOK
<1>1. TypeInv => TypeOK
  BY DEF TypeInv
<1> QED BY <1>1, TypeInit, TypeNext, PTL DEF Spec

-----------------------------------------------------------------------------
(* No ghost entries.  NoGhostEntry is not inductive: it does not say which  *)
(* of the three steps of a release still has to come.  GhostInv does, and   *)
(* excludes the two-lock re-queue of a failed start, which breaks it.       *)

InRelease == {"rel_queue", "rel_created"}
QueueGhost(j) ==
    InQueue(j) /\ ~Tracks(gate, j) =>
        \E t \in Tasks : task[t].job = j /\ task[t].pc = "rel_queue"
CreatedGhost(j) ==
    created[j] # NoCid /\ ~Tracks(gate, j) =>
        \E t \in Tasks : task[t].job = j /\ task[t].pc \in InRelease
GhostInv ==
    /\ \A j \in Jobs : QueueGhost(j) /\ CreatedGhost(j)
    /\ tick \notin {"unstart", "requeue"}

(* A step that drops no admission, adds entries only for admitted jobs and  *)
(* leaves the releases in flight where they are.                            *)
LEMMA GhostKept ==
    ASSUME GhostInv,
           \A j \in Jobs : Tracks(gate, j) => Tracks(gate', j),
           \A j \in Jobs : j \in ToSet(queue') => InQueue(j) \/ Tracks(gate', j),
           \A j \in Jobs : created'[j] # NoCid => created[j] # NoCid \/ Tracks(gate', j),
           \A u \in Tasks : task[u].pc \in InRelease => task'[u] = task[u],
           tick' \notin {"unstart", "requeue"}
    PROVE  GhostInv'
<1>1. ASSUME NEW j \in Jobs PROVE QueueGhost(j)'
  <2> SUFFICES ASSUME j \in ToSet(queue'), ~Tracks(gate', j)
               PROVE  \E t \in Tasks : task'[t].job = j /\ task'[t].pc = "rel_queue"
    BY DEF QueueGhost, InQueue
  <2>1. InQueue(j) /\ ~Tracks(gate, j)
    OBVIOUS
  <2>2. PICK t \in Tasks : task[t].job = j /\ task[t].pc = "rel_queue"
    BY <2>1 DEF GhostInv, QueueGhost
  <2> QED BY <2>2 DEF InRelease
<1>2. ASSUME NEW j \in Jobs PROVE CreatedGhost(j)'
  <2> SUFFICES ASSUME created'[j] # NoCid, ~Tracks(gate', j)
               PROVE  \E t \in Tasks : task'[t].job = j /\ task'[t].pc \in InRelease
    BY DEF CreatedGhost
  <2>1. created[j] # NoCid /\ ~Tracks(gate, j)
    OBVIOUS
  <2>2. PICK t \in Tasks : task[t].job = j /\ task[t].pc \in InRelease
    BY <2>1 DEF GhostInv, CreatedGhost
  <2> QED BY <2>2
<1> QED BY <1>1, <1>2 DEF GhostInv

(* The same for a step that leaves the three maps alone.                    *)
LEMMA GhostUntouched ==
    ASSUME GhostInv, gate' = gate, queue' = queue, created' = created,
           \A u \in Tasks : task[u].pc \in InRelease => task'[u] = task[u],
           tick' \notin {"unstart", "requeue"}
    PROVE  GhostInv'
<1>1. \A j \in Jobs : j \in ToSet(queue') => InQueue(j)
  BY DEF InQueue
<1> QED BY <1>1, GhostKept

LEMMA GhostRequest ==
    ASSUME TypeInv, GhostInv, NEW t \in Tasks, Request(t)
    PROVE  GhostInv'
<1> USE DEF memory, startup, ticker, world, bounds, TypeInv, TaskOK
<1>1. ASSUME NEW j \in Jobs, CreateJob(t, j) PROVE GhostInv'
  <2>1. \A u \in Tasks : task[u].pc \in InRelease => task'[u] = task[u]
    BY <1>1 DEF CreateJob, Idle, InRelease
  <2>2. \A k \in Jobs : Tracks(gate, k) => Tracks(gate', k)
    BY <1>1 DEF CreateJob, Admit, Tracks, TypeOK, GateStates
  <2> QED BY <1>1, <2>1, <2>2, GhostKept DEF CreateJob, GhostInv, InQueue
<1>2. ASSUME NEW j \in Jobs, ReapJob(t, j) PROVE GhostInv'
  <2>1. \A u \in Tasks : task[u].pc \in InRelease => task'[u] = task[u]
    BY <1>2 DEF ReapJob, Idle, Goto, Done, InRelease
  <2> QED BY <1>2, <2>1, GhostUntouched DEF ReapJob, GhostInv
<1>3. ASSUME NEW c \in Cids, DestroyJob(t, c) PROVE GhostInv'
  <2>1. \A u \in Tasks : task[u].pc \in InRelease => task'[u] = task[u]
    BY <1>3 DEF DestroyJob, DestroyInspects, Idle, Goto, Done, InRelease
  <2> QED BY <1>3, <2>1, GhostUntouched DEF DestroyJob, GhostInv
<1> QED BY <1>1, <1>2, <1>3 DEF Request

LEMMA GhostTask ==
    ASSUME TypeInv, GhostInv, NEW t \in Tasks,
           CreateStep(t) \/ DestroyStep(t) \/ DestroyDisconnected(t) \/ ReapStep(t)
    PROVE  GhostInv'
<1> USE DEF memory, startup, ticker, world, bounds, TypeInv, TaskOK
<1>1. CASE CreateClaims(t)
  <2>1. \A u \in Tasks : task[u].pc \in InRelease => task'[u] = task[u]
    BY <1>1 DEF CreateClaims, Goto, Done, InRelease
  <2> QED BY <1>1, <2>1, GhostUntouched DEF CreateClaims, GhostInv
<1>2. CASE CreateFails(t)
  <2>1. \A u \in Tasks : task[u].pc \in InRelease => task'[u] = task[u]
    BY <1>2 DEF CreateFails, Goto, Done, InRelease
  <2> QED BY <1>2, <2>1, GhostUntouched DEF CreateFails, GhostInv
<1>3. CASE CreateFinishes(t)
  <2>1. \A u \in Tasks : task[u].pc \in InRelease => task'[u] = task[u]
    BY <1>3 DEF CreateFinishes, Goto, Done, InRelease
  <2> QED BY <1>3, <2>1, GhostUntouched DEF CreateFinishes, GhostInv
<1>4. CASE CreateDiscards(t)
  <2>1. \A u \in Tasks : task[u].pc \in InRelease => task'[u] = task[u]
    BY <1>4 DEF CreateDiscards, Goto, Done, InRelease
  <2> QED BY <1>4, <2>1, GhostUntouched DEF CreateDiscards, GhostInv
<1>5. CASE RememberCreated(t)
  <2>1. \A u \in Tasks : task[u].pc \in InRelease => task'[u] = task[u]
    BY <1>5 DEF RememberCreated, Goto, Done, InRelease
  <2>2. task[t].job \in Jobs
    BY <1>5, TaskFacts DEF RememberCreated
  <2>3. \A j \in Jobs : j \in ToSet(queue') => InQueue(j) \/ Tracks(gate', j)
    <3>1. CASE queue' = queue
      BY <3>1 DEF InQueue
    <3>2. CASE queue' = Append(queue, task[t].job) /\ Tracks(gate, task[t].job)
      <4>1. ToSet(queue') = ToSet(queue) \cup {task[t].job}
        BY <3>2, <2>2, AppendSet DEF TypeOK
      <4>2. gate' = gate
        BY <1>5 DEF RememberCreated
      <4> QED BY <3>2, <4>1, <4>2 DEF InQueue
    <3> QED BY <1>5, <3>1, <3>2 DEF RememberCreated
  <2>4. \A j \in Jobs : created'[j] # NoCid => created[j] # NoCid \/ Tracks(gate', j)
    BY <1>5 DEF RememberCreated, TypeOK
  <2> QED BY <1>5, <2>1, <2>3, <2>4, GhostKept DEF RememberCreated, GhostInv
<1>6. CASE AbandonUntracked(t)
  <2>1. \A u \in Tasks : task[u].pc \in InRelease => task'[u] = task[u]
    BY <1>6 DEF AbandonUntracked, DestroyInspects, Goto, Done, InRelease
  <2> QED BY <1>6, <2>1, GhostUntouched DEF AbandonUntracked, GhostInv
<1>7. ASSUME NEW c \in Cids, DockerCreates(t, c) PROVE GhostInv'
  <2>1. \A u \in Tasks : task[u].pc \in InRelease => task'[u] = task[u]
    BY <1>7 DEF DockerCreates, Goto, Done, InRelease
  <2> QED BY <1>7, <2>1, GhostUntouched DEF DockerCreates, GhostInv
<1>8. CASE DestroyRemoves(t)
  <2>1. \A u \in Tasks : task[u].pc \in InRelease => task'[u] = task[u]
    BY <1>8 DEF DestroyRemoves, Goto, Done, InRelease
  <2> QED BY <1>8, <2>1, GhostUntouched DEF DestroyRemoves, GhostInv
<1>9. CASE DestroyForgets(t)
  <2>1. \A u \in Tasks : task[u].pc \in InRelease => task'[u] = task[u]
    BY <1>9 DEF DestroyForgets, Goto, Done, InRelease
  <2> QED BY <1>9, <2>1, GhostUntouched DEF DestroyForgets, GhostInv
<1>10. CASE DestroyDisconnected(t)
  <2>1. \A u \in Tasks : task[u].pc \in InRelease => task'[u] = task[u]
    BY <1>10 DEF DestroyDisconnected, Goto, Done, InRelease
  <2> QED BY <1>10, <2>1, GhostUntouched DEF DestroyDisconnected, GhostInv
<1>11. CASE ReapRemovesKnown(t)
  <2>1. \A u \in Tasks : task[u].pc \in InRelease => task'[u] = task[u]
    BY <1>11 DEF ReapRemovesKnown, Goto, Done, InRelease
  <2> QED BY <1>11, <2>1, GhostUntouched DEF ReapRemovesKnown, GhostInv
<1>12. CASE ReapLists(t)
  <2>1. \A u \in Tasks : task[u].pc \in InRelease => task'[u] = task[u]
    BY <1>12 DEF ReapLists, Goto, Done, InRelease
  <2> QED BY <1>12, <2>1, GhostUntouched DEF ReapLists, GhostInv
<1>13. CASE ReapSettles(t)
  <2>1. \A u \in Tasks : task[u].pc \in InRelease => task'[u] = task[u]
    BY <1>13 DEF ReapSettles, Goto, Done, InRelease
  <2> QED BY <1>13, <2>1, GhostUntouched DEF ReapSettles, GhostInv
<1>14. ASSUME NEW c \in Cids, ReapRemovesListed(t, c) PROVE GhostInv'
  <2>1. \A u \in Tasks : task[u].pc \in InRelease => task'[u] = task[u]
    BY <1>14 DEF ReapRemovesListed, Goto, Done, InRelease
  <2> QED BY <1>14, <2>1, GhostUntouched DEF ReapRemovesListed, GhostInv
<1> QED BY <1>1, <1>2, <1>3, <1>4, <1>5, <1>6, <1>7, <1>8, <1>9, <1>10, <1>11, <1>12,
           <1>13, <1>14 DEF CreateStep, DestroyStep, ReapStep

(* The three steps of a release hand the obligation on to the next one.     *)
LEMMA GhostRelease ==
    ASSUME TypeInv, GhostInv, NEW t \in Tasks, ReleaseStep(t)
    PROVE  GhostInv'
<1> USE DEF memory, startup, ticker, world, bounds, TypeInv, TaskOK
<1>0. task[t] \in TaskRecords /\ queue \in Seq(Jobs)
  BY DEF TypeOK
<1>1. CASE ReleaseGate(t)
  <2>1. /\ task'[t].pc = "rel_queue" /\ task'[t].job = task[t].job
        /\ \A u \in Tasks \ {t} : task'[u] = task[u]
    BY <1>0, <1>1 DEF ReleaseGate, Goto, TaskRecords
  <2>2. \A j \in Jobs : j # task[t].job => (Tracks(gate', j) <=> Tracks(gate, j))
    BY <1>1 DEF ReleaseGate, Release, ReleaseAll, Tracks
  <2>3. task[t].pc \notin InRelease
    BY <1>1 DEF ReleaseGate, InRelease
  <2>4. ASSUME NEW j \in Jobs PROVE QueueGhost(j)' /\ CreatedGhost(j)'
    <3>1. CASE j = task[t].job
      BY <2>1, <3>1 DEF QueueGhost, CreatedGhost, InRelease
    <3>2. CASE j # task[t].job
      <4>1. queue' = queue /\ created' = created
        BY <1>1 DEF ReleaseGate
      <4> QED BY <2>1, <2>2, <2>3, <3>2, <4>1
              DEF GhostInv, QueueGhost, CreatedGhost, InRelease, InQueue
    <3> QED BY <3>1, <3>2
  <2> QED BY <1>1, <2>4 DEF ReleaseGate, GhostInv
<1>2. CASE ReleaseQueue(t)
  <2>1. /\ task'[t].pc = "rel_created" /\ task'[t].job = task[t].job
        /\ \A u \in Tasks \ {t} : task'[u] = task[u]
    BY <1>0, <1>2 DEF ReleaseQueue, Goto, TaskRecords
  <2>2. ToSet(queue') = ToSet(queue) \ {task[t].job}
    BY <1>0, <1>2, WithoutProperties DEF ReleaseQueue
  <2>3. gate' = gate /\ created' = created
    BY <1>2 DEF ReleaseQueue
  <2>4. ASSUME NEW j \in Jobs PROVE QueueGhost(j)'
    <3>1. CASE j = task[t].job
      BY <2>2, <3>1 DEF QueueGhost, InQueue
    <3>2. CASE j # task[t].job
      BY <2>1, <2>2, <2>3, <3>2 DEF GhostInv, QueueGhost, InQueue
    <3> QED BY <3>1, <3>2
  <2>5. ASSUME NEW j \in Jobs PROVE CreatedGhost(j)'
    BY <2>1, <2>3 DEF GhostInv, CreatedGhost, InRelease
  <2> QED BY <1>2, <2>4, <2>5 DEF ReleaseQueue, GhostInv
<1>3. CASE ReleaseCreated(t)
  <2>1. \A u \in Tasks \ {t} : task'[u] = task[u]
    BY <1>3 DEF ReleaseCreated, Done
  <2>2. task[t].pc = "rel_created" /\ gate' = gate /\ queue' = queue
    BY <1>3 DEF ReleaseCreated
  <2>3. \A j \in Jobs : created'[j] = IF j = task[t].job THEN NoCid ELSE created[j]
    BY <1>3 DEF ReleaseCreated, ForgetCreated
  <2>4. ASSUME NEW j \in Jobs PROVE QueueGhost(j)'
    BY <2>1, <2>2 DEF GhostInv, QueueGhost, InQueue
  <2>5. ASSUME NEW j \in Jobs PROVE CreatedGhost(j)'
    BY <2>1, <2>2, <2>3 DEF GhostInv, CreatedGhost
  <2> QED BY <1>3, <2>4, <2>5 DEF ReleaseCreated, GhostInv
<1> QED BY <1>1, <1>2, <1>3 DEF ReleaseStep

(* The tick: what it releases leaves all three maps in one step.            *)
LEMMA GhostReconcile ==
    ASSUME TypeInv, GhostInv, TickReconciles
    PROVE  GhostInv'
<1> DEFINE q == Without(queue, Released)
           g == ReleaseAll(gate, Released)
<1>1. PICK S \in SUBSET ToSet(q) :
        /\ gate' = StartAll(g, S)
        /\ queue' = Without(q, S)
        /\ created' = ForgetCreated(created, Released)
  BY DEF TickReconciles
<1>2. queue \in Seq(Jobs)
  BY DEF TypeInv, TypeOK
<1>3. q \in Seq(Jobs) /\ ToSet(q) = ToSet(queue) \ Released
  BY <1>2, WithoutProperties
<1>4. ToSet(queue') \subseteq ToSet(queue) \ Released
  <2> HIDE DEF q
  <2>1. ToSet(queue') = ToSet(q) \ S
    BY <1>1, <1>3, WithoutProperties
  <2> QED BY <2>1, <1>3
<1>5. ASSUME NEW j \in Jobs, j \notin Released, Tracks(gate, j) PROVE Tracks(gate', j)
  BY <1>1, <1>5 DEF Tracks, ReleaseAll, StartAll
<1>6. task' = task /\ tick' = "act"
  BY DEF TickReconciles
<1>7. ASSUME NEW j \in Jobs PROVE QueueGhost(j)'
  BY <1>4, <1>5, <1>6 DEF GhostInv, QueueGhost, InQueue
<1>8. ASSUME NEW j \in Jobs PROVE CreatedGhost(j)'
  <2>1. created'[j] # NoCid => j \notin Released /\ created[j] # NoCid
    BY <1>1 DEF ForgetCreated
  <2> QED BY <2>1, <1>5, <1>6 DEF GhostInv, CreatedGhost
<1> QED BY <1>6, <1>7, <1>8 DEF GhostInv

LEMMA GhostTick ==
    ASSUME TypeInv, GhostInv, TickStep, "start" \notin Faults, "start_lost" \notin Faults
    PROVE  GhostInv'
<1> USE DEF memory, startup, ticker, world, bounds
<1>1. CASE TickReconciles
  BY <1>1, GhostReconcile
<1>2. CASE TickLists
  BY <1>2, GhostUntouched DEF TickLists
<1>3. CASE TickEnds
  BY <1>3, GhostUntouched DEF TickEnds
<1>4. CASE TickStarts
  <2>1. tick' \in {"act", "vanish"}
    BY <1>4 DEF TickStarts
  <2> QED BY <1>4, <2>1, GhostUntouched DEF TickStarts
<1>5. CASE TickUnstarts \/ TickRequeues
  BY <1>5 DEF TickUnstarts, TickRequeues, GhostInv
<1>6. CASE TickReleasesVanished
  <2> DEFINE j0 == Head(start).job
  <2>1. queue \in Seq(Jobs)
    BY DEF TypeInv, TypeOK
  <2>2. ToSet(queue') = ToSet(queue) \ {j0}
    BY <1>6, <2>1, WithoutProperties DEF TickReleasesVanished
  <2>3. \A j \in Jobs : j # j0 => (Tracks(gate', j) <=> Tracks(gate, j))
    BY <1>6 DEF TickReleasesVanished, Release, ReleaseAll, Tracks
  <2>4. \A j \in Jobs : created'[j] = IF j = j0 THEN NoCid ELSE created[j]
    BY <1>6 DEF TickReleasesVanished, ForgetCreated
  <2>5. task' = task /\ tick' = "act"
    BY <1>6 DEF TickReleasesVanished
  <2> HIDE DEF j0
  <2>6. ASSUME NEW j \in Jobs PROVE QueueGhost(j)' /\ CreatedGhost(j)'
    BY <2>2, <2>3, <2>4, <2>5 DEF GhostInv, QueueGhost, CreatedGhost, InQueue
  <2> QED BY <2>5, <2>6 DEF GhostInv
<1>7. ASSUME NEW c \in Cids, TickRemoves(c) PROVE GhostInv'
  BY <1>7, GhostUntouched DEF TickRemoves, GhostInv
<1> QED BY <1>1, <1>2, <1>3, <1>4, <1>5, <1>6, <1>7 DEF TickStep

(* A process that dies takes all its entries with it.                       *)
LEMMA GhostProcessGone ==
    ASSUME ProcessGone PROVE GhostInv'
<1>1. ToSet(queue') = {}
  BY DEF ProcessGone, ToSet
<1> QED BY <1>1 DEF ProcessGone, GhostInv, QueueGhost, CreatedGhost, InQueue, NoCreated

LEMMA GhostStartUp ==
    ASSUME TypeInv, GhostInv, StartUpStep
    PROVE  GhostInv'
<1> USE DEF memory, startup, ticker, world, bounds
<1>1. CASE StartUp \/ AdoptReadsClock \/ PullBinds \/ PullFails
  BY <1>1, GhostUntouched DEF StartUp, AdoptReadsClock, PullBinds, PullFails, GhostInv
<1>2. CASE PullGivesUp
  BY <1>2, GhostProcessGone DEF PullGivesUp
<1>3. ASSUME NEW c \in Cids, AdoptInspects(c) \/ AdoptDooms(c) \/ AdoptRemoves(c) PROVE GhostInv'
  BY <1>3, GhostUntouched DEF AdoptInspects, AdoptDooms, AdoptRemoves, GhostInv
<1>4. ASSUME NEW c \in Cids, AdoptResumes(c) PROVE GhostInv'
  <2>1. \A j \in Jobs : Tracks(gate, j) => Tracks(gate', j)
    BY <1>4 DEF AdoptResumes, AdoptRunning, Tracks, TypeInv, TypeOK, GateStates
  <2>2. \A j \in Jobs : created'[j] # NoCid => created[j] # NoCid \/ Tracks(gate', j)
    BY <1>4, DaemonAssumption
       DEF AdoptResumes, AdoptRunning, Tracks, TypeInv, TypeOK, GateStates
  <2> QED BY <1>4, <2>1, <2>2, GhostKept DEF AdoptResumes, GhostInv, InQueue
<1>5. ASSUME NEW c \in Cids, AdoptRequeues(c) PROVE GhostInv'
  <2>0. JobOf[c] \in Jobs /\ queue \in Seq(Jobs)
    BY DaemonAssumption DEF TypeInv, TypeOK
  <2>1. \A j \in Jobs : Tracks(gate, j) => Tracks(gate', j)
    BY <1>5 DEF AdoptRequeues, Admit, Tracks, TypeInv, TypeOK, GateStates
  <2>2. Tracks(gate', JobOf[c])
    BY <1>5, <2>0 DEF AdoptRequeues, Admit, Tracks, TypeInv, TypeOK, GateStates
  <2>3. \A j \in Jobs : created'[j] # NoCid => created[j] # NoCid \/ Tracks(gate', j)
    BY <1>5, <2>2 DEF AdoptRequeues, TypeInv, TypeOK
  <2>4. ToSet(queue') = ToSet(queue) \cup {JobOf[c]}
    BY <1>5, <2>0, AppendSet DEF AdoptRequeues
  <2>5. \A j \in Jobs : j \in ToSet(queue') => InQueue(j) \/ Tracks(gate', j)
    BY <2>2, <2>4 DEF InQueue
  <2> QED BY <1>5, <2>1, <2>3, <2>5, GhostKept DEF AdoptRequeues, GhostInv
<1> QED BY <1>1, <1>2, <1>3, <1>4, <1>5 DEF StartUpStep

LEMMA GhostEnvironment ==
    ASSUME TypeInv, GhostInv, Environment
    PROVE  GhostInv'
<1> USE DEF memory, startup, ticker, world, bounds
<1>1. CASE Crash
  BY <1>1, GhostProcessGone DEF Crash
<1>2. CASE ImageLost \/ ImageRefreshed
  BY <1>2, GhostUntouched DEF ImageLost, ImageRefreshed, GhostInv
<1>3. ASSUME NEW c \in Cids, ContainerExits(c) PROVE GhostInv'
  BY <1>3, GhostUntouched DEF ContainerExits, GhostInv
<1>4. ASSUME NEW j \in Jobs, DeadlinePasses(j) \/ TombstoneAges(j) PROVE GhostInv'
  BY <1>4, GhostUntouched DEF DeadlinePasses, TombstoneAges, GhostInv
<1> QED BY <1>1, <1>2, <1>3, <1>4 DEF Environment

LEMMA GhostNext ==
    ASSUME "start" \notin Faults, "start_lost" \notin Faults
    PROVE  TypeInv /\ GhostInv /\ [Next]_vars => GhostInv'
<1> SUFFICES ASSUME TypeInv, GhostInv, [Next]_vars PROVE GhostInv'
  OBVIOUS
<1>1. ASSUME NEW t \in Tasks, Request(t) \/ TaskStep(t) \/ DestroyDisconnected(t) PROVE GhostInv'
  BY <1>1, GhostRequest, GhostTask, GhostRelease DEF TaskStep
<1>2. CASE TickStep \/ StartUpStep \/ Environment
  BY <1>2, GhostTick, GhostStartUp, GhostEnvironment
<1>3. CASE UNCHANGED vars
  BY <1>3, GhostUntouched DEF vars, memory, ticker, GhostInv
<1> QED BY <1>1, <1>2, <1>3 DEF Next

(* As long as Docker carries out the starts it is asked for, the start      *)
(* queue and the created-container map never keep anything for a job the    *)
(* gate has let go, beyond the release that is under way: whatever the      *)
(* number of jobs, of concurrent requests, of redeliveries and of crashes,  *)
(* and whichever other Docker call fails.  The assumption is needed: a      *)
(* start that fails is queued again (docker.rs, start_created) although a   *)
(* destroy may have released its job meanwhile.                             *)
THEOREM NoGhosts ==
    ASSUME "start" \notin Faults, "start_lost" \notin Faults
    PROVE  Spec => []NoGhostEntry
<1>1. Init => GhostInv
  <2> SUFFICES ASSUME Init PROVE GhostInv
    OBVIOUS
  <2>1. ToSet(queue) = {}
    BY DEF Init, ToSet
  <2> QED BY <2>1 DEF Init, GhostInv, QueueGhost, CreatedGhost, InQueue, NoCreated
<1>2. TypeInv /\ GhostInv /\ [Next]_vars => GhostInv'
  BY GhostNext
<1>3. GhostInv => NoGhostEntry
  BY DEF GhostInv, QueueGhost, CreatedGhost, NoGhostEntry, ReleaseInFlight, InRelease
<1> QED BY <1>1, <1>2, <1>3, TypeInit, TypeNext, PTL DEF Spec
=============================================================================
