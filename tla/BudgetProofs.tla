---------------------------- MODULE BudgetProofs ----------------------------
(* What runs on the box never needs more than it has, for every set of jobs, *)
(* containers and requests, every budget and any number of crashes; the      *)
(* daemon implements Host; and its books balance and nothing gets lost.      *)
EXTENDS DaemonProofs

(* What the budget depends on: a job id is delivered once, and Docker's      *)
(* listings, inspections, removals and starts are what they are said to be.  *)
(* Without any one of these the box can be overcommitted.                    *)
Misreports == {"list", "remove", "inspect", "start_lost"}
Reliable == MaxPosts <= 1 /\ Faults \cap Misreports = {}

-----------------------------------------------------------------------------
(* The inductive invariant.                                                  *)

Own(j) == {c \in Cids : JobOf[c] = j}
Asleep == {"unborn", "created", "gone"}
Born(c) == docker[c] # "unborn"
Unborn(j) == \A c \in Own(j) : docker[c] = "unborn"

(* Nothing has been done yet towards running a container of j.              *)
Unstarted(j) ==
    /\ gate[j] # "running" /\ ~InQueue(j) /\ created[j] = NoCid
    /\ \A i \in 1..Len(start) : start[i].job # j
    /\ \A c \in Own(j) : docker[c] \in Asleep

(* A job that has not been delivered has no trace.                          *)
Making(r) == r.pc \in {"begin", "creating", "failed", "finish", "discard", "record"}
Fresh ==
    \A j \in Jobs : posts[j] = 0 =>
        /\ gate[j] = "untracked" /\ Unstarted(j) /\ Unborn(j)
        /\ \A t \in Tasks : Making(task[t]) => task[t].job # j

(* One delivery, one create, one container.                                 *)
OneCreate ==
    \A t, u \in Tasks :
        Making(task[t]) /\ Making(task[u]) /\ task[t].job = task[u].job => t = u
OneBorn == \A c, e \in Cids : JobOf[c] = JobOf[e] /\ Born(c) /\ Born(e) => c = e

(* What a request knows about its container.                                *)
MakeOK(r) ==
    /\ Making(r) => Unstarted(r.job)
    /\ r.pc \in {"begin", "creating"} => Unborn(r.job)
    /\ r.pc \in {"finish", "discard", "record", "remove", "forget"} => JobOf[r.cid] = r.job
    /\ r.pc \in HoldsContainer => Born(r.cid)
    /\ r.pc = "forget" => docker[r.cid] = "gone"
    /\ \A c \in r.left : Born(c)
MakeInv == \A t \in Tasks : MakeOK(task[t])

(* What the maps hold exists and has not run.                               *)
MemoryInv ==
    \A j \in Jobs :
        /\ created[j] # NoCid => JobOf[created[j]] = j /\ Born(created[j])
        /\ registry[j].cid # NoCid => Born(registry[j].cid)
QueueInv ==
    /\ \A i, k \in 1..Len(queue) : queue[i] = queue[k] => i = k
    /\ \A j \in Jobs : InQueue(j) =>
          gate[j] # "running" /\ \A c \in Own(j) : docker[c] \in Asleep

(* A start still to be made has its job charged, unless it just failed.     *)
StartOK(i) ==
    /\ start[i].job \in Jobs /\ start[i].cid \in Cids
    /\ JobOf[start[i].cid] = start[i].job
    /\ docker[start[i].cid] \in {"created", "gone"}
    /\ ~InQueue(start[i].job)
    /\ docker[start[i].cid] = "created" =>
          gate[start[i].job] = "running" \/ (tick = "requeue" /\ i = 1)
StartInv ==
    /\ \A i, k \in 1..Len(start) : start[i].job = start[k].job => i = k
    /\ \A i \in 1..Len(start) : StartOK(i)
    /\ tick = "requeue" => gate[start[1].job] # "running"
    /\ tick \in {"idle", "reconcile"} => start = <<>>
    /\ tick # "act" /\ phase = "serving" => remove = {}

(* A reap that will release j leaves nothing that could run: the create of j *)
(* in flight, if any, will not be remembered, and the containers of j are    *)
(* gone, about to be removed by it, or never started.                        *)
Lost(j) == posts[j] # 0 /\ ~Tracks(gate, j)
Barred(j) ==
    \/ registry[j] = Reaped
    \/ Lost(j)
    \/ \E c \in Own(j) : docker[c] = "gone"
Swept(j, left) ==
    \A c \in Own(j) :
        \/ docker[c] \in {"unborn", "gone"}
        \/ c \in left
        \/ docker[c] = "created" /\ Unstarted(j)
Spent(j, c, left) == c \in left \/ docker[c] = "gone" \/ Lost(j)

Settling == {"reap_known", "reap_list", "reap_listed", "rel_gate"}
Sweeping(r) == r.pc = "rel_gate" \/ (r.pc = "reap_listed" /\ r.ok)
StillLeft(r) == IF r.pc = "rel_gate" THEN {} ELSE r.left
ReapOK(r) ==
    /\ r.pc \in Settling /\ posts[r.job] = 0 => registry[r.job] = Reaped
    /\ Sweeping(r) => Swept(r.job, StillLeft(r))
Guarded(r, m) ==
    m.job = r.job =>
        /\ r.pc \in Settling /\ m.pc \in {"begin", "creating", "finish"} => Barred(r.job)
        /\ Sweeping(r) /\ m.pc = "record" => Spent(r.job, m.cid, StillLeft(r))
ReapInv ==
    /\ \A t \in Tasks : ReapOK(task[t])
    /\ \A t, u \in Tasks : Guarded(task[t], task[u])

(* What the tick and adoption have seen is still so, as far as it matters.  *)
SnapInv ==
    /\ \A c \in Cids : snap[c] # "unseen" => Born(c)
    /\ tick = "reconcile" => \A c \in RunningContainers : snap[c] = "running"
    /\ \A c \in remove \cup todo : Born(c)

(* While the process is down or starts up.                                  *)
StartingInv ==
    phase # "serving" =>
        /\ \A t \in Tasks : task[t] = Idle
        /\ tick = "idle"
        /\ phase \in {"down", "inspecting"} => gate = EmptyGate /\ queue = <<>> /\ remove = {}
        /\ phase = "down" => snap = Unseen
        /\ \A j \in Jobs : InQueue(j) => Tracks(gate, j)
        /\ \A j \in Jobs : gate[j] = "running" => \E c \in Own(j) : snap[c] = "running"
        /\ \A c \in Cids : snap[c] = "created" => docker[c] \in {"created", "gone"}
        /\ phase = "inspecting" =>
              \A c \in RunningContainers : c \in todo \/ snap[c] = "running"
        /\ phase = "adopting" =>
              \A c \in RunningContainers :
                  \/ c \in todo /\ snap[c] = "running"
                  \/ c \in remove
                  \/ gate[JobOf[c]] = "running"

(* The jobs the budget is charged with, and those that really run.          *)
JobLoad(js, d) == Load([j \in Jobs |-> Size[j][d]], js)
JobsOf(cs) == {JobOf[c] : c \in cs}
SeenRunning == {c \in Cids : docker[c] = "running" \/ snap[c] = "running"}
Charged == IF phase = "serving" THEN RunningIds(gate) ELSE JobsOf(SeenRunning)
BudgetInv ==
    \A d \in Dims : /\ JobLoad(Charged, d) <= Budget[d]
                    /\ JobLoad(JobsOf(RunningContainers), d) <= Budget[d]

BoxInv ==
    /\ Fresh /\ OneCreate /\ OneBorn
    /\ MakeInv /\ MemoryInv /\ QueueInv /\ StartInv /\ ReapInv /\ SnapInv
    /\ StartingInv /\ RunningIsAccounted /\ BudgetInv

-----------------------------------------------------------------------------
(* Loads.                                                                    *)

LEMMA UpToFinite ==
    ASSUME NEW n \in Nat
    PROVE  IsFiniteSet(1..n) /\ Cardinality(1..n) = n
<1>1. 1 \in Int /\ n \in Int
  OBVIOUS
<1>2. IsFiniteSet(1..n) /\ Cardinality(1..n) = IF 1 > n THEN 0 ELSE n - 1 + 1
  BY <1>1, FS_Interval
<1> QED BY <1>2

LEMMA ImageFinite ==
    ASSUME NEW S, IsFiniteSet(S), NEW f, DOMAIN f = S, f = [x \in S |-> f[x]]
    PROVE  IsFiniteSet({f[x] : x \in S})
<1> DEFINE T == {f[x] : x \in S}
<1>1. f \in [S -> T] /\ \A t \in T : \E x \in S : f[x] = t
  OBVIOUS
<1>2. f \in Surjection(S, T)
  BY <1>1 DEF Surjection
<1> QED BY <1>2, FS_Surjection

Units(need, xs) == UNION {{x} \X (1..need[x]) : x \in xs}

LEMMA LoadFinite ==
    ASSUME NEW need, NEW xs, IsFiniteSet(xs), \A x \in xs : need[x] \in Nat
    PROVE  /\ IsFiniteSet(Units(need, xs)) /\ Load(need, xs) = Cardinality(Units(need, xs))
           /\ Load(need, xs) \in Nat
<1> DEFINE part(x) == {x} \X (1..need[x])
           parts == {part(x) : x \in xs}
<1>1. IsFiniteSet(parts)
  <2> DEFINE f == [x \in xs |-> part(x)]
  <2>1. DOMAIN f = xs /\ f = [x \in xs |-> f[x]]
    OBVIOUS
  <2>2. IsFiniteSet({f[x] : x \in xs})
    <3> HIDE DEF f, part
    <3> QED BY <2>1, ImageFinite
  <2>3. {f[x] : x \in xs} = parts
    OBVIOUS
  <2> QED BY <2>2, <2>3
<1>2. ASSUME NEW x \in xs PROVE IsFiniteSet(part(x))
  <2>1. IsFiniteSet({x}) /\ IsFiniteSet(1..need[x])
    BY FS_Singleton, UpToFinite
  <2> QED BY <2>1, FS_Product
<1>3. \A P \in parts : IsFiniteSet(P)
  BY <1>2
<1>4. IsFiniteSet(UNION parts)
  BY <1>1, <1>3, FS_UNION
<1>5. Cardinality(UNION parts) \in Nat
  BY <1>4, FS_CardinalityType
<1> QED BY <1>4, <1>5 DEF Load, Units

(* Fewer need less.                                                         *)
LEMMA LoadGrows ==
    ASSUME NEW need, NEW xs, IsFiniteSet(xs), \A x \in xs : need[x] \in Nat,
           NEW ys \in SUBSET xs
    PROVE  Load(need, ys) <= Load(need, xs) /\ Load(need, ys) \in Nat /\ Load(need, xs) \in Nat
<1>1. IsFiniteSet(ys)
  BY FS_Subset
<1>2. Units(need, ys) \subseteq Units(need, xs)
  BY DEF Units
<1>3. Cardinality(Units(need, ys)) <= Cardinality(Units(need, xs))
  BY <1>2, LoadFinite, FS_Subset
<1> QED BY <1>1, <1>3, LoadFinite

(* One more needs what it needs more.                                       *)
LEMMA LoadAdds ==
    ASSUME NEW need, NEW xs, IsFiniteSet(xs), \A x \in xs : need[x] \in Nat,
           NEW y, y \notin xs, need[y] \in Nat
    PROVE  /\ Load(need, xs \cup {y}) = Load(need, xs) + need[y]
           /\ Load(need, xs) \in Nat /\ IsFiniteSet(xs \cup {y})
<1>1. IsFiniteSet({y}) /\ IsFiniteSet(xs \cup {y})
  BY FS_Singleton, FS_AddElement
<1>2. Units(need, xs \cup {y}) = Units(need, xs) \cup Units(need, {y})
  BY DEF Units
<1>3. Units(need, xs) \cap Units(need, {y}) = {}
  BY DEF Units
<1>4. Cardinality(Units(need, {y})) = need[y]
  <2>1. Units(need, {y}) = {y} \X (1..need[y])
    BY DEF Units
  <2>2. IsFiniteSet({y}) /\ Cardinality({y}) = 1
    BY FS_Singleton
  <2>3. IsFiniteSet(1..need[y]) /\ Cardinality(1..need[y]) = need[y]
    BY UpToFinite
  <2>4. Cardinality({y} \X (1..need[y])) = Cardinality({y}) * Cardinality(1..need[y])
    BY <2>2, <2>3, FS_Product, Zenon
  <2>5. 1 * need[y] = need[y]
    OBVIOUS
  <2> QED BY <2>1, <2>2, <2>3, <2>4, <2>5
<1>5. IsFiniteSet(Units(need, xs)) /\ IsFiniteSet(Units(need, {y}))
  BY <1>1, LoadFinite
<1>6. Cardinality(Units(need, xs) \cup Units(need, {y})) =
        Cardinality(Units(need, xs)) + Cardinality(Units(need, {y})) - Cardinality({})
  BY <1>3, <1>5, FS_Union, Zenon
<1>7. Cardinality({}) = 0 /\ Cardinality(Units(need, xs)) \in Nat
  BY <1>5, FS_EmptySet, FS_CardinalityType
<1>8. /\ Load(need, xs \cup {y}) = Cardinality(Units(need, xs \cup {y}))
      /\ Load(need, xs) = Cardinality(Units(need, xs))
  BY DEF Load, Units
<1>9. Load(need, xs \cup {y}) = Load(need, xs) + need[y] - 0
  BY <1>2, <1>4, <1>6, <1>7, <1>8, Zenon
<1> QED BY <1>1, <1>7, <1>8, <1>9

(* Those that need nothing add nothing.                                     *)
LEMMA LoadIgnores ==
    ASSUME NEW need, NEW xs, NEW ys \in SUBSET xs, \A x \in xs \ ys : need[x] = 0
    PROVE  Load(need, xs) = Load(need, ys)
<1>1. \A x \in xs \ ys : {x} \X (1..need[x]) = {}
  OBVIOUS
<1>2. \A u : (\E x \in xs : u \in {x} \X (1..need[x])) <=> (\E x \in ys : u \in {x} \X (1..need[x]))
  BY <1>1
<1>3. Units(need, xs) = Units(need, ys)
  BY <1>2 DEF Units
<1> QED BY <1>3 DEF Load, Units

LEMMA MinIs ==
    ASSUME NEW a \in Nat, NEW b \in Nat
    PROVE  Min({a, b}) = IF a <= b THEN a ELSE b
BY DEF Min

LEMMA MaxIs ==
    ASSUME NEW a \in Int, NEW b \in Int
    PROVE  Max({a, b}) = IF a >= b THEN a ELSE b
BY DEF Max

(* A job that fits beside those that run leaves the budget kept.            *)
LEMMA FitsMeans ==
    ASSUME NEW js \in SUBSET Jobs, NEW j \in Jobs \ js, FitsBeside(j, js), NEW d \in Dims,
           Size[j][d] > 0
    PROVE  JobLoad(js \cup {j}, d) <= Budget[d]
<1> DEFINE need == [k \in Jobs |-> Size[k][d]]
           used == JobLoad(js, d)
<1>1. IsFiniteSet(js) /\ \A k \in Jobs : need[k] \in Nat
  BY GateAssumption, FS_Subset
<1>2. U32Max \in Nat /\ Budget[d] \in 0..U32Max /\ Size[j][d] \in 0..U32Max
  BY GateAssumption
<1>3. used \in Nat /\ JobLoad(js \cup {j}, d) = used + Size[j][d]
  <2>1. Load(need, js \cup {j}) = Load(need, js) + need[j] /\ Load(need, js) \in Nat
    <3> HIDE DEF need
    <3> QED BY <1>1, LoadAdds
  <2> QED BY <2>1 DEF JobLoad
<1>4. Footprint(js)[d] = Min({used, U32Max})
  BY DEF Footprint, JobLoad
<1> HIDE DEF used
<1>5. Footprint(js)[d] = IF used <= U32Max THEN used ELSE U32Max
  BY <1>2, <1>3, <1>4, MinIs
<1>6. Remaining(js)[d] = SaturatingSub(Budget[d], Footprint(js)[d])
  BY DEF Remaining
<1>7. Footprint(js)[d] \in Nat
  BY <1>2, <1>3, <1>5
<1>8. SaturatingSub(Budget[d], Footprint(js)[d])
         = IF Budget[d] - Footprint(js)[d] >= 0 THEN Budget[d] - Footprint(js)[d] ELSE 0
  <2>1. Budget[d] - Footprint(js)[d] \in Int /\ 0 \in Int
    BY <1>2, <1>7
  <2> QED BY <2>1, MaxIs DEF SaturatingSub
<1>9. Size[j][d] <= Remaining(js)[d]
  BY DEF FitsBeside, FitsWithin
<1> QED BY <1>2, <1>3, <1>5, <1>6, <1>7, <1>8, <1>9

LEMMA JobLoads ==
    ASSUME NEW xs \in SUBSET Jobs, NEW ys \in SUBSET xs, NEW d \in Dims
    PROVE  JobLoad(ys, d) <= JobLoad(xs, d) /\ JobLoad(ys, d) \in Nat /\ JobLoad(xs, d) \in Nat
<1> DEFINE need == [k \in Jobs |-> Size[k][d]]
<1>1. IsFiniteSet(xs) /\ \A x \in xs : need[x] \in Nat
  BY GateAssumption, FS_Subset
<1> HIDE DEF need
<1>2. Load(need, ys) <= Load(need, xs) /\ Load(need, ys) \in Nat /\ Load(need, xs) \in Nat
  BY <1>1, LoadGrows
<1> QED BY <1>2 DEF JobLoad, need

LEMMA LargestPosition ==
    ASSUME NEW N \in Nat, NEW I \in SUBSET (1..N), I # {}
    PROVE  \E m \in I : \A k \in I : k <= m
<1> DEFINE J == {k \in 1..N : N + 1 - k \in I}
<1>1. \A k \in I : N + 1 - k \in J
  <2> SUFFICES ASSUME NEW k \in I PROVE N + 1 - k \in J
    OBVIOUS
  <2>1. k \in 1..N /\ N + 1 - k \in 1..N /\ N + 1 - (N + 1 - k) = k
    OBVIOUS
  <2> QED BY <2>1
<1>2. J \in SUBSET (1..N) /\ J # {}
  BY <1>1
<1> HIDE DEF J
<1>3. PICK m \in J : \A k \in J : m <= k
  BY <1>2, SmallestPosition
<1>4. N + 1 - m \in I /\ m \in 1..N
  BY <1>3 DEF J
<1>5. ASSUME NEW k \in I PROVE k <= N + 1 - m
  <2>1. m <= N + 1 - k
    BY <1>1, <1>3
  <2>2. k \in Int /\ m \in Int
    BY <1>4
  <2> QED BY <2>1, <2>2
<1> QED BY <1>4, <1>5

(* promote keeps the budget: what runs already and what it starts fit       *)
(* together.  The last job of the queue that needs anything fits beside all *)
(* that precede it, and those after it need nothing.                        *)
LEMMA PromotedFit ==
    ASSUME NEW g \in GateStates, NEW q \in Seq(Jobs), NEW S \in SUBSET ToSet(q),
           \A i, k \in 1..Len(q) : q[i] = q[k] => i = k,
           Promotes(g, q, S), NEW d \in Dims, JobLoad(RunningIds(g), d) <= Budget[d]
    PROVE  JobLoad(RunningIds(g) \cup S, d) <= Budget[d]
<1> DEFINE R == RunningIds(g)
           P == {i \in 1..Len(q) : q[i] \in S \ R /\ Size[q[i]][d] > 0}
           need == [k \in Jobs |-> Size[k][d]]
<1>1. R \subseteq Jobs /\ S \subseteq Jobs /\ Len(q) \in Nat
  BY DEF RunningIds, ToSet
<1>2. \A x \in S : \E k \in 1..Len(q) : q[k] = x
  BY DEF ToSet
<1>3. \A j \in Jobs : Size[j][d] \in Nat
  BY GateAssumption
<1>4. CASE P = {}
  <2>1. \A x \in (R \cup S) \ R : need[x] = 0
    <3> SUFFICES ASSUME NEW x \in S, x \notin R PROVE need[x] = 0
      OBVIOUS
    <3>1. ~(Size[x][d] > 0)
      BY <1>2, <1>4
    <3>2. Size[x][d] \in Nat /\ need[x] = Size[x][d]
      BY <1>1, <1>3
    <3> QED BY <3>1, <3>2
  <2>2. Load(need, R \cup S) = Load(need, R)
    <3> HIDE DEF need, R
    <3> QED BY <2>1, LoadIgnores
  <2> QED BY <2>2 DEF JobLoad
<1>5. CASE P # {}
  <2>1. PICK i \in P : \A k \in P : k <= i
    <3>1. P \in SUBSET (1..Len(q))
      OBVIOUS
    <3> HIDE DEF P
    <3> QED BY <1>1, <1>5, <3>1, LargestPosition
  <2> DEFINE js == R \cup ({q[k] : k \in 1..(i - 1)} \cap S)
  <2>2. i \in 1..Len(q) /\ q[i] \in S \ R /\ Size[q[i]][d] > 0
    BY <2>1
  <2>3. \A k \in 1..(i - 1) : k \in 1..Len(q) /\ k # i
    BY <1>1, <2>2
  <2>4. \A k \in 1..(i - 1) : q[k] # q[i]
    BY <2>2, <2>3
  <2>5. q[i] \notin js /\ js \in SUBSET Jobs /\ q[i] \in Jobs
    BY <1>1, <2>2, <2>4
  <2>6. g[q[i]] # "running"
    BY <2>2, <2>5 DEF RunningIds
  <2>7. FitsBeside(q[i], js)
    BY <2>2, <2>4, <2>6 DEF Promotes
  <2> HIDE DEF js
  <2>8. JobLoad(js \cup {q[i]}, d) <= Budget[d]
    BY <2>2, <2>5, <2>7, FitsMeans
  <2>9. \A x \in (R \cup S) \ (js \cup {q[i]}) : need[x] = 0
    <3> SUFFICES ASSUME NEW x \in R \cup S, x \notin js, x # q[i] PROVE need[x] = 0
      OBVIOUS
    <3>1. x \in S \ R
      BY DEF js
    <3>2. PICK k \in 1..Len(q) : q[k] = x
      BY <3>1, <1>2
    <3>3. k \notin 1..(i - 1)
      BY <3>1, <3>2 DEF js
    <3>4. k > i
      <4>1. k \in Int /\ i \in Int /\ k >= 1 /\ k # i
        BY <2>2, <3>2
      <4> QED BY <4>1, <3>3
    <3>5. k \notin P
      <4>1. ~(k <= i)
        BY <3>4, <2>2, <3>2
      <4> QED BY <4>1, <2>1
    <3>6. ~(Size[x][d] > 0)
      BY <3>1, <3>2, <3>5
    <3>7. Size[x][d] \in Nat /\ need[x] = Size[x][d]
      BY <1>1, <1>3, <3>1
    <3> QED BY <3>6, <3>7
  <2>10. js \cup {q[i]} \in SUBSET (R \cup S)
    BY <2>2 DEF js
  <2>11. Load(need, R \cup S) = Load(need, js \cup {q[i]})
    <3> HIDE DEF need, R
    <3> QED BY <2>9, <2>10, LoadIgnores
  <2> QED BY <2>8, <2>11 DEF JobLoad
<1> QED BY <1>4, <1>5

LEMMA Started ==
    ASSUME NEW g \in GateStates, NEW S \in SUBSET Jobs
    PROVE  RunningIds(StartAll(g, S)) = RunningIds(g) \cup S
BY DEF RunningIds, StartAll

(* Containers of different jobs need what their jobs need.                  *)
LEMMA ContainersNeed ==
    ASSUME NEW cs \in SUBSET Cids, \A c, e \in cs : JobOf[c] = JobOf[e] => c = e, NEW d \in Dims
    PROVE  /\ Load([c \in Cids |-> Size[JobOf[c]][d]], cs) <= JobLoad(JobsOf(cs), d)
           /\ Load([c \in Cids |-> Size[JobOf[c]][d]], cs) \in Nat
           /\ JobLoad(JobsOf(cs), d) \in Nat
<1> DEFINE need == [k \in Jobs |-> Size[k][d]]
           want == [c \in Cids |-> Size[JobOf[c]][d]]
           xs == JobsOf(cs)
           A == Units(want, cs)
           B == Units(need, xs)
           h == [a \in A |-> <<JobOf[a[1]], a[2]>>]
<1>1. IsFiniteSet(xs) /\ \A x \in xs : need[x] \in Nat
  <2>1. xs \in SUBSET Jobs
    BY DaemonAssumption DEF JobsOf
  <2> QED BY <2>1, GateAssumption, FS_Subset
<1>2. \A c \in cs : JobOf[c] \in xs /\ want[c] = need[JobOf[c]]
  BY DaemonAssumption DEF JobsOf
<1> HIDE DEF xs, need, want
<1>3. \A a \in A : a = <<a[1], a[2]>> /\ a[1] \in cs /\ a[2] \in 1..want[a[1]]
  BY DEF Units
<1>4. \A a \in A : h[a] \in B
  <2> SUFFICES ASSUME NEW a \in A PROVE h[a] \in B
    OBVIOUS
  <2>1. JobOf[a[1]] \in xs /\ a[2] \in 1..need[JobOf[a[1]]]
    BY <1>2, <1>3
  <2> QED BY <2>1 DEF Units
<1>5. \A a, b \in A : h[a] = h[b] => a = b
  BY <1>3
<1>6. h \in Injection(A, B)
  BY <1>4, <1>5 DEF Injection, IsInjective
<1>7. IsFiniteSet(B) /\ Load(need, xs) = Cardinality(B) /\ Load(need, xs) \in Nat
  BY <1>1, LoadFinite
<1>8. IsFiniteSet(A) /\ Cardinality(A) <= Cardinality(B)
  <2> HIDE DEF h, A, B
  <2> QED BY <1>6, <1>7, FS_Injection
<1>9. Cardinality(A) \in Nat
  BY <1>8, FS_CardinalityType
<1>10. Load(want, cs) = Cardinality(A)
  BY DEF Load, Units
<1>11. Load(want, cs) <= Load(need, xs) /\ Load(want, cs) \in Nat /\ Load(need, xs) \in Nat
  BY <1>7, <1>8, <1>9, <1>10
<1> QED BY <1>11 DEF JobLoad, need, want, xs

-----------------------------------------------------------------------------
(* Steps that leave the books alone.                                         *)

(* What a step may do to the world without a request noticing.              *)
KeepsBirth ==
    \A c \in Cids : /\ Born(c) => docker'[c] # "unborn"
                    /\ docker[c] = "gone" => docker'[c] = "gone"
KeepsUnborn == \A j \in Jobs : Unborn(j) => Unborn(j)'
KeepsJob(j) ==
    /\ Unstarted(j) => Unstarted(j)'
    /\ Barred(j) => Barred(j)'
    /\ (posts[j] = 0 => registry[j] = Reaped) => (posts'[j] = 0 => registry'[j] = Reaped)
    /\ Lost(j) => Lost(j)'
    /\ \A left : Swept(j, left) => Swept(j, left)'
KeepsJobs == \A j \in Jobs : KeepsJob(j)

(* A container is removed or exits.                                         *)
DockerFalls ==
    \A c \in Cids : \/ docker'[c] = docker[c]
                    \/ Born(c) /\ docker'[c] = "gone"
                    \/ docker[c] = "running" /\ docker'[c] = "exited"

(* A tombstone only goes with the container it was for.                     *)
RegistryMoves ==
    \A j \in Jobs : /\ registry[j] = Reaped =>
                          registry'[j] = Reaped \/ \E c \in Own(j) : docker'[c] = "gone"
                    /\ registry'[j].cid # NoCid => docker'[registry'[j].cid] # "unborn"

BooksSame == UNCHANGED <<gate, queue, created, start, tick, phase, todo, snap, remove, posts>>

LEMMA FallsKeep ==
    ASSUME TypeInv, BoxInv, UNCHANGED <<gate, queue, created, start, posts>>,
           DockerFalls, RegistryMoves
    PROVE  KeepsBirth /\ KeepsUnborn /\ KeepsJobs
<1>1. KeepsBirth
  BY DEF DockerFalls, KeepsBirth, Born
<1>2. KeepsUnborn
  BY DEF DockerFalls, KeepsUnborn, Unborn, Own, Born
<1>3. ASSUME NEW j \in Jobs PROVE KeepsJob(j)
  <2>1. \A c \in Own(j) : docker[c] \in Asleep => docker'[c] \in Asleep
    BY DEF DockerFalls, Own, Asleep
  <2>2. Unstarted(j) => Unstarted(j)'
    BY <2>1 DEF Unstarted, InQueue
  <2>3. Lost(j) => Lost(j)'
    BY DEF Lost, Tracks
  <2>4. Barred(j) => Barred(j)'
    <3>1. CASE registry[j] = Reaped
      BY <3>1 DEF RegistryMoves, Barred
    <3>2. CASE Lost(j)
      BY <3>2, <2>3 DEF Barred
    <3>3. CASE \E c \in Own(j) : docker[c] = "gone"
      BY <3>3, <1>1 DEF KeepsBirth, Barred, Own
    <3> QED BY <3>1, <3>2, <3>3 DEF Barred
  <2>5. ASSUME posts[j] = 0, registry[j] = Reaped PROVE registry'[j] = Reaped
    <3>1. \A c \in Own(j) : docker'[c] = "unborn"
      BY <2>5, <1>2 DEF BoxInv, Fresh, KeepsUnborn, Unborn
    <3> QED BY <2>5, <3>1 DEF RegistryMoves
  <2>6. ASSUME NEW left, Swept(j, left) PROVE Swept(j, left)'
    BY <2>6, <2>2 DEF Swept, DockerFalls, Own
  <2> QED BY <2>2, <2>3, <2>4, <2>5, <2>6 DEF KeepsJob
<1> QED BY <1>1, <1>2, <1>3 DEF KeepsJobs

LEMMA FallsKeepJobs ==
    ASSUME TypeInv, BoxInv, BooksSame, DockerFalls, RegistryMoves
    PROVE  KeepsBirth /\ KeepsUnborn /\ KeepsJobs
BY FallsKeep DEF BooksSame

LEMMA FallsKeepBooks ==
    ASSUME TypeInv, BoxInv, TypeOK', BooksSame, DockerFalls, RegistryMoves
    PROVE  /\ OneBorn' /\ MemoryInv' /\ QueueInv' /\ StartInv' /\ SnapInv'
           /\ RunningIsAccounted' /\ BudgetInv'
<1> USE DEF BooksSame
<1>0. KeepsBirth /\ KeepsUnborn
  BY FallsKeepJobs
<1>1. \A c \in Cids : docker'[c] = "running" => docker[c] = "running"
  BY DEF DockerFalls
<1>2. OneBorn'
  <2>1. \A c \in Cids : docker'[c] # "unborn" => Born(c)
    BY DEF DockerFalls, Born
  <2> QED BY <2>1 DEF OneBorn, Born, BoxInv
<1>3. MemoryInv'
  BY <1>0 DEF MemoryInv, BoxInv, Born, KeepsBirth, RegistryMoves, TypeInv, TypeOK
<1>4. QueueInv'
  <2>1. \A c \in Cids : docker[c] \in Asleep => docker'[c] \in Asleep
    BY DEF DockerFalls, Asleep
  <2> QED BY <2>1 DEF QueueInv, BoxInv, InQueue, Own
<1>5. StartInv'
  <2>1. ASSUME NEW i \in 1..Len(start) PROVE StartOK(i)'
    <3>1. StartOK(i)
      BY DEF BoxInv, StartInv
    <3> QED BY <3>1 DEF StartOK, DockerFalls, InQueue
  <2> QED BY <2>1 DEF StartInv, BoxInv
<1>6. SnapInv'
  <2>1. \A c \in remove \cup todo : c \in Cids
    BY DEF TypeInv, TypeOK
  <2> QED BY <1>0, <1>1, <2>1 DEF SnapInv, BoxInv, RunningContainers, Born, KeepsBirth
<1>7. RunningIsAccounted'
  BY <1>1 DEF RunningIsAccounted, BoxInv, RunningContainers
<1>8. BudgetInv'
  <2> SUFFICES ASSUME NEW d \in Dims
               PROVE  JobLoad(Charged', d) <= Budget[d]
                      /\ JobLoad(JobsOf(RunningContainers'), d) <= Budget[d]
    BY DEF BudgetInv, JobsOf, JobLoad
  <2>1. Charged \in SUBSET Jobs /\ JobsOf(RunningContainers) \in SUBSET Jobs
    BY DaemonAssumption DEF Charged, RunningIds, JobsOf, SeenRunning, RunningContainers
  <2>2. Charged' \in SUBSET Charged
    BY <1>1 DEF Charged, RunningIds, JobsOf, SeenRunning
  <2>3. JobsOf(RunningContainers') \in SUBSET JobsOf(RunningContainers)
    BY <1>1 DEF JobsOf, RunningContainers
  <2>4. /\ JobLoad(Charged, d) <= Budget[d] /\ JobLoad(JobsOf(RunningContainers), d) <= Budget[d]
        /\ Budget[d] \in Nat
    BY GateAssumption DEF BoxInv, BudgetInv
  <2>5. JobLoad(Charged', d) <= JobLoad(Charged, d) /\ JobLoad(Charged', d) \in Nat
        /\ JobLoad(Charged, d) \in Nat
    BY <2>1, <2>2, JobLoads
  <2>6. /\ JobLoad(JobsOf(RunningContainers'), d) <= JobLoad(JobsOf(RunningContainers), d)
        /\ JobLoad(JobsOf(RunningContainers'), d) \in Nat
        /\ JobLoad(JobsOf(RunningContainers), d) \in Nat
    BY <2>1, <2>3, JobLoads
  <2> QED BY <2>4, <2>5, <2>6
<1> QED BY <1>2, <1>3, <1>4, <1>5, <1>6, <1>7, <1>8

(* Requests that a step leaves alone know what they knew.                   *)
LEMMA RecordKept ==
    ASSUME NEW r \in TaskRecords, TaskFine(r), MakeOK(r), ReapOK(r),
           KeepsBirth, r.pc # "idle" => KeepsJob(r.job),
           r.pc \in {"begin", "creating"} => (Unborn(r.job) => Unborn(r.job)')
    PROVE  MakeOK(r)' /\ ReapOK(r)'
<1>1. r.pc # "idle" => r.job \in Jobs /\ KeepsJob(r.job)
  BY DEF TaskFine
<1>2. r.cid \in Cids \/ r.pc \notin HoldsContainer
  BY DEF TaskFine
<1>3. \A c \in r.left : c \in Cids
  BY DEF TaskRecords
<1>4. r.pc \in {"finish", "discard", "record", "remove", "forget"} => r.pc \in HoldsContainer
  BY DEF HoldsContainer
<1>5. MakeOK(r)'
  <2>1. Making(r) => Unstarted(r.job)'
    BY <1>1 DEF MakeOK, Making, KeepsJob
  <2>2. r.pc \in {"begin", "creating"} => Unborn(r.job)'
    BY DEF MakeOK
  <2>3. r.pc \in HoldsContainer => docker'[r.cid] # "unborn"
    BY <1>2 DEF MakeOK, KeepsBirth
  <2>4. r.pc = "forget" => docker'[r.cid] = "gone"
    BY <1>2 DEF MakeOK, KeepsBirth, HoldsContainer
  <2>5. \A c \in r.left : docker'[c] # "unborn"
    BY <1>3 DEF MakeOK, KeepsBirth
  <2> QED BY <2>1, <2>2, <2>3, <2>4, <2>5 DEF MakeOK, Making, Born
<1>6. ReapOK(r)'
  <2>1. r.pc \in Settling => r.pc # "idle"
    BY DEF Settling
  <2>2. r.pc \in Settling /\ posts'[r.job] = 0 => registry'[r.job] = Reaped
    BY <1>1, <2>1 DEF ReapOK, KeepsJob
  <2>3. Sweeping(r) => Swept(r.job, StillLeft(r))'
    BY <1>1, <2>1 DEF ReapOK, KeepsJob, Sweeping, Settling, StillLeft
  <2> QED BY <2>2, <2>3 DEF ReapOK, Sweeping, StillLeft
<1> QED BY <1>5, <1>6

LEMMA RecordKeeps ==
    ASSUME NEW r \in TaskRecords, TaskFine(r), MakeOK(r), ReapOK(r),
           KeepsBirth, KeepsJobs,
           r.pc \in {"begin", "creating"} => (Unborn(r.job) => Unborn(r.job)')
    PROVE  MakeOK(r)' /\ ReapOK(r)'
<1>1. r.pc # "idle" => KeepsJob(r.job)
  BY DEF TaskFine, KeepsJobs
<1> QED BY <1>1, RecordKept

LEMMA GuardKeeps ==
    ASSUME NEW r \in TaskRecords, TaskFine(r), NEW m \in TaskRecords, TaskFine(m),
           Guarded(r, m), KeepsBirth, KeepsJobs
    PROVE  Guarded(r, m)'
<1>1. r.pc \in Settling \/ Sweeping(r) => r.job \in Jobs /\ KeepsJob(r.job)
  BY DEF TaskFine, KeepsJobs, Settling, Sweeping
<1>2. m.pc = "record" => m.cid \in Cids
  BY DEF TaskFine, HoldsContainer
<1>3. ASSUME m.job = r.job, r.pc \in Settling, m.pc \in {"begin", "creating", "finish"}
      PROVE  Barred(r.job)'
  BY <1>1, <1>3 DEF Guarded, KeepsJob
<1>4. ASSUME m.job = r.job, Sweeping(r), m.pc = "record"
      PROVE  Spent(r.job, m.cid, StillLeft(r))'
  <2>1. Spent(r.job, m.cid, StillLeft(r))
    BY <1>4 DEF Guarded
  <2>2. docker[m.cid] = "gone" => docker'[m.cid] = "gone"
    BY <1>2, <1>4 DEF KeepsBirth
  <2>3. Lost(r.job) => Lost(r.job)'
    BY <1>1, <1>4 DEF KeepsJob
  <2> QED BY <2>1, <2>2, <2>3 DEF Spent, StillLeft
<1> QED BY <1>3, <1>4 DEF Guarded, Sweeping, StillLeft

LEMMA FreshKeeps ==
    ASSUME TypeInv, Fresh, KeepsJobs, KeepsUnborn,
           \A j \in Jobs : posts'[j] = 0 => posts[j] = 0 /\ gate'[j] = gate[j],
           \A u \in Tasks : \A j \in Jobs :
              Making(task'[u]) /\ task'[u].job = j /\ posts'[j] = 0 =>
                  \E v \in Tasks : Making(task[v]) /\ task[v].job = j
    PROVE  Fresh'
<1> SUFFICES ASSUME NEW j \in Jobs, posts'[j] = 0
             PROVE  /\ gate'[j] = "untracked" /\ Unstarted(j)' /\ Unborn(j)'
                    /\ \A t \in Tasks : Making(task'[t]) => task'[t].job # j
  BY DEF Fresh, Making
<1>1. posts[j] = 0
  OBVIOUS
<1>2. gate[j] = "untracked" /\ Unstarted(j) /\ Unborn(j)
  BY <1>1 DEF Fresh
<1>3. Unstarted(j)' /\ Unborn(j)'
  BY <1>2 DEF KeepsJobs, KeepsJob, KeepsUnborn
<1>4. \A t \in Tasks : Making(task[t]) => task[t].job # j
  BY <1>1 DEF Fresh
<1> QED BY <1>1, <1>2, <1>3, <1>4

(* A step that changes one request, and leaves what the others know.        *)
LEMMA OneTaskMoves ==
    ASSUME TypeInv, TaskOK', OneCreate, MakeInv, ReapInv,
           NEW t \in Tasks, NEW n \in TaskRecords, task' = [task EXCEPT ![t] = n],
           KeepsBirth, KeepsJobs,
           \A j \in Jobs : (Unborn(j) => Unborn(j)') \/ (Making(task[t]) /\ task[t].job = j),
           \A u \in Tasks \ {t} : Making(n) /\ Making(task[u]) => task[u].job # n.job,
           MakeOK(n)', ReapOK(n)',
           \A m \in TaskRecords : m \in {task[u] : u \in Tasks \ {t}} =>
              Guarded(n, m)' /\ Guarded(m, n)'
    PROVE  OneCreate' /\ MakeInv' /\ ReapInv'
<1>1. task'[t] = n /\ \A u \in Tasks \ {t} : task'[u] = task[u]
  BY DEF TypeInv, TypeOK
<1>2. \A u \in Tasks : task[u] \in TaskRecords /\ TaskFine(task[u])
  BY DEF TypeInv, TaskOK
<1>3. ASSUME NEW u \in Tasks \ {t} PROVE MakeOK(task[u])' /\ ReapOK(task[u])'
  <2>1. PICK r : r = task[u]
    OBVIOUS
  <2>2. r \in TaskRecords /\ TaskFine(r) /\ MakeOK(r) /\ ReapOK(r)
    BY <2>1, <1>2 DEF MakeInv, ReapInv
  <2>3. r.pc \in {"begin", "creating"} => r.job \in Jobs /\ ~(Making(task[t]) /\ task[t].job = r.job)
    BY <2>1, <2>2, <1>3 DEF TaskFine, OneCreate, Making
  <2>4. MakeOK(r)' /\ ReapOK(r)'
    BY <2>2, <2>3, RecordKeeps
  <2>5. task'[u] = r
    BY <2>1, <1>1
  <2> QED BY <2>4, <2>5
<1>4. MakeOK(task[t])' /\ ReapOK(task[t])'
  BY <1>1
<1>5. MakeInv' /\ \A u \in Tasks : ReapOK(task[u])'
  BY <1>3, <1>4 DEF MakeInv
<1>6. OneCreate'
  BY <1>1 DEF OneCreate
<1>7. ASSUME NEW u \in Tasks, NEW v \in Tasks PROVE Guarded(task[u], task[v])'
  <2>1. PICK a : a = task'[u]
    OBVIOUS
  <2>2. PICK b : b = task'[v]
    OBVIOUS
  <2>3. Guarded(a, b)'
    <3>1. CASE u # t /\ v # t
      <4>1. a = task[u] /\ b = task[v]
        BY <2>1, <2>2, <3>1, <1>1
      <4>2. Guarded(a, b)
        BY <4>1 DEF ReapInv
      <4> QED BY <4>1, <4>2, <1>2, GuardKeeps
    <3>2. CASE u = t /\ v # t
      <4>1. a = n /\ b \in {task[w] : w \in Tasks \ {t}} /\ b \in TaskRecords
        BY <2>1, <2>2, <3>2, <1>1, <1>2
      <4> QED BY <4>1
    <3>3. CASE u # t /\ v = t
      <4>1. b = n /\ a \in {task[w] : w \in Tasks \ {t}} /\ a \in TaskRecords
        BY <2>1, <2>2, <3>3, <1>1, <1>2
      <4> QED BY <4>1
    <3>4. CASE u = t /\ v = t
      <4>1. a = n /\ b = n
        BY <2>1, <2>2, <3>4, <1>1
      <4>2. ~(n.pc \in Settling /\ n.pc \in {"begin", "creating", "finish"})
            /\ ~(Sweeping(n) /\ n.pc = "record")
        BY DEF Settling, Sweeping
      <4> QED BY <4>1, <4>2 DEF Guarded, Sweeping
    <3> QED BY <3>1, <3>2, <3>3, <3>4
  <2> QED BY <2>1, <2>2, <2>3
<1> QED BY <1>5, <1>6, <1>7 DEF ReapInv

(* A step that changes no request.                                          *)
LEMMA NoTaskMoves ==
    ASSUME TypeInv, OneCreate, MakeInv, ReapInv, task' = task,
           KeepsBirth, KeepsJobs, KeepsUnborn
    PROVE  OneCreate' /\ MakeInv' /\ ReapInv'
<1>1. \A u \in Tasks : task[u] \in TaskRecords /\ TaskFine(task[u])
  BY DEF TypeInv, TaskOK
<1>2. ASSUME NEW u \in Tasks PROVE MakeOK(task[u])' /\ ReapOK(task[u])'
  <2>1. PICK r : r = task[u]
    OBVIOUS
  <2>2. r \in TaskRecords /\ TaskFine(r) /\ MakeOK(r) /\ ReapOK(r)
    BY <2>1, <1>1 DEF MakeInv, ReapInv
  <2>3. r.pc \in {"begin", "creating"} => (Unborn(r.job) => Unborn(r.job)')
    BY <2>2 DEF TaskFine, KeepsUnborn
  <2>4. MakeOK(r)' /\ ReapOK(r)'
    BY <2>2, <2>3, RecordKeeps
  <2> QED BY <2>1, <2>4
<1>3. ASSUME NEW u \in Tasks, NEW v \in Tasks PROVE Guarded(task[u], task[v])'
  <2>1. PICK a : a = task[u]
    OBVIOUS
  <2>2. PICK b : b = task[v]
    OBVIOUS
  <2>3. Guarded(a, b)
    BY <2>1, <2>2 DEF ReapInv
  <2>4. Guarded(a, b)'
    BY <2>1, <2>2, <2>3, <1>1, GuardKeeps
  <2> QED BY <2>1, <2>2, <2>4
<1>4. OneCreate'
  BY DEF OneCreate, Making
<1> QED BY <1>2, <1>3, <1>4 DEF MakeInv, ReapInv

-----------------------------------------------------------------------------
(* The requests, step by step.                                               *)

LEMMA TaskFalls ==
    ASSUME TypeInv, TypeInv', BoxInv, phase = "serving",
           BooksSame, DockerFalls, RegistryMoves,
           NEW t \in Tasks, NEW n \in TaskRecords, task' = [task EXCEPT ![t] = n],
           Making(n) => Making(task[t]) /\ task[t].job = n.job,
           MakeOK(n)', ReapOK(n)',
           \A m \in TaskRecords : m \in {task[u] : u \in Tasks \ {t}} =>
              Guarded(n, m)' /\ Guarded(m, n)'
    PROVE  BoxInv'
<1>1. KeepsBirth /\ KeepsUnborn /\ KeepsJobs
  BY FallsKeepJobs
<1>2. task'[t] = n /\ \A u \in Tasks \ {t} : task'[u] = task[u]
  BY DEF TypeInv, TypeOK
<1>3. OneCreate' /\ MakeInv' /\ ReapInv'
  <2>1. \A u \in Tasks \ {t} : Making(n) /\ Making(task[u]) => task[u].job # n.job
    BY DEF BoxInv, OneCreate
  <2>2. TaskOK' /\ OneCreate /\ MakeInv /\ ReapInv
    BY DEF TypeInv, BoxInv
  <2>3. \A j \in Jobs : Unborn(j) => Unborn(j)'
    BY <1>1 DEF KeepsUnborn
  <2> QED BY <1>1, <2>1, <2>2, <2>3, OneTaskMoves
<1>4. Fresh'
  <2>1. \A u \in Tasks : Making(task'[u]) => Making(task[u]) /\ task[u].job = task'[u].job
    BY <1>2
  <2>2. \A j \in Jobs : posts'[j] = 0 => posts[j] = 0 /\ gate'[j] = gate[j]
    BY DEF BooksSame
  <2>3. Fresh
    BY DEF BoxInv
  <2> QED BY <1>1, <2>1, <2>2, <2>3, FreshKeeps
<1>5. /\ OneBorn' /\ MemoryInv' /\ QueueInv' /\ StartInv' /\ SnapInv'
      /\ RunningIsAccounted' /\ BudgetInv'
  BY FallsKeepBooks DEF TypeInv
<1>6. StartingInv'
  BY DEF StartingInv, BooksSame
<1> QED BY <1>3, <1>4, <1>5, <1>6 DEF BoxInv

(* Guards that say nothing.                                                 *)
LEMMA NoGuard ==
    ASSUME NEW r, NEW m, r.pc \notin Settling \/ m.job # r.job
                        \/ m.pc \notin {"begin", "creating", "finish", "record"}
    PROVE  Guarded(r, m)'
BY DEF Guarded, Settling, Sweeping

LEMMA Busy ==
    ASSUME TypeInv, BoxInv, NEW t \in Tasks, task[t].pc # "idle"
    PROVE  phase = "serving" /\ task[t].job \in Jobs
BY DEF TypeInv, TaskOK, TaskFine, BoxInv, StartingInv, Idle

(* A request that ends leaves no claim.                                     *)
LEMMA IdleOK == MakeOK(Idle)' /\ ReapOK(Idle)'
                /\ \A m : Guarded(Idle, m)' /\ Guarded(m, Idle)'
BY DEF Idle, MakeOK, ReapOK, Guarded, Making, HoldsContainer, Settling, Sweeping

LEMMA TaskEnds ==
    ASSUME TypeInv, TypeInv', BoxInv, phase = "serving",
           BooksSame, DockerFalls, RegistryMoves, NEW t \in Tasks, Done(t)
    PROVE  BoxInv'
<1>1. PICK n : n = Idle
  OBVIOUS
<1>2. n \in TaskRecords /\ task' = [task EXCEPT ![t] = n] /\ ~Making(n)
  BY <1>1, IdleType DEF Done, Idle, Making
<1>3. MakeOK(n)' /\ ReapOK(n)' /\ \A m : Guarded(n, m)' /\ Guarded(m, n)'
  BY <1>1, IdleOK
<1> QED BY <1>2, <1>3, TaskFalls

LEMMA MakingJob ==
    ASSUME TypeInv, BoxInv, NEW t \in Tasks, Making(task[t])
    PROVE  /\ phase = "serving" /\ task[t].job \in Jobs /\ posts[task[t].job] # 0
           /\ Unstarted(task[t].job)
           /\ \A u \in Tasks \ {t} : Making(task[u]) => task[u].job # task[t].job
<1>1. task[t].pc # "idle"
  BY DEF Making
<1>2. phase = "serving" /\ task[t].job \in Jobs
  BY <1>1, Busy
<1>3. posts[task[t].job] # 0
  BY <1>2 DEF BoxInv, Fresh
<1> QED BY <1>2, <1>3 DEF BoxInv, OneCreate, MakeInv, MakeOK

LEMMA SameWorldFalls == docker' = docker => DockerFalls
BY DEF DockerFalls

LEMMA KnownCids ==
    ASSUME TypeInv, BoxInv
    PROVE  \A j \in Jobs : registry[j].cid # NoCid =>
              registry[j].cid \in Cids /\ Born(registry[j].cid)
<1>1. \A j \in Jobs : registry[j] \in JobStates
  BY DEF TypeInv, TypeOK, RegistryStates
<1>2. \A x \in JobStates : x.cid \in Cids \cup {NoCid}
  BY DEF JobStates, Absent, Creating, Reaped, Stale, Created
<1> QED BY <1>1, <1>2 DEF BoxInv, MemoryInv

LEMMA SameRegistryMoves ==
    ASSUME TypeInv, BoxInv, registry' = registry, DockerFalls
    PROVE  RegistryMoves
BY KnownCids DEF RegistryMoves, DockerFalls, Born

LEMMA RemovedFalls ==
    ASSUME TypeInv, NEW c \in Cids, Born(c), docker' = Removed(c)
    PROVE  DockerFalls
BY DEF DockerFalls, Removed, TypeInv, TypeOK, Born

LEMMA Removes ==
    ASSUME Reliable, NEW c, ForceRemove(c)
    PROVE  docker' = Removed(c)
BY DEF Reliable, ForceRemove, RemovalMayFail, Misreports

LEMMA RegistryShape ==
    ASSUME TypeInv
    PROVE  /\ \A j \in Jobs : registry[j] \in JobStates
           /\ DOMAIN registry = Jobs
           /\ Absent.cid = NoCid /\ Creating.cid = NoCid /\ Reaped.cid = NoCid /\ Stale.cid = NoCid
           /\ \A c \in Cids : Created(c).cid = c
           /\ Absent # Reaped /\ Creating # Reaped /\ Stale # Reaped /\ Stale # Absent
           /\ \A c \in Cids : Created(c) # Reaped
BY DEF TypeInv, TypeOK, RegistryStates, Absent, Creating, Reaped, Stale, Created

(* The claim is refused, or taken: then the create is under way.            *)
LEMMA CreateClaimsKeeps ==
    ASSUME TypeInv, TypeInv', BoxInv, NEW t \in Tasks, CreateClaims(t)
    PROVE  BoxInv'
<1> DEFINE j == task[t].job
<1>1. /\ task[t].pc = "begin" /\ Making(task[t])
      /\ registry' = BeginCreate(registry, j)
      /\ UNCHANGED <<gate, queue, created, start, tick, phase, todo, snap, remove, posts, docker>>
  BY DEF CreateClaims, Making, startup, ticker, world, bounds
<1>2. BooksSame /\ DockerFalls
  BY <1>1, SameWorldFalls DEF BooksSame
<1>3. /\ phase = "serving" /\ j \in Jobs /\ posts[j] # 0 /\ Unstarted(j)
      /\ \A u \in Tasks \ {t} : Making(task[u]) => task[u].job # j
  BY <1>1, MakingJob
<1>4. RegistryMoves
  <2>1. \A k \in Jobs : registry'[k] = registry[k] \/ registry'[k] \in {Absent, Creating}
    BY <1>1, RegistryShape DEF BeginCreate, Prune
  <2>2. \A k \in Jobs : registry[k] = Reaped => registry'[k] = Reaped
    BY <1>1, <1>3, RegistryShape DEF BeginCreate, Prune
  <2>3. \A k \in Jobs : registry[k].cid # NoCid =>
           registry[k].cid \in Cids /\ docker'[registry[k].cid] # "unborn"
    BY <1>1, KnownCids DEF Born
  <2> QED BY <2>1, <2>2, <2>3, RegistryShape DEF RegistryMoves
<1>5. KeepsBirth /\ KeepsUnborn /\ KeepsJobs
  BY <1>2, <1>4, FallsKeepJobs
<1>6. Unborn(j) /\ task[t].left \subseteq Cids /\ \A c \in task[t].left : Born(c)
  BY <1>1 DEF BoxInv, MakeInv, MakeOK, TypeInv, TypeOK, TaskRecords
<1>7. PICK n : n = [task[t] EXCEPT !.pc = IF BeginOutcome(registry, j) = "Proceed"
                                          THEN "creating" ELSE "rel_gate"]
  OBVIOUS
<1>8. /\ n \in TaskRecords /\ task' = [task EXCEPT ![t] = n]
      /\ n.job = j /\ n.left = task[t].left /\ n.pc \in {"creating", "rel_gate"}
  BY <1>7 DEF CreateClaims, Goto, TypeInv, TypeOK, TaskRecords, TaskPcs
<1>9. PICK k : k = j
  OBVIOUS
<1>10. k \in Jobs /\ KeepsJob(k) /\ n.job = k
  BY <1>3, <1>5, <1>8, <1>9 DEF KeepsJobs
<1>11. Unborn(k)' /\ Unstarted(k)' /\ posts'[k] # 0
  BY <1>1, <1>3, <1>5, <1>6, <1>9, <1>10 DEF KeepsUnborn, KeepsJob
<1>12. \A c \in n.left : docker'[c] # "unborn"
  BY <1>6, <1>8, <1>5 DEF KeepsBirth
<1>13. MakeOK(n)'
  BY <1>8, <1>10, <1>11, <1>12 DEF MakeOK, Making, HoldsContainer, Born
<1>14. ReapOK(n)'
  <2>1. Swept(k, {})'
    BY <1>11 DEF Swept, Unborn
  <2> QED BY <1>8, <1>10, <1>11, <2>1 DEF ReapOK, Sweeping, StillLeft, Settling
<1>15. ASSUME NEW m \in TaskRecords, m \in {task[u] : u \in Tasks \ {t}}
       PROVE  Guarded(n, m)' /\ Guarded(m, n)'
  <2>1. PICK u \in Tasks \ {t} : m = task[u]
    BY <1>15
  <2>2. Guarded(n, m)'
    <3>1. ~Making(m) \/ m.job # n.job
      BY <1>3, <1>8, <2>1
    <3>2. m.job # n.job \/ m.pc \notin {"begin", "creating", "finish", "record"}
      BY <3>1 DEF Making
    <3> QED BY <3>2, NoGuard
  <2>3. Guarded(m, n)'
    <3>1. CASE m.job # n.job \/ m.pc \notin Settling
      BY <3>1, NoGuard
    <3>2. CASE m.job = n.job /\ m.pc \in Settling
      <4>1. Barred(k)
        BY <1>1, <1>9, <1>10, <2>1, <3>2 DEF BoxInv, ReapInv, Guarded
      <4>2. Barred(k)'
        BY <4>1, <1>10 DEF KeepsJob
      <4> QED BY <3>2, <4>2, <1>8, <1>10 DEF Guarded
    <3> QED BY <3>1, <3>2
  <2> QED BY <2>2, <2>3
<1>16. Making(n) => Making(task[t]) /\ task[t].job = n.job
  BY <1>1, <1>8
<1> QED BY <1>2, <1>3, <1>4, <1>8, <1>13, <1>14, <1>15, <1>16, TaskFalls

(* A create that ends without a container to start releases its job.        *)
LEMMA MakingReleases ==
    ASSUME TypeInv, TypeInv', BoxInv, BooksSame, DockerFalls, RegistryMoves,
           NEW t \in Tasks, Making(task[t]), Goto(t, "rel_gate"),
           NEW k \in Jobs, k = task[t].job, Swept(k, {})'
    PROVE  BoxInv'
<1>1. /\ phase = "serving" /\ posts[k] # 0
      /\ \A u \in Tasks \ {t} : Making(task[u]) => task[u].job # k
  BY MakingJob
<1>2. KeepsBirth
  BY FallsKeepJobs
<1>3. PICK n : n = [task[t] EXCEPT !.pc = "rel_gate"]
  OBVIOUS
<1>4. /\ n \in TaskRecords /\ task' = [task EXCEPT ![t] = n]
      /\ n.job = k /\ n.left = task[t].left /\ n.pc = "rel_gate"
  <2>1. task[t] \in TaskRecords
    BY DEF TypeInv, TypeOK
  <2>2. n \in TaskRecords /\ n.job = k /\ n.left = task[t].left /\ n.pc = "rel_gate"
    BY <1>3, <2>1 DEF TaskRecords, TaskPcs
  <2> QED BY <1>3, <2>2 DEF Goto
<1>5. \A c \in n.left : c \in Cids /\ docker'[c] # "unborn"
  BY <1>2, <1>4 DEF BoxInv, MakeInv, MakeOK, TypeInv, TypeOK, TaskRecords, KeepsBirth
<1>6. MakeOK(n)'
  BY <1>4, <1>5 DEF MakeOK, Making, HoldsContainer, Born
<1>7. ReapOK(n)'
  BY <1>1, <1>4 DEF ReapOK, Sweeping, StillLeft, Settling, BooksSame
<1>8. ASSUME NEW m \in TaskRecords, m \in {task[u] : u \in Tasks \ {t}}
      PROVE  Guarded(n, m)' /\ Guarded(m, n)'
  <2>1. ~Making(m) \/ m.job # n.job
    BY <1>1, <1>4, <1>8
  <2>2. m.job # n.job \/ m.pc \notin {"begin", "creating", "finish", "record"}
    BY <2>1 DEF Making
  <2>3. n.pc \notin {"begin", "creating", "finish", "record"}
    BY <1>4
  <2> QED BY <2>2, <2>3, NoGuard
<1>9. ~Making(n)
  BY <1>4 DEF Making
<1> QED BY <1>1, <1>4, <1>6, <1>7, <1>8, <1>9, TaskFalls

LEMMA CreateFailsKeeps ==
    ASSUME TypeInv, TypeInv', BoxInv, NEW t \in Tasks, CreateFails(t)
    PROVE  BoxInv'
<1>1. PICK k : k = task[t].job
  OBVIOUS
<1>2. /\ Making(task[t]) /\ Goto(t, "rel_gate")
      /\ registry' = AbandonCreate(registry, k)
      /\ UNCHANGED <<gate, queue, created, start, tick, phase, todo, snap, remove, posts, docker>>
  BY <1>1 DEF CreateFails, Making, startup, ticker, world, bounds
<1>3. BooksSame /\ DockerFalls
  BY <1>2, SameWorldFalls DEF BooksSame
<1>4. k \in Jobs /\ Unstarted(k)
  BY <1>1, <1>2, MakingJob
<1>5. RegistryMoves
  <2>1. \A i \in Jobs : registry'[i] = registry[i] \/ (registry'[i] = Absent /\ registry[i] # Reaped)
    BY <1>2, <1>4, RegistryShape DEF AbandonCreate, IsTombstone
  <2>2. \A i \in Jobs : registry[i].cid # NoCid =>
           registry[i].cid \in Cids /\ docker'[registry[i].cid] # "unborn"
    BY <1>2, KnownCids DEF Born
  <2> QED BY <2>1, <2>2, RegistryShape DEF RegistryMoves
<1>6. Unstarted(k)'
  BY <1>3, <1>4, <1>5, FallsKeepJobs DEF KeepsJobs, KeepsJob
<1>7. Swept(k, {})'
  BY <1>6 DEF Swept, Unstarted, Asleep
<1> QED BY <1>1, <1>2, <1>3, <1>4, <1>5, <1>7, MakingReleases

LEMMA CreateDiscardsKeeps ==
    ASSUME TypeInv, TypeInv', BoxInv, Reliable, NEW t \in Tasks, CreateDiscards(t)
    PROVE  BoxInv'
<1>1. PICK k : k = task[t].job
  OBVIOUS
<1>2. PICK c : c = task[t].cid
  OBVIOUS
<1>3. /\ Making(task[t]) /\ Goto(t, "rel_gate") /\ registry' = registry
      /\ ForceRemove(c) /\ task[t].pc = "discard"
      /\ UNCHANGED <<gate, queue, created, start, tick, phase, todo, snap, remove, posts>>
  BY <1>2 DEF CreateDiscards, Making, startup, ticker, memory, bounds
<1>4. c \in Cids /\ Born(c) /\ JobOf[c] = k
  BY <1>1, <1>2, <1>3, TaskFacts DEF BoxInv, MakeInv, MakeOK, HoldsContainer, TypeInv
<1>5. docker' = Removed(c)
  BY <1>3, Removes
<1>6. BooksSame /\ DockerFalls /\ RegistryMoves
  BY <1>3, <1>4, <1>5, RemovedFalls, SameRegistryMoves DEF BooksSame
<1>7. k \in Jobs
  BY <1>1, <1>3, MakingJob
<1>8. Swept(k, {})'
  <2>1. \A e \in Own(k) : e = c \/ docker[e] = "unborn"
    BY <1>4 DEF BoxInv, OneBorn, Own, Born
  <2>2. \A e \in Own(k) : docker'[e] \in {"unborn", "gone"}
    BY <2>1, <1>4, <1>5 DEF Removed, Own, TypeInv, TypeOK
  <2> QED BY <2>2 DEF Swept
<1> QED BY <1>1, <1>3, <1>6, <1>7, <1>8, MakingReleases

(* The answer to the create: a tombstone or a release decides what follows. *)
LEMMA CreateFinishesKeeps ==
    ASSUME TypeInv, TypeInv', BoxInv, NEW t \in Tasks, CreateFinishes(t)
    PROVE  BoxInv'
<1>1. PICK k : k = task[t].job
  OBVIOUS
<1>2. PICK c : c = task[t].cid
  OBVIOUS
<1>3. /\ task[t].pc = "finish" /\ Making(task[t]) /\ registry' = FinishCreate(registry, k, c)
      /\ UNCHANGED <<gate, queue, created, start, tick, phase, todo, snap, remove, posts, docker>>
  BY <1>1, <1>2 DEF CreateFinishes, Making, startup, ticker, world, bounds
<1>4. c \in Cids /\ Born(c) /\ JobOf[c] = k
  BY <1>1, <1>2, <1>3, TaskFacts DEF BoxInv, MakeInv, MakeOK, HoldsContainer, TypeInv
<1>5. BooksSame /\ DockerFalls
  BY <1>3, SameWorldFalls DEF BooksSame
<1>6. phase = "serving" /\ k \in Jobs /\ posts[k] # 0 /\ Unstarted(k)
  BY <1>1, <1>3, MakingJob
<1>7. RegistryMoves
  <2>1. \A i \in Jobs : \/ registry'[i] = registry[i]
                        \/ registry'[i] = Reaped
                        \/ registry'[i] = Created(c) /\ registry[i] # Reaped
    BY <1>3, <1>6, RegistryShape DEF FinishCreate, IsTombstone
  <2>2. \A i \in Jobs : registry[i].cid # NoCid =>
           registry[i].cid \in Cids /\ docker'[registry[i].cid] # "unborn"
    BY <1>3, KnownCids DEF Born
  <2> QED BY <1>3, <1>4, <2>1, <2>2, RegistryShape DEF RegistryMoves, Born
<1>8. KeepsBirth /\ KeepsJob(k)
  BY <1>5, <1>6, <1>7, FallsKeepJobs DEF KeepsJobs
<1>9. PICK n : n = [task[t] EXCEPT !.pc = IF FinishOutcome(registry, k) = "Keep"
                                          THEN "record" ELSE "discard"]
  OBVIOUS
<1>10. /\ n \in TaskRecords /\ task' = [task EXCEPT ![t] = n]
       /\ n.job = k /\ n.cid = c /\ n.left = task[t].left /\ n.pc \in {"record", "discard"}
       /\ n.pc = "record" => registry[k] # Reaped
  BY <1>1, <1>2, <1>9
     DEF CreateFinishes, Goto, TypeInv, TypeOK, TaskRecords, TaskPcs, FinishOutcome, IsTombstone
<1>11. MakeOK(n)'
  <2>1. Unstarted(k)'
    BY <1>6, <1>8 DEF KeepsJob
  <2>2. \A e \in n.left : e \in Cids /\ docker'[e] # "unborn"
    BY <1>8, <1>10 DEF BoxInv, MakeInv, MakeOK, TypeInv, TypeOK, TaskRecords, KeepsBirth
  <2> QED BY <1>3, <1>4, <1>10, <2>1, <2>2 DEF MakeOK, Making, Born
<1>12. ReapOK(n)'
  BY <1>10 DEF ReapOK, Sweeping, Settling
<1>13. ASSUME NEW m \in TaskRecords, m \in {task[u] : u \in Tasks \ {t}}
       PROVE  Guarded(n, m)' /\ Guarded(m, n)'
  <2>1. Guarded(n, m)'
    BY <1>10, NoGuard DEF Settling
  <2>2. Guarded(m, n)'
    <3>1. CASE m.job # n.job \/ m.pc \notin Settling \/ n.pc = "discard"
      BY <3>1, NoGuard
    <3>2. CASE m.job = n.job /\ m.pc \in Settling /\ n.pc = "record"
      <4>1. Barred(k)
        BY <1>1, <1>3, <1>10, <1>13, <3>2 DEF BoxInv, ReapInv, Guarded
      <4>2. Lost(k) \/ docker[c] = "gone"
        BY <4>1, <1>4, <1>10, <3>2 DEF Barred, BoxInv, OneBorn, Own, Born
      <4>3. Spent(k, c, StillLeft(m))'
        BY <4>2, <1>8, <1>4 DEF Spent, KeepsJob, KeepsBirth
      <4> QED BY <3>2, <4>3, <1>10 DEF Guarded, Sweeping, StillLeft
    <3> QED BY <1>10, <3>1, <3>2
  <2> QED BY <2>1, <2>2
<1>14. Making(n) => Making(task[t]) /\ task[t].job = n.job
  BY <1>1, <1>3, <1>10
<1> QED BY <1>5, <1>6, <1>7, <1>10, <1>11, <1>12, <1>13, <1>14, TaskFalls

(* A step to a point where a request claims and settles nothing.            *)
LEMMA HarmlessMove ==
    ASSUME TypeInv, TypeInv', BoxInv, phase = "serving",
           BooksSame, DockerFalls, RegistryMoves,
           NEW t \in Tasks, NEW n \in TaskRecords, task' = [task EXCEPT ![t] = n],
           n.pc \notin Settling, ~Making(n), MakeOK(n)'
    PROVE  BoxInv'
<1>1. ReapOK(n)'
  BY DEF ReapOK, Settling, Sweeping
<1>2. \A m : Guarded(n, m)' /\ Guarded(m, n)'
  BY NoGuard DEF Making
<1> QED BY <1>1, <1>2, TaskFalls

LEMMA SetsAside ==
    ASSUME TypeInv, TypeInv', BoxInv, NEW t \in Tasks, RememberCreated(t), ~Tracks(gate, task[t].job)
    PROVE  BoxInv'
<1>1. /\ task[t].pc = "record" /\ Making(task[t]) /\ Goto(t, "abandon")
      /\ registry' = registry
      /\ UNCHANGED <<gate, queue, created, start, tick, phase, todo, snap, remove, posts, docker>>
  BY DEF RememberCreated, Making, startup, ticker, world, bounds
<1>2. BooksSame /\ DockerFalls /\ RegistryMoves
  BY <1>1, SameWorldFalls, SameRegistryMoves DEF BooksSame
<1>3. PICK n : n = [task[t] EXCEPT !.pc = "abandon"]
  OBVIOUS
<1>4. task[t] \in TaskRecords /\ task[t].cid \in Cids
  BY <1>1, TaskFacts DEF TypeInv, HoldsContainer
<1>5. /\ n \in TaskRecords /\ n.pc = "abandon" /\ n.left = task[t].left /\ n.cid = task[t].cid
  BY <1>3, <1>4 DEF TaskRecords, TaskPcs
<1>6. n.pc \notin Settling /\ ~Making(n) /\ task' = [task EXCEPT ![t] = n]
  BY <1>1, <1>3, <1>5 DEF Settling, Making, Goto
<1>7. MakeOK(n)'
  <2>1. Born(task[t].cid) /\ \A c \in task[t].left : Born(c)
    BY <1>1 DEF BoxInv, MakeInv, MakeOK, HoldsContainer
  <2>2. docker'[n.cid] # "unborn" /\ \A c \in n.left : docker'[c] # "unborn"
    BY <1>1, <1>5, <2>1 DEF Born
  <2> QED BY <1>5, <1>6, <2>2 DEF MakeOK, Born
<1> QED BY <1>1, <1>2, <1>5, <1>6, <1>7, HarmlessMove, MakingJob

(* destroy: 404 or an error ends it; otherwise it has its container in hand. *)
LEMMA InspectKeeps ==
    ASSUME TypeInv, TypeInv', BoxInv, phase = "serving",
           NEW t \in Tasks, NEW c \in Cids, NEW rel \in BOOLEAN, DestroyInspects(t, c, rel),
           UNCHANGED <<memory, startup, ticker, world, bounds>>
    PROVE  BoxInv'
<1>1. /\ UNCHANGED <<gate, queue, created, start, tick, phase, todo, snap, remove, posts, docker>>
      /\ registry' = registry
  BY DEF memory, startup, ticker, world, bounds
<1>2. BooksSame /\ DockerFalls /\ RegistryMoves
  BY <1>1, SameWorldFalls, SameRegistryMoves DEF BooksSame
<1>3. CASE Done(t)
  BY <1>2, <1>3, TaskEnds
<1>4. CASE docker[c] \notin {"unborn", "gone"}
           /\ task' = [task EXCEPT ![t] = [Idle EXCEPT !.pc = "remove", !.job = JobOf[c],
                                                       !.cid = c, !.rel = rel]]
  <2>1. PICK n : n = [Idle EXCEPT !.pc = "remove", !.job = JobOf[c], !.cid = c, !.rel = rel]
    OBVIOUS
  <2>2. n \in TaskRecords /\ n.pc = "remove" /\ n.job = JobOf[c] /\ n.cid = c /\ n.left = {}
    BY <2>1, DaemonAssumption DEF Idle, TaskRecords, TaskPcs
  <2>3. n.pc \notin Settling /\ ~Making(n)
    BY <2>2 DEF Settling, Making
  <2>4. MakeOK(n)'
    BY <1>1, <1>4, <2>2, <2>3 DEF MakeOK, Born
  <2> QED BY <1>2, <1>4, <2>1, <2>2, <2>3, <2>4, HarmlessMove
<1> QED BY <1>3, <1>4 DEF DestroyInspects

LEMMA DestroyStarts ==
    ASSUME TypeInv, TypeInv', BoxInv, NEW t \in Tasks,
           AbandonUntracked(t) \/ \E c \in Cids : DestroyJob(t, c)
    PROVE  BoxInv'
<1>1. CASE AbandonUntracked(t)
  <2>1. task[t].cid \in Cids /\ phase = "serving"
    BY <1>1, TaskFacts, Busy DEF AbandonUntracked, TypeInv, HoldsContainer
  <2>2. DestroyInspects(t, task[t].cid, FALSE) /\ UNCHANGED <<memory, startup, ticker, world, bounds>>
    BY <1>1 DEF AbandonUntracked
  <2> QED BY <2>1, <2>2, InspectKeeps
<1>2. ASSUME NEW c \in Cids, DestroyJob(t, c) PROVE BoxInv'
  <2>1. phase = "serving" /\ DestroyInspects(t, c, TRUE)
        /\ UNCHANGED <<memory, startup, ticker, world, bounds>>
    BY <1>2 DEF DestroyJob
  <2> QED BY <2>1, InspectKeeps
<1> QED BY <1>1, <1>2

LEMMA DestroyRemovesKeeps ==
    ASSUME TypeInv, TypeInv', BoxInv, NEW t \in Tasks, DestroyRemoves(t)
    PROVE  BoxInv'
<1>1. PICK c : c = task[t].cid
  OBVIOUS
<1>2. /\ task[t].pc = "remove" /\ registry' = registry
      /\ UNCHANGED <<gate, queue, created, start, tick, phase, todo, snap, remove, posts>>
  BY DEF DestroyRemoves, memory, startup, ticker, bounds
<1>3. c \in Cids /\ Born(c) /\ JobOf[c] = task[t].job
  BY <1>1, <1>2, TaskFacts DEF BoxInv, MakeInv, MakeOK, HoldsContainer, TypeInv
<1>4. phase = "serving" /\ BooksSame
  BY <1>2, Busy DEF BooksSame
<1>5. CASE docker' = docker /\ Done(t)
  BY <1>2, <1>4, <1>5, TaskEnds, SameWorldFalls, SameRegistryMoves
<1>6. CASE docker' = Removed(c) /\ Goto(t, "forget")
  <2>1. DockerFalls /\ RegistryMoves
    BY <1>2, <1>3, <1>6, RemovedFalls, SameRegistryMoves
  <2>2. PICK n : n = [task[t] EXCEPT !.pc = "forget"]
    OBVIOUS
  <2>3. task[t] \in TaskRecords
    BY DEF TypeInv, TypeOK
  <2>4. /\ n \in TaskRecords /\ n.pc = "forget" /\ n.left = task[t].left /\ n.cid = c
        /\ n.job = task[t].job
    BY <1>1, <2>2, <2>3 DEF TaskRecords, TaskPcs
  <2>5. n.pc \notin Settling /\ ~Making(n) /\ task' = [task EXCEPT ![t] = n]
    BY <1>6, <2>2, <2>4 DEF Settling, Making, Goto
  <2>6. docker'[c] = "gone"
    BY <1>3, <1>6 DEF Removed, TypeInv, TypeOK
  <2>7. \A e \in n.left : docker'[e] # "unborn"
    <3>1. \A e \in task[t].left : Born(e) /\ e \in Cids
      BY <2>3 DEF BoxInv, MakeInv, MakeOK, TaskRecords
    <3> QED BY <2>1, <2>4, <3>1 DEF DockerFalls, Born
  <2>8. MakeOK(n)'
    BY <1>3, <2>4, <2>5, <2>6, <2>7 DEF MakeOK, Born
  <2> QED BY <1>4, <2>1, <2>4, <2>5, <2>8, HarmlessMove
<1> QED BY <1>1, <1>5, <1>6 DEF DestroyRemoves

(* destroy's container is gone; its job is released if a client asked.      *)
LEMMA DestroyForgetsKeeps ==
    ASSUME TypeInv, TypeInv', BoxInv, NEW t \in Tasks, DestroyForgets(t)
    PROVE  BoxInv'
<1>1. PICK c : c = task[t].cid
  OBVIOUS
<1>2. PICK k : k = task[t].job
  OBVIOUS
<1>3. /\ task[t].pc = "forget" /\ registry' = Forget(registry, k)
      /\ UNCHANGED <<gate, queue, created, start, tick, phase, todo, snap, remove, posts, docker>>
  BY <1>2 DEF DestroyForgets, startup, ticker, world, bounds
<1>4. c \in Cids /\ JobOf[c] = k /\ docker[c] = "gone"
  BY <1>1, <1>2, <1>3, TaskFacts DEF BoxInv, MakeInv, MakeOK, HoldsContainer, TypeInv
<1>5. phase = "serving" /\ k \in Jobs /\ BooksSame /\ DockerFalls
  BY <1>2, <1>3, Busy, SameWorldFalls DEF BooksSame
<1>6. RegistryMoves
  <2>1. \A i \in Jobs : registry'[i] = registry[i] \/ (i = k /\ registry'[i] = Absent)
    BY <1>3, <1>5, RegistryShape DEF Forget, ForgetAll
  <2>2. docker'[c] = "gone" /\ c \in Own(k)
    BY <1>3, <1>4 DEF Own
  <2>3. \A i \in Jobs : registry[i].cid # NoCid =>
           registry[i].cid \in Cids /\ docker'[registry[i].cid] # "unborn"
    BY <1>3, KnownCids DEF Born
  <2> QED BY <2>1, <2>2, <2>3, RegistryShape DEF RegistryMoves
<1>7. CASE Done(t)
  BY <1>5, <1>6, <1>7, TaskEnds
<1>8. CASE Goto(t, "rel_gate")
  <2>1. PICK n : n = [task[t] EXCEPT !.pc = "rel_gate"]
    OBVIOUS
  <2>2. task[t] \in TaskRecords
    BY DEF TypeInv, TypeOK
  <2>3. /\ n \in TaskRecords /\ n.pc = "rel_gate" /\ n.left = task[t].left /\ n.job = k
    BY <1>2, <2>1, <2>2 DEF TaskRecords, TaskPcs
  <2>4. ~Making(n) /\ task' = [task EXCEPT ![t] = n]
    BY <1>8, <2>1, <2>3 DEF Making, Goto
  <2>5. MakeOK(n)'
    <3>1. \A e \in task[t].left : Born(e)
      BY DEF BoxInv, MakeInv, MakeOK
    <3> QED BY <1>3, <2>3, <2>4, <3>1 DEF MakeOK, HoldsContainer, Born
  <2>6. posts[k] # 0
    BY <1>4, <1>5 DEF BoxInv, Fresh, Unborn, Own
  <2>7. \A e \in Own(k) : e = c \/ docker[e] = "unborn"
    BY <1>4 DEF BoxInv, OneBorn, Own, Born
  <2>8. ReapOK(n)'
    <3>1. Swept(k, {})'
      BY <1>3, <1>4, <2>7 DEF Swept
    <3> QED BY <1>3, <2>3, <2>6, <3>1 DEF ReapOK, Sweeping, StillLeft
  <2>9. ASSUME NEW m \in TaskRecords, m \in {task[u] : u \in Tasks \ {t}}
        PROVE  Guarded(n, m)' /\ Guarded(m, n)'
    <3>1. Guarded(m, n)'
      BY <2>3, NoGuard
    <3>2. Guarded(n, m)'
      <4>1. Barred(k)'
        BY <1>3, <1>4 DEF Barred, Own
      <4>2. ASSUME m.job = k, m.pc = "record" PROVE Spent(k, m.cid, StillLeft(n))'
        <5>1. m.cid \in Cids /\ JobOf[m.cid] = k /\ Born(m.cid)
          BY <2>9, <4>2, TaskFacts DEF BoxInv, MakeInv, MakeOK, HoldsContainer, TypeInv
        <5>2. m.cid = c
          BY <5>1, <1>4 DEF BoxInv, OneBorn, Born
        <5> QED BY <5>2, <1>3, <1>4 DEF Spent
      <4> QED BY <4>1, <4>2, <2>3 DEF Guarded, StillLeft
    <3> QED BY <3>1, <3>2
  <2> QED BY <1>5, <1>6, <2>3, <2>4, <2>5, <2>8, <2>9, TaskFalls
<1> QED BY <1>7, <1>8 DEF DestroyForgets

LEMMA DisconnectedKeeps ==
    ASSUME TypeInv, TypeInv', BoxInv, NEW t \in Tasks, DestroyDisconnected(t)
    PROVE  BoxInv'
<1>1. /\ task[t].pc # "idle" /\ Done(t) /\ registry' = registry
      /\ UNCHANGED <<gate, queue, created, start, tick, phase, todo, snap, remove, posts, docker>>
  BY DEF DestroyDisconnected, memory, startup, ticker, world, bounds
<1>2. BooksSame /\ DockerFalls /\ RegistryMoves /\ phase = "serving"
  BY <1>1, Busy, SameWorldFalls, SameRegistryMoves DEF BooksSame
<1> QED BY <1>1, <1>2, TaskEnds

(* A reap under way: what it knew, it still knows.                          *)
LEMMA StillKnown ==
    ASSUME TypeInv, BoxInv, BooksSame, DockerFalls, RegistryMoves,
           NEW t \in Tasks, NEW r, r = task[t]
    PROVE  /\ r \in TaskRecords /\ TaskFine(r) /\ MakeOK(r)' /\ ReapOK(r)' /\ KeepsBirth
           /\ \A m \in TaskRecords : m \in {task[u] : u \in Tasks \ {t}} =>
                 TaskFine(m) /\ MakeOK(m) /\ Guarded(r, m)'
<1>1. KeepsBirth /\ KeepsUnborn /\ KeepsJobs
  BY FallsKeepJobs
<1>2. r \in TaskRecords /\ TaskFine(r) /\ MakeOK(r) /\ ReapOK(r)
  BY DEF TypeInv, TaskOK, BoxInv, MakeInv, ReapInv
<1>3. r.pc \in {"begin", "creating"} => (Unborn(r.job) => Unborn(r.job)')
  BY <1>1, <1>2 DEF KeepsUnborn, TaskFine
<1>4. MakeOK(r)' /\ ReapOK(r)'
  BY <1>1, <1>2, <1>3, RecordKeeps
<1>5. ASSUME NEW m \in TaskRecords, m \in {task[u] : u \in Tasks \ {t}}
      PROVE  TaskFine(m) /\ MakeOK(m) /\ Guarded(r, m)'
  <2>1. TaskFine(m) /\ MakeOK(m) /\ Guarded(r, m)
    BY <1>5 DEF TypeInv, TaskOK, BoxInv, MakeInv, ReapInv
  <2> QED BY <2>1, <1>1, <1>2, GuardKeeps
<1> QED BY <1>1, <1>2, <1>4, <1>5

LEMMA ReapJobKeeps ==
    ASSUME TypeInv, TypeInv', BoxInv, NEW t \in Tasks, NEW j \in Jobs, ReapJob(t, j)
    PROVE  BoxInv'
<1>1. /\ phase = "serving" /\ registry' = Reap(registry, j)
      /\ UNCHANGED <<gate, queue, created, start, tick, phase, todo, snap, remove, posts, docker>>
  BY DEF ReapJob, startup, ticker, world, bounds
<1>2. BooksSame /\ DockerFalls
  BY <1>1, SameWorldFalls DEF BooksSame
<1>3. RegistryMoves /\ registry'[j] = Reaped
  <2>1. \A i \in Jobs : registry'[i] = registry[i] \/ registry'[i] = Reaped
                        \/ (registry'[i] = Absent /\ registry[i] = Stale)
    BY <1>1, RegistryShape DEF Reap, Prune
  <2>2. registry'[j] = Reaped
    BY <1>1, RegistryShape DEF Reap, Prune
  <2>3. \A i \in Jobs : registry[i].cid # NoCid =>
           registry[i].cid \in Cids /\ docker'[registry[i].cid] # "unborn"
    BY <1>1, KnownCids DEF Born
  <2> QED BY <2>1, <2>2, <2>3, RegistryShape DEF RegistryMoves
<1>4. PICK known : known = ReapKnown(registry, j)
  OBVIOUS
<1>5. known = NoCid \/ (known \in Cids /\ docker'[known] # "unborn")
  BY <1>1, <1>4, KnownCids DEF ReapKnown, Born
<1>6. PICK n : n = [Idle EXCEPT !.job = j, !.cid = known,
                       !.pc = IF known = NoCid THEN "reap_list" ELSE "reap_known"]
  OBVIOUS
<1>7. /\ n \in TaskRecords /\ n.job = j /\ n.cid = known /\ n.left = {}
      /\ n.pc = IF known = NoCid THEN "reap_list" ELSE "reap_known"
  BY <1>5, <1>6 DEF Idle, TaskRecords, TaskPcs
<1>8. ~Making(n) /\ task' = [task EXCEPT ![t] = n]
  BY <1>4, <1>6, <1>7 DEF ReapJob, Making
<1>9. MakeOK(n)'
  BY <1>5, <1>7, <1>8 DEF MakeOK, HoldsContainer, Born
<1>10. ReapOK(n)'
  BY <1>3, <1>7 DEF ReapOK, Sweeping
<1>11. ASSUME NEW m \in TaskRecords, m \in {task[u] : u \in Tasks \ {t}}
       PROVE  Guarded(n, m)' /\ Guarded(m, n)'
  <2>1. Guarded(m, n)'
    BY <1>7, NoGuard
  <2>2. Guarded(n, m)'
    BY <1>3, <1>7 DEF Guarded, Barred, Sweeping
  <2> QED BY <2>1, <2>2
<1> QED BY <1>1, <1>2, <1>3, <1>7, <1>8, <1>9, <1>10, <1>11, TaskFalls

LEMMA ReapRemovesKnownKeeps ==
    ASSUME TypeInv, TypeInv', BoxInv, NEW t \in Tasks, ReapRemovesKnown(t)
    PROVE  BoxInv'
<1>1. PICK r : r = task[t]
  OBVIOUS
<1>2. /\ r.pc = "reap_known" /\ registry' = registry
      /\ docker' = Removed(r.cid) \/ docker' = docker
      /\ UNCHANGED <<gate, queue, created, start, tick, phase, todo, snap, remove, posts>>
  BY <1>1 DEF ReapRemovesKnown, memory, startup, ticker, bounds
<1>3. r.cid \in Cids /\ Born(r.cid) /\ phase = "serving"
  BY <1>1, <1>2, TaskFacts, Busy DEF BoxInv, MakeInv, MakeOK, HoldsContainer, TypeInv
<1>4. DockerFalls /\ RegistryMoves /\ BooksSame
  BY <1>2, <1>3, RemovedFalls, SameWorldFalls, SameRegistryMoves DEF BooksSame
<1>5. /\ r \in TaskRecords /\ TaskFine(r) /\ MakeOK(r)' /\ ReapOK(r)'
      /\ \A m \in TaskRecords : m \in {task[u] : u \in Tasks \ {t}} => Guarded(r, m)'
  BY <1>1, <1>4, StillKnown
<1>6. PICK n \in TaskRecords : /\ n.pc = "reap_list" /\ n.job = r.job /\ n.left = r.left
                               /\ task' = [task EXCEPT ![t] = n]
  <2> DEFINE a == [r EXCEPT !.pc = "reap_list"]
             b == [r EXCEPT !.pc = "reap_list", !.ok = FALSE]
  <2>1. a \in TaskRecords /\ a.pc = "reap_list" /\ a.job = r.job /\ a.left = r.left
    BY <1>5 DEF TaskRecords, TaskPcs
  <2>2. b \in TaskRecords /\ b.pc = "reap_list" /\ b.job = r.job /\ b.left = r.left
    BY <1>5 DEF TaskRecords, TaskPcs
  <2>3. task' = [task EXCEPT ![t] = a] \/ task' = [task EXCEPT ![t] = b]
    BY <1>1 DEF ReapRemovesKnown, Goto, TypeInv, TypeOK
  <2> HIDE DEF a, b
  <2> QED BY <2>1, <2>2, <2>3
<1>7. ~Making(n) /\ MakeOK(n)' /\ ReapOK(n)'
  BY <1>2, <1>5, <1>6 DEF Making, MakeOK, HoldsContainer, ReapOK, Settling, Sweeping
<1>8. ASSUME NEW m \in TaskRecords, m \in {task[u] : u \in Tasks \ {t}}
      PROVE  Guarded(n, m)' /\ Guarded(m, n)'
  <2>1. Guarded(m, n)'
    BY <1>6, NoGuard
  <2>2. Guarded(r, m)'
    BY <1>5, <1>8
  <2>3. Guarded(n, m)'
    BY <2>2, <1>2, <1>6 DEF Guarded, Settling, Sweeping
  <2> QED BY <2>1, <2>3
<1> QED BY <1>3, <1>4, <1>6, <1>7, <1>8, TaskFalls

(* The listing finds every container of the job that exists.                *)
LEMMA ReapListsKeeps ==
    ASSUME TypeInv, TypeInv', BoxInv, NEW t \in Tasks, ReapLists(t)
    PROVE  BoxInv'
<1>1. PICK r : r = task[t]
  OBVIOUS
<1>2. /\ r.pc = "reap_list" /\ registry' = registry
      /\ UNCHANGED <<gate, queue, created, start, tick, phase, todo, snap, remove, posts, docker>>
  BY <1>1 DEF ReapLists, memory, startup, ticker, world, bounds
<1>3. phase = "serving" /\ r.job \in Jobs
  BY <1>1, <1>2, Busy
<1>4. DockerFalls /\ RegistryMoves /\ BooksSame
  BY <1>2, SameWorldFalls, SameRegistryMoves DEF BooksSame
<1>5. /\ r \in TaskRecords /\ TaskFine(r) /\ MakeOK(r)' /\ ReapOK(r)'
      /\ \A m \in TaskRecords : m \in {task[u] : u \in Tasks \ {t}} =>
            TaskFine(m) /\ MakeOK(m) /\ Guarded(r, m)'
  BY <1>1, <1>4, StillKnown
<1>6. PICK found : found = {c \in Live(docker) : JobOf[c] = r.job}
  OBVIOUS
<1>7. PICK n \in TaskRecords : /\ n.pc = "reap_listed" /\ n.job = r.job
                               /\ (n.ok = FALSE /\ n.left = r.left) \/ n.left = found
                               /\ task' = [task EXCEPT ![t] = n]
  <2> DEFINE a == [r EXCEPT !.pc = "reap_listed", !.left = found]
             b == [r EXCEPT !.pc = "reap_listed", !.ok = FALSE]
  <2>1. a \in TaskRecords /\ a.pc = "reap_listed" /\ a.job = r.job /\ a.left = found
    BY <1>5, <1>6 DEF TaskRecords, TaskPcs, Live
  <2>2. b \in TaskRecords /\ b.pc = "reap_listed" /\ b.job = r.job /\ b.left = r.left /\ b.ok = FALSE
    BY <1>5 DEF TaskRecords, TaskPcs
  <2>3. task' = [task EXCEPT ![t] = a] \/ task' = [task EXCEPT ![t] = b]
    BY <1>1, <1>6 DEF ReapLists, TypeInv, TypeOK
  <2> HIDE DEF a, b
  <2> QED BY <2>1, <2>2, <2>3
<1>8. \A c \in found : Born(c)
  BY <1>6 DEF Live, Born
<1>9. \A c \in Own(r.job) : c \in found \/ docker[c] \in {"unborn", "gone"}
  BY <1>6 DEF Own, Live, TypeInv, TypeOK, ContainerStates
<1>10. ~Making(n) /\ MakeOK(n)'
  BY <1>2, <1>5, <1>7, <1>8 DEF Making, MakeOK, HoldsContainer, Born
<1>11. ReapOK(n)'
  <2>1. posts[r.job] = 0 => registry[r.job] = Reaped
    BY <1>1, <1>2 DEF BoxInv, ReapInv, ReapOK, Settling
  <2>2. Swept(r.job, found)'
    BY <1>2, <1>9 DEF Swept
  <2> QED BY <1>2, <1>7, <2>1, <2>2 DEF ReapOK, Sweeping, StillLeft
<1>12. ASSUME NEW m \in TaskRecords, m \in {task[u] : u \in Tasks \ {t}}
       PROVE  Guarded(n, m)' /\ Guarded(m, n)'
  <2>1. Guarded(m, n)'
    BY <1>7, NoGuard
  <2>2. Guarded(r, m)' /\ TaskFine(m) /\ MakeOK(m)
    BY <1>5, <1>12
  <2>3. ASSUME m.job = r.job, m.pc = "record" PROVE m.cid \in found \/ docker'[m.cid] = "gone"
    <3>1. m.cid \in Own(r.job) /\ Born(m.cid)
      BY <2>2, <2>3 DEF TaskFine, MakeOK, HoldsContainer, Own
    <3> QED BY <3>1, <1>2, <1>9 DEF Born
  <2>4. Guarded(n, m)'
    BY <2>2, <2>3, <1>2, <1>7 DEF Guarded, Settling, Sweeping, StillLeft, Spent
  <2> QED BY <2>1, <2>4
<1> QED BY <1>3, <1>4, <1>7, <1>10, <1>11, <1>12, TaskFalls

LEMMA ReapRemovesListedKeeps ==
    ASSUME TypeInv, TypeInv', BoxInv, Reliable,
           NEW t \in Tasks, NEW c \in Cids, ReapRemovesListed(t, c)
    PROVE  BoxInv'
<1>1. PICK r : r = task[t]
  OBVIOUS
<1>2. /\ r.pc = "reap_listed" /\ c \in r.left /\ registry' = registry
      /\ UNCHANGED <<gate, queue, created, start, tick, phase, todo, snap, remove, posts>>
  BY <1>1 DEF ReapRemovesListed, memory, startup, ticker, bounds
<1>3. docker' = Removed(c) /\ task' = [task EXCEPT ![t].left = @ \ {c}]
  BY DEF ReapRemovesListed, Reliable, RemovalMayFail, Misreports
<1>4. phase = "serving" /\ Born(c)
  BY <1>1, <1>2, Busy DEF BoxInv, MakeInv, MakeOK
<1>5. DockerFalls /\ RegistryMoves /\ BooksSame
  BY <1>2, <1>3, <1>4, RemovedFalls, SameRegistryMoves DEF BooksSame
<1>6. /\ r \in TaskRecords /\ TaskFine(r) /\ MakeOK(r)' /\ ReapOK(r)'
      /\ \A m \in TaskRecords : m \in {task[u] : u \in Tasks \ {t}} => Guarded(r, m)'
  BY <1>1, <1>5, StillKnown
<1>7. PICK n : n = [r EXCEPT !.left = r.left \ {c}]
  OBVIOUS
<1>8. /\ n \in TaskRecords /\ n.pc = "reap_listed" /\ n.job = r.job /\ n.left = r.left \ {c}
      /\ n.ok = r.ok
  BY <1>2, <1>6, <1>7 DEF TaskRecords
<1>9. task' = [task EXCEPT ![t] = n]
  BY <1>1, <1>3, <1>7
<1>10. docker'[c] = "gone"
  BY <1>3 DEF Removed, TypeInv, TypeOK
<1>11. ~Making(n) /\ MakeOK(n)'
  BY <1>2, <1>6, <1>8 DEF Making, MakeOK, HoldsContainer
<1>12. ReapOK(n)'
  <2>1. r.ok => Swept(r.job, r.left)'
    BY <1>2, <1>6 DEF ReapOK, Sweeping, StillLeft
  <2>2. r.ok => Swept(r.job, n.left)'
    BY <2>1, <1>8, <1>10 DEF Swept
  <2>3. Sweeping(n) => Swept(n.job, StillLeft(n))'
    BY <2>2, <1>8 DEF Sweeping, StillLeft
  <2> QED BY <2>3, <1>2, <1>6, <1>8 DEF ReapOK, Settling, Sweeping, StillLeft
<1>13. ASSUME NEW m \in TaskRecords, m \in {task[u] : u \in Tasks \ {t}}
       PROVE  Guarded(n, m)' /\ Guarded(m, n)'
  <2>1. Guarded(m, n)'
    BY <1>8, NoGuard
  <2>2. Guarded(r, m)'
    BY <1>6, <1>13
  <2>3. Spent(r.job, m.cid, r.left)' => Spent(r.job, m.cid, n.left)'
    BY <1>8, <1>10 DEF Spent
  <2>4. Guarded(n, m)'
    BY <2>2, <2>3, <1>2, <1>8 DEF Guarded, Settling, Sweeping, StillLeft
  <2> QED BY <2>1, <2>4
<1> QED BY <1>4, <1>5, <1>8, <1>9, <1>11, <1>12, <1>13, TaskFalls

LEMMA ReapSettlesKeeps ==
    ASSUME TypeInv, TypeInv', BoxInv, NEW t \in Tasks, ReapSettles(t)
    PROVE  BoxInv'
<1>1. PICK r : r = task[t]
  OBVIOUS
<1>2. /\ r.pc = "reap_listed" /\ r.left = {} /\ registry' = registry
      /\ UNCHANGED <<gate, queue, created, start, tick, phase, todo, snap, remove, posts, docker>>
  BY <1>1 DEF ReapSettles, memory, startup, ticker, world, bounds
<1>3. phase = "serving"
  BY <1>1, <1>2, Busy
<1>4. DockerFalls /\ RegistryMoves /\ BooksSame
  BY <1>2, SameWorldFalls, SameRegistryMoves DEF BooksSame
<1>5. CASE Done(t)
  BY <1>3, <1>4, <1>5, TaskEnds
<1>6. CASE r.ok /\ Goto(t, "rel_gate")
  <2>1. /\ r \in TaskRecords /\ TaskFine(r) /\ MakeOK(r)' /\ ReapOK(r)'
        /\ \A m \in TaskRecords : m \in {task[u] : u \in Tasks \ {t}} => Guarded(r, m)'
    BY <1>1, <1>4, StillKnown
  <2>2. PICK n : n = [r EXCEPT !.pc = "rel_gate"]
    OBVIOUS
  <2>3. n \in TaskRecords /\ n.pc = "rel_gate" /\ n.job = r.job /\ n.left = {}
    BY <1>2, <2>1, <2>2 DEF TaskRecords, TaskPcs
  <2>4. task' = [task EXCEPT ![t] = n]
    BY <1>1, <1>6, <2>2 DEF Goto
  <2>5. ~Making(n) /\ MakeOK(n)'
    BY <1>2, <2>1, <2>3 DEF Making, MakeOK, HoldsContainer
  <2>6. ReapOK(n)'
    BY <1>2, <1>6, <2>1, <2>3 DEF ReapOK, Settling, Sweeping, StillLeft
  <2>7. ASSUME NEW m \in TaskRecords, m \in {task[u] : u \in Tasks \ {t}}
        PROVE  Guarded(n, m)' /\ Guarded(m, n)'
    <3>1. Guarded(m, n)'
      BY <2>3, NoGuard
    <3>2. Guarded(r, m)'
      BY <2>1, <2>7
    <3>3. Guarded(n, m)'
      BY <3>2, <1>2, <1>6, <2>3 DEF Guarded, Settling, Sweeping, StillLeft
    <3> QED BY <3>1, <3>3
  <2> QED BY <1>3, <1>4, <2>3, <2>4, <2>5, <2>6, <2>7, TaskFalls
<1> QED BY <1>1, <1>5, <1>6 DEF ReapSettles

-----------------------------------------------------------------------------
(* Releases.                                                                 *)

(* The list of starts, its head and the rest.                               *)
LEMMA StartsAre ==
    ASSUME TypeInv
    PROVE  /\ Len(start) \in Nat
           /\ \A i \in 1..Len(start) : start[i].job \in Jobs /\ start[i].cid \in Cids
           /\ start # <<>> =>
                 /\ 1 \in 1..Len(start) /\ Head(start) = start[1]
                 /\ start[1].job \in Jobs /\ start[1].cid \in Cids
                 /\ Tail(start) \in Seq(StartRequests) /\ Len(Tail(start)) = Len(start) - 1
                 /\ \A i \in 1..Len(Tail(start)) :
                       i + 1 \in 1..Len(start) /\ i + 1 # 1 /\ Tail(start)[i] = start[i + 1]
<1>1. start \in Seq(StartRequests)
  BY DEF TypeInv, TypeOK
<1>2. \A i \in 1..Len(start) : start[i].job \in Jobs /\ start[i].cid \in Cids
  <2>1. \A i \in 1..Len(start) : start[i] \in StartRequests
    BY <1>1
  <2> QED BY <2>1 DEF StartRequests
<1>3. Len(start) \in Nat
  BY <1>1
<1>4. ASSUME start # <<>>
      PROVE /\ 1 \in 1..Len(start) /\ Head(start) = start[1]
            /\ Tail(start) \in Seq(StartRequests) /\ Len(Tail(start)) = Len(start) - 1
            /\ \A i \in 1..Len(Tail(start)) :
                  i + 1 \in 1..Len(start) /\ i + 1 # 1 /\ Tail(start)[i] = start[i + 1]
  BY <1>1, <1>4
<1> QED BY <1>2, <1>3, <1>4

(* A release takes entries away, and budget only from a job none of whose   *)
(* containers runs or will run.                                             *)
LEMMA ReleaseKeeps ==
    ASSUME TypeInv, TypeInv', BoxInv, phase = "serving",
           UNCHANGED <<docker, registry, start, tick, phase, todo, snap, remove, posts>>,
           \A j \in Jobs : gate'[j] = gate[j] \/ (gate'[j] = "untracked" /\ Swept(j, {})),
           \A i, k \in 1..Len(queue') : queue'[i] = queue'[k] => i = k,
           ToSet(queue') \subseteq ToSet(queue),
           \A j \in Jobs : created'[j] \in {created[j], NoCid},
           NEW t \in Tasks, NEW n \in TaskRecords, task' = [task EXCEPT ![t] = n],
           n.pc \notin Settling, ~Making(n), MakeOK(n)'
    PROVE  BoxInv'
<1>1. KeepsBirth /\ KeepsUnborn
  BY DEF KeepsBirth, KeepsUnborn, Unborn, Born
<1>2. \A j \in Jobs : Unstarted(j) => Unstarted(j)'
  BY DEF Unstarted, InQueue
<1>3. \A j \in Jobs : Lost(j) => Lost(j)'
  BY DEF Lost, Tracks
<1>4. KeepsJobs
  <2>1. ASSUME NEW j \in Jobs PROVE Barred(j) => Barred(j)'
    BY <1>3 DEF Barred
  <2>2. ASSUME NEW j \in Jobs, NEW left, Swept(j, left) PROVE Swept(j, left)'
    BY <2>2, <1>2 DEF Swept
  <2> QED BY <1>2, <1>3, <2>1, <2>2 DEF KeepsJobs, KeepsJob
<1>5. OneCreate' /\ MakeInv' /\ ReapInv'
  <2>1. ReapOK(n)' /\ \A m : Guarded(n, m)' /\ Guarded(m, n)'
    BY NoGuard DEF ReapOK, Settling, Sweeping, Making
  <2>2. TaskOK' /\ OneCreate /\ MakeInv /\ ReapInv
    BY DEF TypeInv, BoxInv
  <2>3. \A j \in Jobs : Unborn(j) => Unborn(j)'
    BY <1>1 DEF KeepsUnborn
  <2> QED BY <1>1, <1>4, <2>1, <2>2, <2>3, OneTaskMoves
<1>6. Fresh'
  <2>1. \A u \in Tasks : Making(task'[u]) => Making(task[u]) /\ task[u].job = task'[u].job
    BY DEF TypeInv, TypeOK
  <2>2. \A j \in Jobs : posts'[j] = 0 => posts[j] = 0 /\ gate'[j] = gate[j]
    BY DEF BoxInv, Fresh
  <2>3. Fresh
    BY DEF BoxInv
  <2> QED BY <1>1, <1>4, <2>1, <2>2, <2>3, FreshKeeps
<1>7. OneBorn' /\ MemoryInv'
  BY DEF BoxInv, OneBorn, MemoryInv, Born
<1>8. QueueInv'
  BY DEF BoxInv, QueueInv, InQueue
<1>9. StartInv'
  <2>1. ASSUME NEW i \in 1..Len(start) PROVE StartOK(i)'
    <3>1. StartOK(i)
      BY DEF BoxInv, StartInv
    <3>2. docker[start[i].cid] = "created" => gate'[start[i].job] = gate[start[i].job]
      <4>1. start[i].job \in Jobs /\ start[i].cid \in Own(start[i].job)
        BY <3>1 DEF StartOK, Own
      <4>2. ~Unstarted(start[i].job)
        BY DEF Unstarted
      <4> QED BY <4>1, <4>2 DEF Swept
    <3> QED BY <3>1, <3>2 DEF StartOK, InQueue
  <2>2. tick = "requeue" => gate'[start[1].job] # "running"
    <3>1. tick = "requeue" => start # <<>>
      BY DEF TypeInv, TickOK
    <3> QED BY <3>1, StartsAre DEF BoxInv, StartInv
  <2> QED BY <2>1, <2>2 DEF BoxInv, StartInv
<1>10. SnapInv' /\ StartingInv'
  BY DEF BoxInv, SnapInv, StartingInv, RunningContainers, Born
<1>11. RunningIsAccounted'
  <2>1. ASSUME NEW c \in RunningContainers PROVE gate'[JobOf[c]] = gate[JobOf[c]]
    <3>1. c \in Own(JobOf[c]) /\ JobOf[c] \in Jobs /\ docker[c] = "running"
      BY DaemonAssumption DEF Own, RunningContainers
    <3>2. ~Swept(JobOf[c], {})
      BY <3>1 DEF Swept
    <3> QED BY <3>1, <3>2
  <2> QED BY <2>1 DEF BoxInv, RunningIsAccounted, RunningContainers
<1>12. BudgetInv'
  <2> SUFFICES ASSUME NEW d \in Dims PROVE JobLoad(Charged', d) <= Budget[d]
    BY DEF BudgetInv, BoxInv, JobsOf, JobLoad, RunningContainers
  <2>1. Charged = RunningIds(gate) /\ Charged' = RunningIds(gate')
    BY DEF Charged
  <2>2. Charged \in SUBSET Jobs /\ Charged' \in SUBSET Charged
    BY <2>1 DEF RunningIds
  <2>3. JobLoad(Charged, d) <= Budget[d] /\ Budget[d] \in Nat
    BY GateAssumption DEF BoxInv, BudgetInv
  <2>4. JobLoad(Charged', d) <= JobLoad(Charged, d) /\ JobLoad(Charged', d) \in Nat
        /\ JobLoad(Charged, d) \in Nat
    BY <2>2, JobLoads
  <2> QED BY <2>3, <2>4
<1> QED BY <1>5, <1>6, <1>7, <1>8, <1>9, <1>10, <1>11, <1>12 DEF BoxInv

LEMMA ReleaseStepKeeps ==
    ASSUME TypeInv, TypeInv', BoxInv, NEW t \in Tasks, ReleaseStep(t)
    PROVE  BoxInv'
<1>1. PICK r : r = task[t]
  OBVIOUS
<1>2. r \in TaskRecords /\ MakeOK(r)
  BY <1>1 DEF TypeInv, TypeOK, BoxInv, MakeInv
<1>3. /\ r.pc \in {"rel_gate", "rel_queue", "rel_created"}
      /\ UNCHANGED <<docker, registry, start, tick, phase, todo, snap, remove, posts>>
  BY <1>1 DEF ReleaseStep, ReleaseGate, ReleaseQueue, ReleaseCreated,
              startup, ticker, world, bounds
<1>4. phase = "serving" /\ r.job \in Jobs
  BY <1>1, <1>3, Busy
<1>5. \A i, k \in 1..Len(queue) : queue[i] = queue[k] => i = k
  BY DEF BoxInv, QueueInv
<1>6. PICK n : n = IF r.pc = "rel_created" THEN Idle
                   ELSE [r EXCEPT !.pc = IF r.pc = "rel_gate" THEN "rel_queue" ELSE "rel_created"]
  OBVIOUS
<1>7. /\ n \in TaskRecords /\ n.pc \in {"rel_queue", "rel_created", "idle"}
      /\ n.left \in {r.left, {}}
  <2>1. CASE r.pc = "rel_created"
    BY <1>6, <2>1, IdleType DEF Idle
  <2>2. CASE r.pc = "rel_gate"
    BY <1>2, <1>6, <2>2 DEF TaskRecords, TaskPcs
  <2>3. CASE r.pc = "rel_queue"
    BY <1>2, <1>6, <2>3 DEF TaskRecords, TaskPcs
  <2> QED BY <1>3, <2>1, <2>2, <2>3
<1>8. n.pc \notin Settling /\ ~Making(n) /\ MakeOK(n)'
  BY <1>2, <1>3, <1>7 DEF Settling, Making, MakeOK, HoldsContainer, Born
<1>9. CASE ReleaseGate(t)
  <2>1. r.pc = "rel_gate" /\ gate' = Release(gate, r.job) /\ task' = [task EXCEPT ![t] = n]
    BY <1>1, <1>6, <1>9 DEF ReleaseGate, Goto
  <2>2. queue' = queue /\ created' = created
    BY <1>9 DEF ReleaseGate
  <2>3. Swept(r.job, {})
    BY <1>1, <2>1 DEF BoxInv, ReapInv, ReapOK, Sweeping, StillLeft
  <2>4. \A j \in Jobs : gate'[j] = gate[j] \/ (gate'[j] = "untracked" /\ Swept(j, {}))
    BY <2>1, <2>3 DEF Release, ReleaseAll
  <2> QED BY <1>3, <1>4, <1>5, <1>7, <1>8, <2>1, <2>2, <2>4, ReleaseKeeps
<1>10. CASE ReleaseQueue(t)
  <2>1. r.pc = "rel_queue" /\ queue' = Without(queue, {r.job}) /\ task' = [task EXCEPT ![t] = n]
    BY <1>1, <1>6, <1>10 DEF ReleaseQueue, Goto
  <2>2. gate' = gate /\ created' = created
    BY <1>10 DEF ReleaseQueue
  <2>3. queue \in Seq(Jobs)
    BY DEF TypeInv, TypeOK
  <2>4. ToSet(queue') \subseteq ToSet(queue)
    BY <2>1, <2>3, WithoutProperties
  <2>5. \A i, k \in 1..Len(queue') : queue'[i] = queue'[k] => i = k
    BY <1>5, <2>1, <2>3, WithoutDistinct
  <2> QED BY <1>3, <1>4, <1>7, <1>8, <2>1, <2>2, <2>4, <2>5, ReleaseKeeps
<1>11. CASE ReleaseCreated(t)
  <2>1. /\ r.pc = "rel_created" /\ created' = ForgetCreated(created, {r.job})
        /\ task' = [task EXCEPT ![t] = n]
    BY <1>1, <1>6, <1>11 DEF ReleaseCreated, Done
  <2>2. gate' = gate /\ queue' = queue
    BY <1>11 DEF ReleaseCreated
  <2>3. \A j \in Jobs : created'[j] \in {created[j], NoCid}
    BY <2>1 DEF ForgetCreated
  <2> QED BY <1>3, <1>4, <1>5, <1>7, <1>8, <2>1, <2>2, <2>3, ReleaseKeeps
<1> QED BY <1>9, <1>10, <1>11 DEF ReleaseStep

-----------------------------------------------------------------------------
(* Creating.                                                                 *)

(* An admission: of this job nothing exists yet.                            *)
LEMMA CreateJobKeeps ==
    ASSUME TypeInv, TypeInv', BoxInv, Reliable, NEW t \in Tasks, NEW j \in Jobs, CreateJob(t, j)
    PROVE  BoxInv'
<1>1. /\ phase = "serving" /\ gate[j] = "untracked" /\ task[t] = Idle
      /\ gate' = [gate EXCEPT ![j] = "queued"] /\ posts' = [posts EXCEPT ![j] = @ + 1]
      /\ UNCHANGED <<queue, registry, created, start, tick, phase, todo, snap, remove, docker>>
  BY DEF CreateJob, AdmitOutcome, Tracks, Admit, startup, ticker, world
<1>2. posts[j] = 0 /\ posts'[j] # 0
  <2>1. posts[j] \in 0..MaxPosts /\ MaxPosts \in Nat /\ posts[j] < MaxPosts /\ MaxPosts <= 1
    BY DaemonAssumption DEF CreateJob, Reliable, TypeInv, TypeOK
  <2>2. posts'[j] = posts[j] + 1
    BY <1>1 DEF TypeInv, TypeOK
  <2> QED BY <2>1, <2>2
<1>3. \A i \in Jobs \ {j} : gate'[i] = gate[i] /\ posts'[i] = posts[i]
  BY <1>1 DEF TypeInv, TypeOK, GateStates
<1>4. gate'[j] = "queued"
  BY <1>1 DEF TypeInv, TypeOK, GateStates
<1>5. /\ Unstarted(j) /\ Unborn(j) /\ \A u \in Tasks : Making(task[u]) => task[u].job # j
  BY <1>2 DEF BoxInv, Fresh
<1>6. KeepsBirth /\ KeepsUnborn
  BY <1>1 DEF KeepsBirth, KeepsUnborn, Unborn, Born
<1>7. KeepsJobs
  <2>1. ASSUME NEW i \in Jobs, i # j PROVE KeepsJob(i)
    BY <1>1, <1>3, <2>1 DEF KeepsJob, Unstarted, Barred, Lost, Swept, InQueue, Tracks
  <2>2. Unstarted(j)'
    BY <1>1, <1>4, <1>5 DEF Unstarted, InQueue
  <2>3. Barred(j) => Barred(j)'
    BY <1>1, <1>2, <1>5 DEF Barred, Lost, Unborn
  <2>4. \A left : Swept(j, left)'
    BY <1>1, <1>5 DEF Swept, Unborn
  <2>5. KeepsJob(j)
    BY <1>2, <2>2, <2>3, <2>4 DEF KeepsJob, Lost
  <2> QED BY <2>1, <2>5 DEF KeepsJobs
<1>8. PICK n : n = [Idle EXCEPT !.pc = "begin", !.job = j]
  OBVIOUS
<1>9. n \in TaskRecords /\ n.pc = "begin" /\ n.job = j /\ n.left = {}
  BY <1>8 DEF Idle, TaskRecords, TaskPcs
<1>10. task' = [task EXCEPT ![t] = n]
  BY <1>8 DEF CreateJob
<1>11. MakeOK(n)' /\ ReapOK(n)'
  <2>1. Unstarted(j)' /\ Unborn(j)'
    BY <1>5, <1>6, <1>7 DEF KeepsJobs, KeepsJob, KeepsUnborn
  <2> QED BY <1>9, <2>1 DEF MakeOK, ReapOK, Making, HoldsContainer, Settling, Sweeping
<1>12. ASSUME NEW m \in TaskRecords, m \in {task[u] : u \in Tasks \ {t}}
       PROVE  Guarded(n, m)' /\ Guarded(m, n)'
  <2>1. Guarded(n, m)'
    BY <1>9, NoGuard DEF Settling
  <2>2. m.pc \in Settling /\ m.job = j => registry[j] = Reaped
    BY <1>2, <1>12 DEF BoxInv, ReapInv, ReapOK
  <2>3. Guarded(m, n)'
    BY <1>1, <1>9, <2>2 DEF Guarded, Barred
  <2> QED BY <2>1, <2>3
<1>13. OneCreate' /\ MakeInv' /\ ReapInv'
  <2>1. \A u \in Tasks \ {t} : Making(n) /\ Making(task[u]) => task[u].job # n.job
    BY <1>5, <1>9
  <2>2. TaskOK' /\ OneCreate /\ MakeInv /\ ReapInv
    BY DEF TypeInv, BoxInv
  <2>3. \A i \in Jobs : Unborn(i) => Unborn(i)'
    BY <1>6 DEF KeepsUnborn
  <2> QED BY <1>6, <1>7, <1>9, <1>10, <1>11, <1>12, <2>1, <2>2, <2>3, OneTaskMoves
<1>14. Fresh'
  <2>1. \A u \in Tasks : task'[u] = IF u = t THEN n ELSE task[u]
    BY <1>10 DEF TypeInv, TypeOK
  <2>2. \A u \in Tasks : \A i \in Jobs :
           Making(task'[u]) /\ task'[u].job = i /\ posts'[i] = 0 =>
              \E v \in Tasks : Making(task[v]) /\ task[v].job = i
    BY <1>2, <1>9, <2>1
  <2>3. \A i \in Jobs : posts'[i] = 0 => posts[i] = 0 /\ gate'[i] = gate[i]
    BY <1>2, <1>3
  <2>4. Fresh
    BY DEF BoxInv
  <2> QED BY <1>6, <1>7, <2>2, <2>3, <2>4, FreshKeeps
<1>15. \A i \in Jobs : gate'[i] = "running" <=> gate[i] = "running"
  BY <1>1, <1>3, <1>4
<1>16. OneBorn' /\ MemoryInv' /\ QueueInv' /\ SnapInv' /\ StartingInv'
  BY <1>1, <1>15 DEF BoxInv, OneBorn, MemoryInv, QueueInv, SnapInv, StartingInv, Born,
                     InQueue, RunningContainers
<1>17. StartInv'
  <2>1. ASSUME NEW i \in 1..Len(start) PROVE StartOK(i)'
    <3>1. StartOK(i)
      BY DEF BoxInv, StartInv
    <3> QED BY <3>1, <1>1, <1>15 DEF StartOK, InQueue
  <2>2. tick = "requeue" => start # <<>>
    BY DEF TypeInv, TickOK
  <2> QED BY <2>1, <2>2, <1>1, <1>15, StartsAre DEF BoxInv, StartInv
<1>18. RunningIsAccounted'
  BY <1>1, <1>15, DaemonAssumption DEF BoxInv, RunningIsAccounted, RunningContainers
<1>19. BudgetInv'
  <2>1. RunningIds(gate') = RunningIds(gate)
    BY <1>15 DEF RunningIds
  <2> QED BY <1>1, <2>1 DEF BoxInv, BudgetInv, Charged, RunningContainers
<1> QED BY <1>13, <1>14, <1>16, <1>17, <1>18, <1>19 DEF BoxInv

(* Docker makes the one container of the job.                               *)
LEMMA DockerCreatesKeeps ==
    ASSUME TypeInv, TypeInv', BoxInv, NEW t \in Tasks, NEW c \in Cids, DockerCreates(t, c)
    PROVE  BoxInv'
<1>1. PICK r : r = task[t]
  OBVIOUS
<1>2. PICK k : k = r.job
  OBVIOUS
<1>3. /\ r.pc = "creating" /\ Making(r) /\ JobOf[c] = k /\ docker[c] = "unborn"
      /\ docker' = [docker EXCEPT ![c] = "created"]
      /\ UNCHANGED <<gate, registry, queue, created, start, tick, phase, todo, snap, remove, posts>>
  BY <1>1, <1>2 DEF DockerCreates, Making, memory, startup, ticker, bounds
<1>4. /\ phase = "serving" /\ k \in Jobs /\ posts[k] # 0 /\ Unstarted(k)
      /\ \A u \in Tasks \ {t} : Making(task[u]) => task[u].job # k
  BY <1>1, <1>2, <1>3, MakingJob
<1>5. Unborn(k)
  BY <1>1, <1>2, <1>3 DEF BoxInv, MakeInv, MakeOK
<1>6. docker'[c] = "created" /\ \A e \in Cids \ {c} : docker'[e] = docker[e]
  BY <1>3 DEF TypeInv, TypeOK
<1>7. KeepsBirth
  BY <1>3, <1>6 DEF KeepsBirth, Born
<1>8. \A i \in Jobs : Unstarted(i) => Unstarted(i)'
  BY <1>3, <1>6 DEF Unstarted, InQueue, Own, Asleep
<1>9. KeepsJobs
  <2>1. ASSUME NEW i \in Jobs PROVE Barred(i) => Barred(i)'
    BY <1>3, <1>6 DEF Barred, Lost, Tracks, Own
  <2>2. ASSUME NEW i \in Jobs, NEW left, Swept(i, left) PROVE Swept(i, left)'
    <3>1. \A e \in Own(i) : e = c => docker'[e] = "created" /\ Unstarted(i)'
      BY <1>3, <1>4, <1>6, <1>8 DEF Own
    <3>2. \A e \in Own(i) : e # c => docker'[e] = docker[e]
      BY <1>6 DEF Own
    <3> QED BY <2>2, <3>1, <3>2, <1>8 DEF Swept
  <2>3. \A i \in Jobs : Lost(i) => Lost(i)'
    BY <1>3 DEF Lost, Tracks
  <2> QED BY <1>3, <1>8, <2>1, <2>2, <2>3 DEF KeepsJobs, KeepsJob
<1>10. PICK n \in TaskRecords :
         /\ task' = [task EXCEPT ![t] = n] /\ n.job = k /\ n.left = r.left
         /\ (n.pc = "finish" /\ n.cid = c) \/ n.pc = "failed"
  <2> DEFINE a == [r EXCEPT !.pc = "finish", !.cid = c]
             b == [r EXCEPT !.pc = "failed"]
  <2>1. r \in TaskRecords
    BY <1>1 DEF TypeInv, TypeOK
  <2>2. a \in TaskRecords /\ a.pc = "finish" /\ a.cid = c /\ a.left = r.left /\ a.job = r.job
    BY <2>1 DEF TaskRecords, TaskPcs
  <2>3. b \in TaskRecords /\ b.pc = "failed" /\ b.left = r.left /\ b.job = r.job
    BY <2>1 DEF TaskRecords, TaskPcs
  <2>4. task' = [task EXCEPT ![t] = a] \/ task' = [task EXCEPT ![t] = b]
    BY <1>1 DEF DockerCreates, Goto, TypeInv, TypeOK
  <2> HIDE DEF a, b
  <2> QED BY <2>2, <2>3, <2>4, <1>2
<1>11. n.pc \in {"finish", "failed"} /\ Making(n)
  BY <1>10 DEF Making
<1>12. MakeOK(n)'
  <2>1. Unstarted(k)'
    BY <1>4, <1>8
  <2>2. \A e \in n.left : e \in Cids /\ docker'[e] # "unborn"
    BY <1>1, <1>7, <1>10 DEF BoxInv, MakeInv, MakeOK, TypeInv, TypeOK, TaskRecords, KeepsBirth
  <2>3. n.pc = "finish" => n.cid = c /\ docker'[n.cid] # "unborn" /\ JobOf[n.cid] = k
    BY <1>3, <1>6, <1>10
  <2> QED BY <1>10, <1>11, <2>1, <2>2, <2>3 DEF MakeOK, Making, HoldsContainer, Born
<1>13. ReapOK(n)'
  BY <1>11 DEF ReapOK, Settling, Sweeping
<1>14. ASSUME NEW m \in TaskRecords, m \in {task[u] : u \in Tasks \ {t}}
       PROVE  Guarded(n, m)' /\ Guarded(m, n)'
  <2>1. Guarded(n, m)'
    BY <1>11, NoGuard DEF Settling
  <2>2. Guarded(m, r)
    BY <1>1, <1>14 DEF BoxInv, ReapInv
  <2>3. m.job = k /\ m.pc \in Settling => Barred(k)'
    BY <1>2, <1>3, <1>4, <1>9, <2>2 DEF Guarded, KeepsJobs, KeepsJob
  <2>4. Guarded(m, n)'
    BY <1>10, <1>11, <2>3 DEF Guarded
  <2> QED BY <2>1, <2>4
<1>15. OneCreate' /\ MakeInv' /\ ReapInv'
  <2>1. \A u \in Tasks \ {t} : Making(n) /\ Making(task[u]) => task[u].job # n.job
    BY <1>4, <1>10
  <2>2. TaskOK' /\ OneCreate /\ MakeInv /\ ReapInv
    BY DEF TypeInv, BoxInv
  <2>3. \A i \in Jobs : (Unborn(i) => Unborn(i)') \/ (Making(task[t]) /\ task[t].job = i)
    BY <1>1, <1>2, <1>3, <1>6 DEF Unborn, Own
  <2> QED BY <1>7, <1>9, <1>10, <1>12, <1>13, <1>14, <2>1, <2>2, <2>3, OneTaskMoves
<1>16. Fresh'
  <2> SUFFICES ASSUME NEW i \in Jobs, posts'[i] = 0
               PROVE  /\ gate'[i] = "untracked" /\ Unstarted(i)' /\ Unborn(i)'
                      /\ \A u \in Tasks : Making(task'[u]) => task'[u].job # i
    BY DEF Fresh, Making
  <2>1. posts[i] = 0 /\ i # k
    BY <1>3, <1>4
  <2>2. /\ gate[i] = "untracked" /\ Unstarted(i) /\ Unborn(i)
        /\ \A u \in Tasks : Making(task[u]) => task[u].job # i
    BY <2>1 DEF BoxInv, Fresh
  <2>3. Unborn(i)'
    BY <1>3, <1>6, <2>1, <2>2 DEF Unborn, Own
  <2>4. \A u \in Tasks : task'[u] = IF u = t THEN n ELSE task[u]
    BY <1>10 DEF TypeInv, TypeOK
  <2> QED BY <1>3, <1>8, <1>10, <2>1, <2>2, <2>3, <2>4
<1>17. OneBorn'
  <2>1. \A e \in Cids : JobOf[e] = k => docker[e] = "unborn"
    BY <1>5 DEF Unborn, Own
  <2> QED BY <1>3, <1>6, <2>1 DEF BoxInv, OneBorn, Born
<1>18. MemoryInv'
  BY <1>3, <1>7, KnownCids DEF BoxInv, MemoryInv, KeepsBirth, Born, TypeInv, TypeOK
<1>19. QueueInv'
  BY <1>3, <1>6 DEF BoxInv, QueueInv, InQueue, Own, Asleep
<1>20. StartInv'
  <2>1. ASSUME NEW i \in 1..Len(start) PROVE StartOK(i)'
    <3>1. StartOK(i)
      BY DEF BoxInv, StartInv
    <3>2. docker'[start[i].cid] = docker[start[i].cid]
      BY <3>1, <1>3, <1>6 DEF StartOK
    <3> QED BY <3>1, <3>2, <1>3 DEF StartOK, InQueue
  <2> QED BY <2>1, <1>3 DEF BoxInv, StartInv
<1>21. RunningContainers' = RunningContainers
  BY <1>3, <1>6 DEF RunningContainers
<1>22. SnapInv'
  <2>1. \A e \in remove \cup todo : e \in Cids
    BY DEF TypeInv, TypeOK
  <2> QED BY <1>3, <1>7, <1>21, <2>1 DEF BoxInv, SnapInv, KeepsBirth, Born
<1>23. StartingInv' /\ RunningIsAccounted' /\ BudgetInv'
  BY <1>3, <1>4, <1>21 DEF BoxInv, StartingInv, RunningIsAccounted, BudgetInv, Charged
<1> QED BY <1>15, <1>16, <1>17, <1>18, <1>19, <1>20, <1>22, <1>23 DEF BoxInv
(* The container is recorded and its job queued: no reap in flight will     *)
(* release the job, for those that will have it in hand already.            *)
LEMMA RemembersKeeps ==
    ASSUME TypeInv, TypeInv', BoxInv, NEW t \in Tasks, RememberCreated(t), Tracks(gate, task[t].job)
    PROVE  BoxInv'
<1>1. PICK r : r = task[t]
  OBVIOUS
<1>2. PICK k : k = r.job
  OBVIOUS
<1>3. PICK c : c = r.cid
  OBVIOUS
<1>4. /\ r.pc = "record" /\ Making(r) /\ Tracks(gate, k)
      /\ created' = [created EXCEPT ![k] = c] /\ queue' = Append(queue, k) /\ Done(t)
      /\ UNCHANGED <<gate, registry, start, tick, phase, todo, snap, remove, posts, docker>>
  BY <1>1, <1>2, <1>3 DEF RememberCreated, Making, startup, ticker, world, bounds
<1>5. /\ phase = "serving" /\ k \in Jobs /\ posts[k] # 0 /\ Unstarted(k)
      /\ \A u \in Tasks \ {t} : Making(task[u]) => task[u].job # k
  BY <1>1, <1>2, <1>4, MakingJob
<1>6. c \in Cids /\ Born(c) /\ JobOf[c] = k
  BY <1>1, <1>2, <1>3, <1>4, TaskFacts DEF BoxInv, MakeInv, MakeOK, HoldsContainer, TypeInv
<1>7. created'[k] = c /\ \A i \in Jobs \ {k} : created'[i] = created[i]
  BY <1>4, <1>5 DEF TypeInv, TypeOK
<1>8. ToSet(queue') = ToSet(queue) \cup {k} /\ queue \in Seq(Jobs)
  BY <1>4, <1>5, AppendSet DEF TypeInv, TypeOK
<1>9. task'[t] = Idle /\ \A u \in Tasks \ {t} : task'[u] = task[u]
  BY <1>4 DEF Done, TypeInv, TypeOK
<1>10. KeepsBirth /\ KeepsUnborn
  BY <1>4 DEF KeepsBirth, KeepsUnborn, Unborn, Born
<1>11. ASSUME NEW i \in Jobs, i # k PROVE KeepsJob(i)
  BY <1>4, <1>7, <1>8, <1>11 DEF KeepsJob, Unstarted, Barred, Lost, Swept, InQueue, Tracks
<1>12. ASSUME NEW u \in Tasks \ {t} PROVE MakeOK(task[u])' /\ ReapOK(task[u])'
  <2>1. PICK s : s = task[u]
    OBVIOUS
  <2>2. s \in TaskRecords /\ TaskFine(s) /\ MakeOK(s) /\ ReapOK(s) /\ Guarded(s, r)
    BY <1>1, <2>1 DEF TypeInv, TaskOK, BoxInv, MakeInv, ReapInv
  <2>3. CASE s.job # k
    <3>1. s.pc # "idle" => s.job \in Jobs /\ KeepsJob(s.job)
      BY <2>2, <2>3, <1>11 DEF TaskFine
    <3>2. s.pc \in {"begin", "creating"} => (Unborn(s.job) => Unborn(s.job)')
      BY <3>1, <1>10 DEF KeepsUnborn
    <3>3. MakeOK(s)' /\ ReapOK(s)'
      BY <2>2, <3>1, <3>2, <1>10, RecordKept
    <3> QED BY <2>1, <3>3, <1>9
  <2>4. CASE s.job = k
    <3>1. ~Making(s)
      BY <1>5, <2>1, <2>4
    <3>2. \A e \in s.left : e \in Cids
      BY <2>2 DEF TaskRecords
    <3>3. MakeOK(s)'
      BY <1>4, <2>2, <3>1, <3>2 DEF MakeOK, Making, Born
    <3>4. ASSUME Sweeping(s) PROVE Swept(k, StillLeft(s))'
      <4>1. Spent(k, c, StillLeft(s)) /\ Swept(k, StillLeft(s))
        BY <1>2, <1>3, <1>4, <2>2, <2>4, <3>4 DEF Guarded, ReapOK
      <4>2. c \in StillLeft(s) \/ docker[c] = "gone"
        BY <4>1, <1>4 DEF Spent, Lost
      <4>3. \A e \in Own(k) : e = c \/ docker[e] = "unborn"
        BY <1>6 DEF BoxInv, OneBorn, Own, Born
      <4>4. PICK left : left = StillLeft(s)
        OBVIOUS
      <4>5. Swept(k, left)'
        BY <4>2, <4>3, <4>4, <1>4 DEF Swept
      <4> QED BY <4>4, <4>5 DEF StillLeft
    <3>5. ReapOK(s)'
      BY <1>4, <2>2, <2>4, <3>4 DEF ReapOK, Sweeping, StillLeft
    <3> QED BY <2>1, <3>3, <3>5, <1>9
  <2> QED BY <2>3, <2>4
<1>13. MakeOK(Idle)' /\ ReapOK(Idle)' /\ \A m : Guarded(Idle, m)' /\ Guarded(m, Idle)'
  BY IdleOK
<1>14. ASSUME NEW u \in Tasks, NEW v \in Tasks PROVE Guarded(task[u], task[v])'
  <2>1. PICK a : a = task'[u]
    OBVIOUS
  <2>2. PICK b : b = task'[v]
    OBVIOUS
  <2>3. Guarded(a, b)'
    <3>1. CASE u = t \/ v = t
      BY <3>1, <2>1, <2>2, <1>9, <1>13
    <3>2. CASE u # t /\ v # t
      <4>1. a = task[u] /\ b = task[v]
        BY <3>2, <2>1, <2>2, <1>9
      <4>2. Guarded(a, b)
        BY <4>1 DEF BoxInv, ReapInv
      <4> QED BY <4>2, <1>4 DEF Guarded, Barred, Spent, Lost, Tracks, Sweeping, StillLeft
    <3> QED BY <3>1, <3>2
  <2> QED BY <2>1, <2>2, <2>3
<1>15. MakeInv' /\ ReapInv' /\ OneCreate'
  <2>1. \A u \in Tasks : MakeOK(task[u])' /\ ReapOK(task[u])'
    BY <1>9, <1>12, <1>13
  <2>2. OneCreate'
    BY <1>9 DEF BoxInv, OneCreate, Making, Idle
  <2> QED BY <2>1, <2>2, <1>14 DEF MakeInv, ReapInv
<1>16. Fresh'
  <2> SUFFICES ASSUME NEW i \in Jobs, posts'[i] = 0
               PROVE  /\ gate'[i] = "untracked" /\ Unstarted(i)' /\ Unborn(i)'
                      /\ \A u \in Tasks : Making(task'[u]) => task'[u].job # i
    BY DEF Fresh, Making
  <2>1. posts[i] = 0 /\ i # k
    BY <1>4, <1>5
  <2>2. /\ gate[i] = "untracked" /\ Unstarted(i) /\ Unborn(i)
        /\ \A u \in Tasks : Making(task[u]) => task[u].job # i
    BY <2>1 DEF BoxInv, Fresh
  <2>3. Unstarted(i)' /\ Unborn(i)'
    BY <1>10, <1>11, <2>1, <2>2 DEF KeepsJob, KeepsUnborn
  <2>4. ~Making(Idle)
    BY DEF Making, Idle
  <2> QED BY <1>4, <1>9, <2>2, <2>3, <2>4
<1>17. OneBorn' /\ SnapInv' /\ StartingInv' /\ RunningIsAccounted' /\ BudgetInv'
  BY <1>4, <1>5 DEF BoxInv, OneBorn, SnapInv, StartingInv, RunningIsAccounted, BudgetInv,
                    Born, RunningContainers, Charged
<1>18. MemoryInv'
  BY <1>4, <1>5, <1>6, <1>7 DEF BoxInv, MemoryInv, Born
<1>19. QueueInv'
  <2>1. k \notin ToSet(queue) /\ gate[k] # "running" /\ \A e \in Own(k) : docker[e] \in Asleep
    BY <1>5 DEF Unstarted, InQueue
  <2>2. \A i \in 1..Len(queue) : queue[i] # k
    BY <2>1 DEF ToSet
  <2>3. \A i, n \in 1..Len(queue') : queue'[i] = queue'[n] => i = n
    <3>1. Len(queue') = Len(queue) + 1 /\ Len(queue) \in Nat /\ queue'[Len(queue) + 1] = k
          /\ \A i \in 1..Len(queue) : queue'[i] = queue[i]
      BY <1>4, <1>5, <1>8
    <3>2. \A i \in 1..Len(queue') : i \in 1..Len(queue) \/ i = Len(queue) + 1
      BY <3>1
    <3> QED BY <2>2, <3>1, <3>2 DEF BoxInv, QueueInv
  <2>4. ASSUME NEW i \in Jobs, i \in ToSet(queue')
        PROVE  gate'[i] # "running" /\ \A e \in Own(i) : docker'[e] \in Asleep
    BY <1>4, <1>8, <2>1, <2>4 DEF BoxInv, QueueInv, InQueue
  <2> QED BY <2>3, <2>4 DEF QueueInv, InQueue
<1>20. StartInv'
  <2>1. ASSUME NEW i \in 1..Len(start) PROVE StartOK(i)'
    <3>1. StartOK(i) /\ start[i].job # k
      BY <1>5 DEF BoxInv, StartInv, Unstarted
    <3> QED BY <3>1, <1>4, <1>8 DEF StartOK, InQueue
  <2> QED BY <2>1, <1>4 DEF BoxInv, StartInv
<1> QED BY <1>15, <1>16, <1>17, <1>18, <1>19, <1>20 DEF BoxInv
-----------------------------------------------------------------------------
(* The reconcile tick.                                                       *)

LEMMA BudgetKept ==
    ASSUME TypeInv, BoxInv,
           Charged' \subseteq Charged \/ Charged' \subseteq JobsOf(RunningContainers),
           \/ JobsOf(RunningContainers)' \subseteq JobsOf(RunningContainers)
           \/ JobsOf(RunningContainers)' \subseteq Charged
    PROVE  BudgetInv'
<1> SUFFICES ASSUME NEW d \in Dims
             PROVE  JobLoad(Charged', d) <= Budget[d]
                    /\ JobLoad(JobsOf(RunningContainers)', d) <= Budget[d]
  BY DEF BudgetInv, JobsOf, JobLoad
<1>1. PICK a : a = Charged
  OBVIOUS
<1>2. PICK b : b = JobsOf(RunningContainers)
  OBVIOUS
<1>3. a \in SUBSET Jobs /\ b \in SUBSET Jobs
  BY <1>1, <1>2, DaemonAssumption DEF Charged, RunningIds, JobsOf, SeenRunning, RunningContainers
<1>4. JobLoad(a, d) <= Budget[d] /\ JobLoad(b, d) <= Budget[d] /\ Budget[d] \in Nat
  BY <1>1, <1>2, GateAssumption DEF BoxInv, BudgetInv
<1>5. \A x \in SUBSET a : JobLoad(x, d) <= Budget[d]
  <2> TAKE x \in SUBSET a
  <2>1. JobLoad(x, d) <= JobLoad(a, d) /\ JobLoad(x, d) \in Nat /\ JobLoad(a, d) \in Nat
    BY <1>3, JobLoads
  <2> QED BY <1>4, <2>1
<1>6. \A x \in SUBSET b : JobLoad(x, d) <= Budget[d]
  <2> TAKE x \in SUBSET b
  <2>1. JobLoad(x, d) <= JobLoad(b, d) /\ JobLoad(x, d) \in Nat /\ JobLoad(b, d) \in Nat
    BY <1>3, JobLoads
  <2> QED BY <1>4, <2>1
<1>7. Charged' \in SUBSET a \/ Charged' \in SUBSET b
  BY <1>1, <1>2
<1>8. JobsOf(RunningContainers)' \in SUBSET a \/ JobsOf(RunningContainers)' \in SUBSET b
  BY <1>1, <1>2
<1> QED BY <1>5, <1>6, <1>7, <1>8, Zenon

(* A step of the tick leaves the requests what they know.                   *)
LEMMA TickMoves ==
    ASSUME TypeInv, TypeInv', BoxInv, phase = "serving", UNCHANGED <<task, phase, posts>>,
           KeepsBirth, KeepsUnborn, KeepsJobs,
           \A j \in Jobs : posts[j] = 0 => gate'[j] = gate[j],
           \A c \in Cids : docker'[c] # "unborn" => Born(c)
    PROVE  Fresh' /\ OneCreate' /\ MakeInv' /\ ReapInv' /\ StartingInv' /\ OneBorn'
<1>1. Fresh'
  BY FreshKeeps DEF BoxInv
<1>2. OneCreate' /\ MakeInv' /\ ReapInv'
  BY NoTaskMoves DEF BoxInv
<1>3. StartingInv'
  BY DEF StartingInv
<1>4. OneBorn'
  BY DEF BoxInv, OneBorn, Born
<1> QED BY <1>1, <1>2, <1>3, <1>4

LEMMA StillSeen ==
    ASSUME TypeInv, BoxInv, KeepsBirth, todo' = todo, snap' = snap \/ snap' = Unseen,
           remove' \subseteq remove,
           tick' = "reconcile" => tick = "reconcile" /\ snap' = snap
                                  /\ RunningContainers' \subseteq RunningContainers
    PROVE  SnapInv'
<1>1. \A c \in remove \cup todo : c \in Cids /\ docker'[c] # "unborn"
  BY DEF TypeInv, TypeOK, BoxInv, SnapInv, KeepsBirth
<1>2. \A c \in Cids : snap'[c] # "unseen" => docker'[c] # "unborn"
  BY DEF BoxInv, SnapInv, KeepsBirth, Unseen
<1>3. tick' = "reconcile" => \A c \in RunningContainers' : snap'[c] = "running"
  BY DEF BoxInv, SnapInv
<1> QED BY <1>1, <1>2, <1>3 DEF SnapInv, Born

LEMMA TickListsKeeps ==
    ASSUME TypeInv, TypeInv', BoxInv, Reliable, TickLists
    PROVE  BoxInv'
<1>1. /\ phase = "serving" /\ tick = "idle" /\ tick' = "reconcile"
      /\ UNCHANGED <<gate, registry, queue, created, task, phase, todo, remove, start, docker, posts>>
  BY DEF TickLists, memory, startup, world, bounds
<1>2. snap' = [c \in Cids |-> Sighting(c)]
  BY DEF TickLists, Reliable, Misreports
<1>3. KeepsBirth /\ KeepsUnborn /\ KeepsJobs
  BY <1>1 DEF KeepsBirth, KeepsUnborn, KeepsJobs, KeepsJob, Unborn, Born, Unstarted, InQueue,
              Barred, Lost, Swept, Tracks
<1>4. Fresh' /\ OneCreate' /\ MakeInv' /\ ReapInv' /\ StartingInv' /\ OneBorn'
  BY <1>1, <1>3, TickMoves DEF Born
<1>5. start = <<>> /\ remove = {}
  BY <1>1 DEF BoxInv, StartInv
<1>6. StartInv'
  <2>1. 1..Len(<<>>) = {}
    OBVIOUS
  <2> QED BY <1>1, <1>5, <2>1 DEF StartInv
<1>7. SnapInv'
  BY <1>1, <1>2 DEF BoxInv, SnapInv, Sighting, Live, RunningContainers, Born
<1>8. MemoryInv' /\ QueueInv' /\ RunningIsAccounted'
  BY <1>1 DEF BoxInv, MemoryInv, QueueInv, RunningIsAccounted, RunningContainers, InQueue, Born
<1>9. BudgetInv'
  BY <1>1 DEF BoxInv, BudgetInv, Charged, RunningContainers
<1> QED BY <1>4, <1>6, <1>7, <1>8, <1>9 DEF BoxInv

LEMMA TickEndsKeeps ==
    ASSUME TypeInv, TypeInv', BoxInv, TickEnds
    PROVE  BoxInv'
<1>1. /\ tick = "act" /\ tick' = "idle" /\ start = <<>> /\ remove = {}
      /\ UNCHANGED <<gate, registry, queue, created, task, phase, todo, snap, remove, start, docker, posts>>
  BY DEF TickEnds, memory, startup, world, bounds
<1>2. phase = "serving"
  BY <1>1 DEF BoxInv, StartingInv
<1>3. KeepsBirth /\ KeepsUnborn /\ KeepsJobs
  BY <1>1 DEF KeepsBirth, KeepsUnborn, KeepsJobs, KeepsJob, Unborn, Born, Unstarted, InQueue,
              Barred, Lost, Swept, Tracks
<1>4. Fresh' /\ OneCreate' /\ MakeInv' /\ ReapInv' /\ StartingInv' /\ OneBorn'
  BY <1>1, <1>2, <1>3, TickMoves DEF Born
<1>5. StartInv'
  <2>1. 1..Len(<<>>) = {}
    OBVIOUS
  <2> QED BY <1>1, <2>1 DEF StartInv
<1>6. SnapInv'
  BY <1>1, <1>3, StillSeen
<1>7. MemoryInv' /\ QueueInv' /\ RunningIsAccounted'
  BY <1>1 DEF BoxInv, MemoryInv, QueueInv, RunningIsAccounted, RunningContainers, InQueue, Born
<1>8. BudgetInv'
  BY <1>1, <1>2 DEF BoxInv, BudgetInv, Charged, RunningContainers
<1> QED BY <1>4, <1>5, <1>6, <1>7, <1>8 DEF BoxInv

LEMMA TickRemovesKeeps ==
    ASSUME TypeInv, TypeInv', BoxInv, Reliable, NEW c \in Cids, TickRemoves(c)
    PROVE  BoxInv'
<1>1. /\ tick = "act" /\ c \in remove /\ docker' = Removed(c) /\ remove' = remove \ {c}
      /\ UNCHANGED <<gate, registry, queue, created, task, phase, todo, snap, tick, start, posts>>
  BY Removes DEF TickRemoves, memory, startup, bounds
<1>2. phase = "serving" /\ Born(c)
  BY <1>1 DEF BoxInv, StartingInv, SnapInv
<1>3. DockerFalls /\ RegistryMoves
  BY <1>1, <1>2, RemovedFalls, SameRegistryMoves
<1>4. KeepsBirth /\ KeepsUnborn /\ KeepsJobs
  BY <1>1, <1>3, FallsKeep
<1>5. docker'[c] = "gone" /\ \A e \in Cids \ {c} : docker'[e] = docker[e]
  BY <1>1 DEF Removed, TypeInv, TypeOK
<1>6. Fresh' /\ OneCreate' /\ MakeInv' /\ ReapInv' /\ StartingInv' /\ OneBorn'
  <2>1. \A e \in Cids : docker'[e] # "unborn" => Born(e)
    BY <1>2, <1>5 DEF Born
  <2> QED BY <1>1, <1>2, <1>4, <2>1, TickMoves
<1>7. StartInv'
  <2>1. ASSUME NEW i \in 1..Len(start) PROVE StartOK(i)'
    <3>1. StartOK(i)
      BY DEF BoxInv, StartInv
    <3>2. docker'[start[i].cid] \in {docker[start[i].cid], "gone"}
      BY <3>1, <1>5 DEF StartOK
    <3> QED BY <3>1, <3>2, <1>1 DEF StartOK, InQueue
  <2> QED BY <2>1, <1>1 DEF BoxInv, StartInv
<1>8. RunningContainers' \subseteq RunningContainers /\ c \notin RunningContainers'
  BY <1>3, <1>5 DEF RunningContainers, DockerFalls
<1>9. SnapInv'
  BY <1>1, <1>4, <1>8, StillSeen
<1>10. MemoryInv'
  BY <1>1, <1>4, KnownCids DEF BoxInv, MemoryInv, Born, KeepsBirth, TypeInv, TypeOK
<1>11. QueueInv'
  <2>1. \A e \in Cids : docker[e] \in Asleep => docker'[e] \in Asleep
    BY <1>5 DEF Asleep
  <2> QED BY <1>1, <2>1 DEF BoxInv, QueueInv, InQueue, Own
<1>12. RunningIsAccounted'
  BY <1>1, <1>8 DEF BoxInv, RunningIsAccounted
<1>13. BudgetInv'
  <2>1. Charged' \subseteq Charged
    BY <1>1, <1>2 DEF Charged
  <2>2. JobsOf(RunningContainers)' \subseteq JobsOf(RunningContainers)
    BY <1>8 DEF JobsOf
  <2> QED BY <2>1, <2>2, BudgetKept
<1> QED BY <1>6, <1>7, <1>9, <1>10, <1>11, <1>12, <1>13 DEF BoxInv
(* The start in hand: its container has not run, and no other of its job    *)
(* exists.                                                                  *)
LEMMA HeadIs ==
    ASSUME TypeInv, BoxInv, start # <<>>, NEW k, k = start[1].job, NEW c, c = start[1].cid
    PROVE  /\ k \in Jobs /\ c \in Cids /\ JobOf[c] = k /\ docker[c] \in {"created", "gone"}
           /\ \A e \in Own(k) : e = c \/ docker[e] = "unborn"
           /\ \A e \in Own(k) : docker[e] \in Asleep
           /\ posts[k] # 0 /\ ~InQueue(k) /\ ~Unstarted(k)
           /\ docker[c] = "created" => gate[k] = "running" \/ tick = "requeue"
           /\ \A i \in 1..Len(start) : i # 1 => start[i].job # k
<1>1. 1 \in 1..Len(start) /\ k \in Jobs /\ c \in Cids
  BY StartsAre
<1>2. StartOK(1)
  BY <1>1 DEF BoxInv, StartInv
<1>3. JobOf[c] = k /\ docker[c] \in {"created", "gone"} /\ Born(c) /\ ~InQueue(k)
  BY <1>2 DEF StartOK, Born
<1>4. \A e \in Own(k) : e = c \/ docker[e] = "unborn"
  BY <1>1, <1>3 DEF BoxInv, OneBorn, Own, Born
<1>5. \A e \in Own(k) : docker[e] \in Asleep
  BY <1>3, <1>4 DEF Asleep
<1>6. posts[k] # 0
  BY <1>1, <1>3 DEF BoxInv, Fresh, Unborn, Own, Born
<1>7. ~Unstarted(k)
  BY <1>1 DEF Unstarted
<1>8. \A i \in 1..Len(start) : i # 1 => start[i].job # k
  BY <1>1 DEF BoxInv, StartInv
<1>9. docker[c] = "created" => gate[k] = "running" \/ tick = "requeue"
  BY <1>2 DEF StartOK
<1> QED BY <1>1, <1>3, <1>4, <1>5, <1>6, <1>7, <1>8, <1>9

(* The starts after the one that is done.                                   *)
LEMMA TailKeeps ==
    ASSUME TypeInv, TypeInv', BoxInv, start # <<>>, start' = Tail(start),
           tick \in {"act", "unstart", "requeue", "vanish"}, tick' = "act", phase = "serving",
           remove' = remove,
           \A j \in Jobs \ {start[1].job} :
              /\ gate'[j] = gate[j] /\ (j \in ToSet(queue') => InQueue(j))
              /\ \A c \in Own(j) : docker'[c] = docker[c]
    PROVE  StartInv'
<1>1. \A i \in 1..Len(start') : i + 1 \in 1..Len(start) /\ i + 1 # 1 /\ start'[i] = start[i + 1]
  BY StartsAre
<1>2. PICK k : k = start[1].job
  OBVIOUS
<1>3. ASSUME NEW i \in 1..Len(start') PROVE StartOK(i)'
  <2>1. PICK x : x = start'[i]
    OBVIOUS
  <2>2. x = start[i + 1] /\ StartOK(i + 1)
    BY <1>1, <2>1 DEF BoxInv, StartInv
  <2>3. x.job # k
    BY <1>1, <1>2, <2>2, HeadIs
  <2>4. /\ x.job \in Jobs /\ x.cid \in Cids /\ JobOf[x.cid] = x.job
        /\ docker[x.cid] \in {"created", "gone"} /\ ~InQueue(x.job)
        /\ docker[x.cid] = "created" => gate[x.job] = "running"
    BY <1>1, <2>2 DEF StartOK
  <2>5. /\ docker'[x.cid] = docker[x.cid] /\ gate'[x.job] = gate[x.job]
        /\ x.job \notin ToSet(queue')
    BY <1>2, <2>3, <2>4 DEF Own
  <2> QED BY <2>1, <2>4, <2>5 DEF StartOK, InQueue
<1>4. \A i, j \in 1..Len(start') : start'[i].job = start'[j].job => i = j
  <2> SUFFICES ASSUME NEW i \in 1..Len(start'), NEW j \in 1..Len(start'),
                      start'[i].job = start'[j].job
               PROVE  i = j
    OBVIOUS
  <2>1. start[i + 1].job = start[j + 1].job /\ i + 1 \in 1..Len(start) /\ j + 1 \in 1..Len(start)
    BY <1>1
  <2>2. i + 1 = j + 1
    BY <2>1 DEF BoxInv, StartInv
  <2> QED BY <2>2
<1> QED BY <1>3, <1>4 DEF StartInv

(* A container starts.  What runs then is charged: nothing is left to be    *)
(* removed, and the gate has counted this start.                            *)
LEMMA TickStartsKeeps ==
    ASSUME TypeInv, TypeInv', BoxInv, Reliable, TickStarts
    PROVE  BoxInv'
<1>1. PICK k : k = start[1].job
  OBVIOUS
<1>2. PICK c : c = start[1].cid
  OBVIOUS
<1>3. /\ tick = "act" /\ remove = {} /\ start # <<>> /\ c = Head(start).cid
      /\ UNCHANGED <<gate, registry, queue, created, task, phase, todo, snap, remove, posts>>
  BY <1>2, StartsAre DEF TickStarts, memory, startup, bounds
<1>4. phase = "serving"
  BY <1>3 DEF BoxInv, StartingInv
<1>5. /\ k \in Jobs /\ c \in Cids /\ JobOf[c] = k /\ docker[c] \in {"created", "gone"}
      /\ \A e \in Own(k) : e = c \/ docker[e] = "unborn"
      /\ \A e \in Own(k) : docker[e] \in Asleep
      /\ posts[k] # 0 /\ ~InQueue(k) /\ ~Unstarted(k)
      /\ docker[c] = "created" => gate[k] = "running" \/ tick = "requeue"
  BY <1>1, <1>2, <1>3, HeadIs
<1>6. CASE docker' = docker /\ start' = start /\ tick' \in {"unstart", "vanish"}
  <2>1. KeepsBirth /\ KeepsUnborn /\ KeepsJobs
    BY <1>3, <1>6 DEF KeepsBirth, KeepsUnborn, KeepsJobs, KeepsJob, Unborn, Born, Unstarted,
                      InQueue, Barred, Lost, Swept, Tracks
  <2>2. Fresh' /\ OneCreate' /\ MakeInv' /\ ReapInv' /\ StartingInv' /\ OneBorn'
    BY <1>3, <1>4, <1>6, <2>1, TickMoves DEF Born
  <2>3. StartInv'
    <3>1. ASSUME NEW i \in 1..Len(start) PROVE StartOK(i)'
      <4>1. StartOK(i)
        BY DEF BoxInv, StartInv
      <4> QED BY <4>1, <1>3, <1>6 DEF StartOK, InQueue
    <3> QED BY <3>1, <1>3, <1>6 DEF BoxInv, StartInv
  <2>4. SnapInv'
    BY <1>3, <1>6, <2>1, StillSeen
  <2>5. MemoryInv' /\ QueueInv' /\ RunningIsAccounted'
    BY <1>3, <1>6 DEF BoxInv, MemoryInv, QueueInv, RunningIsAccounted, RunningContainers, InQueue, Born
  <2>6. BudgetInv'
    BY <1>3, <1>4, <1>6 DEF BoxInv, BudgetInv, Charged, RunningContainers
  <2> QED BY <2>2, <2>3, <2>4, <2>5, <2>6 DEF BoxInv
<1>7. CASE /\ docker[c] = "created" /\ docker' = [docker EXCEPT ![c] = "running"]
           /\ start' = Tail(start) /\ tick' = tick
  <2>1. docker'[c] = "running" /\ (\A e \in Cids \ {c} : docker'[e] = docker[e]) /\ gate[k] = "running"
    BY <1>3, <1>5, <1>7 DEF TypeInv, TypeOK
  <2>2. KeepsBirth
    BY <1>7, <2>1 DEF KeepsBirth, Born
  <2>3. KeepsUnborn
    BY <1>7, <2>1 DEF KeepsUnborn, Unborn, Own
  <2>4. \A i \in Jobs : Unstarted(i) => Unstarted(i)'
    <3> SUFFICES ASSUME NEW i \in Jobs, Unstarted(i) PROVE Unstarted(i)'
      OBVIOUS
    <3>1. i # k
      BY <1>5
    <3>2. \A e \in Own(i) : docker'[e] = docker[e]
      BY <3>1, <1>5, <2>1 DEF Own
    <3>3. \A n \in 1..Len(start') : start'[n].job # i
      BY <1>3, <1>7, StartsAre DEF Unstarted
    <3> QED BY <1>3, <3>2, <3>3 DEF Unstarted, InQueue
  <2>5. KeepsJobs
    <3>1. ASSUME NEW i \in Jobs PROVE Barred(i) => Barred(i)'
      BY <1>3, <2>2 DEF Barred, Lost, Tracks, Own, KeepsBirth
    <3>2. ASSUME NEW i \in Jobs, NEW left, Swept(i, left) PROVE Swept(i, left)'
      <4>1. \A e \in Own(i) : e = c => e \in left
        BY <3>2, <1>5, <1>7 DEF Swept, Own
      <4>2. \A e \in Own(i) : e # c => docker'[e] = docker[e]
        BY <2>1 DEF Own
      <4> QED BY <3>2, <4>1, <4>2, <2>4 DEF Swept
    <3>3. \A i \in Jobs : Lost(i) => Lost(i)'
      BY <1>3 DEF Lost, Tracks
    <3> QED BY <1>3, <2>4, <3>1, <3>2, <3>3 DEF KeepsJobs, KeepsJob
  <2>6. Fresh' /\ OneCreate' /\ MakeInv' /\ ReapInv' /\ StartingInv' /\ OneBorn'
    <3>1. \A e \in Cids : docker'[e] # "unborn" => Born(e)
      BY <1>7, <2>1 DEF Born
    <3> QED BY <1>3, <1>4, <2>2, <2>3, <2>5, <3>1, TickMoves
  <2>7. StartInv'
    <3>1. \A j \in Jobs \ {start[1].job} :
             /\ gate'[j] = gate[j] /\ (j \in ToSet(queue') => InQueue(j))
             /\ \A e \in Own(j) : docker'[e] = docker[e]
      BY <1>1, <1>3, <1>5, <2>1 DEF Own, InQueue
    <3> QED BY <1>3, <1>4, <1>7, <3>1, TailKeeps
  <2>8. SnapInv'
    BY <1>3, <1>7, <2>2, StillSeen
  <2>9. MemoryInv'
    BY <1>3, <2>2, KnownCids DEF BoxInv, MemoryInv, Born, KeepsBirth, TypeInv, TypeOK
  <2>10. QueueInv'
    <3>1. \A j \in Jobs : InQueue(j) => \A e \in Own(j) : docker'[e] = docker[e]
      BY <1>5, <2>1 DEF Own
    <3> QED BY <1>3, <3>1 DEF BoxInv, QueueInv, InQueue, Own
  <2>11. \A e \in Cids : docker'[e] = "running" => gate[JobOf[e]] = "running"
    <3>1. \A e \in Cids : docker[e] = "running" => gate[JobOf[e]] = "running"
      BY <1>3, <1>4 DEF BoxInv, RunningIsAccounted, RunningContainers
    <3> QED BY <1>5, <2>1, <3>1
  <2>12. RunningIsAccounted'
    BY <1>3, <2>11 DEF RunningIsAccounted, RunningContainers
  <2>13. BudgetInv'
    <3>1. Charged' \subseteq Charged /\ Charged = RunningIds(gate)
      BY <1>3, <1>4 DEF Charged
    <3>2. JobsOf(RunningContainers)' \subseteq Charged
      BY <2>11, <3>1, DaemonAssumption DEF JobsOf, RunningContainers, RunningIds
    <3> QED BY <3>1, <3>2, BudgetKept
  <2> QED BY <2>6, <2>7, <2>8, <2>9, <2>10, <2>12, <2>13 DEF BoxInv
<1>8. "start_lost" \notin Faults
  BY DEF Reliable, Misreports
<1> QED BY <1>3, <1>5, <1>6, <1>7, <1>8 DEF TickStarts
(* A failed start gives its budget back and queues its job again, two locks *)
(* one after the other; a container that is not there any more releases it. *)
LEMMA FewerRun ==
    ASSUME TypeInv, TypeInv', BoxInv, phase = "serving", phase' = phase, docker' = docker,
           remove' = remove, NEW k \in Jobs, \A e \in Own(k) : docker[e] # "running",
           \A j \in Jobs : (gate'[j] = "running" => gate[j] = "running")
                           /\ (j # k => gate'[j] = gate[j])
    PROVE  RunningIsAccounted' /\ BudgetInv'
<1>1. RunningIsAccounted'
  BY DaemonAssumption DEF BoxInv, RunningIsAccounted, RunningContainers, Own
<1>2. Charged' \subseteq Charged
  BY DEF Charged, RunningIds
<1>3. JobsOf(RunningContainers)' \subseteq JobsOf(RunningContainers)
  BY DEF JobsOf, RunningContainers
<1> QED BY <1>1, <1>2, <1>3, BudgetKept

LEMMA TickUnstartsKeeps ==
    ASSUME TypeInv, TypeInv', BoxInv, TickUnstarts
    PROVE  BoxInv'
<1>1. PICK k : k = start[1].job
  OBVIOUS
<1>2. PICK c : c = start[1].cid
  OBVIOUS
<1>3. /\ tick = "unstart" /\ start # <<>> /\ k = Head(start).job
      /\ UNCHANGED <<docker, registry, queue, created, task, phase, todo, snap, remove, posts>>
  BY <1>1, StartsAre DEF TickUnstarts, TypeInv, TickOK, startup, world, bounds
<1>4. /\ gate' = Unstart(gate, k)
      /\ \/ Tracks(gate, k) /\ tick' = "requeue" /\ start' = start
         \/ ~Tracks(gate, k) /\ tick' = "act" /\ start' = Tail(start)
  BY <1>3 DEF TickUnstarts
<1>5. phase = "serving"
  BY <1>3 DEF BoxInv, StartingInv
<1>6. /\ k \in Jobs /\ c \in Cids /\ JobOf[c] = k /\ docker[c] \in {"created", "gone"}
      /\ \A e \in Own(k) : docker[e] \in Asleep
      /\ posts[k] # 0 /\ ~InQueue(k) /\ ~Unstarted(k)
  BY <1>1, <1>2, <1>3, HeadIs
<1>7. /\ gate'[k] = IF Tracks(gate, k) THEN "queued" ELSE "untracked"
      /\ \A j \in Jobs : j # k => gate'[j] = gate[j]
      /\ \A j \in Jobs : (gate'[j] = "running" => gate[j] = "running")
                         /\ (Tracks(gate', j) <=> Tracks(gate, j))
  BY <1>4, <1>6 DEF Unstart, TypeInv, TypeOK, GateStates, Tracks
<1>8. KeepsBirth /\ KeepsUnborn
  BY <1>3 DEF KeepsBirth, KeepsUnborn, Unborn, Born
<1>9. \A i \in Jobs : Unstarted(i) => Unstarted(i)'
  <2> SUFFICES ASSUME NEW i \in Jobs, Unstarted(i) PROVE Unstarted(i)'
    OBVIOUS
  <2>1. \A n \in 1..Len(start') : start'[n].job # i
    BY <1>3, <1>4, StartsAre DEF Unstarted
  <2> QED BY <1>3, <1>7, <2>1 DEF Unstarted, InQueue
<1>10. KeepsJobs
  <2>1. \A i \in Jobs : Lost(i) => Lost(i)'
    BY <1>3, <1>7 DEF Lost
  <2>2. ASSUME NEW i \in Jobs PROVE Barred(i) => Barred(i)'
    BY <1>3, <2>1 DEF Barred
  <2>3. ASSUME NEW i \in Jobs, NEW left, Swept(i, left) PROVE Swept(i, left)'
    BY <1>3, <1>9, <2>3 DEF Swept
  <2> QED BY <1>3, <1>9, <2>1, <2>2, <2>3 DEF KeepsJobs, KeepsJob
<1>11. Fresh' /\ OneCreate' /\ MakeInv' /\ ReapInv' /\ StartingInv' /\ OneBorn'
  BY <1>3, <1>5, <1>6, <1>7, <1>8, <1>10, TickMoves DEF Born
<1>12. StartInv'
  <2>1. CASE tick' = "act" /\ start' = Tail(start)
    <3>1. \A j \in Jobs \ {start[1].job} :
             /\ gate'[j] = gate[j] /\ (j \in ToSet(queue') => InQueue(j))
             /\ \A e \in Own(j) : docker'[e] = docker[e]
      BY <1>1, <1>3, <1>7 DEF InQueue
    <3> QED BY <1>3, <1>5, <2>1, <3>1, TailKeeps
  <2>2. CASE tick' = "requeue" /\ start' = start /\ Tracks(gate, k)
    <3>1. ASSUME NEW i \in 1..Len(start) PROVE StartOK(i)'
      <4>1. StartOK(i)
        BY DEF BoxInv, StartInv
      <4>2. i = 1 \/ start[i].job # k
        BY <1>1, <1>3, HeadIs
      <4> QED BY <4>1, <4>2, <1>3, <1>7, <2>2 DEF StartOK, InQueue
    <3>2. gate'[start[1].job] # "running"
      BY <1>1, <1>7, <2>2
    <3> QED BY <3>1, <3>2, <1>3, <2>2 DEF BoxInv, StartInv
  <2> QED BY <1>4, <2>1, <2>2
<1>13. SnapInv'
  BY <1>3, <1>4, <1>8, StillSeen
<1>14. MemoryInv' /\ QueueInv'
  BY <1>3, <1>7 DEF BoxInv, MemoryInv, QueueInv, InQueue, Born
<1>15. RunningIsAccounted' /\ BudgetInv'
  <2>1. \A e \in Own(k) : docker[e] # "running"
    BY <1>6 DEF Asleep
  <2> QED BY <1>3, <1>5, <1>6, <1>7, <2>1, FewerRun
<1> QED BY <1>11, <1>12, <1>13, <1>14, <1>15 DEF BoxInv

LEMMA TickRequeuesKeeps ==
    ASSUME TypeInv, TypeInv', BoxInv, TickRequeues
    PROVE  BoxInv'
<1>1. PICK k : k = start[1].job
  OBVIOUS
<1>2. PICK c : c = start[1].cid
  OBVIOUS
<1>3. /\ tick = "requeue" /\ tick' = "act" /\ start # <<>> /\ k = Head(start).job
      /\ start' = Tail(start) /\ queue' = Append(queue, k)
      /\ UNCHANGED <<docker, registry, gate, created, task, phase, todo, snap, remove, posts>>
  BY <1>1, StartsAre DEF TickRequeues, TypeInv, TickOK, startup, world, bounds
<1>4. phase = "serving" /\ gate[k] # "running"
  BY <1>1, <1>3 DEF BoxInv, StartingInv, StartInv
<1>5. /\ k \in Jobs /\ c \in Cids /\ JobOf[c] = k
      /\ \A e \in Own(k) : docker[e] \in Asleep
      /\ posts[k] # 0 /\ ~InQueue(k) /\ ~Unstarted(k)
  BY <1>1, <1>2, <1>3, HeadIs
<1>6. ToSet(queue') = ToSet(queue) \cup {k} /\ queue \in Seq(Jobs)
  BY <1>3, <1>5, AppendSet DEF TypeInv, TypeOK
<1>7. KeepsBirth /\ KeepsUnborn
  BY <1>3 DEF KeepsBirth, KeepsUnborn, Unborn, Born
<1>8. \A i \in Jobs : Unstarted(i) => Unstarted(i)'
  <2> SUFFICES ASSUME NEW i \in Jobs, Unstarted(i) PROVE Unstarted(i)'
    OBVIOUS
  <2>1. \A n \in 1..Len(start') : start'[n].job # i
    BY <1>3, StartsAre DEF Unstarted
  <2>2. i \notin ToSet(queue')
    BY <1>5, <1>6 DEF Unstarted, InQueue
  <2> QED BY <1>3, <2>1, <2>2 DEF Unstarted, InQueue
<1>9. KeepsJobs
  <2>1. ASSUME NEW i \in Jobs PROVE Barred(i) => Barred(i)'
    BY <1>3 DEF Barred, Lost, Tracks
  <2>2. ASSUME NEW i \in Jobs, NEW left, Swept(i, left) PROVE Swept(i, left)'
    BY <1>3, <1>8, <2>2 DEF Swept
  <2>3. \A i \in Jobs : Lost(i) => Lost(i)'
    BY <1>3 DEF Lost, Tracks
  <2> QED BY <1>3, <1>8, <2>1, <2>2, <2>3 DEF KeepsJobs, KeepsJob
<1>10. Fresh' /\ OneCreate' /\ MakeInv' /\ ReapInv' /\ StartingInv' /\ OneBorn'
  BY <1>3, <1>4, <1>7, <1>9, TickMoves DEF Born
<1>11. StartInv'
  <2>1. \A j \in Jobs \ {start[1].job} :
           /\ gate'[j] = gate[j] /\ (j \in ToSet(queue') => InQueue(j))
           /\ \A e \in Own(j) : docker'[e] = docker[e]
    BY <1>1, <1>3, <1>6 DEF InQueue
  <2> QED BY <1>3, <1>4, <2>1, TailKeeps
<1>12. SnapInv'
  BY <1>3, <1>7, StillSeen
<1>13. QueueInv'
  <2>1. \A i \in 1..Len(queue) : queue[i] # k
    BY <1>5 DEF ToSet, InQueue
  <2>2. \A i, n \in 1..Len(queue') : queue'[i] = queue'[n] => i = n
    <3>1. Len(queue') = Len(queue) + 1 /\ Len(queue) \in Nat /\ queue'[Len(queue) + 1] = k
          /\ \A i \in 1..Len(queue) : queue'[i] = queue[i]
      BY <1>3, <1>5, <1>6
    <3>2. \A i \in 1..Len(queue') : i \in 1..Len(queue) \/ i = Len(queue) + 1
      BY <3>1
    <3> QED BY <2>1, <3>1, <3>2 DEF BoxInv, QueueInv
  <2>3. ASSUME NEW i \in Jobs, i \in ToSet(queue')
        PROVE  gate'[i] # "running" /\ \A e \in Own(i) : docker'[e] \in Asleep
    BY <1>3, <1>4, <1>5, <1>6, <2>3 DEF BoxInv, QueueInv, InQueue
  <2> QED BY <2>2, <2>3 DEF QueueInv, InQueue
<1>14. MemoryInv' /\ RunningIsAccounted'
  BY <1>3 DEF BoxInv, MemoryInv, RunningIsAccounted, RunningContainers, Born
<1>15. BudgetInv'
  BY <1>3, <1>4 DEF BoxInv, BudgetInv, Charged, RunningContainers
<1> QED BY <1>10, <1>11, <1>12, <1>13, <1>14, <1>15 DEF BoxInv

LEMMA TickReleasesVanishedKeeps ==
    ASSUME TypeInv, TypeInv', BoxInv, TickReleasesVanished
    PROVE  BoxInv'
<1>1. PICK k : k = start[1].job
  OBVIOUS
<1>2. PICK c : c = start[1].cid
  OBVIOUS
<1>3. /\ tick = "vanish" /\ tick' = "act" /\ start # <<>> /\ start' = Tail(start)
      /\ gate' = Release(gate, k) /\ registry' = Forget(registry, k)
      /\ created' = ForgetCreated(created, {k}) /\ queue' = Without(queue, {k})
      /\ UNCHANGED <<docker, task, phase, todo, snap, remove, posts>>
  BY <1>1, StartsAre DEF TickReleasesVanished, TypeInv, TickOK, startup, world, bounds
<1>4. phase = "serving"
  BY <1>3 DEF BoxInv, StartingInv
<1>5. /\ k \in Jobs /\ \A e \in Own(k) : docker[e] \in Asleep
      /\ posts[k] # 0 /\ ~Unstarted(k)
  BY <1>1, <1>2, <1>3, HeadIs
<1>6. queue \in Seq(Jobs) /\ ToSet(queue') = ToSet(queue) \ {k}
  BY <1>3, WithoutProperties DEF TypeInv, TypeOK
<1>7. /\ gate'[k] = "untracked" /\ \A j \in Jobs : j # k => gate'[j] = gate[j]
      /\ \A j \in Jobs : gate'[j] = "running" => gate[j] = "running"
  BY <1>3, <1>5 DEF Release, ReleaseAll
<1>8. /\ registry'[k] = Absent /\ (\A j \in Jobs : j # k => registry'[j] = registry[j])
      /\ \A j \in Jobs : created'[j] \in {created[j], NoCid}
  BY <1>3, <1>5, RegistryShape DEF Forget, ForgetAll, ForgetCreated
<1>9. KeepsBirth /\ KeepsUnborn
  BY <1>3 DEF KeepsBirth, KeepsUnborn, Unborn, Born
<1>10. \A i \in Jobs : Unstarted(i) => Unstarted(i)'
  <2> SUFFICES ASSUME NEW i \in Jobs, Unstarted(i) PROVE Unstarted(i)'
    OBVIOUS
  <2>1. \A n \in 1..Len(start') : start'[n].job # i
    BY <1>3, StartsAre DEF Unstarted
  <2>2. i \notin ToSet(queue') /\ created'[i] = NoCid
    BY <1>6, <1>8 DEF Unstarted, InQueue
  <2> QED BY <1>3, <1>7, <2>1, <2>2 DEF Unstarted, InQueue
<1>11. KeepsJobs
  <2>1. \A i \in Jobs : Lost(i) => Lost(i)'
    BY <1>3, <1>5, <1>7 DEF Lost, Tracks
  <2>2. Lost(k)'
    BY <1>3, <1>5, <1>7 DEF Lost, Tracks
  <2>3. ASSUME NEW i \in Jobs PROVE Barred(i) => Barred(i)'
    BY <1>3, <1>8, <2>1, <2>2 DEF Barred
  <2>4. ASSUME NEW i \in Jobs, NEW left, Swept(i, left) PROVE Swept(i, left)'
    BY <1>3, <1>10, <2>4 DEF Swept
  <2>5. \A i \in Jobs : (posts[i] = 0 => registry[i] = Reaped) => (posts'[i] = 0 => registry'[i] = Reaped)
    BY <1>3, <1>5, <1>8
  <2> QED BY <1>10, <2>1, <2>3, <2>4, <2>5 DEF KeepsJobs, KeepsJob
<1>12. Fresh' /\ OneCreate' /\ MakeInv' /\ ReapInv' /\ StartingInv' /\ OneBorn'
  BY <1>3, <1>4, <1>5, <1>7, <1>9, <1>11, TickMoves DEF Born
<1>13. StartInv'
  <2>1. \A j \in Jobs \ {start[1].job} :
           /\ gate'[j] = gate[j] /\ (j \in ToSet(queue') => InQueue(j))
           /\ \A e \in Own(j) : docker'[e] = docker[e]
    BY <1>1, <1>3, <1>6, <1>7 DEF InQueue
  <2> QED BY <1>3, <1>4, <2>1, TailKeeps
<1>14. SnapInv'
  BY <1>3, <1>9, StillSeen
<1>15. QueueInv'
  <2>1. \A i, n \in 1..Len(queue') : queue'[i] = queue'[n] => i = n
    BY <1>3, <1>6, WithoutDistinct DEF BoxInv, QueueInv
  <2> QED BY <2>1, <1>3, <1>6, <1>7 DEF BoxInv, QueueInv, InQueue
<1>16. MemoryInv'
  BY <1>3, <1>8, RegistryShape DEF BoxInv, MemoryInv, Born
<1>17. RunningIsAccounted' /\ BudgetInv'
  <2>1. \A e \in Own(k) : docker[e] # "running"
    BY <1>5 DEF Asleep
  <2> QED BY <1>3, <1>4, <1>5, <1>7, <2>1, FewerRun
<1> QED BY <1>12, <1>13, <1>14, <1>15, <1>16, <1>17 DEF BoxInv
(* The critical section that decides.  What it releases has existed, what   *)
(* it starts was waiting and fits beside what runs on, and a container that *)
(* still runs keeps its budget unless it is about to be removed.            *)
LEMMA ReconcileKeeps ==
    ASSUME TypeInv, TypeInv', BoxInv, TickReconciles
    PROVE  BoxInv'
<1> DEFINE R == Released
           q == Without(queue, R)
           g == ReleaseAll(gate, R)
           m == ForgetCreated(created, R)
<1>1. R = Released
  OBVIOUS
<1>2. q = Without(queue, R)
  OBVIOUS
<1>3. g = ReleaseAll(gate, R)
  OBVIOUS
<1>4. m = ForgetCreated(created, R)
  OBVIOUS
<1>5. PICK S \in SUBSET ToSet(q) :
        /\ Promotes(g, q, S) /\ gate' = StartAll(g, S) /\ queue' = Without(q, S) /\ created' = m
        /\ LET w == Only(q, {j \in S : m[j] # NoCid})
           IN start' = [n \in 1..Len(w) |-> [job |-> w[n], cid |-> m[w[n]]]]
  BY DEF TickReconciles
<1> HIDE DEF R, q, g, m
<1>6. PICK w : w = Only(q, {j \in S : m[j] # NoCid})
  OBVIOUS
<1>7. /\ tick = "reconcile" /\ tick' = "act" /\ remove' = Doomed /\ snap' = Unseen
      /\ registry' = ForgetAll(registry, R)
      /\ UNCHANGED <<docker, task, phase, todo, posts>>
  BY <1>1 DEF TickReconciles, startup, world, bounds
<1>8. phase = "serving" /\ start = <<>> /\ remove = {}
  BY <1>7 DEF BoxInv, StartingInv, StartInv
<1>9. queue \in Seq(Jobs) /\ gate \in GateStates /\ R \in SUBSET Jobs
      /\ \A i, k \in 1..Len(queue) : queue[i] = queue[k] => i = k
  BY <1>1, DaemonAssumption DEF TypeInv, TypeOK, BoxInv, QueueInv, Released, Doomed, Vanished, RunningIds
<1>10. \A j \in R : posts[j] # 0
  <2>1. \A c \in Doomed : posts[JobOf[c]] # 0
    <3>1. \A c \in Doomed : c \in Own(JobOf[c]) /\ Born(c) /\ JobOf[c] \in Jobs
      BY DaemonAssumption DEF Doomed, BoxInv, SnapInv, Own
    <3> QED BY <3>1 DEF BoxInv, Fresh, Unborn, Born
  <2>2. \A j \in Vanished : posts[j] # 0
    BY DEF Vanished, RunningIds, BoxInv, Fresh
  <2> QED BY <1>1, <2>1, <2>2 DEF Released
<1>11. /\ q \in Seq(Jobs) /\ ToSet(q) = ToSet(queue) \ R
       /\ \A i, k \in 1..Len(q) : q[i] = q[k] => i = k
  <2>1. q \in Seq(Jobs) /\ ToSet(q) = ToSet(queue) \ R
    BY <1>2, <1>9, WithoutProperties
  <2>2. \A i, k \in 1..Len(q) : q[i] = q[k] => i = k
    BY <1>2, <1>9, WithoutDistinct
  <2> QED BY <2>1, <2>2
<1>12. g \in GateStates /\ \A j \in Jobs : g[j] = IF j \in R THEN "untracked" ELSE gate[j]
  BY <1>3, <1>9, GateAll DEF ReleaseAll
<1>13. S \in SUBSET Jobs /\ \A j \in S : InQueue(j) /\ j \notin R /\ Tracks(g, j)
  <2>1. S \in SUBSET Jobs
    BY <1>11 DEF ToSet
  <2>2. \A j \in S : InQueue(j) /\ j \notin R
    BY <1>11 DEF InQueue
  <2>3. ASSUME NEW j \in S PROVE Tracks(g, j)
    <3>1. PICK i \in 1..Len(q) : q[i] = j
      BY DEF ToSet
    <3>2. \A k \in 1..(i - 1) : k \in 1..Len(q) /\ k # i
      BY <1>11, <3>1
    <3>3. \A k \in 1..(i - 1) : q[k] # q[i]
      BY <1>11, <3>1, <3>2
    <3> QED BY <1>5, <3>1, <3>3 DEF Promotes
  <2> QED BY <2>1, <2>2, <2>3
<1>14. \A j \in Jobs : gate'[j] = IF j \in S THEN "running"
                                  ELSE IF j \in R THEN "untracked" ELSE gate[j]
  BY <1>5, <1>12 DEF StartAll
<1>15. /\ ToSet(queue') = ToSet(q) \ S
       /\ \A i, k \in 1..Len(queue') : queue'[i] = queue'[k] => i = k
  <2>1. ToSet(queue') = ToSet(q) \ S
    BY <1>5, <1>11, WithoutProperties
  <2>2. \A i, k \in 1..Len(queue') : queue'[i] = queue'[k] => i = k
    BY <1>5, <1>11, WithoutDistinct
  <2> QED BY <2>1, <2>2
<1>16. /\ \A j \in Jobs : created'[j] = IF j \in R THEN NoCid ELSE created[j]
       /\ \A j \in Jobs : registry'[j] = IF j \in R THEN Absent ELSE registry[j]
       /\ m = created'
  BY <1>4, <1>5, <1>7, RegistryShape DEF ForgetCreated, ForgetAll
<1>17. /\ Len(w) \in Nat /\ start' = [n \in 1..Len(w) |-> [job |-> w[n], cid |-> m[w[n]]]]
       /\ \A n \in 1..Len(w) : w[n] \in S /\ created[w[n]] # NoCid /\ m[w[n]] = created[w[n]]
       /\ \A i, k \in 1..Len(w) : w[i] = w[k] => i = k
  <2>1. w \in Seq(Jobs) /\ ToSet(w) = ToSet(q) \cap {j \in S : m[j] # NoCid}
    BY <1>6, <1>11, OnlyProperties
  <2>2. \A n \in 1..Len(w) : w[n] \in ToSet(w)
    BY DEF ToSet
  <2>3. \A n \in 1..Len(w) : w[n] \in S /\ m[w[n]] # NoCid
    BY <2>1, <2>2
  <2>4. \A i, k \in 1..Len(w) : w[i] = w[k] => i = k
    BY <1>6, <1>11, WithoutDistinct DEF Only
  <2> QED BY <1>5, <1>6, <1>13, <1>16, <2>1, <2>3, <2>4
<1>18. \A i \in 1..Len(start') : start'[i] = [job |-> w[i], cid |-> created[w[i]]] /\ w[i] \in S
                                 /\ i \in 1..Len(w)
  BY <1>17
<1>19. KeepsBirth /\ KeepsUnborn
  BY <1>7 DEF KeepsBirth, KeepsUnborn, Unborn, Born
<1>20. \A i \in Jobs : Unstarted(i) => Unstarted(i)'
  <2> SUFFICES ASSUME NEW i \in Jobs, Unstarted(i) PROVE Unstarted(i)'
    OBVIOUS
  <2>1. i \notin S
    BY <1>13 DEF Unstarted
  <2>2. gate'[i] # "running"
    BY <1>14, <2>1 DEF Unstarted
  <2>3. i \notin ToSet(queue') /\ created'[i] = NoCid
    BY <1>11, <1>15, <1>16 DEF Unstarted, InQueue
  <2>4. ASSUME NEW n \in 1..Len(start') PROVE start'[n].job # i
    <3>1. start'[n] = [job |-> w[n], cid |-> created[w[n]]] /\ w[n] \in S
      BY <1>18
    <3> QED BY <2>1, <3>1
  <2> QED BY <1>7, <2>2, <2>3, <2>4 DEF Unstarted, InQueue
<1>21. KeepsJobs
  <2>1. \A i \in Jobs : Lost(i) => Lost(i)'
    BY <1>7, <1>12, <1>13, <1>14 DEF Lost, Tracks
  <2>2. \A i \in R : Lost(i)'
    BY <1>7, <1>9, <1>10, <1>13, <1>14 DEF Lost, Tracks
  <2>3. ASSUME NEW i \in Jobs PROVE Barred(i) => Barred(i)'
    BY <1>7, <1>16, <2>1, <2>2 DEF Barred
  <2>4. ASSUME NEW i \in Jobs, NEW left, Swept(i, left) PROVE Swept(i, left)'
    BY <1>7, <1>20, <2>4 DEF Swept
  <2>5. \A i \in Jobs : (posts[i] = 0 => registry[i] = Reaped) => (posts'[i] = 0 => registry'[i] = Reaped)
    BY <1>7, <1>10, <1>16
  <2> QED BY <1>20, <2>1, <2>3, <2>4, <2>5 DEF KeepsJobs, KeepsJob
<1>22. Fresh' /\ OneCreate' /\ MakeInv' /\ ReapInv' /\ StartingInv' /\ OneBorn'
  <2>1. \A j \in Jobs : posts[j] = 0 => gate'[j] = gate[j]
    <3>1. \A j \in Jobs : posts[j] = 0 => ~InQueue(j)
      BY DEF BoxInv, Fresh, Unstarted
    <3> QED BY <3>1, <1>10, <1>13, <1>14
  <2> QED BY <1>7, <1>8, <1>19, <1>21, <2>1, TickMoves DEF Born
<1>23. MemoryInv'
  BY <1>7, <1>16, RegistryShape DEF BoxInv, MemoryInv, Born
<1>24. QueueInv'
  <2>1. ASSUME NEW i \in Jobs, i \in ToSet(queue')
        PROVE  gate'[i] # "running" /\ \A e \in Own(i) : docker'[e] \in Asleep
    <3>1. InQueue(i) /\ i \notin S /\ i \notin R
      BY <1>11, <1>15, <2>1 DEF InQueue
    <3> QED BY <1>7, <1>14, <3>1 DEF BoxInv, QueueInv
  <2> QED BY <1>15, <2>1 DEF QueueInv, InQueue
<1>25. StartInv'
  <2>1. ASSUME NEW i \in 1..Len(start') PROVE StartOK(i)'
    <3>1. PICK j : j = w[i]
      OBVIOUS
    <3>2. PICK c : c = created[j]
      OBVIOUS
    <3>3. start'[i].job = j /\ start'[i].cid = c /\ j \in S /\ j \in Jobs /\ c # NoCid
      BY <1>13, <1>17, <1>18, <3>1, <3>2
    <3>4. c \in Cids /\ JobOf[c] = j /\ Born(c)
      BY <3>2, <3>3 DEF BoxInv, MemoryInv, TypeInv, TypeOK
    <3>5. docker[c] \in {"created", "gone"}
      <4>1. docker[c] \in Asleep
        BY <1>13, <3>3, <3>4 DEF BoxInv, QueueInv, Own
      <4> QED BY <4>1, <3>4 DEF Asleep, Born
    <3>6. j \notin ToSet(queue') /\ gate'[j] = "running"
      BY <1>14, <1>15, <3>3
    <3> QED BY <1>7, <3>3, <3>4, <3>5, <3>6 DEF StartOK, InQueue
  <2>2. \A i, k \in 1..Len(start') : start'[i].job = start'[k].job => i = k
    BY <1>17, <1>18
  <2> QED BY <1>7, <2>1, <2>2 DEF StartInv
<1>26. SnapInv'
  BY <1>7 DEF BoxInv, SnapInv, Doomed, Unseen, Born
<1>27. RunningIsAccounted'
  <2>1. ASSUME NEW c \in Cids, docker[c] = "running"
        PROVE  gate'[JobOf[c]] = "running" \/ c \in remove'
    <3>1. gate[JobOf[c]] = "running" /\ snap[c] = "running" /\ JobOf[c] \in Jobs /\ Born(c)
      BY <1>7, <1>8, <2>1, DaemonAssumption
         DEF BoxInv, RunningIsAccounted, SnapInv, RunningContainers, Born
    <3>2. CASE JobOf[c] \notin R
      BY <1>14, <3>1, <3>2
    <3>3. CASE JobOf[c] \in R
      <4>1. JobOf[c] \notin Vanished
        BY <3>1 DEF Vanished
      <4>2. PICK e \in Doomed : JobOf[e] = JobOf[c]
        BY <1>1, <3>3, <4>1 DEF Released
      <4>3. e \in Cids /\ Born(e)
        BY DEF Doomed, BoxInv, SnapInv
      <4>4. e = c
        BY <3>1, <4>2, <4>3 DEF BoxInv, OneBorn
      <4> QED BY <1>7, <4>4
    <3> QED BY <3>2, <3>3
  <2> QED BY <1>7, <2>1 DEF RunningIsAccounted, RunningContainers
<1>28. BudgetInv'
  <2> SUFFICES ASSUME NEW d \in Dims
               PROVE  JobLoad(Charged', d) <= Budget[d]
                      /\ JobLoad(JobsOf(RunningContainers)', d) <= Budget[d]
    BY DEF BudgetInv, JobsOf, JobLoad
  <2>1. Charged' = RunningIds(g) \cup S
    BY <1>5, <1>7, <1>8, <1>12, <1>13, Started DEF Charged
  <2>2. Charged = RunningIds(gate) /\ RunningIds(gate) \in SUBSET Jobs
    BY <1>8 DEF Charged, RunningIds
  <2>3. JobLoad(RunningIds(gate), d) <= Budget[d] /\ Budget[d] \in Nat
    BY <2>2, GateAssumption DEF BoxInv, BudgetInv
  <2>4. RunningIds(g) \in SUBSET RunningIds(gate)
    BY <1>12 DEF RunningIds
  <2>5. JobLoad(RunningIds(g), d) <= Budget[d]
    <3>1. JobLoad(RunningIds(g), d) <= JobLoad(RunningIds(gate), d)
          /\ JobLoad(RunningIds(g), d) \in Nat /\ JobLoad(RunningIds(gate), d) \in Nat
      BY <2>2, <2>4, JobLoads
    <3> QED BY <2>3, <3>1
  <2>6. JobLoad(RunningIds(g) \cup S, d) <= Budget[d]
    BY <1>5, <1>11, <1>12, <2>5, PromotedFit
  <2>7. JobsOf(RunningContainers)' = JobsOf(RunningContainers)
    BY <1>7 DEF JobsOf, RunningContainers
  <2> QED BY <2>1, <2>6, <2>7 DEF BoxInv, BudgetInv
<1> QED BY <1>22, <1>23, <1>24, <1>25, <1>26, <1>27, <1>28 DEF BoxInv
-----------------------------------------------------------------------------
(* Start-up and stops.                                                       *)

LEMMA NobodyAsks ==
    ASSUME TypeInv, BoxInv, posts' = posts, \A t \in Tasks : task'[t] = Idle, start' = <<>>,
           \A c \in Cids : docker[c] = "unborn" => docker'[c] = "unborn",
           \A j \in Jobs : posts[j] = 0 =>
              /\ gate'[j] = "untracked" /\ created'[j] = NoCid
              /\ j \in ToSet(queue') => InQueue(j)
    PROVE  Fresh' /\ OneCreate' /\ MakeInv' /\ ReapInv'
<1>1. MakeOK(Idle)' /\ ReapOK(Idle)' /\ (\A m : Guarded(Idle, m)' /\ Guarded(m, Idle)') /\ ~Making(Idle)
  BY IdleOK DEF Making, Idle
<1>2. OneCreate' /\ MakeInv' /\ ReapInv'
  BY <1>1 DEF OneCreate, MakeInv, ReapInv, Making
<1>3. Fresh'
  <2> SUFFICES ASSUME NEW j \in Jobs, posts'[j] = 0
               PROVE  /\ gate'[j] = "untracked" /\ Unstarted(j)' /\ Unborn(j)'
                      /\ \A t \in Tasks : Making(task'[t]) => task'[t].job # j
    BY DEF Fresh, Making
  <2>1. Unstarted(j) /\ Unborn(j) /\ gate'[j] = "untracked" /\ created'[j] = NoCid
        /\ j \notin ToSet(queue')
    BY DEF BoxInv, Fresh, Unstarted
  <2>2. Unborn(j)'
    BY <2>1 DEF Unborn, Own
  <2>3. 1..Len(<<>>) = {}
    OBVIOUS
  <2>4. Unstarted(j)'
    BY <2>1, <2>2, <2>3 DEF Unstarted, Unborn, InQueue, Asleep
  <2> QED BY <1>1, <2>1, <2>2, <2>4
<1> QED BY <1>2, <1>3

(* Before the daemon serves, nothing is in flight.                          *)
LEMMA Starting ==
    ASSUME TypeInv, BoxInv, phase # "serving"
    PROVE  /\ \A t \in Tasks : task[t] = Idle
           /\ tick = "idle" /\ start = <<>>
           /\ Charged = JobsOf(SeenRunning)
           /\ \A c \in Cids : Born(c) => posts[JobOf[c]] # 0
<1>1. \A c \in Cids : Born(c) => posts[JobOf[c]] # 0
  BY DaemonAssumption DEF BoxInv, Fresh, Unborn, Own, Born
<1>2. (\A t \in Tasks : task[t] = Idle) /\ tick = "idle"
  BY DEF BoxInv, StartingInv
<1>3. start = <<>>
  BY <1>2 DEF BoxInv, StartInv
<1> QED BY <1>1, <1>2, <1>3 DEF Charged

LEMMA NoStarts ==
    ASSUME start' = <<>>, tick' = "idle", phase' # "serving" \/ remove' = {}
    PROVE  StartInv'
<1>1. 1..Len(<<>>) = {}
  OBVIOUS
<1> QED BY <1>1 DEF StartInv

(* What a step of start-up leaves alone.                                    *)
LEMMA StartUpMoves ==
    ASSUME TypeInv, TypeInv', BoxInv, phase # "serving", phase' # "serving",
           UNCHANGED <<registry, task, start, tick, posts>>,
           \A c \in Cids : docker'[c] = docker[c] \/ (Born(c) /\ docker'[c] = "gone"),
           \A j \in Jobs : \/ gate'[j] = gate[j] /\ created'[j] = created[j]
                              /\ (j \in ToSet(queue') => InQueue(j))
                           \/ \E c \in Own(j) : Born(c) /\ created'[j] = c
    PROVE  /\ Fresh' /\ OneCreate' /\ MakeInv' /\ ReapInv' /\ OneBorn' /\ MemoryInv' /\ StartInv'
           /\ RunningIsAccounted'
<1>1. (\A t \in Tasks : task[t] = Idle) /\ tick = "idle" /\ start = <<>>
  BY Starting
<1>2. \A j \in Jobs : (\E c \in Own(j) : Born(c)) => posts[j] # 0
  BY Starting DEF Own
<1>3. Fresh' /\ OneCreate' /\ MakeInv' /\ ReapInv'
  <2>1. \A j \in Jobs : posts[j] = 0 => gate[j] = "untracked" /\ created[j] = NoCid
    BY DEF BoxInv, Fresh, Unstarted
  <2>2. \A j \in Jobs : posts[j] = 0 =>
           /\ gate'[j] = "untracked" /\ created'[j] = NoCid
           /\ j \in ToSet(queue') => InQueue(j)
    BY <1>2, <2>1
  <2>3. \A c \in Cids : docker[c] = "unborn" => docker'[c] = "unborn"
    BY DEF Born
  <2> QED BY <1>1, <2>2, <2>3, NobodyAsks
<1>4. OneBorn'
  BY DEF BoxInv, OneBorn, Born
<1>5. \A c \in Cids : Born(c) => docker'[c] # "unborn"
  BY DEF Born
<1>6. MemoryInv'
  <2>1. ASSUME NEW j \in Jobs, created'[j] # NoCid
        PROVE  JobOf[created'[j]] = j /\ docker'[created'[j]] # "unborn"
    <3>1. CASE created'[j] = created[j]
      BY <2>1, <3>1, <1>5 DEF BoxInv, MemoryInv, TypeInv, TypeOK
    <3>2. ASSUME NEW c \in Own(j), Born(c), created'[j] = c
          PROVE  JobOf[created'[j]] = j /\ docker'[created'[j]] # "unborn"
      BY <3>2, <1>5 DEF Own
    <3> QED BY <3>1, <3>2
  <2>2. \A j \in Jobs : registry'[j].cid # NoCid => docker'[registry'[j].cid] # "unborn"
    BY KnownCids, <1>5
  <2> QED BY <2>1, <2>2 DEF MemoryInv, Born
<1>7. StartInv'
  BY <1>1, NoStarts
<1>8. RunningIsAccounted'
  BY DEF RunningIsAccounted
<1> QED BY <1>3, <1>4, <1>6, <1>7, <1>8

LEMMA StartUpKeeps ==
    ASSUME TypeInv, TypeInv', BoxInv, StartUp \/ AdoptReadsClock
    PROVE  BoxInv'
<1>1. /\ phase # "serving" /\ phase' # "serving"
      /\ UNCHANGED <<gate, registry, queue, created, task, start, tick, posts, docker, snap, remove>>
  BY DEF StartUp, AdoptReadsClock, memory, world, bounds, ticker
<1>2. /\ Fresh' /\ OneCreate' /\ MakeInv' /\ ReapInv' /\ OneBorn' /\ MemoryInv' /\ StartInv'
      /\ RunningIsAccounted'
  BY <1>1, StartUpMoves DEF InQueue
<1>3. QueueInv'
  BY <1>1 DEF BoxInv, QueueInv, InQueue
<1>4. \A c \in todo' : c \in Cids /\ Born(c)
  <2>1. CASE StartUp
    BY <2>1 DEF StartUp, Live, Born
  <2>2. CASE AdoptReadsClock
    BY <2>2 DEF AdoptReadsClock, BoxInv, SnapInv
  <2> QED BY <2>1, <2>2
<1>5. SnapInv'
  BY <1>1, <1>4, Starting DEF BoxInv, SnapInv, Born
<1>6. StartingInv'
  <2>1. CASE StartUp
    <3>1. phase = "down" /\ phase' = "inspecting" /\ RunningContainers \subseteq todo'
      BY <2>1 DEF StartUp, Live, RunningContainers
    <3> QED BY <1>1, <3>1 DEF BoxInv, StartingInv, RunningContainers, InQueue
  <2>2. CASE AdoptReadsClock
    <3>1. phase = "inspecting" /\ phase' = "adopting" /\ todo = {}
          /\ todo' = {c \in Cids : snap[c] # "unseen"}
      BY <2>2 DEF AdoptReadsClock
    <3>2. \A c \in RunningContainers : c \in todo' /\ snap[c] = "running"
      BY <3>1 DEF BoxInv, StartingInv, RunningContainers
    <3> QED BY <1>1, <3>1, <3>2 DEF BoxInv, StartingInv, RunningContainers, InQueue
  <2> QED BY <2>1, <2>2
<1>7. BudgetInv'
  BY <1>1 DEF BoxInv, BudgetInv, Charged, SeenRunning, RunningContainers
<1> QED BY <1>2, <1>3, <1>5, <1>6, <1>7 DEF BoxInv

LEMMA AdoptInspectsKeeps ==
    ASSUME TypeInv, TypeInv', BoxInv, Reliable, NEW c \in Cids, AdoptInspects(c)
    PROVE  BoxInv'
<1>1. /\ phase = "inspecting" /\ snap' = [snap EXCEPT ![c] = Sighting(c)]
      /\ todo' = todo \ {c}
      /\ UNCHANGED <<gate, registry, queue, created, task, phase, start, tick, posts, docker, remove>>
  BY DEF AdoptInspects, memory, world, bounds, Reliable, Misreports
<1>2. /\ Fresh' /\ OneCreate' /\ MakeInv' /\ ReapInv' /\ OneBorn' /\ MemoryInv' /\ StartInv'
      /\ RunningIsAccounted'
  BY <1>1, StartUpMoves DEF InQueue
<1>3. QueueInv'
  BY <1>1 DEF BoxInv, QueueInv, InQueue
<1>4. /\ \A e \in Cids \ {c} : snap'[e] = snap[e]
      /\ snap'[c] = Sighting(c)
  BY <1>1 DEF TypeInv, TypeOK
<1>5. /\ Sighting(c) # "unseen" => Born(c)
      /\ Sighting(c) = "created" => docker[c] = "created"
      /\ Sighting(c) = "running" <=> docker[c] = "running"
  BY DEF Sighting, Live, Born
<1>6. SnapInv'
  BY <1>1, <1>4, <1>5, Starting DEF BoxInv, SnapInv, Born
<1>7. StartingInv'
  <2>1. gate = EmptyGate /\ queue = <<>> /\ remove = {}
    BY <1>1 DEF BoxInv, StartingInv
  <2>2. \A j \in Jobs : ~InQueue(j) /\ gate[j] # "running"
    <3>1. ToSet(<<>>) = {}
      BY DEF ToSet
    <3> QED BY <2>1, <3>1 DEF InQueue, EmptyGate
  <2>3. \A e \in RunningContainers : e \in todo' \/ snap'[e] = "running"
    BY <1>1, <1>4, <1>5 DEF BoxInv, StartingInv, RunningContainers
  <2>4. \A e \in Cids : snap'[e] = "created" => docker[e] \in {"created", "gone"}
    BY <1>1, <1>4, <1>5 DEF BoxInv, StartingInv
  <2> QED BY <1>1, <2>1, <2>2, <2>3, <2>4, Starting DEF StartingInv, RunningContainers, InQueue
<1>8. BudgetInv'
  <2>1. SeenRunning' \subseteq SeenRunning
    BY <1>1, <1>4, <1>5 DEF SeenRunning
  <2>2. Charged' \subseteq Charged
    BY <1>1, <2>1 DEF Charged, JobsOf
  <2>3. JobsOf(RunningContainers)' \subseteq JobsOf(RunningContainers)
    BY <1>1 DEF JobsOf, RunningContainers
  <2> QED BY <2>2, <2>3, BudgetKept
<1> QED BY <1>2, <1>3, <1>6, <1>7, <1>8 DEF BoxInv
LEMMA AdoptResumesKeeps ==
    ASSUME TypeInv, TypeInv', BoxInv, NEW c \in Cids, AdoptResumes(c)
    PROVE  BoxInv'
<1>1. PICK k : k = JobOf[c]
  OBVIOUS
<1>2. /\ phase = "adopting" /\ c \in todo /\ snap[c] = "running" /\ ~Tracks(gate, k)
      /\ gate' = AdoptRunning(gate, k) /\ created' = [created EXCEPT ![k] = c]
      /\ todo' = todo \ {c}
      /\ UNCHANGED <<registry, queue, task, phase, start, tick, posts, docker, snap, remove>>
  BY <1>1 DEF AdoptResumes, Adopting, ticker, world, bounds
<1>3. k \in Jobs /\ c \in Own(k) /\ Born(c)
  BY <1>1, <1>2, DaemonAssumption DEF Own, BoxInv, SnapInv
<1>4. /\ gate'[k] = "running" /\ \A j \in Jobs : j # k => gate'[j] = gate[j]
      /\ created'[k] = c /\ \A j \in Jobs : j # k => created'[j] = created[j]
  BY <1>2, <1>3 DEF AdoptRunning, TypeInv, TypeOK, GateStates
<1>5. /\ Fresh' /\ OneCreate' /\ MakeInv' /\ ReapInv' /\ OneBorn' /\ MemoryInv' /\ StartInv'
      /\ RunningIsAccounted'
  BY <1>2, <1>3, <1>4, StartUpMoves DEF InQueue
<1>6. ~InQueue(k)
  BY <1>2, <1>3 DEF BoxInv, StartingInv
<1>7. QueueInv'
  BY <1>2, <1>4, <1>6 DEF BoxInv, QueueInv, InQueue
<1>8. SnapInv'
  BY <1>2, Starting DEF BoxInv, SnapInv, Born
<1>9. StartingInv'
  <2>1. \A j \in Jobs : j \in ToSet(queue') => Tracks(gate', j)
    BY <1>2, <1>4, <1>6 DEF BoxInv, StartingInv, InQueue, Tracks
  <2>2. \A j \in Jobs : gate'[j] = "running" => \E e \in Own(j) : snap[e] = "running"
    BY <1>2, <1>3, <1>4 DEF BoxInv, StartingInv
  <2>3. ASSUME NEW e \in Cids, docker[e] = "running"
        PROVE  \/ e \in todo' /\ snap[e] = "running"
               \/ e \in remove
               \/ gate'[JobOf[e]] = "running"
    <3>1. (e \in todo /\ snap[e] = "running") \/ e \in remove \/ gate[JobOf[e]] = "running"
      BY <1>2, <2>3 DEF BoxInv, StartingInv, RunningContainers
    <3>2. JobOf[e] \in Jobs
      BY DaemonAssumption
    <3> QED BY <1>1, <1>2, <1>4, <3>1, <3>2
  <2> QED BY <1>2, <2>1, <2>2, <2>3, Starting DEF BoxInv, StartingInv, RunningContainers, InQueue
<1>10. BudgetInv'
  BY <1>2 DEF BoxInv, BudgetInv, Charged, SeenRunning, RunningContainers
<1> QED BY <1>5, <1>7, <1>8, <1>9, <1>10 DEF BoxInv

LEMMA AdoptRequeuesKeeps ==
    ASSUME TypeInv, TypeInv', BoxInv, NEW c \in Cids, AdoptRequeues(c)
    PROVE  BoxInv'
<1>1. PICK k : k = JobOf[c]
  OBVIOUS
<1>2. /\ phase = "adopting" /\ c \in todo /\ snap[c] = "created" /\ ~Tracks(gate, k)
      /\ gate' = Admit(gate, k) /\ created' = [created EXCEPT ![k] = c]
      /\ queue' = Append(queue, k) /\ todo' = todo \ {c}
      /\ UNCHANGED <<registry, task, phase, start, tick, posts, docker, snap, remove>>
  BY <1>1 DEF AdoptRequeues, Adopting, AdmitOutcome, ticker, world, bounds
<1>3. k \in Jobs /\ c \in Own(k) /\ Born(c) /\ docker[c] \in {"created", "gone"}
  BY <1>1, <1>2, DaemonAssumption DEF Own, BoxInv, SnapInv, StartingInv
<1>4. /\ gate'[k] = "queued" /\ \A j \in Jobs : j # k => gate'[j] = gate[j]
      /\ created'[k] = c /\ \A j \in Jobs : j # k => created'[j] = created[j]
  BY <1>2, <1>3 DEF Admit, TypeInv, TypeOK, GateStates
<1>5. ToSet(queue') = ToSet(queue) \cup {k} /\ queue \in Seq(Jobs)
  BY <1>2, <1>3, AppendSet DEF TypeInv, TypeOK
<1>6. /\ Fresh' /\ OneCreate' /\ MakeInv' /\ ReapInv' /\ OneBorn' /\ MemoryInv' /\ StartInv'
      /\ RunningIsAccounted'
  BY <1>2, <1>3, <1>4, <1>5, StartUpMoves DEF InQueue
<1>7. ~InQueue(k) /\ \A e \in Own(k) : e = c \/ docker[e] = "unborn"
  BY <1>2, <1>3 DEF BoxInv, StartingInv, OneBorn, Own, Born
<1>8. QueueInv'
  <2>1. \A i \in 1..Len(queue) : queue[i] # k
    BY <1>7 DEF ToSet, InQueue
  <2>2. \A i, n \in 1..Len(queue') : queue'[i] = queue'[n] => i = n
    <3>1. Len(queue') = Len(queue) + 1 /\ Len(queue) \in Nat /\ queue'[Len(queue) + 1] = k
          /\ \A i \in 1..Len(queue) : queue'[i] = queue[i]
      BY <1>2, <1>3, <1>5
    <3>2. \A i \in 1..Len(queue') : i \in 1..Len(queue) \/ i = Len(queue) + 1
      BY <3>1
    <3> QED BY <2>1, <3>1, <3>2 DEF BoxInv, QueueInv
  <2>3. ASSUME NEW i \in Jobs, i \in ToSet(queue')
        PROVE  gate'[i] # "running" /\ \A e \in Own(i) : docker'[e] \in Asleep
    <3>1. CASE i = k
      BY <1>2, <1>3, <1>4, <1>7, <3>1 DEF Asleep
    <3>2. CASE i # k
      BY <1>2, <1>4, <1>5, <2>3, <3>2 DEF BoxInv, QueueInv, InQueue
    <3> QED BY <3>1, <3>2
  <2> QED BY <2>2, <2>3 DEF QueueInv, InQueue
<1>9. SnapInv'
  BY <1>2, Starting DEF BoxInv, SnapInv, Born
<1>10. StartingInv'
  <2>1. \A j \in Jobs : j \in ToSet(queue') => Tracks(gate', j)
    BY <1>2, <1>4, <1>5 DEF BoxInv, StartingInv, InQueue, Tracks
  <2>2. \A j \in Jobs : gate'[j] = "running" => \E e \in Own(j) : snap[e] = "running"
    BY <1>2, <1>3, <1>4 DEF BoxInv, StartingInv
  <2>3. ASSUME NEW e \in Cids, docker[e] = "running"
        PROVE  \/ e \in todo' /\ snap[e] = "running"
               \/ e \in remove
               \/ gate'[JobOf[e]] = "running"
    <3>1. (e \in todo /\ snap[e] = "running") \/ e \in remove \/ gate[JobOf[e]] = "running"
      BY <1>2, <2>3 DEF BoxInv, StartingInv, RunningContainers
    <3>2. JobOf[e] \in Jobs /\ e # c
      BY <1>3, <2>3, DaemonAssumption
    <3>3. gate[k] # "running"
      BY <1>2 DEF Tracks
    <3> QED BY <1>2, <1>4, <3>1, <3>2, <3>3
  <2> QED BY <1>2, <2>1, <2>2, <2>3, Starting DEF BoxInv, StartingInv, RunningContainers, InQueue
<1>11. BudgetInv'
  BY <1>2 DEF BoxInv, BudgetInv, Charged, SeenRunning, RunningContainers
<1> QED BY <1>6, <1>8, <1>9, <1>10, <1>11 DEF BoxInv

LEMMA AdoptDoomsKeeps ==
    ASSUME TypeInv, TypeInv', BoxInv, NEW c \in Cids, AdoptDooms(c)
    PROVE  BoxInv'
<1>1. /\ phase = "adopting" /\ c \in todo /\ remove' = remove \cup {c} /\ todo' = todo \ {c}
      /\ UNCHANGED <<gate, registry, queue, created, task, phase, start, tick, posts, docker, snap>>
  BY DEF AdoptDooms, memory, world, bounds
<1>2. /\ Fresh' /\ OneCreate' /\ MakeInv' /\ ReapInv' /\ OneBorn' /\ MemoryInv' /\ StartInv'
      /\ RunningIsAccounted'
  BY <1>1, StartUpMoves DEF InQueue
<1>3. QueueInv'
  BY <1>1 DEF BoxInv, QueueInv, InQueue
<1>4. SnapInv'
  BY <1>1, Starting DEF BoxInv, SnapInv, Born
<1>5. StartingInv'
  BY <1>1 DEF BoxInv, StartingInv, RunningContainers, InQueue
<1>6. BudgetInv'
  BY <1>1 DEF BoxInv, BudgetInv, Charged, SeenRunning, RunningContainers
<1> QED BY <1>2, <1>3, <1>4, <1>5, <1>6 DEF BoxInv

LEMMA AdoptRemovesKeeps ==
    ASSUME TypeInv, TypeInv', BoxInv, Reliable, NEW c \in Cids, AdoptRemoves(c)
    PROVE  BoxInv'
<1>1. /\ phase = "adopting" /\ c \in remove /\ docker' = Removed(c) /\ remove' = remove \ {c}
      /\ UNCHANGED <<gate, registry, queue, created, task, phase, start, tick, posts, snap, todo>>
  BY Removes DEF AdoptRemoves, memory, startup, bounds
<1>2. Born(c) /\ docker'[c] = "gone" /\ \A e \in Cids \ {c} : docker'[e] = docker[e]
  BY <1>1 DEF BoxInv, SnapInv, Removed, TypeInv, TypeOK
<1>3. /\ Fresh' /\ OneCreate' /\ MakeInv' /\ ReapInv' /\ OneBorn' /\ MemoryInv' /\ StartInv'
      /\ RunningIsAccounted'
  BY <1>1, <1>2, StartUpMoves DEF InQueue
<1>4. \A e \in Cids : /\ docker[e] \in Asleep => docker'[e] \in Asleep
                      /\ docker[e] \in {"created", "gone"} => docker'[e] \in {"created", "gone"}
                      /\ Born(e) => docker'[e] # "unborn"
                      /\ docker'[e] = "running" => docker[e] = "running" /\ e # c
  BY <1>2 DEF Asleep, Born
<1>5. QueueInv'
  BY <1>1, <1>4 DEF BoxInv, QueueInv, InQueue, Own
<1>6. SnapInv'
  <2>1. tick' # "reconcile"
    BY <1>1, Starting
  <2>2. \A e \in remove \cup todo : e \in Cids
    BY DEF TypeInv, TypeOK
  <2> QED BY <1>1, <1>4, <2>1, <2>2 DEF BoxInv, SnapInv, Born
<1>7. StartingInv'
  BY <1>1, <1>4 DEF BoxInv, StartingInv, RunningContainers, InQueue
<1>8. BudgetInv'
  <2>1. SeenRunning' \subseteq SeenRunning /\ RunningContainers' \subseteq RunningContainers
    BY <1>1, <1>4 DEF SeenRunning, RunningContainers
  <2>2. Charged' \subseteq Charged
    BY <1>1, <2>1 DEF Charged, JobsOf
  <2>3. JobsOf(RunningContainers)' \subseteq JobsOf(RunningContainers)
    BY <2>1 DEF JobsOf
  <2> QED BY <2>2, <2>3, BudgetKept
<1> QED BY <1>3, <1>5, <1>6, <1>7, <1>8 DEF BoxInv

(* The daemon starts to serve: the gate is charged for what was seen running. *)
LEMMA PullBindsKeeps ==
    ASSUME TypeInv, TypeInv', BoxInv, PullBinds
    PROVE  BoxInv'
<1>1. /\ phase = "adopting" /\ todo = {} /\ remove = {} /\ phase' = "serving" /\ snap' = Unseen
      /\ UNCHANGED <<gate, registry, queue, created, task, todo, start, tick, posts, docker, remove>>
  BY DEF PullBinds, Adopted, memory, bounds
<1>2. (\A t \in Tasks : task[t] = Idle) /\ tick = "idle" /\ start = <<>>
      /\ Charged = JobsOf(SeenRunning)
  BY <1>1, Starting
<1>3. Fresh' /\ OneCreate' /\ MakeInv' /\ ReapInv'
  <2>1. \A j \in Jobs : posts[j] = 0 =>
           /\ gate'[j] = "untracked" /\ created'[j] = NoCid
           /\ j \in ToSet(queue') => InQueue(j)
    BY <1>1 DEF BoxInv, Fresh, Unstarted, InQueue
  <2> QED BY <1>1, <1>2, <2>1, NobodyAsks
<1>4. OneBorn' /\ MemoryInv' /\ QueueInv'
  BY <1>1 DEF BoxInv, OneBorn, MemoryInv, QueueInv, InQueue, Born
<1>5. StartInv'
  BY <1>1, <1>2, NoStarts
<1>6. SnapInv'
  BY <1>1, <1>2 DEF BoxInv, SnapInv, Unseen, Born
<1>7. StartingInv'
  BY <1>1 DEF StartingInv
<1>8. RunningIsAccounted'
  BY <1>1 DEF BoxInv, StartingInv, RunningIsAccounted, RunningContainers
<1>9. BudgetInv'
  <2>1. Charged' \subseteq Charged
    <3>1. \A j \in RunningIds(gate) : \E c \in Own(j) : snap[c] = "running"
      BY <1>1 DEF BoxInv, StartingInv, RunningIds
    <3>2. Charged' = RunningIds(gate)
      BY <1>1 DEF Charged
    <3> QED BY <1>2, <3>1, <3>2 DEF JobsOf, SeenRunning, Own
  <2>2. JobsOf(RunningContainers)' \subseteq JobsOf(RunningContainers)
    BY <1>1 DEF JobsOf, RunningContainers
  <2> QED BY <2>1, <2>2, BudgetKept
<1> QED BY <1>3, <1>4, <1>5, <1>6, <1>7, <1>8, <1>9 DEF BoxInv

(* A stop leaves the containers as they are and forgets everything else.    *)
LEMMA ProcessGoneKeeps ==
    ASSUME TypeInv, TypeInv', BoxInv, ProcessGone, UNCHANGED <<docker, posts>>
    PROVE  BoxInv'
<1>1. /\ gate' = EmptyGate /\ registry' = EmptyRegistry(Jobs) /\ queue' = <<>>
      /\ created' = NoCreated /\ task' = [t \in Tasks |-> Idle] /\ phase' = "down"
      /\ todo' = {} /\ tick' = "idle" /\ snap' = Unseen /\ remove' = {} /\ start' = <<>>
  BY DEF ProcessGone
<1>2. /\ ToSet(<<>>) = {} /\ 1..Len(<<>>) = {}
      /\ \A j \in Jobs : gate'[j] = "untracked" /\ created'[j] = NoCid /\ registry'[j].cid = NoCid
      /\ \A c \in Cids : snap'[c] = "unseen"
      /\ \A t \in Tasks : task'[t] = Idle
  BY <1>1 DEF ToSet, EmptyGate, NoCreated, EmptyRegistry, Absent, Unseen
<1>3. Fresh' /\ OneCreate' /\ MakeInv' /\ ReapInv'
  BY <1>1, <1>2, NobodyAsks
<1>4. OneBorn' /\ MemoryInv' /\ QueueInv'
  BY <1>1, <1>2 DEF BoxInv, OneBorn, MemoryInv, QueueInv, InQueue, Born
<1>5. StartInv'
  BY <1>1, NoStarts
<1>6. SnapInv'
  BY <1>1, <1>2 DEF SnapInv
<1>7. StartingInv'
  BY <1>1, <1>2 DEF StartingInv, InQueue
<1>8. RunningIsAccounted'
  BY <1>1 DEF RunningIsAccounted
<1>9. BudgetInv'
  <2>1. SeenRunning' = RunningContainers /\ RunningContainers' = RunningContainers
    BY <1>2 DEF SeenRunning, RunningContainers
  <2>2. Charged' = JobsOf(RunningContainers)
    BY <1>1, <2>1 DEF Charged, JobsOf
  <2>3. JobsOf(RunningContainers)' \subseteq JobsOf(RunningContainers)
    BY <2>1 DEF JobsOf
  <2> QED BY <2>2, <2>3, BudgetKept
<1> QED BY <1>3, <1>4, <1>5, <1>6, <1>7, <1>8, <1>9 DEF BoxInv
-----------------------------------------------------------------------------
(* The box around the daemon.                                                *)

LEMMA EnvironmentFalls ==
    ASSUME TypeInv, TypeInv', BoxInv, BooksSame, DockerFalls, RegistryMoves, task' = task
    PROVE  BoxInv'
<1>1. KeepsBirth /\ KeepsUnborn /\ KeepsJobs
  BY FallsKeepJobs
<1>2. Fresh'
  <2>1. \A j \in Jobs : posts'[j] = 0 => posts[j] = 0 /\ gate'[j] = gate[j]
    BY DEF BooksSame
  <2> QED BY <1>1, <2>1, FreshKeeps DEF BoxInv
<1>3. OneCreate' /\ MakeInv' /\ ReapInv'
  BY <1>1, NoTaskMoves DEF BoxInv
<1>4. /\ OneBorn' /\ MemoryInv' /\ QueueInv' /\ StartInv' /\ SnapInv'
      /\ RunningIsAccounted' /\ BudgetInv'
  BY FallsKeepBooks DEF TypeInv
<1>5. StartingInv'
  <2>1. \A c \in Cids : docker[c] \in {"created", "gone"} => docker'[c] \in {"created", "gone"}
    BY DEF DockerFalls
  <2>2. \A c \in Cids : docker'[c] = "running" => docker[c] = "running"
    BY DEF DockerFalls
  <2> QED BY <2>1, <2>2 DEF BoxInv, StartingInv, BooksSame, RunningContainers, InQueue
<1> QED BY <1>2, <1>3, <1>4, <1>5 DEF BoxInv

LEMMA TombstoneAgesKeeps ==
    ASSUME TypeInv, TypeInv', BoxInv, NEW j \in Jobs, TombstoneAges(j)
    PROVE  BoxInv'
<1>1. /\ registry' = [registry EXCEPT ![j] = Stale] /\ (\A t \in Tasks : task[t].job # j)
      /\ UNCHANGED <<gate, queue, created, task, start, tick, phase, todo, snap, remove, posts, docker>>
  BY DEF TombstoneAges, startup, ticker, world, bounds
<1>2. registry'[j] = Stale /\ \A i \in Jobs : i # j => registry'[i] = registry[i]
  BY <1>1, RegistryShape
<1>3. KeepsBirth /\ KeepsUnborn
  BY <1>1 DEF KeepsBirth, KeepsUnborn, Unborn, Born
<1>4. \A i \in Jobs : Unstarted(i) => Unstarted(i)'
  BY <1>1 DEF Unstarted, InQueue
<1>5. ASSUME NEW i \in Jobs, i # j PROVE KeepsJob(i)
  BY <1>1, <1>2, <1>4, <1>5 DEF KeepsJob, Barred, Lost, Swept, Tracks
<1>6. ASSUME NEW u \in Tasks PROVE MakeOK(task[u])' /\ ReapOK(task[u])'
  <2>1. PICK r : r = task[u]
    OBVIOUS
  <2>2. r \in TaskRecords /\ TaskFine(r) /\ MakeOK(r) /\ ReapOK(r) /\ r.job # j
    BY <1>1, <2>1 DEF TypeInv, TaskOK, BoxInv, MakeInv, ReapInv
  <2>3. r.pc # "idle" => r.job \in Jobs /\ KeepsJob(r.job)
    BY <1>5, <2>2 DEF TaskFine
  <2>4. r.pc \in {"begin", "creating"} => (Unborn(r.job) => Unborn(r.job)')
    BY <1>3, <2>3 DEF KeepsUnborn
  <2>5. MakeOK(r)' /\ ReapOK(r)'
    BY <1>3, <2>2, <2>3, <2>4, RecordKept
  <2> QED BY <1>1, <2>1, <2>5
<1>7. ASSUME NEW u \in Tasks, NEW v \in Tasks PROVE Guarded(task[u], task[v])'
  <2>1. PICK a : a = task[u]
    OBVIOUS
  <2>2. PICK b : b = task[v]
    OBVIOUS
  <2>3. Guarded(a, b) /\ TaskFine(a) /\ a.job # j
    BY <1>1, <2>1, <2>2 DEF BoxInv, ReapInv, TypeInv, TaskOK
  <2>4. a.pc \in Settling => a.job \in Jobs
    BY <2>3 DEF TaskFine, Settling
  <2>5. a.pc \in Settling => (Barred(a.job) => Barred(a.job)')
    BY <1>5, <2>3, <2>4 DEF KeepsJob
  <2>6. \A c \in {b.cid} : Spent(a.job, c, StillLeft(a)) => Spent(a.job, c, StillLeft(a))'
    BY <1>1 DEF Spent, Lost, Tracks, StillLeft
  <2>7. Guarded(a, b)'
    BY <2>3, <2>5, <2>6 DEF Guarded, Sweeping, StillLeft
  <2> QED BY <1>1, <2>1, <2>2, <2>7
<1>8. OneCreate' /\ MakeInv' /\ ReapInv'
  BY <1>1, <1>6, <1>7 DEF BoxInv, OneCreate, MakeInv, ReapInv, Making
<1>9. Fresh'
  BY <1>1, <1>3, <1>4 DEF BoxInv, Fresh, KeepsUnborn, Making
<1>10. MemoryInv'
  BY <1>1, <1>2, RegistryShape DEF BoxInv, MemoryInv, Born
<1>11. OneBorn' /\ QueueInv' /\ SnapInv' /\ StartingInv' /\ RunningIsAccounted'
  BY <1>1 DEF BoxInv, OneBorn, QueueInv, SnapInv, StartingInv, RunningIsAccounted, Born, InQueue,
              RunningContainers
<1>12. StartInv'
  <2>1. ASSUME NEW i \in 1..Len(start) PROVE StartOK(i)'
    <3>1. StartOK(i)
      BY DEF BoxInv, StartInv
    <3> QED BY <3>1, <1>1 DEF StartOK, InQueue
  <2> QED BY <1>1, <2>1 DEF BoxInv, StartInv
<1>13. BudgetInv'
  BY <1>1 DEF BoxInv, BudgetInv, Charged, SeenRunning, RunningContainers
<1> QED BY <1>8, <1>9, <1>10, <1>11, <1>12, <1>13 DEF BoxInv

-----------------------------------------------------------------------------
LEMMA BoxInit == Init => BoxInv
<1> SUFFICES ASSUME Init PROVE BoxInv
  OBVIOUS
<1> USE DEF Init
<1>1. /\ ToSet(<<>>) = {} /\ 1..Len(<<>>) = {}
      /\ \A j \in Jobs : gate[j] = "untracked" /\ created[j] = NoCid /\ registry[j].cid = NoCid
      /\ \A c \in Cids : snap[c] = "unseen" /\ docker[c] = "unborn"
      /\ \A t \in Tasks : task[t] = Idle
  BY DEF ToSet, EmptyGate, NoCreated, EmptyRegistry, Absent, Unseen
<1>2. Fresh
  BY <1>1 DEF Fresh, Unstarted, Unborn, InQueue, Own, Asleep, Making, Idle
<1>3. OneCreate /\ OneBorn
  BY <1>1 DEF OneCreate, OneBorn, Making, Idle, Born
<1>4. MakeInv /\ ReapInv
  BY <1>1 DEF MakeInv, ReapInv, MakeOK, ReapOK, Guarded, Making, HoldsContainer, Settling, Sweeping, Idle
<1>5. MemoryInv /\ QueueInv /\ StartInv
  BY <1>1 DEF MemoryInv, QueueInv, StartInv, InQueue
<1>6. SnapInv /\ StartingInv /\ RunningIsAccounted
  BY <1>1 DEF SnapInv, StartingInv, RunningIsAccounted, InQueue, RunningContainers
<1>7. BudgetInv
  <2> SUFFICES ASSUME NEW d \in Dims PROVE JobLoad({}, d) <= Budget[d]
    <3>1. Charged = {} /\ JobsOf(RunningContainers) = {}
      BY <1>1 DEF Charged, JobsOf, SeenRunning, RunningContainers
    <3> QED BY <3>1 DEF BudgetInv
  <2>1. UNION {{x} \X (1..[j \in Jobs |-> Size[j][d]][x]) : x \in {}} = {}
    OBVIOUS
  <2>2. JobLoad({}, d) = 0
    BY <2>1, FS_EmptySet DEF JobLoad, Load
  <2> QED BY <2>2, GateAssumption
<1> QED BY <1>2, <1>3, <1>4, <1>5, <1>6, <1>7 DEF BoxInv

LEMMA BoxNext ==
    ASSUME Reliable, TypeInv, TypeInv', BoxInv, [Next]_vars
    PROVE  BoxInv'
<1>1. ASSUME NEW t \in Tasks, Request(t) \/ TaskStep(t) \/ DestroyDisconnected(t) PROVE BoxInv'
  <2>1. CASE Request(t)
    BY <2>1, CreateJobKeeps, ReapJobKeeps, DestroyStarts DEF Request
  <2>2. CASE CreateStep(t)
    <3>1. CASE RememberCreated(t)
      BY <3>1, RemembersKeeps, SetsAside
    <3> QED BY <2>2, <3>1, CreateClaimsKeeps, CreateFailsKeeps, CreateFinishesKeeps,
               CreateDiscardsKeeps, DestroyStarts, DockerCreatesKeeps DEF CreateStep
  <2>3. CASE DestroyStep(t)
    BY <2>3, DestroyRemovesKeeps, DestroyForgetsKeeps DEF DestroyStep
  <2>4. CASE ReapStep(t)
    BY <2>4, ReapRemovesKnownKeeps, ReapListsKeeps, ReapSettlesKeeps, ReapRemovesListedKeeps
       DEF ReapStep
  <2>5. CASE ReleaseStep(t)
    BY <2>5, ReleaseStepKeeps
  <2>6. CASE DestroyDisconnected(t)
    BY <2>6, DisconnectedKeeps
  <2> QED BY <1>1, <2>1, <2>2, <2>3, <2>4, <2>5, <2>6 DEF TaskStep
<1>2. CASE TickStep
  BY <1>2, TickListsKeeps, ReconcileKeeps, TickEndsKeeps, TickStartsKeeps, TickUnstartsKeeps,
     TickRequeuesKeeps, TickReleasesVanishedKeeps, TickRemovesKeeps DEF TickStep
<1>3. ASSUME docker' = docker, registry' = registry, BooksSame, task' = task PROVE BoxInv'
  BY <1>3, SameWorldFalls, SameRegistryMoves, EnvironmentFalls
<1>4. CASE StartUpStep
  <2>1. CASE PullFails
    BY <2>1, <1>3 DEF PullFails, BooksSame, memory, ticker, world, bounds
  <2>2. CASE PullGivesUp
    BY <2>2, ProcessGoneKeeps DEF PullGivesUp, world, bounds
  <2> QED BY <1>4, <2>1, <2>2, StartUpKeeps, PullBindsKeeps, AdoptInspectsKeeps, AdoptResumesKeeps,
             AdoptRequeuesKeeps, AdoptDoomsKeeps, AdoptRemovesKeeps DEF StartUpStep
<1>5. CASE Environment
  <2>1. CASE Crash
    BY <2>1, ProcessGoneKeeps DEF Crash, world
  <2>2. CASE ImageLost \/ ImageRefreshed
    BY <2>2, <1>3 DEF ImageLost, ImageRefreshed, BooksSame, memory, startup, ticker, bounds
  <2>3. ASSUME NEW c \in Cids, ContainerExits(c) PROVE BoxInv'
    <3>1. registry' = registry /\ BooksSame /\ task' = task
      BY <2>3 DEF ContainerExits, BooksSame, memory, startup, ticker, bounds
    <3>2. DockerFalls
      BY <2>3 DEF ContainerExits, DockerFalls, TypeInv, TypeOK
    <3> QED BY <3>1, <3>2, SameRegistryMoves, EnvironmentFalls
  <2>4. ASSUME NEW j \in Jobs, DeadlinePasses(j) PROVE BoxInv'
    BY <2>4, <1>3 DEF DeadlinePasses, BooksSame, memory, startup, ticker, bounds
  <2> QED BY <1>5, <2>1, <2>2, <2>3, <2>4, TombstoneAgesKeeps DEF Environment
<1>6. CASE UNCHANGED vars
  BY <1>6, <1>3 DEF vars, BooksSame, memory, startup, ticker, world, bounds
<1> QED BY <1>1, <1>2, <1>4, <1>5, <1>6 DEF Next

LEMMA BoxAlways == ASSUME Reliable PROVE Spec => [](TypeInv /\ BoxInv)
<1>1. Init => TypeInv /\ BoxInv
  BY TypeInit, BoxInit
<1>2. TypeInv /\ BoxInv /\ [Next]_vars => TypeInv' /\ BoxInv'
  BY TypeNext, BoxNext
<1> QED BY <1>1, <1>2, PTL DEF Spec

(* The budget holds: what runs needs no more than the box has.              *)
LEMMA BoxFits == TypeInv /\ BoxInv => NoOvercommit
<1> SUFFICES ASSUME TypeInv, BoxInv, NEW d \in Dims
             PROVE  ContainerFootprint(RunningContainers)[d] <= Budget[d]
  BY DEF NoOvercommit, FitsWithin
<1>1. RunningContainers \in SUBSET Cids
      /\ \A c, e \in RunningContainers : JobOf[c] = JobOf[e] => c = e
  BY DEF BoxInv, OneBorn, Born, RunningContainers
<1> DEFINE a == Load([c \in Cids |-> Size[JobOf[c]][d]], RunningContainers)
           b == JobLoad(JobsOf(RunningContainers), d)
<1>2. a <= b /\ a \in Nat /\ b \in Nat
  BY <1>1, ContainersNeed
<1>3. b <= Budget[d] /\ Budget[d] \in Nat
  BY GateAssumption DEF BoxInv, BudgetInv
<1>4. ContainerFootprint(RunningContainers)[d] = a
  BY DEF ContainerFootprint
<1> HIDE DEF a, b
<1> QED BY <1>2, <1>3, <1>4

(* For every set of jobs and containers, every size and budget, any number  *)
(* of requests at once and of crashes, and creates, starts, pulls and       *)
(* clients that fail at any time: the containers that run fit into the box. *)
THEOREM BoxIsNeverOvercommitted ==
    ASSUME Reliable PROVE Spec => []NoOvercommit
<1>1. TypeInv /\ BoxInv => NoOvercommit
  BY BoxFits
<1> QED BY <1>1, BoxAlways, PTL

(* Whatever runs while the daemon serves is charged to the gate or about to *)
(* be removed: adoption and the tick keep the gate in step with Docker.     *)
THEOREM WhatRunsIsCharged ==
    ASSUME Reliable PROVE Spec => []RunningIsAccounted
<1>1. BoxInv => RunningIsAccounted
  BY DEF BoxInv
<1> QED BY <1>1, BoxAlways, PTL
-----------------------------------------------------------------------------
(* The daemon implements Host.  A step changes the life of one container at *)
(* most: it removes or ends it, or starts it in a box that holds it.        *)
lives == [c \in Cids |-> Life(c)]

LEMMA HostInit == Init => Box!Init
BY DEF Init, Box!Init, Life

LEMMA LifeIs ==
    ASSUME TypeInv
    PROVE  \A c \in Cids :
              /\ docker[c] \in ContainerStates
              /\ lives[c] = IF docker[c] \in {"unborn", "created"} THEN "fresh"
                            ELSE IF docker[c] = "running" THEN "running" ELSE "over"
BY DEF TypeInv, TypeOK, ContainerStates, lives, Life

LEMMA LifeBegins ==
    ASSUME TypeInv, TypeInv', NoOvercommit', NEW c \in Cids, docker[c] = "created",
           docker' = [docker EXCEPT ![c] = "running"]
    PROVE  Box!Begin(c)
<1>1. docker'[c] = "running" /\ \A e \in Cids \ {c} : docker'[e] = docker[e]
  BY DEF TypeInv, TypeOK
<1>2. lives[c] = "fresh" /\ lives' = [lives EXCEPT ![c] = "running"]
  <2>1. lives[c] = "fresh" /\ Life(c)' = "running"
    BY <1>1, LifeIs DEF Life
  <2>2. \A e \in Cids \ {c} : Life(e)' = Life(e)
    BY <1>1 DEF Life
  <2> QED BY <2>1, <2>2 DEF lives
<1>3. RunningContainers' = Box!Working \cup {c}
  <2>1. Box!Working = RunningContainers
    BY LifeIs DEF Box!Working, RunningContainers, lives
  <2> QED BY <1>1, <2>1 DEF RunningContainers
<1>4. Box!Fits(Box!Working \cup {c})
  <2>1. PICK cs : cs = Box!Working \cup {c}
    OBVIOUS
  <2>2. cs = RunningContainers' /\ cs \subseteq Cids
    BY <1>3, <2>1 DEF RunningContainers
  <2>3. \A d \in Dims : Load([e \in Cids |-> Size[JobOf[e]][d]], cs) <= Budget[d]
    BY <2>2 DEF NoOvercommit, FitsWithin, ContainerFootprint
  <2>4. ASSUME NEW d \in Dims
        PROVE  Cardinality(UNION {{e} \X (1..[x \in Cids |-> Size[JobOf[x]]][e][d]) : e \in cs})
                 = Load([e \in Cids |-> Size[JobOf[e]][d]], cs)
    <3>1. \A e \in cs : [x \in Cids |-> Size[JobOf[x]]][e][d] = [x \in Cids |-> Size[JobOf[x]][d]][e]
      BY <2>2
    <3>2. {{e} \X (1..[x \in Cids |-> Size[JobOf[x]]][e][d]) : e \in cs}
            = {{e} \X (1..[x \in Cids |-> Size[JobOf[x]][d]][e]) : e \in cs}
      BY <3>1, Zenon
    <3> QED BY <3>2, Zenon DEF Load
  <2>5. \A S : Box!Cardinality(S) = Cardinality(S)
    BY Zenon DEF Box!Cardinality, Cardinality
  <2>6. Box!Fits(cs)
    <3>1. ASSUME NEW d \in Dims
          PROVE  Cardinality(UNION {{e} \X (1..[x \in Cids |-> Size[JobOf[x]]][e][d]) : e \in cs})
                   <= Budget[d]
      <4>1. Load([e \in Cids |-> Size[JobOf[e]][d]], cs) <= Budget[d]
        BY <2>3
      <4> QED BY <4>1, <2>4, Zenon
    <3> QED BY <3>1, <2>5, Zenon DEF Box!Fits
  <2> QED BY <2>1, <2>6
<1> QED BY <1>2, <1>4 DEF Box!Begin, lives

LEMMA LifeEnds ==
    ASSUME TypeInv, TypeInv', NEW c \in Cids, Born(c),
           \/ docker' = [docker EXCEPT ![c] = "gone"]
           \/ (docker[c] = "running" /\ docker' = [docker EXCEPT ![c] = "exited"])
    PROVE  Box!End(c) \/ lives' = lives
<1>1. docker'[c] \in {"gone", "exited"} /\ \A e \in Cids \ {c} : docker'[e] = docker[e]
  BY DEF TypeInv, TypeOK
<1>2. Life(c)' = "over" /\ \A e \in Cids \ {c} : Life(e)' = Life(e)
  BY <1>1 DEF Life
<1>3. CASE docker[c] \in {"exited", "gone"}
  <2>1. Life(c) = "over"
    BY <1>3 DEF Life
  <2> QED BY <1>2, <2>1 DEF lives
<1>4. CASE docker[c] \in {"created", "running"}
  <2>1. Life(c) \in {"fresh", "running"}
    BY <1>4 DEF Life
  <2>2. lives' = [lives EXCEPT ![c] = "over"]
    BY <1>2 DEF lives
  <2> QED BY <2>1, <2>2 DEF Box!End, lives
<1>5. docker[c] \in {"created", "running", "exited", "gone"}
  BY DEF TypeInv, TypeOK, ContainerStates, Born
<1> QED BY <1>3, <1>4, <1>5

LEMMA LifeStays == docker' = docker => lives' = lives
BY DEF lives, Life

LEMMA HostNext ==
    ASSUME Reliable, TypeInv, TypeInv', BoxInv, NoOvercommit', [Next]_vars
    PROVE  Box!Next \/ lives' = lives
<1>1. ASSUME NEW c \in Cids, Born(c), docker' = Removed(c) PROVE Box!Next \/ lives' = lives
  <2>1. docker' = [docker EXCEPT ![c] = "gone"]
    BY <1>1 DEF Removed
  <2>2. Box!End(c) \/ lives' = lives
    BY <1>1, <2>1, LifeEnds
  <2> QED BY <2>2 DEF Box!Next
<1>2. ASSUME NEW t \in Tasks, Request(t) \/ TaskStep(t) \/ DestroyDisconnected(t)
      PROVE  Box!Next \/ lives' = lives
  <2>1. task[t].pc \in HoldsContainer => task[t].cid \in Cids /\ Born(task[t].cid)
    BY TaskFacts DEF TypeInv, BoxInv, MakeInv, MakeOK
  <2>2. \A c \in task[t].left : c \in Cids /\ Born(c)
    BY TaskFacts DEF TypeInv, BoxInv, MakeInv, MakeOK, TaskRecords
  <2>3. CASE docker' = docker
    BY <2>3, LifeStays
  <2>4. CASE CreateDiscards(t)
    BY <2>4, <2>1, <1>1, Removes DEF CreateDiscards, HoldsContainer
  <2>5. CASE DestroyRemoves(t)
    BY <2>5, <2>1, <2>3, <1>1 DEF DestroyRemoves, HoldsContainer
  <2>6. CASE ReapRemovesKnown(t)
    BY <2>6, <2>1, <2>3, <1>1 DEF ReapRemovesKnown, HoldsContainer
  <2>7. ASSUME NEW c \in Cids, ReapRemovesListed(t, c) PROVE Box!Next \/ lives' = lives
    BY <2>7, <2>2, <2>3, <1>1 DEF ReapRemovesListed
  <2>8. ASSUME NEW c \in Cids, DockerCreates(t, c) PROVE lives' = lives
    <3>1. docker[c] = "unborn" /\ docker'[c] = "created" /\ \A e \in Cids \ {c} : docker'[e] = docker[e]
      BY <2>8 DEF DockerCreates, TypeInv, TypeOK
    <3>2. \A e \in Cids : Life(e)' = Life(e)
      BY <3>1 DEF Life
    <3> QED BY <3>2 DEF lives
  <2>9. \/ docker' = docker \/ CreateDiscards(t) \/ DestroyRemoves(t) \/ ReapRemovesKnown(t)
        \/ \E c \in Cids : ReapRemovesListed(t, c) \/ DockerCreates(t, c)
    <3>1. CASE Request(t) \/ DestroyDisconnected(t)
      BY <3>1 DEF Request, DestroyDisconnected, CreateJob, ReapJob, DestroyJob, world
    <3>2. CASE CreateStep(t)
      BY <3>2 DEF CreateStep, CreateClaims, CreateFails, CreateFinishes, RememberCreated,
                  AbandonUntracked, world
    <3>3. CASE DestroyStep(t)
      BY <3>3 DEF DestroyStep, DestroyForgets, world
    <3>4. CASE ReapStep(t)
      BY <3>4 DEF ReapStep, ReapLists, ReapSettles, world
    <3>5. CASE ReleaseStep(t)
      BY <3>5 DEF ReleaseStep, ReleaseGate, ReleaseQueue, ReleaseCreated, world
    <3> QED BY <1>2, <3>1, <3>2, <3>3, <3>4, <3>5 DEF TaskStep
  <2> QED BY <2>3, <2>4, <2>5, <2>6, <2>7, <2>8, <2>9
<1>3. CASE TickStep
  <2>1. CASE TickStarts
    <3>1. PICK c : c = start[1].cid
      OBVIOUS
    <3>2. start # <<>> /\ c = Head(start).cid /\ tick = "act"
      BY <2>1, <3>1, StartsAre DEF TickStarts
    <3>3. c \in Cids /\ docker[c] \in {"created", "gone"}
      BY <3>1, <3>2, HeadIs
    <3>4. CASE docker' = docker
      BY <3>4, LifeStays
    <3>5. CASE docker[c] = "created" /\ docker' = [docker EXCEPT ![c] = "running"]
      BY <3>3, <3>5, LifeBegins DEF Box!Next
    <3> QED BY <2>1, <3>2, <3>3, <3>4, <3>5 DEF TickStarts
  <2>2. ASSUME NEW c \in Cids, TickRemoves(c) PROVE Box!Next \/ lives' = lives
    <3>1. Born(c) /\ docker' = Removed(c)
      BY <2>2, Removes DEF TickRemoves, BoxInv, SnapInv
    <3> QED BY <3>1, <1>1
  <2>3. CASE docker' = docker
    BY <2>3, LifeStays
  <2> QED BY <1>3, <2>1, <2>2, <2>3 DEF TickStep, TickLists, TickReconciles, TickEnds, TickUnstarts,
                                        TickRequeues, TickReleasesVanished, world
<1>4. CASE StartUpStep
  <2>1. ASSUME NEW c \in Cids, AdoptRemoves(c) PROVE Box!Next \/ lives' = lives
    <3>1. Born(c) /\ docker' = Removed(c)
      BY <2>1, Removes DEF AdoptRemoves, BoxInv, SnapInv
    <3> QED BY <3>1, <1>1
  <2>2. CASE docker' = docker
    BY <2>2, LifeStays
  <2> QED BY <1>4, <2>1, <2>2 DEF StartUpStep, StartUp, AdoptReadsClock, PullBinds, PullFails,
             PullGivesUp, AdoptInspects, AdoptResumes, AdoptRequeues, AdoptDooms, world
<1>5. CASE Environment
  <2>1. ASSUME NEW c \in Cids, ContainerExits(c) PROVE Box!Next \/ lives' = lives
    BY <2>1, LifeEnds DEF ContainerExits, Born, Box!Next
  <2>2. CASE docker' = docker
    BY <2>2, LifeStays
  <2> QED BY <1>5, <2>1, <2>2 DEF Environment, Crash, ImageLost, ImageRefreshed, DeadlinePasses,
             TombstoneAges, world
<1>6. CASE UNCHANGED vars
  BY <1>6, LifeStays DEF vars, world
<1> QED BY <1>2, <1>3, <1>4, <1>5, <1>6 DEF Next

(* Refinement: a container starts at most once, whatever crashes, and only  *)
(* when it fits beside all that run at that moment.                         *)
THEOREM DaemonImplementsHost ==
    ASSUME Reliable PROVE Spec => ImplementsHost
<1>1. Init => Box!Init
  BY HostInit
<1>2. TypeInv /\ BoxInv => NoOvercommit
  BY BoxFits
<1>3. TypeInv /\ TypeInv' /\ BoxInv /\ NoOvercommit' /\ [Next]_vars => [Box!Next]_lives
  BY HostNext
<1> QED BY <1>1, <1>2, <1>3, BoxAlways, PTL DEF Spec, ImplementsHost, Box!Spec, lives

-----------------------------------------------------------------------------
(* The daemon's books: the gate, the start queue and the created map agree  *)
(* on who holds a slot, and no container is removed or forgotten by mistake. *)

(* A request that has still to finish creating or to release j.             *)
PendingPc == {"begin", "creating", "failed", "finish", "discard", "record", "rel_gate"}
Pending(j) == \E t \in Tasks : task[t].job = j /\ task[t].pc \in PendingPc

(* A reap came before the delivery: its tombstone refuses the create.       *)
Futile(j) ==
    /\ registry[j] = Reaped /\ Unborn(j) /\ Unstarted(j)
    /\ \A t \in Tasks : Making(task[t]) /\ task[t].job = j => task[t].pc = "begin"

(* What a release has let go is not admitted again before it has finished.  *)
Letting ==
    \A t \in Tasks : task[t].pc \in InRelease => Lost(task[t].job) \/ Futile(task[t].job)

(* What is to be started and still admitted has its container on record.    *)
Linked ==
    /\ \A j \in Jobs : InQueue(j) /\ Tracks(gate, j) => created[j] # NoCid
    /\ \A i \in 1..Len(start) : Tracks(gate, start[i].job) => created[start[i].job] # NoCid

Requeued(j) == tick = "requeue" /\ start[1].job = j
SlotInv == \A j \in Jobs : gate[j] = "queued" => InQueue(j) \/ Pending(j) \/ Requeued(j)
RecordInv ==
    \A j \in Jobs : CreatedGhost(j) /\ (Tracks(gate, j) => created[j] # NoCid \/ Pending(j))

(* A job that counts as running has been started, or will be by this tick,  *)
(* which only gives up what is gone.                                        *)
RunsOnce ==
    \A c \in Cids : docker[c] = "created" =>
        /\ gate[JobOf[c]] = "running" => \E i \in 1..Len(start) : start[i].cid = c
        /\ tick = "vanish" => start[1].cid # c

(* What was seen to run or to have ended has not been undone since.         *)
SeenInv ==
    /\ \A c \in Cids : /\ snap[c] = "exited" => docker[c] \in {"exited", "gone"}
                       /\ snap[c] = "running" => docker[c] \in {"running", "exited", "gone"}
    /\ phase = "serving" => todo = {}
    /\ phase = "serving" /\ tick # "reconcile" => snap = Unseen
    /\ now \subseteq expired

(* Whoever is responsible for a container that has not been started.        *)
Holds(r, c) ==
    /\ r.cid = c /\ r.job = JobOf[c]
    /\ r.pc \in {"finish", "discard", "record", "abandon"} \/ (r.pc = "remove" /\ ~r.rel)
Booked(c) == created[JobOf[c]] = c /\ Tracks(gate, JobOf[c])
Owned ==
    "create_lost" \notin Faults =>
        \A c \in Cids : docker[c] = "created" =>
            \/ phase = "down" \/ (phase = "inspecting" /\ snap[c] # "unseen")
            \/ c \in todo \cup remove \/ Booked(c)
            \/ \E t \in Tasks : Holds(task[t], c)

LedgerInv ==
    /\ Letting /\ Linked /\ SlotInv /\ RecordInv
    /\ RunsOnce /\ SeenInv /\ NoInnocentRemoval /\ Owned

-----------------------------------------------------------------------------
(* What a step hands on.                                                     *)

Placed(c) ==
    \/ phase = "down" \/ (phase = "inspecting" /\ snap[c] # "unseen")
    \/ c \in todo \cup remove \/ Booked(c)

(* A request that becomes n where it was r, and drops no obligation.        *)
HandsOn(r, n) ==
    /\ r.pc \in InRelease \/ n.pc \in InRelease =>
          r.pc \in InRelease /\ n.pc \in InRelease /\ n.job = r.job
    /\ r.pc \in PendingPc /\ Tracks(gate, r.job) => n.pc \in PendingPc /\ n.job = r.job
    /\ Making(n) /\ n.pc # "begin" =>
          Making(r) /\ n.job = r.job /\ (r.pc = "begin" => registry[r.job] # Reaped)
    /\ \A c \in Cids : docker'[c] = "created" /\ Holds(r, c) => Holds(n, c)
RequestsHandOn == \A u \in Tasks : HandsOn(task[u], task'[u])

LEMMA NobodyMoves == task' = task => RequestsHandOn
<1> SUFFICES ASSUME task' = task, NEW u \in Tasks PROVE HandsOn(task[u], task[u])
  BY DEF RequestsHandOn
<1> QED BY DEF HandsOn

LEMMA LettingKept ==
    ASSUME TypeInv, Letting, RequestsHandOn,
           \A j \in Jobs : Lost(j) => Lost(j)',
           \A j \in Jobs : Futile(j) /\ (\E t \in Tasks : task[t].job = j /\ task[t].pc \in InRelease)
                           => registry'[j] = Reaped /\ Unborn(j)' /\ Unstarted(j)'
    PROVE  Letting'
<1> SUFFICES ASSUME NEW t \in Tasks, task'[t].pc \in InRelease,
                    NEW k, k = task'[t].job
             PROVE  Lost(k)' \/ Futile(k)'
  BY DEF Letting
<1>1. task[t].pc \in InRelease /\ task[t].job = k
  BY DEF RequestsHandOn, HandsOn
<1>2. k \in Jobs
  BY <1>1, TaskFacts DEF TypeInv, InRelease
<1>3. CASE Lost(k)
  BY <1>2, <1>3
<1>4. CASE Futile(k)
  <2>1. registry'[k] = Reaped /\ Unborn(k)' /\ Unstarted(k)'
    BY <1>1, <1>2, <1>4
  <2>2. ASSUME NEW u \in Tasks, Making(task'[u]), task'[u].job = k PROVE task'[u].pc = "begin"
    <3> SUFFICES ASSUME task'[u].pc # "begin" PROVE FALSE
      OBVIOUS
    <3>1. /\ Making(task[u]) /\ task'[u].job = task[u].job
          /\ task[u].pc = "begin" => registry[task[u].job] # Reaped
      BY <2>2 DEF RequestsHandOn, HandsOn
    <3> QED BY <2>2, <3>1, <1>4 DEF Futile
  <2> QED BY <2>1, <2>2 DEF Futile, Making
<1> QED BY <1>1, <1>3, <1>4 DEF Letting

LEMMA PendingKept ==
    ASSUME RequestsHandOn
    PROVE  \A j \in Jobs : /\ Pending(j) /\ Tracks(gate, j) => Pending(j)'
                           /\ (\E t \in Tasks : task[t].job = j /\ task[t].pc \in InRelease) =>
                              (\E t \in Tasks : task'[t].job = j /\ task'[t].pc \in InRelease)
BY DEF RequestsHandOn, HandsOn, Pending

LEMMA BooksKept ==
    ASSUME TypeInv, SlotInv, RecordInv, RequestsHandOn,
           \A j \in Jobs :
              /\ gate'[j] = "queued" =>
                    \/ InQueue(j)' \/ Requeued(j)' \/ Pending(j)'
                    \/ gate[j] = "queued" /\ ~InQueue(j) /\ ~Requeued(j)
              /\ Tracks(gate', j) =>
                    \/ created'[j] # NoCid \/ Pending(j)'
                    \/ Tracks(gate, j) /\ created[j] = NoCid
              /\ created'[j] # NoCid /\ ~Tracks(gate', j) =>
                    created[j] # NoCid /\ ~Tracks(gate, j)
    PROVE  SlotInv' /\ RecordInv'
<1>1. SlotInv'
  BY PendingKept DEF SlotInv, Tracks
<1>2. ASSUME NEW j \in Jobs PROVE CreatedGhost(j)'
  BY PendingKept DEF RecordInv, CreatedGhost
<1>3. ASSUME NEW j \in Jobs, Tracks(gate', j) PROVE created'[j] # NoCid \/ Pending(j)'
  BY <1>3, PendingKept DEF RecordInv
<1> QED BY <1>1, <1>2, <1>3 DEF RecordInv

LEMMA OwnedKept ==
    ASSUME Owned, RequestsHandOn,
           "create_lost" \notin Faults => \A c \in Cids : docker'[c] = "created" =>
              \/ Placed(c)' \/ (\E t \in Tasks : Holds(task'[t], c))
              \/ docker[c] = "created" /\ ~Placed(c)
    PROVE  Owned'
<1> SUFFICES ASSUME "create_lost" \notin Faults, NEW c \in Cids, docker'[c] = "created", ~Placed(c)',
                    ~\E t \in Tasks : Holds(task'[t], c)
             PROVE  \E t \in Tasks : Holds(task'[t], c)
  BY DEF Owned, Placed, Holds
<1>1. docker[c] = "created" /\ ~Placed(c)
  OBVIOUS
<1>2. PICK t \in Tasks : Holds(task[t], c)
  BY <1>1 DEF Owned, Placed
<1> QED BY <1>2 DEF RequestsHandOn, HandsOn

(* A step that leaves the books alone: a container is removed or exits.     *)
LEMMA QuietKeeps ==
    ASSUME TypeInv, TypeInv', BoxInv, LedgerInv, BooksSame, now' = now, expired \subseteq expired',
           DockerFalls, RegistryMoves, RequestsHandOn
    PROVE  LedgerInv'
<1> USE DEF BooksSame, LedgerInv
<1>1. Letting'
  <2>1. \A j \in Jobs : Lost(j) => Lost(j)'
    BY DEF Lost, Tracks
  <2>2. ASSUME NEW j \in Jobs, Unborn(j), Unstarted(j), registry[j] = Reaped
        PROVE  registry'[j] = Reaped /\ Unborn(j)' /\ Unstarted(j)'
    <3>1. Unborn(j)' /\ Unstarted(j)'
      BY <2>2, FallsKeepJobs DEF KeepsUnborn, KeepsJobs, KeepsJob
    <3> QED BY <2>2, <3>1 DEF RegistryMoves, Unborn
  <2> QED BY <2>1, <2>2, LettingKept DEF Futile
<1>2. Linked'
  BY DEF Linked, InQueue, Tracks
<1>3. SlotInv' /\ RecordInv'
  <2>1. \A j \in Jobs : Requeued(j)' = Requeued(j) /\ InQueue(j)' = InQueue(j)
    BY DEF Requeued, InQueue
  <2>2. \A j \in Jobs : Pending(j) /\ Tracks(gate, j) => Pending(j)'
    BY PendingKept
  <2> QED BY <2>1, <2>2, BooksKept DEF SlotInv, RecordInv, Tracks
<1>4. RunsOnce'
  BY DEF RunsOnce, DockerFalls
<1>5. SeenInv'
  BY DEF SeenInv, DockerFalls
<1>6. NoInnocentRemoval'
  <2>1. \A c \in remove : c \in Cids
    BY DEF TypeInv, TypeOK
  <2> QED BY <2>1 DEF NoInnocentRemoval, DockerFalls
<1>7. Owned'
  <2>1. \A c \in Cids : docker'[c] = "created" => docker[c] = "created"
    BY DEF DockerFalls
  <2>2. \A c \in Cids : Placed(c) => Placed(c)'
    BY DEF Placed, Booked
  <2> QED BY <2>1, <2>2, OwnedKept
<1> QED BY <1>1, <1>2, <1>3, <1>4, <1>5, <1>6, <1>7

-----------------------------------------------------------------------------
(* Requests that leave the books alone.                                      *)

LEMMA OneHandsOn ==
    ASSUME TypeInv, NEW t \in Tasks, NEW n, task' = [task EXCEPT ![t] = n], HandsOn(task[t], n)
    PROVE  RequestsHandOn
<1>1. task'[t] = n /\ \A u \in Tasks \ {t} : task'[u] = task[u]
  BY DEF TypeInv, TypeOK
<1>2. \A u \in Tasks : HandsOn(task[u], task[u])
  BY DEF HandsOn
<1>3. ASSUME NEW u \in Tasks PROVE HandsOn(task[u], task'[u])
  <2>1. CASE u = t
    BY <1>1, <2>1
  <2>2. CASE u # t
    BY <1>1, <1>2, <2>2
  <2> QED BY <2>1, <2>2
<1> QED BY <1>3 DEF RequestsHandOn

(* A tombstone outlasts a step, or has a container that is gone.            *)
TombstonesStay ==
    \A j \in Jobs : registry[j] = Reaped =>
        registry'[j] = Reaped \/ \E c \in Own(j) : docker'[c] = "gone"
Frame == BooksSame /\ now' = now /\ expired' = expired

LEMMA RequestKeeps ==
    ASSUME TypeInv, TypeInv', BoxInv, BoxInv', LedgerInv, Frame, DockerFalls, TombstonesStay,
           NEW t \in Tasks, NEW n, task' = [task EXCEPT ![t] = n], HandsOn(task[t], n)
    PROVE  LedgerInv'
<1>1. RequestsHandOn
  BY OneHandsOn
<1>2. RegistryMoves
  BY DEF TombstonesStay, RegistryMoves, BoxInv, MemoryInv, Born
<1> QED BY <1>1, <1>2, QuietKeeps DEF Frame

LEMMA MovesTo ==
    ASSUME TypeInv, NEW t \in Tasks, NEW r, r = task[t], NEW pc \in TaskPcs, Goto(t, pc)
    PROVE  \E n \in TaskRecords :
              /\ task' = [task EXCEPT ![t] = n] /\ n.pc = pc /\ n.job = r.job /\ n.cid = r.cid
              /\ n.left = r.left /\ n.rel = r.rel
<1>1. task[t] \in TaskRecords
  BY DEF TypeInv, TypeOK
<1>2. PICK n : n = [task[t] EXCEPT !.pc = pc]
  OBVIOUS
<1>3. /\ n \in TaskRecords /\ n.pc = pc /\ n.job = task[t].job /\ n.cid = task[t].cid
      /\ n.left = task[t].left /\ n.rel = task[t].rel
  BY <1>1, <1>2 DEF TaskRecords
<1>4. task' = [task EXCEPT ![t] = n]
  BY <1>2 DEF Goto
<1> QED BY <1>3, <1>4

LEMMA EndsAs ==
    ASSUME NEW t \in Tasks, Done(t)
    PROVE  \E n : task' = [task EXCEPT ![t] = n] /\ n.pc = "idle" /\ ~Making(n) /\ n = Idle
BY DEF Done, Idle, Making

LEMMA ClaimsLedger ==
    ASSUME TypeInv, TypeInv', BoxInv, BoxInv', LedgerInv, NEW t \in Tasks, CreateClaims(t)
    PROVE  LedgerInv'
<1>1. PICK r : r = task[t]
  OBVIOUS
<1>2. /\ r.pc = "begin" /\ registry' = BeginCreate(registry, r.job) /\ docker' = docker
      /\ Goto(t, IF BeginOutcome(registry, r.job) = "Proceed" THEN "creating" ELSE "rel_gate")
  BY <1>1 DEF CreateClaims, world
<1>3. Frame /\ DockerFalls
  BY SameWorldFalls DEF Frame, BooksSame, CreateClaims, startup, ticker, world, bounds
<1>4. r.job \in Jobs
  BY <1>1, <1>2, Busy
<1>5. TombstonesStay
  BY <1>2, <1>4, RegistryShape DEF TombstonesStay, BeginCreate, Prune
<1>6. registry[r.job] = Reaped => BeginOutcome(registry, r.job) # "Proceed"
  BY <1>4, RegistryShape DEF BeginOutcome, Prune
<1>7. CASE BeginOutcome(registry, r.job) = "Proceed"
  <2>1. PICK n \in TaskRecords : task' = [task EXCEPT ![t] = n] /\ n.pc = "creating" /\ n.job = r.job
    <3>1. Goto(t, "creating") /\ "creating" \in TaskPcs
      BY <1>2, <1>7 DEF TaskPcs
    <3> QED BY <1>1, <3>1, MovesTo
  <2>2. HandsOn(r, n)
    BY <1>2, <1>6, <1>7, <2>1 DEF HandsOn, InRelease, PendingPc, Making, Holds
  <2> QED BY <1>1, <1>3, <1>5, <2>1, <2>2, RequestKeeps
<1>8. CASE BeginOutcome(registry, r.job) # "Proceed"
  <2>1. PICK n \in TaskRecords : task' = [task EXCEPT ![t] = n] /\ n.pc = "rel_gate" /\ n.job = r.job
    <3>1. Goto(t, "rel_gate") /\ "rel_gate" \in TaskPcs
      BY <1>2, <1>8 DEF TaskPcs
    <3> QED BY <1>1, <3>1, MovesTo
  <2>2. HandsOn(r, n)
    BY <1>2, <2>1 DEF HandsOn, InRelease, PendingPc, Making, Holds
  <2> QED BY <1>1, <1>3, <1>5, <2>1, <2>2, RequestKeeps
<1> QED BY <1>7, <1>8

LEMMA FailsLedger ==
    ASSUME TypeInv, TypeInv', BoxInv, BoxInv', LedgerInv, NEW t \in Tasks, CreateFails(t)
    PROVE  LedgerInv'
<1>1. PICK r : r = task[t]
  OBVIOUS
<1>2. /\ r.pc \in {"failed", "creating"} /\ registry' = AbandonCreate(registry, r.job)
      /\ Goto(t, "rel_gate")
  BY <1>1 DEF CreateFails
<1>3. Frame /\ DockerFalls
  BY SameWorldFalls DEF Frame, BooksSame, CreateFails, startup, ticker, world, bounds
<1>4. r.job \in Jobs
  BY <1>1, <1>2, Busy
<1>5. TombstonesStay
  BY <1>2, <1>4, RegistryShape DEF TombstonesStay, AbandonCreate, IsTombstone
<1>6. PICK n \in TaskRecords : task' = [task EXCEPT ![t] = n] /\ n.pc = "rel_gate" /\ n.job = r.job
  <2>1. "rel_gate" \in TaskPcs
    BY DEF TaskPcs
  <2> QED BY <1>1, <1>2, <2>1, MovesTo
<1>7. HandsOn(r, n)
  BY <1>2, <1>6 DEF HandsOn, InRelease, PendingPc, Making, Holds
<1> QED BY <1>1, <1>3, <1>5, <1>6, <1>7, RequestKeeps

LEMMA FinishesLedger ==
    ASSUME TypeInv, TypeInv', BoxInv, BoxInv', LedgerInv, NEW t \in Tasks, CreateFinishes(t)
    PROVE  LedgerInv'
<1>1. PICK r : r = task[t]
  OBVIOUS
<1>2. PICK pc \in {"record", "discard"} : Goto(t, pc)
  BY DEF CreateFinishes
<1>3. /\ r.pc = "finish" /\ registry' = FinishCreate(registry, r.job, r.cid)
  BY <1>1 DEF CreateFinishes
<1>4. Frame /\ DockerFalls
  BY SameWorldFalls DEF Frame, BooksSame, CreateFinishes, startup, ticker, world, bounds
<1>5. r.job \in Jobs
  BY <1>1, <1>3, Busy
<1>6. TombstonesStay
  BY <1>3, <1>5, RegistryShape DEF TombstonesStay, FinishCreate, IsTombstone
<1>7. PICK n \in TaskRecords : /\ task' = [task EXCEPT ![t] = n] /\ n.pc = pc /\ n.job = r.job
                               /\ n.cid = r.cid
  <2>1. pc \in TaskPcs
    BY DEF TaskPcs
  <2> QED BY <1>1, <1>2, <2>1, MovesTo
<1>8. HandsOn(r, n)
  BY <1>3, <1>7 DEF HandsOn, InRelease, PendingPc, Making, Holds
<1> QED BY <1>1, <1>4, <1>6, <1>7, <1>8, RequestKeeps

LEMMA DiscardsLedger ==
    ASSUME TypeInv, TypeInv', BoxInv, BoxInv', LedgerInv, Reliable, NEW t \in Tasks, CreateDiscards(t)
    PROVE  LedgerInv'
<1>1. PICK r : r = task[t]
  OBVIOUS
<1>2. PICK c : c = r.cid
  OBVIOUS
<1>3. r.pc = "discard" /\ Goto(t, "rel_gate") /\ ForceRemove(c) /\ registry' = registry
  BY <1>1, <1>2 DEF CreateDiscards, memory
<1>4. c \in Cids /\ Born(c)
  BY <1>1, <1>2, <1>3, TaskFacts DEF BoxInv, MakeInv, MakeOK, HoldsContainer, TypeInv
<1>5. docker' = Removed(c)
  BY <1>3, Removes
<1>6. DockerFalls /\ docker'[c] = "gone"
  BY <1>4, <1>5, RemovedFalls DEF Removed, TypeInv, TypeOK
<1>7. Frame
  BY DEF Frame, BooksSame, CreateDiscards, memory, startup, ticker, bounds
<1>8. TombstonesStay
  BY <1>3 DEF TombstonesStay
<1>9. PICK n \in TaskRecords : task' = [task EXCEPT ![t] = n] /\ n.pc = "rel_gate" /\ n.job = r.job
  <2>1. "rel_gate" \in TaskPcs
    BY DEF TaskPcs
  <2> QED BY <1>1, <1>3, <2>1, MovesTo
<1>10. HandsOn(r, n)
  BY <1>2, <1>3, <1>6, <1>9 DEF HandsOn, InRelease, PendingPc, Making, Holds
<1> QED BY <1>1, <1>6, <1>7, <1>8, <1>9, <1>10, RequestKeeps

(* A request that holds nothing afterwards, and claims nothing.             *)
LEMMA LetsGo ==
    ASSUME TypeInv, TypeInv', BoxInv, BoxInv', LedgerInv, Frame, DockerFalls, TombstonesStay,
           NEW t \in Tasks, NEW n, task' = [task EXCEPT ![t] = n],
           task[t].pc \notin InRelease, n.pc \notin InRelease, ~Making(n),
           task[t].pc \in PendingPc /\ Tracks(gate, task[t].job) =>
               n.pc \in PendingPc /\ n.job = task[t].job,
           \A c \in Cids : docker'[c] = "created" /\ Holds(task[t], c) => Holds(n, c)
    PROVE  LedgerInv'
<1>1. HandsOn(task[t], n)
  BY DEF HandsOn
<1> QED BY <1>1, RequestKeeps

LEMMA AsideLedger ==
    ASSUME TypeInv, TypeInv', BoxInv, BoxInv', LedgerInv, NEW t \in Tasks, RememberCreated(t),
           ~Tracks(gate, task[t].job)
    PROVE  LedgerInv'
<1>1. PICK r : r = task[t]
  OBVIOUS
<1>2. r.pc = "record" /\ Goto(t, "abandon") /\ registry' = registry /\ ~Tracks(gate, r.job)
  BY <1>1 DEF RememberCreated
<1>3. Frame /\ DockerFalls /\ TombstonesStay
  BY <1>2, SameWorldFalls
     DEF Frame, BooksSame, RememberCreated, startup, ticker, world, bounds, TombstonesStay
<1>4. PICK n \in TaskRecords : /\ task' = [task EXCEPT ![t] = n] /\ n.pc = "abandon"
                               /\ n.cid = r.cid /\ n.job = r.job
  <2>1. "abandon" \in TaskPcs
    BY DEF TaskPcs
  <2> QED BY <1>1, <1>2, <2>1, MovesTo
<1>5. n.pc \notin InRelease /\ ~Making(n) /\ r.pc \notin InRelease
  BY <1>2, <1>4 DEF InRelease, Making
<1>6. \A c \in Cids : Holds(r, c) => Holds(n, c)
  BY <1>2, <1>4 DEF Holds
<1> QED BY <1>1, <1>2, <1>3, <1>4, <1>5, <1>6, LetsGo

LEMMA InspectLedger ==
    ASSUME TypeInv, TypeInv', BoxInv, BoxInv', LedgerInv, Reliable,
           NEW t \in Tasks, NEW c \in Cids, NEW rel \in BOOLEAN, DestroyInspects(t, c, rel),
           UNCHANGED <<memory, startup, ticker, world, bounds>>,
           task[t] = Idle \/ (task[t].pc = "abandon" /\ task[t].cid = c /\ ~rel)
    PROVE  LedgerInv'
<1>1. PICK r : r = task[t]
  OBVIOUS
<1>2. docker' = docker /\ registry' = registry
  BY DEF memory, world
<1>3. Frame /\ DockerFalls /\ TombstonesStay
  BY <1>2, SameWorldFalls
     DEF Frame, BooksSame, memory, startup, ticker, world, bounds, TombstonesStay
<1>4. /\ r.pc \in {"idle", "abandon"} /\ r.pc \notin InRelease /\ r.pc \notin PendingPc
      /\ \A e \in Cids : Holds(r, e) => e = c /\ r.pc = "abandon" /\ ~rel
  BY <1>1 DEF Idle, InRelease, PendingPc, Holds
<1>5. CASE Done(t) /\ (docker[c] \in {"unborn", "gone"})
  <2>1. PICK n : task' = [task EXCEPT ![t] = n] /\ n.pc = "idle" /\ ~Making(n)
    BY <1>5, EndsAs
  <2>2. n.pc \notin InRelease
    BY <2>1 DEF InRelease
  <2>3. \A e \in Cids : docker'[e] = "created" => ~Holds(r, e)
    BY <1>2, <1>4, <1>5
  <2> QED BY <1>1, <1>3, <1>4, <2>1, <2>2, <2>3, LetsGo
<1>6. CASE task' = [task EXCEPT ![t] = [Idle EXCEPT !.pc = "remove", !.job = JobOf[c],
                                                    !.cid = c, !.rel = rel]]
  <2>1. PICK n : n = [Idle EXCEPT !.pc = "remove", !.job = JobOf[c], !.cid = c, !.rel = rel]
    OBVIOUS
  <2>2. n.pc = "remove" /\ n.cid = c /\ n.rel = rel /\ n.job = JobOf[c]
    BY <2>1 DEF Idle
  <2>3. n.pc \notin InRelease /\ ~Making(n) /\ task' = [task EXCEPT ![t] = n]
    BY <1>6, <2>1, <2>2 DEF InRelease, Making
  <2>4. \A e \in Cids : Holds(r, e) => Holds(n, e)
    BY <1>4, <2>2 DEF Holds
  <2> QED BY <1>1, <1>3, <1>4, <2>3, <2>4, LetsGo
<1>7. "inspect" \notin Faults
  BY DEF Reliable, Misreports
<1> QED BY <1>5, <1>6, <1>7 DEF DestroyInspects

LEMMA DestroyLedger ==
    ASSUME TypeInv, TypeInv', BoxInv, BoxInv', LedgerInv, Reliable, NEW t \in Tasks,
           AbandonUntracked(t) \/ \E c \in Cids : DestroyJob(t, c)
    PROVE  LedgerInv'
<1>1. CASE AbandonUntracked(t)
  <2>1. task[t].pc = "abandon" /\ task[t].cid \in Cids
    BY <1>1, TaskFacts DEF AbandonUntracked, TypeInv, HoldsContainer
  <2>2. DestroyInspects(t, task[t].cid, FALSE) /\ UNCHANGED <<memory, startup, ticker, world, bounds>>
    BY <1>1 DEF AbandonUntracked
  <2> QED BY <2>1, <2>2, InspectLedger
<1>2. ASSUME NEW c \in Cids, DestroyJob(t, c) PROVE LedgerInv'
  <2>1. task[t] = Idle /\ DestroyInspects(t, c, TRUE)
        /\ UNCHANGED <<memory, startup, ticker, world, bounds>>
    BY <1>2 DEF DestroyJob
  <2> QED BY <2>1, InspectLedger
<1> QED BY <1>1, <1>2

LEMMA RemovesLedger ==
    ASSUME TypeInv, TypeInv', BoxInv, BoxInv', LedgerInv, Reliable, NEW t \in Tasks, DestroyRemoves(t)
    PROVE  LedgerInv'
<1>1. PICK r : r = task[t]
  OBVIOUS
<1>2. PICK c : c = r.cid
  OBVIOUS
<1>3. r.pc = "remove" /\ registry' = registry /\ r.pc \notin InRelease /\ r.pc \notin PendingPc
  BY <1>1 DEF DestroyRemoves, memory, InRelease, PendingPc
<1>4. c \in Cids /\ Born(c)
  BY <1>1, <1>2, <1>3, TaskFacts DEF BoxInv, MakeInv, MakeOK, HoldsContainer, TypeInv
<1>5. Frame /\ TombstonesStay
  BY <1>3 DEF Frame, BooksSame, DestroyRemoves, memory, startup, ticker, bounds, TombstonesStay
<1>6. PICK pc \in {"forget", "idle"} :
        /\ docker'[c] = "gone" /\ DockerFalls
        /\ IF pc = "forget" THEN Goto(t, "forget") ELSE Done(t)
  <2>1. CASE docker' = Removed(c) /\ Goto(t, "forget")
    BY <2>1, <1>4, RemovedFalls DEF Removed, TypeInv, TypeOK
  <2>2. CASE docker[c] = "gone" /\ docker' = docker /\ Done(t)
    BY <2>2, SameWorldFalls
  <2> QED BY <1>1, <1>2, <2>1, <2>2 DEF DestroyRemoves, Reliable, Misreports, RemovalMayFail
<1>7. PICK n : task' = [task EXCEPT ![t] = n] /\ n.pc = pc
  <2>1. CASE pc = "forget"
    <3>1. "forget" \in TaskPcs /\ Goto(t, "forget")
      BY <1>6, <2>1 DEF TaskPcs
    <3>2. \E n \in TaskRecords : task' = [task EXCEPT ![t] = n] /\ n.pc = "forget"
      BY <1>1, <3>1, MovesTo
    <3> QED BY <2>1, <3>2
  <2>2. CASE pc = "idle"
    BY <1>6, <2>2, EndsAs
  <2> QED BY <2>1, <2>2
<1>8. n.pc \notin InRelease /\ ~Making(n)
  BY <1>7 DEF InRelease, Making
<1>9. \A e \in Cids : docker'[e] = "created" => ~Holds(r, e)
  BY <1>2, <1>6 DEF Holds
<1> QED BY <1>1, <1>3, <1>5, <1>6, <1>7, <1>8, <1>9, LetsGo

LEMMA ForgetsLedger ==
    ASSUME TypeInv, TypeInv', BoxInv, BoxInv', LedgerInv, NEW t \in Tasks, DestroyForgets(t)
    PROVE  LedgerInv'
<1>1. PICK r : r = task[t]
  OBVIOUS
<1>2. PICK c : c = r.cid
  OBVIOUS
<1>3. /\ r.pc = "forget" /\ registry' = Forget(registry, r.job) /\ docker' = docker
      /\ r.pc \notin InRelease /\ r.pc \notin PendingPc /\ \A e \in Cids : ~Holds(r, e)
  BY <1>1 DEF DestroyForgets, world, InRelease, PendingPc, Holds
<1>4. c \in Own(r.job) /\ docker[c] = "gone" /\ r.job \in Jobs
  BY <1>1, <1>2, <1>3, TaskFacts DEF BoxInv, MakeInv, MakeOK, HoldsContainer, TypeInv, Own
<1>5. Frame /\ DockerFalls
  BY SameWorldFalls DEF Frame, BooksSame, DestroyForgets, startup, ticker, world, bounds
<1>6. TombstonesStay
  BY <1>3, <1>4, RegistryShape DEF TombstonesStay, Forget, ForgetAll
<1>7. PICK n : task' = [task EXCEPT ![t] = n] /\ n.pc \in {"rel_gate", "idle"}
  <2>1. CASE Goto(t, "rel_gate")
    <3>1. "rel_gate" \in TaskPcs
      BY DEF TaskPcs
    <3> QED BY <1>1, <2>1, <3>1, MovesTo
  <2>2. CASE Done(t)
    BY <2>2, EndsAs
  <2> QED BY <2>1, <2>2 DEF DestroyForgets
<1>8. n.pc \notin InRelease /\ ~Making(n)
  BY <1>7 DEF InRelease, Making
<1> QED BY <1>1, <1>3, <1>5, <1>6, <1>7, <1>8, LetsGo

LEMMA DisconnectedLedger ==
    ASSUME TypeInv, TypeInv', BoxInv, BoxInv', LedgerInv, NEW t \in Tasks, DestroyDisconnected(t)
    PROVE  LedgerInv'
<1>1. PICK r : r = task[t]
  OBVIOUS
<1>2. /\ r.pc \notin InRelease /\ r.pc \notin PendingPc /\ registry' = registry /\ Done(t)
      /\ \A e \in Cids : ~Holds(r, e)
  BY <1>1 DEF DestroyDisconnected, memory, InRelease, PendingPc, Holds
<1>3. Frame /\ DockerFalls /\ TombstonesStay
  BY <1>2, SameWorldFalls
     DEF Frame, BooksSame, DestroyDisconnected, memory, startup, ticker, world, bounds, TombstonesStay
<1>4. PICK n : task' = [task EXCEPT ![t] = n] /\ n.pc = "idle" /\ ~Making(n)
  BY <1>2, EndsAs
<1>5. n.pc \notin InRelease
  BY <1>4 DEF InRelease
<1> QED BY <1>1, <1>2, <1>3, <1>4, <1>5, LetsGo

(* A reap under way has nothing to hand on.                                 *)
LEMMA ReapsOn ==
    ASSUME TypeInv, TypeInv', BoxInv, BoxInv', LedgerInv, Frame, registry' = registry, DockerFalls,
           NEW t \in Tasks, task[t].pc \in {"reap_known", "reap_list", "reap_listed"},
           NEW n, task' = [task EXCEPT ![t] = n],
           n.pc \in {"reap_list", "reap_listed", "rel_gate", "idle"}
    PROVE  LedgerInv'
<1>1. PICK r : r = task[t]
  OBVIOUS
<1>2. r.pc \notin InRelease /\ r.pc \notin PendingPc /\ \A e \in Cids : ~Holds(r, e)
  BY <1>1 DEF InRelease, PendingPc, Holds
<1>3. n.pc \notin InRelease /\ ~Making(n)
  BY DEF InRelease, Making
<1>4. TombstonesStay
  BY DEF TombstonesStay
<1> QED BY <1>1, <1>2, <1>3, <1>4, LetsGo

LEMMA ReapJobLedger ==
    ASSUME TypeInv, TypeInv', BoxInv, BoxInv', LedgerInv, NEW t \in Tasks, NEW j \in Jobs, ReapJob(t, j)
    PROVE  LedgerInv'
<1>1. PICK r : r = task[t]
  OBVIOUS
<1>2. /\ r.pc \notin InRelease /\ r.pc \notin PendingPc /\ \A e \in Cids : ~Holds(r, e)
      /\ registry' = Reap(registry, j)
  BY <1>1 DEF ReapJob, Idle, InRelease, PendingPc, Holds
<1>3. Frame /\ DockerFalls
  BY SameWorldFalls DEF Frame, BooksSame, ReapJob, startup, ticker, world, bounds
<1>4. TombstonesStay
  BY <1>2, RegistryShape DEF TombstonesStay, Reap, Prune
<1>5. PICK known : known = ReapKnown(registry, j)
  OBVIOUS
<1>6. PICK n : n = [Idle EXCEPT !.job = j, !.cid = known,
                       !.pc = IF known = NoCid THEN "reap_list" ELSE "reap_known"]
  OBVIOUS
<1>7. n.pc \in {"reap_list", "reap_known"}
  BY <1>6 DEF Idle
<1>8. task' = [task EXCEPT ![t] = n] /\ n.pc \notin InRelease /\ ~Making(n)
  BY <1>5, <1>6, <1>7 DEF ReapJob, InRelease, Making
<1> QED BY <1>1, <1>2, <1>3, <1>4, <1>8, LetsGo

LEMMA ReapLedger ==
    ASSUME TypeInv, TypeInv', BoxInv, BoxInv', LedgerInv, NEW t \in Tasks, ReapStep(t)
    PROVE  LedgerInv'
<1>1. PICK r : r = task[t]
  OBVIOUS
<1>2. r \in TaskRecords /\ registry' = registry
      /\ r.pc \in {"reap_known", "reap_list", "reap_listed"}
  BY <1>1 DEF TypeInv, TypeOK, ReapStep, ReapRemovesKnown, ReapLists, ReapSettles,
              ReapRemovesListed, memory
<1>3. Frame
  BY DEF Frame, BooksSame, ReapStep, ReapRemovesKnown, ReapLists, ReapSettles,
         ReapRemovesListed, memory, startup, ticker, world, bounds
<1>4. (r.cid \in Cids /\ Born(r.cid)) \/ r.pc # "reap_known"
  BY <1>1, TaskFacts DEF BoxInv, MakeInv, MakeOK, HoldsContainer, TypeInv
<1>5. \A c \in r.left : c \in Cids /\ Born(c)
  BY <1>1, <1>2 DEF BoxInv, MakeInv, MakeOK, TaskRecords
<1>6. DockerFalls
  <2>1. CASE docker' = docker
    BY <2>1, SameWorldFalls
  <2>2. ASSUME NEW c \in Cids, Born(c), docker' = Removed(c) PROVE DockerFalls
    BY <2>2, RemovedFalls
  <2> QED BY <1>1, <1>4, <1>5, <2>1, <2>2 DEF ReapStep, ReapRemovesKnown, ReapLists,
             ReapSettles, ReapRemovesListed, world
<1>7. \E n : /\ task' = [task EXCEPT ![t] = n]
             /\ n.pc \in {"reap_list", "reap_listed", "rel_gate", "idle"}
  <2>1. CASE ReapRemovesKnown(t)
    <3> DEFINE a == [r EXCEPT !.pc = "reap_list"]
               b == [r EXCEPT !.pc = "reap_list", !.ok = FALSE]
    <3>1. task' = [task EXCEPT ![t] = a] \/ task' = [task EXCEPT ![t] = b]
      BY <1>1, <2>1 DEF ReapRemovesKnown, Goto, TypeInv, TypeOK
    <3>2. a.pc = "reap_list" /\ b.pc = "reap_list"
      BY <1>2 DEF TaskRecords
    <3> HIDE DEF a, b
    <3> QED BY <3>1, <3>2
  <2>2. CASE ReapLists(t)
    <3> DEFINE a == [r EXCEPT !.pc = "reap_listed", !.left = {c \in Live(docker) : JobOf[c] = r.job}]
               b == [r EXCEPT !.pc = "reap_listed", !.ok = FALSE]
    <3>1. task' = [task EXCEPT ![t] = a] \/ task' = [task EXCEPT ![t] = b]
      BY <1>1, <2>2 DEF ReapLists, TypeInv, TypeOK
    <3>2. a.pc = "reap_listed" /\ b.pc = "reap_listed"
      BY <1>2 DEF TaskRecords
    <3> HIDE DEF a, b
    <3> QED BY <3>1, <3>2
  <2>3. ASSUME NEW c \in Cids, ReapRemovesListed(t, c)
        PROVE  \E n : task' = [task EXCEPT ![t] = n] /\ n.pc = "reap_listed"
    <3> DEFINE a == [r EXCEPT !.left = r.left \ {c}]
               b == [r EXCEPT !.left = r.left \ {c}, !.ok = FALSE]
    <3>1. task' = [task EXCEPT ![t] = a] \/ task' = [task EXCEPT ![t] = b]
      BY <1>1, <2>3 DEF ReapRemovesListed, TypeInv, TypeOK
    <3>2. a.pc = "reap_listed" /\ b.pc = "reap_listed"
      BY <1>1, <1>2, <2>3 DEF TaskRecords, ReapRemovesListed
    <3> HIDE DEF a, b
    <3> QED BY <3>1, <3>2
  <2>4. CASE ReapSettles(t)
    <3>1. Goto(t, "rel_gate") \/ Done(t)
      BY <2>4 DEF ReapSettles
    <3>2. CASE Goto(t, "rel_gate")
      <4>1. "rel_gate" \in TaskPcs
        BY DEF TaskPcs
      <4> QED BY <1>1, <3>2, <4>1, MovesTo
    <3> QED BY <3>1, <3>2, EndsAs
  <2> QED BY <2>1, <2>2, <2>3, <2>4 DEF ReapStep
<1> QED BY <1>1, <1>2, <1>3, <1>6, <1>7, ReapsOn

-----------------------------------------------------------------------------
(* The box around the daemon.                                                *)

LEMMA OutsideLedger ==
    ASSUME TypeInv, TypeInv', BoxInv, BoxInv', LedgerInv,
           BooksSame, now' = now, expired \subseteq expired', DockerFalls,
           registry' = registry, task' = task
    PROVE  LedgerInv'
BY SameRegistryMoves, NobodyMoves, QuietKeeps

(* A tombstone that ages has no request left, and so nothing to refuse.     *)
LEMMA AgesLedger ==
    ASSUME TypeInv, TypeInv', BoxInv, BoxInv', LedgerInv, NEW j \in Jobs, TombstoneAges(j)
    PROVE  LedgerInv'
<1>1. /\ registry' = [registry EXCEPT ![j] = Stale] /\ (\A t \in Tasks : task[t].job # j)
      /\ UNCHANGED <<gate, queue, created, task, start, tick, phase, todo, snap, remove, posts, docker>>
      /\ now' = now /\ expired' = expired
  BY DEF TombstoneAges, startup, ticker, world, bounds
<1>2. \A i \in Jobs : i # j => registry'[i] = registry[i]
  BY <1>1, RegistryShape
<1>3. RequestsHandOn
  BY <1>1, NobodyMoves
<1>4. Letting'
  <2>1. \A i \in Jobs : Lost(i) => Lost(i)'
    BY <1>1 DEF Lost, Tracks
  <2>2. \A i \in Jobs : Unborn(i) /\ Unstarted(i) => Unborn(i)' /\ Unstarted(i)'
    BY <1>1 DEF Unborn, Unstarted, InQueue
  <2> QED BY <1>1, <1>2, <1>3, <2>1, <2>2, LettingKept DEF LedgerInv, Futile
<1>5. Linked' /\ SlotInv' /\ RecordInv'
  BY <1>1 DEF LedgerInv, Linked, SlotInv, RecordInv, InQueue, Tracks, Pending, Requeued, CreatedGhost
<1>6. RunsOnce' /\ SeenInv' /\ NoInnocentRemoval'
  BY <1>1 DEF LedgerInv, RunsOnce, SeenInv, NoInnocentRemoval
<1>7. Owned'
  BY <1>1 DEF LedgerInv, Owned, Booked, Tracks, Holds
<1> QED BY <1>4, <1>5, <1>6, <1>7 DEF LedgerInv
-----------------------------------------------------------------------------
(* Requests that enter or leave the books.                                   *)

(* The admission's holder is the request that will make the container.      *)
LEMMA CreateJobLedger ==
    ASSUME TypeInv, TypeInv', BoxInv, BoxInv', LedgerInv, Reliable,
           NEW t \in Tasks, NEW j \in Jobs, CreateJob(t, j)
    PROVE  LedgerInv'
<1>1. /\ task[t] = Idle
      /\ gate' = [gate EXCEPT ![j] = "queued"] /\ posts' = [posts EXCEPT ![j] = @ + 1]
      /\ UNCHANGED <<queue, registry, created, start, tick, phase, todo, snap, remove, docker>>
      /\ now' = now /\ expired' = expired
  BY DEF CreateJob, Admit, startup, ticker, world
<1>2. posts[j] = 0
  BY DaemonAssumption DEF CreateJob, Reliable, TypeInv, TypeOK
<1>3. \A i \in Jobs \ {j} : gate'[i] = gate[i] /\ posts'[i] = posts[i]
  BY <1>1 DEF TypeInv, TypeOK, GateStates
<1>4. gate'[j] = "queued"
  BY <1>1 DEF TypeInv, TypeOK, GateStates
<1>5. gate[j] = "untracked" /\ Unstarted(j) /\ Unborn(j)
  BY <1>2 DEF BoxInv, Fresh
<1>6. PICK n : n = [Idle EXCEPT !.pc = "begin", !.job = j]
  OBVIOUS
<1>7. n.pc = "begin" /\ n.job = j
  BY <1>6 DEF Idle
<1>8. task' = [task EXCEPT ![t] = n]
  BY <1>6 DEF CreateJob
<1>9. RequestsHandOn
  <2>1. HandsOn(task[t], n)
    BY <1>1, <1>7 DEF HandsOn, Idle, InRelease, PendingPc, Holds
  <2> QED BY <1>8, <2>1, OneHandsOn
<1>10. \A i \in Jobs : gate'[i] = "running" <=> gate[i] = "running"
  BY <1>3, <1>4, <1>5
<1>11. Letting'
  <2>1. \A i \in Jobs : Lost(i) => Lost(i)'
    BY <1>2, <1>3 DEF Lost, Tracks
  <2>2. \A i \in Jobs : Unborn(i) /\ Unstarted(i) => Unborn(i)' /\ Unstarted(i)'
    BY <1>1, <1>10 DEF Unborn, Unstarted, InQueue
  <2> QED BY <1>1, <1>9, <2>1, <2>2, LettingKept DEF LedgerInv, Futile
<1>12. Linked'
  <2>1. ASSUME NEW i \in Jobs, InQueue(i) PROVE Tracks(gate', i) => created[i] # NoCid
    BY <1>3, <1>5, <2>1 DEF LedgerInv, Linked, Tracks, Unstarted
  <2>2. ASSUME NEW i \in 1..Len(start) PROVE Tracks(gate', start[i].job) => created[start[i].job] # NoCid
    BY <1>3, <1>5, StartsAre DEF LedgerInv, Linked, Tracks, Unstarted
  <2> QED BY <1>1, <2>1, <2>2 DEF Linked, InQueue
<1>13. SlotInv' /\ RecordInv'
  <2>1. Pending(j)'
    BY <1>7, <1>8 DEF Pending, PendingPc, TypeInv, TypeOK
  <2>2. \A i \in Jobs : InQueue(i)' = InQueue(i) /\ Requeued(i)' = Requeued(i)
    BY <1>1 DEF InQueue, Requeued
  <2> QED BY <1>1, <1>3, <1>4, <1>9, <2>1, <2>2, BooksKept DEF LedgerInv, Tracks
<1>14. RunsOnce'
  BY <1>1, <1>10, DaemonAssumption DEF LedgerInv, RunsOnce
<1>15. SeenInv' /\ NoInnocentRemoval'
  BY <1>1 DEF LedgerInv, SeenInv, NoInnocentRemoval
<1>16. Owned'
  <2>1. \A c \in Cids : Placed(c) => Placed(c)'
    BY <1>1, <1>3, <1>4, DaemonAssumption DEF Placed, Booked, Tracks
  <2> QED BY <1>1, <1>9, <2>1, OwnedKept DEF LedgerInv
<1> QED BY <1>11, <1>12, <1>13, <1>14, <1>15, <1>16 DEF LedgerInv

(* A container is born to the request that asked for it.                    *)
LEMMA DockerCreatesLedger ==
    ASSUME TypeInv, TypeInv', BoxInv, BoxInv', LedgerInv,
           NEW t \in Tasks, NEW c \in Cids, DockerCreates(t, c)
    PROVE  LedgerInv'
<1>1. PICK r : r = task[t]
  OBVIOUS
<1>2. PICK k : k = r.job
  OBVIOUS
<1>3. /\ r.pc = "creating" /\ Making(r) /\ JobOf[c] = k /\ docker[c] = "unborn"
      /\ docker' = [docker EXCEPT ![c] = "created"]
      /\ UNCHANGED <<gate, registry, queue, created, start, tick, phase, todo, snap, remove, posts>>
      /\ now' = now /\ expired' = expired
  BY <1>1, <1>2 DEF DockerCreates, Making, memory, startup, ticker, bounds
<1>4. k \in Jobs /\ Unstarted(k)
  BY <1>1, <1>2, <1>3, MakingJob
<1>5. docker'[c] = "created" /\ \A e \in Cids \ {c} : docker'[e] = docker[e]
  BY <1>3 DEF TypeInv, TypeOK
<1>6. PICK n \in TaskRecords :
         /\ task' = [task EXCEPT ![t] = n] /\ n.job = k
         /\ (n.pc = "finish" /\ n.cid = c) \/ (n.pc = "failed" /\ "create_lost" \in Faults)
  <2> DEFINE a == [r EXCEPT !.pc = "finish", !.cid = c]
             b == [r EXCEPT !.pc = "failed"]
  <2>1. r \in TaskRecords
    BY <1>1 DEF TypeInv, TypeOK
  <2>2. a \in TaskRecords /\ a.pc = "finish" /\ a.cid = c /\ a.job = r.job
    BY <2>1 DEF TaskRecords, TaskPcs
  <2>3. b \in TaskRecords /\ b.pc = "failed" /\ b.job = r.job
    BY <2>1 DEF TaskRecords, TaskPcs
  <2>4. task' = [task EXCEPT ![t] = a] \/ (task' = [task EXCEPT ![t] = b] /\ "create_lost" \in Faults)
    BY <1>1 DEF DockerCreates, Goto, TypeInv, TypeOK
  <2> HIDE DEF a, b
  <2> QED BY <2>2, <2>3, <2>4, <1>2
<1>7. RequestsHandOn
  <2>1. HandsOn(r, n)
    BY <1>2, <1>3, <1>6 DEF HandsOn, InRelease, PendingPc, Making, Holds
  <2> QED BY <1>1, <1>6, <2>1, OneHandsOn
<1>8. Letting'
  <2>1. \A i \in Jobs : Lost(i) => Lost(i)'
    BY <1>3 DEF Lost, Tracks
  <2>2. ASSUME NEW i \in Jobs, Futile(i) PROVE registry'[i] = Reaped /\ Unborn(i)' /\ Unstarted(i)'
    <3>1. i # k
      BY <1>1, <1>2, <1>3, <2>2 DEF Futile
    <3>2. \A e \in Own(i) : docker'[e] = docker[e]
      BY <1>3, <1>5, <3>1 DEF Own
    <3> QED BY <1>3, <2>2, <3>2 DEF Futile, Unborn, Unstarted, InQueue
  <2> QED BY <1>7, <2>1, <2>2, LettingKept DEF LedgerInv
<1>9. Linked' /\ SlotInv' /\ RecordInv'
  <2>1. Linked'
    BY <1>3 DEF LedgerInv, Linked, InQueue
  <2>2. \A i \in Jobs : InQueue(i)' = InQueue(i) /\ Requeued(i)' = Requeued(i)
    BY <1>3 DEF InQueue, Requeued
  <2> QED BY <1>3, <1>7, <2>1, <2>2, BooksKept DEF LedgerInv
<1>10. RunsOnce'
  <2>1. tick = "vanish" => start[1].cid # c
    <3>1. tick = "vanish" => 1 \in 1..Len(start)
      BY StartsAre DEF TypeInv, TickOK
    <3> QED BY <1>3, <3>1 DEF BoxInv, StartInv, StartOK
  <2> QED BY <1>3, <1>4, <1>5, <2>1 DEF LedgerInv, RunsOnce, Unstarted
<1>11. SeenInv' /\ NoInnocentRemoval'
  <2>1. snap[c] = "unseen" /\ c \notin remove
    BY <1>3 DEF BoxInv, SnapInv, Born
  <2>2. \A e \in remove : e \in Cids
    BY DEF TypeInv, TypeOK
  <2> QED BY <1>3, <1>5, <2>1, <2>2 DEF LedgerInv, SeenInv, NoInnocentRemoval
<1>12. Owned'
  <2>1. \A e \in Cids : Placed(e) => Placed(e)'
    BY <1>3 DEF Placed, Booked
  <2>2. "create_lost" \notin Faults => \E u \in Tasks : Holds(task'[u], c)
    <3>1. task'[t] = n
      BY <1>6 DEF TypeInv, TypeOK
    <3> QED BY <1>3, <1>6, <3>1 DEF Holds
  <2> QED BY <1>5, <1>7, <2>1, <2>2, OwnedKept DEF LedgerInv
<1> QED BY <1>8, <1>9, <1>10, <1>11, <1>12 DEF LedgerInv

(* From the request's hands into the books.                                 *)
LEMMA RemembersLedger ==
    ASSUME TypeInv, TypeInv', BoxInv, BoxInv', LedgerInv,
           NEW t \in Tasks, RememberCreated(t), Tracks(gate, task[t].job)
    PROVE  LedgerInv'
<1>1. PICK r : r = task[t]
  OBVIOUS
<1>2. PICK k : k = r.job
  OBVIOUS
<1>3. PICK c : c = r.cid
  OBVIOUS
<1>4. /\ r.pc = "record" /\ Making(r) /\ Tracks(gate, k)
      /\ created' = [created EXCEPT ![k] = c] /\ queue' = Append(queue, k) /\ Done(t)
      /\ UNCHANGED <<gate, registry, start, tick, phase, todo, snap, remove, posts, docker>>
      /\ now' = now /\ expired' = expired
  BY <1>1, <1>2, <1>3 DEF RememberCreated, Making, startup, ticker, world, bounds
<1>5. k \in Jobs /\ Unstarted(k)
  BY <1>1, <1>2, <1>4, MakingJob
<1>6. c \in Cids /\ c # NoCid /\ JobOf[c] = k
  BY <1>1, <1>2, <1>3, <1>4, TaskFacts, RegistryAssumption
     DEF BoxInv, MakeInv, MakeOK, HoldsContainer, TypeInv
<1>7. created'[k] = c /\ created[k] = NoCid /\ \A i \in Jobs \ {k} : created'[i] = created[i]
  BY <1>4, <1>5 DEF TypeInv, TypeOK, Unstarted
<1>8. \A i \in Jobs : InQueue(i)' <=> InQueue(i) \/ i = k
  BY <1>4, <1>5, AppendSet DEF TypeInv, TypeOK, InQueue
<1>9. task'[t] = Idle /\ \A u \in Tasks \ {t} : task'[u] = task[u]
  BY <1>4 DEF Done, TypeInv, TypeOK
<1>10. Letting'
  <2> SUFFICES ASSUME NEW u \in Tasks, task'[u].pc \in InRelease,
                      NEW i, i = task'[u].job
               PROVE  Lost(i)' \/ Futile(i)'
    BY DEF Letting
  <2>1. u # t /\ task[u].pc \in InRelease /\ task[u].job = i
    BY <1>9 DEF Idle, InRelease
  <2>2. Lost(i) \/ Futile(i)
    BY <2>1 DEF LedgerInv, Letting
  <2>3. i # k
    BY <1>1, <1>2, <1>4, <2>2 DEF Lost, Futile
  <2>4. i \in Jobs
    BY <2>1, TaskFacts DEF TypeInv, InRelease
  <2>5. CASE Lost(i)
    BY <1>4, <2>5 DEF Lost
  <2>6. CASE Futile(i)
    <3>1. \A v \in Tasks : Making(task'[v]) /\ task'[v].job = i => task'[v].pc = "begin"
      BY <1>9, <2>6 DEF Futile, Making, Idle
    <3>2. Unborn(i)' /\ Unstarted(i)' /\ registry'[i] = Reaped
      BY <1>4, <1>7, <1>8, <2>3, <2>4, <2>6 DEF Futile, Unborn, Unstarted
    <3> QED BY <3>1, <3>2 DEF Futile, Making
  <2> QED BY <2>2, <2>5, <2>6
<1>11. Linked'
  <2>1. ASSUME NEW i \in Jobs, InQueue(i)', Tracks(gate, i) PROVE created'[i] # NoCid
    BY <1>6, <1>7, <1>8, <2>1 DEF LedgerInv, Linked
  <2>2. ASSUME NEW i \in 1..Len(start), Tracks(gate, start[i].job) PROVE created'[start[i].job] # NoCid
    BY <1>5, <1>7, <2>2, StartsAre DEF LedgerInv, Linked, Unstarted
  <2> QED BY <1>4, <2>1, <2>2 DEF Linked
<1>12. ASSUME NEW i \in Jobs, i # k, Pending(i) PROVE Pending(i)'
  BY <1>1, <1>2, <1>9, <1>12 DEF Pending
<1>13. SlotInv'
  <2>1. \A i \in Jobs : Requeued(i)' = Requeued(i)
    BY <1>4 DEF Requeued
  <2> QED BY <1>4, <1>8, <1>12, <2>1 DEF LedgerInv, SlotInv
<1>14. RecordInv'
  <2>1. ASSUME NEW i \in Jobs PROVE CreatedGhost(i)'
    <3>1. \A u \in Tasks : task[u].pc \in InRelease => task'[u] = task[u]
      BY <1>1, <1>4, <1>9 DEF InRelease
    <3> QED BY <1>4, <1>7, <3>1 DEF LedgerInv, RecordInv, CreatedGhost
  <2>2. ASSUME NEW i \in Jobs, Tracks(gate, i) PROVE created'[i] # NoCid \/ Pending(i)'
    BY <1>6, <1>7, <1>12, <2>2 DEF LedgerInv, RecordInv
  <2> QED BY <1>4, <2>1, <2>2 DEF RecordInv
<1>15. RunsOnce' /\ SeenInv' /\ NoInnocentRemoval'
  BY <1>4 DEF LedgerInv, RunsOnce, SeenInv, NoInnocentRemoval
<1>16. Owned'
  <2>1. ASSUME NEW e \in Cids, Booked(e) PROVE Booked(e)'
    BY <1>4, <1>7, <2>1, DaemonAssumption, RegistryAssumption DEF Booked
  <2>2. ASSUME NEW e \in Cids, NEW u \in Tasks, Holds(task[u], e)
        PROVE  Booked(e)' \/ \E v \in Tasks : Holds(task'[v], e)
    <3>1. CASE u = t
      <4>1. e = c
        BY <1>1, <1>3, <2>2, <3>1 DEF Holds
      <4> QED BY <1>4, <1>6, <1>7, <4>1 DEF Booked
    <3>2. CASE u # t
      BY <1>9, <2>2, <3>2
    <3> QED BY <3>1, <3>2
  <2> QED BY <1>4, <2>1, <2>2 DEF LedgerInv, Owned, Holds
<1> QED BY <1>10, <1>11, <1>13, <1>14, <1>15, <1>16 DEF LedgerInv

-----------------------------------------------------------------------------
(* A release: gate, queue and created map, one after the other.              *)

LEMMA ReleaseGateLedger ==
    ASSUME TypeInv, TypeInv', BoxInv, BoxInv', LedgerInv, NEW t \in Tasks, ReleaseGate(t)
    PROVE  LedgerInv'
<1>1. PICK r : r = task[t]
  OBVIOUS
<1>2. PICK k : k = r.job
  OBVIOUS
<1>3. /\ r.pc = "rel_gate" /\ gate' = Release(gate, k) /\ Goto(t, "rel_queue")
      /\ UNCHANGED <<queue, registry, created, start, tick, phase, todo, snap, remove, posts, docker>>
      /\ now' = now /\ expired' = expired
  BY <1>1, <1>2 DEF ReleaseGate, startup, ticker, world, bounds
<1>4. k \in Jobs
  BY <1>1, <1>2, <1>3, Busy
<1>5. gate'[k] = "untracked" /\ \A i \in Jobs \ {k} : gate'[i] = gate[i]
  BY <1>3, <1>4 DEF Release, ReleaseAll
<1>6. PICK n \in TaskRecords : task' = [task EXCEPT ![t] = n] /\ n.pc = "rel_queue" /\ n.job = k
  <2>1. "rel_queue" \in TaskPcs
    BY DEF TaskPcs
  <2> QED BY <1>1, <1>2, <1>3, <2>1, MovesTo
<1>7. task'[t] = n /\ \A u \in Tasks \ {t} : task'[u] = task[u]
  BY <1>6 DEF TypeInv, TypeOK
<1>8. ReapOK(r)
  BY <1>1 DEF BoxInv, ReapInv
<1>9. \A u \in Tasks : Making(task'[u]) => Making(task[u]) /\ task'[u] = task[u]
  BY <1>6, <1>7 DEF Making
<1>10. \A i \in Jobs : Unborn(i) /\ Unstarted(i) => Unborn(i)' /\ Unstarted(i)'
  BY <1>3, <1>5 DEF Unborn, Unstarted, InQueue
<1>11. ASSUME NEW i \in Jobs, registry[i] = Reaped, Unborn(i), Unstarted(i),
              \A u \in Tasks : Making(task[u]) /\ task[u].job = i => task[u].pc = "begin"
       PROVE  Futile(i)'
  <2>1. \A u \in Tasks : Making(task'[u]) /\ task'[u].job = i => task'[u].pc = "begin"
    BY <1>9, <1>11
  <2> QED BY <1>3, <1>10, <1>11, <2>1 DEF Futile, Making
<1>12. Letting'
  <2> SUFFICES ASSUME NEW u \in Tasks, task'[u].pc \in InRelease,
                      NEW i, i = task'[u].job
               PROVE  Lost(i)' \/ Futile(i)'
    BY DEF Letting
  <2>1. CASE u = t
    <3>1. i = k
      BY <1>6, <1>7, <2>1
    <3>2. CASE posts[k] # 0
      BY <1>3, <1>5, <3>1, <3>2 DEF Lost, Tracks
    <3>3. CASE posts[k] = 0
      <4>1. registry[k] = Reaped
        BY <1>2, <1>3, <1>8, <3>3 DEF ReapOK, Settling
      <4>2. /\ Unborn(k) /\ Unstarted(k)
            /\ \A v \in Tasks : Making(task[v]) => task[v].job # k
        BY <1>4, <3>3 DEF BoxInv, Fresh
      <4> QED BY <1>4, <1>11, <3>1, <4>1, <4>2
    <3> QED BY <3>2, <3>3
  <2>2. CASE u # t
    <3>1. task[u].pc \in InRelease /\ task[u].job = i
      BY <1>7, <2>2
    <3>2. i \in Jobs
      BY <3>1, TaskFacts DEF TypeInv, InRelease
    <3>3. CASE Lost(i)
      BY <1>3, <1>4, <1>5, <3>2, <3>3 DEF Lost, Tracks
    <3>4. CASE Futile(i)
      BY <1>11, <3>2, <3>4 DEF Futile
    <3> QED BY <3>1, <3>3, <3>4 DEF LedgerInv, Letting
  <2> QED BY <2>1, <2>2
<1>13. \A i \in Jobs : Tracks(gate', i) => Tracks(gate, i) /\ i # k
  BY <1>5 DEF Tracks
<1>14. Linked'
  <2>1. \A i \in 1..Len(start) : Tracks(gate', start[i].job) => created[start[i].job] # NoCid
    BY <1>13, StartsAre DEF LedgerInv, Linked
  <2> QED BY <1>3, <1>13, <2>1 DEF LedgerInv, Linked, InQueue
<1>15. ASSUME NEW i \in Jobs, i # k, Pending(i) PROVE Pending(i)'
  BY <1>1, <1>2, <1>7, <1>15 DEF Pending
<1>16. SlotInv'
  <2>1. \A i \in Jobs : Requeued(i)' = Requeued(i) /\ InQueue(i)' = InQueue(i)
    BY <1>3 DEF Requeued, InQueue
  <2> QED BY <1>5, <1>15, <2>1 DEF LedgerInv, SlotInv
<1>17. RecordInv'
  <2>1. ASSUME NEW i \in Jobs PROVE CreatedGhost(i)'
    <3>1. CASE i = k
      BY <1>6, <1>7, <3>1 DEF CreatedGhost, InRelease
    <3>2. CASE i # k
      <4>1. \A u \in Tasks : task[u].pc \in InRelease => task'[u] = task[u]
        BY <1>1, <1>3, <1>7 DEF InRelease
      <4> QED BY <1>3, <1>5, <3>2, <4>1 DEF LedgerInv, RecordInv, CreatedGhost, Tracks
    <3> QED BY <3>1, <3>2
  <2>2. ASSUME NEW i \in Jobs, Tracks(gate', i) PROVE created[i] # NoCid \/ Pending(i)'
    BY <1>13, <1>15, <2>2 DEF LedgerInv, RecordInv
  <2> QED BY <1>3, <2>1, <2>2 DEF RecordInv
<1>18. RunsOnce'
  <2>1. \A c \in Cids : gate'[JobOf[c]] = "running" => gate[JobOf[c]] = "running"
    BY <1>5, DaemonAssumption
  <2> QED BY <1>3, <2>1 DEF LedgerInv, RunsOnce
<1>19. SeenInv' /\ NoInnocentRemoval'
  BY <1>3 DEF LedgerInv, SeenInv, NoInnocentRemoval
<1>20. Owned'
  <2>1. ASSUME NEW c \in Cids, docker[c] = "created", Booked(c) PROVE Booked(c)'
    <3>1. JobOf[c] # k
      <4> SUFFICES ASSUME JobOf[c] = k PROVE FALSE
        OBVIOUS
      <4>1. Swept(k, {})
        BY <1>2, <1>3, <1>8 DEF ReapOK, Sweeping, StillLeft
      <4>2. created[k] = NoCid
        BY <2>1, <4>1 DEF Swept, Own, Unstarted
      <4> QED BY <2>1, <4>2, RegistryAssumption DEF Booked
    <3> QED BY <1>3, <1>5, <2>1, <3>1, DaemonAssumption DEF Booked, Tracks
  <2>2. \A u \in Tasks : \A c \in Cids : Holds(task[u], c) => Holds(task'[u], c)
    BY <1>1, <1>3, <1>7 DEF Holds
  <2> QED BY <1>3, <2>1, <2>2 DEF LedgerInv, Owned, Holds
<1> QED BY <1>12, <1>14, <1>16, <1>17, <1>18, <1>19, <1>20 DEF LedgerInv

(* A task that is releasing an admitted job has nothing to release.         *)
LEMMA ReleasesNothing ==
    ASSUME TypeInv, LedgerInv, NEW t \in Tasks, task[t].pc \in InRelease,
           Tracks(gate, task[t].job)
    PROVE  Futile(task[t].job) /\ ~Requeued(task[t].job)
<1>1. PICK k : k = task[t].job
  OBVIOUS
<1>2. Futile(k)
  BY <1>1 DEF LedgerInv, Letting, Lost
<1>3. ~Requeued(k)
  <2>1. tick = "requeue" => 1 \in 1..Len(start)
    BY StartsAre DEF TypeInv, TickOK
  <2> QED BY <1>2, <2>1 DEF Futile, Unstarted, Requeued
<1> QED BY <1>1, <1>2, <1>3

LEMMA ReleaseQueueLedger ==
    ASSUME TypeInv, TypeInv', BoxInv, BoxInv', LedgerInv, NEW t \in Tasks, ReleaseQueue(t)
    PROVE  LedgerInv'
<1>1. PICK r : r = task[t]
  OBVIOUS
<1>2. PICK k : k = r.job
  OBVIOUS
<1>3. /\ r.pc = "rel_queue" /\ queue' = Without(queue, {k}) /\ Goto(t, "rel_created")
      /\ UNCHANGED <<gate, registry, created, start, tick, phase, todo, snap, remove, posts, docker>>
      /\ now' = now /\ expired' = expired
  BY <1>1, <1>2 DEF ReleaseQueue, startup, ticker, world, bounds
<1>4. \A i \in Jobs : InQueue(i)' <=> InQueue(i) /\ i # k
  BY <1>3, WithoutProperties DEF TypeInv, TypeOK, InQueue
<1>5. PICK n \in TaskRecords : task' = [task EXCEPT ![t] = n] /\ n.pc = "rel_created" /\ n.job = k
  <2>1. "rel_created" \in TaskPcs
    BY DEF TaskPcs
  <2> QED BY <1>1, <1>2, <1>3, <2>1, MovesTo
<1>6. RequestsHandOn
  <2>1. HandsOn(r, n)
    BY <1>2, <1>3, <1>5 DEF HandsOn, InRelease, PendingPc, Making, Holds
  <2> QED BY <1>1, <1>5, <2>1, OneHandsOn
<1>7. Letting'
  <2>1. \A i \in Jobs : Lost(i) => Lost(i)'
    BY <1>3 DEF Lost, Tracks
  <2>2. \A i \in Jobs : Unborn(i) /\ Unstarted(i) => Unborn(i)' /\ Unstarted(i)'
    BY <1>3, <1>4 DEF Unborn, Unstarted
  <2> QED BY <1>3, <1>6, <2>1, <2>2, LettingKept DEF LedgerInv, Futile
<1>8. Linked'
  BY <1>3, <1>4 DEF LedgerInv, Linked
<1>9. SlotInv' /\ RecordInv'
  <2>1. Tracks(gate, k) => ~InQueue(k) /\ ~Requeued(k)
    BY <1>1, <1>2, <1>3, ReleasesNothing DEF InRelease, Futile, Unstarted
  <2>2. \A i \in Jobs : Requeued(i)' = Requeued(i)
    BY <1>3 DEF Requeued
  <2> QED BY <1>3, <1>4, <1>6, <2>1, <2>2, BooksKept DEF LedgerInv, Tracks
<1>10. RunsOnce' /\ SeenInv' /\ NoInnocentRemoval'
  BY <1>3 DEF LedgerInv, RunsOnce, SeenInv, NoInnocentRemoval
<1>11. Owned'
  <2>1. \A c \in Cids : Placed(c) => Placed(c)'
    BY <1>3 DEF Placed, Booked
  <2> QED BY <1>3, <1>6, <2>1, OwnedKept DEF LedgerInv
<1> QED BY <1>7, <1>8, <1>9, <1>10, <1>11 DEF LedgerInv

LEMMA ReleaseCreatedLedger ==
    ASSUME TypeInv, TypeInv', BoxInv, BoxInv', LedgerInv, NEW t \in Tasks, ReleaseCreated(t)
    PROVE  LedgerInv'
<1>1. PICK r : r = task[t]
  OBVIOUS
<1>2. PICK k : k = r.job
  OBVIOUS
<1>3. /\ r.pc = "rel_created" /\ created' = ForgetCreated(created, {k}) /\ Done(t)
      /\ UNCHANGED <<gate, registry, queue, start, tick, phase, todo, snap, remove, posts, docker>>
      /\ now' = now /\ expired' = expired
  BY <1>1, <1>2 DEF ReleaseCreated, startup, ticker, world, bounds
<1>4. k \in Jobs
  BY <1>1, <1>2, <1>3, Busy
<1>5. created'[k] = NoCid /\ \A i \in Jobs \ {k} : created'[i] = created[i]
  BY <1>3, <1>4 DEF ForgetCreated
<1>6. task'[t] = Idle /\ \A u \in Tasks \ {t} : task'[u] = task[u]
  BY <1>3 DEF Done, TypeInv, TypeOK
<1>7. Tracks(gate, k) => Futile(k)
  BY <1>1, <1>2, <1>3, ReleasesNothing DEF InRelease
<1>8. Letting'
  <2> SUFFICES ASSUME NEW u \in Tasks, task'[u].pc \in InRelease,
                      NEW i, i = task'[u].job
               PROVE  Lost(i)' \/ Futile(i)'
    BY DEF Letting
  <2>1. u # t /\ task[u].pc \in InRelease /\ task[u].job = i
    BY <1>6 DEF Idle, InRelease
  <2>2. i \in Jobs
    BY <2>1, TaskFacts DEF TypeInv, InRelease
  <2>3. CASE Lost(i)
    BY <1>3, <2>3 DEF Lost
  <2>4. CASE Futile(i)
    <3>1. \A v \in Tasks : Making(task'[v]) /\ task'[v].job = i => task'[v].pc = "begin"
      BY <1>6, <2>4 DEF Futile, Making, Idle
    <3>2. Unborn(i)' /\ Unstarted(i)' /\ registry'[i] = Reaped
      BY <1>3, <1>5, <2>2, <2>4 DEF Futile, Unborn, Unstarted, InQueue
    <3> QED BY <3>1, <3>2 DEF Futile, Making
  <2> QED BY <2>1, <2>3, <2>4 DEF LedgerInv, Letting
<1>9. Linked'
  <2>1. ASSUME NEW i \in Jobs, InQueue(i), Tracks(gate, i) PROVE created'[i] # NoCid
    BY <1>5, <1>7, <2>1 DEF LedgerInv, Linked, Futile, Unstarted
  <2>2. ASSUME NEW i \in 1..Len(start), Tracks(gate, start[i].job) PROVE created'[start[i].job] # NoCid
    BY <1>5, <1>7, <2>2, StartsAre DEF LedgerInv, Linked, Futile, Unstarted
  <2> QED BY <1>3, <2>1, <2>2 DEF Linked, InQueue
<1>10. \A i \in Jobs : Pending(i) => Pending(i)'
  BY <1>1, <1>3, <1>6 DEF Pending, PendingPc
<1>11. SlotInv'
  <2>1. \A i \in Jobs : Requeued(i)' = Requeued(i) /\ InQueue(i)' = InQueue(i)
    BY <1>3 DEF Requeued, InQueue
  <2> QED BY <1>3, <1>10, <2>1 DEF LedgerInv, SlotInv
<1>12. RecordInv'
  <2>1. ASSUME NEW i \in Jobs, created'[i] # NoCid, ~Tracks(gate, i)
        PROVE  \E u \in Tasks : task'[u].job = i /\ task'[u].pc \in InRelease
    <3>1. i # k /\ created[i] # NoCid
      BY <1>5, <2>1
    <3>2. PICK u \in Tasks : task[u].job = i /\ task[u].pc \in InRelease
      BY <2>1, <3>1 DEF LedgerInv, RecordInv, CreatedGhost
    <3> QED BY <1>1, <1>2, <1>6, <3>1, <3>2
  <2>2. ASSUME NEW i \in Jobs, Tracks(gate, i) PROVE created'[i] # NoCid \/ Pending(i)'
    BY <1>5, <1>7, <1>10, <2>2 DEF LedgerInv, RecordInv, Futile, Unstarted
  <2> QED BY <1>3, <2>1, <2>2 DEF RecordInv, CreatedGhost
<1>13. RunsOnce' /\ SeenInv' /\ NoInnocentRemoval'
  BY <1>3 DEF LedgerInv, RunsOnce, SeenInv, NoInnocentRemoval
<1>14. Owned'
  <2>1. ASSUME NEW c \in Cids, Booked(c) PROVE Booked(c)'
    BY <1>3, <1>5, <1>7, <2>1, DaemonAssumption, RegistryAssumption DEF Booked, Futile, Unstarted
  <2>2. \A u \in Tasks : \A c \in Cids : Holds(task[u], c) => Holds(task'[u], c)
    BY <1>1, <1>3, <1>6 DEF Holds
  <2> QED BY <1>3, <2>1, <2>2 DEF LedgerInv, Owned, Holds
<1> QED BY <1>8, <1>9, <1>11, <1>12, <1>13, <1>14 DEF LedgerInv

-----------------------------------------------------------------------------
(* The tick and the books.                                                   *)

LEMMA TickListsLedger ==
    ASSUME TypeInv, TypeInv', BoxInv, BoxInv', LedgerInv, Reliable, TickLists
    PROVE  LedgerInv'
<1>1. /\ phase = "serving" /\ tick = "idle" /\ tick' = "reconcile" /\ now' = expired
      /\ snap' = [c \in Cids |-> Sighting(c)] /\ expired' = expired
      /\ UNCHANGED <<gate, registry, queue, created, task, phase, todo, remove, start, docker, posts>>
  BY DEF TickLists, memory, startup, world, bounds, Reliable, Misreports
<1>2. RequestsHandOn
  BY <1>1, NobodyMoves
<1>3. Letting'
  BY <1>1, <1>2, LettingKept DEF LedgerInv, Lost, Futile, Unborn, Unstarted, InQueue
<1>4. Linked' /\ SlotInv' /\ RecordInv'
  BY <1>1, <1>2, BooksKept DEF LedgerInv, Linked, InQueue, Requeued
<1>5. RunsOnce' /\ NoInnocentRemoval'
  BY <1>1 DEF LedgerInv, RunsOnce, NoInnocentRemoval
<1>6. SeenInv'
  BY <1>1 DEF LedgerInv, SeenInv, Sighting, Live
<1>7. Owned'
  BY <1>1, <1>2, OwnedKept DEF LedgerInv, Placed, Booked
<1> QED BY <1>3, <1>4, <1>5, <1>6, <1>7 DEF LedgerInv

LEMMA TickEndsLedger ==
    ASSUME TypeInv, TypeInv', BoxInv, BoxInv', LedgerInv, TickEnds
    PROVE  LedgerInv'
<1>1. /\ tick = "act" /\ tick' = "idle" /\ now' = now /\ expired' = expired
      /\ UNCHANGED <<gate, registry, queue, created, task, phase, todo, snap, remove, start, docker, posts>>
  BY DEF TickEnds, memory, startup, world, bounds
<1>2. RequestsHandOn
  BY <1>1, NobodyMoves
<1>3. Letting'
  BY <1>1, <1>2, LettingKept DEF LedgerInv, Lost, Futile, Unborn, Unstarted, InQueue
<1>4. Linked' /\ SlotInv' /\ RecordInv'
  BY <1>1, <1>2, BooksKept DEF LedgerInv, Linked, InQueue, Requeued
<1>5. RunsOnce' /\ NoInnocentRemoval' /\ SeenInv'
  BY <1>1 DEF LedgerInv, RunsOnce, NoInnocentRemoval, SeenInv
<1>6. Owned'
  BY <1>1, <1>2, OwnedKept DEF LedgerInv, Placed, Booked
<1> QED BY <1>3, <1>4, <1>5, <1>6 DEF LedgerInv

(* A removal the tick or adoption had decided on.                           *)
LEMMA DoomedGoes ==
    ASSUME TypeInv, TypeInv', BoxInv, BoxInv', LedgerInv, NEW c \in Cids, c \in remove,
           docker' = Removed(c), remove' = remove \ {c}, now' = now, expired' = expired,
           UNCHANGED <<gate, registry, queue, created, task, phase, todo, snap, tick, start, posts>>
    PROVE  LedgerInv'
<1>1. Born(c)
  BY DEF BoxInv, SnapInv
<1>2. DockerFalls /\ RegistryMoves
  BY <1>1, RemovedFalls, SameRegistryMoves
<1>3. KeepsUnborn /\ KeepsJobs
  BY <1>2, FallsKeep
<1>4. docker'[c] = "gone" /\ \A e \in Cids \ {c} : docker'[e] = docker[e]
  BY DEF Removed, TypeInv, TypeOK
<1>5. RequestsHandOn
  BY NobodyMoves
<1>6. Letting'
  BY <1>3, <1>5, LettingKept DEF LedgerInv, Lost, Futile, KeepsUnborn, KeepsJobs, KeepsJob
<1>7. Linked' /\ SlotInv' /\ RecordInv'
  BY <1>5, BooksKept DEF LedgerInv, Linked, InQueue, Requeued
<1>8. RunsOnce' /\ SeenInv'
  BY <1>2 DEF LedgerInv, RunsOnce, SeenInv, DockerFalls
<1>9. NoInnocentRemoval'
  <2>1. \A e \in remove : e \in Cids
    BY DEF TypeInv, TypeOK
  <2> QED BY <1>2, <2>1 DEF LedgerInv, NoInnocentRemoval, DockerFalls
<1>10. Owned'
  <2>1. \A e \in Cids : docker'[e] = "created" => docker[e] = "created" /\ (Placed(e) => Placed(e)')
    BY <1>4 DEF Placed, Booked
  <2> QED BY <1>5, <2>1, OwnedKept DEF LedgerInv
<1> QED BY <1>6, <1>7, <1>8, <1>9, <1>10 DEF LedgerInv

LEMMA TickRemovesLedger ==
    ASSUME TypeInv, TypeInv', BoxInv, BoxInv', LedgerInv, Reliable, NEW c \in Cids, TickRemoves(c)
    PROVE  LedgerInv'
BY Removes, DoomedGoes DEF TickRemoves, memory, startup, bounds

(* The starts that are left, and where they were.                           *)
LEMMA StartsLeft ==
    ASSUME TypeInv, start # <<>>, start' = Tail(start)
    PROVE  /\ \A i \in 1..Len(start') : \E n \in 1..Len(start) : n # 1 /\ start'[i] = start[n]
           /\ \A n \in 1..Len(start) : n # 1 => \E i \in 1..Len(start') : start'[i] = start[n]
<1>1. \A i \in 1..Len(start') : i + 1 \in 1..Len(start) /\ i + 1 # 1 /\ start'[i] = start[i + 1]
  BY StartsAre
<1>2. ASSUME NEW n \in 1..Len(start), n # 1 PROVE \E i \in 1..Len(start') : start'[i] = start[n]
  <2>1. n - 1 \in 1..Len(start')
    BY <1>2, StartsAre
  <2>2. start'[n - 1] = start[(n - 1) + 1] /\ (n - 1) + 1 = n
    BY <1>1, <1>2, <2>1
  <2> QED BY <2>1, <2>2
<1> QED BY <1>1, <1>2

(* A start in hand that is not handed back keeps its place in the ledger.   *)
LEMMA StartTaken ==
    ASSUME TypeInv, BoxInv, LedgerInv, start # <<>>, start' = Tail(start), tick' = "act",
           NEW k, k = start[1].job,
           docker' = docker \/ (\E c \in Cids : docker' = [docker EXCEPT ![c] = "running"]),
           \A j \in Jobs : gate'[j] = "running" => gate[j] = "running",
           \A e \in Own(k) : docker'[e] = "created" => gate'[k] # "running"
    PROVE  RunsOnce'
<1> SUFFICES ASSUME NEW e \in Cids, docker'[e] = "created", gate'[JobOf[e]] = "running"
             PROVE  \E i \in 1..Len(start') : start'[i].cid = e
  BY DEF RunsOnce
<1>1. docker[e] = "created" /\ gate[JobOf[e]] = "running" /\ JobOf[e] # k
  BY DaemonAssumption DEF TypeInv, TypeOK, Own
<1>2. PICK n \in 1..Len(start) : start[n].cid = e
  BY <1>1 DEF LedgerInv, RunsOnce
<1>3. n # 1
  BY <1>1, <1>2 DEF BoxInv, StartInv, StartOK
<1> QED BY <1>2, <1>3, StartsLeft

LEMMA TickStartsLedger ==
    ASSUME TypeInv, TypeInv', BoxInv, BoxInv', LedgerInv, Reliable, TickStarts
    PROVE  LedgerInv'
<1>1. PICK k : k = start[1].job
  OBVIOUS
<1>2. PICK c : c = start[1].cid
  OBVIOUS
<1>3. /\ tick = "act" /\ remove = {} /\ start # <<>> /\ c = Head(start).cid
      /\ now' = now /\ expired' = expired
      /\ UNCHANGED <<gate, registry, queue, created, task, phase, todo, snap, remove, posts>>
  BY <1>2, StartsAre DEF TickStarts, memory, startup, bounds
<1>4. phase = "serving" /\ snap = Unseen
  BY <1>3 DEF BoxInv, StartingInv, LedgerInv, SeenInv
<1>5. /\ k \in Jobs /\ c \in Cids /\ JobOf[c] = k /\ docker[c] \in {"created", "gone"}
      /\ \A e \in Own(k) : e = c \/ docker[e] = "unborn"
  BY <1>1, <1>2, <1>3, HeadIs
<1>6. RequestsHandOn
  BY <1>3, NobodyMoves
<1>7. \A i \in Jobs : InQueue(i)' = InQueue(i) /\ ~Requeued(i)
  BY <1>3 DEF InQueue, Requeued
<1>8. SlotInv' /\ RecordInv'
  BY <1>3, <1>6, <1>7, BooksKept DEF LedgerInv
<1>9. SeenInv' /\ NoInnocentRemoval'
  <2>1. \A e \in Cids : snap[e] = "unseen"
    BY <1>4 DEF Unseen
  <2> QED BY <1>3, <1>4, <2>1 DEF LedgerInv, SeenInv, NoInnocentRemoval
<1>10. \A e \in Cids : Placed(e) => Placed(e)'
  BY <1>3 DEF Placed, Booked
<1>11. CASE /\ docker' = docker /\ start' = start
            /\ tick' = "unstart" \/ (tick' = "vanish" /\ docker[c] = "gone")
  <2>1. Letting'
    BY <1>3, <1>6, <1>11, LettingKept DEF LedgerInv, Lost, Futile, Unborn, Unstarted, InQueue
  <2>2. Linked'
    BY <1>3, <1>11 DEF LedgerInv, Linked, InQueue
  <2>3. RunsOnce'
    BY <1>2, <1>3, <1>11 DEF LedgerInv, RunsOnce
  <2>4. Owned'
    BY <1>6, <1>10, <1>11, OwnedKept DEF LedgerInv
  <2> QED BY <1>8, <1>9, <2>1, <2>2, <2>3, <2>4 DEF LedgerInv
<1>12. CASE /\ docker[c] = "created" /\ docker' = [docker EXCEPT ![c] = "running"]
            /\ start' = Tail(start) /\ tick' = tick
  <2>1. docker'[c] = "running" /\ \A e \in Cids \ {c} : docker'[e] = docker[e]
    BY <1>5, <1>12 DEF TypeInv, TypeOK
  <2>2. \A i \in 1..Len(start') : \E n \in 1..Len(start) : start'[i] = start[n]
    BY <1>3, <1>12, StartsLeft
  <2>3. Letting'
    <3>1. ASSUME NEW i \in Jobs, Futile(i) PROVE registry'[i] = Reaped /\ Unborn(i)' /\ Unstarted(i)'
      <4>1. \A e \in Own(i) : docker'[e] = docker[e]
        BY <1>5, <1>12, <2>1, <3>1 DEF Futile, Unborn, Own
      <4>2. \A x \in 1..Len(start') : start'[x].job # i
        BY <2>2, <3>1 DEF Futile, Unstarted
      <4> QED BY <1>3, <3>1, <4>1, <4>2 DEF Futile, Unborn, Unstarted, InQueue
    <3> QED BY <1>3, <1>6, <3>1, LettingKept DEF LedgerInv, Lost
  <2>4. Linked'
    BY <1>3, <2>2 DEF LedgerInv, Linked, InQueue
  <2>5. RunsOnce'
    <3>1. \A e \in Own(k) : docker'[e] # "created"
      BY <1>5, <2>1 DEF Own
    <3> QED BY <1>1, <1>3, <1>5, <1>12, <3>1, StartTaken
  <2>6. Owned'
    BY <1>6, <1>10, <2>1, OwnedKept DEF LedgerInv
  <2> QED BY <1>8, <1>9, <2>3, <2>4, <2>5, <2>6 DEF LedgerInv
<1>13. "start_lost" \notin Faults
  BY DEF Reliable, Misreports
<1> QED BY <1>3, <1>5, <1>11, <1>12, <1>13 DEF TickStarts

LEMMA TickUnstartsLedger ==
    ASSUME TypeInv, TypeInv', BoxInv, BoxInv', LedgerInv, TickUnstarts
    PROVE  LedgerInv'
<1>1. PICK k : k = start[1].job
  OBVIOUS
<1>2. /\ tick = "unstart" /\ start # <<>> /\ k = Head(start).job
      /\ now' = now /\ expired' = expired
      /\ UNCHANGED <<docker, registry, queue, created, task, phase, todo, snap, remove, posts>>
  BY <1>1, StartsAre DEF TickUnstarts, TypeInv, TickOK, startup, world, bounds
<1>3. /\ gate' = Unstart(gate, k)
      /\ \/ Tracks(gate, k) /\ tick' = "requeue" /\ start' = start
         \/ ~Tracks(gate, k) /\ tick' = "act" /\ start' = Tail(start)
  BY <1>2 DEF TickUnstarts
<1>4. k \in Jobs
  BY <1>1, <1>2, HeadIs
<1>5. /\ gate'[k] = IF Tracks(gate, k) THEN "queued" ELSE "untracked"
      /\ \A j \in Jobs : j # k => gate'[j] = gate[j]
      /\ \A j \in Jobs : (gate'[j] = "running" => gate[j] = "running")
                         /\ (Tracks(gate', j) <=> Tracks(gate, j))
  BY <1>3, <1>4 DEF Unstart, Tracks, TypeInv, TypeOK, GateStates, Entries
<1>6. phase = "serving" /\ snap = Unseen
  BY <1>2 DEF BoxInv, StartingInv, LedgerInv, SeenInv
<1>7. \A i \in 1..Len(start') : \E n \in 1..Len(start) : start'[i] = start[n]
  BY <1>2, <1>3, StartsLeft
<1>8. RequestsHandOn
  BY <1>2, NobodyMoves
<1>9. Letting'
  <2>1. ASSUME NEW i \in Jobs, Futile(i) PROVE registry'[i] = Reaped /\ Unborn(i)' /\ Unstarted(i)'
    <3>1. \A x \in 1..Len(start') : start'[x].job # i
      BY <1>7, <2>1 DEF Futile, Unstarted
    <3> QED BY <1>2, <1>5, <2>1, <3>1 DEF Futile, Unborn, Unstarted, InQueue
  <2>2. \A i \in Jobs : Lost(i) => Lost(i)'
    BY <1>2, <1>5 DEF Lost
  <2> QED BY <1>8, <2>1, <2>2, LettingKept DEF LedgerInv
<1>10. Linked'
  <2>1. ASSUME NEW x \in 1..Len(start'), Tracks(gate', start'[x].job) PROVE created[start'[x].job] # NoCid
    <3>1. PICK n \in 1..Len(start) : start'[x] = start[n]
      BY <1>7
    <3> QED BY <1>5, <2>1, <3>1, StartsAre DEF LedgerInv, Linked
  <2> QED BY <1>2, <1>5, <2>1 DEF LedgerInv, Linked, InQueue
<1>11. SlotInv' /\ RecordInv'
  <2>1. \A i \in Jobs : InQueue(i)' = InQueue(i) /\ ~Requeued(i)
    BY <1>2 DEF InQueue, Requeued
  <2>2. gate'[k] = "queued" => Requeued(k)'
    BY <1>1, <1>3, <1>5 DEF Requeued
  <2> QED BY <1>2, <1>5, <1>8, <2>1, <2>2, BooksKept DEF LedgerInv
<1>12. RunsOnce'
  <2>1. CASE Tracks(gate, k)
    BY <1>2, <1>3, <1>5, <2>1, DaemonAssumption DEF LedgerInv, RunsOnce
  <2>2. CASE ~Tracks(gate, k)
    BY <1>1, <1>2, <1>3, <1>5, <2>2, StartTaken
  <2> QED BY <2>1, <2>2
<1>13. SeenInv' /\ NoInnocentRemoval'
  BY <1>2, <1>6 DEF LedgerInv, SeenInv, NoInnocentRemoval
<1>14. Owned'
  <2>1. \A c \in Cids : Placed(c) => Placed(c)'
    BY <1>2, <1>5, DaemonAssumption DEF Placed, Booked
  <2> QED BY <1>2, <1>8, <2>1, OwnedKept DEF LedgerInv
<1> QED BY <1>9, <1>10, <1>11, <1>12, <1>13, <1>14 DEF LedgerInv

LEMMA TickRequeuesLedger ==
    ASSUME TypeInv, TypeInv', BoxInv, BoxInv', LedgerInv, TickRequeues
    PROVE  LedgerInv'
<1>1. PICK k : k = start[1].job
  OBVIOUS
<1>2. /\ tick = "requeue" /\ tick' = "act" /\ start # <<>> /\ k = Head(start).job
      /\ start' = Tail(start) /\ queue' = Append(queue, k)
      /\ now' = now /\ expired' = expired
      /\ UNCHANGED <<docker, registry, gate, created, task, phase, todo, snap, remove, posts>>
  BY <1>1, StartsAre DEF TickRequeues, TypeInv, TickOK, startup, world, bounds
<1>3. gate[k] # "running" /\ phase = "serving"
  BY <1>1, <1>2 DEF BoxInv, StartInv, StartingInv
<1>4. k \in Jobs /\ ~Unstarted(k) /\ 1 \in 1..Len(start)
  BY <1>1, <1>2, HeadIs, StartsAre
<1>5. \A i \in Jobs : InQueue(i)' <=> InQueue(i) \/ i = k
  BY <1>2, <1>4, AppendSet DEF TypeInv, TypeOK, InQueue
<1>6. \A i \in 1..Len(start') : \E n \in 1..Len(start) : start'[i] = start[n]
  BY <1>2, StartsLeft
<1>7. RequestsHandOn
  BY <1>2, NobodyMoves
<1>8. Letting'
  <2>1. ASSUME NEW i \in Jobs, Futile(i) PROVE registry'[i] = Reaped /\ Unborn(i)' /\ Unstarted(i)'
    <3>1. \A x \in 1..Len(start') : start'[x].job # i
      BY <1>6, <2>1 DEF Futile, Unstarted
    <3>2. ~InQueue(i)'
      BY <1>4, <1>5, <2>1 DEF Futile, Unstarted
    <3> QED BY <1>2, <2>1, <3>1, <3>2 DEF Futile, Unborn, Unstarted
  <2>2. \A i \in Jobs : Lost(i) => Lost(i)'
    BY <1>2 DEF Lost
  <2> QED BY <1>7, <2>1, <2>2, LettingKept DEF LedgerInv
<1>9. Linked'
  <2>1. Tracks(gate, k) => created[k] # NoCid
    BY <1>1, <1>4 DEF LedgerInv, Linked
  <2>2. ASSUME NEW x \in 1..Len(start'), Tracks(gate, start'[x].job) PROVE created[start'[x].job] # NoCid
    <3>1. PICK n \in 1..Len(start) : start'[x] = start[n]
      BY <1>6
    <3> QED BY <2>2, <3>1 DEF LedgerInv, Linked
  <2> QED BY <1>2, <1>5, <2>1, <2>2 DEF LedgerInv, Linked
<1>10. SlotInv' /\ RecordInv'
  <2>1. \A i \in Jobs : Requeued(i) => i = k
    BY <1>1 DEF Requeued
  <2> QED BY <1>2, <1>5, <1>7, <2>1, BooksKept DEF LedgerInv
<1>11. RunsOnce'
  BY <1>1, <1>2, <1>3, StartTaken
<1>12. SeenInv' /\ NoInnocentRemoval'
  BY <1>2 DEF LedgerInv, SeenInv, NoInnocentRemoval
<1>13. Owned'
  <2>1. \A c \in Cids : Placed(c) => Placed(c)'
    BY <1>2 DEF Placed, Booked
  <2> QED BY <1>2, <1>7, <2>1, OwnedKept DEF LedgerInv
<1> QED BY <1>8, <1>9, <1>10, <1>11, <1>12, <1>13 DEF LedgerInv

(* What is released has no container any more.                              *)
LEMMA TickReleasesVanishedLedger ==
    ASSUME TypeInv, TypeInv', BoxInv, BoxInv', LedgerInv, TickReleasesVanished
    PROVE  LedgerInv'
<1>1. PICK k : k = start[1].job
  OBVIOUS
<1>2. PICK c : c = start[1].cid
  OBVIOUS
<1>3. /\ tick = "vanish" /\ tick' = "act" /\ start # <<>> /\ start' = Tail(start)
      /\ gate' = Release(gate, k) /\ registry' = Forget(registry, k)
      /\ created' = ForgetCreated(created, {k}) /\ queue' = Without(queue, {k})
      /\ now' = now /\ expired' = expired
      /\ UNCHANGED <<docker, task, phase, todo, snap, remove, posts>>
  BY <1>1, StartsAre DEF TickReleasesVanished, TypeInv, TickOK, startup, world, bounds
<1>4. /\ k \in Jobs /\ c \in Cids /\ posts[k] # 0 /\ ~Unstarted(k)
      /\ \A e \in Own(k) : e = c \/ docker[e] = "unborn"
  BY <1>1, <1>2, <1>3, HeadIs
<1>5. \A e \in Own(k) : docker[e] # "created"
  BY <1>2, <1>3, <1>4 DEF LedgerInv, RunsOnce, Own
<1>6. \A i \in Jobs : InQueue(i)' <=> InQueue(i) /\ i # k
  BY <1>3, WithoutProperties DEF TypeInv, TypeOK, InQueue
<1>7. /\ gate'[k] = "untracked" /\ \A j \in Jobs : j # k => gate'[j] = gate[j]
      /\ created'[k] = NoCid /\ \A j \in Jobs : j # k => created'[j] = created[j]
      /\ \A j \in Jobs : j # k => registry'[j] = registry[j]
  BY <1>3, <1>4, RegistryShape DEF Release, ReleaseAll, Forget, ForgetAll, ForgetCreated
<1>8. \A i \in 1..Len(start') : \E n \in 1..Len(start) : n # 1 /\ start'[i] = start[n]
  BY <1>3, StartsLeft
<1>9. RequestsHandOn
  BY <1>3, NobodyMoves
<1>10. Letting'
  <2>1. ASSUME NEW i \in Jobs, Futile(i) PROVE registry'[i] = Reaped /\ Unborn(i)' /\ Unstarted(i)'
    <3>1. i # k
      BY <1>4, <2>1 DEF Futile
    <3>2. \A x \in 1..Len(start') : start'[x].job # i
      BY <1>8, <2>1 DEF Futile, Unstarted
    <3> QED BY <1>3, <1>6, <1>7, <2>1, <3>1, <3>2 DEF Futile, Unborn, Unstarted
  <2>2. \A i \in Jobs : Lost(i) => Lost(i)'
    BY <1>3, <1>7 DEF Lost, Tracks
  <2> QED BY <1>9, <2>1, <2>2, LettingKept DEF LedgerInv
<1>11. Linked'
  <2>1. ASSUME NEW x \in 1..Len(start'), Tracks(gate', start'[x].job) PROVE created'[start'[x].job] # NoCid
    <3>1. PICK n \in 1..Len(start) : start'[x] = start[n]
      BY <1>8
    <3>2. start[n].job # k
      BY <1>7, <2>1, <3>1 DEF Tracks
    <3> QED BY <1>7, <2>1, <3>1, <3>2, StartsAre DEF LedgerInv, Linked, Tracks
  <2> QED BY <1>6, <1>7, <2>1 DEF LedgerInv, Linked, Tracks
<1>12. SlotInv' /\ RecordInv'
  <2>1. \A i \in Jobs : ~Requeued(i)
    BY <1>3 DEF Requeued
  <2> QED BY <1>6, <1>7, <1>9, <2>1, BooksKept DEF LedgerInv, Tracks
<1>13. RunsOnce'
  BY <1>1, <1>3, <1>7, StartTaken
<1>14. SeenInv' /\ NoInnocentRemoval'
  BY <1>3 DEF LedgerInv, SeenInv, NoInnocentRemoval
<1>15. Owned'
  <2>1. ASSUME NEW e \in Cids, docker[e] = "created", Placed(e) PROVE Placed(e)'
    <3>1. JobOf[e] # k
      BY <1>5, <2>1 DEF Own
    <3> QED BY <1>3, <1>7, <2>1, <3>1, DaemonAssumption DEF Placed, Booked, Tracks
  <2> QED BY <1>3, <1>9, <2>1, OwnedKept DEF LedgerInv
<1> QED BY <1>10, <1>11, <1>12, <1>13, <1>14, <1>15 DEF LedgerInv

(* What the critical section decides, job by job: R is released, S started. *)
LEMMA Decides ==
    ASSUME TypeInv, BoxInv, TickReconciles
    PROVE  \E S \in SUBSET Jobs :
              /\ \A j \in S : InQueue(j) /\ j \notin Released /\ Tracks(gate, j)
              /\ \A j \in Jobs :
                    /\ gate'[j] = IF j \in S THEN "running"
                                  ELSE IF j \in Released THEN "untracked" ELSE gate[j]
                    /\ InQueue(j)' <=> InQueue(j) /\ j \notin Released /\ j \notin S
                    /\ created'[j] = IF j \in Released THEN NoCid ELSE created[j]
                    /\ j \notin Released => registry'[j] = registry[j]
              /\ \A i \in 1..Len(start') : /\ start'[i].job \in S
                                           /\ created[start'[i].job] # NoCid
              /\ \A j \in S : created[j] # NoCid => \E i \in 1..Len(start') : start'[i].cid = created[j]
<1> DEFINE q == Without(queue, Released)
           g == ReleaseAll(gate, Released)
           m == ForgetCreated(created, Released)
<1>1. PICK S \in SUBSET ToSet(q) :
        /\ Promotes(g, q, S) /\ gate' = StartAll(g, S) /\ queue' = Without(q, S) /\ created' = m
        /\ LET w == Only(q, {j \in S : m[j] # NoCid})
           IN start' = [n \in 1..Len(w) |-> [job |-> w[n], cid |-> m[w[n]]]]
  BY DEF TickReconciles
<1>2. q \in Seq(Jobs) /\ ToSet(q) = ToSet(queue) \ Released
  BY WithoutProperties DEF TypeInv, TypeOK
<1>3. \A j \in Jobs : g[j] = IF j \in Released THEN "untracked" ELSE gate[j]
  BY DEF ReleaseAll
<1>4. \A j \in Jobs : m[j] = IF j \in Released THEN NoCid ELSE created[j]
  BY DEF ForgetCreated
<1> HIDE DEF q, g, m
<1>5. PICK w : w = Only(q, {j \in S : m[j] # NoCid})
  OBVIOUS
<1>6. S \in SUBSET Jobs /\ \A j \in S : InQueue(j) /\ j \notin Released
  BY <1>2 DEF ToSet, InQueue
<1>7. ASSUME NEW j \in S PROVE Tracks(gate, j)
  <2>1. InQueue(j) /\ j \notin Released /\ j \in Jobs
    BY <1>6
  <2>2. PICK i \in 1..Len(q) : q[i] = j
    BY DEF ToSet
  <2>3. \A l, k \in 1..Len(q) : q[l] = q[k] => l = k
    BY WithoutDistinct DEF q, TypeInv, TypeOK, BoxInv, QueueInv
  <2>4. \A k \in 1..(i - 1) : k \in 1..Len(q) /\ k # i
    BY <1>2, <2>2
  <2>5. \A k \in 1..(i - 1) : q[k] # q[i]
    BY <2>2, <2>3, <2>4
  <2>6. Tracks(g, j)
    BY <1>1, <2>2, <2>5 DEF Promotes
  <2> QED BY <1>3, <2>1, <2>6 DEF Tracks
<1>8. \A j \in Jobs : gate'[j] = IF j \in S THEN "running"
                                 ELSE IF j \in Released THEN "untracked" ELSE gate[j]
  BY <1>1, <1>3 DEF StartAll
<1>9. ToSet(queue') = ToSet(q) \ S
  BY <1>1, <1>2, WithoutProperties
<1>10. \A j \in Jobs : j \notin Released => registry'[j] = registry[j]
  BY RegistryShape DEF TickReconciles, ForgetAll
<1>11. w \in Seq(Jobs) /\ ToSet(w) = ToSet(q) \cap {j \in S : m[j] # NoCid}
  BY <1>2, <1>5, OnlyProperties
<1>12. Len(w) \in Nat /\ start' = [n \in 1..Len(w) |-> [job |-> w[n], cid |-> m[w[n]]]]
  BY <1>1, <1>5, <1>11
<1>13. Len(start') = Len(w) /\ \A i \in 1..Len(w) : start'[i].job = w[i] /\ start'[i].cid = m[w[i]]
  BY <1>12
<1>14. ASSUME NEW i \in 1..Len(start') PROVE start'[i].job \in S /\ created[start'[i].job] # NoCid
  <2>1. w[i] \in ToSet(w) /\ start'[i].job = w[i]
    BY <1>13 DEF ToSet
  <2> QED BY <1>4, <1>6, <1>11, <2>1
<1>15. ASSUME NEW j \in S, created[j] # NoCid PROVE \E i \in 1..Len(start') : start'[i].cid = created[j]
  <2>1. m[j] = created[j] /\ j \in ToSet(q)
    BY <1>4, <1>6
  <2>2. j \in ToSet(w)
    BY <1>11, <1>15, <2>1
  <2>3. PICK i \in 1..Len(w) : w[i] = j
    BY <2>2 DEF ToSet
  <2> QED BY <1>13, <2>1, <2>3
<1>16. \A j \in Jobs : created'[j] = IF j \in Released THEN NoCid ELSE created[j]
  BY <1>1, <1>4
<1>17. \A j \in Jobs : InQueue(j)' <=> InQueue(j) /\ j \notin Released /\ j \notin S
  BY <1>2, <1>9 DEF InQueue
<1> QED BY <1>6, <1>7, <1>8, <1>10, <1>14, <1>15, <1>16, <1>17

(* The tick keeps the books: it takes from the queue what it charges, and   *)
(* removes only what has exited, is gone or has passed its deadline.        *)
LEMMA ReconcileLedger ==
    ASSUME TypeInv, TypeInv', BoxInv, BoxInv', LedgerInv, TickReconciles
    PROVE  LedgerInv'
<1>2. /\ tick = "reconcile" /\ tick' = "act" /\ remove' = Doomed /\ snap' = Unseen /\ now' = {}
      /\ UNCHANGED <<docker, task, phase, todo, posts, expired>>
  BY DEF TickReconciles, startup, world, bounds
<1>3. phase = "serving" /\ start = <<>> /\ todo = {} /\ remove = {} /\ now \subseteq expired
  BY <1>2 DEF BoxInv, StartingInv, StartInv, LedgerInv, SeenInv
<1>4. PICK S \in SUBSET Jobs :
              /\ \A j \in S : InQueue(j) /\ j \notin Released /\ Tracks(gate, j)
              /\ \A j \in Jobs :
                    /\ gate'[j] = IF j \in S THEN "running"
                                  ELSE IF j \in Released THEN "untracked" ELSE gate[j]
                    /\ InQueue(j)' <=> InQueue(j) /\ j \notin Released /\ j \notin S
                    /\ created'[j] = IF j \in Released THEN NoCid ELSE created[j]
                    /\ j \notin Released => registry'[j] = registry[j]
              /\ \A i \in 1..Len(start') : /\ start'[i].job \in S
                                           /\ created[start'[i].job] # NoCid
              /\ \A j \in S : created[j] # NoCid => \E i \in 1..Len(start') : start'[i].cid = created[j]
  BY Decides
<1>5. \A c \in Cids : docker[c] = "created" => gate[JobOf[c]] # "running"
  <2>1. 1..Len(<<>>) = {}
    OBVIOUS
  <2> QED BY <1>3, <2>1 DEF LedgerInv, RunsOnce
<1>6. \A c \in Doomed : c \in Cids /\ Born(c)
  BY DEF Doomed, BoxInv, SnapInv
<1>7. ASSUME NEW j \in Released PROVE gate[j] = "running" \/ \E c \in Doomed : JobOf[c] = j
  BY DEF Released, Vanished, RunningIds
<1>8. RequestsHandOn
  BY <1>2, NobodyMoves
<1>9. Letting'
  <2>1. ASSUME NEW i \in Jobs, Futile(i) PROVE registry'[i] = Reaped /\ Unborn(i)' /\ Unstarted(i)'
    <3>1. i \notin Released
      BY <1>6, <1>7, <2>1 DEF Futile, Unborn, Unstarted, Own, Born
    <3>2. i \notin S /\ \A x \in 1..Len(start') : start'[x].job # i
      BY <1>4, <2>1 DEF Futile, Unstarted
    <3> QED BY <1>2, <1>4, <2>1, <3>1, <3>2 DEF Futile, Unborn, Unstarted
  <2>2. \A i \in Jobs : Lost(i) => Lost(i)'
    BY <1>2, <1>4 DEF Lost, Tracks
  <2> QED BY <1>8, <2>1, <2>2, LettingKept DEF LedgerInv
<1>10. Linked'
  <2>1. ASSUME NEW i \in Jobs, InQueue(i)', Tracks(gate', i) PROVE created'[i] # NoCid
    BY <1>4, <2>1 DEF LedgerInv, Linked, Tracks
  <2>2. ASSUME NEW x \in 1..Len(start') PROVE created'[start'[x].job] # NoCid
    BY <1>4
  <2> QED BY <2>1, <2>2 DEF Linked
<1>11. SlotInv' /\ RecordInv'
  <2>1. \A i \in Jobs : ~Requeued(i)
    BY <1>2 DEF Requeued
  <2>2. \A i \in Jobs : gate'[i] = "queued" => gate[i] = "queued" /\ i \notin S /\ i \notin Released
    BY <1>4
  <2>3. \A i \in Jobs : /\ Tracks(gate', i) => Tracks(gate, i) /\ i \notin Released
                        /\ created'[i] # NoCid => i \notin Released /\ created[i] # NoCid
                        /\ i \notin Released /\ ~Tracks(gate', i) => ~Tracks(gate, i)
    BY <1>4 DEF Tracks
  <2> QED BY <1>4, <1>8, <2>1, <2>2, <2>3, BooksKept DEF LedgerInv
<1>12. RunsOnce'
  <2> SUFFICES ASSUME NEW c \in Cids, docker[c] = "created", gate'[JobOf[c]] = "running"
               PROVE  \E i \in 1..Len(start') : start'[i].cid = c
    BY <1>2 DEF RunsOnce
  <2>1. PICK j \in Jobs : j = JobOf[c]
    BY DaemonAssumption
  <2>2. j \in S
    BY <1>4, <1>5, <2>1
  <2>3. created[j] # NoCid
    BY <1>4, <2>2 DEF LedgerInv, Linked
  <2>4. created[j] = c
    <3>1. created[j] \in Cids /\ JobOf[created[j]] = j /\ Born(created[j])
      BY <2>3 DEF BoxInv, MemoryInv, TypeInv, TypeOK
    <3> QED BY <2>1, <3>1 DEF BoxInv, OneBorn, Born
  <2> QED BY <1>4, <2>2, <2>3, <2>4
<1>13. SeenInv'
  BY <1>2, <1>3 DEF SeenInv, Unseen
<1>14. NoInnocentRemoval'
  <2> SUFFICES ASSUME NEW c \in Doomed, JobOf[c] \notin now
               PROVE  docker[c] \in {"exited", "gone"}
    BY <1>2, <1>3 DEF NoInnocentRemoval
  <2>1. c \in Cids /\ Born(c) /\ snap[c] # "running" /\ gate[JobOf[c]] = "running"
    BY <1>6 DEF Doomed
  <2>2. docker[c] # "created"
    BY <1>5, <2>1
  <2>3. docker[c] # "running"
    BY <1>2, <2>1 DEF BoxInv, SnapInv, RunningContainers
  <2>4. docker[c] \in ContainerStates
    BY <2>1 DEF TypeInv, TypeOK
  <2> QED BY <2>1, <2>2, <2>3, <2>4 DEF ContainerStates, Born
<1>15. Owned'
  <2>1. ASSUME NEW c \in Cids, docker[c] = "created", Placed(c) PROVE Placed(c)'
    <3>1. PICK j \in Jobs : j = JobOf[c]
      BY DaemonAssumption
    <3>2. Booked(c)
      BY <1>3, <2>1 DEF Placed
    <3>3. CASE j \notin Released
      BY <1>4, <3>1, <3>2, <3>3 DEF Placed, Booked, Tracks
    <3>4. CASE j \in Released
      <4>1. PICK e \in Doomed : JobOf[e] = j
        BY <1>5, <1>7, <2>1, <3>1, <3>4
      <4>2. e = c
        BY <1>6, <2>1, <3>1, <4>1 DEF BoxInv, OneBorn, Born
      <4> QED BY <1>2, <4>1, <4>2 DEF Placed
    <3> QED BY <3>3, <3>4
  <2> QED BY <1>2, <1>8, <2>1, OwnedKept DEF LedgerInv
<1> QED BY <1>9, <1>10, <1>11, <1>12, <1>13, <1>14, <1>15 DEF LedgerInv

-----------------------------------------------------------------------------
(* Start-up, stops and the books.                                            *)

(* Before the daemon serves, no request holds anything.                     *)
LEMMA NobodyHolds ==
    ASSUME TypeInv, BoxInv, LedgerInv, phase # "serving"
    PROVE  /\ start = <<>> /\ tick = "idle" /\ 1..Len(start) = {}
           /\ \A t \in Tasks : task[t] = Idle
           /\ \A j \in Jobs : ~Pending(j) /\ (created[j] # NoCid <=> Tracks(gate, j))
           /\ \A c \in Cids : docker[c] = "created" => gate[JobOf[c]] # "running"
<1>1. start = <<>> /\ tick = "idle" /\ \A t \in Tasks : task[t] = Idle
  BY Starting
<1>2. 1..Len(<<>>) = {}
  OBVIOUS
<1>3. \A j \in Jobs : ~Pending(j) /\ (created[j] # NoCid <=> Tracks(gate, j))
  BY <1>1 DEF LedgerInv, RecordInv, CreatedGhost, Pending, PendingPc, InRelease, Idle
<1>4. \A c \in Cids : docker[c] = "created" => gate[JobOf[c]] # "running"
  BY <1>1, <1>2 DEF LedgerInv, RunsOnce
<1> QED BY <1>1, <1>2, <1>3, <1>4

(* A step of start-up that leaves the books to those that follow it.        *)
LEMMA StartUpLedger ==
    ASSUME TypeInv, BoxInv, LedgerInv, phase # "serving",
           UNCHANGED <<task, tick, start, docker>>,
           \A j \in Jobs : /\ j \in ToSet(queue') /\ Tracks(gate', j) => created'[j] # NoCid
                           /\ created'[j] # NoCid <=> Tracks(gate', j)
                           /\ gate'[j] = "queued" => j \in ToSet(queue'),
           \A c \in Cids : docker[c] = "created" => gate'[JobOf[c]] # "running",
           SeenInv', NoInnocentRemoval',
           "create_lost" \notin Faults => \A c \in Cids : docker[c] = "created" => Placed(c)'
    PROVE  LedgerInv'
<1>1. /\ start' = <<>> /\ tick' = "idle" /\ 1..Len(start') = {}
      /\ \A t \in Tasks : task'[t] = Idle
  BY NobodyHolds
<1>2. Letting'
  BY <1>1 DEF Letting, Idle, InRelease
<1>3. Linked'
  BY <1>1 DEF Linked, InQueue
<1>4. SlotInv' /\ RecordInv'
  BY DEF SlotInv, RecordInv, CreatedGhost, InQueue
<1>5. RunsOnce'
  BY <1>1 DEF RunsOnce
<1>6. Owned'
  BY DEF Owned, Placed
<1> QED BY <1>2, <1>3, <1>4, <1>5, <1>6 DEF LedgerInv

(* Every container that waits to start is somewhere in start-up's hands.    *)
LEMMA StartUpPlaces ==
    ASSUME TypeInv, BoxInv, LedgerInv, phase # "serving"
    PROVE  /\ "create_lost" \notin Faults =>
                 \A c \in Cids : docker[c] = "created" => Placed(c)
           /\ \A j \in Jobs : /\ created[j] # NoCid <=> Tracks(gate, j)
                              /\ gate[j] = "queued" => InQueue(j)
<1>1. \A c \in Cids : \A t \in Tasks : ~Holds(task[t], c)
  BY NobodyHolds DEF Holds, Idle
<1>2. \A j \in Jobs : gate[j] = "queued" => InQueue(j)
  BY NobodyHolds DEF LedgerInv, SlotInv, Requeued
<1> QED BY <1>1, <1>2, NobodyHolds DEF LedgerInv, Owned, Placed

LEMMA ListsLedger ==
    ASSUME TypeInv, TypeInv', BoxInv, BoxInv', LedgerInv, StartUp \/ AdoptReadsClock
    PROVE  LedgerInv'
<1>1. /\ phase # "serving" /\ phase' # "serving"
      /\ UNCHANGED <<task, tick, start, docker, gate, queue, created, snap, remove, expired>>
      /\ now' = now \/ now' = expired
  BY DEF StartUp, AdoptReadsClock, memory, ticker, world
<1>2. SeenInv'
  BY <1>1 DEF LedgerInv, SeenInv
<1>3. NoInnocentRemoval'
  BY <1>1 DEF NoInnocentRemoval
<1>4. ASSUME NEW c \in Cids, docker[c] = "created", Placed(c) PROVE Placed(c)'
  <2>1. CASE StartUp
    BY <2>1, <1>4 DEF StartUp, Placed, Live
  <2>2. CASE AdoptReadsClock
    BY <2>2, <1>1, <1>4 DEF AdoptReadsClock, Placed, Booked
  <2> QED BY <2>1, <2>2
<1> QED BY <1>1, <1>2, <1>3, <1>4, StartUpPlaces, NobodyHolds, StartUpLedger DEF InQueue

LEMMA AdoptInspectsLedger ==
    ASSUME TypeInv, TypeInv', BoxInv, BoxInv', LedgerInv, Reliable, NEW c \in Cids, AdoptInspects(c)
    PROVE  LedgerInv'
<1>1. /\ phase = "inspecting" /\ snap' = [snap EXCEPT ![c] = Sighting(c)] /\ todo' = todo \ {c}
      /\ UNCHANGED <<task, tick, start, docker, gate, queue, created, phase, remove, expired, now>>
  BY DEF AdoptInspects, memory, world, Reliable, Misreports
<1>2. snap'[c] = Sighting(c) /\ \A e \in Cids \ {c} : snap'[e] = snap[e]
  BY <1>1 DEF TypeInv, TypeOK
<1>3. SeenInv'
  BY <1>1, <1>2 DEF LedgerInv, SeenInv, Sighting, Live
<1>4. NoInnocentRemoval'
  BY <1>1 DEF NoInnocentRemoval
<1>5. ASSUME NEW e \in Cids, docker[e] = "created", Placed(e) PROVE Placed(e)'
  BY <1>1, <1>2, <1>5 DEF Placed, Booked, Sighting, Live
<1> QED BY <1>1, <1>3, <1>4, <1>5, StartUpPlaces, NobodyHolds, StartUpLedger DEF InQueue

LEMMA AdoptDoomsLedger ==
    ASSUME TypeInv, TypeInv', BoxInv, BoxInv', LedgerInv, NEW c \in Cids, AdoptDooms(c)
    PROVE  LedgerInv'
<1>1. /\ phase = "adopting" /\ remove' = remove \cup {c} /\ todo' = todo \ {c}
      /\ UNCHANGED <<task, tick, start, docker, gate, queue, created, phase, snap, expired, now>>
  BY DEF AdoptDooms, memory, world
<1>2. SeenInv'
  BY <1>1 DEF LedgerInv, SeenInv
<1>3. NoInnocentRemoval'
  BY <1>1 DEF NoInnocentRemoval
<1>4. ASSUME NEW e \in Cids, Placed(e) PROVE Placed(e)'
  BY <1>1, <1>4 DEF Placed, Booked
<1> QED BY <1>1, <1>2, <1>3, <1>4, StartUpPlaces, NobodyHolds, StartUpLedger DEF InQueue

(* A running container takes its slot back; what has run is not created.    *)
LEMMA AdoptResumesLedger ==
    ASSUME TypeInv, TypeInv', BoxInv, BoxInv', LedgerInv, NEW c \in Cids, AdoptResumes(c)
    PROVE  LedgerInv'
<1>1. PICK j \in Jobs : j = JobOf[c]
  BY DaemonAssumption
<1>2. /\ phase = "adopting" /\ snap[c] = "running" /\ todo' = todo \ {c} /\ ~Tracks(gate, j)
      /\ gate' = AdoptRunning(gate, j) /\ created' = [created EXCEPT ![j] = c]
      /\ UNCHANGED <<task, tick, start, docker, queue, phase, remove, snap, expired, now>>
  BY <1>1 DEF AdoptResumes, Adopting, ticker, world
<1>3. gate'[j] = "running" /\ \A i \in Jobs \ {j} : gate'[i] = gate[i]
  BY <1>2 DEF AdoptRunning, TypeInv, TypeOK, GateStates
<1>4. created'[j] = c /\ c # NoCid /\ \A i \in Jobs \ {j} : created'[i] = created[i]
  BY <1>2, RegistryAssumption DEF TypeInv, TypeOK
<1>5. Born(c) /\ docker[c] # "created"
  BY <1>2 DEF BoxInv, SnapInv, LedgerInv, SeenInv
<1>6. \A e \in Cids : docker[e] = "created" => JobOf[e] # j
  BY <1>1, <1>5 DEF BoxInv, OneBorn, Born
<1>7. SeenInv'
  BY <1>2 DEF LedgerInv, SeenInv
<1>8. NoInnocentRemoval'
  BY <1>2 DEF NoInnocentRemoval
<1>9. ASSUME NEW e \in Cids, docker[e] = "created", Placed(e) PROVE Placed(e)'
  BY <1>2, <1>3, <1>4, <1>5, <1>6, <1>9, DaemonAssumption DEF Placed, Booked, Tracks
<1>10. \A e \in Cids : docker[e] = "created" => gate'[JobOf[e]] # "running"
  BY <1>2, <1>3, <1>6, NobodyHolds, DaemonAssumption
<1>11. \A i \in Jobs : /\ created'[i] # NoCid <=> Tracks(gate', i)
                       /\ gate'[i] = "queued" => i \in ToSet(queue')
  BY <1>2, <1>3, <1>4, StartUpPlaces DEF Tracks, InQueue
<1> QED BY <1>2, <1>7, <1>8, <1>9, <1>10, <1>11, StartUpPlaces, StartUpLedger

(* A container that had not started waits again.                            *)
LEMMA AdoptRequeuesLedger ==
    ASSUME TypeInv, TypeInv', BoxInv, BoxInv', LedgerInv, NEW c \in Cids, AdoptRequeues(c)
    PROVE  LedgerInv'
<1>1. PICK j \in Jobs : j = JobOf[c]
  BY DaemonAssumption
<1>2. /\ phase = "adopting" /\ todo' = todo \ {c} /\ ~Tracks(gate, j)
      /\ gate' = Admit(gate, j) /\ created' = [created EXCEPT ![j] = c]
      /\ queue' = Append(queue, j)
      /\ UNCHANGED <<task, tick, start, docker, phase, remove, snap, expired, now>>
  BY <1>1 DEF AdoptRequeues, Adopting, AdmitOutcome, ticker, world
<1>3. gate'[j] = "queued" /\ \A i \in Jobs \ {j} : gate'[i] = gate[i]
  BY <1>2 DEF Admit, TypeInv, TypeOK, GateStates
<1>4. created'[j] = c /\ c # NoCid /\ \A i \in Jobs \ {j} : created'[i] = created[i]
  BY <1>2, RegistryAssumption DEF TypeInv, TypeOK
<1>5. ToSet(queue') = ToSet(queue) \cup {j}
  BY <1>2, AppendSet DEF TypeInv, TypeOK
<1>6. SeenInv'
  BY <1>2 DEF LedgerInv, SeenInv
<1>7. NoInnocentRemoval'
  BY <1>2 DEF NoInnocentRemoval
<1>8. ASSUME NEW e \in Cids, Placed(e) PROVE Placed(e)'
  <2>1. CASE JobOf[e] = j
    <3>1. ~Booked(e)
      BY <1>2, <2>1 DEF Booked
    <3>2. e \in todo \cup remove
      BY <1>2, <1>8, <3>1 DEF Placed
    <3>3. CASE e = c
      BY <1>1, <1>3, <1>4, <3>3 DEF Placed, Booked, Tracks
    <3>4. CASE e # c
      BY <1>2, <3>2, <3>4 DEF Placed
    <3> QED BY <3>3, <3>4
  <2>2. CASE JobOf[e] # j
    BY <1>1, <1>2, <1>3, <1>4, <1>8, <2>2, DaemonAssumption DEF Placed, Booked, Tracks
  <2> QED BY <2>1, <2>2
<1>9. \A e \in Cids : docker[e] = "created" => gate'[JobOf[e]] # "running"
  BY <1>2, <1>3, NobodyHolds, DaemonAssumption
<1>10. \A i \in Jobs : /\ created'[i] # NoCid <=> Tracks(gate', i)
                       /\ gate'[i] = "queued" => i \in ToSet(queue')
  BY <1>2, <1>3, <1>4, <1>5, StartUpPlaces DEF Tracks, InQueue
<1> QED BY <1>2, <1>6, <1>7, <1>8, <1>9, <1>10, StartUpPlaces, StartUpLedger

LEMMA AdoptRemovesLedger ==
    ASSUME TypeInv, TypeInv', BoxInv, BoxInv', LedgerInv, Reliable, NEW c \in Cids, AdoptRemoves(c)
    PROVE  LedgerInv'
BY Removes, DoomedGoes DEF AdoptRemoves, memory, startup, bounds

LEMMA PullBindsLedger ==
    ASSUME TypeInv, TypeInv', BoxInv, BoxInv', LedgerInv, PullBinds
    PROVE  LedgerInv'
<1>1. /\ phase = "adopting" /\ todo = {} /\ remove = {} /\ now' = {} /\ snap' = Unseen
      /\ UNCHANGED <<task, tick, start, docker, gate, queue, created, todo, remove, expired>>
  BY DEF PullBinds, Adopted, memory
<1>2. SeenInv' /\ NoInnocentRemoval'
  BY <1>1 DEF SeenInv, NoInnocentRemoval, Unseen
<1>3. \A e \in Cids : Placed(e) => Placed(e)'
  BY <1>1 DEF Placed, Booked
<1> QED BY <1>1, <1>2, <1>3, StartUpPlaces, NobodyHolds, StartUpLedger DEF InQueue

(* A stop leaves nothing on the books.                                      *)
LEMMA EmptyLedger ==
    ASSUME NEW g \in [Jobs -> {"untracked"}],
           gate' = g, queue' = <<>>, created' = NoCreated,
           task' = [t \in Tasks |-> Idle], phase' = "down", todo' = {}, tick' = "idle",
           now' = {}, snap' = Unseen, remove' = {}, start' = <<>>
    PROVE  LedgerInv'
<1>1. 1..Len(<<>>) = {} /\ ToSet(<<>>) = {}
  BY DEF ToSet
<1>2. Letting' /\ Linked' /\ SlotInv' /\ RecordInv'
  BY <1>1, DaemonAssumption
     DEF Letting, Linked, SlotInv, RecordInv, CreatedGhost, InQueue, Tracks, NoCreated, Idle, InRelease
<1>3. RunsOnce' /\ SeenInv' /\ NoInnocentRemoval' /\ Owned'
  BY DaemonAssumption DEF RunsOnce, SeenInv, NoInnocentRemoval, Owned, Unseen
<1> QED BY <1>2, <1>3 DEF LedgerInv

LEMMA GoneLedger == ASSUME ProcessGone PROVE LedgerInv'
BY EmptyLedger DEF ProcessGone, EmptyGate

LEMMA LedgerInit == Init => LedgerInv
<1> SUFFICES ASSUME Init PROVE LedgerInv
  OBVIOUS
<1>1. 1..Len(<<>>) = {} /\ ToSet(<<>>) = {}
  BY DEF ToSet
<1>2. Letting /\ Linked /\ SlotInv /\ RecordInv
  BY <1>1, DaemonAssumption
     DEF Init, EmptyGate, Letting, Linked, SlotInv, RecordInv, CreatedGhost, InQueue, Tracks,
         NoCreated, Idle, InRelease
<1>3. RunsOnce /\ SeenInv /\ NoInnocentRemoval /\ Owned
  BY DaemonAssumption DEF Init, RunsOnce, SeenInv, NoInnocentRemoval, Owned, Unseen
<1> QED BY <1>2, <1>3 DEF LedgerInv

-----------------------------------------------------------------------------
(* Every step keeps the books, and what the books say.                       *)

LEMMA LedgerNext ==
    ASSUME Reliable, TypeInv, TypeInv', BoxInv, BoxInv', LedgerInv, [Next]_vars
    PROVE  LedgerInv'
<1>1. ASSUME NEW t \in Tasks, Request(t) \/ TaskStep(t) \/ DestroyDisconnected(t) PROVE LedgerInv'
  <2>1. CASE Request(t)
    BY <2>1, CreateJobLedger, ReapJobLedger, DestroyLedger DEF Request
  <2>2. CASE CreateStep(t)
    <3>1. CASE RememberCreated(t)
      BY <3>1, RemembersLedger, AsideLedger
    <3> QED BY <2>2, <3>1, ClaimsLedger, FailsLedger, FinishesLedger, DiscardsLedger,
               DestroyLedger, DockerCreatesLedger DEF CreateStep
  <2>3. CASE DestroyStep(t)
    BY <2>3, RemovesLedger, ForgetsLedger DEF DestroyStep
  <2>4. CASE ReapStep(t)
    BY <2>4, ReapLedger
  <2>5. CASE ReleaseStep(t)
    BY <2>5, ReleaseGateLedger, ReleaseQueueLedger, ReleaseCreatedLedger DEF ReleaseStep
  <2>6. CASE DestroyDisconnected(t)
    BY <2>6, DisconnectedLedger
  <2> QED BY <1>1, <2>1, <2>2, <2>3, <2>4, <2>5, <2>6 DEF TaskStep
<1>2. CASE TickStep
  BY <1>2, TickListsLedger, ReconcileLedger, TickEndsLedger, TickStartsLedger, TickUnstartsLedger,
     TickRequeuesLedger, TickReleasesVanishedLedger, TickRemovesLedger DEF TickStep
<1>3. ASSUME docker' = docker, registry' = registry, BooksSame, task' = task,
             now' = now, expired \subseteq expired'
      PROVE  LedgerInv'
  BY <1>3, SameWorldFalls, OutsideLedger
<1>4. CASE StartUpStep
  <2>1. CASE PullFails
    BY <2>1, <1>3 DEF PullFails, BooksSame, memory, ticker, world, bounds
  <2>2. CASE PullGivesUp
    BY <2>2, GoneLedger DEF PullGivesUp
  <2> QED BY <1>4, <2>1, <2>2, ListsLedger, PullBindsLedger, AdoptInspectsLedger,
             AdoptResumesLedger, AdoptRequeuesLedger, AdoptDoomsLedger, AdoptRemovesLedger
          DEF StartUpStep
<1>5. CASE Environment
  <2>1. CASE Crash
    BY <2>1, GoneLedger DEF Crash
  <2>2. CASE ImageLost \/ ImageRefreshed
    BY <2>2, <1>3 DEF ImageLost, ImageRefreshed, BooksSame, memory, startup, ticker, bounds
  <2>3. ASSUME NEW c \in Cids, ContainerExits(c) PROVE LedgerInv'
    <3>1. /\ registry' = registry /\ BooksSame /\ task' = task
          /\ now' = now /\ expired' = expired
      BY <2>3 DEF ContainerExits, BooksSame, memory, startup, ticker, bounds
    <3>2. DockerFalls
      BY <2>3 DEF ContainerExits, DockerFalls, TypeInv, TypeOK
    <3> QED BY <3>1, <3>2, OutsideLedger
  <2>4. ASSUME NEW j \in Jobs, DeadlinePasses(j) PROVE LedgerInv'
    BY <2>4, <1>3 DEF DeadlinePasses, BooksSame, memory, startup, ticker, bounds
  <2> QED BY <1>5, <2>1, <2>2, <2>3, <2>4, AgesLedger DEF Environment
<1>6. CASE UNCHANGED vars
  BY <1>6, <1>3 DEF vars, BooksSame, memory, startup, ticker, world, bounds
<1> QED BY <1>1, <1>2, <1>4, <1>5, <1>6 DEF Next

LEMMA LedgerAlways == ASSUME Reliable PROVE Spec => [](TypeInv /\ BoxInv /\ LedgerInv)
<1>1. Init => TypeInv /\ BoxInv /\ LedgerInv
  BY TypeInit, BoxInit, LedgerInit
<1>2. TypeInv /\ BoxInv /\ LedgerInv /\ [Next]_vars => TypeInv' /\ BoxInv' /\ LedgerInv'
  BY TypeNext, BoxNext, LedgerNext
<1> QED BY <1>1, <1>2, PTL DEF Spec

LEMMA LedgerAgrees == LedgerInv => MapsAgree
<1> SUFFICES ASSUME LedgerInv, NEW j \in Jobs, NoRequest(j)
             PROVE  created[j] # NoCid <=> Tracks(gate, j)
  BY DEF MapsAgree
<1>1. ~Pending(j) /\ \A t \in Tasks : task[t].job # j
  BY DEF NoRequest, Pending
<1> QED BY <1>1 DEF LedgerInv, RecordInv, CreatedGhost

LEMMA LedgerLeaksNothing == TypeInv /\ LedgerInv => NoLeakedSlot
<1> SUFFICES ASSUME TypeInv, LedgerInv, NEW j \in Jobs, gate[j] = "queued"
             PROVE  \/ InQueue(j) \/ CreateInFlight(j) \/ ReleaseInFlight(j)
                    \/ tick = "requeue" /\ Head(start).job = j
  BY DEF NoLeakedSlot
<1>1. CASE Pending(j)
  BY <1>1 DEF Pending, PendingPc, CreateInFlight, ReleaseInFlight
<1>2. CASE Requeued(j)
  BY <1>2, StartsAre DEF Requeued, TypeInv, TickOK
<1> QED BY <1>1, <1>2 DEF LedgerInv, SlotInv

LEMMA LedgerHasNoOrphan ==
    ASSUME TypeInv, BoxInv, LedgerInv, "create_lost" \notin Faults
    PROVE  NoOrphan
<1> SUFFICES ASSUME NEW c \in Cids, phase = "serving", docker[c] = "created",
                    NoRequest(JobOf[c]), tick = "idle"
             PROVE  InQueue(JobOf[c]) /\ created[JobOf[c]] = c /\ gate[JobOf[c]] = "queued"
  BY DEF NoOrphan
<1>1. PICK j \in Jobs : j = JobOf[c]
  BY DaemonAssumption
<1>2. todo = {} /\ remove = {} /\ start = <<>> /\ 1..Len(<<>>) = {}
  BY DEF LedgerInv, SeenInv, BoxInv, StartInv
<1>3. \A t \in Tasks : task[t].job # j
  BY <1>1 DEF NoRequest
<1>4. created[j] = c /\ Tracks(gate, j)
  BY <1>1, <1>2, <1>3 DEF LedgerInv, Owned, Holds, Booked
<1>5. gate[j] = "queued"
  <2>1. gate[j] # "running"
    BY <1>1, <1>2 DEF LedgerInv, RunsOnce
  <2> QED BY <1>4, <2>1 DEF Tracks, TypeInv, TypeOK, GateStates, Entries
<1>6. InQueue(j)
  BY <1>3, <1>5 DEF LedgerInv, SlotInv, Pending, Requeued
<1> QED BY <1>1, <1>4, <1>5, <1>6

(* For every set of jobs and containers, any number of requests at once and *)
(* of crashes, and creates, starts, pulls and clients that fail at any      *)
(* time: the gate and the created map agree with each other and with what   *)
(* runs, and no tick removes a container that belongs.                      *)
THEOREM BooksAlwaysBalance ==
    ASSUME Reliable PROVE Spec => []BooksBalance
<1>1. TypeInv /\ BoxInv /\ LedgerInv => BooksBalance
  BY LedgerAgrees DEF BooksBalance, BoxInv, LedgerInv
<1> QED BY <1>1, LedgerAlways, PTL

(* If Docker never creates a container behind a failed answer, then nothing *)
(* is lost either: every admitted job that waits has something to move it   *)
(* on, and every container on disk has someone to start or to remove it.    *)
THEOREM NothingIsLost ==
    ASSUME Reliable, "create_lost" \notin Faults PROVE Spec => []NothingLost
<1>1. TypeInv /\ BoxInv /\ LedgerInv => NothingLost
  BY LedgerLeaksNothing, LedgerHasNoOrphan DEF NothingLost, BoxInv, LedgerInv
<1> QED BY <1>1, LedgerAlways, PTL
=============================================================================
