----------------------------- MODULE CacheProofs -----------------------------
(***************************************************************************)
(* Proofs about module Cache for any archives, jobs, clients and bounds.   *)
(*                                                                         *)
(* CacheInv says who wrote what: an entry was saved by a job of its scope  *)
(* that may write and describes a content somebody saved whole, and so do  *)
(* the entries a collector holds to write back.  It yields the types, that *)
(* no entry lies, and that no restore is poisoned.                         *)
(*                                                                         *)
(* StoreInv adds what the collector relies on when it runs alone and no    *)
(* power was lost: in each of its phases the index, what it keeps and what *)
(* it will delete fit together, and a save is written before it is         *)
(* indexed.  It yields that index and store agree.                         *)
(***************************************************************************)
EXTENDS Cache, SequenceTheorems, FiniteSetTheorems, WellFoundedInduction, TLAPS

\* ----- Types.

Content == Seq(Chunks)

FileType ==
  /\ chunks \in [Chunks -> {"absent", "good", "torn"}]
  /\ manifests \subseteq Content
  /\ index \in [Scopes -> Seq(Entry)] /\ tail \in [Scopes -> BOOLEAN]
  /\ \A i \in DOMAIN stage : i \in 1..ops /\ stage[i] \in Content
  /\ now \in 0..MaxTime /\ ops \in 0..MaxOps

Phases == {"off", "plan", "rewrite", "live", "manifests", "chunks"}

Pass == [pc : Phases, keep : [Scopes -> Seq(Entry)], logs : SUBSET Scopes,
         live : SUBSET Content, list : SUBSET Content]

JobType ==
  /\ job \in [Jobs -> {"wait", "up"} \cup Over] /\ spec \in [Jobs -> Specs]
  /\ gc \in [Jobs -> Pass]
  /\ \A j \in Jobs : gc[j].pc # "off" <=> job[j] = "gc"
  /\ pending \subseteq [id : 1..ops, job : Jobs, proto : {"v1", "v2"}, key : Keys]
  /\ \A p \in pending : job[p.job] = "up"

\* ----- Who saved what.

\* A job starts when the one before it is over.
Ordered == \A i, j \in Jobs : i < j /\ job[j] # "wait" => job[i] \in Over

\* An entry was saved by a job of its scope that may write, and describes a
\* content somebody saved whole.
Sound(s, e) ==
  /\ job[e.by] # "wait" /\ spec[e.by].ref = s /\ WriteAllowed(e.by)
  /\ e.manifest \in Archives /\ e.size = Size(e.manifest)

\* In the index, or held by a collector to be written back.
Listed(s, e) == e \in Range(index[s]) \/ \E j \in Jobs : e \in Range(gc[j].keep[s])

EntriesSound == \A s \in Scopes : \A e \in Entry : Listed(s, e) => Sound(s, e)

\* What a staging file holds: the first chunks of an archive.
Staged(i) == IF i \in DOMAIN stage THEN stage[i] ELSE <<>>

Begun(content) == \E a \in Archives : \E n \in 0..Len(a) : content = SubSeq(a, 1, n)

\* An upload belongs to one client at most, and the file of a v2 upload is
\* there from its first chunk on.
Uploading ==
  /\ \A p, q \in pending : p.id = q.id => p = q
  /\ \A c, d \in Clients :
       client[c].pc = "upload" /\ client[d].pc = "upload" /\ client[c].id = client[d].id => c = d
  /\ \A p \in pending : p.proto = "v2" /\ p.id \in DOMAIN stage =>
       stage[p.id] # <<>> /\ Begun(stage[p.id])

Saving == {"upload", "ingest", "manifest", "insert"}
Restoring == {"lookup", "probe", "url", "read"}
Fields == {"pc", "job", "id", "proto", "key", "want", "got", "todo", "range", "out", "by"}

\* A client's operation is at a server that is up; a write that has lost its
\* client needs none.
ClientType(c) ==
  /\ DOMAIN client[c] = Fields
  /\ client[c].pc \in {"idle", "stray"} \cup Saving \cup Restoring
  /\ client[c].pc \notin {"idle", "stray"} => client[c].job \in Jobs /\ job[client[c].job] = "up"
  /\ client[c].pc \in {"upload", "ingest", "manifest", "stray"} => client[c].todo \in Content
  /\ client[c].pc = "stray" => client[c].got \in Content

\* What a saving client has sent, holds and checked.
Saver(c) ==
  LET r == client[c]
  IN  r.pc \in Saving =>
        /\ r.id \in 1..ops /\ r.key \in Keys /\ r.want \in Archives /\ WriteAllowed(r.job)
        /\ r.pc = "upload" => \A p \in pending : p.id = r.id =>
             p.proto = r.proto /\ Staged(r.id) \o r.todo = r.want
        /\ r.pc = "ingest" => Begun(r.got) /\ (r.got # <<>> \/ r.got \in Archives)
        /\ r.pc \in {"manifest", "insert"} => r.got \in Archives /\ Size(r.got) = Size(r.want)

\* What a restoring client reads was saved by one it may read from.
Restorer(c) ==
  LET r == client[c]
  IN  r.pc \in Restoring =>
        /\ r.by \in Jobs /\ job[r.by] # "wait"
        /\ spec[r.by].ref \in {spec[r.job].ref, spec[r.job].base} \/ Trusted(r.by)

OneClient(c) == ClientType(c) /\ Saver(c) /\ Restorer(c)

CacheInv ==
  /\ FileType /\ JobType /\ Ordered /\ EntriesSound /\ Uploading
  /\ DOMAIN client = Clients
  /\ \A c \in Clients : OneClient(c)

\* ----- Index and store.

Quiet == ~overlapped /\ ~lossy

\* A collector without a job beside it: every later job still waits.
Alone == ~overlapped => \A i, j \in Jobs : job[i] = "gc" /\ i < j => job[j] = "wait"

\* Without a power loss no file is torn.
Untorn == ~lossy => /\ \A c \in Chunks : chunks[c] # "torn"
                    /\ \A s \in Scopes : ~tail[s]

\* The entries of the index, and those a collector keeps, were acknowledged.
Known ==
  /\ IsFiniteSet(acked) /\ acked \subseteq Scopes \X Entry
  /\ \A s \in Scopes : \A e \in Entry : Listed(s, e) => <<s, e>> \in acked

\* Every chunk of a content is on disk.
Present(content) == \A c \in Range(content) : chunks[c] = "good"

\* What a save has written so far.
Written(c) ==
  LET r == client[c]
  IN  /\ r.pc = "ingest" => \A x \in Range(r.got) : x \in Range(r.todo) \/ chunks[x] = "good"
      /\ r.pc \in {"manifest", "insert"} => Present(r.got)
      /\ r.pc = "insert" => r.got \in manifests

\* What is indexed is stored.
Stored ==
  \A s \in Scopes : \A e \in Entry :
    e \in Range(index[s]) => e.manifest \in manifests /\ Present(e.manifest)

\* A record that may be gone: too old, or newer ones fill the capacity.
Excused(r) ==
  \/ r[2].at < now - Ttl
  \/ SizeOf({q \in acked : q[2].at >= r[2].at}) > MaxBytes

Remembered == \A r \in acked : r[2] \in Range(index[r[1]]) \/ Excused(r)

\* The collector before it sweeps: a log is as it was or as it will be, and
\* what it will not keep is excused.
Rewriting(j) ==
  gc[j].pc = "rewrite" =>
    /\ \A s \in Scopes : /\ Range(gc[j].keep[s]) \subseteq Range(index[s])
                         /\ s \notin gc[j].logs => Range(index[s]) = Range(gc[j].keep[s])
    /\ \A r \in acked : r[2] \in Range(gc[j].keep[r[1]]) \/ Excused(r)

Described == {e.manifest : e \in UNION {Range(index[s]) : s \in Scopes}}

\* The collector that sweeps: what it spares are the manifests of the index,
\* and what else is there it has listed or was written late.
Sweeping(j) ==
  /\ gc[j].pc \in {"live", "manifests", "chunks"} => gc[j].live = Described
  /\ gc[j].pc = "manifests" => /\ manifests \subseteq gc[j].live \cup gc[j].list \cup late.manifests
                               /\ gc[j].live \cap gc[j].list = {}
  /\ gc[j].pc = "chunks" =>
       /\ manifests \subseteq gc[j].live \cup late.manifests
       /\ \A c \in Chunks : chunks[c] # "absent" =>
            c \in LiveChunks(j) \cup late.chunks \/ <<c>> \in gc[j].list
       /\ \A l \in gc[j].list : \E c \in Chunks \ LiveChunks(j) : l = <<c>>

\* A pass ran to its end and no job was started since.
Finished(j) == job[j] = "done" /\ (j < MaxJobs => job[j + 1] = "wait")

Clean ==
  /\ Described \subseteq manifests /\ manifests \subseteq Described \cup late.manifests
  /\ \A m \in Described : \A c \in Range(m) : c \in Chunks /\ chunks[c] # "absent"
  /\ \A c \in Chunks : chunks[c] # "absent" =>
       c \in late.chunks \/ \E m \in Described : c \in Range(m)

LateType == DOMAIN late = {"manifests", "chunks"}

StoreInv ==
  /\ Alone /\ Untorn /\ Known /\ LateType
  /\ Quiet => /\ \A c \in Clients : Written(c)
              /\ \A j \in Jobs : Rewriting(j) /\ Sweeping(j)
              /\ Stored /\ Remembered
              /\ \A j \in Jobs : Finished(j) => Clean

\* ----- Lemmas about numbers and sequences.

NatLess == OpToRel(<, Nat)

LEMMA Least ==
  ASSUME NEW T \in SUBSET Nat, T # {}
  PROVE  \E x \in T : \A y \in T : x <= y
<1>1. IsWellFoundedOn(NatLess, Nat)
  BY NatLessThanWellFounded DEF NatLess
<1>2. PICK x \in T : \A y \in T : ~(<<y, x>> \in NatLess)
  BY <1>1, WFMin, Zenon
<1>3. \A y \in T : y < x => <<y, x>> \in NatLess
  BY DEF NatLess, OpToRel
<1>4. \A y \in T : ~(y < x)
  BY <1>2, <1>3, Zenon
<1> QED
  BY <1>4

LEMMA Greatest ==
  ASSUME NEW n \in Nat, NEW T \in SUBSET 0..n, T # {}
  PROVE  \E x \in T : \A y \in T : y <= x
<1> DEFINE D == {n - x : x \in T}
<1>1. D \in SUBSET Nat /\ D # {}
  <2>1. \A x \in T : n - x \in Nat
    OBVIOUS
  <2>2. PICK x \in T : TRUE
    OBVIOUS
  <2>3. n - x \in D
    OBVIOUS
  <2> QED
    BY <2>1, <2>3
<1> HIDE DEF D
<1>2. PICK d \in D : \A y \in D : d <= y
  BY <1>1, Least
<1>3. PICK x \in T : d = n - x
  BY <1>2 DEF D
<1>4. \A y \in T : n - y \in D
  BY DEF D
<1>5. \A y \in T : n - x <= n - y
  BY <1>2, <1>3, <1>4
<1> QED
  BY <1>5

LEMMA MinIsIn ==
  ASSUME NEW T \in SUBSET Nat, T # {}
  PROVE  Min(T) \in T
  BY Least DEF Min

LEMMA MaxIsIn ==
  ASSUME NEW n \in Nat, NEW T \in SUBSET 0..n, T # {}
  PROVE  Max(T) \in T
  BY Greatest DEF Max

LEMMA AppendRange ==
  ASSUME NEW S, NEW q \in Seq(S), NEW e \in S
  PROVE  /\ Append(q, e) \in Seq(S) /\ Range(Append(q, e)) = Range(q) \cup {e}
<1>1. /\ Append(q, e) \in Seq(S) /\ Len(Append(q, e)) = Len(q) + 1
      /\ \A i \in 1..Len(q) : Append(q, e)[i] = q[i]
      /\ Append(q, e)[Len(q) + 1] = e
  BY AppendProperties
<1>2. DOMAIN Append(q, e) = 1..(Len(q) + 1) /\ DOMAIN q = 1..Len(q) /\ Len(q) \in Nat
  BY <1>1
<1> HIDE DEF Range
<1>3. \A x : x \in Range(Append(q, e)) <=> \E i \in 1..(Len(q) + 1) : x = Append(q, e)[i]
  BY <1>2 DEF Range
<1>4. \A x : x \in Range(q) <=> \E i \in 1..Len(q) : x = q[i]
  BY <1>2 DEF Range
<1>5. ASSUME NEW x PROVE x \in Range(Append(q, e)) <=> x \in Range(q) \cup {e}
  <2>1. CASE x \in Range(Append(q, e))
    <3>1. PICK i \in 1..(Len(q) + 1) : x = Append(q, e)[i]
      BY <1>3, <2>1
    <3>2. CASE i = Len(q) + 1
      BY <1>1, <2>1, <3>1, <3>2
    <3>3. CASE i \in 1..Len(q)
      BY <1>1, <1>4, <2>1, <3>1, <3>3
    <3> QED
      BY <3>2, <3>3, <1>2
  <2>2. CASE x = e
    <3>1. Len(q) + 1 \in 1..(Len(q) + 1)
      BY <1>2
    <3> QED
      BY <1>1, <1>3, <2>2, <3>1
  <2>3. CASE x \in Range(q)
    <3>1. PICK i \in 1..Len(q) : x = q[i]
      BY <1>4, <2>3
    <3>2. i \in 1..(Len(q) + 1) /\ x = Append(q, e)[i]
      BY <1>1, <1>2, <3>1
    <3> QED
      BY <1>3, <2>3, <3>2
  <2> QED
    BY <2>1, <2>2, <2>3
<1> QED
  BY <1>1, <1>5

\* ----- The lines a collector keeps.

UpTo(f, q, K, n) ==
  f = [i \in 0..n |-> IF i = 0 THEN <<>>
                      ELSE IF q[i] \in K THEN Append(f[i - 1], q[i]) ELSE f[i - 1]]

LEMMA UpToExists ==
  ASSUME NEW q, NEW K, NEW n \in Nat
  PROVE  \E f : UpTo(f, q, K, n)
<1> DEFINE T == {m \in Nat : \A f : ~UpTo(f, q, K, m)}
<1>1. SUFFICES ASSUME T # {} PROVE FALSE
  OBVIOUS
<1>2. PICK m \in T : \A k \in T : m <= k
  <2>1. T \in SUBSET Nat
    OBVIOUS
  <2> HIDE DEF T
  <2> QED
    BY <1>1, <2>1, Least
<1>3. CASE m = 0
  <2> DEFINE f == [i \in 0..0 |-> <<>>]
  <2>1. UpTo(f, q, K, 0)
    BY DEF UpTo
  <2> QED
    BY <2>1, <1>3
<1>4. CASE m # 0
  <2>1. m - 1 \in Nat /\ m - 1 \notin T
    BY <1>2, <1>4
  <2>2. PICK f : UpTo(f, q, K, m - 1)
    BY <2>1
  <2> DEFINE last == IF q[m] \in K THEN Append(f[m - 1], q[m]) ELSE f[m - 1]
             g == [i \in 0..m |-> IF i = m THEN last ELSE f[i]]
             h == [i \in 0..m |-> IF i = 0 THEN <<>>
                                  ELSE IF q[i] \in K THEN Append(g[i - 1], q[i]) ELSE g[i - 1]]
  <2>3. ASSUME NEW i \in 0..m PROVE g[i] = h[i]
    <3>1. CASE i = m
      <4>1. g[i] = last /\ g[i - 1] = f[m - 1]
        BY <3>1, <1>4
      <4> QED
        BY <4>1, <3>1, <1>4
    <3>2. CASE i # m
      <4>1. i \in 0..(m - 1) /\ g[i] = f[i]
        BY <3>2
      <4>2. i # 0 => i - 1 \in 0..m /\ i - 1 # m /\ g[i - 1] = f[i - 1]
        BY <3>2
      <4>3. f[i] = IF i = 0 THEN <<>>
                   ELSE IF q[i] \in K THEN Append(f[i - 1], q[i]) ELSE f[i - 1]
        BY <2>2, <4>1 DEF UpTo
      <4> HIDE DEF g
      <4> QED
        BY <4>1, <4>2, <4>3
    <3> QED
      BY <3>1, <3>2
  <2>4. g = h
    BY <2>3
  <2>5. UpTo(g, q, K, m)
    BY <2>4, Zenon DEF UpTo
  <2> QED
    BY <2>5
<1> QED
  BY <1>3, <1>4

\* What is kept is what the log and the set have in common.
LEMMA KeptIs ==
  ASSUME NEW S, NEW q \in Seq(S), NEW K
  PROVE  Kept(q, K) \in Seq(S) /\ Range(Kept(q, K)) = Range(q) \cap K
<1> DEFINE f == CHOOSE f : UpTo(f, q, K, Len(q))
<1>1. Len(q) \in Nat /\ DOMAIN q = 1..Len(q) /\ \A i \in 1..Len(q) : q[i] \in S
  OBVIOUS
<1>2. UpTo(f, q, K, Len(q))
  BY <1>1, UpToExists
<1>3. Kept(q, K) = f[Len(q)]
  BY DEF Kept, UpTo
<1> HIDE DEF f
<1>4. \A i \in 0..Len(q) : f[i] = IF i = 0 THEN <<>>
                                  ELSE IF q[i] \in K THEN Append(f[i - 1], q[i]) ELSE f[i - 1]
  BY <1>2 DEF UpTo
<1> DEFINE First(n) == {q[i] : i \in 1..n}
           Good(n) == f[n] \in Seq(S) /\ Range(f[n]) = First(n) \cap K
           T == {n \in 0..Len(q) : ~Good(n)}
<1>5. T = {}
  <2>1. SUFFICES ASSUME T # {} PROVE FALSE
    OBVIOUS
  <2>2. PICK n \in T : \A k \in T : n <= k
    <3>1. T \in SUBSET Nat
      BY <1>1
    <3> HIDE DEF T
    <3> QED
      BY <2>1, <3>1, Least
  <2>3. n \in 0..Len(q) /\ ~Good(n)
    OBVIOUS
  <2>4. CASE n = 0
    <3>1. f[0] = <<>>
      BY <1>1, <1>4
    <3>2. <<>> \in Seq(S) /\ Range(<<>>) = {}
      BY DEF Range
    <3>3. First(0) = {}
      OBVIOUS
    <3> QED
      BY <2>3, <2>4, <3>1, <3>2, <3>3
  <2>5. CASE n # 0
    <3>1. n - 1 \in 0..Len(q) /\ n - 1 \notin T
      <4>1. n - 1 \in 0..Len(q) /\ n - 1 < n
        BY <2>3, <2>5, <1>1
      <4> HIDE DEF T
      <4>2. ~(n <= n - 1)
        BY <2>3, <1>1, <4>1
      <4> QED
        BY <2>2, <4>1, <4>2
    <3>2. f[n - 1] \in Seq(S) /\ Range(f[n - 1]) = First(n - 1) \cap K
      BY <3>1
    <3>3. q[n] \in S
      BY <1>1, <2>3, <2>5
    <3>4. First(n) = First(n - 1) \cup {q[n]}
      <4>1. 1..n = (1..(n - 1)) \cup {n}
        BY <2>3, <2>5, <1>1
      <4> QED
        BY <4>1
    <3> HIDE DEF First
    <3>5. CASE q[n] \in K
      <4>1. f[n] = Append(f[n - 1], q[n])
        BY <1>4, <2>3, <2>5, <3>5
      <4>2. f[n] \in Seq(S) /\ Range(f[n]) = Range(f[n - 1]) \cup {q[n]}
        BY <4>1, <3>2, <3>3, AppendRange
      <4> QED
        BY <4>2, <3>2, <3>4, <3>5, <2>3
    <3>6. CASE q[n] \notin K
      <4>1. f[n] = f[n - 1]
        BY <1>4, <2>3, <2>5, <3>6
      <4> QED
        BY <4>1, <3>2, <3>4, <3>6, <2>3
    <3> QED
      BY <3>5, <3>6
  <2> QED
    BY <2>4, <2>5
<1>6. Good(Len(q))
  <2>1. Len(q) \in 0..Len(q)
    BY <1>1
  <2> HIDE DEF Good
  <2> QED
    BY <2>1, <1>5
<1>7. First(Len(q)) = Range(q)
  BY <1>1 DEF Range
<1> QED
  BY <1>3, <1>6, <1>7

\* ----- Sizes.

LEMMA UpToFinite ==
  ASSUME NEW n \in Nat
  PROVE  IsFiniteSet(1..n) /\ Cardinality(1..n) = n
<1>1. 1 \in Int /\ n \in Int
  OBVIOUS
<1>2. IsFiniteSet(1..n) /\ Cardinality(1..n) = IF 1 > n THEN 0 ELSE n - 1 + 1
  BY <1>1, FS_Interval
<1> QED
  BY <1>2

LEMMA ImageFinite ==
  ASSUME NEW S, IsFiniteSet(S), NEW f, DOMAIN f = S, f = [x \in S |-> f[x]]
  PROVE  IsFiniteSet({f[x] : x \in S})
<1> DEFINE T == {f[x] : x \in S}
<1>1. f \in [S -> T]
  OBVIOUS
<1>2. \A t \in T : \E x \in S : f[x] = t
  OBVIOUS
<1>3. f \in Surjection(S, T)
  BY <1>1, <1>2 DEF Surjection
<1> QED
  BY <1>3, FS_Surjection

LEMMA SizeNat ==
  ASSUME NEW content \in Content
  PROVE  Size(content) \in Nat
<1> DEFINE part(i) == {i} \X (1..ChunkLen[content[i]])
           parts == {part(i) : i \in DOMAIN content}
<1>1. DOMAIN content = 1..Len(content) /\ Len(content) \in Nat
  BY DEF Content
<1>2. IsFiniteSet(DOMAIN content)
  BY <1>1, UpToFinite
<1>3. IsFiniteSet(parts)
  <2> DEFINE f == [i \in DOMAIN content |-> part(i)]
  <2>0. DOMAIN f = DOMAIN content /\ f = [i \in DOMAIN content |-> f[i]]
    OBVIOUS
  <2>1. IsFiniteSet({f[i] : i \in DOMAIN content})
    <3> HIDE DEF f, part
    <3> QED
      BY <2>0, <1>2, ImageFinite
  <2>2. {f[i] : i \in DOMAIN content} = parts
    OBVIOUS
  <2> QED
    BY <2>1, <2>2
<1>4. ASSUME NEW i \in DOMAIN content PROVE IsFiniteSet(part(i))
  <2>1. ChunkLen[content[i]] \in Nat
    BY DataAssumption DEF Content
  <2>2. IsFiniteSet({i}) /\ IsFiniteSet(1..ChunkLen[content[i]])
    BY <2>1, FS_Singleton, UpToFinite
  <2> QED
    BY <2>2, FS_Product
<1>5. \A P \in parts : IsFiniteSet(P)
  BY <1>4
<1>6. IsFiniteSet(UNION parts)
  BY <1>3, <1>5, FS_UNION
<1>7. Cardinality(UNION parts) \in Nat
  BY <1>6, FS_CardinalityType
<1> QED
  BY <1>7 DEF Size

Sized(records) == IsFiniteSet(records) /\ \A r \in records : r[2].size \in Nat

Places(records) == UNION {{r} \X (1..r[2].size) : r \in records}

LEMMA PlacesFinite ==
  ASSUME NEW R, Sized(R)
  PROVE  IsFiniteSet(Places(R)) /\ SizeOf(R) = Cardinality(Places(R)) /\ SizeOf(R) \in Nat
<1> DEFINE part(r) == {r} \X (1..r[2].size)
           parts == {part(r) : r \in R}
<1>1. IsFiniteSet(R)
  BY DEF Sized
<1>2. IsFiniteSet(parts)
  <2> DEFINE f == [r \in R |-> part(r)]
  <2>0. DOMAIN f = R /\ f = [r \in R |-> f[r]]
    OBVIOUS
  <2>1. IsFiniteSet({f[r] : r \in R})
    <3> HIDE DEF f, part
    <3> QED
      BY <2>0, <1>1, ImageFinite
  <2>2. {f[r] : r \in R} = parts
    OBVIOUS
  <2> QED
    BY <2>1, <2>2
<1>3. ASSUME NEW r \in R PROVE IsFiniteSet(part(r))
  <2>1. r[2].size \in Nat
    BY DEF Sized
  <2>2. IsFiniteSet({r}) /\ IsFiniteSet(1..r[2].size)
    BY <2>1, FS_Singleton, UpToFinite
  <2> QED
    BY <2>2, FS_Product
<1>4. \A P \in parts : IsFiniteSet(P)
  BY <1>3
<1>5. IsFiniteSet(UNION parts)
  BY <1>2, <1>4, FS_UNION
<1>6. Cardinality(UNION parts) \in Nat
  BY <1>5, FS_CardinalityType
<1> QED
  BY <1>5, <1>6 DEF SizeOf, Places

LEMMA SizeGrows ==
  ASSUME NEW R, Sized(R), NEW Q \in SUBSET R
  PROVE  SizeOf(Q) <= SizeOf(R) /\ SizeOf(Q) \in Nat /\ SizeOf(R) \in Nat
<1>1. Sized(Q)
  BY FS_Subset DEF Sized
<1>2. Places(Q) \subseteq Places(R)
  BY DEF Places
<1>3. Cardinality(Places(Q)) <= Cardinality(Places(R))
  BY <1>2, PlacesFinite, FS_Subset
<1> QED
  BY <1>1, <1>3, PlacesFinite

LEMMA SizeAdds ==
  ASSUME NEW R, Sized(R), NEW d \in R, NEW Q \in SUBSET R, d \notin Q
  PROVE  SizeOf(Q \cup {d}) = SizeOf(Q) + d[2].size
<1>1. Sized(Q) /\ Sized({d}) /\ Sized(Q \cup {d})
  <2>1. Q \in SUBSET R /\ {d} \in SUBSET R /\ Q \cup {d} \in SUBSET R
    OBVIOUS
  <2> QED
    BY <2>1, FS_Subset DEF Sized
<1>2. Places(Q \cup {d}) = Places(Q) \cup Places({d})
  BY DEF Places
<1>3. Places(Q) \cap Places({d}) = {}
  BY DEF Places
<1>4. Cardinality(Places({d})) = d[2].size
  <2>1. d[2].size \in Nat
    BY DEF Sized
  <2>2. Places({d}) = {d} \X (1..d[2].size)
    BY DEF Places
  <2>3. IsFiniteSet({d}) /\ Cardinality({d}) = 1
    BY FS_Singleton
  <2>4. IsFiniteSet(1..d[2].size) /\ Cardinality(1..d[2].size) = d[2].size
    BY <2>1, UpToFinite
  <2>5. Cardinality({d} \X (1..d[2].size)) = 1 * d[2].size
    BY <2>3, <2>4, FS_Product, Zenon
  <2>6. 1 * d[2].size = d[2].size
    BY <2>1
  <2> QED
    BY <2>2, <2>5, <2>6
<1>5. IsFiniteSet(Places(Q)) /\ IsFiniteSet(Places({d}))
  BY <1>1, PlacesFinite
<1>6. Cardinality(Places(Q) \cup Places({d})) =
        Cardinality(Places(Q)) + Cardinality(Places({d})) - Cardinality({})
  BY <1>3, <1>5, FS_Union, Zenon
<1>7. Cardinality({}) = 0 /\ Cardinality(Places(Q)) \in Nat /\ d[2].size \in Nat
  BY <1>1, <1>5, FS_EmptySet, FS_CardinalityType DEF Sized
<1>8. /\ SizeOf(Q \cup {d}) = Cardinality(Places(Q \cup {d}))
      /\ SizeOf(Q) = Cardinality(Places(Q))
  BY <1>1, PlacesFinite
<1>9. SizeOf(Q \cup {d}) = SizeOf(Q) + d[2].size - 0
  BY <1>2, <1>4, <1>6, <1>7, <1>8, Zenon
<1> QED
  BY <1>7, <1>8, <1>9

\* ----- Lookups.

LEMMA NewestIs ==
  ASSUME NEW q \in Seq(Entry), NEW K
  PROVE  Newest(q, K) = NoEntry \/ \E i \in DOMAIN q : Newest(q, K) = q[i]
<1> DEFINE hits == {i \in DOMAIN q : q[i].key \in K}
           best == {i \in hits : \A k \in hits : q[k].at <= q[i].at}
<1>1. CASE hits = {}
  BY <1>1 DEF Newest
<1>2. CASE hits # {}
  <2>1. Len(q) \in Nat /\ DOMAIN q = 1..Len(q) /\ \A i \in 1..Len(q) : q[i] \in Entry
    OBVIOUS
  <2>2. MaxTime \in Nat
    BY BoundsAssumption
  <2>3. \A i \in DOMAIN q : q[i].at \in 0..MaxTime
    BY <2>1 DEF Entry
  <2> DEFINE T == {q[i].at : i \in hits}
  <2>4. T \in SUBSET 0..MaxTime /\ T # {}
    BY <1>2, <2>3
  <2>5. \A k \in hits : q[k].at \in T
    OBVIOUS
  <2>6. \A t \in T : \E i \in hits : t = q[i].at
    OBVIOUS
  <2> HIDE DEF T
  <2>7. PICK t \in T : \A u \in T : u <= t
    BY <2>2, <2>4, Greatest
  <2>8. PICK i \in hits : t = q[i].at
    BY <2>6, <2>7
  <2>9. i \in best
    BY <2>5, <2>7, <2>8
  <2>10. best \in SUBSET 0..Len(q)
    BY <2>1
  <2> HIDE DEF best
  <2>11. Max(best) \in best
    BY <2>1, <2>9, <2>10, MaxIsIn
  <2>12. Newest(q, K) = q[Max(best)]
    BY <1>2 DEF Newest, best
  <2>13. best \subseteq DOMAIN q
    BY DEF best
  <2> QED
    BY <2>11, <2>12, <2>13
<1> QED
  BY <1>1, <1>2

\* An entry of one of the scopes of the ladder.
FoundIn(ladder, e) ==
  \E k \in DOMAIN ladder : /\ ladder[k] \in Scopes
                           /\ \E i \in DOMAIN index[ladder[k]] : e = index[ladder[k]][i]

Ladder(ladder) == \A k \in DOMAIN ladder : k \in Nat /\ ladder[k] \in Scopes \cup {NoRef}

LEMMA NearestIs ==
  ASSUME index \in [Scopes -> Seq(Entry)], NEW ladder, Ladder(ladder), NEW K
  PROVE  Nearest(ladder, K) = NoEntry \/ FoundIn(ladder, Nearest(ladder, K))
<1> DEFINE hit(k) == Newest(index[ladder[k]], K)
           found == {k \in DOMAIN ladder : ladder[k] # NoRef /\ hit(k) # NoEntry}
<1>1. CASE found = {}
  BY <1>1 DEF Nearest
<1>2. CASE found # {}
  <2>1. found \in SUBSET Nat
    BY DEF Ladder
  <2>2. \A k \in found : k \in DOMAIN ladder /\ ladder[k] \in Scopes /\ hit(k) # NoEntry
    BY DEF Ladder
  <2>3. Nearest(ladder, K) = hit(Min(found))
    BY <1>2 DEF Nearest
  <2> HIDE DEF found
  <2>4. Min(found) \in found
    BY <1>2, <2>1, MinIsIn
  <2> DEFINE m == Min(found)
  <2> HIDE DEF m
  <2>5. m \in DOMAIN ladder /\ ladder[m] \in Scopes /\ hit(m) # NoEntry
    BY <2>2, <2>4 DEF m
  <2>6. index[ladder[m]] \in Seq(Entry)
    BY <2>5
  <2>7. \E i \in DOMAIN index[ladder[m]] : hit(m) = index[ladder[m]][i]
    BY <2>5, <2>6, NewestIs
  <2>8. Nearest(ladder, K) = hit(m)
    BY <2>3 DEF m
  <2> HIDE DEF hit
  <2> QED
    BY <2>5, <2>7, <2>8 DEF FoundIn
<1> QED
  BY <1>1, <1>2

\* A lookup yields an entry of one of the scopes it was given.
LEMMA LookupIs ==
  ASSUME index \in [Scopes -> Seq(Entry)], NEW ladder, Ladder(ladder),
         NEW q \in Queries, IndexLookup(ladder, q) # NoEntry
  PROVE  FoundIn(ladder, IndexLookup(ladder, q))
<1> DEFINE byPrefix(r) == Nearest(ladder, q.restore[r])
           found == {r \in DOMAIN q.restore : byPrefix(r) # NoEntry}
           exact == Nearest(ladder, {q.key})
<1>1. CASE exact # NoEntry
  <2>1. IndexLookup(ladder, q) = exact
    BY <1>1 DEF IndexLookup
  <2> QED
    BY <1>1, <2>1, NearestIs
<1>2. CASE exact = NoEntry
  <2>1. found # {} /\ IndexLookup(ladder, q) = byPrefix(Min(found))
    BY <1>2 DEF IndexLookup
  <2>2. found \in SUBSET Nat
    BY DataAssumption
  <2>3. \A r \in found : byPrefix(r) # NoEntry
    OBVIOUS
  <2> HIDE DEF found
  <2>4. Min(found) \in found
    BY <2>1, <2>2, MinIsIn
  <2>5. byPrefix(Min(found)) # NoEntry
    BY <2>3, <2>4
  <2> QED
    BY <2>1, <2>5, NearestIs
<1> QED
  BY <1>1, <1>2

LEMMA ReadLadderIs ==
  ASSUME FileType, JobType, NEW j \in Jobs
  PROVE  /\ Ladder(ReadLadder(j))
         /\ \A k \in DOMAIN ReadLadder(j) :
              \/ ReadLadder(j)[k] \in {spec[j].ref, spec[j].base}
              \/ IsProtected(ReadLadder(j)[k])
<1> DEFINE own == <<spec[j].ref, spec[j].base>>
<1>1. spec[j] \in Specs
  BY DEF JobType
<1>2. spec[j].ref \in Scopes /\ spec[j].base \in Scopes \cup {NoRef}
  BY <1>1, DataAssumption
<1>3. own \in Seq(Scopes \cup {NoRef}) /\ Len(own) = 2 /\ own[1] = spec[j].ref /\ own[2] = spec[j].base
  BY <1>2
<1>4. Protected \in Seq(Scopes) /\ Protected \in Seq(Scopes \cup {NoRef})
  BY BoundsAssumption
<1> HIDE DEF own
<1>5. /\ own \o Protected \in Seq(Scopes \cup {NoRef})
      /\ Len(own \o Protected) = 2 + Len(Protected)
      /\ \A i \in 1..(2 + Len(Protected)) :
           (own \o Protected)[i] = IF i <= 2 THEN own[i] ELSE Protected[i - 2]
  <2>1. /\ own \o Protected \in Seq(Scopes \cup {NoRef})
        /\ Len(own \o Protected) = Len(own) + Len(Protected)
        /\ \A i \in 1..(Len(own) + Len(Protected)) :
             (own \o Protected)[i] = IF i <= Len(own) THEN own[i] ELSE Protected[i - Len(own)]
    BY <1>3, <1>4, ConcatProperties, Zenon
  <2> QED
    BY <1>3, <2>1
<1>6. ReadLadder(j) = own \o Protected
  BY DEF ReadLadder, own
<1>7. DOMAIN ReadLadder(j) = 1..(2 + Len(Protected)) /\ Len(Protected) \in Nat
  BY <1>4, <1>5, <1>6
<1>8. ASSUME NEW k \in DOMAIN ReadLadder(j)
      PROVE  /\ k \in Nat /\ ReadLadder(j)[k] \in Scopes \cup {NoRef}
             /\ \/ ReadLadder(j)[k] \in {spec[j].ref, spec[j].base}
                \/ IsProtected(ReadLadder(j)[k])
  <2>1. CASE k <= 2
    <3>1. k \in {1, 2}
      BY <1>7, <2>1
    <3> QED
      BY <1>2, <1>3, <1>5, <1>6, <1>7, <2>1, <3>1
  <2>2. CASE k > 2
    <3>1. k - 2 \in 1..Len(Protected)
      BY <1>7, <2>2
    <3>2. ReadLadder(j)[k] = Protected[k - 2]
      BY <1>5, <1>6, <1>7, <2>2
    <3>3. ReadLadder(j)[k] \in Scopes
      BY <1>4, <3>1, <3>2
    <3>4. IsProtected(ReadLadder(j)[k])
      BY <3>1, <3>2 DEF IsProtected, Contains
    <3> QED
      BY <1>7, <3>3, <3>4
  <2> QED
    BY <1>7, <2>1, <2>2
<1> QED
  BY <1>8 DEF Ladder

\* ----- Contents.

\* A content with something to follow is the first part of the whole.
LEMMA BegunIs ==
  ASSUME NEW a \in Archives, NEW s \in Content, NEW t \in Content, s \o t = a
  PROVE  Begun(s)
<1>1. a \in Content
  BY DataAssumption DEF Content
<1>2. /\ Len(s) \in Nat /\ Len(t) \in Nat /\ Len(a) = Len(s) + Len(t)
      /\ \A i \in 1..(Len(s) + Len(t)) : a[i] = IF i <= Len(s) THEN s[i] ELSE t[i - Len(s)]
  BY ConcatProperties DEF Content
<1>3. \A i \in 1..Len(s) : a[i] \in Chunks /\ a[i] = s[i]
  BY <1>1, <1>2 DEF Content
<1>4. /\ SubSeq(a, 1, Len(s)) \in Seq(Chunks)
      /\ Len(SubSeq(a, 1, Len(s))) = Len(s)
      /\ \A i \in 1..Len(s) : SubSeq(a, 1, Len(s))[i] = a[i]
  <2>1. 1 \in Int /\ Len(s) \in Int
    BY <1>2
  <2>2. /\ SubSeq(a, 1, Len(s)) \in Seq(Chunks)
        /\ Len(SubSeq(a, 1, Len(s))) = IF 1 <= Len(s) THEN Len(s) - 1 + 1 ELSE 0
        /\ \A i \in 1..(Len(s) - 1 + 1) : SubSeq(a, 1, Len(s))[i] = a[1 + i - 1]
    BY <1>3, <2>1, SubSeqProperties
  <2> QED
    BY <2>2, <1>2
<1>5. s = SubSeq(a, 1, Len(s))
  BY <1>2, <1>3, <1>4 DEF Content
<1>6. Len(s) \in 0..Len(a)
  BY <1>2
<1> QED
  BY <1>5, <1>6 DEF Begun

\* One chunk more has been sent.
LEMMA Sent ==
  ASSUME NEW s \in Content, NEW t \in Content, t # <<>>
  PROVE  /\ Head(t) \in Chunks /\ Tail(t) \in Content
         /\ Append(s, Head(t)) \in Content /\ Append(s, Head(t)) # <<>>
         /\ Append(s, Head(t)) \o Tail(t) = s \o t
<1>1. /\ Head(t) \in Chunks /\ Tail(t) \in Seq(Chunks) /\ Len(Tail(t)) = Len(t) - 1
      /\ \A i \in 1..Len(Tail(t)) : Tail(t)[i] = t[i + 1]
  BY HeadTailProperties DEF Content
<1>2. Head(t) = t[1] /\ Len(t) \in Nat /\ Len(s) \in Nat /\ Len(t) > 0
  BY DEF Content
<1> DEFINE u == Append(s, Head(t))
<1>3. /\ u \in Seq(Chunks) /\ u # <<>> /\ Len(u) = Len(s) + 1
      /\ \A i \in 1..Len(s) : u[i] = s[i]
      /\ u[Len(s) + 1] = Head(t)
  BY <1>1, AppendProperties DEF Content
<1> HIDE DEF u
<1>4. /\ u \o Tail(t) \in Seq(Chunks) /\ Len(u \o Tail(t)) = Len(u) + Len(Tail(t))
      /\ \A i \in 1..(Len(u) + Len(Tail(t))) :
           (u \o Tail(t))[i] = IF i <= Len(u) THEN u[i] ELSE Tail(t)[i - Len(u)]
  BY <1>1, <1>3, ConcatProperties
<1>5. /\ s \o t \in Seq(Chunks) /\ Len(s \o t) = Len(s) + Len(t)
      /\ \A i \in 1..(Len(s) + Len(t)) :
           (s \o t)[i] = IF i <= Len(s) THEN s[i] ELSE t[i - Len(s)]
  BY ConcatProperties DEF Content
<1>6. ASSUME NEW i \in 1..(Len(s) + Len(t)) PROVE (u \o Tail(t))[i] = (s \o t)[i]
  <2>1. CASE i <= Len(s)
    BY <1>1, <1>2, <1>3, <1>4, <1>5, <2>1
  <2>2. CASE i = Len(s) + 1
    BY <1>1, <1>2, <1>3, <1>4, <1>5, <2>2
  <2>3. CASE i > Len(s) + 1
    <3>1. i - Len(u) \in 1..Len(Tail(t)) /\ i - Len(u) + 1 = i - Len(s)
      BY <1>1, <1>2, <1>3, <2>3
    <3>2. (u \o Tail(t))[i] = Tail(t)[i - Len(u)]
      BY <1>1, <1>2, <1>3, <1>4, <2>3
    <3>3. Tail(t)[i - Len(u)] = t[i - Len(s)]
      BY <1>1, <3>1
    <3>4. (s \o t)[i] = t[i - Len(s)]
      BY <1>2, <1>5, <2>3
    <3> QED
      BY <3>2, <3>3, <3>4
  <2>4. i <= Len(s) \/ i = Len(s) + 1 \/ i > Len(s) + 1
    BY <1>2
  <2> QED
    BY <2>1, <2>2, <2>3, <2>4
<1>7. u \o Tail(t) = s \o t
  <2>1. Len(u \o Tail(t)) = Len(s) + Len(t)
    BY <1>1, <1>2, <1>3, <1>4
  <2> DEFINE x == u \o Tail(t)
             y == s \o t
  <2>2. x \in Seq(Chunks) /\ y \in Seq(Chunks) /\ Len(x) = Len(y) /\ \A i \in 1..Len(x) : x[i] = y[i]
    BY <2>1, <1>4, <1>5, <1>6
  <2> HIDE DEF x, y
  <2>3. x = y
    BY <2>2
  <2> QED
    BY <2>3 DEF x, y
<1> QED
  BY <1>1, <1>3, <1>7 DEF u, Content

\* What begins an archive and has the size of an archive is one.
LEMMA SizeTells ==
  ASSUME NEW s \in Content, Begun(s), s # <<>> \/ s \in Archives,
         NEW b \in Archives, Size(s) = Size(b)
  PROVE  s \in Archives
<1>1. PICK a \in Archives : \E n \in 0..Len(a) : s = SubSeq(a, 1, n)
  BY DEF Begun
<1>2. PICK n \in 0..Len(a) : s = SubSeq(a, 1, n)
  BY <1>1
<1>3. a \in Seq(Chunks) /\ Len(a) \in Nat
  BY DataAssumption
<1>4. CASE n = 0
  <2>1. s = <<>>
    BY <1>2, <1>4, SubSeqEmpty
  <2> QED
    BY <2>1
<1>5. CASE n = Len(a)
  BY <1>2, <1>3, <1>5, SubSeqFull
<1>6. CASE n \in 1..(Len(a) - 1)
  BY <1>2, <1>6, SizesTellAssumption
<1> QED
  BY <1>3, <1>4, <1>5, <1>6

\* ----- What every step leaves as it is.

\* A job that was started stays started, and says what it said.
Stays ==
  /\ ops <= ops'
  /\ \A j \in Jobs : job[j] # "wait" => job'[j] # "wait" /\ spec'[j] = spec[j]

LEMMA StaysIfSame ==
  ASSUME CacheInv, UNCHANGED <<job, spec>>, ops <= ops'
  PROVE  Stays
  BY DEF Stays

LEMMA TrustStays ==
  ASSUME Stays, NEW j \in Jobs, job[j] # "wait"
  PROVE  (Trusted(j)' <=> Trusted(j)) /\ (WriteAllowed(j)' <=> WriteAllowed(j))
<1>1. spec'[j] = spec[j]
  BY DEF Stays
<1> QED
  BY <1>1 DEF Trusted, WriteAllowed

LEMMA SoundStays ==
  ASSUME Stays, NEW s \in Scopes, NEW e \in Entry, Sound(s, e)
  PROVE  Sound(s, e)'
<1>1. e.by \in Jobs
  BY DEF Entry
<1>2. job[e.by] # "wait"
  BY DEF Sound
<1>3. WriteAllowed(e.by)' <=> WriteAllowed(e.by)
  BY <1>1, <1>2, TrustStays
<1> QED
  BY <1>1, <1>2, <1>3 DEF Stays, Sound

LEMMA SetIs ==
  ASSUME DOMAIN client = Clients, NEW c \in Clients, NEW r, Set(c, r)
  PROVE  /\ DOMAIN client' = Clients /\ client'[c] = r
         /\ \A d \in Clients \ {c} : client'[d] = client[d]
  BY DEF Set

\* The uploads and files of a client are as they were.
Undisturbed(d) ==
  client[d].pc = "upload" =>
    \A p \in pending' : p.id = client[d].id => p \in pending /\ Staged(p.id)' = Staged(p.id)

LEMMA OtherClient ==
  ASSUME CacheInv, Stays, NEW d \in Clients, client'[d] = client[d],
         ops' \in Nat,
         client[d].pc \notin {"idle", "stray"} => job'[client[d].job] = "up",
         Undisturbed(d)
  PROVE  OneClient(d)'
<1>1. PICK r : r = client[d]
  OBVIOUS
<1>2. client'[d] = r
  BY <1>1
<1>3. OneClient(d) /\ JobType /\ FileType
  BY DEF CacheInv
<1>4. ClientType(d)'
  BY <1>1, <1>2, <1>3 DEF OneClient, ClientType
<1>5. r.pc \notin {"idle", "stray"} => r.job \in Jobs /\ job[r.job] # "wait"
  BY <1>1, <1>3 DEF OneClient, ClientType
<1>6. Saver(d)'
  <2>1. r.pc \in Saving =>
          /\ r.id \in 1..ops /\ r.key \in Keys /\ r.want \in Archives /\ WriteAllowed(r.job)
          /\ r.pc = "upload" => \A p \in pending : p.id = r.id =>
               p.proto = r.proto /\ Staged(r.id) \o r.todo = r.want
          /\ r.pc = "ingest" => Begun(r.got) /\ (r.got # <<>> \/ r.got \in Archives)
          /\ r.pc \in {"manifest", "insert"} => r.got \in Archives /\ Size(r.got) = Size(r.want)
    BY <1>1, <1>3 DEF OneClient, Saver
  <2>2. SUFFICES ASSUME r.pc \in Saving
                 PROVE  /\ r.id \in 1..ops' /\ r.key \in Keys /\ r.want \in Archives
                        /\ WriteAllowed(r.job)'
                        /\ r.pc = "upload" => \A p \in pending' : p.id = r.id =>
                             p.proto = r.proto /\ Staged(r.id)' \o r.todo = r.want
                        /\ r.pc = "ingest" => Begun(r.got) /\ (r.got # <<>> \/ r.got \in Archives)
                        /\ r.pc \in {"manifest", "insert"} => r.got \in Archives /\ Size(r.got) = Size(r.want)
    BY <1>2, Zenon DEF Saver, Begun, WriteAllowed, Trusted, Staged, Size
  <2>3. r.id \in 1..ops'
    <3>1. ops \in Nat /\ ops <= ops'
      BY <1>3 DEF Stays, FileType
    <3>2. r.id \in 1..ops
      BY <2>1, <2>2
    <3> QED
      BY <3>1, <3>2
  <2>4. WriteAllowed(r.job)'
    <3>1. r.job \in Jobs /\ job[r.job] # "wait" /\ WriteAllowed(r.job)
      BY <1>5, <2>1, <2>2 DEF Saving
    <3> QED
      BY <3>1, TrustStays
  <2>5. r.pc = "upload" => \A p \in pending' : p.id = r.id =>
           p.proto = r.proto /\ Staged(r.id)' \o r.todo = r.want
    BY <1>1, <2>1, <2>2, Zenon DEF Undisturbed
  <2> QED
    BY <2>1, <2>2, <2>3, <2>4, <2>5, Zenon
<1>7. Restorer(d)'
  <2>1. r.pc \in Restoring =>
          /\ r.by \in Jobs /\ job[r.by] # "wait"
          /\ spec[r.by].ref \in {spec[r.job].ref, spec[r.job].base} \/ Trusted(r.by)
    BY <1>1, <1>3 DEF OneClient, Restorer
  <2>2. SUFFICES ASSUME r.pc \in Restoring
                 PROVE  /\ r.by \in Jobs /\ job'[r.by] # "wait"
                        /\ spec'[r.by].ref \in {spec'[r.job].ref, spec'[r.job].base} \/ Trusted(r.by)'
    BY <1>2, Zenon DEF Restorer, Trusted
  <2>3. r.by \in Jobs /\ job[r.by] # "wait" /\ r.job \in Jobs /\ job[r.job] # "wait"
    BY <1>5, <2>1, <2>2 DEF Restoring
  <2>4. job'[r.by] # "wait" /\ spec'[r.by] = spec[r.by] /\ spec'[r.job] = spec[r.job]
    BY <2>3 DEF Stays
  <2>5. Trusted(r.by)' <=> Trusted(r.by)
    BY <2>3, TrustStays
  <2> QED
    BY <2>1, <2>2, <2>3, <2>4, <2>5
<1> QED
  BY <1>4, <1>6, <1>7 DEF OneClient

\* A step of one client that announces and sends nothing.
LEMMA ClientStep ==
  ASSUME CacheInv, NEW c \in Clients,
         UNCHANGED <<stage, job, spec, gc, pending>>, ops <= ops',
         FileType', EntriesSound',
         DOMAIN client' = Clients, \A d \in Clients \ {c} : client'[d] = client[d],
         OneClient(c)', client'[c].pc # "upload"
  PROVE  CacheInv'
<1>1. Stays
  BY StaysIfSame
<1>2. JobType' /\ Ordered'
  BY DEF CacheInv, JobType, Ordered, FileType
<1>3. \A i : Staged(i)' = Staged(i)
  BY DEF Staged
<1>4. ASSUME NEW d \in Clients PROVE OneClient(d)'
  <2>1. CASE d = c
    BY <2>1
  <2>2. CASE d # c
    <3>1. client'[d] = client[d]
      BY <2>2
    <3>2. client[d].pc \notin {"idle", "stray"} => job'[client[d].job] = "up"
      BY DEF CacheInv, OneClient, ClientType
    <3>3. Undisturbed(d)
      BY <1>3 DEF Undisturbed
    <3>4. ops' \in Nat
      BY DEF FileType
    <3> QED
      BY <1>1, <3>1, <3>2, <3>3, <3>4, OtherClient
  <2> QED
    BY <2>1, <2>2
<1>5. Uploading'
  <2>1. \A p, q \in pending' : p.id = q.id => p = q
    BY DEF CacheInv, Uploading
  <2>2. \A d \in Clients : client'[d].pc = "upload" => d # c /\ client'[d] = client[d]
    OBVIOUS
  <2>3. \A d, e \in Clients : client'[d].pc = "upload" /\ client'[e].pc = "upload" /\ client'[d].id = client'[e].id => d = e
    BY <2>2 DEF CacheInv, Uploading
  <2>4. \A p \in pending' : p.proto = "v2" /\ p.id \in DOMAIN stage' => stage'[p.id] # <<>> /\ Begun(stage'[p.id])
    BY DEF CacheInv, Uploading
  <2> QED
    BY <2>1, <2>3, <2>4 DEF Uploading, Begun
<1> QED
  BY <1>2, <1>4, <1>5 DEF CacheInv

\* ----- One client's operation.

LEMMA FileSame ==
  ASSUME CacheInv, UNCHANGED <<disk, now>>, ops' \in ops..MaxOps
  PROVE  FileType'
<1>1. ops \in Nat /\ ops <= ops' /\ ops' \in 0..MaxOps
  BY DEF CacheInv, FileType
<1>2. \A i \in DOMAIN stage : i \in 1..ops' /\ stage[i] \in Content
  BY <1>1 DEF CacheInv, FileType
<1> QED
  BY <1>1, <1>2 DEF CacheInv, FileType, disk, Content

LEMMA EntriesSame ==
  ASSUME CacheInv, UNCHANGED <<index, gc>>, Stays
  PROVE  EntriesSound'
<1>1. ASSUME NEW s \in Scopes, NEW e \in Entry, Listed(s, e)' PROVE Sound(s, e)'
  <2>1. Listed(s, e)
    BY <1>1 DEF Listed
  <2> QED
    BY <2>1, SoundStays DEF CacheInv, EntriesSound
<1> QED
  BY <1>1 DEF EntriesSound

LEMMA IdleIs ==
  ASSUME NEW c \in Clients, client'[c] = Idle
  PROVE  OneClient(c)' /\ client'[c].pc # "upload"
<1>1. Idle.pc = "idle" /\ DOMAIN Idle = Fields
  BY DEF Idle, Fields
<1>2. ClientType(c)'
  BY <1>1 DEF ClientType
<1>3. Saver(c)' /\ Restorer(c)'
  BY <1>1 DEF Saver, Restorer, Saving, Restoring
<1> QED
  BY <1>1, <1>2, <1>3 DEF OneClient

\* A restore that goes on.
LEMMA ReadsOn ==
  ASSUME CacheInv, NEW c \in Clients, client[c].pc \in Restoring, UNCHANGED <<job, spec>>,
         DOMAIN client'[c] = Fields, client'[c].pc \in Restoring,
         client'[c].job = client[c].job, client'[c].by = client[c].by
  PROVE  OneClient(c)' /\ client'[c].pc # "upload"
<1>1. ClientType(c) /\ Restorer(c)
  BY DEF CacheInv, OneClient
<1>2. client'[c].pc \notin Saving /\ client'[c].pc \notin {"idle", "stray"}
  BY DEF Saving, Restoring
<1>3. ClientType(c)'
  BY <1>1, <1>2 DEF ClientType, Saving, Restoring
<1>4. Saver(c)'
  BY <1>2 DEF Saver
<1>5. Restorer(c)'
  <2>1. \A j : Trusted(j)' <=> Trusted(j)
    BY DEF Trusted
  <2> QED
    BY <1>1, <2>1 DEF Restorer
<1> QED
  BY <1>2, <1>3, <1>4, <1>5 DEF OneClient, Saving

\* A save that was taken in goes on.
LEMMA SavesOn ==
  ASSUME CacheInv, NEW c \in Clients, client[c].pc \in {"ingest", "manifest"},
         UNCHANGED <<job, spec, ops>>,
         DOMAIN client'[c] = Fields, client'[c].pc \in {"ingest", "manifest", "insert"},
         \A f \in {"job", "id", "key", "want", "got"} : client'[c][f] = client[c][f],
         client'[c].pc = "ingest" => client[c].pc = "ingest",
         client'[c].pc # "insert" => client'[c].todo \in Content,
         client'[c].pc # "ingest" => client[c].got \in Archives /\ Size(client[c].got) = Size(client[c].want)
  PROVE  OneClient(c)' /\ client'[c].pc # "upload"
<1>1. ClientType(c) /\ Saver(c)
  BY DEF CacheInv, OneClient
<1>2. PICK r : r = client'[c]
  OBVIOUS
<1>3. /\ r.job = client[c].job /\ r.id = client[c].id /\ r.key = client[c].key
      /\ r.want = client[c].want /\ r.got = client[c].got
  BY <1>2
<1>4. ClientType(c)'
  BY <1>1, <1>2, <1>3 DEF ClientType, Saving
<1>5. Restorer(c)'
  BY DEF Restorer, Restoring
<1>6. Saver(c)'
  <2>1. WriteAllowed(r.job)
    BY <1>1, <1>3 DEF Saver, Saving
  <2>2. WriteAllowed(r.job)'
    BY <1>2, <2>1 DEF WriteAllowed, Trusted
  <2>3. r.id \in 1..ops' /\ r.key \in Keys /\ r.want \in Archives
    BY <1>1, <1>3 DEF Saver, Saving
  <2>4. r.pc = "ingest" => Begun(r.got) /\ (r.got # <<>> \/ r.got \in Archives)
    BY <1>1, <1>2, <1>3 DEF Saver, Saving
  <2>5. r.pc \in {"manifest", "insert"} => r.got \in Archives /\ Size(r.got) = Size(r.want)
    BY <1>2, <1>3
  <2>6. r.pc # "upload"
    BY <1>2
  <2>7. SUFFICES /\ r.id \in 1..ops' /\ r.key \in Keys /\ r.want \in Archives
                 /\ WriteAllowed(r.job)' /\ r.pc # "upload"
                 /\ r.pc = "ingest" => Begun(r.got) /\ (r.got # <<>> \/ r.got \in Archives)
                 /\ r.pc \in {"manifest", "insert"} => r.got \in Archives /\ Size(r.got) = Size(r.want)
    BY <1>2 DEF Saver, Begun, WriteAllowed, Trusted, Size
  <2> QED
    BY <2>2, <2>3, <2>4, <2>5, <2>6, Zenon
<1> QED
  BY <1>4, <1>5, <1>6 DEF OneClient

LEMMA BegunIsContent ==
  ASSUME NEW s, Begun(s)
  PROVE  s \in Content
<1>0. PICK a \in Archives : \E n \in 0..Len(a) : s = SubSeq(a, 1, n)
  BY DEF Begun
<1>1. PICK n \in 0..Len(a) : s = SubSeq(a, 1, n)
  BY <1>0
<1>2. a \in Seq(Chunks) /\ Len(a) \in Nat
  BY DataAssumption
<1>3. \A i \in 1..n : a[i] \in Chunks
  BY <1>2
<1>4. SubSeq(a, 1, n) \in Seq(Chunks)
  BY <1>2, <1>3, SubSeqProperties
<1> QED
  BY <1>1, <1>4 DEF Content

LEMMA IngestStep ==
  ASSUME CacheInv, NEW c \in Clients, Ingest(c)
  PROVE  CacheInv'
<1> DEFINE r == client[c]
           n == [r EXCEPT !.todo = Tail(@)]
<1>1. /\ r.pc = "ingest" /\ r.todo # <<>> /\ chunks' = WriteAtomic(Head(r.todo)) /\ Set(c, n)
      /\ UNCHANGED <<manifests, index, tail, stage, job, spec, gc, pending, clock, ops, hist>>
  BY DEF Ingest
<1>2. ClientType(c) /\ DOMAIN client = Clients
  BY DEF CacheInv, OneClient
<1>3. /\ DOMAIN client' = Clients /\ client'[c] = n
      /\ \A d \in Clients \ {c} : client'[d] = client[d]
  BY <1>1, <1>2, SetIs
<1>4. r.todo \in Content /\ DOMAIN r = Fields
  BY <1>1, <1>2 DEF ClientType
<1>5. Head(r.todo) \in Chunks /\ Tail(r.todo) \in Content
  BY <1>1, <1>4, HeadTailProperties DEF Content
<1>6. FileType'
  <2>1. chunks' \in [Chunks -> {"absent", "good", "torn"}]
    BY <1>1, <1>5 DEF WriteAtomic, CacheInv, FileType
  <2> QED
    BY <1>1, <2>1 DEF CacheInv, FileType, clock
<1>7. EntriesSound'
  BY <1>1, EntriesSame, StaysIfSame DEF CacheInv, FileType
<1>8. /\ DOMAIN n = Fields /\ n.pc = "ingest" /\ n.todo = Tail(r.todo)
      /\ \A f \in {"job", "id", "key", "want", "got"} : n[f] = r[f]
  BY <1>1, <1>4 DEF Fields
<1>9. OneClient(c)' /\ client'[c].pc # "upload"
  <2> HIDE DEF n
  <2> QED
    BY <1>1, <1>3, <1>5, <1>8, SavesOn
<1>10. ops <= ops'
  BY <1>1 DEF CacheInv, FileType
<1> QED
  BY <1>1, <1>3, <1>6, <1>7, <1>9, <1>10, ClientStep

LEMMA CheckSizeStep ==
  ASSUME CacheInv, NEW c \in Clients, CheckSize(c)
  PROVE  CacheInv'
<1> DEFINE r == client[c]
           n == [r EXCEPT !.pc = "manifest"]
<1>1. /\ r.pc = "ingest" /\ r.todo = <<>>
      /\ IF Size(r.got) = Size(r.want) THEN Set(c, n) ELSE Set(c, Idle)
      /\ UNCHANGED <<disk, job, spec, gc, pending, clock, ops, hist>>
  BY DEF CheckSize, Drops
<1>2. ClientType(c) /\ Saver(c) /\ DOMAIN client = Clients
  BY DEF CacheInv, OneClient
<1>3. DOMAIN client' = Clients /\ \A d \in Clients \ {c} : client'[d] = client[d]
  BY <1>1, <1>2, SetIs
<1>4. FileType' /\ EntriesSound' /\ ops <= ops'
  <2>1. ops <= ops' /\ ops' \in ops..MaxOps
    BY <1>1 DEF CacheInv, FileType
  <2> QED
    BY <1>1, <2>1, FileSame, EntriesSame, StaysIfSame DEF disk, clock
<1>5. OneClient(c)' /\ client'[c].pc # "upload"
  <2>1. CASE Size(r.got) = Size(r.want)
    <3>1. client'[c] = n
      BY <1>1, <1>2, <2>1, SetIs
    <3>2. /\ DOMAIN n = Fields /\ n.pc = "manifest" /\ n.todo = r.todo /\ r.todo \in Content
          /\ \A f \in {"job", "id", "key", "want", "got"} : n[f] = r[f]
      BY <1>1, <1>2 DEF ClientType, Fields
    <3>3. Begun(r.got) /\ (r.got # <<>> \/ r.got \in Archives) /\ r.want \in Archives
      BY <1>1, <1>2 DEF Saver, Saving
    <3>4. r.got \in Archives
      BY <2>1, <3>3, SizeTells, BegunIsContent
    <3> HIDE DEF n
    <3> QED
      BY <1>1, <2>1, <3>1, <3>2, <3>4, SavesOn
  <2>2. CASE Size(r.got) # Size(r.want)
    <3>1. client'[c] = Idle
      BY <1>1, <1>2, <2>2, SetIs
    <3> QED
      BY <3>1, IdleIs
  <2> QED
    BY <2>1, <2>2
<1> QED
  BY <1>1, <1>3, <1>4, <1>5, ClientStep DEF disk

LEMMA PutManifestStep ==
  ASSUME CacheInv, NEW c \in Clients, PutManifest(c)
  PROVE  CacheInv'
<1> DEFINE r == client[c]
           n == [r EXCEPT !.pc = "insert"]
<1>1. /\ r.pc = "manifest" /\ manifests' = manifests \cup {r.got} /\ Set(c, n)
      /\ UNCHANGED <<chunks, index, tail, stage, job, spec, gc, pending, clock, ops, hist>>
  BY DEF PutManifest
<1>2. ClientType(c) /\ Saver(c) /\ DOMAIN client = Clients
  BY DEF CacheInv, OneClient
<1>3. /\ DOMAIN client' = Clients /\ client'[c] = n
      /\ \A d \in Clients \ {c} : client'[d] = client[d]
  BY <1>1, <1>2, SetIs
<1>4. r.got \in Archives /\ Size(r.got) = Size(r.want)
  BY <1>1, <1>2 DEF Saver, Saving
<1>5. FileType'
  <2>1. r.got \in Content
    BY <1>4, DataAssumption DEF Content
  <2> QED
    BY <1>1, <2>1 DEF CacheInv, FileType, clock
<1>6. EntriesSound' /\ ops <= ops'
  BY <1>1, EntriesSame, StaysIfSame DEF CacheInv, FileType
<1>7. /\ DOMAIN n = Fields /\ n.pc = "insert"
      /\ \A f \in {"job", "id", "key", "want", "got"} : n[f] = r[f]
  BY <1>1, <1>2 DEF ClientType, Fields
<1>8. OneClient(c)' /\ client'[c].pc # "upload"
  <2> HIDE DEF n
  <2> QED
    BY <1>1, <1>3, <1>4, <1>7, SavesOn
<1> QED
  BY <1>1, <1>3, <1>5, <1>6, <1>8, ClientStep

\* A step of a restore, or the end of any operation.
LEMMA ReadStep ==
  ASSUME CacheInv, NEW c \in Clients, NEW n, Set(c, n),
         UNCHANGED <<manifests, index, tail, stage, job, spec, gc, pending, now, ops>>,
         chunks' \in [Chunks -> {"absent", "good", "torn"}],
         \/ n = Idle
         \/ /\ client[c].pc \in Restoring
            /\ DOMAIN n = Fields /\ n.pc \in Restoring
            /\ n.job = client[c].job /\ n.by = client[c].by
  PROVE  CacheInv'
<1>1. /\ DOMAIN client' = Clients /\ client'[c] = n
      /\ \A d \in Clients \ {c} : client'[d] = client[d]
  BY SetIs DEF CacheInv
<1>2. FileType'
  BY DEF CacheInv, FileType
<1>3. ops <= ops'
  BY DEF CacheInv, FileType
<1>4. EntriesSound'
  BY <1>3, EntriesSame, StaysIfSame
<1>5. OneClient(c)' /\ client'[c].pc # "upload"
  <2>1. CASE n = Idle
    BY <1>1, <2>1, IdleIs
  <2>2. CASE /\ client[c].pc \in Restoring
             /\ DOMAIN n = Fields /\ n.pc \in Restoring
             /\ n.job = client[c].job /\ n.by = client[c].by
    BY <1>1, <2>2, ReadsOn
  <2> QED
    BY <2>1, <2>2
<1> QED
  BY <1>1, <1>2, <1>3, <1>4, <1>5, ClientStep

LEMMA RestoreSteps ==
  ASSUME CacheInv, NEW c \in Clients,
         \/ GetManifest(c) \/ HasChunk(c) \/ GetBlob(c) \/ Download(c) \/ ReadSlice(c)
         \/ Served(c)
  PROVE  CacheInv'
<1> DEFINE r == client[c]
<1>1. ClientType(c) /\ FileType
  BY DEF CacheInv, OneClient
<1>2. chunks \in [Chunks -> {"absent", "good", "torn"}]
  BY <1>1 DEF FileType
<1>3. CASE GetManifest(c)
  <2> DEFINE n == IF r.got \in manifests THEN [r EXCEPT !.pc = "probe", !.todo = r.got] ELSE Idle
  <2>1. r.pc = "lookup" /\ Set(c, n) /\ UNCHANGED <<disk, job, spec, gc, pending, clock, ops, hist>>
    BY <1>3 DEF GetManifest, Drops
  <2>2. n = Idle \/ /\ DOMAIN n = Fields /\ n.pc \in Restoring /\ n.job = r.job /\ n.by = r.by
    BY <1>1 DEF ClientType, Fields, Restoring
  <2> HIDE DEF n
  <2> QED
    BY <1>2, <2>1, <2>2, ReadStep DEF disk, clock, Restoring
<1>4. CASE HasChunk(c)
  <2> DEFINE n == IF r.todo = <<>> THEN [r EXCEPT !.pc = "url"]
                  ELSE IF chunks[Head(r.todo)] = "absent" THEN Idle
                  ELSE [r EXCEPT !.todo = Tail(@)]
  <2>1. r.pc = "probe" /\ Set(c, n) /\ UNCHANGED <<disk, job, spec, gc, pending, clock, ops, hist>>
    BY <1>4 DEF HasChunk, Drops
  <2>2. n = Idle \/ /\ DOMAIN n = Fields /\ n.pc \in Restoring /\ n.job = r.job /\ n.by = r.by
    BY <1>1, <2>1 DEF ClientType, Fields, Restoring
  <2> HIDE DEF n
  <2> QED
    BY <1>2, <2>1, <2>2, ReadStep DEF disk, clock, Restoring
<1>5. CASE GetBlob(c) \/ Download(c)
  <2>1. PICK header \in Ranges :
          LET g == ParseRange(header, Size(r.got))
          IN  IF g = <<>> THEN Drops(c)
              ELSE Set(c, [r EXCEPT !.pc = "read", !.range = g,
                                    !.todo = BuildPlan(r.got, g[1], g[2] - g[1] + 1)])
    BY <1>5 DEF GetBlob, Download, Streams
  <2>2. r.pc = "url" /\ UNCHANGED <<disk, job, spec, gc, pending, clock, ops, hist>>
    BY <1>5 DEF GetBlob, Download, Streams
  <2> DEFINE g == ParseRange(header, Size(r.got))
             plan == BuildPlan(r.got, g[1], g[2] - g[1] + 1)
             n == IF g = <<>> THEN Idle ELSE [r EXCEPT !.pc = "read", !.range = g, !.todo = plan]
  <2>3. Set(c, n)
    BY <2>1 DEF Drops
  <2>4. n = Idle \/ /\ DOMAIN n = Fields /\ n.pc \in Restoring /\ n.job = r.job /\ n.by = r.by
    <3> HIDE DEF g, plan
    <3> QED
      BY <1>1 DEF ClientType, Fields, Restoring
  <2> HIDE DEF n
  <2> QED
    BY <1>2, <2>2, <2>3, <2>4, ReadStep DEF disk, clock, Restoring
<1>6. CASE ReadSlice(c)
  <2> DEFINE step == Head(r.todo)
             more == r.out \o [b \in 1..step[3] |-> <<step[1], step[2] + b>>]
             n == IF chunks[step[1]] = "good" THEN [r EXCEPT !.todo = Tail(@), !.out = more] ELSE Idle
  <2>1. /\ r.pc = "read" /\ Set(c, n)
        /\ chunks' = chunks \/ chunks' = [chunks EXCEPT ![step[1]] = "absent"]
        /\ UNCHANGED <<manifests, index, tail, stage, job, spec, gc, pending, clock, ops, hist>>
    BY <1>6 DEF ReadSlice, Drops
  <2>2. chunks' \in [Chunks -> {"absent", "good", "torn"}]
    <3> HIDE DEF step
    <3> QED
      BY <1>2, <2>1
  <2>3. n = Idle \/ /\ DOMAIN n = Fields /\ n.pc \in Restoring /\ n.job = r.job /\ n.by = r.by
    <3> HIDE DEF more, step
    <3> QED
      BY <1>1, <2>1 DEF ClientType, Fields, Restoring
  <2> HIDE DEF n
  <2> QED
    BY <2>1, <2>2, <2>3, ReadStep DEF clock, Restoring
<1>7. CASE Served(c)
  <2>1. Set(c, Idle) /\ UNCHANGED <<disk, job, spec, gc, pending, clock, ops, hist>>
    BY <1>7 DEF Served, Drops
  <2> QED
    BY <1>2, <2>1, ReadStep DEF disk, clock
<1> QED
  BY <1>3, <1>4, <1>5, <1>6, <1>7

LEMMA StrayIs ==
  ASSUME NEW c \in Clients, client'[c].pc = "stray", DOMAIN client'[c] = Fields,
         client'[c].got \in Content, client'[c].todo \in Content
  PROVE  OneClient(c)' /\ client'[c].pc # "upload"
<1>1. ClientType(c)'
  BY DEF ClientType, Content
<1>2. Saver(c)' /\ Restorer(c)'
  BY DEF Saver, Restorer, Saving, Restoring
<1> QED
  BY <1>1, <1>2 DEF OneClient

\* A client goes away; a write it had begun stays.
LEMMA DisconnectStep ==
  ASSUME CacheInv, NEW c \in Clients, Disconnect(c)
  PROVE  CacheInv'
<1> DEFINE r == client[c]
           n == [Idle EXCEPT !.pc = "stray", !.got = r.got, !.todo = r.todo]
<1>1. /\ Set(c, Idle) \/ (r.pc \in {"ingest", "manifest"} /\ Set(c, n))
      /\ UNCHANGED <<disk, job, spec, gc, pending, clock, ops, hist>>
  BY DEF Disconnect, Drops
<1>2. FileType /\ ClientType(c) /\ Saver(c) /\ DOMAIN client = Clients
  BY DEF CacheInv, OneClient
<1>3. CASE Set(c, Idle)
  BY <1>1, <1>2, <1>3, ReadStep DEF disk, clock, FileType
<1>4. CASE r.pc \in {"ingest", "manifest"} /\ Set(c, n)
  <2>1. n.pc = "stray" /\ n.got = r.got /\ n.todo = r.todo /\ DOMAIN n = Fields
    BY DEF Idle, Fields
  <2>2. r.todo \in Content
    BY <1>2, <1>4 DEF ClientType
  <2>3. r.pc = "ingest" => Begun(r.got)
    BY <1>2 DEF Saver, Saving
  <2>4. r.pc = "manifest" => r.got \in Archives
    BY <1>2 DEF Saver, Saving
  <2>5. r.got \in Content
    BY <1>4, <2>3, <2>4, BegunIsContent, DataAssumption DEF Content
  <2> HIDE DEF n
  <2>6. /\ DOMAIN client' = Clients /\ client'[c] = n
        /\ \A d \in Clients \ {c} : client'[d] = client[d]
    BY <1>2, <1>4, SetIs
  <2>7. OneClient(c)' /\ client'[c].pc # "upload"
    BY <2>1, <2>2, <2>5, <2>6, StrayIs
  <2>8. ops <= ops' /\ ops' \in ops..MaxOps
    BY <1>1, <1>2 DEF FileType
  <2>9. FileType' /\ EntriesSound'
    BY <1>1, <2>8, FileSame, EntriesSame, StaysIfSame DEF disk, clock
  <2> QED
    BY <1>1, <2>6, <2>7, <2>8, <2>9, ClientStep DEF disk
<1> QED
  BY <1>1, <1>3, <1>4

\* What a write without a client may do.
LEMMA StrayDoes ==
  ASSUME CacheInv, NEW c \in Clients, Stray(c)
  PROVE  /\ client[c].pc = "stray"
         /\ UNCHANGED <<index, tail, stage, job, spec, gc, pending, clock, ops, acked, overlapped, lossy>>
         /\ \E m : /\ Set(c, m)
                   /\ m = Idle \/ (m.pc = "stray" /\ DOMAIN m = Fields /\ m.got \in Content /\ m.todo \in Content)
         /\ \/ UNCHANGED <<chunks, manifests, late>>
            \/ \E x \in Content : /\ manifests' = manifests \cup {x} /\ chunks' = chunks
                                  /\ Remembers("manifests", x)
            \/ \E x \in Chunks : /\ chunks' = WriteAtomic(x) /\ manifests' = manifests
                                 /\ Remembers("chunks", x)
<1>1. PICK r : r = client[c]
  OBVIOUS
<1> DEFINE m == [r EXCEPT !.todo = Tail(@)]
<1>2. r.pc = "stray"
      /\ UNCHANGED <<index, tail, stage, job, spec, gc, pending, clock, ops, acked, overlapped, lossy>>
  BY <1>1 DEF Stray
<1>3. DOMAIN r = Fields /\ r.got \in Content /\ r.todo \in Seq(Chunks)
  BY <1>1, <1>2 DEF CacheInv, OneClient, ClientType, Content
<1>4. m.pc = "stray" /\ m.got = r.got /\ m.todo = Tail(r.todo) /\ DOMAIN m = Fields
  BY <1>2, <1>3 DEF Fields
<1>5. r.todo # <<>> => Head(r.todo) \in Chunks /\ Tail(r.todo) \in Content
  BY <1>3, HeadTailProperties DEF Content
<1>6. \/ Set(c, Idle) /\ UNCHANGED <<chunks, manifests, late>>
      \/ /\ Set(c, Idle) /\ manifests' = manifests \cup {r.got} /\ chunks' = chunks
         /\ Remembers("manifests", r.got)
      \/ /\ r.todo # <<>> /\ (Set(c, Idle) \/ Set(c, m))
         /\ chunks' = WriteAtomic(Head(r.todo)) /\ manifests' = manifests
         /\ Remembers("chunks", Head(r.todo))
  BY <1>1 DEF Stray, Drops
<1> HIDE DEF m
<1>7. \E k : /\ Set(c, k)
             /\ k = Idle \/ (k.pc = "stray" /\ DOMAIN k = Fields /\ k.got \in Content /\ k.todo \in Content)
  BY <1>3, <1>4, <1>5, <1>6
<1>8. \/ UNCHANGED <<chunks, manifests, late>>
      \/ \E x \in Content : /\ manifests' = manifests \cup {x} /\ chunks' = chunks
                            /\ Remembers("manifests", x)
      \/ \E x \in Chunks : /\ chunks' = WriteAtomic(x) /\ manifests' = manifests
                           /\ Remembers("chunks", x)
  BY <1>3, <1>5, <1>6, Zenon
<1> QED
  BY <1>1, <1>2, <1>7, <1>8

LEMMA StrayStep ==
  ASSUME CacheInv, NEW c \in Clients, Stray(c)
  PROVE  CacheInv'
<1>1. FileType /\ DOMAIN client = Clients
  BY DEF CacheInv
<1>2. UNCHANGED <<index, tail, stage, job, spec, gc, pending, clock, ops>>
  BY StrayDoes
<1>3. PICK m : /\ Set(c, m)
               /\ m = Idle \/ (m.pc = "stray" /\ DOMAIN m = Fields /\ m.got \in Content /\ m.todo \in Content)
  BY StrayDoes
<1>4. /\ DOMAIN client' = Clients /\ client'[c] = m
      /\ \A d \in Clients \ {c} : client'[d] = client[d]
  BY <1>1, <1>3, SetIs
<1>5. OneClient(c)' /\ client'[c].pc # "upload"
  BY <1>3, <1>4, IdleIs, StrayIs
<1>6. /\ manifests' = manifests \/ \E x \in Content : manifests' = manifests \cup {x}
      /\ chunks' = chunks \/ \E x \in Chunks : chunks' = WriteAtomic(x)
  BY StrayDoes
<1>7. chunks' \in [Chunks -> {"absent", "good", "torn"}] /\ manifests' \subseteq Content
  BY <1>1, <1>6 DEF FileType, WriteAtomic
<1>8. FileType'
  BY <1>1, <1>2, <1>7 DEF FileType, clock, Content
<1>9. EntriesSound' /\ ops <= ops'
  BY <1>1, <1>2, EntriesSame, StaysIfSame DEF FileType
<1> QED
  BY <1>2, <1>4, <1>5, <1>8, <1>9, ClientStep

\* What a lookup finds was saved by one the job may read from.
LEMMA FoundIsTrusted ==
  ASSUME CacheInv, NEW j \in Jobs, NEW q \in Queries, IndexLookup(ReadLadder(j), q) # NoEntry,
         NEW e, e = IndexLookup(ReadLadder(j), q)
  PROVE  /\ e \in Entry /\ e.by \in Jobs /\ job[e.by] # "wait" /\ e.manifest \in Archives
         /\ spec[e.by].ref \in {spec[j].ref, spec[j].base} \/ Trusted(e.by)
         /\ \E s \in Scopes : e \in Range(index[s])
<1> DEFINE ladder == ReadLadder(j)
<1>1. /\ Ladder(ladder)
      /\ \A k \in DOMAIN ladder : ladder[k] \in {spec[j].ref, spec[j].base} \/ IsProtected(ladder[k])
  BY ReadLadderIs DEF CacheInv
<1>2. index \in [Scopes -> Seq(Entry)]
  BY DEF CacheInv, FileType
<1>3. FoundIn(ladder, e)
  BY <1>1, <1>2, LookupIs
<1> HIDE DEF ladder
<1>4. PICK k \in DOMAIN ladder : /\ ladder[k] \in Scopes
                                 /\ \E i \in DOMAIN index[ladder[k]] : e = index[ladder[k]][i]
  BY <1>3 DEF FoundIn
<1>5. PICK s : s = ladder[k]
  OBVIOUS
<1>6. s \in Scopes /\ \E i \in DOMAIN index[s] : e = index[s][i]
  BY <1>4, <1>5
<1>7. e \in Range(index[s]) /\ e \in Entry
  <2>1. index[s] \in Seq(Entry)
    BY <1>2, <1>6
  <2> QED
    BY <1>6, <2>1 DEF Range
<1>8. Sound(s, e)
  BY <1>6, <1>7 DEF Listed, CacheInv, EntriesSound
<1>9. e.by \in Jobs
  BY <1>7 DEF Entry
<1>10. s \in {spec[j].ref, spec[j].base} \/ IsProtected(s)
  BY <1>1, <1>4, <1>5
<1>11. IsProtected(spec[e.by].ref) => Trusted(e.by)
  BY <1>8 DEF Sound, WriteAllowed
<1> QED
  BY <1>6, <1>7, <1>8, <1>9, <1>10, <1>11 DEF Sound

LEMMA HitsStep ==
  ASSUME CacheInv, NEW c \in Clients, LookupV1(c) \/ LookupUrl(c)
  PROVE  CacheInv'
<1>1. PICK proto \in {"v1", "v2"} : Hits(c, proto)
  BY DEF LookupV1, LookupUrl
<1>2. PICK j \in Jobs, q \in Queries :
        /\ job[j] = "up"
        /\ LET e == IndexLookup(ReadLadder(j), q)
           IN  /\ e # NoEntry
               /\ Set(c, [Idle EXCEPT !.pc = "lookup", !.job = j, !.got = e.manifest, !.by = e.by,
                                      !.proto = proto])
  BY <1>1 DEF Hits
<1>3. PICK e : e = IndexLookup(ReadLadder(j), q)
  OBVIOUS
<1> DEFINE n == [Idle EXCEPT !.pc = "lookup", !.job = j, !.got = e.manifest, !.by = e.by, !.proto = proto]
<1>4. e # NoEntry /\ Set(c, n)
  BY <1>2, <1>3
<1>5. /\ client[c].pc = "idle" /\ ops < MaxOps /\ ops' = ops + 1
      /\ UNCHANGED <<disk, job, spec, gc, clock, hist, pending>>
  BY <1>1 DEF Hits, Begins
<1>6. /\ DOMAIN n = Fields /\ n.pc = "lookup" /\ n.job = j /\ n.by = e.by
  BY DEF Idle, Fields
<1> HIDE DEF n
<1>7. /\ DOMAIN client' = Clients /\ client'[c] = n
      /\ \A d \in Clients \ {c} : client'[d] = client[d]
  BY <1>4, SetIs DEF CacheInv
<1>8. /\ e.by \in Jobs /\ job[e.by] # "wait"
      /\ spec[e.by].ref \in {spec[j].ref, spec[j].base} \/ Trusted(e.by)
  BY <1>3, <1>4, FoundIsTrusted
<1>9. ops \in Nat /\ MaxOps \in Nat
  BY BoundsAssumption DEF CacheInv, FileType
<1>10. ops <= ops' /\ ops' \in ops..MaxOps
  BY <1>5, <1>9
<1>11. FileType'
  BY <1>5, <1>10, FileSame DEF clock
<1>12. EntriesSound'
  BY <1>5, <1>10, EntriesSame, StaysIfSame DEF disk
<1>13. OneClient(c)'
  <2>1. ClientType(c)'
    BY <1>2, <1>5, <1>6, <1>7 DEF ClientType, Restoring
  <2>2. Saver(c)'
    BY <1>6, <1>7 DEF Saver, Saving
  <2>3. Trusted(e.by)' <=> Trusted(e.by)
    BY <1>5 DEF Trusted
  <2>4. Restorer(c)'
    BY <1>5, <1>6, <1>7, <1>8, <2>3 DEF Restorer, Trusted
  <2> QED
    BY <2>1, <2>2, <2>4 DEF OneClient
<1> QED
  BY <1>5, <1>6, <1>7, <1>10, <1>11, <1>12, <1>13, ClientStep DEF disk

\* What an insert appends: an entry of the job's own ref, of what was written.
LEMMA InsertIs ==
  ASSUME CacheInv, NEW c \in Clients, Insert(c)
  PROVE  \E t \in Scopes, x \in Entry :
           /\ Sound(t, x) /\ x.manifest = client[c].got
           /\ index' = IF tail[t] THEN index ELSE [index EXCEPT ![t] = Append(@, x)]
           /\ tail' = [tail EXCEPT ![t] = FALSE]
           /\ acked' = IF tail[t] THEN acked ELSE acked \cup {<<t, x>>}
<1> DEFINE r == client[c]
           s == spec[r.job].ref
           e == [key |-> r.key, manifest |-> r.got, size |-> Size(r.want), at |-> now,
                 by |-> r.job, id |-> r.id]
<1>1. /\ r.pc = "insert" /\ IndexInsert(s, e)
      /\ acked' = IF tail[s] THEN acked ELSE acked \cup {<<s, e>>}
  BY DEF Insert
<1>2. ClientType(c) /\ Saver(c) /\ FileType /\ JobType
  BY DEF CacheInv, OneClient
<1>3. r.job \in Jobs /\ job[r.job] = "up"
  BY <1>1, <1>2 DEF ClientType
<1>4. /\ r.id \in 1..ops /\ r.key \in Keys /\ r.want \in Archives /\ WriteAllowed(r.job)
      /\ r.got \in Archives /\ Size(r.got) = Size(r.want)
  BY <1>1, <1>2 DEF Saver, Saving
<1>5. s \in Scopes
  BY <1>2, <1>3, DataAssumption DEF JobType
<1>6. e \in Entry
  <2>1. r.got \in Seq(Chunks) /\ r.want \in Content
    BY <1>4, DataAssumption DEF Content
  <2>2. Size(r.want) \in Nat
    BY <2>1, SizeNat
  <2>3. r.id \in 1..MaxOps /\ now \in 0..MaxTime
    BY <1>2, <1>4, BoundsAssumption DEF FileType
  <2> QED
    BY <1>3, <1>4, <2>1, <2>2, <2>3 DEF Entry
<1>7. Sound(s, e)
  BY <1>3, <1>4 DEF Sound
<1>8. e.manifest = client[c].got
  OBVIOUS
<1> HIDE DEF e, s
<1> QED
  BY <1>1, <1>5, <1>6, <1>7, <1>8 DEF IndexInsert

LEMMA InsertStep ==
  ASSUME CacheInv, NEW c \in Clients, Insert(c)
  PROVE  CacheInv'
<1>1. /\ Set(c, Idle)
      /\ UNCHANGED <<chunks, manifests, stage, job, spec, gc, pending, clock, ops, overlapped, lossy>>
  BY DEF Insert, Drops
<1>2. DOMAIN client = Clients /\ FileType
  BY DEF CacheInv
<1>3. /\ DOMAIN client' = Clients /\ client'[c] = Idle
      /\ \A d \in Clients \ {c} : client'[d] = client[d]
  BY <1>1, <1>2, SetIs
<1>4. PICK t \in Scopes, x \in Entry :
           /\ Sound(t, x)
           /\ index' = IF tail[t] THEN index ELSE [index EXCEPT ![t] = Append(@, x)]
           /\ tail' = [tail EXCEPT ![t] = FALSE]
  BY InsertIs
<1>5. index[t] \in Seq(Entry)
  BY <1>2 DEF FileType
<1>6. Append(index[t], x) \in Seq(Entry) /\ Range(Append(index[t], x)) = Range(index[t]) \cup {x}
  BY <1>5, AppendRange
<1>7. FileType'
  <2>1. index' \in [Scopes -> Seq(Entry)]
    BY <1>2, <1>4, <1>6 DEF FileType
  <2>2. tail' \in [Scopes -> BOOLEAN]
    BY <1>2, <1>4 DEF FileType
  <2> QED
    BY <1>1, <1>2, <2>1, <2>2 DEF FileType, clock
<1>8. ops <= ops' /\ Stays
  BY <1>1, <1>2, StaysIfSame DEF FileType
<1>9. EntriesSound'
  <2>1. ASSUME NEW u \in Scopes, NEW y \in Entry, Listed(u, y)' PROVE Sound(u, y)'
    <3>1. Listed(u, y) \/ (u = t /\ y = x)
      <4>1. Range(index'[u]) \subseteq Range(index[u]) \cup (IF u = t THEN {x} ELSE {})
        BY <1>2, <1>4, <1>6 DEF FileType
      <4> QED
        BY <1>1, <2>1, <4>1 DEF Listed
    <3>2. Sound(u, y)
      BY <1>4, <3>1 DEF CacheInv, EntriesSound
    <3> QED
      BY <1>8, <3>2, SoundStays
  <2> QED
    BY <2>1 DEF EntriesSound
<1>10. OneClient(c)' /\ client'[c].pc # "upload"
  BY <1>3, IdleIs
<1> QED
  BY <1>1, <1>3, <1>7, <1>8, <1>9, <1>10, ClientStep
\* ----- Uploads.

\* A step of a client at its upload, its own part given.
LEMMA UploadStep ==
  ASSUME CacheInv, NEW c \in Clients,
         UNCHANGED <<chunks, manifests, index, tail, job, spec, gc, now>>, ops' \in ops..MaxOps,
         \A i \in DOMAIN stage' : i \in 1..ops' /\ stage'[i] \in Content,
         pending' \subseteq [id : 1..ops', job : Jobs, proto : {"v1", "v2"}, key : Keys],
         \A p \in pending' : job'[p.job] = "up",
         DOMAIN client' = Clients, \A d \in Clients \ {c} : client'[d] = client[d],
         \A d \in Clients \ {c} : Undisturbed(d),
         OneClient(c)', Uploading'
  PROVE  CacheInv'
<1>1. ops <= ops' /\ ops' \in 0..MaxOps /\ ops' \in Nat
  BY DEF CacheInv, FileType
<1>2. Stays
  BY <1>1, StaysIfSame
<1>3. FileType'
  BY <1>1 DEF CacheInv, FileType, Content
<1>4. JobType' /\ Ordered'
  BY DEF CacheInv, JobType, Ordered
<1>5. EntriesSound'
  BY <1>2, EntriesSame
<1>6. ASSUME NEW d \in Clients PROVE OneClient(d)'
  <2>1. CASE d = c
    BY <2>1
  <2>2. CASE d # c
    <3>1. client'[d] = client[d] /\ Undisturbed(d)
      BY <2>2
    <3>2. client[d].pc \notin {"idle", "stray"} => job'[client[d].job] = "up"
      BY DEF CacheInv, OneClient, ClientType
    <3> QED
      BY <1>1, <1>2, <3>1, <3>2, OtherClient
  <2> QED
    BY <2>1, <2>2
<1> QED
  BY <1>3, <1>4, <1>5, <1>6 DEF CacheInv

\* An upload is announced under a number nobody had.
LEMMA Announces ==
  ASSUME CacheInv, NEW c \in Clients, NEW j \in Jobs, NEW k \in Keys, NEW a \in Archives,
         NEW proto \in {"v1", "v2"}, NEW n,
         client[c].pc = "idle", ops < MaxOps, ops' = ops + 1, job[j] = "up", WriteAllowed(j),
         DOMAIN n = Fields, n.pc = "upload", n.job = j, n.id = ops + 1, n.key = k,
         n.want = a, n.todo = a, n.proto = proto,
         Set(c, n),
         pending' = pending \cup {[id |-> ops + 1, job |-> j, proto |-> proto, key |-> k]},
         UNCHANGED <<chunks, manifests, index, tail, job, spec, gc, now>>,
         stage' = stage \/ (proto = "v1" /\ stage' = Holding(ops + 1, <<>>))
  PROVE  CacheInv'
<1> DEFINE p0 == [id |-> ops + 1, job |-> j, proto |-> proto, key |-> k]
<1>1. FileType /\ JobType /\ Uploading /\ DOMAIN client = Clients
  BY DEF CacheInv
<1>2. ops \in Nat /\ MaxOps \in Nat /\ ops' \in ops..MaxOps
  BY <1>1, BoundsAssumption DEF FileType
<1>3. /\ DOMAIN n = Fields /\ n.pc = "upload" /\ n.job = j /\ n.id = ops + 1 /\ n.key = k
      /\ n.want = a /\ n.todo = a /\ n.proto = proto
  OBVIOUS
<1>0. PICK id : id = ops + 1
  OBVIOUS
<1>4. /\ DOMAIN client' = Clients /\ client'[c] = n
      /\ \A d \in Clients \ {c} : client'[d] = client[d]
  BY <1>1, SetIs
<1>5. \A i \in DOMAIN stage : i \in 1..ops /\ i # ops + 1 /\ stage[i] \in Content
  BY <1>1, <1>2 DEF FileType
<1>6. \A p \in pending : p.id \in 1..ops /\ p.id # ops + 1 /\ job[p.job] = "up"
  BY <1>1, <1>2 DEF JobType
<1>7. /\ \A i \in DOMAIN stage' : i \in 1..ops' /\ stage'[i] \in Content
      /\ \A i \in 1..ops : Staged(i)' = Staged(i)
      /\ Staged(id)' = <<>>
      /\ proto = "v2" => stage' = stage
  <2>1. CASE stage' = stage
    <3>1. id \notin DOMAIN stage'
      BY <1>0, <1>5, <2>1
    <3>2. \A i \in DOMAIN stage' : i \in 1..ops'
      BY <1>2, <1>5, <2>1
    <3> QED
      BY <1>5, <2>1, <3>1, <3>2 DEF Staged
  <2>2. CASE proto = "v1" /\ stage' = Holding(ops + 1, <<>>)
    <3>1. /\ DOMAIN stage' = DOMAIN stage \cup {id}
          /\ \A i \in DOMAIN stage' : stage'[i] = IF i = id THEN <<>> ELSE stage[i]
      BY <1>0, <2>2 DEF Holding
    <3>2. \A i \in DOMAIN stage' : i \in 1..ops'
      BY <1>0, <1>2, <1>5, <3>1
    <3>3. <<>> \in Content
      BY DEF Content
    <3>4. \A i \in 1..ops : i # id
      BY <1>0, <1>2
    <3> QED
      BY <1>5, <2>2, <3>1, <3>2, <3>3, <3>4 DEF Staged
  <2> QED
    BY <2>1, <2>2
<1>8. pending' \subseteq [id : 1..ops', job : Jobs, proto : {"v1", "v2"}, key : Keys]
  <2>1. p0 \in [id : 1..ops', job : Jobs, proto : {"v1", "v2"}, key : Keys]
    BY <1>2
  <2>2. \A p \in pending : p \in [id : 1..ops', job : Jobs, proto : {"v1", "v2"}, key : Keys]
    BY <1>1, <1>2, <1>6 DEF JobType
  <2> QED
    BY <2>1, <2>2
<1>9. \A p \in pending' : job'[p.job] = "up"
  BY <1>6
<1>10. \A d \in Clients : client[d].pc = "upload" => client[d].id \in 1..ops /\ client[d].id # ops + 1
  <2>1. \A i \in 1..ops : i # ops + 1
    BY <1>2
  <2>2. \A d \in Clients : client[d].pc = "upload" => client[d].id \in 1..ops
    BY DEF CacheInv, OneClient, Saver, Saving
  <2> QED
    BY <2>1, <2>2
<1>11. ASSUME NEW d \in Clients \ {c} PROVE Undisturbed(d)
  BY <1>7, <1>10 DEF Undisturbed
<1>12. Uploading'
  <2>1. \A p, q \in pending' : p.id = q.id => p = q
    BY <1>1, <1>6 DEF Uploading
  <2>2. \A d, e \in Clients :
          client'[d].pc = "upload" /\ client'[e].pc = "upload" /\ client'[d].id = client'[e].id => d = e
    <3>1. \A d \in Clients : client'[d].pc = "upload" =>
            IF d = c THEN client'[d].id = ops + 1
            ELSE client'[d] = client[d] /\ client[d].id # ops + 1
      BY <1>3, <1>4, <1>10
    <3>2. \A d, e \in Clients :
            client[d].pc = "upload" /\ client[e].pc = "upload" /\ client[d].id = client[e].id => d = e
      BY <1>1 DEF Uploading
    <3>3. ASSUME NEW d \in Clients, NEW e \in Clients, client'[d].pc = "upload",
                 client'[e].pc = "upload", client'[d].id = client'[e].id
          PROVE  d = e
      <4>1. CASE d = c
        BY <3>1, <3>3, <4>1
      <4>2. CASE d # c
        BY <3>1, <3>2, <3>3, <4>2
      <4> QED
        BY <4>1, <4>2
    <3> QED
      BY <3>3
  <2>3. ASSUME NEW p \in pending', p.proto = "v2", p.id \in DOMAIN stage'
        PROVE  stage'[p.id] # <<>> /\ Begun(stage'[p.id])
    <3>1. CASE p \in pending
      <4>1. Staged(p.id)' = Staged(p.id)
        BY <1>6, <1>7, <3>1
      <4>2. p.id \in DOMAIN stage /\ stage'[p.id] = stage[p.id]
        <5>1. CASE stage' = stage
          BY <2>3, <5>1
        <5>2. CASE stage' = Holding(ops + 1, <<>>)
          BY <1>6, <2>3, <3>1, <5>2 DEF Holding
        <5> QED
          BY <5>1, <5>2
      <4> QED
        BY <1>1, <2>3, <3>1, <4>2 DEF Uploading
    <3>2. CASE p = p0
      BY <1>5, <1>7, <2>3, <3>2
    <3> QED
      BY <3>1, <3>2
  <2> QED
    BY <2>1, <2>2, <2>3 DEF Uploading, Begun
<1>13. OneClient(c)'
  <2>1. a \in Content
    BY DataAssumption DEF Content
  <2>2. ClientType(c)'
    BY <1>3, <1>4, <2>1 DEF ClientType, Saving
  <2>3. Restorer(c)'
    BY <1>3, <1>4 DEF Restorer, Restoring
  <2>4. Saver(c)'
    <3>1. n.id \in 1..ops'
      BY <1>2, <1>3
    <3>2. WriteAllowed(j)'
      BY DEF WriteAllowed, Trusted
    <3>3. \A p \in pending' : p.id = n.id => p.proto = proto
      BY <1>3, <1>6
    <3>4. <<>> \o a = a
      BY <2>1, ConcatEmptySeq DEF Content
    <3>5. Staged(n.id)' \o n.todo = n.want
      <4>1. n.id = id /\ n.todo = a /\ n.want = a
        BY <1>0, <1>3
      <4>2. Staged(n.id)' = Staged(id)'
        BY <4>1
      <4> QED
        BY <1>7, <3>4, <4>1, <4>2, Zenon
    <3>6. WriteAllowed(n.job)'
      BY <1>3, <3>2 DEF WriteAllowed, Trusted
    <3> QED
      BY <1>3, <1>4, <3>1, <3>3, <3>5, <3>6 DEF Saver, Staged, WriteAllowed, Trusted
  <2> QED
    BY <2>2, <2>3, <2>4 DEF OneClient
<1> QED
  BY <1>2, <1>4, <1>7, <1>8, <1>9, <1>11, <1>12, <1>13, UploadStep

LEMMA AnnounceSteps ==
  ASSUME CacheInv, NEW c \in Clients, CreateCacheEntry(c) \/ Reserve(c)
  PROVE  CacheInv'
<1>1. CASE CreateCacheEntry(c)
  <2>1. PICK j \in Jobs, k \in Keys, a \in Archives :
          /\ job[j] = "up" /\ WriteAllowed(j)
          /\ pending' = pending \cup {[id |-> ops + 1, job |-> j, proto |-> "v2", key |-> k]}
          /\ Set(c, [Idle EXCEPT !.pc = "upload", !.job = j, !.id = ops + 1, !.key = k,
                                 !.want = a, !.todo = a])
    BY <1>1 DEF CreateCacheEntry
  <2>2. /\ client[c].pc = "idle" /\ ops < MaxOps /\ ops' = ops + 1
        /\ UNCHANGED <<disk, job, spec, gc, clock, hist>>
    BY <1>1 DEF CreateCacheEntry, Begins
  <2> DEFINE n == [Idle EXCEPT !.pc = "upload", !.job = j, !.id = ops + 1, !.key = k,
                               !.want = a, !.todo = a]
  <2>3. /\ DOMAIN n = Fields /\ n.pc = "upload" /\ n.job = j /\ n.id = ops + 1 /\ n.key = k
        /\ n.want = a /\ n.todo = a /\ n.proto = "v2"
    BY DEF Idle, Fields
  <2>4. Set(c, n)
    BY <2>1
  <2> HIDE DEF n
  <2> QED
    BY <2>1, <2>2, <2>3, <2>4, Announces DEF disk, clock
<1>2. CASE Reserve(c)
  <2>1. PICK j \in Jobs, k \in Keys, a \in Archives :
          /\ job[j] = "up" /\ WriteAllowed(j)
          /\ pending' = pending \cup {[id |-> ops + 1, job |-> j, proto |-> "v1", key |-> k]}
          /\ Set(c, [Idle EXCEPT !.pc = "upload", !.job = j, !.id = ops + 1, !.key = k,
                                 !.want = a, !.todo = a, !.proto = "v1"])
    BY <1>2 DEF Reserve
  <2>2. /\ client[c].pc = "idle" /\ ops < MaxOps /\ ops' = ops + 1
        /\ stage' = Holding(ops + 1, <<>>)
        /\ UNCHANGED <<chunks, manifests, index, tail, job, spec, gc, clock, hist>>
    BY <1>2 DEF Reserve
  <2> DEFINE n == [Idle EXCEPT !.pc = "upload", !.job = j, !.id = ops + 1, !.key = k,
                               !.want = a, !.todo = a, !.proto = "v1"]
  <2>3. /\ DOMAIN n = Fields /\ n.pc = "upload" /\ n.job = j /\ n.id = ops + 1 /\ n.key = k
        /\ n.want = a /\ n.todo = a /\ n.proto = "v1"
    BY DEF Idle, Fields
  <2>4. Set(c, n)
    BY <2>1
  <2> HIDE DEF n
  <2> QED
    BY <2>1, <2>2, <2>3, <2>4, Announces DEF clock
<1> QED
  BY <1>1, <1>2

\* A piece reaches the staging file of an upload.
LEMMA GrowsStep ==
  ASSUME CacheInv, NEW c \in Clients, PutBlob(c) \/ WriteChunk(c)
  PROVE  CacheInv'
<1> DEFINE r == client[c]
           has == Staged(r.id)
           n == [r EXCEPT !.todo = Tail(@)]
<1>1. /\ r.pc = "upload" /\ r.todo # <<>> /\ Grows(c)
  BY DEF PutBlob, WriteChunk, Uploads
<1>2. UNCHANGED <<chunks, manifests, index, tail, job, spec, gc, pending, clock, ops, hist>>
  BY <1>1 DEF Grows
<1>3. FileType /\ JobType /\ Uploading /\ ClientType(c) /\ Saver(c) /\ DOMAIN client = Clients
  BY DEF CacheInv, OneClient
<1>4. /\ r.todo \in Content /\ r.id \in 1..ops /\ r.want \in Archives
      /\ DOMAIN r = Fields
  BY <1>1, <1>3 DEF ClientType, Saver, Saving
<1>5. ops' \in ops..MaxOps /\ ops' = ops /\ ops \in Nat
  BY <1>2, <1>3 DEF FileType
<1>6. CASE \A p \in pending : p.id # r.id
  <2>1. Set(c, Idle) /\ stage' = stage
    BY <1>1, <1>6 DEF Grows, Drops
  <2> QED
    BY <1>2, <1>3, <2>1, ReadStep DEF clock, FileType
<1>7. CASE \E p \in pending : p.id = r.id
  <2>1. stage' = Holding(r.id, Append(has, Head(r.todo))) /\ Set(c, n)
    BY <1>1, <1>7 DEF Grows, Staged
  <2>2. has \in Content
    BY <1>3 DEF FileType, Staged, Content
  <2>3. has \o r.todo = r.want /\ \A p \in pending : p.id = r.id => p.proto = r.proto
    BY <1>1, <1>3, <1>7 DEF Saver, Saving
  <2> HIDE DEF has
  <2> DEFINE new == Append(has, Head(r.todo))
  <2>4. /\ new \in Content /\ new # <<>> /\ Tail(r.todo) \in Content
        /\ new \o Tail(r.todo) = r.want
    BY <1>1, <1>4, <2>2, <2>3, Sent
  <2>5. stage' = Holding(r.id, new)
    BY <2>1
  <2> HIDE DEF new
  <2>6. Begun(new)
    BY <1>4, <2>4, BegunIs
  <2>7. /\ DOMAIN n = Fields /\ n.pc = "upload" /\ n.todo = Tail(r.todo)
        /\ \A f \in {"job", "id", "proto", "key", "want"} : n[f] = r[f]
    BY <1>1, <1>4 DEF Fields
  <2>8. PICK m : m = n
    OBVIOUS
  <2> HIDE DEF n
  <2>9. /\ DOMAIN client' = Clients /\ client'[c] = m
        /\ \A d \in Clients \ {c} : client'[d] = client[d]
    BY <1>3, <2>1, <2>8, SetIs
  <2>10. /\ DOMAIN m = Fields /\ m.pc = "upload" /\ m.todo = Tail(r.todo) /\ m.job = r.job
         /\ m.id = r.id /\ m.proto = r.proto /\ m.key = r.key /\ m.want = r.want
    BY <2>7, <2>8
  <2>11. /\ DOMAIN stage' = DOMAIN stage \cup {r.id}
         /\ \A i \in DOMAIN stage' : stage'[i] = IF i = r.id THEN new ELSE stage[i]
    BY <2>5 DEF Holding
  <2>12. /\ \A i \in DOMAIN stage' : i \in 1..ops' /\ stage'[i] \in Content
         /\ Staged(r.id)' = new
         /\ \A i : i # r.id => Staged(i)' = Staged(i)
    <3>1. \A i \in DOMAIN stage' : i \in 1..ops' /\ stage'[i] \in Content
      BY <1>3, <1>4, <1>5, <2>4, <2>11 DEF FileType
    <3>2. \A i : i # r.id => Staged(i)' = Staged(i)
      BY <2>11 DEF Staged
    <3>3. client'[c].id = r.id
      BY <2>9, <2>10
    <3>4. PICK k : k = r.id
      OBVIOUS
    <3>5. k \in DOMAIN stage' /\ stage'[k] = new
      BY <2>11, <3>4
    <3>6. Staged(k)' = new
      BY <3>5 DEF Staged
    <3> QED
      BY <3>1, <3>2, <3>3, <3>4, <3>6
  <2>13. /\ pending' \subseteq [id : 1..ops', job : Jobs, proto : {"v1", "v2"}, key : Keys]
         /\ \A p \in pending' : job'[p.job] = "up"
    BY <1>2, <1>3, <1>5 DEF JobType
  <2>14. ASSUME NEW d \in Clients \ {c} PROVE Undisturbed(d)
    BY <1>1, <1>2, <1>3, <2>12 DEF Undisturbed, Uploading
  <2>15. Uploading'
    <3>1. \A p, q \in pending' : p.id = q.id => p = q
      BY <1>2, <1>3 DEF Uploading
    <3>2. ASSUME NEW d \in Clients PROVE client'[d].pc = client[d].pc /\ client'[d].id = client[d].id
      BY <1>1, <2>9, <2>10
    <3>3. \A d, e \in Clients :
            client'[d].pc = "upload" /\ client'[e].pc = "upload" /\ client'[d].id = client'[e].id => d = e
      BY <1>3, <3>2 DEF Uploading
    <3>4. ASSUME NEW p \in pending', p.proto = "v2", p.id \in DOMAIN stage'
          PROVE  stage'[p.id] # <<>> /\ Begun(stage'[p.id])
      <4>1. CASE p.id = r.id
        <5>1. stage'[p.id] = new
          BY <2>11, <3>4, <4>1
        <5> QED
          BY <2>4, <2>6, <5>1
      <4>2. CASE p.id # r.id
        BY <1>2, <1>3, <2>11, <3>4, <4>2 DEF Uploading
      <4> QED
        BY <4>1, <4>2
    <3> QED
      BY <3>1, <3>3, <3>4 DEF Uploading, Begun
  <2>16. OneClient(c)'
    <3>1. ClientType(c)'
      BY <1>1, <1>2, <1>3, <2>4, <2>9, <2>10 DEF ClientType, Saving
    <3>2. Restorer(c)'
      BY <2>9, <2>10 DEF Restorer, Restoring
    <3>3. WriteAllowed(m.job)
      BY <1>1, <1>3, <2>10 DEF Saver, Saving
    <3>4. WriteAllowed(m.job)'
      BY <1>2, <3>3 DEF WriteAllowed, Trusted
    <3>5. m.id \in 1..ops' /\ m.key \in Keys /\ m.want \in Archives
      BY <1>1, <1>3, <1>4, <1>5, <2>10 DEF Saver, Saving
    <3>6. Staged(m.id)' = new
      <4>1. m.id \in DOMAIN stage' /\ stage'[m.id] = new
        BY <2>10, <2>11
      <4> QED
        BY <4>1 DEF Staged
    <3>7. \A p \in pending' : p.id = m.id => p.proto = m.proto /\ Staged(m.id)' \o m.todo = m.want
      BY <1>2, <2>3, <2>4, <2>10, <3>6
    <3>8. Saver(c)'
      BY <2>9, <2>10, <3>4, <3>5, <3>7, Zenon DEF Saver, Staged, WriteAllowed, Trusted, Saving
    <3> QED
      BY <3>1, <3>2, <3>8 DEF OneClient
  <2>17. UNCHANGED <<chunks, manifests, index, tail, job, spec, gc, now>>
    BY <1>2 DEF clock
  <2>18. /\ \A i \in DOMAIN stage' : i \in 1..ops' /\ stage'[i] \in Content
         /\ DOMAIN client' = Clients /\ \A d \in Clients \ {c} : client'[d] = client[d]
    BY <2>9, <2>12
  <2> QED
    BY <1>5, <2>13, <2>14, <2>15, <2>16, <2>17, <2>18, UploadStep
<1> QED
  BY <1>6, <1>7

\* Uploads that are given up leave the others' files as they are.
LEMMA ReachableIs ==
  ASSUME NEW P, stage' = Reachable(P)
  PROVE  /\ \A i \in DOMAIN stage' : i \in DOMAIN stage /\ stage'[i] = stage[i]
         /\ \A p \in P : Staged(p.id)' = Staged(p.id)
<1> DEFINE D == {i \in DOMAIN stage : \E p \in P : p.id = i}
<1>1. stage' = [i \in D |-> stage[i]]
  BY DEF Reachable, Restrict
<1>2. \A p \in P : p.id \in D <=> p.id \in DOMAIN stage
  OBVIOUS
<1>3. D \subseteq DOMAIN stage
  OBVIOUS
<1> HIDE DEF D
<1>4. DOMAIN stage' = D /\ \A i \in D : stage'[i] = stage[i]
  BY <1>1
<1>5. ASSUME NEW p \in P PROVE Staged(p.id)' = Staged(p.id)
  BY <1>2, <1>4 DEF Staged
<1> QED
  BY <1>3, <1>4, <1>5

LEMMA FewerUploads ==
  ASSUME CacheInv, pending' \subseteq pending, stage' = Reachable(pending'), ops' = ops,
         \A d \in Clients : client'[d].pc = "upload" => client'[d] = client[d]
  PROVE  /\ \A i \in DOMAIN stage' : i \in 1..ops' /\ stage'[i] \in Content
         /\ pending' \subseteq [id : 1..ops', job : Jobs, proto : {"v1", "v2"}, key : Keys]
         /\ \A d \in Clients : Undisturbed(d)
         /\ Uploading'
<1>1. FileType /\ JobType /\ Uploading
  BY DEF CacheInv
<1>2. PICK P : P = pending'
  OBVIOUS
<1>3. /\ \A i \in DOMAIN stage' : i \in DOMAIN stage /\ stage'[i] = stage[i]
      /\ \A p \in pending' : Staged(p.id)' = Staged(p.id)
  <2>1. stage' = Reachable(P)
    BY <1>2
  <2> QED
    BY <1>2, <2>1, ReachableIs
<1>4. \A d \in Clients : Undisturbed(d)
  BY <1>3 DEF Undisturbed
<1>5. Uploading'
  <2>1. \A p, q \in pending' : p.id = q.id => p = q
    BY <1>1 DEF Uploading
  <2>2. \A d, e \in Clients :
          client'[d].pc = "upload" /\ client'[e].pc = "upload" /\ client'[d].id = client'[e].id => d = e
    BY <1>1 DEF Uploading
  <2>3. \A p \in pending' : p.proto = "v2" /\ p.id \in DOMAIN stage' =>
          stage'[p.id] # <<>> /\ Begun(stage'[p.id])
    BY <1>1, <1>3 DEF Uploading
  <2> QED
    BY <2>1, <2>2, <2>3 DEF Uploading, Begun
<1> QED
  BY <1>1, <1>3, <1>4, <1>5 DEF FileType, JobType

LEMMA TakesStep ==
  ASSUME CacheInv, NEW c \in Clients, FinalizeCacheEntryUpload(c) \/ FinalizeReservation(c)
  PROVE  CacheInv'
<1>1. PICK found : /\ Takes(c, found) /\ found \subseteq pending
                   /\ \A p \in found : \/ p.proto = "v2"
                                       \/ client[c].proto = "v1" /\ p.id = client[c].id
  <2>1. CASE FinalizeCacheEntryUpload(c)
    <3>1. \A p \in TakePendingUpload(c) : p \in pending /\ p.proto = "v2"
      BY DEF TakePendingUpload
    <3> QED
      BY <2>1, <3>1 DEF FinalizeCacheEntryUpload
  <2>2. CASE FinalizeReservation(c)
    BY <2>2 DEF FinalizeReservation
  <2> QED
    BY <2>1, <2>2
<1> DEFINE r == client[c]
<1>2. /\ r.pc = "upload" /\ r.todo = <<>>
      /\ UNCHANGED <<chunks, manifests, index, tail, job, spec, gc, clock, ops, hist>>
  BY <1>1 DEF Takes
<1>3. FileType /\ JobType /\ Uploading /\ ClientType(c) /\ Saver(c) /\ DOMAIN client = Clients
  BY DEF CacheInv, OneClient
<1>4. CASE found = {} /\ Drops(c) /\ UNCHANGED <<pending, stage>>
  BY <1>2, <1>3, <1>4, ReadStep DEF clock, FileType, Drops
<1>5. CASE \E p \in found :
             /\ pending' = pending \ {p}
             /\ stage' = Reachable(pending')
             /\ IF p.id \notin DOMAIN stage THEN Drops(c)
                ELSE Set(c, [r EXCEPT !.pc = "ingest", !.id = p.id, !.got = stage[p.id],
                                      !.todo = stage[p.id]])
  <2>1. PICK p \in found :
             /\ pending' = pending \ {p}
             /\ stage' = Reachable(pending')
             /\ IF p.id \notin DOMAIN stage THEN Drops(c)
                ELSE Set(c, [r EXCEPT !.pc = "ingest", !.id = p.id, !.got = stage[p.id],
                                      !.todo = stage[p.id]])
    BY <1>5
  <2> DEFINE n == [r EXCEPT !.pc = "ingest", !.id = p.id, !.got = stage[p.id], !.todo = stage[p.id]]
  <2>2. PICK m : m = IF p.id \notin DOMAIN stage THEN Idle ELSE n
    OBVIOUS
  <2>3. /\ DOMAIN client' = Clients /\ client'[c] = m
        /\ \A d \in Clients \ {c} : client'[d] = client[d]
    <3>1. Set(c, m)
      BY <2>1, <2>2 DEF Drops
    <3> QED
      BY <1>3, <3>1, SetIs
  <2>4. m # Idle => /\ p.id \in DOMAIN stage /\ DOMAIN m = Fields /\ m.pc = "ingest"
                    /\ m.id = p.id /\ m.got = stage[p.id] /\ m.todo = stage[p.id]
                    /\ m.job = r.job /\ m.key = r.key /\ m.want = r.want
    BY <1>3, <2>2 DEF ClientType, Fields
  <2> HIDE DEF n
  <2>5. m.pc # "upload"
    BY <2>4 DEF Idle
  <2>6. \A d \in Clients : client'[d].pc = "upload" => client'[d] = client[d]
    BY <2>3, <2>5
  <2>7. /\ \A i \in DOMAIN stage' : i \in 1..ops' /\ stage'[i] \in Content
        /\ pending' \subseteq [id : 1..ops', job : Jobs, proto : {"v1", "v2"}, key : Keys]
        /\ \A d \in Clients : Undisturbed(d)
        /\ Uploading'
    BY <1>2, <2>1, <2>6, FewerUploads
  <2>8. \A q \in pending' : job'[q.job] = "up"
    BY <1>2, <1>3, <2>1 DEF JobType
  <2>9. OneClient(c)'
    <3>1. CASE m = Idle
      BY <2>3, <3>1, IdleIs
    <3>2. CASE m # Idle
      <4>1. p \in pending /\ p.id \in 1..ops /\ stage[p.id] \in Content
        BY <1>1, <1>3, <2>4, <3>2 DEF JobType, FileType
      <4>2. ClientType(c)'
        BY <1>2, <1>3, <2>3, <2>4, <3>2, <4>1 DEF ClientType, Saving
      <4>3. Restorer(c)'
        BY <2>3, <2>4, <3>2 DEF Restorer, Restoring
      <4>4. r.want \in Archives /\ r.key \in Keys /\ WriteAllowed(r.job)
        BY <1>2, <1>3 DEF Saver, Saving
      <4>5. WriteAllowed(m.job)'
        BY <1>2, <2>4, <3>2, <4>4 DEF WriteAllowed, Trusted
      <4>6. Begun(stage[p.id]) /\ (stage[p.id] # <<>> \/ stage[p.id] \in Archives)
        <5>1. CASE p.proto = "v2"
          BY <1>3, <2>4, <3>2, <4>1, <5>1 DEF Uploading
        <5>2. CASE p.id = r.id
          <6>1. Staged(r.id) \o r.todo = r.want
            BY <1>2, <1>3, <4>1, <5>2 DEF Saver, Saving
          <6>2. stage[p.id] \o <<>> = r.want
            BY <1>2, <2>4, <3>2, <5>2, <6>1 DEF Staged
          <6>3. stage[p.id] = r.want
            BY <4>1, <6>2, ConcatEmptySeq DEF Content
          <6>4. <<>> \in Content
            BY DEF Content
          <6> QED
            BY <4>1, <4>4, <6>2, <6>3, <6>4, BegunIs
        <5> QED
          BY <1>1, <5>1, <5>2
      <4>7. Saver(c)'
        <5>1. m.pc = "ingest" /\ m.id \in 1..ops' /\ m.key \in Keys /\ m.want \in Archives
          BY <1>2, <2>4, <3>2, <4>1, <4>4
        <5>2. Begun(m.got) /\ (m.got # <<>> \/ m.got \in Archives)
          BY <2>4, <3>2, <4>6
        <5> QED
          BY <2>3, <4>5, <5>1, <5>2, Zenon DEF Saver, Begun, WriteAllowed, Trusted
      <4> QED
        BY <4>2, <4>3, <4>7 DEF OneClient
    <3> QED
      BY <3>1, <3>2
  <2>10. /\ UNCHANGED <<chunks, manifests, index, tail, job, spec, gc, now>>
         /\ ops' \in ops..MaxOps
    BY <1>2, <1>3 DEF clock, FileType
  <2>11. DOMAIN client' = Clients /\ \A d \in Clients \ {c} : client'[d] = client[d]
    BY <2>3
  <2>12. \A d \in Clients \ {c} : Undisturbed(d)
    BY <2>7
  <2> QED
    BY <2>7, <2>8, <2>9, <2>10, <2>11, <2>12, UploadStep
<1> QED
  BY <1>1, <1>4, <1>5 DEF Takes

\* ----- Jobs and their collectors.

\* A step that ends operations but begins none.
LEMMA JobStep ==
  ASSUME CacheInv, Stays, FileType', JobType', Ordered', EntriesSound', Uploading',
         DOMAIN client' = Clients,
         \A d \in Clients :
           \/ client'[d] = Idle
           \/ /\ client'[d] = client[d] /\ Undisturbed(d)
              /\ client[d].pc \notin {"idle", "stray"} => job'[client[d].job] = "up"
  PROVE  CacheInv'
<1>1. ops' \in Nat
  BY DEF FileType
<1>2. ASSUME NEW d \in Clients PROVE OneClient(d)'
  <2>1. CASE client'[d] = Idle
    BY <2>1, IdleIs
  <2>2. CASE /\ client'[d] = client[d] /\ Undisturbed(d)
             /\ client[d].pc \notin {"idle", "stray"} => job'[client[d].job] = "up"
    BY <1>1, <2>2, OtherClient
  <2> QED
    BY <2>1, <2>2
<1> QED
  BY <1>2 DEF CacheInv

LEMMA FewerEntries ==
  ASSUME CacheInv, Stays, \A s \in Scopes : \A e \in Entry : Listed(s, e)' => Listed(s, e)
  PROVE  EntriesSound'
<1>1. ASSUME NEW s \in Scopes, NEW e \in Entry, Listed(s, e)' PROVE Sound(s, e)'
  <2>1. Sound(s, e)
    BY <1>1 DEF CacheInv, EntriesSound
  <2> QED
    BY <2>1, SoundStays
<1> QED
  BY <1>1 DEF EntriesSound

LEMMA UploadsSame ==
  ASSUME CacheInv, UNCHANGED <<stage, pending, client>>
  PROVE  Uploading' /\ \A d \in Clients : Undisturbed(d)
<1>1. \A i : Staged(i)' = Staged(i)
  BY DEF Staged
<1>2. Uploading'
  BY DEF CacheInv, Uploading, Begun
<1> QED
  BY <1>1, <1>2 DEF Undisturbed

LEMMA StartServerStep ==
  ASSUME CacheInv, NEW j \in Jobs, StartServer(j)
  PROVE  CacheInv'
<1>1. PICK s \in Specs : spec' = [spec EXCEPT ![j] = s]
  BY DEF StartServer
<1>2. /\ job[j] = "wait" /\ (j > 1 => job[j - 1] \in Over) /\ job' = [job EXCEPT ![j] = "up"]
      /\ UNCHANGED <<disk, gc, pending, client, clock, ops, acked, lossy>>
  BY DEF StartServer
<1>3. FileType /\ JobType /\ Ordered /\ DOMAIN client = Clients
  BY DEF CacheInv
<1>4. ops' \in ops..MaxOps /\ ops <= ops'
  BY <1>2, <1>3 DEF FileType
<1>5. job'[j] = "up" /\ spec'[j] = s /\ \A k \in Jobs \ {j} : job'[k] = job[k] /\ spec'[k] = spec[k]
  BY <1>1, <1>2, <1>3 DEF JobType
<1>6. Stays
  BY <1>2, <1>4, <1>5 DEF Stays
<1>7. FileType'
  BY <1>2, <1>4, FileSame DEF clock
<1>8. JobType'
  <2>1. job' \in [Jobs -> {"wait", "up"} \cup Over] /\ spec' \in [Jobs -> Specs]
    BY <1>1, <1>2, <1>3 DEF JobType
  <2>2. \A k \in Jobs : gc'[k].pc # "off" <=> job'[k] = "gc"
    BY <1>2, <1>3, <1>5 DEF JobType
  <2>3. \A p \in pending' : job'[p.job] = "up"
    BY <1>2, <1>3, <1>5 DEF JobType
  <2> QED
    BY <1>2, <1>3, <2>1, <2>2, <2>3 DEF JobType, Pass, Content
<1>9. Ordered'
  <2>1. ASSUME NEW i \in Jobs, NEW k \in Jobs, i < k, job'[k] # "wait" PROVE job'[i] \in Over
    <3>1. job[i] \in Over => i # j /\ job'[i] = job[i]
      BY <1>2, <1>5 DEF Over
    <3>2. CASE k # j
      BY <1>3, <1>5, <2>1, <3>1, <3>2 DEF Ordered
    <3>3. CASE k = j
      <4>0. i \in Nat /\ j \in Nat /\ 1 <= i /\ i < j /\ j <= MaxJobs /\ MaxJobs \in Nat
        BY <2>1, <3>3, BoundsAssumption DEF Jobs
      <4>3. j > 1 /\ j - 1 \in 1..MaxJobs /\ (i = j - 1 \/ i < j - 1)
        BY <4>0
      <4>1. j > 1 /\ j - 1 \in Jobs /\ job[j - 1] \in Over /\ (i = j - 1 \/ i < j - 1)
        BY <1>2, <4>3 DEF Jobs
      <4>2. job[j - 1] # "wait"
        BY <4>1 DEF Over
      <4> QED
        BY <1>3, <3>1, <4>1, <4>2 DEF Ordered
    <3> QED
      BY <3>2, <3>3
  <2> QED
    BY <2>1 DEF Ordered
<1>10. EntriesSound'
  BY <1>2, <1>6, EntriesSame DEF disk
<1>11. Uploading' /\ \A d \in Clients : Undisturbed(d)
  BY <1>2, UploadsSame DEF disk
<1>12. ASSUME NEW d \in Clients
       PROVE  client'[d] = client[d] /\ (client[d].pc \notin {"idle", "stray"} => job'[client[d].job] = "up")
  BY <1>2, <1>5 DEF CacheInv, OneClient, ClientType
<1>13. DOMAIN client' = Clients
  BY <1>2, <1>3
<1> QED
  BY <1>6, <1>7, <1>8, <1>9, <1>10, <1>11, <1>12, <1>13, JobStep

LEMMA StopServerStep ==
  ASSUME CacheInv, NEW j \in Jobs, StopServer(j)
  PROVE  CacheInv'
<1>1. /\ job[j] = "up" /\ job' = [job EXCEPT ![j] = "gc"] /\ gc' = [gc EXCEPT ![j].pc = "plan"]
      /\ client' = [c \in Clients |-> IF client[c].job = j THEN Idle ELSE client[c]]
      /\ pending' = {p \in pending : p.job # j} /\ stage' = Reachable(pending')
      /\ UNCHANGED <<chunks, manifests, index, tail, spec, clock, ops>>
  BY DEF StopServer
<1>2. FileType /\ JobType /\ Ordered /\ DOMAIN client = Clients
  BY DEF CacheInv
<1>3. ops' \in ops..MaxOps /\ ops <= ops' /\ ops' = ops
  BY <1>1, <1>2 DEF FileType
<1>4. job'[j] = "gc" /\ \A k \in Jobs \ {j} : job'[k] = job[k]
  BY <1>1, <1>2 DEF JobType
<1>5. Stays
  BY <1>1, <1>3, <1>4 DEF Stays
<1>6. \A d \in Clients : client'[d].pc = "upload" => client'[d] = client[d]
  BY <1>1 DEF Idle
<1>7. /\ \A i \in DOMAIN stage' : i \in 1..ops' /\ stage'[i] \in Content
      /\ pending' \subseteq [id : 1..ops', job : Jobs, proto : {"v1", "v2"}, key : Keys]
      /\ \A d \in Clients : Undisturbed(d)
      /\ Uploading'
  <2>1. pending' \subseteq pending
    BY <1>1
  <2> QED
    BY <1>1, <1>3, <1>6, <2>1, FewerUploads
<1>8. FileType'
  BY <1>1, <1>2, <1>7 DEF FileType, clock
<1>9. gc[j] \in Pass
  BY <1>2 DEF JobType
<1>10. /\ gc'[j] \in Pass /\ gc'[j].pc = "plan" /\ gc'[j].keep = gc[j].keep
       /\ \A k \in Jobs \ {j} : gc'[k] = gc[k]
       /\ DOMAIN gc' = Jobs /\ gc' \in [Jobs -> Pass]
  <2>1. [gc[j] EXCEPT !.pc = "plan"] \in Pass
    BY <1>9 DEF Pass, Phases
  <2> QED
    BY <1>1, <1>2, <1>9, <2>1 DEF JobType, Pass
<1>11. JobType'
  <2>1. job' \in [Jobs -> {"wait", "up"} \cup Over] /\ spec' \in [Jobs -> Specs]
    BY <1>1, <1>2 DEF JobType, Over
  <2>2. \A k \in Jobs : gc'[k].pc # "off" <=> job'[k] = "gc"
    BY <1>2, <1>4, <1>10 DEF JobType
  <2>3. \A p \in pending' : job'[p.job] = "up"
    BY <1>1, <1>2, <1>4, <1>7 DEF JobType
  <2> QED
    BY <1>7, <1>10, <2>1, <2>2, <2>3 DEF JobType, Pass, Content
<1>12. Ordered'
  <2>1. ASSUME NEW i \in Jobs, NEW k \in Jobs, i < k, job'[k] # "wait" PROVE job'[i] \in Over
    <3>1. job[k] # "wait"
      BY <1>1, <1>4, <2>1
    <3>2. job[i] \in Over
      BY <1>2, <2>1, <3>1 DEF Ordered
    <3> QED
      BY <1>1, <1>4, <3>2 DEF Over
  <2> QED
    BY <2>1 DEF Ordered
<1>13. EntriesSound'
  <2>1. \A s : \A e : Listed(s, e)' => Listed(s, e)
    <3>1. \A k \in Jobs : gc'[k].keep = gc[k].keep
      BY <1>10
    <3> QED
      BY <1>1, <3>1 DEF Listed
  <2> QED
    BY <1>5, <2>1, FewerEntries
<1>14. ASSUME NEW d \in Clients
       PROVE  \/ client'[d] = Idle
              \/ /\ client'[d] = client[d] /\ Undisturbed(d)
                 /\ client[d].pc \notin {"idle", "stray"} => job'[client[d].job] = "up"
  BY <1>1, <1>4, <1>7 DEF CacheInv, OneClient, ClientType
<1>15. DOMAIN client' = Clients
  BY <1>1
<1> QED
  BY <1>5, <1>7, <1>8, <1>11, <1>12, <1>13, <1>14, <1>15, JobStep

\* A step of the collector of job j, which may end with it.
LEMMA PassStep ==
  ASSUME CacheInv, NEW j \in Jobs, job[j] = "gc", NEW how \in {"gc", "done", "failed"},
         UNCHANGED <<stage, spec, pending, client, now, ops>>,
         job' = [job EXCEPT ![j] = how], gc' \in [Jobs -> Pass],
         gc'[j].pc # "off" <=> how = "gc",
         \A k \in Jobs \ {j} : gc'[k] = gc[k],
         chunks' \in [Chunks -> {"absent", "good", "torn"}], manifests' \subseteq manifests,
         index' \in [Scopes -> Seq(Entry)], tail' \in [Scopes -> BOOLEAN],
         \A s \in Scopes : \A e \in Entry : Listed(s, e)' => Listed(s, e)
  PROVE  CacheInv'
<1>1. FileType /\ JobType /\ Ordered /\ DOMAIN client = Clients
  BY DEF CacheInv
<1>2. job'[j] = how /\ \A k \in Jobs \ {j} : job'[k] = job[k]
  BY <1>1 DEF JobType
<1>3. ops <= ops'
  BY <1>1 DEF FileType
<1>4. Stays
  BY <1>2, <1>3 DEF Stays
<1>5. FileType'
  BY <1>1 DEF FileType
<1>6. JobType'
  <2>1. job' \in [Jobs -> {"wait", "up"} \cup Over]
    BY <1>1 DEF JobType, Over
  <2>2. \A k \in Jobs : gc'[k].pc # "off" <=> job'[k] = "gc"
    BY <1>1, <1>2 DEF JobType
  <2>3. \A p \in pending' : job'[p.job] = "up"
    BY <1>1, <1>2 DEF JobType
  <2> QED
    BY <1>1, <2>1, <2>2, <2>3 DEF JobType, Pass, Content
<1>7. Ordered'
  BY <1>1, <1>2 DEF Ordered, Over
<1>8. EntriesSound'
  BY <1>4, FewerEntries
<1>9. Uploading' /\ \A d \in Clients : Undisturbed(d)
  BY UploadsSame
<1>10. \A d \in Clients :
         client'[d] = client[d] /\ (client[d].pc \notin {"idle", "stray"} => job'[client[d].job] = "up")
  BY <1>2 DEF CacheInv, OneClient, ClientType
<1> QED
  BY <1>1, <1>4, <1>5, <1>6, <1>7, <1>8, <1>9, <1>10, JobStep

LEMMA RecordsAre ==
  ASSUME index \in [Scopes -> Seq(Entry)]
  PROVE  \A r : r \in Records <=> /\ r[1] \in Scopes /\ r[2] \in Range(index[r[1]]) /\ r[2] \in Entry
                                  /\ r = <<r[1], r[2]>>
<1>1. ASSUME NEW r, r \in Records
      PROVE  r[1] \in Scopes /\ r[2] \in Range(index[r[1]]) /\ r[2] \in Entry /\ r = <<r[1], r[2]>>
  <2>1. PICK s \in Scopes : r \in {<<s, index[s][i]>> : i \in DOMAIN index[s]}
    BY <1>1 DEF Records
  <2>2. PICK i \in DOMAIN index[s] : r = <<s, index[s][i]>>
    BY <2>1
  <2>3. index[s] \in Seq(Entry)
    OBVIOUS
  <2>4. r[1] = s /\ r[2] = index[s][i]
    BY <2>2
  <2> QED
    BY <2>2, <2>3, <2>4 DEF Range
<1>2. ASSUME NEW r, r[1] \in Scopes, r[2] \in Range(index[r[1]]), r = <<r[1], r[2]>>
      PROVE  r \in Records
  <2>1. PICK i \in DOMAIN index[r[1]] : r[2] = index[r[1]][i]
    BY <1>2 DEF Range
  <2>2. <<r[1], index[r[1]][i]>> \in {<<r[1], index[r[1]][k]>> : k \in DOMAIN index[r[1]]}
    OBVIOUS
  <2>3. r = <<r[1], index[r[1]][i]>>
    BY <1>2, <2>1
  <2> QED
    BY <1>2, <2>2, <2>3 DEF Records
<1> QED
  BY <1>1, <1>2

Alive == {r \in Records : r[2].at >= now - Ttl}

\* What a plan is: every log keeps its lines that are alive and not evicted.
LEMMA PlanIs ==
  ASSUME CacheInv, NEW j \in Jobs, GcPlan(j)
  PROVE  \E cut \in Evictions(Alive) :
           /\ gc[j].pc = "plan" /\ gc' \in [Jobs -> Pass] /\ gc'[j].pc = "rewrite"
           /\ \A s \in Scopes :
                Range(gc'[j].keep[s]) = Range(index[s]) \cap LinesOf(s, Alive \ cut)
           /\ gc'[j].logs = {r[1] : r \in Records}
           /\ \A k \in Jobs \ {j} : gc'[k] = gc[k]
<1>1. PICK cut \in Evictions(Alive) :
        gc' = [gc EXCEPT ![j] =
                 [@ EXCEPT !.pc = "rewrite",
                           !.keep = [s \in Scopes |-> Kept(index[s], LinesOf(s, Alive \ cut))],
                           !.logs = {r[1] : r \in Records}]]
  BY DEF GcPlan, Alive
<1> DEFINE keep == [s \in Scopes |-> Kept(index[s], LinesOf(s, Alive \ cut))]
           logs == {r[1] : r \in Records}
<1>2. gc \in [Jobs -> Pass] /\ index \in [Scopes -> Seq(Entry)]
  BY DEF CacheInv, JobType, FileType
<1>3. ASSUME NEW s \in Scopes
      PROVE  /\ keep[s] \in Seq(Entry)
             /\ Range(keep[s]) = Range(index[s]) \cap LinesOf(s, Alive \ cut)
  <2>1. index[s] \in Seq(Entry)
    BY <1>2
  <2>2. keep[s] = Kept(index[s], LinesOf(s, Alive \ cut))
    OBVIOUS
  <2> QED
    BY <2>1, <2>2, KeptIs
<1>4. keep \in [Scopes -> Seq(Entry)]
  BY <1>3
<1>5. logs \in SUBSET Scopes
  BY <1>2, RecordsAre
<1>6. gc' = [gc EXCEPT ![j] = [@ EXCEPT !.pc = "rewrite", !.keep = keep, !.logs = logs]]
  BY <1>1
<1> HIDE DEF keep, logs
<1>7. gc[j] \in Pass
  BY <1>2
<1> DEFINE new == [gc[j] EXCEPT !.pc = "rewrite", !.keep = keep, !.logs = logs]
<1>8. new \in Pass /\ new.pc = "rewrite" /\ new.keep = keep /\ new.logs = logs
  BY <1>4, <1>5, <1>7 DEF Pass, Phases
<1>9. gc' = [gc EXCEPT ![j] = new]
  BY <1>6
<1> HIDE DEF new
<1>10. gc' \in [Jobs -> Pass] /\ gc'[j] = new /\ \A k \in Jobs \ {j} : gc'[k] = gc[k]
  BY <1>2, <1>8, <1>9
<1>11. \A s \in Scopes : Range(gc'[j].keep[s]) = Range(index[s]) \cap LinesOf(s, Alive \ cut)
  BY <1>3, <1>8, <1>10
<1>12. gc'[j].logs = {r[1] : r \in Records}
  BY <1>8, <1>10 DEF logs
<1>13. gc[j].pc = "plan"
  BY DEF GcPlan
<1> QED
  BY <1>8, <1>10, <1>11, <1>12, <1>13

LEMMA NoGcIs ==
  /\ NoGc \in Pass /\ NoGc.pc = "off"
  /\ \A s \in Scopes : Range(NoGc.keep[s]) = {}
<1>1. [s \in Scopes |-> <<>>] \in [Scopes -> Seq(Entry)]
  OBVIOUS
<1>2. Range(<<>>) = {}
  BY DEF Range
<1> QED
  BY <1>1, <1>2 DEF NoGc, Pass, Phases

LEMMA CollectorSteps ==
  ASSUME CacheInv, NEW j \in Jobs, Collector(j)
  PROVE  CacheInv'
<1>1. FileType /\ JobType /\ gc \in [Jobs -> Pass] /\ gc[j] \in Pass
  BY DEF CacheInv, JobType
<1>2. index \in [Scopes -> Seq(Entry)] /\ tail \in [Scopes -> BOOLEAN]
      /\ chunks \in [Chunks -> {"absent", "good", "torn"}] /\ manifests \subseteq Content
  BY <1>1 DEF FileType
<1>3. gc[j].pc # "off" => job[j] = "gc" /\ job = [job EXCEPT ![j] = "gc"]
  BY <1>1 DEF JobType
<1>4. CASE GcPlan(j)
  <2>1. PICK cut \in Evictions(Alive) :
           /\ gc[j].pc = "plan" /\ gc' \in [Jobs -> Pass] /\ gc'[j].pc = "rewrite"
           /\ \A s \in Scopes :
                Range(gc'[j].keep[s]) = Range(index[s]) \cap LinesOf(s, Alive \ cut)
           /\ gc'[j].logs = {r[1] : r \in Records}
           /\ \A k \in Jobs \ {j} : gc'[k] = gc[k]
    BY <1>4, PlanIs
  <2>2. UNCHANGED <<disk, job, spec, pending, client, clock, ops, hist>>
    BY <1>4 DEF GcPlan
  <2>3. \A s \in Scopes : \A e \in Entry : Listed(s, e)' => Listed(s, e)
    BY <2>1, <2>2 DEF Listed, disk
  <2> QED
    BY <1>2, <1>3, <2>1, <2>2, <2>3, PassStep DEF disk, clock
<1>5. CASE GcRewrite(j)
  <2>1. gc[j].pc = "rewrite"
        /\ UNCHANGED <<chunks, manifests, stage, job, spec, pending, client, clock, ops, hist>>
    BY <1>5 DEF GcRewrite
  <2>2. CASE \E s \in gc[j].logs :
               /\ index' = [index EXCEPT ![s] = gc[j].keep[s]]
               /\ tail' = [tail EXCEPT ![s] = FALSE]
               /\ gc' = [gc EXCEPT ![j].logs = @ \ {s}]
    <3>1. PICK s \in gc[j].logs :
               /\ index' = [index EXCEPT ![s] = gc[j].keep[s]]
               /\ tail' = [tail EXCEPT ![s] = FALSE]
               /\ gc' = [gc EXCEPT ![j].logs = @ \ {s}]
      BY <2>2
    <3>2. s \in Scopes /\ gc[j].keep[s] \in Seq(Entry)
      BY <1>1 DEF Pass
    <3>3. [gc[j] EXCEPT !.logs = @ \ {s}] \in Pass
      BY <1>1 DEF Pass
    <3>4. /\ gc' \in [Jobs -> Pass] /\ gc'[j].pc = "rewrite" /\ gc'[j].keep = gc[j].keep
          /\ \A k \in Jobs \ {j} : gc'[k] = gc[k]
      BY <1>1, <2>1, <3>1, <3>3 DEF Pass
    <3>5. index' \in [Scopes -> Seq(Entry)] /\ tail' \in [Scopes -> BOOLEAN]
      BY <1>2, <3>1, <3>2
    <3>6. \A u \in Scopes : \A e \in Entry : Listed(u, e)' => Listed(u, e)
      <4>1. \A k \in Jobs : gc'[k].keep = gc[k].keep
        BY <3>4
      <4>2. \A u \in Scopes : index'[u] = IF u = s THEN gc[j].keep[s] ELSE index[u]
        BY <1>2, <3>1, <3>2
      <4> QED
        BY <4>1, <4>2 DEF Listed
    <3> QED
      BY <1>2, <1>3, <2>1, <3>4, <3>5, <3>6, PassStep DEF clock
  <2>3. CASE /\ gc[j].logs = {}
             /\ gc' = [gc EXCEPT ![j].pc = "live",
                                 ![j].live = {e.manifest : e \in UNION {Range(gc[j].keep[s]) : s \in Scopes}}]
             /\ UNCHANGED <<index, tail>>
    <3> DEFINE live == {e.manifest : e \in UNION {Range(gc[j].keep[s]) : s \in Scopes}}
    <3>1. live \in SUBSET Content
      <4>1. \A s \in Scopes : \A e \in Range(gc[j].keep[s]) : e \in Entry
        BY <1>1 DEF Pass, Range
      <4> QED
        BY <4>1 DEF Entry, Content
    <3>2. gc' = [gc EXCEPT ![j].pc = "live", ![j].live = live] /\ UNCHANGED <<index, tail>>
      BY <2>3
    <3> HIDE DEF live
    <3>3. [gc[j] EXCEPT !.pc = "live", !.live = live] \in Pass
      BY <1>1, <3>1 DEF Pass, Phases
    <3>4. /\ gc' \in [Jobs -> Pass] /\ gc'[j].pc = "live" /\ gc'[j].keep = gc[j].keep
          /\ \A k \in Jobs \ {j} : gc'[k] = gc[k]
      BY <1>1, <3>2, <3>3 DEF Pass
    <3>5. \A u \in Scopes : \A e \in Entry : Listed(u, e)' => Listed(u, e)
      <4>1. \A k \in Jobs : gc'[k].keep = gc[k].keep
        BY <3>4
      <4> QED
        BY <3>2, <4>1 DEF Listed
    <3> QED
      BY <1>2, <1>3, <2>1, <3>2, <3>4, <3>5, PassStep DEF clock
  <2> QED
    BY <1>5, <2>2, <2>3 DEF GcRewrite
<1>6. ASSUME NEW how \in {"done", "failed"}, GcEnds(j, how), job[j] = "gc",
             UNCHANGED <<manifests, index, tail, stage, spec, pending, client, clock, ops, hist>>,
             UNCHANGED chunks
      PROVE  CacheInv'
  <2>1. /\ gc' \in [Jobs -> Pass] /\ gc'[j] = NoGc /\ \A k \in Jobs \ {j} : gc'[k] = gc[k]
        /\ job' = [job EXCEPT ![j] = how]
    BY <1>1, <1>6, NoGcIs DEF GcEnds
  <2>2. \A u \in Scopes : \A e \in Entry : Listed(u, e)' => Listed(u, e)
    BY <1>6, <2>1, NoGcIs DEF Listed
  <2> QED
    BY <1>2, <1>6, <2>1, <2>2, NoGcIs, PassStep DEF clock
<1>7. CASE GcLive(j)
  <2>1. gc[j].pc = "live" /\ UNCHANGED <<disk, spec, pending, client, clock, ops, hist>>
    BY <1>7 DEF GcLive
  <2>2. CASE gc[j].live \subseteq manifests
    <3>1. /\ gc' = [gc EXCEPT ![j].pc = "manifests", ![j].list = manifests \ gc[j].live]
          /\ UNCHANGED job
      BY <1>7, <2>2 DEF GcLive
    <3>2. [gc[j] EXCEPT !.pc = "manifests", !.list = manifests \ gc[j].live] \in Pass
      BY <1>1, <1>2 DEF Pass, Phases
    <3>3. /\ gc' \in [Jobs -> Pass] /\ gc'[j].pc = "manifests" /\ gc'[j].keep = gc[j].keep
          /\ \A k \in Jobs \ {j} : gc'[k] = gc[k]
      BY <1>1, <3>1, <3>2 DEF Pass
    <3>4. \A u \in Scopes : \A e \in Entry : Listed(u, e)' => Listed(u, e)
      <4>1. \A k \in Jobs : gc'[k].keep = gc[k].keep
        BY <3>3
      <4> QED
        BY <2>1, <4>1 DEF Listed, disk
    <3> QED
      BY <1>2, <1>3, <2>1, <3>1, <3>3, <3>4, PassStep DEF clock, disk
  <2>3. CASE ~(gc[j].live \subseteq manifests)
    <3>1. GcEnds(j, "failed")
      BY <1>7, <2>3 DEF GcLive
    <3> QED
      BY <1>3, <1>6, <2>1, <3>1 DEF disk
  <2> QED
    BY <2>2, <2>3
<1>8. CASE GcManifests(j)
  <2>1. gc[j].pc = "manifests"
        /\ UNCHANGED <<chunks, index, tail, stage, job, spec, pending, client, clock, ops, hist>>
    BY <1>8 DEF GcManifests
  <2>2. CASE \E m \in gc[j].list :
               manifests' = manifests \ {m} /\ gc' = [gc EXCEPT ![j].list = @ \ {m}]
    <3>1. PICK m \in gc[j].list :
               manifests' = manifests \ {m} /\ gc' = [gc EXCEPT ![j].list = @ \ {m}]
      BY <2>2
    <3>2. [gc[j] EXCEPT !.list = @ \ {m}] \in Pass
      BY <1>1 DEF Pass
    <3>3. /\ gc' \in [Jobs -> Pass] /\ gc'[j].pc = "manifests" /\ gc'[j].keep = gc[j].keep
          /\ \A k \in Jobs \ {j} : gc'[k] = gc[k]
      BY <1>1, <2>1, <3>1, <3>2 DEF Pass
    <3>4. \A u \in Scopes : \A e \in Entry : Listed(u, e)' => Listed(u, e)
      <4>1. \A k \in Jobs : gc'[k].keep = gc[k].keep
        BY <3>3
      <4> QED
        BY <2>1, <4>1 DEF Listed
    <3> QED
      BY <1>2, <1>3, <2>1, <3>1, <3>3, <3>4, PassStep DEF clock
  <2>3. CASE /\ gc[j].list = {}
             /\ gc' = [gc EXCEPT ![j].pc = "chunks",
                                 ![j].list = {<<c>> : c \in {d \in Chunks : chunks[d] # "absent"} \ LiveChunks(j)}]
             /\ UNCHANGED manifests
    <3> DEFINE list == {<<c>> : c \in {d \in Chunks : chunks[d] # "absent"} \ LiveChunks(j)}
    <3>1. list \in SUBSET Content
      <4>1. \A c \in Chunks : <<c>> \in Content
        BY DEF Content
      <4> QED
        BY <4>1
    <3>2. gc' = [gc EXCEPT ![j].pc = "chunks", ![j].list = list] /\ UNCHANGED manifests
      BY <2>3
    <3> HIDE DEF list
    <3>3. [gc[j] EXCEPT !.pc = "chunks", !.list = list] \in Pass
      BY <1>1, <3>1 DEF Pass, Phases
    <3>4. /\ gc' \in [Jobs -> Pass] /\ gc'[j].pc = "chunks" /\ gc'[j].keep = gc[j].keep
          /\ \A k \in Jobs \ {j} : gc'[k] = gc[k]
      BY <1>1, <3>2, <3>3 DEF Pass
    <3>5. \A u \in Scopes : \A e \in Entry : Listed(u, e)' => Listed(u, e)
      <4>1. \A k \in Jobs : gc'[k].keep = gc[k].keep
        BY <3>4
      <4> QED
        BY <2>1, <4>1 DEF Listed
    <3> QED
      BY <1>2, <1>3, <2>1, <3>2, <3>4, <3>5, PassStep DEF clock
  <2> QED
    BY <1>8, <2>2, <2>3 DEF GcManifests
<1>9. CASE GcChunks(j)
  <2>1. gc[j].pc = "chunks"
        /\ UNCHANGED <<manifests, index, tail, stage, spec, pending, client, clock, ops, hist>>
    BY <1>9 DEF GcChunks
  <2>2. CASE \E l \in gc[j].list :
               /\ chunks' = [chunks EXCEPT ![l[1]] = IF l[1] \in Leased(j) THEN @ ELSE "absent"]
               /\ gc' = [gc EXCEPT ![j].list = @ \ {l}]
               /\ UNCHANGED job
    <3>1. PICK l \in gc[j].list :
               /\ chunks' = [chunks EXCEPT ![l[1]] = IF l[1] \in Leased(j) THEN @ ELSE "absent"]
               /\ gc' = [gc EXCEPT ![j].list = @ \ {l}]
               /\ UNCHANGED job
      BY <2>2
    <3>2. [gc[j] EXCEPT !.list = @ \ {l}] \in Pass
      BY <1>1 DEF Pass
    <3>3. /\ gc' \in [Jobs -> Pass] /\ gc'[j].pc = "chunks" /\ gc'[j].keep = gc[j].keep
          /\ \A k \in Jobs \ {j} : gc'[k] = gc[k]
      BY <1>1, <2>1, <3>1, <3>2 DEF Pass
    <3>4. \A u \in Scopes : \A e \in Entry : Listed(u, e)' => Listed(u, e)
      <4>1. \A k \in Jobs : gc'[k].keep = gc[k].keep
        BY <3>3
      <4> QED
        BY <2>1, <4>1 DEF Listed
    <3>5. chunks' \in [Chunks -> {"absent", "good", "torn"}]
      <4>1. PICK x : x = l[1]
        OBVIOUS
      <4>2. chunks' = chunks \/ chunks' = [chunks EXCEPT ![x] = "absent"]
        <5>1. CASE x \in Leased(j)
          BY <1>2, <3>1, <4>1, <5>1
        <5>2. CASE x \notin Leased(j)
          BY <3>1, <4>1, <5>2
        <5> QED
          BY <5>1, <5>2
      <4> QED
        BY <1>2, <4>2
    <3> QED
      BY <1>2, <1>3, <2>1, <3>1, <3>3, <3>4, <3>5, PassStep DEF clock
  <2>3. CASE gc[j].list = {} /\ GcEnds(j, "done") /\ UNCHANGED chunks
    BY <1>3, <1>6, <2>1, <2>3
  <2> QED
    BY <1>9, <2>2, <2>3 DEF GcChunks
<1> QED
  BY <1>4, <1>5, <1>7, <1>8, <1>9 DEF Collector

\* ----- Time and loss.

LEMMA TimeSteps ==
  ASSUME CacheInv, Tick \/ TokenExpires
  PROVE  CacheInv'
<1>1. FileType /\ JobType /\ DOMAIN client = Clients
  BY DEF CacheInv
<1>2. UNCHANGED <<chunks, manifests, index, tail, job, spec, gc, client, ops>>
  BY DEF Tick, TokenExpires, disk
<1>3. ops <= ops' /\ Stays
  BY <1>1, <1>2, StaysIfSame DEF FileType
<1>4. Ordered'
  BY <1>2 DEF CacheInv, Ordered
<1>5. EntriesSound'
  BY <1>2, <1>3, EntriesSame
<1>6. \A d \in Clients : client'[d] = client[d] /\ (client[d].pc \notin {"idle", "stray"} => job'[client[d].job] = "up")
  BY <1>2 DEF CacheInv, OneClient, ClientType
<1>7. CASE Tick
  <2>1. now < MaxTime /\ now' = now + 1 /\ UNCHANGED <<stage, pending>>
    BY <1>7 DEF Tick, disk
  <2>2. FileType'
    <3>1. now' \in 0..MaxTime
      BY <1>1, <2>1, BoundsAssumption DEF FileType
    <3> QED
      BY <1>1, <1>2, <2>1, <3>1 DEF FileType
  <2>3. JobType'
    BY <1>1, <1>2, <2>1 DEF JobType, Pass, Content
  <2>4. Uploading' /\ \A d \in Clients : Undisturbed(d)
    BY <1>2, <2>1, UploadsSame
  <2> QED
    BY <1>1, <1>2, <1>3, <1>4, <1>5, <1>6, <2>2, <2>3, <2>4, JobStep
<1>8. CASE TokenExpires
  <2>1. pending' \subseteq pending /\ stage' = Reachable(pending') /\ now' = now
    BY <1>8 DEF TokenExpires, clock
  <2>2. /\ \A i \in DOMAIN stage' : i \in 1..ops' /\ stage'[i] \in Content
        /\ pending' \subseteq [id : 1..ops', job : Jobs, proto : {"v1", "v2"}, key : Keys]
        /\ \A d \in Clients : Undisturbed(d)
        /\ Uploading'
    BY <1>2, <2>1, FewerUploads
  <2>3. FileType'
    BY <1>1, <1>2, <2>1, <2>2 DEF FileType
  <2>4. JobType'
    BY <1>1, <1>2, <2>1, <2>2 DEF JobType, Pass, Content
  <2> QED
    BY <1>1, <1>2, <1>3, <1>4, <1>5, <1>6, <2>2, <2>3, <2>4, JobStep
<1> QED
  BY <1>7, <1>8

LEMMA FrontIs ==
  ASSUME NEW S, NEW q \in Seq(S), q # <<>>
  PROVE  Front(q) \in Seq(S) /\ Range(Front(q)) \subseteq Range(q)
<1>1. Len(q) \in Nat /\ Len(q) >= 1 /\ DOMAIN q = 1..Len(q)
  OBVIOUS
<1>2. \A i \in 1..(Len(q) - 1) : q[i] \in S
  BY <1>1
<1>3. 1 \in Int /\ Len(q) - 1 \in Int
  BY <1>1
<1> DEFINE f == SubSeq(q, 1, Len(q) - 1)
<1>4. /\ f \in Seq(S)
      /\ Len(f) = IF 1 <= Len(q) - 1 THEN Len(q) - 1 - 1 + 1 ELSE 0
      /\ \A i \in 1..(Len(q) - 1 - 1 + 1) : f[i] = q[1 + i - 1]
  BY <1>2, <1>3, SubSeqProperties
<1> HIDE DEF f
<1>5. Len(f) = Len(q) - 1
  <2>1. Len(f) = IF 1 <= Len(q) - 1 THEN Len(q) - 1 - 1 + 1 ELSE 0
    BY <1>4
  <2> DEFINE n == Len(q)
  <2>2. n \in Nat /\ n >= 1 /\ Len(f) = IF 1 <= n - 1 THEN n - 1 - 1 + 1 ELSE 0
    BY <1>1, <2>1
  <2> HIDE DEF n
  <2>3. Len(f) = n - 1
    BY <2>2
  <2> QED
    BY <2>3 DEF n
<1>6. ASSUME NEW i \in DOMAIN f PROVE f[i] \in Range(q)
  <2>1. i \in 1..(Len(q) - 1)
    BY <1>4, <1>5
  <2>2. f[i] = q[1 + i - 1]
    <3> DEFINE n == Len(q)
    <3>1. n \in Nat /\ i \in 1..(n - 1)
      BY <1>1, <2>1
    <3> HIDE DEF n
    <3>2. i \in 1..(n - 1 - 1 + 1)
      BY <3>1
    <3>3. i \in 1..(Len(q) - 1 - 1 + 1)
      BY <3>2 DEF n
    <3> QED
      BY <1>4, <3>3
  <2>3. 1 + i - 1 = i /\ i \in DOMAIN q
    BY <1>1, <2>1
  <2>4. f[i] = q[i]
    BY <2>2, <2>3
  <2> QED
    BY <2>3, <2>4 DEF Range
<1> QED
  BY <1>4, <1>6 DEF Front, f, Range

LEMMA PowerLossStep ==
  ASSUME CacheInv, PowerLoss
  PROVE  CacheInv'
<1>1. FileType /\ JobType /\ Ordered /\ DOMAIN client = Clients
  BY DEF CacheInv
<1>2. PICK torn \in AtMostOne({c \in Chunks : chunks[c] = "good"}), gone \in AtMostOne(manifests),
           cut \in AtMostOne({s \in Scopes : index[s] # <<>>}) :
       /\ chunks' = [c \in Chunks |-> IF c \in torn THEN "torn" ELSE chunks[c]]
       /\ manifests' = manifests \ gone
       /\ index' = [s \in Scopes |-> IF s \in cut THEN Front(index[s]) ELSE index[s]]
       /\ tail' = [s \in Scopes |-> s \in cut \/ tail[s]]
  BY DEF PowerLoss
<1>3. /\ job' = [j \in Jobs |-> IF job[j] \in {"up", "gc"} THEN "dead" ELSE job[j]]
      /\ gc' = [j \in Jobs |-> NoGc]
      /\ client' = [c \in Clients |-> Idle]
      /\ pending' = {} /\ stage' = << >>
      /\ UNCHANGED <<spec, now, ops, acked, overlapped>>
  BY DEF PowerLoss
<1>4. \A s \in cut : s \in Scopes /\ index[s] # <<>>
  BY DEF AtMostOne
<1>5. ASSUME NEW s \in Scopes PROVE index'[s] \in Seq(Entry) /\ Range(index'[s]) \subseteq Range(index[s])
  <2>1. index[s] \in Seq(Entry)
    BY <1>1 DEF FileType
  <2>2. index'[s] = IF s \in cut THEN Front(index[s]) ELSE index[s]
    BY <1>2
  <2> QED
    BY <1>4, <2>1, <2>2, FrontIs
<1>6. FileType'
  <2>1. chunks' \in [Chunks -> {"absent", "good", "torn"}] /\ manifests' \subseteq Content
    BY <1>1, <1>2 DEF FileType
  <2>2. index' \in [Scopes -> Seq(Entry)]
    BY <1>2, <1>5
  <2>3. tail' \in [Scopes -> BOOLEAN]
    BY <1>2
  <2>4. \A i \in DOMAIN stage' : i \in 1..ops' /\ stage'[i] \in Content
    BY <1>3
  <2> QED
    BY <1>1, <1>3, <2>1, <2>2, <2>3, <2>4 DEF FileType, Content
<1>7. Stays
  BY <1>1, <1>3 DEF Stays, JobType, FileType
<1>8. JobType'
  <2>1. job' \in [Jobs -> {"wait", "up"} \cup Over] /\ \A j \in Jobs : job'[j] # "gc"
    BY <1>1, <1>3 DEF JobType, Over
  <2>2. gc' \in [Jobs -> Pass] /\ \A j \in Jobs : gc'[j].pc = "off"
    BY <1>3, NoGcIs
  <2> QED
    BY <1>1, <1>3, <2>1, <2>2 DEF JobType, Pass, Content
<1>9. Ordered'
  BY <1>1, <1>3 DEF Ordered, Over
<1>10. EntriesSound'
  <2>1. ASSUME NEW s \in Scopes, NEW e \in Entry, Listed(s, e)' PROVE Listed(s, e)
    <3>1. \A j \in Jobs : gc'[j] = NoGc
      BY <1>3
    <3>2. e \in Range(index'[s])
      BY <2>1, <3>1, NoGcIs DEF Listed
    <3> QED
      BY <1>5, <3>2 DEF Listed
  <2> QED
    BY <1>7, <2>1, FewerEntries
<1>11. Uploading'
  BY <1>3 DEF Uploading, Idle
<1>12. DOMAIN client' = Clients /\ \A d \in Clients : client'[d] = Idle
  BY <1>3
<1> QED
  BY <1>6, <1>7, <1>8, <1>9, <1>10, <1>11, <1>12, JobStep

\* ----- The invariant.

LEMMA CacheInit ==
  ASSUME Init
  PROVE  CacheInv
<1>1. /\ chunks = [c \in Chunks |-> "absent"] /\ manifests = {}
      /\ index = [s \in Scopes |-> <<>>] /\ tail = [s \in Scopes |-> FALSE]
      /\ stage = << >>
      /\ job = [j \in Jobs |-> "wait"] /\ spec = [j \in Jobs |-> CHOOSE s \in Specs : TRUE]
      /\ gc = [j \in Jobs |-> NoGc]
      /\ pending = {} /\ client = [c \in Clients |-> Idle]
      /\ now = 0 /\ ops = 0
  BY DEF Init
<1>2. FileType
  <2>1. MaxTime \in Nat /\ MaxOps \in Nat
    BY BoundsAssumption
  <2> QED
    BY <1>1, <2>1 DEF FileType
<1>3. JobType
  <2>1. (CHOOSE s \in Specs : TRUE) \in Specs
    BY DataAssumption
  <2>2. gc \in [Jobs -> Pass] /\ \A j \in Jobs : gc[j].pc = "off"
    BY <1>1, NoGcIs
  <2> HIDE DEF Jobs
  <2> QED
    BY <1>1, <2>1, <2>2 DEF JobType
<1>4. Ordered
  BY <1>1 DEF Ordered
<1>5. EntriesSound
  <2>1. ASSUME NEW s \in Scopes, NEW e \in Entry, Listed(s, e) PROVE FALSE
    <3>1. \A j \in Jobs : gc[j] = NoGc
      BY <1>1
    <3>2. index[s] = <<>>
      BY <1>1
    <3> QED
      BY <2>1, <3>1, <3>2, NoGcIs DEF Listed, Range
  <2> QED
    BY <2>1 DEF EntriesSound
<1>6. Uploading
  BY <1>1 DEF Uploading, Idle
<1>7. ASSUME NEW d \in Clients PROVE OneClient(d)
  <2>1. client[d] = Idle /\ Idle.pc = "idle" /\ DOMAIN Idle = Fields
    BY <1>1 DEF Idle, Fields
  <2> QED
    BY <2>1 DEF OneClient, ClientType, Saver, Restorer, Saving, Restoring
<1> QED
  BY <1>1, <1>2, <1>3, <1>4, <1>5, <1>6, <1>7 DEF CacheInv

LEMMA CacheNext ==
  ASSUME CacheInv, [Next]_vars
  PROVE  CacheInv'
<1>1. CASE UNCHANGED vars
  <2>1. UNCHANGED <<chunks, manifests, index, tail, stage, job, spec, gc, pending, client, now, ops>>
    BY <1>1 DEF vars, disk, clock
  <2>2. FileType /\ ops' \in ops..MaxOps /\ ops <= ops'
    BY <2>1 DEF CacheInv, FileType
  <2>3. FileType' /\ Stays
    BY <2>1, <2>2, FileSame, StaysIfSame DEF disk
  <2>4. JobType' /\ Ordered'
    BY <2>1 DEF CacheInv, JobType, Ordered, Pass, Content
  <2>5. EntriesSound'
    BY <2>1, <2>3, EntriesSame
  <2>6. Uploading' /\ \A d \in Clients : Undisturbed(d)
    BY <2>1, UploadsSame
  <2>7. \A d \in Clients : client'[d] = client[d] /\ (client[d].pc \notin {"idle", "stray"} => job'[client[d].job] = "up")
    BY <2>1 DEF CacheInv, OneClient, ClientType
  <2>8. DOMAIN client' = Clients
    BY <2>1 DEF CacheInv
  <2> QED
    BY <2>3, <2>4, <2>5, <2>6, <2>7, <2>8, JobStep
<1>2. ASSUME NEW c \in Clients,
             \/ CreateCacheEntry(c) \/ Reserve(c) \/ LookupV1(c) \/ LookupUrl(c) \/ Handler(c)
             \/ Disconnect(c) \/ Stray(c)
      PROVE  CacheInv'
  BY <1>2, AnnounceSteps, HitsStep, GrowsStep, TakesStep, IngestStep, CheckSizeStep,
     PutManifestStep, InsertStep, RestoreSteps, DisconnectStep, StrayStep DEF Handler
<1>3. ASSUME NEW j \in Jobs, StartServer(j) \/ StopServer(j) \/ Collector(j)
      PROVE  CacheInv'
  BY <1>3, StartServerStep, StopServerStep, CollectorSteps
<1>4. CASE Tick \/ TokenExpires \/ PowerLoss
  BY <1>4, TimeSteps, PowerLossStep
<1> QED
  BY <1>1, <1>2, <1>3, <1>4 DEF Next

LEMMA CacheInvariant == Spec => []CacheInv
<1>1. Init => CacheInv
  BY CacheInit
<1>2. CacheInv /\ [Next]_vars => CacheInv'
  BY CacheNext
<1> QED
  BY <1>1, <1>2, PTL DEF Spec

\* What a job restores was saved by a job of its own ref or of its base, or by
\* a trusted job: an untrusted job never reaches the caches of others (trust.rs,
\* scope.rs and the write check of both front ends).
THEOREM NobodyIsPoisoned == Spec => []NoPoisoning
<1>1. CacheInv => NoPoisoning
  BY DEF CacheInv, OneClient, Restorer, NoPoisoning, Restoring
<1> QED
  BY <1>1, CacheInvariant, PTL

\* The types of the files, the servers and the collectors, and that no entry
\* of the index describes an upload that was not complete, although a finalize
\* may take the staging file of another upload of its key (finalize.rs).
THEOREM EntriesAreTrue == Spec => [](TypeOK /\ NoLyingEntry)
<1>1. CacheInv => TypeOK
  <2>1. SUFFICES ASSUME CacheInv PROVE TypeOK
    OBVIOUS
  <2>2. FileType /\ JobType /\ \A c \in Clients : ClientType(c)
    BY <2>1 DEF CacheInv, OneClient
  <2>3. \A m \in manifests : Range(m) \subseteq Chunks
    BY <2>2 DEF FileType, Content, Range
  <2>4. \A s \in Scopes : \A i \in DOMAIN index[s] : index[s][i] \in Entry
    BY <2>2 DEF FileType
  <2>5. DOMAIN stage \subseteq 1..ops
    BY <2>2 DEF FileType
  <2>6. \A p \in pending : p.job \in Jobs /\ job[p.job] = "up"
    BY <2>2 DEF JobType
  <2>7. \A c \in Clients : client[c].pc \notin {"idle", "stray"} => job[client[c].job] = "up"
    BY <2>2 DEF ClientType
  <2> QED
    BY <2>2, <2>3, <2>4, <2>5, <2>6, <2>7 DEF TypeOK, FileType, JobType
<1>2. CacheInv => NoLyingEntry
  <2>1. SUFFICES ASSUME CacheInv, NEW r \in Records
                 PROVE  r[2].manifest \in Archives /\ r[2].size = Size(r[2].manifest)
    BY DEF NoLyingEntry
  <2>2. index \in [Scopes -> Seq(Entry)]
    BY <2>1 DEF CacheInv, FileType
  <2>3. r[1] \in Scopes /\ r[2] \in Range(index[r[1]]) /\ r[2] \in Entry
    BY <2>1, <2>2, RecordsAre
  <2>4. Sound(r[1], r[2])
    BY <2>1, <2>3 DEF CacheInv, EntriesSound, Listed
  <2> QED
    BY <2>4 DEF Sound
<1> QED
  BY <1>1, <1>2, CacheInvariant, PTL


\* ----- Who is at work.

\* Beside a collector without an overlap nothing runs.
LEMMA OneCollects ==
  ASSUME CacheInv, Alone, ~overlapped, NEW j \in Jobs, job[j] = "gc"
  PROVE  /\ \A k \in Jobs : job[k] # "up"
         /\ \A k \in Jobs \ {j} : gc[k].pc = "off"
         /\ \A i \in Jobs : ~Finished(i)
         /\ \A c \in Clients : client[c].pc \in {"idle", "stray"}
<1>1. JobType /\ Ordered /\ MaxJobs \in Nat /\ \A k \in Jobs : k \in 1..MaxJobs
  BY BoundsAssumption DEF CacheInv, Jobs
<1>2. ASSUME NEW k \in Jobs, k < j PROVE job[k] \in Over \ {"gc"}
  <2>1. job[k] \in Over
    BY <1>1, <1>2 DEF Ordered
  <2>2. job[k] = "gc" => job[j] = "wait"
    BY <1>2 DEF Alone
  <2> QED
    BY <2>1, <2>2
<1>3. ASSUME NEW k \in Jobs, j < k PROVE job[k] = "wait"
  BY <1>3 DEF Alone
<1>4. \A k \in Jobs : k = j \/ k < j \/ j < k
  BY <1>1
<1>5. \A k \in Jobs : job[k] # "up"
  BY <1>2, <1>3, <1>4 DEF Over
<1>6. \A k \in Jobs \ {j} : gc[k].pc = "off"
  BY <1>1, <1>2, <1>3, <1>4 DEF JobType
<1>7. ASSUME NEW i \in Jobs, Finished(i) PROVE FALSE
  <2>1. job[i] = "done" /\ i < j
    BY <1>3, <1>4, <1>7 DEF Finished
  <2>2. i + 1 \in Jobs /\ (i + 1 = j \/ i + 1 < j) /\ i < MaxJobs
    BY <1>1, <2>1 DEF Jobs
  <2>3. job[i + 1] = "wait"
    BY <1>7, <2>2 DEF Finished
  <2>4. job[i + 1] # "wait"
    BY <1>2, <2>2 DEF Over
  <2> QED
    BY <2>3, <2>4
<1>8. \A c \in Clients : client[c].pc \in {"idle", "stray"}
  BY <1>5 DEF CacheInv, OneClient, ClientType
<1> QED
  BY <1>5, <1>6, <1>7, <1>8

\* Beside a job without an overlap nothing collects.
LEMMA OneServes ==
  ASSUME CacheInv, Alone, ~overlapped, NEW j \in Jobs, job[j] = "up"
  PROVE  /\ \A k \in Jobs : job[k] # "gc" /\ gc[k].pc = "off"
         /\ \A i \in Jobs : ~Finished(i)
<1>1. JobType /\ Ordered /\ MaxJobs \in Nat /\ \A k \in Jobs : k \in 1..MaxJobs
  BY BoundsAssumption DEF CacheInv, Jobs
<1>2. \A k \in Jobs : job[k] # "gc"
  BY OneCollects
<1>3. ASSUME NEW i \in Jobs, Finished(i) PROVE FALSE
  <2>1. job[i] = "done" /\ i # j
    BY <1>3 DEF Finished
  <2>2. CASE j < i
    <3>1. job[j] \in Over
      BY <1>1, <2>1, <2>2 DEF Ordered
    <3> QED
      BY <3>1 DEF Over
  <2>3. CASE i < j
    <3>1. i + 1 \in Jobs /\ (i + 1 = j \/ i + 1 < j) /\ i < MaxJobs
      BY <1>1, <2>3 DEF Jobs
    <3>2. job[i + 1] = "wait"
      BY <1>3, <3>1 DEF Finished
    <3>3. i + 1 < j => job[i + 1] \in Over
      BY <1>1, <3>1 DEF Ordered
    <3> QED
      BY <3>1, <3>2, <3>3 DEF Over
  <2> QED
    BY <1>1, <2>1, <2>2, <2>3
<1>4. \A k \in Jobs : gc[k].pc = "off"
  BY <1>1, <1>2 DEF JobType
<1> QED
  BY <1>2, <1>3, <1>4

\* A step beside which a job is up: what a collector knows is no matter.
LEMMA ServerStep ==
  ASSUME CacheInv, StoreInv, NEW j \in Jobs, job[j] = "up",
         UNCHANGED <<job, gc, overlapped, lossy, late>>,
         Untorn', Known',
         Quiet => (\A c \in Clients : Written(c)') /\ Stored' /\ Remembered'
  PROVE  StoreInv'
<1>1. Alone' /\ LateType'
  BY DEF StoreInv, Alone, LateType
<1>2. Quiet' <=> Quiet
  BY DEF Quiet
<1>3. ASSUME Quiet
      PROVE  \A k \in Jobs : Rewriting(k)' /\ Sweeping(k)' /\ ~Finished(k)'
  <2>1. \A k \in Jobs : gc[k].pc = "off" /\ ~Finished(k)
    BY <1>3, OneServes DEF StoreInv, Quiet
  <2>2. \A k \in Jobs : gc'[k].pc = "off"
    BY <2>1
  <2> QED
    BY <2>1, <2>2 DEF Rewriting, Sweeping, Finished
<1> QED
  BY <1>1, <1>2, <1>3 DEF StoreInv

LEMMA PresentStays ==
  ASSUME \A c \in Chunks : chunks[c] = "good" => chunks'[c] = "good",
         NEW content \in Content, Present(content)
  PROVE  Present(content)'
<1>1. Range(content) \subseteq Chunks
  BY DEF Content, Range
<1> QED
  BY <1>1 DEF Present

\* A step of one client that writes no log only adds to the store.
LEMMA StoreGrows ==
  ASSUME CacheInv, StoreInv, Quiet, NEW c \in Clients,
         UNCHANGED <<index, now, acked>>, manifests \subseteq manifests',
         \A x \in Chunks : chunks[x] = "good" => chunks'[x] = "good",
         \A d \in Clients \ {c} : client'[d] = client[d],
         Written(c)'
  PROVE  (\A d \in Clients : Written(d)') /\ Stored' /\ Remembered'
<1>1. (\A d \in Clients : Written(d)) /\ Stored /\ Remembered
  BY DEF StoreInv
<1>2. ASSUME NEW d \in Clients, d # c PROVE Written(d)'
  <2>1. PICK r : r = client[d]
    OBVIOUS
  <2>2. client'[d] = r
    BY <1>2, <2>1
  <2>3. /\ r.pc = "ingest" => \A x \in Range(r.got) : x \in Range(r.todo) \/ chunks[x] = "good"
        /\ r.pc \in {"manifest", "insert"} => Present(r.got)
        /\ r.pc = "insert" => r.got \in manifests
    BY <1>1, <2>1 DEF Written
  <2>4. r.pc \in {"ingest", "manifest", "insert"} => r.got \in Content
    <3>1. Saver(d)
      BY DEF CacheInv, OneClient
    <3>2. r.pc = "ingest" => Begun(r.got)
      BY <2>1, <3>1 DEF Saver, Saving
    <3>3. r.pc \in {"manifest", "insert"} => r.got \in Archives
      BY <2>1, <3>1 DEF Saver, Saving
    <3> QED
      BY <3>2, <3>3, BegunIsContent, DataAssumption DEF Content
  <2>5. r.pc \in {"manifest", "insert"} => Present(r.got)'
    BY <2>3, <2>4, PresentStays
  <2>6. r.pc = "ingest" => \A x \in Range(r.got) : x \in Range(r.todo) \/ chunks'[x] = "good"
    <3>1. r.got \in Content => Range(r.got) \subseteq Chunks
      BY DEF Content, Range
    <3> QED
      BY <2>3, <2>4, <3>1
  <2> QED
    BY <2>2, <2>3, <2>5, <2>6 DEF Written, Present
<1>3. Stored'
  <2>1. ASSUME NEW s \in Scopes, NEW e \in Entry, e \in Range(index[s])
        PROVE  e.manifest \in manifests' /\ Present(e.manifest)'
    <3>1. e.manifest \in manifests /\ Present(e.manifest) /\ e.manifest \in Content
      BY <1>1, <2>1 DEF Stored, Entry, Content
    <3> QED
      BY <3>1, PresentStays
  <2> QED
    BY <2>1 DEF Stored
<1>4. Remembered'
  BY <1>1 DEF Remembered, Excused
<1> QED
  BY <1>2, <1>3, <1>4

\* A step of one client that writes no log.
LEMMA ClientKeeps ==
  ASSUME CacheInv, CacheInv', StoreInv, NEW c \in Clients, NEW j \in Jobs, job[j] = "up",
         UNCHANGED <<index, tail, job, gc, now, acked, overlapped, lossy, late>>,
         manifests \subseteq manifests',
         ~lossy => \A x \in Chunks : chunks'[x] # "torn" /\ (chunks[x] = "good" => chunks'[x] = "good"),
         \A d \in Clients \ {c} : client'[d] = client[d],
         Quiet => Written(c)'
  PROVE  StoreInv'
<1>1. Untorn'
  BY DEF StoreInv, Untorn
<1>2. Known'
  <2>1. \A s \in Scopes : \A e \in Entry : Listed(s, e)' => Listed(s, e)
    BY DEF Listed
  <2> QED
    BY <2>1 DEF StoreInv, Known
<1>3. ASSUME Quiet PROVE (\A d \in Clients : Written(d)') /\ Stored' /\ Remembered'
  BY <1>3, StoreGrows DEF Quiet
<1> QED
  BY <1>1, <1>2, <1>3, ServerStep

\* ----- Clients and the store.

LEMMA RangeSplits ==
  ASSUME NEW S, NEW q \in Seq(S), q # <<>>
  PROVE  /\ Tail(q) \in Seq(S) /\ Head(q) \in S
         /\ \A x \in Range(q) : x = Head(q) \/ x \in Range(Tail(q))
<1>1. /\ Head(q) \in S /\ Tail(q) \in Seq(S) /\ Len(q) \in Nat /\ Len(q) >= 1
      /\ DOMAIN q = 1..Len(q) /\ Head(q) = q[1] /\ Len(Tail(q)) = Len(q) - 1
      /\ \A i \in 1..Len(Tail(q)) : Tail(q)[i] = q[i + 1]
      /\ DOMAIN Tail(q) = 1..Len(Tail(q))
  BY HeadTailProperties
<1>2. ASSUME NEW i \in DOMAIN q PROVE q[i] = Head(q) \/ q[i] \in Range(Tail(q))
  <2>1. CASE i = 1
    BY <1>1, <2>1
  <2>2. CASE i # 1
    <3>1. i - 1 \in 1..Len(Tail(q)) /\ i - 1 + 1 = i
      BY <1>1, <2>2
    <3>2. Tail(q)[i - 1] = q[i]
      BY <1>1, <3>1
    <3> QED
      BY <1>1, <3>1, <3>2 DEF Range
  <2> QED
    BY <2>1, <2>2
<1> QED
  BY <1>1, <1>2 DEF Range

\* A step of one client beside which nothing is written, after which it is at
\* no write.
LEMMA OtherSteps ==
  ASSUME CacheInv, CacheInv', StoreInv, NEW c \in Clients, NEW j \in Jobs, job[j] = "up",
         UNCHANGED <<manifests, index, tail, job, gc, now, acked, overlapped, lossy, late>>,
         chunks' = chunks \/ \E x : chunks[x] # "good" /\ chunks' = [chunks EXCEPT ![x] = "absent"],
         \A d \in Clients \ {c} : client'[d] = client[d],
         client'[c].pc \notin {"ingest", "manifest", "insert"}
  PROVE  StoreInv'
<1>1. ASSUME ~lossy, NEW x \in Chunks
      PROVE  chunks'[x] # "torn" /\ (chunks[x] = "good" => chunks'[x] = "good")
  <2>1. chunks[x] # "torn" /\ chunks \in [Chunks -> {"absent", "good", "torn"}]
    BY <1>1 DEF StoreInv, Untorn, CacheInv, FileType
  <2> QED
    BY <2>1
<1>2. Written(c)'
  BY DEF Written
<1> QED
  BY <1>1, <1>2, ClientKeeps

LEMMA AtServer ==
  ASSUME CacheInv, NEW c \in Clients, client[c].pc \notin {"idle", "stray"}
  PROVE  client[c].job \in Jobs /\ job[client[c].job] = "up" /\ DOMAIN client[c] = Fields
  BY DEF CacheInv, OneClient, ClientType

LEMMA RestoresKeep ==
  ASSUME CacheInv, CacheInv', StoreInv, NEW c \in Clients,
         \/ GetManifest(c) \/ HasChunk(c) \/ GetBlob(c) \/ Download(c) \/ ReadSlice(c)
         \/ Served(c)
  PROVE  StoreInv'
<1>1. DOMAIN client = Clients
  BY DEF CacheInv
<1>2. client[c].pc \notin {"idle", "stray"}
  BY DEF GetManifest, HasChunk, GetBlob, Download, Streams, ReadSlice, Served
<1>3. /\ UNCHANGED <<manifests, index, tail, job, gc, now, acked, overlapped, lossy, late>>
      /\ chunks' = chunks \/ \E x : chunks[x] # "good" /\ chunks' = [chunks EXCEPT ![x] = "absent"]
  <2>1. CASE ReadSlice(c)
    BY <2>1 DEF ReadSlice, clock, hist
  <2>2. CASE \/ GetManifest(c) \/ HasChunk(c) \/ GetBlob(c) \/ Download(c) \/ Served(c)
    BY <2>2 DEF GetManifest, HasChunk, GetBlob, Download, Streams, Served, disk, clock, hist
  <2> QED
    BY <2>1, <2>2
<1>4. \E n : Set(c, n) /\ n.pc \notin {"ingest", "manifest", "insert"}
  <2> DEFINE r == client[c]
  <2>1. DOMAIN r = Fields /\ \A f : DOMAIN [r EXCEPT !.pc = f] = Fields
    BY <1>2, AtServer
  <2>2. Idle.pc = "idle"
    BY DEF Idle
  <2>3. CASE GetManifest(c)
    <3>1. [r EXCEPT !.pc = "probe", !.todo = r.got].pc = "probe"
      BY <2>1 DEF Fields
    <3> QED
      BY <2>2, <2>3, <3>1 DEF GetManifest, Drops
  <2>4. CASE HasChunk(c)
    <3>1. [r EXCEPT !.pc = "url"].pc = "url" /\ [r EXCEPT !.todo = Tail(@)].pc = r.pc
      BY <2>1 DEF Fields
    <3> QED
      BY <2>2, <2>4, <3>1 DEF HasChunk, Drops
  <2>5. CASE Streams(c)
    <3>1. \A x, y : [r EXCEPT !.pc = "read", !.range = x, !.todo = y].pc = "read"
      BY <2>1 DEF Fields
    <3>2. PICK header \in Ranges :
             LET g == ParseRange(header, Size(r.got))
             IN  IF g = <<>> THEN Drops(c)
                 ELSE Set(c, [r EXCEPT !.pc = "read", !.range = g,
                                       !.todo = BuildPlan(r.got, g[1], g[2] - g[1] + 1)])
      BY <2>5 DEF Streams
    <3>3. PICK g : g = ParseRange(header, Size(r.got))
      OBVIOUS
    <3>4. \/ Set(c, Idle)
          \/ Set(c, [r EXCEPT !.pc = "read", !.range = g, !.todo = BuildPlan(r.got, g[1], g[2] - g[1] + 1)])
      BY <3>2, <3>3 DEF Drops
    <3> HIDE DEF r
    <3> QED
      BY <2>2, <3>1, <3>4
  <2>6. CASE ReadSlice(c)
    <3>1. PICK step : step = Head(r.todo)
      OBVIOUS
    <3>2. \A y : [r EXCEPT !.todo = Tail(@), !.out = y].pc = r.pc
      BY <2>1 DEF Fields
    <3>3. r.pc = "read" /\ (Set(c, Idle) \/ \E y : Set(c, [r EXCEPT !.todo = Tail(@), !.out = y]))
      BY <2>6, <3>1 DEF ReadSlice, Drops
    <3> QED
      BY <2>2, <3>2, <3>3
  <2>7. CASE Served(c)
    BY <2>2, <2>7 DEF Served, Drops
  <2> QED
    BY <2>3, <2>4, <2>5, <2>6, <2>7 DEF GetBlob, Download
<1>5. client'[c].pc \notin {"ingest", "manifest", "insert"} /\ \A d \in Clients \ {c} : client'[d] = client[d]
  BY <1>1, <1>4, SetIs
<1> QED
  BY <1>2, <1>3, <1>5, AtServer, OtherSteps

LEMMA BeginningsKeep ==
  ASSUME CacheInv, CacheInv', StoreInv, NEW c \in Clients,
         CreateCacheEntry(c) \/ Reserve(c) \/ LookupV1(c) \/ LookupUrl(c)
  PROVE  StoreInv'
<1>1. DOMAIN client = Clients
  BY DEF CacheInv
<1>2. UNCHANGED <<chunks, manifests, index, tail, job, gc, now, acked, overlapped, lossy, late>>
  BY DEF CreateCacheEntry, Reserve, LookupV1, LookupUrl, Hits, Begins, disk, clock, hist
<1>3. \E j \in Jobs : job[j] = "up" /\ \E n : Set(c, n) /\ n.pc \in {"upload", "lookup"}
  <2>1. CASE CreateCacheEntry(c) \/ Reserve(c)
    <3> DEFINE v2(j, k, a) == [Idle EXCEPT !.pc = "upload", !.job = j, !.id = ops + 1, !.key = k,
                                          !.want = a, !.todo = a]
               v1(j, k, a) == [Idle EXCEPT !.pc = "upload", !.job = j, !.id = ops + 1, !.key = k,
                                          !.want = a, !.todo = a, !.proto = "v1"]
    <3>1. PICK j \in Jobs, k \in Keys, a \in Archives :
             job[j] = "up" /\ (Set(c, v2(j, k, a)) \/ Set(c, v1(j, k, a)))
      BY <2>1 DEF CreateCacheEntry, Reserve
    <3>2. v2(j, k, a).pc = "upload" /\ v1(j, k, a).pc = "upload"
      BY DEF Idle
    <3> HIDE DEF v1, v2
    <3> QED
      BY <3>1, <3>2
  <2>2. CASE LookupV1(c) \/ LookupUrl(c)
    <3> DEFINE n(j, e, proto) == [Idle EXCEPT !.pc = "lookup", !.job = j, !.got = e.manifest,
                                              !.by = e.by, !.proto = proto]
    <3>1. PICK j \in Jobs, q \in Queries :
             job[j] = "up" /\ \E proto : Set(c, n(j, IndexLookup(ReadLadder(j), q), proto))
      BY <2>2 DEF LookupV1, LookupUrl, Hits
    <3>2. \A e, proto : n(j, e, proto).pc = "lookup"
      BY DEF Idle
    <3> HIDE DEF n
    <3> QED
      BY <3>1, <3>2
  <2> QED
    BY <2>1, <2>2
<1>4. PICK j \in Jobs : job[j] = "up" /\ \E n : Set(c, n) /\ n.pc \in {"upload", "lookup"}
  BY <1>3
<1>5. client'[c].pc \in {"upload", "lookup"} /\ \A d \in Clients \ {c} : client'[d] = client[d]
  BY <1>1, <1>4, SetIs
<1> QED
  BY <1>2, <1>4, <1>5, OtherSteps

LEMMA UploadsKeep ==
  ASSUME CacheInv, CacheInv', StoreInv, NEW c \in Clients, PutBlob(c) \/ WriteChunk(c)
  PROVE  StoreInv'
<1>1. DOMAIN client = Clients /\ client[c].pc = "upload"
  BY DEF CacheInv, PutBlob, WriteChunk, Uploads
<1>2. UNCHANGED <<chunks, manifests, index, tail, job, gc, now, acked, overlapped, lossy, late>>
  BY DEF PutBlob, WriteChunk, Grows, clock, hist
<1>3. Set(c, [client[c] EXCEPT !.todo = Tail(@)]) \/ Set(c, Idle)
  BY DEF PutBlob, WriteChunk, Grows, Drops
<1>4. [client[c] EXCEPT !.todo = Tail(@)].pc = "upload" /\ Idle.pc = "idle"
  BY <1>1, AtServer DEF Fields, Idle
<1>5. client'[c].pc \in {"upload", "idle"} /\ \A d \in Clients \ {c} : client'[d] = client[d]
  BY <1>1, <1>3, <1>4, SetIs
<1> QED
  BY <1>1, <1>2, <1>5, AtServer, OtherSteps

\* ----- Saves and the store.

\* A step of one save that touches no log and, but for a chunk, no file.
LEMMA SaveKeeps ==
  ASSUME CacheInv, CacheInv', StoreInv, NEW c \in Clients, client[c].pc \notin {"idle", "stray"},
         UNCHANGED <<index, tail, job, gc, now, acked, overlapped, lossy, late>>,
         manifests \subseteq manifests',
         chunks' = chunks \/ \E x \in Chunks : chunks' = WriteAtomic(x),
         \A d \in Clients \ {c} : client'[d] = client[d],
         Quiet => Written(c)'
  PROVE  StoreInv'
<1>1. ASSUME ~lossy, NEW x \in Chunks
      PROVE  chunks'[x] # "torn" /\ (chunks[x] = "good" => chunks'[x] = "good")
  <2>1. chunks[x] # "torn" /\ chunks \in [Chunks -> {"absent", "good", "torn"}]
    BY <1>1 DEF StoreInv, Untorn, CacheInv, FileType
  <2> QED
    BY <2>1 DEF WriteAtomic
<1> QED
  BY <1>1, AtServer, ClientKeeps

LEMMA TakesKeep ==
  ASSUME CacheInv, CacheInv', StoreInv, NEW c \in Clients,
         FinalizeCacheEntryUpload(c) \/ FinalizeReservation(c)
  PROVE  StoreInv'
<1>1. PICK found : Takes(c, found)
  BY DEF FinalizeCacheEntryUpload, FinalizeReservation
<1>2. /\ client[c].pc = "upload" /\ DOMAIN client = Clients
      /\ UNCHANGED <<chunks, manifests, index, tail, job, gc, now, acked, overlapped, lossy, late>>
  BY <1>1 DEF Takes, clock, hist, CacheInv
<1>3. DOMAIN client[c] = Fields
  BY <1>2, AtServer
<1> DEFINE r == client[c]
           n(p) == [r EXCEPT !.pc = "ingest", !.id = p.id, !.got = stage[p.id], !.todo = stage[p.id]]
<1>4. Set(c, Idle) \/ \E p \in found : Set(c, n(p))
  BY <1>1 DEF Takes, Drops
<1>5. \A p : n(p).pc = "ingest" /\ n(p).got = n(p).todo
  BY <1>3 DEF Fields
<1> HIDE DEF n
<1>6. PICK m : Set(c, m) /\ (m.pc = "idle" \/ (m.pc = "ingest" /\ m.got = m.todo))
  BY <1>4, <1>5 DEF Idle
<1>7. client'[c] = m /\ \A d \in Clients \ {c} : client'[d] = client[d]
  BY <1>2, <1>6, SetIs
<1>8. Written(c)'
  BY <1>6, <1>7 DEF Written
<1> QED
  BY <1>2, <1>7, <1>8, SaveKeeps

LEMMA IngestKeeps ==
  ASSUME CacheInv, CacheInv', StoreInv, NEW c \in Clients, Ingest(c)
  PROVE  StoreInv'
<1> DEFINE n == [client[c] EXCEPT !.todo = Tail(@)]
<1>1. /\ client[c].pc = "ingest" /\ client[c].todo # <<>>
      /\ chunks' = WriteAtomic(Head(client[c].todo)) /\ Set(c, n)
      /\ UNCHANGED <<manifests, index, tail, job, gc, now, acked, overlapped, lossy, late>>
  BY DEF Ingest, clock, hist
<1>2. PICK r : r = client[c]
  OBVIOUS
<1>3. DOMAIN r = Fields /\ r.todo \in Seq(Chunks) /\ DOMAIN client = Clients /\ Begun(r.got)
  BY <1>1, <1>2 DEF CacheInv, OneClient, ClientType, Saver, Saving, Content
<1>4. /\ Head(r.todo) \in Chunks /\ Tail(r.todo) \in Seq(Chunks)
      /\ \A x \in Range(r.todo) : x = Head(r.todo) \/ x \in Range(Tail(r.todo))
  BY <1>1, <1>2, <1>3, RangeSplits
<1>5. n.pc = "ingest" /\ n.got = r.got /\ n.todo = Tail(r.todo)
  BY <1>1, <1>2, <1>3 DEF Fields
<1> HIDE DEF n
<1>6. client'[c] = n /\ \A d \in Clients \ {c} : client'[d] = client[d]
  BY <1>1, <1>3, SetIs
<1>7. ASSUME Quiet PROVE Written(c)'
  <2>1. chunks \in [Chunks -> {"absent", "good", "torn"}] /\ \A x \in Chunks : chunks[x] # "torn"
    BY <1>7 DEF StoreInv, Untorn, Quiet, CacheInv, FileType
  <2>2. \A x \in Range(r.got) : x \in Range(r.todo) \/ chunks[x] = "good"
    BY <1>1, <1>2, <1>7 DEF StoreInv, Written
  <2>3. Range(r.got) \subseteq Chunks
    BY <1>3, BegunIsContent DEF Content, Range
  <2>4. chunks' = WriteAtomic(Head(r.todo))
    BY <1>1, <1>2
  <2>5. chunks'[Head(r.todo)] = "good" /\ \A x \in Chunks : chunks[x] = "good" => chunks'[x] = "good"
    BY <1>4, <2>1, <2>4 DEF WriteAtomic
  <2>6. \A x \in Range(r.got) : x \in Range(Tail(r.todo)) \/ chunks'[x] = "good"
    BY <1>4, <2>2, <2>3, <2>5
  <2> QED
    BY <1>5, <1>6, <2>6 DEF Written
<1> QED
  BY <1>1, <1>2, <1>4, <1>6, <1>7, SaveKeeps

LEMMA CheckSizeKeeps ==
  ASSUME CacheInv, CacheInv', StoreInv, NEW c \in Clients, CheckSize(c)
  PROVE  StoreInv'
<1> DEFINE n == [client[c] EXCEPT !.pc = "manifest"]
<1>1. /\ client[c].pc = "ingest" /\ client[c].todo = <<>> /\ (Set(c, n) \/ Set(c, Idle))
      /\ UNCHANGED <<chunks, manifests, index, tail, job, gc, now, acked, overlapped, lossy, late>>
  BY DEF CheckSize, Drops, disk, clock, hist
<1>2. PICK r : r = client[c]
  OBVIOUS
<1>3. DOMAIN r = Fields /\ DOMAIN client = Clients
  BY <1>1, <1>2, AtServer DEF CacheInv
<1>4. n.pc = "manifest" /\ n.got = r.got /\ Idle.pc = "idle"
  BY <1>2, <1>3 DEF Fields, Idle
<1> HIDE DEF n
<1>5. PICK m : Set(c, m) /\ (m.pc = "idle" \/ (m.pc = "manifest" /\ m.got = r.got))
  BY <1>1, <1>4
<1>6. client'[c] = m /\ \A d \in Clients \ {c} : client'[d] = client[d]
  BY <1>3, <1>5, SetIs
<1>7. ASSUME Quiet PROVE Written(c)'
  <2>1. \A x \in Range(r.got) : x \in Range(<<>>) \/ chunks[x] = "good"
    BY <1>1, <1>2, <1>7 DEF StoreInv, Written
  <2>2. \A x \in Range(r.got) : chunks'[x] = "good"
    BY <1>1, <2>1 DEF Range
  <2> QED
    BY <1>5, <1>6, <2>2 DEF Written, Present
<1> QED
  BY <1>1, <1>6, <1>7, SaveKeeps

LEMMA PutManifestKeeps ==
  ASSUME CacheInv, CacheInv', StoreInv, NEW c \in Clients, PutManifest(c)
  PROVE  StoreInv'
<1> DEFINE n == [client[c] EXCEPT !.pc = "insert"]
<1>1. /\ client[c].pc = "manifest" /\ manifests' = manifests \cup {client[c].got} /\ Set(c, n)
      /\ UNCHANGED <<chunks, index, tail, job, gc, now, acked, overlapped, lossy, late>>
  BY DEF PutManifest, clock, hist
<1>2. PICK r : r = client[c]
  OBVIOUS
<1>3. DOMAIN r = Fields /\ DOMAIN client = Clients
  BY <1>1, <1>2, AtServer DEF CacheInv
<1>4. n.pc = "insert" /\ n.got = r.got
  BY <1>2, <1>3 DEF Fields
<1> HIDE DEF n
<1>5. client'[c] = n /\ \A d \in Clients \ {c} : client'[d] = client[d]
  BY <1>1, <1>3, SetIs
<1>6. ASSUME Quiet PROVE Written(c)'
  <2>1. \A x \in Range(r.got) : chunks'[x] = "good"
    BY <1>1, <1>2, <1>6 DEF StoreInv, Written, Present
  <2>2. r.got \in manifests'
    BY <1>1, <1>2
  <2> QED
    BY <1>4, <1>5, <2>1, <2>2 DEF Written, Present
<1> QED
  BY <1>1, <1>5, <1>6, SaveKeeps

\* What is excused stays so: time goes on, and more is acknowledged.
LEMMA ExcusedStays ==
  ASSUME CacheInv, CacheInv', Known, Known', now <= now', acked \subseteq acked',
         NEW r \in acked, Excused(r)
  PROVE  Excused(r)'
<1>1. /\ now \in Int /\ now' \in Int /\ Ttl \in Nat /\ MaxBytes \in Nat
      /\ r[2].at \in Int
  BY BoundsAssumption DEF CacheInv, FileType, Known, Entry
<1>2. CASE r[2].at < now - Ttl
  <2>1. r[2].at < now' - Ttl
    BY <1>1, <1>2
  <2> QED
    BY <2>1 DEF Excused
<1>3. CASE SizeOf({q \in acked : q[2].at >= r[2].at}) > MaxBytes
  <2> DEFINE A == {q \in acked : q[2].at >= r[2].at}
             B == {q \in acked' : q[2].at >= r[2].at}
  <2>1. Sized(B)
    <3>1. IsFiniteSet(acked') /\ \A q \in acked' : q[2].size \in Nat
      BY DEF Known, Entry
    <3> QED
      BY <3>1, FS_Subset DEF Sized
  <2>2. A \subseteq B
    OBVIOUS
  <2>3. SizeOf(A) > MaxBytes
    BY <1>3
  <2> HIDE DEF A, B
  <2>4. SizeOf(B) > MaxBytes
    BY <1>1, <2>1, <2>2, <2>3, SizeGrows
  <2> QED
    BY <2>4 DEF B, Excused
<1> QED
  BY <1>2, <1>3 DEF Excused

LEMMA InsertKeeps ==
  ASSUME CacheInv, CacheInv', StoreInv, NEW c \in Clients, Insert(c)
  PROVE  StoreInv'
<1>1. /\ client[c].pc = "insert" /\ Set(c, Idle)
      /\ UNCHANGED <<chunks, manifests, job, gc, now, overlapped, lossy, late>>
  BY DEF Insert, Drops, clock
<1>2. DOMAIN client = Clients /\ FileType
  BY DEF CacheInv
<1>3. client'[c] = Idle /\ \A d \in Clients \ {c} : client'[d] = client[d]
  BY <1>1, <1>2, SetIs
<1>4. PICK t \in Scopes, x \in Entry :
           /\ x.manifest = client[c].got
           /\ index' = IF tail[t] THEN index ELSE [index EXCEPT ![t] = Append(@, x)]
           /\ tail' = [tail EXCEPT ![t] = FALSE]
           /\ acked' = IF tail[t] THEN acked ELSE acked \cup {<<t, x>>}
  BY InsertIs
<1>5. Range(Append(index[t], x)) = Range(index[t]) \cup {x}
  BY <1>2, AppendRange DEF FileType
<1>6. \A u \in Scopes : Range(index'[u]) = Range(index[u]) \cup (IF u = t /\ ~tail[t] THEN {x} ELSE {})
  BY <1>2, <1>4, <1>5 DEF FileType
<1>7. Untorn'
  BY <1>1, <1>2, <1>4 DEF StoreInv, Untorn, FileType
<1>8. Known'
  <2>1. IsFiniteSet(acked) /\ acked \subseteq Scopes \X Entry
    BY DEF StoreInv, Known
  <2>2. IsFiniteSet(acked')
    BY <1>4, <2>1, FS_AddElement
  <2>3. acked' \subseteq Scopes \X Entry
    BY <1>4, <2>1
  <2>4. ASSUME NEW u \in Scopes, NEW y \in Entry, Listed(u, y)' PROVE <<u, y>> \in acked'
    <3>1. Listed(u, y) \/ (u = t /\ y = x /\ ~tail[t])
      BY <1>1, <1>6, <2>4 DEF Listed
    <3>2. Listed(u, y) => <<u, y>> \in acked
      BY DEF StoreInv, Known
    <3> QED
      BY <1>4, <3>1, <3>2
  <2> QED
    BY <2>2, <2>3, <2>4 DEF Known
<1>9. ASSUME Quiet PROVE (\A d \in Clients : Written(d)') /\ Stored' /\ Remembered'
  <2>1. (\A d \in Clients : Written(d)) /\ Stored /\ Remembered /\ Known /\ ~tail[t]
    BY <1>9 DEF StoreInv, Untorn, Quiet
  <2>2. ASSUME NEW d \in Clients PROVE Written(d)'
    <3>1. CASE d = c
      BY <1>3, <3>1 DEF Written, Idle
    <3>2. CASE d # c
      <4>1. client'[d] = client[d] /\ Written(d)
        BY <1>3, <2>1, <3>2
      <4> QED
        BY <1>1, <4>1 DEF Written, Present
    <3> QED
      BY <3>1, <3>2
  <2>3. Stored'
    <3>1. Written(c)
      BY <2>1
    <3>2. x.manifest \in manifests /\ Present(x.manifest)
      BY <1>1, <1>4, <3>1 DEF Written
    <3>3. ASSUME NEW s \in Scopes, NEW e \in Entry, e \in Range(index'[s])
          PROVE  e.manifest \in manifests /\ Present(e.manifest)
      BY <1>6, <2>1, <3>2, <3>3 DEF Stored
    <3> QED
      BY <1>1, <3>3 DEF Stored, Present
  <2>4. Remembered'
    <3>1. acked' = acked \cup {<<t, x>>}
      BY <1>4, <2>1
    <3>2. ASSUME NEW r \in acked PROVE r[2] \in Range(index'[r[1]]) \/ Excused(r)'
      <4>1. r[1] \in Scopes
        BY <2>1 DEF Known
      <4>2. CASE r[2] \in Range(index[r[1]])
        BY <1>6, <4>1, <4>2
      <4>3. CASE Excused(r)
        <5>1. now <= now'
          BY <1>1, <1>2 DEF FileType
        <5> QED
          BY <1>8, <2>1, <3>1, <4>3, <5>1, ExcusedStays
      <4> QED
        BY <2>1, <4>2, <4>3 DEF Remembered
    <3>3. <<t, x>>[2] \in Range(index'[<<t, x>>[1]])
      BY <1>6, <2>1
    <3> QED
      BY <3>1, <3>2, <3>3 DEF Remembered
  <2> QED
    BY <2>2, <2>3, <2>4
<1> QED
  BY <1>1, <1>7, <1>8, <1>9, AtServer, ServerStep

\* ----- Clients that go away.

LEMMA DisconnectKeeps ==
  ASSUME CacheInv, CacheInv', StoreInv, NEW c \in Clients, Disconnect(c)
  PROVE  StoreInv'
<1> DEFINE n == [Idle EXCEPT !.pc = "stray", !.got = client[c].got, !.todo = client[c].todo]
<1>1. /\ client[c].pc \notin {"idle", "stray"} /\ DOMAIN client = Clients
      /\ Set(c, n) \/ Set(c, Idle)
      /\ UNCHANGED <<chunks, manifests, index, tail, job, gc, now, acked, overlapped, lossy, late>>
  BY DEF Disconnect, Drops, disk, clock, hist, CacheInv
<1>2. n.pc = "stray" /\ Idle.pc = "idle"
  BY DEF Idle
<1> HIDE DEF n
<1>3. client'[c].pc \in {"stray", "idle"} /\ \A d \in Clients \ {c} : client'[d] = client[d]
  BY <1>1, <1>2, SetIs
<1> QED
  BY <1>1, <1>3, AtServer, OtherSteps

\* A late write only adds to the store, and what it adds is remembered.
LEMMA LateIs ==
  ASSUME CacheInv, StoreInv, Quiet, NEW c \in Clients, Stray(c)
  PROVE  /\ manifests \subseteq manifests' /\ LateType'
         /\ \A x \in Chunks : /\ chunks'[x] # "torn" /\ (chunks[x] = "good" => chunks'[x] = "good")
                              /\ chunks[x] # "absent" => chunks'[x] # "absent"
         /\ manifests' \subseteq manifests \cup late'.manifests
         /\ late.manifests \subseteq late'.manifests /\ late.chunks \subseteq late'.chunks
         /\ \A x \in Chunks : chunks'[x] # "absent" => chunks[x] # "absent" \/ x \in late'.chunks
<1>1. /\ chunks \in [Chunks -> {"absent", "good", "torn"}]
      /\ \A x \in Chunks : chunks[x] # "torn"
      /\ DOMAIN late = {"manifests", "chunks"} /\ ~overlapped /\ ~lossy
  BY DEF CacheInv, FileType, StoreInv, Untorn, Quiet, LateType
<1>2. CASE UNCHANGED <<chunks, manifests, late>>
  BY <1>1, <1>2 DEF LateType
<1>3. CASE \E x \in Content : /\ manifests' = manifests \cup {x} /\ chunks' = chunks
                              /\ Remembers("manifests", x)
  <2>1. PICK x \in Content : /\ manifests' = manifests \cup {x} /\ chunks' = chunks
                             /\ Remembers("manifests", x)
    BY <1>3
  <2>2. late' = [late EXCEPT !["manifests"] = @ \cup {x}]
    BY <1>1, <2>1 DEF Remembers
  <2>3. /\ late'.manifests = late.manifests \cup {x} /\ late'.chunks = late.chunks
        /\ DOMAIN late' = {"manifests", "chunks"}
    BY <1>1, <2>2
  <2> QED
    BY <1>1, <2>1, <2>3 DEF LateType
<1>4. CASE \E x \in Chunks : /\ chunks' = WriteAtomic(x) /\ manifests' = manifests
                             /\ Remembers("chunks", x)
  <2>1. PICK x \in Chunks : /\ chunks' = WriteAtomic(x) /\ manifests' = manifests
                            /\ Remembers("chunks", x)
    BY <1>4
  <2>2. late' = [late EXCEPT !["chunks"] = @ \cup {x}]
    BY <1>1, <2>1 DEF Remembers
  <2>3. /\ late'.chunks = late.chunks \cup {x} /\ late'.manifests = late.manifests
        /\ DOMAIN late' = {"manifests", "chunks"}
    BY <1>1, <2>2
  <2>4. \A y \in Chunks : /\ chunks'[y] = chunks[y] \/ (y = x /\ chunks'[y] = "good")
    BY <1>1, <2>1 DEF WriteAtomic
  <2> QED
    BY <1>1, <2>1, <2>3, <2>4 DEF LateType
<1> QED
  BY <1>2, <1>3, <1>4, StrayDoes

LEMMA StrayKeeps ==
  ASSUME CacheInv, CacheInv', StoreInv, NEW c \in Clients, Stray(c)
  PROVE  StoreInv'
<1>1. UNCHANGED <<index, tail, job, gc, now, acked, overlapped, lossy>>
  BY StrayDoes DEF clock
<1>2. client'[c].pc \in {"idle", "stray"} /\ \A d \in Clients \ {c} : client'[d] = client[d]
  <2>1. PICK m : Set(c, m) /\ (m = Idle \/ m.pc = "stray")
    BY StrayDoes
  <2> QED
    BY <2>1, SetIs DEF CacheInv, Idle
<1>3. Alone' /\ (Quiet' <=> Quiet) /\ LateType'
  <2>1. \/ late' = late
        \/ \E x : late' = [late EXCEPT !["manifests"] = @ \cup {x}]
        \/ \E x : late' = [late EXCEPT !["chunks"] = @ \cup {x}]
    BY StrayDoes DEF Remembers
  <2>2. LateType'
    BY <2>1 DEF StoreInv, LateType
  <2> QED
    BY <1>1, <2>2 DEF StoreInv, Alone, Quiet
<1>4. Untorn'
  <2>1. ASSUME ~lossy, NEW x \in Chunks PROVE chunks'[x] # "torn"
    <3>1. chunks \in [Chunks -> {"absent", "good", "torn"}] /\ \A y \in Chunks : chunks[y] # "torn"
      BY <2>1 DEF CacheInv, FileType, StoreInv, Untorn
    <3>2. chunks' = chunks \/ \E y \in Chunks : chunks' = WriteAtomic(y)
      BY StrayDoes
    <3> QED
      BY <3>1, <3>2 DEF WriteAtomic
  <2> QED
    BY <1>1, <2>1 DEF StoreInv, Untorn
<1>5. Known'
  <2>1. \A s \in Scopes : \A e \in Entry : Listed(s, e)' => Listed(s, e)
    BY <1>1 DEF Listed
  <2> QED
    BY <1>1, <2>1 DEF StoreInv, Known
<1>6. ASSUME Quiet
      PROVE  /\ \A d \in Clients : Written(d)'
             /\ \A j \in Jobs : Rewriting(j)' /\ Sweeping(j)'
             /\ Stored' /\ Remembered'
             /\ \A j \in Jobs : Finished(j)' => Clean'
  <2>1. /\ manifests \subseteq manifests'
        /\ \A x \in Chunks : /\ chunks[x] = "good" => chunks'[x] = "good"
                             /\ chunks[x] # "absent" => chunks'[x] # "absent"
        /\ manifests' \subseteq manifests \cup late'.manifests
        /\ late.manifests \subseteq late'.manifests /\ late.chunks \subseteq late'.chunks
        /\ \A x \in Chunks : chunks'[x] # "absent" => chunks[x] # "absent" \/ x \in late'.chunks
    BY <1>6, LateIs
  <2>2. Written(c)'
    BY <1>2 DEF Written
  <2>3. (\A d \in Clients : Written(d)') /\ Stored' /\ Remembered'
    <3>1. \A x \in Chunks : chunks[x] = "good" => chunks'[x] = "good"
      BY <2>1
    <3> QED
      BY <1>1, <1>2, <1>6, <2>1, <2>2, <3>1, StoreGrows
  <2>4. Described' = Described
    BY <1>1 DEF Described
  <2>5. ASSUME NEW j \in Jobs PROVE Rewriting(j)' /\ Sweeping(j)'
    <3>1. Rewriting(j) /\ Sweeping(j)
      BY <1>6 DEF StoreInv
    <3>2. Rewriting(j)'
      BY <1>1, <3>1 DEF Rewriting, Excused
    <3>3. PICK g : g = gc[j]
      OBVIOUS
    <3>4. gc'[j] = g
      BY <1>1, <3>3
    <3>5. /\ g.pc \in {"live", "manifests", "chunks"} => g.live = Described
          /\ g.pc = "manifests" => /\ manifests \subseteq g.live \cup g.list \cup late.manifests
                                   /\ g.live \cap g.list = {}
      BY <3>1, <3>3 DEF Sweeping
    <3>6. g.pc = "manifests" => manifests' \subseteq g.live \cup g.list \cup late'.manifests
      BY <2>1, <3>5
    <3>7. LiveChunks(j)' = LiveChunks(j)
      BY <1>1 DEF LiveChunks
    <3>8. g.pc = "chunks" =>
            /\ manifests' \subseteq g.live \cup late'.manifests
            /\ \A x \in Chunks : chunks'[x] # "absent" =>
                 x \in LiveChunks(j) \cup late'.chunks \/ <<x>> \in g.list
            /\ \A l \in g.list : \E x \in Chunks \ LiveChunks(j) : l = <<x>>
      BY <2>1, <3>1, <3>3 DEF Sweeping
    <3>9. Sweeping(j)'
      BY <2>4, <3>4, <3>5, <3>6, <3>7, <3>8 DEF Sweeping
    <3> QED
      BY <3>2, <3>9
  <2>6. ASSUME NEW j \in Jobs, Finished(j)' PROVE Clean'
    <3>1. Finished(j)
      BY <1>1, <2>6 DEF Finished
    <3>2. Clean
      BY <1>6, <3>1 DEF StoreInv
    <3> DEFINE old == Described
    <3>3. /\ old \subseteq manifests /\ manifests \subseteq old \cup late.manifests
          /\ \A m \in old : \A x \in Range(m) : x \in Chunks /\ chunks[x] # "absent"
          /\ \A x \in Chunks : chunks[x] # "absent" =>
               x \in late.chunks \/ \E m \in old : x \in Range(m)
      BY <3>2 DEF Clean
    <3>4. Described' = old
      BY <2>4
    <3> HIDE DEF old
    <3>5. old \subseteq manifests' /\ manifests' \subseteq old \cup late'.manifests
      BY <2>1, <3>3
    <3>6. \A m \in old : \A x \in Range(m) : x \in Chunks /\ chunks'[x] # "absent"
      BY <2>1, <3>3
    <3>7. \A x \in Chunks : chunks'[x] # "absent" =>
            x \in late'.chunks \/ \E m \in old : x \in Range(m)
      BY <2>1, <3>3
    <3> QED
      BY <3>4, <3>5, <3>6, <3>7 DEF Clean
  <2> QED
    BY <2>3, <2>5, <2>6
<1> QED
  BY <1>3, <1>4, <1>5, <1>6 DEF StoreInv

\* ----- Jobs, time and the store.

\* A step that touches neither store nor index and begins no operation.
LEMMA StoreRests ==
  ASSUME CacheInv, CacheInv', StoreInv,
         UNCHANGED <<chunks, manifests, index, tail, acked>>, now <= now',
         ~lossy' => ~lossy, ~overlapped' => ~overlapped, Alone',
         \A c \in Clients : client'[c] = client[c] \/ client'[c].pc = "idle",
         \A j \in Jobs : /\ gc'[j].pc \in {"off", "plan"} \/ gc'[j] = gc[j]
                         /\ gc'[j].keep = gc[j].keep \/ gc'[j] = NoGc,
         ~overlapped' => \A j \in Jobs : Finished(j)' => Finished(j),
         LateType',
         ~overlapped' => \/ late' = late
                         \/ \A j \in Jobs : gc'[j].pc \in {"off", "plan"} /\ ~Finished(j)'
  PROVE  StoreInv'
<1>1. Untorn'
  BY DEF StoreInv, Untorn
<1>2. Known'
  <2>1. ASSUME NEW s \in Scopes, NEW e \in Entry, Listed(s, e)' PROVE Listed(s, e)
    BY <2>1, NoGcIs DEF Listed
  <2> QED
    BY <2>1 DEF StoreInv, Known
<1>3. Quiet' => Quiet
  BY DEF Quiet
<1>4. ASSUME NEW r \in acked, Excused(r) PROVE Excused(r)'
  BY <1>2, <1>4, ExcusedStays DEF StoreInv
<1>5. ASSUME Quiet, NEW c \in Clients PROVE Written(c)'
  <2>1. CASE client'[c] = client[c]
    BY <1>5, <2>1 DEF StoreInv, Written, Present
  <2>2. CASE client'[c].pc = "idle"
    BY <2>2 DEF Written
  <2> QED
    BY <2>1, <2>2
<1>6. ASSUME Quiet', NEW j \in Jobs PROVE Rewriting(j)' /\ Sweeping(j)'
  <2>1. CASE gc'[j].pc \in {"off", "plan"}
    BY <2>1 DEF Rewriting, Sweeping
  <2>2. CASE gc'[j] = gc[j] /\ late' = late
    <3>1. Rewriting(j) /\ Sweeping(j)
      BY <1>3, <1>6 DEF StoreInv
    <3>2. Rewriting(j)'
      BY <1>4, <2>2, <3>1 DEF Rewriting
    <3>3. Described' = Described /\ LiveChunks(j)' = LiveChunks(j)
      BY <2>2 DEF Described, LiveChunks
    <3>4. Sweeping(j)'
      BY <2>2, <3>1, <3>3 DEF Sweeping
    <3> QED
      BY <3>2, <3>4
  <2> QED
    BY <1>6, <2>1, <2>2 DEF Quiet
<1>7. Quiet => Stored' /\ Remembered'
  BY <1>4 DEF StoreInv, Stored, Present, Remembered
<1>8. ASSUME Quiet', NEW j \in Jobs, Finished(j)' PROVE Clean'
  <2>1. Finished(j) /\ late' = late
    BY <1>8 DEF Quiet
  <2>2. Clean
    BY <1>3, <1>8, <2>1 DEF StoreInv
  <2> QED
    BY <2>1, <2>2 DEF Clean, Described
<1> QED
  BY <1>1, <1>2, <1>3, <1>5, <1>6, <1>7, <1>8 DEF StoreInv

LEMMA StartServerKeeps ==
  ASSUME CacheInv, CacheInv', StoreInv, NEW j \in Jobs, StartServer(j)
  PROVE  StoreInv'
<1>1. /\ job[j] = "wait" /\ job' = [job EXCEPT ![j] = "up"]
      /\ overlapped' = (overlapped \/ \E i \in Jobs : job[i] = "gc")
      /\ UNCHANGED <<chunks, manifests, index, tail, acked, now, lossy, gc, client, late>>
  BY DEF StartServer, disk, clock
<1>2. job'[j] = "up" /\ \A k \in Jobs \ {j} : job'[k] = job[k]
  BY <1>1 DEF CacheInv, JobType
<1>3. now <= now'
  BY <1>1 DEF CacheInv, FileType
<1>4. ~overlapped' => ~overlapped /\ \A i \in Jobs : job[i] # "gc"
  BY <1>1
<1>5. Alone'
  BY <1>2, <1>4 DEF Alone
<1>6. ASSUME ~overlapped', NEW i \in Jobs, Finished(i)' PROVE Finished(i)
  <2>1. job'[i] = "done" /\ (i < MaxJobs => job'[i + 1] = "wait")
    BY <1>6 DEF Finished
  <2>2. i < MaxJobs => i + 1 \in Jobs
    BY BoundsAssumption DEF Jobs
  <2>3. i # j /\ (i < MaxJobs => i + 1 # j)
    BY <1>2, <2>1
  <2> QED
    BY <1>2, <2>1, <2>2, <2>3 DEF Finished
<1>7. LateType'
  BY <1>1 DEF StoreInv, LateType
<1> QED
  BY <1>1, <1>3, <1>4, <1>5, <1>6, <1>7, StoreRests

LEMMA StopServerKeeps ==
  ASSUME CacheInv, CacheInv', StoreInv, NEW j \in Jobs, StopServer(j)
  PROVE  StoreInv'
<1>1. /\ job[j] = "up" /\ job' = [job EXCEPT ![j] = "gc"] /\ gc' = [gc EXCEPT ![j].pc = "plan"]
      /\ client' = [c \in Clients |-> IF client[c].job = j THEN Idle ELSE client[c]]
      /\ UNCHANGED <<chunks, manifests, index, tail, now, acked, overlapped, lossy>> /\ late' = Nothing
  BY DEF StopServer, clock
<1>2. JobType /\ Ordered /\ FileType
  BY DEF CacheInv
<1>3. job'[j] = "gc" /\ \A k \in Jobs \ {j} : job'[k] = job[k]
  BY <1>1, <1>2 DEF JobType
<1>4. now <= now'
  BY <1>1, <1>2 DEF FileType
<1>5. Alone'
  <2>1. ASSUME ~overlapped, NEW i \in Jobs, NEW k \in Jobs, job'[i] = "gc", i < k PROVE job'[k] = "wait"
    <3>1. CASE i = j
      <4>1. k # j /\ (job[k] # "wait" => job[j] \in Over)
        BY <1>2, <2>1, <3>1, BoundsAssumption DEF Ordered, Jobs
      <4> QED
        BY <1>1, <1>3, <4>1 DEF Over
    <3>2. CASE i # j
      <4>1. job[k] = "wait"
        BY <1>3, <2>1, <3>2 DEF StoreInv, Alone
      <4> QED
        BY <1>1, <1>3, <4>1
    <3> QED
      BY <3>1, <3>2
  <2> QED
    BY <1>1, <2>1 DEF Alone
<1>6. \A c \in Clients : client'[c] = client[c] \/ client'[c].pc = "idle"
  BY <1>1 DEF Idle
<1>7. \A k \in Jobs : /\ gc'[k].pc \in {"off", "plan"} \/ gc'[k] = gc[k]
                      /\ gc'[k].keep = gc[k].keep
  <2>1. gc \in [Jobs -> Pass]
    BY <1>2 DEF JobType
  <2>2. DOMAIN gc[j] = {"pc", "keep", "logs", "live", "list"}
    BY <2>1 DEF Pass
  <2>3. gc'[j].pc = "plan" /\ gc'[j].keep = gc[j].keep
    BY <1>1, <2>1, <2>2
  <2> QED
    BY <1>1, <2>1, <2>3
<1>8. ASSUME ~overlapped', NEW i \in Jobs, Finished(i)' PROVE Finished(i)
  <2>1. job'[i] = "done" /\ (i < MaxJobs => job'[i + 1] = "wait")
    BY <1>8 DEF Finished
  <2>2. i < MaxJobs => i + 1 \in Jobs
    BY BoundsAssumption DEF Jobs
  <2>3. i # j /\ (i < MaxJobs => i + 1 # j)
    BY <1>3, <2>1
  <2> QED
    BY <1>3, <2>1, <2>2, <2>3 DEF Finished
<1>9. ASSUME ~overlapped' PROVE \A i \in Jobs : gc'[i].pc \in {"off", "plan"} /\ ~Finished(i)'
  <2>1. \A i \in Jobs : gc[i].pc = "off" /\ ~Finished(i)
    BY <1>1, <1>9, OneServes DEF StoreInv
  <2>2. \A i \in Jobs : ~Finished(i)'
    BY <1>8, <1>9, <2>1
  <2> QED
    BY <1>7, <2>1, <2>2
<1>10. LateType'
  BY <1>1 DEF LateType, Nothing
<1> QED
  BY <1>1, <1>4, <1>5, <1>6, <1>7, <1>8, <1>9, <1>10, StoreRests

LEMMA TimeKeeps ==
  ASSUME CacheInv, CacheInv', StoreInv, Tick \/ TokenExpires \/ UNCHANGED vars
  PROVE  StoreInv'
<1>1. /\ UNCHANGED <<chunks, manifests, index, tail, acked, job, gc, client, overlapped, lossy, late>>
      /\ now' = now \/ now' = now + 1
  BY DEF Tick, TokenExpires, vars, disk, clock, hist
<1>2. now <= now'
  BY <1>1 DEF CacheInv, FileType
<1>3. Alone'
  BY <1>1 DEF StoreInv, Alone
<1>4. \A j \in Jobs : Finished(j)' => Finished(j)
  BY <1>1 DEF Finished
<1>5. LateType'
  BY <1>1 DEF StoreInv, LateType
<1> QED
  BY <1>1, <1>2, <1>3, <1>4, <1>5, StoreRests

LEMMA PowerLossKeeps ==
  ASSUME CacheInv, CacheInv', StoreInv, PowerLoss
  PROVE  StoreInv'
<1>1. PICK torn \in AtMostOne({c \in Chunks : chunks[c] = "good"}), gone \in AtMostOne(manifests),
           cut \in AtMostOne({s \in Scopes : index[s] # <<>>}) :
       /\ chunks' = [c \in Chunks |-> IF c \in torn THEN "torn" ELSE chunks[c]]
       /\ manifests' = manifests \ gone
       /\ index' = [s \in Scopes |-> IF s \in cut THEN Front(index[s]) ELSE index[s]]
       /\ tail' = [s \in Scopes |-> s \in cut \/ tail[s]]
       /\ lossy' = (lossy \/ torn # {} \/ gone # {} \/ cut # {})
  BY DEF PowerLoss
<1>2. /\ job' = [j \in Jobs |-> IF job[j] \in {"up", "gc"} THEN "dead" ELSE job[j]]
      /\ gc' = [j \in Jobs |-> NoGc] /\ client' = [c \in Clients |-> Idle]
      /\ UNCHANGED <<now, acked, overlapped, late>>
  BY DEF PowerLoss
<1>3. FileType /\ JobType
  BY DEF CacheInv
<1>4. Alone' /\ now <= now' /\ LateType'
  BY <1>2, <1>3 DEF Alone, FileType, StoreInv, LateType
<1>5. CASE lossy'
  <2>1. ~Quiet' /\ Untorn'
    BY <1>5 DEF Quiet, Untorn
  <2>2. ASSUME NEW s \in Scopes, NEW e \in Entry, Listed(s, e)' PROVE Listed(s, e)
    <3>1. index[s] \in Seq(Entry)
      BY <1>3 DEF FileType
    <3>2. s \in cut => index[s] # <<>>
      BY <1>1 DEF AtMostOne
    <3>3. Range(index'[s]) \subseteq Range(index[s])
      BY <1>1, <3>1, <3>2, FrontIs
    <3>4. e \in Range(index'[s])
      BY <1>2, <2>2, NoGcIs DEF Listed
    <3> QED
      BY <3>3, <3>4 DEF Listed
  <2>3. Known'
    BY <1>2, <2>2 DEF StoreInv, Known
  <2> QED
    BY <1>4, <2>1, <2>3 DEF StoreInv
<1>6. CASE ~lossy'
  <2>1. ~lossy /\ torn = {} /\ gone = {} /\ cut = {}
    BY <1>1, <1>6
  <2>2. chunks' = chunks /\ manifests' = manifests /\ index' = index /\ tail' = tail
    BY <1>1, <1>3, <2>1 DEF FileType
  <2>3. ~lossy' => ~lossy
    BY <2>1
  <2>4. ASSUME NEW i \in Jobs, Finished(i)' PROVE Finished(i)
    <3>1. job'[i] = "done" /\ (i < MaxJobs => job'[i + 1] = "wait")
      BY <2>4 DEF Finished
    <3>2. i < MaxJobs => i + 1 \in Jobs
      BY BoundsAssumption DEF Jobs
    <3> QED
      BY <1>2, <3>1, <3>2 DEF Finished
  <2>5. \A c \in Clients : client'[c].pc = "idle"
    BY <1>2 DEF Idle
  <2>6. \A j \in Jobs : gc'[j] = NoGc /\ gc'[j].pc = "off"
    BY <1>2, NoGcIs
  <2> QED
    BY <1>2, <1>4, <2>2, <2>3, <2>4, <2>5, <2>6, StoreRests
<1> QED
  BY <1>5, <1>6

\* ----- The collector and the store.

\* What a step of a collector has to show.
LEMMA PassKeeps ==
  ASSUME CacheInv, CacheInv', StoreInv, NEW j \in Jobs, job[j] = "gc",
         NEW how \in {"gc", "done", "failed"}, job' = [job EXCEPT ![j] = how],
         UNCHANGED <<client, now, acked, overlapped, lossy, late>>,
         \A k \in Jobs \ {j} : gc'[k] = gc[k],
         \A s \in Scopes : \A e \in Entry : Listed(s, e)' => Listed(s, e),
         ~lossy => /\ \A x \in Chunks : chunks'[x] # "torn"
                   /\ \A s \in Scopes : ~tail'[s],
         Quiet => Stored' /\ Remembered' /\ Rewriting(j)' /\ Sweeping(j)' /\ (how = "done" => Clean')
  PROVE  StoreInv'
<1>1. JobType /\ job'[j] = how /\ \A k \in Jobs \ {j} : job'[k] = job[k]
  BY DEF CacheInv, JobType
<1>2. Alone'
  <2>1. ASSUME ~overlapped, NEW i \in Jobs, NEW k \in Jobs, job'[i] = "gc", i < k PROVE job'[k] = "wait"
    <3>1. job[i] = "gc"
      BY <1>1, <2>1
    <3>2. job[k] = "wait"
      BY <2>1, <3>1 DEF StoreInv, Alone
    <3> QED
      BY <1>1, <3>2
  <2> QED
    BY <2>1 DEF Alone
<1>3. Untorn' /\ LateType'
  BY DEF Untorn, StoreInv, LateType
<1>4. Known'
  BY DEF StoreInv, Known
<1>5. Quiet' <=> Quiet
  BY DEF Quiet
<1>6. ASSUME Quiet
      PROVE  /\ \A c \in Clients : Written(c)'
             /\ \A k \in Jobs : Rewriting(k)' /\ Sweeping(k)'
             /\ \A i \in Jobs : Finished(i)' => Clean'
  <2>1. /\ \A k \in Jobs \ {j} : gc[k].pc = "off"
        /\ \A i \in Jobs : ~Finished(i)
        /\ \A c \in Clients : client[c].pc \in {"idle", "stray"}
    BY <1>6, OneCollects DEF StoreInv, Quiet
  <2>2. ASSUME NEW c \in Clients PROVE Written(c)'
    BY <2>1 DEF Written
  <2>3. ASSUME NEW k \in Jobs PROVE Rewriting(k)' /\ Sweeping(k)'
    <3>1. CASE k = j
      BY <1>6, <3>1
    <3>2. CASE k # j
      <4>1. gc'[k].pc = "off"
        BY <2>1, <3>2
      <4> QED
        BY <4>1 DEF Rewriting, Sweeping
    <3> QED
      BY <3>1, <3>2
  <2>4. ASSUME NEW i \in Jobs, Finished(i)' PROVE Clean'
    <3>1. job'[i] = "done" /\ (i < MaxJobs => job'[i + 1] = "wait")
      BY <2>4 DEF Finished
    <3>2. CASE i = j
      BY <1>1, <1>6, <3>1, <3>2
    <3>3. CASE i # j
      <4>1. i < MaxJobs => i + 1 \in Jobs
        BY BoundsAssumption DEF Jobs
      <4>2. Finished(i)
        BY <1>1, <3>1, <3>3, <4>1 DEF Finished
      <4> QED
        BY <2>1, <4>2
    <3> QED
      BY <3>2, <3>3
  <2> QED
    BY <2>2, <2>3, <2>4
<1> QED
  BY <1>2, <1>3, <1>4, <1>5, <1>6 DEF StoreInv

LEMMA RecordsAcked ==
  ASSUME CacheInv, Known
  PROVE  Records \subseteq acked /\ Sized(acked)
<1>1. index \in [Scopes -> Seq(Entry)]
  BY DEF CacheInv, FileType
<1>2. ASSUME NEW r \in Records PROVE r \in acked
  <2>1. r[1] \in Scopes /\ r[2] \in Range(index[r[1]]) /\ r[2] \in Entry /\ r = <<r[1], r[2]>>
    BY <1>1, <1>2, RecordsAre
  <2> QED
    BY <2>1 DEF Known, Listed
<1> QED
  BY <1>2 DEF Known, Sized, Entry

\* What is evicted is excused: it and what is not older fill the capacity.
LEMMA EvictedAreExcused ==
  ASSUME CacheInv, Known, NEW cut \in Evictions(Alive), NEW r \in cut
  PROVE  Excused(r)
<1> DEFINE Q == Alive \ cut
           B == {q \in acked : q[2].at >= r[2].at}
<1>1. cut \subseteq Alive /\ Alive \subseteq acked
  BY RecordsAcked DEF Evictions, Alive
<1>2. \A q \in acked : q[2].at \in Int /\ q[2].size \in Nat
  BY DEF Known, Entry
<1>3. PICK d \in cut : SizeOf(Q) + d[2].size > MaxBytes /\ \A o \in cut : o[2].at <= d[2].at
  BY DEF Evictions
<1>4. \A q \in Q : d[2].at <= q[2].at
  BY DEF Evictions
<1>5. Q \cup {d} \subseteq B
  BY <1>1, <1>2, <1>3, <1>4
<1>6. Q \in SUBSET acked /\ d \in acked /\ d \notin Q
  BY <1>1
<1>7. Sized(acked) /\ Sized(B)
  BY RecordsAcked, FS_Subset DEF Sized
<1> HIDE DEF Q, B
<1>8. SizeOf(Q \cup {d}) = SizeOf(Q) + d[2].size
  BY <1>6, <1>7, SizeAdds
<1>9. SizeOf(Q \cup {d}) <= SizeOf(B) /\ SizeOf(B) \in Nat
  BY <1>5, <1>7, SizeGrows
<1>10. SizeOf(Q) \in Nat /\ d[2].size \in Nat /\ MaxBytes \in Nat
  BY <1>2, <1>6, <1>7, SizeGrows, BoundsAssumption
<1>11. SizeOf(B) > MaxBytes
  BY <1>3, <1>8, <1>9, <1>10
<1> QED
  BY <1>11 DEF B, Excused

LEMMA PlanKeeps ==
  ASSUME CacheInv, CacheInv', StoreInv, NEW j \in Jobs, GcPlan(j)
  PROVE  StoreInv'
<1>1. PICK cut \in Evictions(Alive) :
           /\ gc[j].pc = "plan" /\ gc' \in [Jobs -> Pass] /\ gc'[j].pc = "rewrite"
           /\ \A s \in Scopes :
                Range(gc'[j].keep[s]) = Range(index[s]) \cap LinesOf(s, Alive \ cut)
           /\ gc'[j].logs = {r[1] : r \in Records}
           /\ \A k \in Jobs \ {j} : gc'[k] = gc[k]
  BY PlanIs
<1>2. UNCHANGED <<chunks, manifests, index, tail, job, client, now, acked, overlapped, lossy, late>>
  BY DEF GcPlan, disk, clock, hist
<1>3. JobType /\ FileType /\ index \in [Scopes -> Seq(Entry)] /\ now \in Int
  BY DEF CacheInv, FileType
<1>4. job[j] = "gc" /\ job' = [job EXCEPT ![j] = "gc"]
  BY <1>1, <1>2, <1>3 DEF JobType
<1>5. \A s \in Scopes : \A e \in Entry : Listed(s, e)' => Listed(s, e)
  BY <1>1, <1>2 DEF Listed
<1>6. ~lossy => /\ \A x \in Chunks : chunks'[x] # "torn"
                /\ \A s \in Scopes : ~tail'[s]
  BY <1>2 DEF StoreInv, Untorn
<1>7. ASSUME Quiet PROVE Stored' /\ Remembered' /\ Rewriting(j)' /\ Sweeping(j)'
  <2>1. Stored /\ Remembered /\ Known
    BY <1>7 DEF StoreInv
  <2>2. Stored' /\ Remembered'
    BY <1>2, <2>1 DEF Stored, Present, Remembered, Excused
  <2>3. Sweeping(j)'
    BY <1>1 DEF Sweeping
  <2>4. ASSUME NEW s \in Scopes, s \notin gc'[j].logs
        PROVE  Range(index[s]) = {}
    <3>1. \A e \in Range(index[s]) : <<s, e>> \in Records
      BY <1>3, RecordsAre DEF Range
    <3>2. ASSUME NEW e \in Range(index[s]) PROVE FALSE
      <4>1. <<s, e>> \in Records /\ <<s, e>>[1] = s
        BY <3>1
      <4>2. s \in {r[1] : r \in Records}
        BY <4>1
      <4> QED
        BY <1>1, <2>4, <4>2
    <3> QED
      BY <3>2
  <2>5. ASSUME NEW r \in acked PROVE r[2] \in Range(gc'[j].keep[r[1]]) \/ Excused(r)
    <3>1. r[1] \in Scopes /\ r[2] \in Entry /\ r = <<r[1], r[2]>> /\ r[2].at \in Int
      BY <2>1 DEF Known, Entry
    <3>2. SUFFICES ASSUME r[2] \in Range(index[r[1]]), ~(r[2].at < now - Ttl)
                   PROVE  r[2] \in Range(gc'[j].keep[r[1]]) \/ Excused(r)
      BY <2>1 DEF Remembered, Excused
    <3>3. r \in Records
      BY <1>3, <3>1, <3>2, RecordsAre
    <3>4. r \in Alive
      BY <1>3, <3>1, <3>2, <3>3, BoundsAssumption DEF Alive
    <3>5. CASE r \in cut
      BY <2>1, <3>5, EvictedAreExcused
    <3>6. CASE r \notin cut
      <4>1. r[2] \in LinesOf(r[1], Alive \ cut)
        BY <3>4, <3>6 DEF LinesOf
      <4> QED
        BY <1>1, <3>1, <3>2, <4>1
    <3> QED
      BY <3>5, <3>6
  <2>6. \A r \in acked : Excused(r)' <=> Excused(r)
    BY <1>2 DEF Excused
  <2>7. ASSUME NEW s \in Scopes
        PROVE  /\ Range(gc'[j].keep[s]) \subseteq Range(index'[s])
               /\ s \notin gc'[j].logs => Range(index'[s]) = Range(gc'[j].keep[s])
    BY <1>1, <1>2, <2>4
  <2>8. Rewriting(j)'
    BY <1>2, <2>5, <2>6, <2>7 DEF Rewriting
  <2> QED
    BY <2>2, <2>3, <2>8
<1> QED
  BY <1>1, <1>2, <1>4, <1>5, <1>6, <1>7, PassKeeps

\* The logs are replaced one by one; then what they name is alive.
LEMMA RewriteKeeps ==
  ASSUME CacheInv, CacheInv', StoreInv, NEW j \in Jobs, GcRewrite(j)
  PROVE  StoreInv'
<1>1. gc[j].pc = "rewrite"
      /\ UNCHANGED <<chunks, manifests, job, client, now, acked, overlapped, lossy, late>>
  BY DEF GcRewrite, clock, hist
<1>2. JobType /\ index \in [Scopes -> Seq(Entry)] /\ tail \in [Scopes -> BOOLEAN]
      /\ gc \in [Jobs -> Pass] /\ gc[j] \in Pass
  BY DEF CacheInv, FileType, JobType
<1>3. job[j] = "gc" /\ job' = [job EXCEPT ![j] = "gc"]
  BY <1>1, <1>2 DEF JobType
<1>4. \A r : Excused(r)' <=> Excused(r)
  BY <1>1 DEF Excused
<1>5. Quiet => Rewriting(j) /\ Stored /\ Remembered /\ Known
  BY DEF StoreInv
<1>6. CASE \E s \in gc[j].logs :
               /\ index' = [index EXCEPT ![s] = gc[j].keep[s]]
               /\ tail' = [tail EXCEPT ![s] = FALSE]
               /\ gc' = [gc EXCEPT ![j].logs = @ \ {s}]
  <2>1. PICK s \in gc[j].logs :
               /\ index' = [index EXCEPT ![s] = gc[j].keep[s]]
               /\ tail' = [tail EXCEPT ![s] = FALSE]
               /\ gc' = [gc EXCEPT ![j].logs = @ \ {s}]
    BY <1>6
  <2>2. s \in Scopes
    BY <1>2 DEF Pass
  <2>3. /\ gc'[j].pc = "rewrite" /\ gc'[j].keep = gc[j].keep /\ gc'[j].logs = gc[j].logs \ {s}
        /\ \A k \in Jobs \ {j} : gc'[k] = gc[k]
    BY <1>1, <1>2, <2>1 DEF Pass
  <2>4. \A u \in Scopes : index'[u] = IF u = s THEN gc[j].keep[s] ELSE index[u]
    BY <1>2, <2>1, <2>2
  <2>5. \A u \in Scopes : \A e \in Entry : Listed(u, e)' => Listed(u, e)
    <3>1. \A k \in Jobs : gc'[k].keep = gc[k].keep
      BY <2>3
    <3> QED
      BY <2>4, <3>1 DEF Listed
  <2>6. ~lossy => /\ \A x \in Chunks : chunks'[x] # "torn"
                  /\ \A u \in Scopes : ~tail'[u]
    BY <1>1, <1>2, <2>1 DEF StoreInv, Untorn
  <2>7. ASSUME Quiet PROVE Stored' /\ Remembered' /\ Rewriting(j)' /\ Sweeping(j)'
    <3>1. /\ \A u \in Scopes : /\ Range(gc[j].keep[u]) \subseteq Range(index[u])
                               /\ u \notin gc[j].logs => Range(index[u]) = Range(gc[j].keep[u])
          /\ \A r \in acked : r[2] \in Range(gc[j].keep[r[1]]) \/ Excused(r)
      BY <1>1, <1>5, <2>7 DEF Rewriting
    <3>2. \A u \in Scopes : /\ Range(gc[j].keep[u]) \subseteq Range(index'[u])
                            /\ Range(index'[u]) \subseteq Range(index[u])
                            /\ u \notin gc'[j].logs => Range(index'[u]) = Range(gc[j].keep[u])
      BY <2>3, <2>4, <3>1
    <3>3. Stored'
      <4>1. ASSUME NEW u \in Scopes, NEW e \in Entry, e \in Range(index'[u])
            PROVE  e.manifest \in manifests /\ Present(e.manifest)
        BY <1>5, <2>7, <3>2, <4>1 DEF Stored
      <4> QED
        BY <1>1, <4>1 DEF Stored, Present
    <3>4. Remembered'
      <4>1. ASSUME NEW r \in acked PROVE r[2] \in Range(index'[r[1]]) \/ Excused(r)
        <5>1. r[1] \in Scopes
          BY <1>5, <2>7 DEF Known
        <5> QED
          BY <3>1, <3>2, <5>1
      <4> QED
        BY <1>1, <1>4, <4>1 DEF Remembered
    <3>5. Rewriting(j)'
      BY <1>1, <1>4, <2>3, <3>1, <3>2 DEF Rewriting
    <3>6. Sweeping(j)'
      BY <2>3 DEF Sweeping
    <3> QED
      BY <3>3, <3>4, <3>5, <3>6
  <2> QED
    BY <1>1, <1>3, <2>3, <2>5, <2>6, <2>7, PassKeeps
<1>7. CASE /\ gc[j].logs = {}
           /\ gc' = [gc EXCEPT ![j].pc = "live",
                               ![j].live = {e.manifest : e \in UNION {Range(gc[j].keep[s]) : s \in Scopes}}]
           /\ UNCHANGED <<index, tail>>
  <2> DEFINE live == {e.manifest : e \in UNION {Range(gc[j].keep[s]) : s \in Scopes}}
  <2>1. gc' = [gc EXCEPT ![j].pc = "live", ![j].live = live] /\ UNCHANGED <<index, tail>>
    BY <1>7
  <2>2. Quiet => live = Described
    <3>1. ASSUME Quiet PROVE \A s \in Scopes : Range(index[s]) = Range(gc[j].keep[s])
      BY <1>1, <1>5, <1>7, <3>1 DEF Rewriting
    <3>2. ASSUME Quiet
          PROVE  {Range(gc[j].keep[s]) : s \in Scopes} = {Range(index[s]) : s \in Scopes}
      BY <3>1, <3>2
    <3> QED
      BY <3>2 DEF Described
  <2> HIDE DEF live
  <2>3. /\ gc'[j].pc = "live" /\ gc'[j].keep = gc[j].keep /\ gc'[j].live = live
        /\ \A k \in Jobs \ {j} : gc'[k] = gc[k]
    BY <1>2, <2>1 DEF Pass
  <2>4. \A u \in Scopes : \A e \in Entry : Listed(u, e)' => Listed(u, e)
    <3>1. \A k \in Jobs : gc'[k].keep = gc[k].keep
      BY <2>3
    <3> QED
      BY <2>1, <3>1 DEF Listed
  <2>5. ~lossy => /\ \A x \in Chunks : chunks'[x] # "torn"
                  /\ \A u \in Scopes : ~tail'[u]
    BY <1>1, <2>1 DEF StoreInv, Untorn
  <2>6. ASSUME Quiet PROVE Stored' /\ Remembered' /\ Rewriting(j)' /\ Sweeping(j)'
    <3>1. Stored' /\ Remembered'
      BY <1>1, <1>4, <1>5, <2>1, <2>6 DEF Stored, Present, Remembered
    <3>2. Described' = Described
      BY <2>1 DEF Described
    <3>3. Rewriting(j)' /\ Sweeping(j)'
      BY <2>2, <2>3, <2>6, <3>2 DEF Rewriting, Sweeping
    <3> QED
      BY <3>1, <3>3
  <2> QED
    BY <1>1, <1>3, <2>3, <2>4, <2>5, <2>6, PassKeeps
<1> QED
  BY <1>6, <1>7 DEF GcRewrite

\* A step of a collector that sweeps: no log is written.
LEMMA SweepKeeps ==
  ASSUME CacheInv, CacheInv', StoreInv, NEW j \in Jobs, job[j] = "gc",
         NEW how \in {"gc", "done", "failed"}, job' = [job EXCEPT ![j] = how],
         UNCHANGED <<index, tail, client, now, acked, overlapped, lossy, late>>,
         \A k \in Jobs \ {j} : gc'[k] = gc[k],
         gc'[j].keep = gc[j].keep \/ gc'[j] = NoGc,
         gc'[j].pc \in {"off", "manifests", "chunks"},
         \A x \in Chunks : chunks'[x] = chunks[x] \/ chunks'[x] = "absent",
         Quiet => Stored' /\ Sweeping(j)' /\ (how = "done" => Clean')
  PROVE  StoreInv'
<1>1. ASSUME NEW u \in Scopes, NEW e \in Entry, Listed(u, e)' PROVE Listed(u, e)
  <2>1. CASE gc'[j] = NoGc
    BY <1>1, <2>1, NoGcIs DEF Listed
  <2>2. CASE gc'[j].keep = gc[j].keep
    <3>1. \A k \in Jobs : gc'[k].keep = gc[k].keep
      BY <2>2
    <3> QED
      BY <1>1, <3>1 DEF Listed
  <2> QED
    BY <2>1, <2>2
<1>2. ~lossy => /\ \A x \in Chunks : chunks'[x] # "torn"
                /\ \A u \in Scopes : ~tail'[u]
  BY DEF StoreInv, Untorn
<1>3. Quiet => Remembered' /\ Rewriting(j)'
  <2>1. \A r : Excused(r)' <=> Excused(r)
    BY DEF Excused
  <2> QED
    BY <2>1 DEF StoreInv, Remembered, Rewriting
<1> QED
  BY <1>1, <1>2, <1>3, PassKeeps

\* What is described is stored, and its chunks are the live ones.
LEMMA DescribedIs ==
  ASSUME CacheInv, StoreInv, Quiet
  PROVE  /\ Described \subseteq manifests
         /\ \A m \in Described : Present(m)
         /\ \A s \in Scopes : \A e \in Entry : e \in Range(index[s]) => e.manifest \in Described
<1>1. \A s \in Scopes : Range(index[s]) \subseteq Entry
  BY DEF CacheInv, FileType, Range
<1>2. Stored
  BY DEF StoreInv
<1>3. ASSUME NEW m \in Described PROVE m \in manifests /\ Present(m)
  <2>1. PICK s \in Scopes : \E e \in Range(index[s]) : m = e.manifest
    BY DEF Described
  <2>2. PICK e \in Range(index[s]) : m = e.manifest
    BY <2>1
  <2> QED
    BY <1>1, <1>2, <2>2 DEF Stored
<1>4. \A s \in Scopes : \A e \in Entry : e \in Range(index[s]) => e.manifest \in Described
  BY DEF Described
<1> QED
  BY <1>3, <1>4

\* The manifests nobody describes are listed.
LEMMA LiveKeeps ==
  ASSUME CacheInv, CacheInv', StoreInv, NEW j \in Jobs, GcLive(j)
  PROVE  StoreInv'
<1>1. gc[j].pc = "live"
      /\ UNCHANGED <<chunks, manifests, index, tail, client, now, acked, overlapped, lossy, late>>
  BY DEF GcLive, disk, clock, hist
<1>2. JobType /\ gc \in [Jobs -> Pass] /\ gc[j] \in Pass
  BY DEF CacheInv, JobType
<1>3. job[j] = "gc" /\ job = [job EXCEPT ![j] = "gc"]
  BY <1>1, <1>2 DEF JobType
<1>4. Described' = Described /\ (Quiet => Stored')
  BY <1>1 DEF Described, StoreInv, Stored, Present
<1>5. Quiet => gc[j].live = Described
  BY <1>1 DEF StoreInv, Sweeping
<1>6. CASE gc[j].live \subseteq manifests
  <2>1. gc' = [gc EXCEPT ![j].pc = "manifests", ![j].list = manifests \ gc[j].live] /\ job' = job
    BY <1>6 DEF GcLive
  <2>2. /\ gc'[j].pc = "manifests" /\ gc'[j].keep = gc[j].keep /\ gc'[j].live = gc[j].live
        /\ gc'[j].list = manifests \ gc[j].live
        /\ \A k \in Jobs \ {j} : gc'[k] = gc[k]
    BY <1>2, <2>1 DEF Pass
  <2>3. Quiet => Sweeping(j)'
    BY <1>1, <1>4, <1>5, <2>2 DEF Sweeping
  <2> QED
    BY <1>1, <1>3, <1>4, <2>1, <2>2, <2>3, SweepKeeps
<1>7. CASE ~(gc[j].live \subseteq manifests)
  <2>1. job' = [job EXCEPT ![j] = "failed"] /\ gc' = [gc EXCEPT ![j] = NoGc]
    BY <1>7 DEF GcLive, GcEnds
  <2>2. gc'[j] = NoGc /\ gc'[j].pc = "off" /\ \A k \in Jobs \ {j} : gc'[k] = gc[k]
    BY <1>2, <2>1, NoGcIs
  <2>3. Sweeping(j)'
    BY <2>2 DEF Sweeping
  <2> QED
    BY <1>1, <1>3, <1>4, <2>1, <2>2, <2>3, SweepKeeps
<1> QED
  BY <1>6, <1>7

\* Listed manifests go; then the chunks no manifest names are listed.
LEMMA ManifestsKeep ==
  ASSUME CacheInv, CacheInv', StoreInv, NEW j \in Jobs, GcManifests(j)
  PROVE  StoreInv'
<1>1. gc[j].pc = "manifests"
      /\ UNCHANGED <<chunks, index, tail, job, client, now, acked, overlapped, lossy, late>>
  BY DEF GcManifests, clock, hist
<1>2. JobType /\ gc \in [Jobs -> Pass] /\ gc[j] \in Pass
  BY DEF CacheInv, JobType
<1>3. job[j] = "gc" /\ job' = [job EXCEPT ![j] = "gc"]
  BY <1>1, <1>2 DEF JobType
<1>4. Described' = Described
  BY <1>1 DEF Described
<1>5. ASSUME Quiet
      PROVE  /\ gc[j].live = Described /\ manifests \subseteq gc[j].live \cup gc[j].list \cup late.manifests
             /\ gc[j].live \cap gc[j].list = {} /\ Described \subseteq manifests /\ Stored
  BY <1>1, <1>5, DescribedIs DEF StoreInv, Sweeping
<1>6. CASE \E m \in gc[j].list :
               manifests' = manifests \ {m} /\ gc' = [gc EXCEPT ![j].list = @ \ {m}]
  <2>1. PICK m \in gc[j].list :
               manifests' = manifests \ {m} /\ gc' = [gc EXCEPT ![j].list = @ \ {m}]
    BY <1>6
  <2>2. /\ gc'[j].pc = "manifests" /\ gc'[j].keep = gc[j].keep /\ gc'[j].live = gc[j].live
        /\ gc'[j].list = gc[j].list \ {m}
        /\ \A k \in Jobs \ {j} : gc'[k] = gc[k]
    BY <1>1, <1>2, <2>1 DEF Pass
  <2>3. ASSUME Quiet PROVE Sweeping(j)'
    <3>1. gc'[j].live = Described' /\ manifests' \subseteq gc'[j].live \cup gc'[j].list \cup late'.manifests
      BY <1>1, <1>4, <1>5, <2>1, <2>2, <2>3
    <3>2. gc'[j].live \cap gc'[j].list = {}
      BY <1>5, <2>2, <2>3
    <3> QED
      BY <2>2, <3>1, <3>2 DEF Sweeping
  <2>4. ASSUME Quiet PROVE Stored'
    <3>1. ASSUME NEW s \in Scopes, NEW e \in Entry, e \in Range(index[s])
          PROVE  e.manifest \in manifests' /\ Present(e.manifest)
      <4>1. e.manifest \in Described /\ e.manifest \in manifests /\ Present(e.manifest)
        BY <1>5, <2>4, <3>1, DescribedIs
      <4>2. e.manifest # m
        BY <1>5, <2>1, <2>4, <4>1
      <4> QED
        BY <2>1, <4>1, <4>2
    <3> QED
      BY <1>1, <3>1 DEF Stored, Present
  <2> QED
    BY <1>1, <1>3, <2>2, <2>3, <2>4, SweepKeeps
<1>7. CASE /\ gc[j].list = {}
           /\ gc' = [gc EXCEPT ![j].pc = "chunks",
                               ![j].list = {<<c>> : c \in {d \in Chunks : chunks[d] # "absent"} \ LiveChunks(j)}]
           /\ UNCHANGED manifests
  <2> DEFINE list == {<<c>> : c \in {d \in Chunks : chunks[d] # "absent"} \ LiveChunks(j)}
  <2>1. gc' = [gc EXCEPT ![j].pc = "chunks", ![j].list = list] /\ manifests' = manifests
    BY <1>7
  <2>2. /\ \A c \in Chunks : chunks[c] # "absent" => c \in LiveChunks(j) \/ <<c>> \in list
        /\ \A l \in list : \E c \in Chunks \ LiveChunks(j) : l = <<c>>
    OBVIOUS
  <2> HIDE DEF list
  <2>3. /\ gc'[j].pc = "chunks" /\ gc'[j].keep = gc[j].keep /\ gc'[j].live = gc[j].live
        /\ gc'[j].list = list
        /\ \A k \in Jobs \ {j} : gc'[k] = gc[k]
    BY <1>2, <2>1 DEF Pass
  <2>4. LiveChunks(j)' = LiveChunks(j)
    BY <2>3 DEF LiveChunks
  <2>5. ASSUME Quiet PROVE Sweeping(j)'
    <3>1. manifests' \subseteq gc'[j].live \cup late'.manifests /\ gc'[j].live = Described'
      BY <1>1, <1>4, <1>5, <1>7, <2>1, <2>3, <2>5
    <3> QED
      BY <1>1, <2>2, <2>3, <2>4, <3>1 DEF Sweeping
  <2>6. Quiet => Stored'
    BY <1>1, <1>5, <2>1 DEF Stored, Present
  <2> QED
    BY <1>1, <1>3, <2>3, <2>5, <2>6, SweepKeeps
<1> QED
  BY <1>6, <1>7 DEF GcManifests

\* Listed chunks go: nobody reads beside a collector that runs alone.
LEMMA ChunksKeep ==
  ASSUME CacheInv, CacheInv', StoreInv, NEW j \in Jobs, GcChunks(j)
  PROVE  StoreInv'
<1>1. gc[j].pc = "chunks"
      /\ UNCHANGED <<manifests, index, tail, client, now, acked, overlapped, lossy, late>>
  BY DEF GcChunks, clock, hist
<1>2. /\ JobType /\ gc \in [Jobs -> Pass] /\ gc[j] \in Pass
      /\ chunks \in [Chunks -> {"absent", "good", "torn"}]
  BY DEF CacheInv, JobType, FileType
<1>3. job[j] = "gc" /\ job = [job EXCEPT ![j] = "gc"]
  BY <1>1, <1>2 DEF JobType
<1>4. Described' = Described
  BY <1>1 DEF Described
<1>5. ASSUME Quiet
      PROVE  /\ gc[j].live = Described /\ manifests \subseteq gc[j].live \cup late.manifests /\ Stored
             /\ \A c \in Chunks : chunks[c] # "absent" =>
                  c \in LiveChunks(j) \cup late.chunks \/ <<c>> \in gc[j].list
             /\ \A l \in gc[j].list : \E c \in Chunks \ LiveChunks(j) : l = <<c>>
  BY <1>1, <1>5 DEF StoreInv, Sweeping
<1>6. CASE \E l \in gc[j].list :
               /\ chunks' = [chunks EXCEPT ![l[1]] = IF l[1] \in Leased(j) THEN @ ELSE "absent"]
               /\ gc' = [gc EXCEPT ![j].list = @ \ {l}]
               /\ UNCHANGED job
  <2>1. PICK l \in gc[j].list :
               /\ chunks' = [chunks EXCEPT ![l[1]] = IF l[1] \in Leased(j) THEN @ ELSE "absent"]
               /\ gc' = [gc EXCEPT ![j].list = @ \ {l}]
               /\ UNCHANGED job
    BY <1>6
  <2>2. /\ gc'[j].pc = "chunks" /\ gc'[j].keep = gc[j].keep /\ gc'[j].live = gc[j].live
        /\ gc'[j].list = gc[j].list \ {l}
        /\ \A k \in Jobs \ {j} : gc'[k] = gc[k]
    BY <1>1, <1>2, <2>1 DEF Pass
  <2>3. PICK x : x = l[1]
    OBVIOUS
  <2>4. chunks' = chunks \/ chunks' = [chunks EXCEPT ![x] = "absent"]
    <3>1. CASE x \in Leased(j)
      BY <1>2, <2>1, <2>3, <3>1
    <3>2. CASE x \notin Leased(j)
      BY <2>1, <2>3, <3>2
    <3> QED
      BY <3>1, <3>2
  <2>5. \A c \in Chunks : chunks'[c] = chunks[c] \/ chunks'[c] = "absent"
    BY <1>2, <2>4
  <2>6. LiveChunks(j)' = LiveChunks(j)
    BY <2>2 DEF LiveChunks
  <2>7. ASSUME Quiet
        PROVE  x \in Chunks /\ x \notin LiveChunks(j) /\ l = <<x>> /\ chunks' = [chunks EXCEPT ![x] = "absent"]
    <3>1. PICK c \in Chunks \ LiveChunks(j) : l = <<c>>
      BY <1>5, <2>1, <2>7
    <3>2. x = c
      BY <2>3, <3>1
    <3>3. \A d \in Clients : client[d].pc \in {"idle", "stray"}
      BY <1>3, <2>7, OneCollects DEF StoreInv, Quiet
    <3>4. Leased(j) = {}
      BY <3>3 DEF Leased
    <3>5. chunks' = [chunks EXCEPT ![x] = "absent"]
      BY <2>1, <2>3, <3>4
    <3> QED
      BY <3>1, <3>2, <3>5
  <2>8. ASSUME Quiet PROVE Stored'
    <3>1. ASSUME NEW s \in Scopes, NEW e \in Entry, e \in Range(index[s])
          PROVE  e.manifest \in manifests /\ \A c \in Range(e.manifest) : chunks'[c] = "good"
      <4>1. e.manifest \in manifests /\ Present(e.manifest) /\ e.manifest \in gc[j].live
        BY <1>5, <2>8, <3>1, DescribedIs
      <4>2. Range(e.manifest) \subseteq LiveChunks(j)
        BY <4>1 DEF LiveChunks
      <4>3. ASSUME NEW c \in Range(e.manifest) PROVE chunks'[c] = "good"
        <5>1. c # x /\ chunks[c] = "good" /\ c \in Chunks
          BY <2>7, <2>8, <3>1, <4>1, <4>2 DEF Present, Entry, Range
        <5> QED
          BY <1>2, <2>7, <2>8, <5>1
      <4> QED
        BY <4>1, <4>3
    <3> QED
      BY <1>1, <3>1 DEF Stored, Present
  <2>9. ASSUME Quiet PROVE Sweeping(j)'
    <3>1. ASSUME NEW c \in Chunks, chunks'[c] # "absent"
          PROVE  c \in LiveChunks(j) \cup late.chunks \/ <<c>> \in gc'[j].list
      <4>1. c # x /\ chunks[c] # "absent"
        BY <1>2, <2>7, <2>9, <3>1
      <4>2. <<c>> # l
        BY <2>7, <2>9, <4>1
      <4> QED
        BY <1>5, <2>2, <2>9, <4>1, <4>2
    <3>2. \A k \in gc'[j].list : \E c \in Chunks \ LiveChunks(j) : k = <<c>>
      BY <1>5, <2>2, <2>9
    <3>3. gc'[j].live = Described' /\ manifests' \subseteq gc'[j].live \cup late'.manifests
      BY <1>1, <1>4, <1>5, <2>2, <2>9
    <3> QED
      BY <1>1, <2>2, <2>6, <3>1, <3>2, <3>3 DEF Sweeping
  <2> QED
    BY <1>1, <1>3, <2>1, <2>2, <2>5, <2>8, <2>9, SweepKeeps
<1>7. CASE gc[j].list = {} /\ GcEnds(j, "done") /\ UNCHANGED chunks
  <2>1. job' = [job EXCEPT ![j] = "done"] /\ gc' = [gc EXCEPT ![j] = NoGc]
    BY <1>7 DEF GcEnds
  <2>2. gc'[j] = NoGc /\ gc'[j].pc = "off" /\ \A k \in Jobs \ {j} : gc'[k] = gc[k]
    BY <1>2, <2>1, NoGcIs
  <2>3. Sweeping(j)'
    BY <2>2 DEF Sweeping
  <2>4. Quiet => Stored'
    BY <1>1, <1>5, <1>7 DEF Stored, Present
  <2>5. ASSUME Quiet PROVE Clean'
    <3>1. /\ Described \subseteq manifests /\ manifests \subseteq Described \cup late.manifests
          /\ LiveChunks(j) = UNION {Range(m) : m \in Described}
      BY <1>5, <2>5, DescribedIs DEF LiveChunks
    <3>2. ASSUME NEW c \in Chunks, chunks[c] # "absent"
          PROVE  c \in late.chunks \/ \E m \in Described : c \in Range(m)
      <4>1. c \in LiveChunks(j) \cup late.chunks
        BY <1>5, <1>7, <2>5, <3>2
      <4> QED
        BY <3>1, <4>1
    <3>3. ASSUME NEW m \in Described, NEW c \in Range(m) PROVE c \in Chunks /\ chunks[c] # "absent"
      <4>1. Present(m) /\ m \in manifests
        BY <2>5, DescribedIs
      <4>2. c \in Chunks
        BY <4>1 DEF CacheInv, FileType, Content, Range
      <4> QED
        BY <4>1, <4>2 DEF Present
    <3> QED
      BY <1>1, <1>4, <1>7, <3>1, <3>2, <3>3 DEF Clean
  <2> QED
    BY <1>1, <1>3, <1>7, <2>1, <2>2, <2>3, <2>4, <2>5, SweepKeeps
<1> QED
  BY <1>6, <1>7 DEF GcChunks

\* ----- The invariant of index and store.

LEMMA StoreInit ==
  ASSUME Init
  PROVE  StoreInv
<1>1. /\ chunks = [c \in Chunks |-> "absent"] /\ index = [s \in Scopes |-> <<>>]
      /\ tail = [s \in Scopes |-> FALSE] /\ job = [j \in Jobs |-> "wait"]
      /\ gc = [j \in Jobs |-> NoGc] /\ client = [c \in Clients |-> Idle] /\ acked = {}
      /\ late = Nothing
  BY DEF Init
<1>2. Alone /\ Untorn /\ LateType
  BY <1>1 DEF Alone, Untorn, LateType, Nothing
<1>3. \A s \in Scopes : Range(index[s]) = {}
  BY <1>1 DEF Range
<1>4. \A j \in Jobs : gc[j] = NoGc /\ gc[j].pc = "off"
  BY <1>1, NoGcIs
<1>5. Known
  BY <1>1, <1>3, <1>4, NoGcIs, FS_EmptySet DEF Known, Listed
<1>6. \A c \in Clients : Written(c)
  <2>1. \A c \in Clients : client[c].pc = "idle"
    BY <1>1 DEF Idle
  <2> QED
    BY <2>1 DEF Written
<1>7. \A j \in Jobs : Rewriting(j) /\ Sweeping(j)
  BY <1>4 DEF Rewriting, Sweeping
<1>8. Stored /\ Remembered
  BY <1>1, <1>3 DEF Stored, Remembered
<1>9. \A j \in Jobs : ~Finished(j)
  BY <1>1 DEF Finished
<1> QED
  BY <1>2, <1>5, <1>6, <1>7, <1>8, <1>9 DEF StoreInv

LEMMA StoreNext ==
  ASSUME CacheInv, CacheInv', StoreInv, [Next]_vars
  PROVE  StoreInv'
<1>1. ASSUME NEW c \in Clients,
             \/ CreateCacheEntry(c) \/ Reserve(c) \/ LookupV1(c) \/ LookupUrl(c) \/ Handler(c)
             \/ Disconnect(c) \/ Stray(c)
      PROVE  StoreInv'
  BY <1>1, BeginningsKeep, UploadsKeep, TakesKeep, IngestKeeps, CheckSizeKeeps,
     PutManifestKeeps, InsertKeeps, RestoresKeep, DisconnectKeeps, StrayKeeps DEF Handler
<1>2. ASSUME NEW j \in Jobs, StartServer(j) \/ StopServer(j) \/ Collector(j)
      PROVE  StoreInv'
  BY <1>2, StartServerKeeps, StopServerKeeps, PlanKeeps, RewriteKeeps, LiveKeeps,
     ManifestsKeep, ChunksKeep DEF Collector
<1>3. CASE Tick \/ TokenExpires \/ PowerLoss \/ UNCHANGED vars
  BY <1>3, TimeKeeps, PowerLossKeeps
<1> QED
  BY <1>1, <1>2, <1>3 DEF Next

LEMMA StoreInvariant == Spec => []StoreInv
<1>1. Init => StoreInv
  BY StoreInit
<1>2. CacheInv /\ CacheInv' /\ StoreInv /\ [Next]_vars => StoreInv'
  BY StoreNext
<1> QED
  BY <1>1, <1>2, CacheInvariant, PTL DEF Spec

LEMMA DescribedIsRecords ==
  ASSUME CacheInv
  PROVE  Described = {r[2].manifest : r \in Records}
<1>1. index \in [Scopes -> Seq(Entry)]
  BY DEF CacheInv, FileType
<1>2. ASSUME NEW m \in Described PROVE m \in {r[2].manifest : r \in Records}
  <2>1. PICK s \in Scopes : \E e \in Range(index[s]) : m = e.manifest
    BY DEF Described
  <2>2. PICK e \in Range(index[s]) : m = e.manifest
    BY <2>1
  <2>3. PICK r : r = <<s, e>>
    OBVIOUS
  <2>4. r[1] = s /\ r[2] = e /\ e \in Entry
    BY <1>1, <2>3 DEF Range
  <2>5. r \in Records
    BY <1>1, <2>3, <2>4, RecordsAre
  <2> QED
    BY <2>2, <2>4, <2>5
<1>3. ASSUME NEW r \in Records PROVE r[2].manifest \in Described
  BY <1>1, RecordsAre DEF Described
<1> QED
  BY <1>2, <1>3

\* As long as no collector ran beside a job and no power was lost: what the
\* index names can be restored, a save that was answered ok stays in the index
\* until it is too old or newer saves fill the capacity, and a pass that ran to
\* its end leaves no garbage but what uploads whose client had gone wrote after
\* their server stopped (finalize.rs writes before it inserts, gc.rs).
THEOREM IndexMatchesStore == Spec => []StoreIsSound
<1>1. CacheInv /\ StoreInv => StoreIsSound
  <2>1. SUFFICES ASSUME CacheInv, StoreInv PROVE StoreIsSound
    OBVIOUS
  <2>2. index \in [Scopes -> Seq(Entry)]
    BY <2>1 DEF CacheInv, FileType
  <2>3. IndexedIsStored
    <3>1. ASSUME ~overlapped, ~lossy, NEW r \in Records
          PROVE  r[2].manifest \in manifests /\ \A c \in Range(r[2].manifest) : chunks[c] = "good"
      BY <2>1, <2>2, <3>1, RecordsAre DEF StoreInv, Quiet, Stored, Present
    <3> QED
      BY <3>1 DEF IndexedIsStored
  <2>4. SavedIsFound
    <3>1. ASSUME ~overlapped, ~lossy, NEW r \in acked
          PROVE  r \in Records \/ Excused(r)
      <4>1. r[1] \in Scopes /\ r[2] \in Entry /\ r = <<r[1], r[2]>>
        BY <2>1 DEF StoreInv, Known
      <4>2. r[2] \in Range(index[r[1]]) \/ Excused(r)
        BY <2>1, <3>1 DEF StoreInv, Quiet, Remembered
      <4> QED
        BY <2>2, <4>1, <4>2, RecordsAre
    <3> QED
      BY <3>1 DEF SavedIsFound, Excused
  <2>5. Collected
    <3>1. ASSUME ~overlapped, ~lossy, NEW j \in Jobs, job[j] = "done", j < MaxJobs => job[j + 1] = "wait"
          PROVE  Clean
      BY <2>1, <3>1 DEF StoreInv, Quiet, Finished
    <3>2. Described = {r[2].manifest : r \in Records}
      BY <2>1, DescribedIsRecords
    <3>3. ASSUME Clean
          PROVE  LET live == {r[2].manifest : r \in Records}
                     used == UNION {Range(m) : m \in live}
                     stored == {c \in Chunks : chunks[c] # "absent"}
                 IN  /\ live \subseteq manifests /\ manifests \subseteq live \cup late.manifests
                     /\ used \subseteq stored /\ stored \subseteq used \cup late.chunks
      BY <3>2, <3>3 DEF Clean
    <3> QED
      BY <3>1, <3>3 DEF Collected
  <2> QED
    BY <2>3, <2>4, <2>5 DEF StoreIsSound
<1> QED
  BY <1>1, CacheInvariant, StoreInvariant, PTL

=============================================================================
