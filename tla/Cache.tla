------------------------------- MODULE Cache -------------------------------
(***************************************************************************)
(* The local cache of the runner (crates/cache): a content-addressed store *)
(* of chunks and manifests, an append-only index of cache entries, the two *)
(* HTTP front ends a job's steps save and restore through (v1 REST and the *)
(* v2 Twirp service with its blob endpoint), and the collector that runs   *)
(* when a job is over (execution/job_teardown.rs).                         *)
(*                                                                         *)
(* One server lives as long as one job; the files outlive it.  The event   *)
(* channel of a job is closed before its collector runs, and closing it is *)
(* what lets the next job start, so a collector may run beside the server  *)
(* of the next job, each with a lease set and a token registry of its own. *)
(*                                                                         *)
(* A content is a sequence of chunks, and a manifest is identified by its  *)
(* content as the code identifies it by the hash of it.  A (scope,         *)
(* version) log is represented by its scope: the version only chooses the  *)
(* file.                                                                   *)
(***************************************************************************)
EXTENDS Integers, Sequences, FiniteSets, SequencesExt

CONSTANTS
  Chunks,        \* chunk identities
  ChunkLen,      \* ChunkLen[c]: the bytes of a chunk
  Archives,      \* the contents clients save: sequences of chunks
  Keys,          \* cache keys
  Queries,       \* lookups: [key: the exact key, restore: Seq(the keys one restore key is a prefix of)]
  Ranges,        \* Range headers: <<start, end>>, end = -1 when it is open
  Specs,         \* jobs: [event, ref, base], base = NoRef when there is none
  Scopes,        \* branch refs
  Protected,     \* cache.protected_branches, in order
  MaxBytes,      \* cache.max_bytes
  Ttl,           \* cache.entry_ttl_days, in ticks of the clock
  Clients,       \* clients that save and restore at the same time
  MaxJobs, MaxOps, MaxTime, MaxLosses

Bytes(content) ==
  FlattenSeq([i \in 1..Len(content) |->
                [b \in 1..ChunkLen[content[i]] |-> <<content[i], b>>]])

Size(content) == Cardinality(UNION {{i} \X (1..ChunkLen[content[i]]) : i \in DOMAIN content})

NoRef == ""
NoKey == ""

(***************************************************************************)
(* An upload that is still being written is a proper prefix of an archive. *)
(* FinalizeCacheEntryUpload can take the staging file of another upload of *)
(* the same key, and only its size tells whether that one is complete: the *)
(* model assumes that the size of a prefix is never the size of an archive.*)
(***************************************************************************)
ASSUME SizesTellAssumption ==
  \A a, b \in Archives :
    \A n \in 1..(Len(a) - 1) : Size(SubSeq(a, 1, n)) # Size(b)

ASSUME DataAssumption ==
  /\ ChunkLen \in [Chunks -> Nat] /\ Archives \subseteq Seq(Chunks)
  /\ \A q \in Queries : DOMAIN q.restore \subseteq Nat
  /\ Specs # {} /\ NoRef \notin Scopes
  /\ \A s \in Specs : s.ref \in Scopes /\ s.base \in Scopes \cup {NoRef}

ASSUME BoundsAssumption ==
  /\ {MaxBytes, Ttl, MaxJobs, MaxOps, MaxTime, MaxLosses} \subseteq Nat
  /\ Protected \in Seq(Scopes)

Jobs == 1..MaxJobs

VARIABLES
  \* --- on disk
  chunks,     \* chunks[c] \in {"absent", "good", "torn"}: the file of a chunk
  manifests,  \* the manifests stored
  index,      \* index[s]: the complete lines of a log
  tail,       \* tail[s]: the log ends in a torn line
  stage,      \* staging files: a function from upload to what it holds
  \* --- jobs, their servers and their collectors
  job,        \* job[j]: "wait", "up", "gc", "done", "failed" or "dead"
  spec,       \* spec[j]: what the job's message says
  gc,         \* gc[j]: the collector's progress
  pending,    \* uploads announced: v1 reservations and v2 upload tokens
  client,     \* client[c]: one operation in progress
  \* --- time, bounds and history
  now, ops, losses,
  acked,      \* the entries whose save was answered ok, with their scopes
  overlapped, \* a job was started beside a collector
  lossy,      \* power was lost with writes not yet on the disk
  late        \* what uploads without a client wrote since a server last stopped,
              \*   as long as neither of the two

disk == <<chunks, manifests, index, tail, stage>>
clock == <<now, losses>>
hist == <<acked, overlapped, lossy, late>>
vars == <<disk, job, spec, gc, pending, client, clock, ops, hist>>

NoGc == [pc |-> "off", keep |-> [s \in Scopes |-> <<>>], logs |-> {}, live |-> {}, list |-> {}]
Idle == [pc |-> "idle", job |-> 0, id |-> 0, proto |-> "v2", key |-> NoKey, want |-> <<>>,
         got |-> <<>>, todo |-> <<>>, range |-> <<>>, out |-> <<>>, by |-> 0]

Nothing == [manifests |-> {}, chunks |-> {}]

Entry == [key : Keys, manifest : Seq(Chunks), size : Nat, at : 0..MaxTime, by : Jobs, id : 1..MaxOps]

Init ==
  /\ chunks = [c \in Chunks |-> "absent"] /\ manifests = {}
  /\ index = [s \in Scopes |-> <<>>] /\ tail = [s \in Scopes |-> FALSE]
  /\ stage = << >>
  /\ job = [j \in Jobs |-> "wait"] /\ spec = [j \in Jobs |-> CHOOSE s \in Specs : TRUE]
  /\ gc = [j \in Jobs |-> NoGc]
  /\ pending = {} /\ client = [c \in Clients |-> Idle]
  /\ now = 0 /\ losses = 0 /\ ops = 0
  /\ acked = {} /\ overlapped = FALSE /\ lossy = FALSE /\ late = Nothing

-----------------------------------------------------------------------------
(* Scopes and trust.                                                       *)

IsProtected(ref) == Contains(Protected, ref)

TrustingEvents == {"push", "schedule", "workflow_dispatch", "release", "merge_group"}

Trusted(j) == spec[j].event \in TrustingEvents /\ IsProtected(spec[j].ref)

\* scopes_for_job: own ref, then the PR's base, then the protected branches; a
\* scope is found where it is named first, so the places that name it again, as
\* the place of a base that is not there, decide nothing.
ReadLadder(j) == <<spec[j].ref, spec[j].base>> \o Protected

Mutant_WriteAllowed(j) == TRUE

WriteAllowed(j) == ~(IsProtected(spec[j].ref) /\ ~Trusted(j))

-----------------------------------------------------------------------------
(* The index.                                                              *)

NoEntry == [key |-> NoKey, manifest |-> <<>>, size |-> 0, at |-> 0, by |-> 0, id |-> 0]

\* The newest of the entries under these keys, the later line when two are as
\* new.
Newest(entries, keys) ==
  LET hits == {i \in DOMAIN entries : entries[i].key \in keys}
      best == {i \in hits : \A k \in hits : entries[k].at <= entries[i].at}
  IN  IF hits = {} THEN NoEntry ELSE entries[Max(best)]

\* The nearest scope of the ladder that has a match.
Nearest(ladder, keys) ==
  LET hit(i) == Newest(index[ladder[i]], keys)
      found == {i \in DOMAIN ladder : ladder[i] # NoRef /\ hit(i) # NoEntry}
  IN  IF found = {} THEN NoEntry ELSE hit(Min(found))

IndexLookup(ladder, q) ==
  LET exact == Nearest(ladder, {q.key})
      byPrefix(r) == Nearest(ladder, q.restore[r])
      found == {r \in DOMAIN q.restore : byPrefix(r) # NoEntry}
  IN  IF exact # NoEntry THEN exact
      ELSE IF found = {} THEN NoEntry ELSE byPrefix(Min(found))

EntryExists(j, key) ==
  IndexLookup(<<spec[j].ref>>, [key |-> key, restore |-> <<>>]) # NoEntry

\* One line is appended; behind a torn line it becomes part of that line,
\* which no reader can parse.
IndexInsert(s, e) ==
  /\ index' = IF tail[s] THEN index ELSE [index EXCEPT ![s] = Append(@, e)]
  /\ tail' = [tail EXCEPT ![s] = FALSE]

-----------------------------------------------------------------------------
(* Saving.  An operation is one client at one endpoint of its job's server.*)

Set(c, r) == client' = [client EXCEPT ![c] = r]
Drops(c) == Set(c, Idle)

Begins(c) ==
  /\ client[c].pc = "idle" /\ ops < MaxOps
  /\ ops' = ops + 1
  /\ UNCHANGED <<disk, job, spec, gc, clock, hist>>

\* POST .../CreateCacheEntry.
CreateCacheEntry(c) ==
  /\ Begins(c)
  /\ \E j \in Jobs, k \in Keys, a \in Archives :
       /\ job[j] = "up" /\ WriteAllowed(j) /\ ~EntryExists(j, k)
       /\ pending' = pending \cup {[id |-> ops + 1, job |-> j, proto |-> "v2", key |-> k]}
       /\ Set(c, [Idle EXCEPT !.pc = "upload", !.job = j, !.id = ops + 1, !.key = k,
                              !.want = a, !.todo = a])

\* The staging files once that of an upload holds this.
Holding(id, content) ==
  [i \in DOMAIN stage \cup {id} |-> IF i = id THEN content ELSE stage[i]]

\* POST /_apis/artifactcache/caches: no duplicate is refused, and the staging
\* file is there at once.
Reserve(c) ==
  /\ client[c].pc = "idle" /\ ops < MaxOps
  /\ ops' = ops + 1
  /\ \E j \in Jobs, k \in Keys, a \in Archives :
       /\ job[j] = "up" /\ WriteAllowed(j)
       /\ pending' = pending \cup {[id |-> ops + 1, job |-> j, proto |-> "v1", key |-> k]}
       /\ Set(c, [Idle EXCEPT !.pc = "upload", !.job = j, !.id = ops + 1, !.key = k,
                              !.want = a, !.todo = a, !.proto = "v1"])
  /\ stage' = Holding(ops + 1, <<>>)
  /\ UNCHANGED <<chunks, manifests, index, tail, job, spec, gc, clock, hist>>

\* A staging file is reached through its token or reservation only; without
\* one it waits for a sweep, and the model forgets it.
Reachable(open) == Restrict(stage, {i \in DOMAIN stage : \E p \in open : p.id = i})

\* What is sent reaches the staging file piece by piece; without its token or
\* reservation the request is refused.
Grows(c) ==
  LET r == client[c]
      has == IF r.id \in DOMAIN stage THEN stage[r.id] ELSE <<>>
  IN  /\ \/ /\ \E p \in pending : p.id = r.id
            /\ stage' = Holding(r.id, Append(has, Head(r.todo)))
            /\ Set(c, [r EXCEPT !.todo = Tail(@)])
         \/ /\ \A p \in pending : p.id # r.id
            /\ Drops(c) /\ UNCHANGED stage
      /\ UNCHANGED <<chunks, manifests, index, tail, job, spec, gc, pending, clock, ops, hist>>

Uploads(c, proto) == client[c].pc = "upload" /\ client[c].proto = proto /\ client[c].todo # <<>>

\* PUT of the upload URL: Put Blob, or the assembly of Put Block List.
PutBlob(c) == Uploads(c, "v2") /\ Grows(c)

\* PATCH of a reservation: one range of the archive, in the client's order.
WriteChunk(c) == Uploads(c, "v1") /\ Grows(c)

\* The upload is taken out of the registry, its staging file is read, and
\* removed once it is ingested; without a file the ingest fails.
Takes(c, found) ==
  LET r == client[c]
  IN  /\ r.pc = "upload" /\ r.todo = <<>>
      /\ \/ /\ found = {} /\ Drops(c) /\ UNCHANGED <<pending, stage>>
         \/ \E p \in found :
              /\ pending' = pending \ {p}
              /\ stage' = Reachable(pending')
              /\ IF p.id \notin DOMAIN stage THEN Drops(c)
                 ELSE Set(c, [r EXCEPT !.pc = "ingest", !.id = p.id, !.got = stage[p.id],
                                       !.todo = stage[p.id]])
      /\ UNCHANGED <<chunks, manifests, index, tail, job, spec, gc, clock, ops, hist>>

\* take_pending_upload goes by scope, key and version: any upload of the key.
TakePendingUpload(c) ==
  {p \in pending : p.job = client[c].job /\ p.proto = "v2" /\ p.key = client[c].key}

FinalizeCacheEntryUpload(c) == client[c].proto = "v2" /\ Takes(c, TakePendingUpload(c))

\* POST of a reservation goes by its number.
FinalizeReservation(c) ==
  client[c].proto = "v1" /\ Takes(c, {p \in pending : p.id = client[c].id})

\* write_atomic: a file that exists is not written again, whatever is in it.
WriteAtomic(c) == [chunks EXCEPT ![c] = IF @ = "absent" THEN "good" ELSE @]

Ingest(c) ==
  LET r == client[c]
  IN  /\ r.pc = "ingest" /\ r.todo # <<>>
      /\ chunks' = WriteAtomic(Head(r.todo))
      /\ Set(c, [r EXCEPT !.todo = Tail(@)])
      /\ UNCHANGED <<manifests, index, tail, stage, job, spec, gc, pending, clock, ops, hist>>

Mutant_CheckSize(c) ==
  LET r == client[c]
  IN  /\ r.pc = "ingest" /\ r.todo = <<>>
      /\ Set(c, [r EXCEPT !.pc = "manifest"])
      /\ UNCHANGED <<disk, job, spec, gc, pending, clock, ops, hist>>

\* An upload of another size is rejected, not indexed.
CheckSize(c) ==
  LET r == client[c]
  IN  /\ r.pc = "ingest" /\ r.todo = <<>>
      /\ IF Size(r.got) = Size(r.want) THEN Set(c, [r EXCEPT !.pc = "manifest"]) ELSE Drops(c)
      /\ UNCHANGED <<disk, job, spec, gc, pending, clock, ops, hist>>

Mutant_PutManifest(c) ==
  LET r == client[c]
  IN  /\ r.pc = "manifest"
      /\ Set(c, [r EXCEPT !.pc = "insert"])
      /\ UNCHANGED <<disk, job, spec, gc, pending, clock, ops, hist>>

PutManifest(c) ==
  LET r == client[c]
  IN  /\ r.pc = "manifest"
      /\ manifests' = manifests \cup {r.got}
      /\ Set(c, [r EXCEPT !.pc = "insert"])
      /\ UNCHANGED <<chunks, index, tail, stage, job, spec, gc, pending, clock, ops, hist>>

\* The entry is written to the log of the job's own ref and the client told.
Insert(c) ==
  LET r == client[c]
      s == spec[r.job].ref
      e == [key |-> r.key, manifest |-> r.got, size |-> Size(r.want), at |-> now,
            by |-> r.job, id |-> r.id]
  IN  /\ r.pc = "insert"
      /\ IndexInsert(s, e)
      /\ acked' = IF tail[s] THEN acked ELSE acked \cup {<<s, e>>}
      /\ Drops(c)
      /\ UNCHANGED <<chunks, manifests, stage, job, spec, gc, pending, clock, ops, overlapped, lossy, late>>

-----------------------------------------------------------------------------
(* Restoring.                                                              *)

\* A lookup that hits; a miss ends the operation.
Hits(c, proto) ==
  /\ Begins(c) /\ UNCHANGED pending
  /\ \E j \in Jobs, q \in Queries :
       /\ job[j] = "up"
       /\ LET e == IndexLookup(ReadLadder(j), q)
          IN  /\ e # NoEntry
              /\ Set(c, [Idle EXCEPT !.pc = "lookup", !.job = j, !.got = e.manifest, !.by = e.by,
                                     !.proto = proto])

\* GET /_apis/artifactcache/cache.
LookupV1(c) == Hits(c, "v1")

\* POST .../GetCacheEntryDownloadURL.
LookupUrl(c) == Hits(c, "v2")

\* get_manifest; one that is not there is a miss.
GetManifest(c) ==
  LET r == client[c]
  IN  /\ r.pc = "lookup"
      /\ IF r.got \in manifests THEN Set(c, [r EXCEPT !.pc = "probe", !.todo = r.got]) ELSE Drops(c)
      /\ UNCHANGED <<disk, job, spec, gc, pending, clock, ops, hist>>

\* all_chunks_present: one file after another; all there, the URL is minted.
HasChunk(c) ==
  LET r == client[c]
  IN  /\ r.pc = "probe"
      /\ IF r.todo = <<>> THEN Set(c, [r EXCEPT !.pc = "url"])
         ELSE IF chunks[Head(r.todo)] = "absent" THEN Drops(c)
         ELSE Set(c, [r EXCEPT !.todo = Tail(@)])
      /\ UNCHANGED <<disk, job, spec, gc, pending, clock, ops, hist>>

\* parse_range: the inclusive bytes asked for, clamped; <<>> is a 416.
ParseRange(range, total) ==
  LET last == Max({total - 1, 0})
      end == IF range[2] = -1 THEN last ELSE Min({range[2], last})
  IN  IF range[1] > end THEN <<>> ELSE <<range[1], end>>

\* Manifest::locate: the chunk that holds a byte and the bytes before it there.
Locate(content, offset) ==
  LET before(i) == Size(SubSeq(content, 1, i))
      idx == CHOOSE i \in DOMAIN content : before(i - 1) <= offset /\ offset < before(i)
  IN  <<idx, offset - before(idx - 1)>>

Mutant_BuildPlan(content, offset, len) ==
  LET at == Locate(content, offset)
      step(plan, c) ==
        LET left == len - FoldLeft(LAMBDA n, p : n + p[3], 0, plan)
            skip == at[2]
        IN  IF left = 0 THEN plan ELSE Append(plan, <<c, skip, Min({ChunkLen[c] - skip, left})>>)
  IN  IF offset >= Size(content) THEN <<>>
      ELSE FoldLeft(step, <<>>, SubSeq(content, at[1], Len(content)))

\* build_plan: which bytes of which chunks, in order.
BuildPlan(content, offset, len) ==
  LET at == Locate(content, offset)
      step(plan, c) ==
        LET left == len - FoldLeft(LAMBDA n, p : n + p[3], 0, plan)
            skip == IF plan = <<>> THEN at[2] ELSE 0
        IN  IF left = 0 THEN plan ELSE Append(plan, <<c, skip, Min({ChunkLen[c] - skip, left})>>)
  IN  IF offset >= Size(content) THEN <<>>
      ELSE FoldLeft(step, <<>>, SubSeq(content, at[1], Len(content)))

\* Every chunk of the manifest is leased and the range planned.
Streams(c) ==
  LET r == client[c]
  IN  /\ r.pc = "url"
      /\ \E header \in Ranges :
           LET g == ParseRange(header, Size(r.got))
           IN  IF g = <<>> THEN Drops(c)
               ELSE Set(c, [r EXCEPT !.pc = "read", !.range = g,
                                     !.todo = BuildPlan(r.got, g[1], g[2] - g[1] + 1)])
      /\ UNCHANGED <<disk, job, spec, gc, pending, clock, ops, hist>>

\* GET of a v2 download URL, and of a v1 archive location.
GetBlob(c) == client[c].proto = "v2" /\ Streams(c)
Download(c) == client[c].proto = "v1" /\ Streams(c)

\* Each chunk is verified as it is read.  A torn one is removed, a missing one
\* is not in any other tier: both abort the body.
ReadSlice(c) ==
  LET r == client[c]
      step == Head(r.todo)
  IN  /\ r.pc = "read" /\ r.todo # <<>>
      /\ IF chunks[step[1]] = "good"
         THEN /\ Set(c, [r EXCEPT !.todo = Tail(@),
                                  !.out = @ \o [b \in 1..step[3] |-> <<step[1], step[2] + b>>]])
              /\ UNCHANGED chunks
         ELSE Drops(c) /\ chunks' = [chunks EXCEPT ![step[1]] = "absent"]
      /\ UNCHANGED <<manifests, index, tail, stage, job, spec, gc, pending, clock, ops, hist>>

\* The body is complete; its lease is dropped with it.
Served(c) ==
  /\ client[c].pc = "read" /\ client[c].todo = <<>>
  /\ Drops(c)
  /\ UNCHANGED <<disk, job, spec, gc, pending, clock, ops, hist>>

\* A client that goes away cancels the handler at any await.  What ingest and
\* put_manifest have handed to the blocking pool goes on without it: nothing
\* waits for that write, the server's shutdown neither.
Disconnect(c) ==
  LET r == client[c]
      stray == [Idle EXCEPT !.pc = "stray", !.got = r.got, !.todo = r.todo]
  IN  /\ r.pc \notin {"idle", "insert", "stray"}
      /\ IF r.pc = "manifest" \/ (r.pc = "ingest" /\ r.todo # <<>>) THEN Set(c, stray) ELSE Drops(c)
      /\ UNCHANGED <<disk, job, spec, gc, pending, clock, ops, hist>>

Remembers(kind, x) ==
  late' = IF overlapped \/ lossy THEN late ELSE [late EXCEPT ![kind] = @ \cup {x}]

\* The write in hand of an upload without a client: the rest of its chunks, one
\* after another, or its manifest.  It may fail at any of them.
Stray(c) ==
  LET r == client[c]
  IN  /\ r.pc = "stray"
      /\ \/ Drops(c) /\ UNCHANGED <<chunks, manifests, late>>
         \/ /\ r.todo = <<>> /\ Drops(c)
            /\ manifests' = manifests \cup {r.got}
            /\ Remembers("manifests", r.got)
            /\ UNCHANGED chunks
         \/ /\ r.todo # <<>>
            /\ IF Tail(r.todo) = <<>> THEN Drops(c) ELSE Set(c, [r EXCEPT !.todo = Tail(@)])
            /\ chunks' = WriteAtomic(Head(r.todo))
            /\ Remembers("chunks", Head(r.todo))
            /\ UNCHANGED manifests
      /\ UNCHANGED <<index, tail, stage, job, spec, gc, pending, clock, ops, acked, overlapped, lossy>>

\* The chunks the restores of one job's server are reading.
Leased(j) == UNION {Range(client[c].got) : c \in {d \in Clients : client[d].job = j /\ client[d].pc = "read"}}

-----------------------------------------------------------------------------
(* Jobs and the collector.                                                 *)

\* A handler is running; shutdown waits for it.
InFlight(c) == client[c].pc \in {"ingest", "manifest", "insert", "lookup", "probe", "read"}

Over == {"gc", "done", "failed", "dead"}

StartServer(j) ==
  /\ job[j] = "wait" /\ (j > 1 => job[j - 1] \in Over)
  /\ job' = [job EXCEPT ![j] = "up"]
  /\ \E s \in Specs : spec' = [spec EXCEPT ![j] = s]
  /\ overlapped' = (overlapped \/ \E i \in Jobs : job[i] = "gc")
  /\ UNCHANGED <<disk, gc, pending, client, clock, ops, acked, lossy, late>>

Mutant_StopServer(j) ==
  /\ job[j] = "up"
  /\ \A c \in Clients : client[c].job = j => ~InFlight(c)
  /\ job' = [job EXCEPT ![j] = "gc"]
  /\ gc' = [gc EXCEPT ![j].pc = "plan"]
  /\ client' = [c \in Clients |-> IF client[c].job = j THEN Idle ELSE client[c]]
  /\ UNCHANGED <<disk, pending, spec, clock, ops, hist>>

\* The server stops when its handlers have answered, the job is reported, and
\* the teardown sweeps abandoned uploads before it collects.
StopServer(j) ==
  /\ job[j] = "up"
  /\ \A c \in Clients : client[c].job = j => ~InFlight(c)
  /\ job' = [job EXCEPT ![j] = "gc"]
  /\ gc' = [gc EXCEPT ![j].pc = "plan"]
  /\ client' = [c \in Clients |-> IF client[c].job = j THEN Idle ELSE client[c]]
  /\ pending' = {p \in pending : p.job # j}
  /\ stage' = Reachable(pending')
  /\ late' = Nothing
  /\ UNCHANGED <<chunks, manifests, index, tail, spec, clock, ops, acked, overlapped, lossy>>

Records == UNION {{<<s, index[s][i]>> : i \in DOMAIN index[s]} : s \in Scopes}

SizeOf(records) == Cardinality(UNION {{r} \X (1..r[2].size) : r \in records})

Mutant_Evictions(alive) ==
  {cut \in SUBSET alive :
     /\ \A d \in cut, k \in alive \ cut : d[2].at <= k[2].at
     /\ SizeOf(alive \ cut) < MaxBytes
     /\ cut # {} => \E d \in cut : /\ SizeOf(alive \ cut) + d[2].size >= MaxBytes
                                   /\ \A o \in cut : o[2].at <= d[2].at}

\* evict_over_cap: the oldest records, and no more of them than must go.
Evictions(alive) ==
  {cut \in SUBSET alive :
     /\ \A d \in cut, k \in alive \ cut : d[2].at <= k[2].at
     /\ SizeOf(alive \ cut) <= MaxBytes
     /\ cut # {} => \E d \in cut : /\ SizeOf(alive \ cut) + d[2].size > MaxBytes
                                   /\ \A o \in cut : o[2].at <= d[2].at}

LinesOf(s, records) == {r[2] : r \in {k \in records : k[1] = s}}

\* The lines of a log that are kept, in their order.
Kept(log, S) ==
  LET upTo[n \in 0..Len(log)] ==
        IF n = 0 THEN <<>>
        ELSE IF log[n] \in S THEN Append(upTo[n - 1], log[n]) ELSE upTo[n - 1]
  IN  upTo[Len(log)]

\* plan_retention over one reading of the whole index.
GcPlan(j) ==
  /\ gc[j].pc = "plan"
  /\ LET alive == {r \in Records : r[2].at >= now - Ttl}
     IN  \E cut \in Evictions(alive) :
           gc' = [gc EXCEPT ![j] =
                    [@ EXCEPT !.pc = "rewrite",
                              !.keep = [s \in Scopes |->
                                          Kept(index[s], LinesOf(s, alive \ cut))],
                              !.logs = {r[1] : r \in Records}]]
  /\ UNCHANGED <<disk, job, spec, pending, client, clock, ops, hist>>

\* Each log is replaced by a rename, one after the other.
GcRewrite(j) ==
  /\ gc[j].pc = "rewrite"
  /\ \/ \E s \in gc[j].logs :
          /\ index' = [index EXCEPT ![s] = gc[j].keep[s]]
          /\ tail' = [tail EXCEPT ![s] = FALSE]
          /\ gc' = [gc EXCEPT ![j].logs = @ \ {s}]
     \/ /\ gc[j].logs = {}
        /\ gc' = [gc EXCEPT ![j].pc = "live",
                            ![j].live = {e.manifest : e \in UNION {Range(gc[j].keep[s]) : s \in Scopes}}]
        /\ UNCHANGED <<index, tail>>
  /\ UNCHANGED <<chunks, manifests, stage, job, spec, pending, client, clock, ops, hist>>

GcEnds(j, how) ==
  /\ job' = [job EXCEPT ![j] = how]
  /\ gc' = [gc EXCEPT ![j] = NoGc]

Mutant_GcLive(j) ==
  /\ gc[j].pc = "live"
  /\ IF gc[j].live \subseteq manifests
     THEN gc' = [gc EXCEPT ![j].pc = "manifests", ![j].list = {}] /\ UNCHANGED job
     ELSE GcEnds(j, "failed")
  /\ UNCHANGED <<disk, spec, pending, client, clock, ops, hist>>

\* The live chunks are read out of the live manifests; one that cannot be read
\* ends the pass.
GcLive(j) ==
  /\ gc[j].pc = "live"
  /\ IF gc[j].live \subseteq manifests
     THEN gc' = [gc EXCEPT ![j].pc = "manifests", ![j].list = manifests \ gc[j].live] /\ UNCHANGED job
     ELSE GcEnds(j, "failed")
  /\ UNCHANGED <<disk, spec, pending, client, clock, ops, hist>>

LiveChunks(j) == UNION {Range(m) : m \in gc[j].live}

GcManifests(j) ==
  /\ gc[j].pc = "manifests"
  /\ \/ \E m \in gc[j].list :
          /\ manifests' = manifests \ {m}
          /\ gc' = [gc EXCEPT ![j].list = @ \ {m}]
     \/ /\ gc[j].list = {}
        /\ gc' = [gc EXCEPT ![j].pc = "chunks",
                            ![j].list = {<<c>> : c \in {d \in Chunks : chunks[d] # "absent"} \ LiveChunks(j)}]
        /\ UNCHANGED manifests
  /\ UNCHANGED <<chunks, index, tail, stage, job, spec, pending, client, clock, ops, hist>>

\* A chunk no live manifest names is deleted unless a restore of this job's
\* own server holds a lease on it.
GcChunks(j) ==
  /\ gc[j].pc = "chunks"
  /\ \/ \E l \in gc[j].list :
          /\ chunks' = [chunks EXCEPT ![l[1]] = IF l[1] \in Leased(j) THEN @ ELSE "absent"]
          /\ gc' = [gc EXCEPT ![j].list = @ \ {l}]
          /\ UNCHANGED job
     \/ gc[j].list = {} /\ GcEnds(j, "done") /\ UNCHANGED chunks
  /\ UNCHANGED <<manifests, index, tail, stage, spec, pending, client, clock, ops, hist>>

-----------------------------------------------------------------------------
(* Time and loss.                                                          *)

Tick ==
  /\ now < MaxTime /\ now' = now + 1
  /\ UNCHANGED <<disk, job, spec, gc, pending, client, losses, ops, hist>>

\* An upload token outlives its hour; a reservation of the v1 protocol has no
\* such limit.
TokenExpires ==
  /\ \E p \in pending : p.proto = "v2" /\ pending' = pending \ {p}
  /\ stage' = Reachable(pending')
  /\ UNCHANGED <<chunks, manifests, index, tail, job, spec, gc, client, clock, ops, hist>>

AtMostOne(S) == {{}} \cup {{x} : x \in S}

\* The machine stops.  Chunks are not synced before their rename, a manifest's
\* directory entry is not synced, and neither is a line of the index: one of
\* each may be lost (the bound of a loss).
PowerLoss ==
  /\ losses < MaxLosses /\ losses' = losses + 1
  /\ \E torn \in AtMostOne({c \in Chunks : chunks[c] = "good"}), gone \in AtMostOne(manifests),
        cut \in AtMostOne({s \in Scopes : index[s] # <<>>}) :
       /\ chunks' = [c \in Chunks |-> IF c \in torn THEN "torn" ELSE chunks[c]]
       /\ manifests' = manifests \ gone
       /\ index' = [s \in Scopes |-> IF s \in cut THEN Front(index[s]) ELSE index[s]]
       /\ tail' = [s \in Scopes |-> s \in cut \/ tail[s]]
       /\ lossy' = (lossy \/ torn # {} \/ gone # {} \/ cut # {})
  /\ job' = [j \in Jobs |-> IF job[j] \in {"up", "gc"} THEN "dead" ELSE job[j]]
  /\ gc' = [j \in Jobs |-> NoGc]
  /\ client' = [c \in Clients |-> Idle]
  /\ pending' = {} /\ stage' = << >>
  /\ UNCHANGED <<spec, now, ops, acked, overlapped, late>>

Handler(c) ==
  \/ PutBlob(c) \/ WriteChunk(c) \/ FinalizeCacheEntryUpload(c) \/ FinalizeReservation(c)
  \/ Ingest(c) \/ CheckSize(c) \/ PutManifest(c) \/ Insert(c)
  \/ GetManifest(c) \/ HasChunk(c) \/ GetBlob(c) \/ Download(c) \/ ReadSlice(c) \/ Served(c)

Collector(j) == GcPlan(j) \/ GcRewrite(j) \/ GcLive(j) \/ GcManifests(j) \/ GcChunks(j)

Next ==
  \/ \E c \in Clients :
       CreateCacheEntry(c) \/ Reserve(c) \/ LookupV1(c) \/ LookupUrl(c) \/ Handler(c) \/ Disconnect(c) \/ Stray(c)
  \/ \E j \in Jobs : StartServer(j) \/ StopServer(j) \/ Collector(j)
  \/ Tick \/ TokenExpires \/ PowerLoss

Spec == Init /\ [][Next]_vars

-----------------------------------------------------------------------------
(* Properties.                                                             *)

\* Types of the files, the servers and the collectors.
TypeOK ==
  /\ chunks \in [Chunks -> {"absent", "good", "torn"}]
  /\ \A m \in manifests : Range(m) \subseteq Chunks
  /\ \A s \in Scopes : \A i \in DOMAIN index[s] : index[s][i] \in Entry
  /\ tail \in [Scopes -> BOOLEAN]
  /\ DOMAIN stage \subseteq 1..ops
  /\ job \in [Jobs -> {"wait", "up"} \cup Over] /\ spec \in [Jobs -> Specs]
  /\ \A j \in Jobs : gc[j].pc # "off" <=> job[j] = "gc"
  /\ \A p \in pending : p.job \in Jobs /\ job[p.job] = "up"
  /\ \A c \in Clients : client[c].pc \notin {"idle", "stray"} => job[client[c].job] = "up"

\* What a restore has sent is what was asked for: the bytes of the range of
\* the archive, whatever a power loss did to the chunks (BLAKE3 on each read,
\* store.rs build_plan and read_chunk_or_restore).
RestoredIsFaithful ==
  \A c \in Clients :
    LET r == client[c]
    IN  r.pc = "read" =>
          LET whole == SubSeq(Bytes(r.got), r.range[1] + 1, r.range[2] + 1)
          IN  /\ IsPrefix(r.out, whole)
              /\ r.todo = <<>> => r.out = whole

\* No entry describes an upload that was not complete, although a finalize may
\* take the staging file of another upload of its key (finalize.rs).
NoLyingEntry ==
  \A r \in Records : r[2].manifest \in Archives /\ r[2].size = Size(r[2].manifest)

\* What a job restores was saved by a job of its own ref or of its base, or by
\* a trusted job: an untrusted job never reaches the caches of others.
NoPoisoning ==
  \A c \in Clients :
    LET r == client[c]
    IN  r.pc \in {"lookup", "probe", "url", "read"} =>
          spec[r.by].ref \in {spec[r.job].ref, spec[r.job].base} \/ Trusted(r.by)

\* As long as no collector ran beside a job and no power was lost, every entry
\* of the index can be restored: its manifest and its chunks are on disk.
IndexedIsStored ==
  ~overlapped /\ ~lossy =>
    \A r \in Records :
      /\ r[2].manifest \in manifests
      /\ \A c \in Range(r[2].manifest) : chunks[c] = "good"

\* Likewise, a save that was answered ok stays in the index until it is older
\* than the TTL or newer saves fill the capacity.
SavedIsFound ==
  ~overlapped /\ ~lossy =>
    \A r \in acked :
      \/ r \in Records
      \/ r[2].at < now - Ttl
      \/ SizeOf({q \in acked : q[2].at >= r[2].at}) > MaxBytes

\* A pass that ran to its end while no other job did leaves no garbage: every
\* chunk and manifest on disk belongs to an entry of the index, or was written
\* after the server stopped by an upload whose client had gone.
Collected ==
  \A j \in Jobs :
    job[j] = "done" /\ (j < MaxJobs => job[j + 1] = "wait") /\ ~overlapped /\ ~lossy =>
      LET live == {r[2].manifest : r \in Records}
          used == UNION {Range(m) : m \in live}
          stored == {c \in Chunks : chunks[c] # "absent"}
      IN  /\ live \subseteq manifests /\ manifests \subseteq live \cup late.manifests
          /\ used \subseteq stored /\ stored \subseteq used \cup late.chunks

\* What a restore hands out is an archive that somebody saved whole.
RestoresAreSound == TypeOK /\ RestoredIsFaithful /\ NoLyingEntry

\* Index and store agree: what is indexed can be restored, what was saved is
\* indexed, and what is not indexed is collected but for the late writes of
\* uploads without a client.
StoreIsSound == IndexedIsStored /\ SavedIsFound /\ Collected
=============================================================================
