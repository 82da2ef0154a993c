-------------------------------- MODULE Fetch --------------------------------
(***************************************************************************)
(* Fetching a remote action (execution/actions): the prefetch task and the *)
(* steps of a job share one ActionFetcher.  A call resolves the reference  *)
(* with the job's service, joins the single flight of the revision it got, *)
(* and whoever leads that flight downloads, extracts and commits the tree. *)
(* Two runner processes work on one data directory; a tag may move; a call *)
(* may be dropped at any await, a process may die anywhere.                *)
(***************************************************************************)
EXTENDS Staging

CONSTANTS Fetches,      \* calls of ensure_action: [job, kind]
          Sites,        \* situations: [calls, jobs: job -> [launch, legacy, tokens],
                        \*   littered, redirects: followed at most (5 in the code), moves]
          Revisions,    \* the revisions the tag points to, in order
          NoCell        \* nobody initialises the single-flight cell

VARIABLES
  site,      \* the situation
  tag,       \* how far the tag has moved along Revisions
  sha,       \* call -> the revision its resolution answered with
  attempt,   \* call -> attempts of ensure_action used up
  cell,      \* call -> the OnceCell it waits on
  cells,     \* the cells made so far: [by: the call initialising it, path: it is set]
  inflight,  \* ActionFetcher::inflight: job -> revision -> index into cells
  masked,    \* job -> the tokens its masker knows
  hop,       \* call -> [n: redirects followed, origin: where the request goes]
  outcome,   \* call -> "" or what it returned
  cause,     \* ghost: call -> what really went wrong
  sent,      \* ghost: tokens that went out unmasked or to another origin
  failed,    \* ghost: revisions an attempt on which failed, per job
  forced     \* jobs whose force token is cancelled

fetchVars == <<stageVars, site, tag, sha, attempt, cell, cells, inflight, masked, hop,
               outcome, cause, sent, failed, forced>>

flight == <<cell, cells, inflight>>
ghosts == <<cause, sent, failed>>
Jobs   == site.jobs

Ended == {"returned", "gone"}

\* The cache key is qualified by the revision, so a moved tag is another tree.
Mutant_CacheKey(c) == Revisions[1]
CacheKey(c) == sha[c]

\* infrastructure_category: the class GitHub is told, "" for the user's own.
Category(e) ==
  CASE e = "service" -> "resolve_action"
    [] e \in {"status", "unauthorized", "transport"} -> "error_download_action"
    [] e = "content" -> "invalid_action_download"
    [] OTHER -> ""

----------------------------------------------------------------------------
(* Resolution *)

\* ensure_action is called; prefetch first parses every reference of the job.
Begin(c) ==
  /\ at[c] = "idle" /\ Go(c, "resolve")
  /\ UNCHANGED <<dir, staging, late, faults, tag, sha, attempt, flight, masked, hop,
                 outcome, ghosts, forced, site>>

\* A request that carries a token: the masker learns it first.
Knows(c, token) == masked[c.job] \cup {token}
Send(c, token, origin, known) ==
  sent' = IF token \in known /\ origin = "home" THEN sent ELSE sent \cup {token}

\* The answer as a whole: ensure_action returns e, and retries once when the
\* archive refused the credential.
Return(c, e, why) ==
  /\ IF e = "unauthorized" /\ attempt[c] = 0
     THEN /\ Go(c, "resolve") /\ attempt' = [attempt EXCEPT ![c] = 1]
          /\ UNCHANGED outcome
     ELSE Go(c, "returned") /\ outcome' = [outcome EXCEPT ![c] = e] /\ UNCHANGED attempt
  /\ cause' = [cause EXCEPT ![c] = why]

\* The token the archive is fetched with: the action's own, else the job's.
ArchiveTokens(c) == {"archive"} \cup (Jobs[c.job].tokens \cap {"job"})

\* resolve_info: the answer names a valid revision and archive address, or the
\* service is to blame; the archive token is masked before it is used.
Decode(c, known) ==
  \/ \E token \in ArchiveTokens(c) :
       /\ sha' = [sha EXCEPT ![c] = Revisions[tag]]
       /\ masked' = [masked EXCEPT ![c.job] = known \cup {token}]
       /\ hop' = [hop EXCEPT ![c] = [n |-> 0, origin |-> "home", token |-> token]]
       /\ Go(c, "cell") /\ UNCHANGED <<faults, attempt, outcome, cause>>
  \/ /\ Fault /\ Return(c, "service", "service")
     /\ masked' = [masked EXCEPT ![c.job] = known] /\ UNCHANGED <<sha, hop>>

\* resolution_status_error and the transport: whose failure it is.
RequestFails(c, known) ==
  /\ Fault
  /\ \/ Return(c, "user", "user")
     \/ Return(c, "service", "service")
  /\ masked' = [masked EXCEPT ![c.job] = known] /\ UNCHANGED <<sha, hop>>

\* A resolver without its credential refuses before it sends anything.
NoCredential(c) ==
  /\ Return(c, "user", "user") /\ UNCHANGED <<faults, masked, sent, sha, hop>>

ResolveLaunch(c) ==
  /\ Jobs[c.job].launch
  /\ IF "service" \in Jobs[c.job].tokens
     THEN LET known == Knows(c, "service")
          IN  Send(c, "service", "home", known) /\ (Decode(c, known) \/ RequestFails(c, known))
     ELSE NoCredential(c)

\* The fallback asks the REST API for the commit.
Fallback(c, known) ==
  IF "job" \in Jobs[c.job].tokens
  THEN LET all == known \cup Knows(c, "job")
       IN  Send(c, "job", "home", all) /\ (Decode(c, all) \/ RequestFails(c, all))
  ELSE Return(c, "user", "user") /\ masked' = [masked EXCEPT ![c.job] = known]
       /\ UNCHANGED <<faults, sent, sha, hop>>

\* An older server may advertise the download-info resource, or not have it.
ResolveLegacy(c) ==
  /\ ~Jobs[c.job].launch /\ Jobs[c.job].legacy
  /\ IF "service" \in Jobs[c.job].tokens
     THEN LET known == Knows(c, "service")
          IN  \/ Send(c, "service", "home", known) /\ (Decode(c, known) \/ RequestFails(c, known))
              \/ Fallback(c, known)
     ELSE NoCredential(c)

ResolveFallback(c) ==
  /\ ~Jobs[c.job].launch /\ ~Jobs[c.job].legacy
  /\ Fallback(c, masked[c.job])

Resolve(c) ==
  /\ at[c] = "resolve"
  /\ ResolveLaunch(c) \/ ResolveLegacy(c) \/ ResolveFallback(c)
  /\ UNCHANGED <<dir, staging, late, tag, flight, failed, forced, site>>

----------------------------------------------------------------------------
(* The single flight *)

\* cell_for: the job's cell of this revision, made when there is none.
Mutant_CellFor(c) ==
  /\ cells' = Append(cells, [by |-> NoCell, path |-> FALSE])
  /\ inflight' = [inflight EXCEPT ![c.job][CacheKey(c)] = Len(cells) + 1]
CellFor(c) ==
  IF inflight[c.job][CacheKey(c)] = 0
  THEN /\ cells' = Append(cells, [by |-> NoCell, path |-> FALSE])
       /\ inflight' = [inflight EXCEPT ![c.job][CacheKey(c)] = Len(cells) + 1]
  ELSE UNCHANGED <<cells, inflight>>

TakeCell(c) ==
  /\ at[c] = "cell" /\ CellFor(c)
  /\ cell' = [cell EXCEPT ![c] = inflight'[c.job][CacheKey(c)]]
  /\ Go(c, "wait")
  /\ UNCHANGED <<dir, staging, late, faults, tag, sha, attempt, masked, hop, outcome,
                 ghosts, forced, site>>

\* get_or_try_init: the value, or the turn to make it.
Mutant_Turn(c) ==
  cells[cell[c]].by = NoCell /\ (cells[cell[c]].path \/ <<c.job, sha[c]>> \notin failed)
Turn(c) == cells[cell[c]].by = NoCell

Wait(c) ==
  /\ at[c] = "wait" /\ Turn(c)
  /\ IF cells[cell[c]].path
     THEN Return(c, "ok", "") /\ UNCHANGED cells
     ELSE /\ Go(c, "check") /\ cells' = [cells EXCEPT ![cell[c]].by = c]
          /\ UNCHANGED <<attempt, outcome, cause>>
  /\ UNCHANGED <<dir, staging, late, faults, tag, sha, cell, inflight, masked, hop,
                 sent, failed, forced, site>>

\* A cell whose initialiser ends without a value is free for the next waiter.
Mutant_Released(c, path) ==
  IF path /\ cell[c] > 0 THEN [cells EXCEPT ![cell[c]] = [by |-> NoCell, path |-> TRUE]] ELSE cells
Released(c, path) ==
  IF cell[c] > 0 /\ cells[cell[c]].by = c
  THEN [cells EXCEPT ![cell[c]] = [by |-> NoCell, path |-> path]]
  ELSE cells

\* evict: the slot of the revision, whichever cell is in it by now.
Evict(c) == inflight' = [inflight EXCEPT ![c.job][CacheKey(c)] = 0]

Succeed(c) ==
  /\ Return(c, "ok", "") /\ cells' = Released(c, TRUE)
  /\ UNCHANGED <<cell, inflight, sent, failed>>

Fail(c, e, why) ==
  /\ Return(c, e, why) /\ cells' = Released(c, FALSE) /\ Evict(c)
  /\ failed' = failed \cup {<<c.job, CacheKey(c)>>}
  /\ UNCHANGED <<cell, sent>>

----------------------------------------------------------------------------
(* Download *)

rest == <<site, tag, sha, masked, forced>>

\* download_and_extract_action: the fast path.
Check(c) ==
  /\ at[c] = "check"
  /\ IF Cached(CacheKey(c))
     THEN Succeed(c)
     ELSE Go(c, "request") /\ UNCHANGED <<attempt, outcome, flight, ghosts>>
  /\ UNCHANGED <<dir, staging, late, faults, rest, hop>>

\* validate_archive_hop: https, no credentials in the address.
AllowedHop(origin) == origin # "insecure"

\* The token goes to the origin the resolver chose and to no other.
Mutant_Bears(c) == TRUE
Bears(c) == hop[c].origin = "home"

\* request_archive, one hop.
Request(c) ==
  /\ at[c] = "request"
  /\ IF ~AllowedHop(hop[c].origin)
     THEN Fail(c, "user", "user") /\ UNCHANGED <<hop, faults, staging>>
     ELSE /\ IF Bears(c) THEN Send(c, hop[c].token, hop[c].origin, masked[c.job]) ELSE UNCHANGED sent
          /\ \/ /\ NewStaging(c, sha[c]) /\ Go(c, "extract")
                /\ UNCHANGED <<attempt, outcome, flight, cause, failed, hop, faults>>
             \/ \E o \in {"home", "foreign", "insecure"} :
                  /\ hop[c].n < site.redirects
                  /\ hop' = [hop EXCEPT ![c].n = @ + 1, ![c].origin = o]
                  /\ UNCHANGED <<at, attempt, outcome, flight, cause, failed, faults, staging>>
             \/ \E e \in {"unauthorized", "status", "transport"} :
                  /\ Fault /\ Return(c, e, e) /\ cells' = Released(c, FALSE) /\ Evict(c)
                  /\ failed' = failed \cup {<<c.job, CacheKey(c)>>}
                  /\ UNCHANGED <<cell, hop, staging>>
  /\ UNCHANGED <<dir, late, rest>>

\* A tar read error after the body broke off is the transfer's, not the content's.
Mutant_ExtractError(why) == "content"
ExtractError(why) ==
  CASE why = "interrupted" -> "transport" [] why = "corrupt" -> "content" [] OTHER -> "user"

\* extract_tarball on its blocking thread, into the staging directory.
Mutant_Extract(c) ==
  /\ at[c] = "extract" /\ Go(c, "mark")
  /\ (Extracted(c) /\ UNCHANGED faults) \/ (Fault /\ UNCHANGED staging)
  /\ UNCHANGED <<dir, late, rest, hop, attempt, outcome, flight, ghosts>>
Extract(c) ==
  /\ at[c] = "extract"
  /\ \/ /\ Extracted(c) /\ Go(c, "mark")
        /\ UNCHANGED <<faults, attempt, outcome, flight, ghosts>>
     \/ \E why \in {"interrupted", "corrupt", "disk"} :
          Fault /\ Fail(c, ExtractError(why), why) /\ Discard(c)
  /\ UNCHANGED <<dir, late, rest, hop>>

\* write_watermark, into the staging directory and after the extraction.
WriteWatermark(c) ==
  /\ at[c] = "mark"
  /\ \/ /\ staging' = [staging EXCEPT ![c].mark = TRUE]
        /\ Go(c, "promote") /\ UNCHANGED <<faults, attempt, outcome, flight, ghosts>>
     \/ Fault /\ Fail(c, "user", "disk") /\ Discard(c)
  /\ UNCHANGED <<dir, late, rest, hop>>

PromoteAction(c) ==
  /\ c \in Fetches /\ at[c] \in Promoting /\ Promote(c, CacheKey(c))
  /\ UNCHANGED <<rest, attempt, outcome, flight, ghosts, hop>>

\* The download is over: the cell gets its path, or its error.
Finish(c) ==
  /\ c \in Fetches
  /\ \/ at[c] = "promoted" /\ Succeed(c)
     \/ at[c] = "unpromoted" /\ Fail(c, "user", "disk")
  /\ UNCHANGED <<dir, staging, late, faults, rest, hop>>

----------------------------------------------------------------------------
(* Fetches that end early *)

\* Where a call is at an await; the commit has none.
Awaiting == {"resolve", "wait", "request", "extract"}

\* The force token: the select of ensure_resolved, or of the resolution.
Cancelled(c) ==
  /\ c.job \in forced /\ at[c] \in Awaiting
  /\ Discard(c)
  /\ Return(c, "cancelled", "")
  /\ cells' = Released(c, FALSE)
  /\ IF at[c] = "resolve" THEN UNCHANGED <<inflight, failed>>
     ELSE Evict(c) /\ failed' = failed \cup {<<c.job, CacheKey(c)>>}
  /\ UNCHANGED <<dir, late, faults, rest, hop, cell, sent>>

Force(j) ==
  /\ j \notin forced /\ forced' = forced \cup {j}
  /\ UNCHANGED <<stageVars, tag, sha, attempt, flight, masked, hop, outcome, ghosts, site>>

\* A step's call is dropped when the step runs out of its bounds, a prefetch
\* when the job's steps are over; a blocking extraction then runs on, into a
\* staging directory nobody looks at.
Drop(c) ==
  /\ at[c] \in Awaiting
  /\ c.kind = "prefetch" =>
       \A s \in Fetches : s.job = c.job /\ s.kind = "step" => at[s] \in Ended
  /\ Go(c, "gone") /\ Discard(c) /\ cells' = Released(c, FALSE)
  /\ UNCHANGED <<dir, late, faults, rest, hop, cell, inflight, attempt, outcome, ghosts>>

\* The runner process dies: what is on disk stays.
Die(j) ==
  /\ \E c \in Fetches : c.job = j /\ at[c] \notin Ended
  /\ at' = [w \in Workers |-> IF w \in Fetches /\ w.job = j THEN "gone" ELSE at[w]]
  /\ staging' = [w \in Workers |-> IF w \in Fetches /\ w.job = j THEN Absent ELSE staging[w]]
  /\ UNCHANGED <<dir, late, faults, rest, hop, flight, attempt, outcome, ghosts>>

\* Someone pushes the tag.
TagMoves ==
  /\ tag <= site.moves /\ tag' = tag + 1
  /\ UNCHANGED <<stageVars, sha, attempt, flight, masked, hop, outcome, ghosts, forced, site>>

----------------------------------------------------------------------------
CallStep(c) ==
  \/ Resolve(c) \/ TakeCell(c) \/ Wait(c) \/ Check(c) \/ Request(c)
  \/ Extract(c) \/ WriteWatermark(c) \/ PromoteAction(c) \/ Finish(c)

FetchInit ==
  /\ site \in Sites /\ StagingInit(site.littered)
  /\ at = [w \in Workers |-> IF w \in site.calls THEN "idle" ELSE "gone"]
  /\ tag = 1 /\ sha = [c \in Fetches |-> Revisions[1]] /\ attempt = [c \in Fetches |-> 0]
  /\ cell = [c \in Fetches |-> 0] /\ cells = <<>>
  /\ inflight = [j \in DOMAIN site.jobs |-> [k \in Dirs |-> 0]]
  /\ masked = [j \in DOMAIN site.jobs |-> {}]
  /\ hop = [c \in Fetches |-> [n |-> 0, origin |-> "home", token |-> ""]]
  /\ outcome = [c \in Fetches |-> ""] /\ cause = [c \in Fetches |-> ""]
  /\ sent = {} /\ failed = {} /\ forced = {}

FetchNext ==
  \/ \E c \in Fetches : Begin(c) \/ CallStep(c) \/ Cancelled(c) \/ Drop(c)
  \/ \E j \in DOMAIN Jobs : Force(j) \/ Die(j)
  \/ TagMoves

\* Requests are answered or time out, blocking threads run.
FetchFairness == \A c \in Fetches : WF_fetchVars(CallStep(c))

----------------------------------------------------------------------------
(* Properties *)

\* The state of the fetcher has its type; a cell is initialised by a call that
\* waits on it.
FetchTypeOK ==
  /\ tag \in 1..Len(Revisions) /\ \A c \in Fetches : attempt[c] \in 0..1 /\ cell[c] \in 0..Len(cells)
  /\ \A i \in 1..Len(cells) : cells[i].by # NoCell =>
       cell[cells[i].by] = i /\ (at[cells[i].by] \notin {"idle", "resolve", "cell", "wait"})

\* The path a call returns holds the tree of the revision that call resolved,
\* complete, even if the tag has moved since another call of the job resolved
\* it, the leader of the flight failed, or another process was downloading it
\* (but for a late removal, see TreesAreWhole).
HandedTreeIsRight ==
  \A c \in Fetches : outcome[c] = "ok" =>
    \/ Whole(dir[CacheKey(c)]) /\ dir[CacheKey(c)].of = sha[c]
    \/ CacheKey(c) \in late

\* Credentials go out masked, and only to the origin the resolver chose: the
\* logs that follow and the archive's redirect targets never see one.
CredentialsStayHome == sent = {}

\* Within a job two calls download the same revision at the same time only
\* after an attempt on it failed: otherwise they share the one flight.
OneFlight ==
  \A c, d \in Fetches :
    /\ c # d /\ c.job = d.job /\ sha[c] = sha[d]
    /\ {at[c], at[d]} \subseteq {"request", "extract", "mark"} \cup Promoting
    => <<c.job, sha[c]>> \in failed

\* The failure class a call reports is the one that happened: a transfer that
\* broke off is not called corrupt, the service's trouble not the user's.
BlameIsRight ==
  \A c \in Fetches :
    /\ cause[c] = "interrupted" => Category(outcome[c]) \in {"", "error_download_action"}
    /\ Category(outcome[c]) = "invalid_action_download" => cause[c] = "corrupt"
    /\ cause[c] = "service" => Category(outcome[c]) = "resolve_action"

\* Every call comes to an end, whoever leads the flight it waits on and
\* however that leader ends.
CallsEnd == \A c \in Fetches : at[c] = "wait" ~> at[c] \in Ended

(* A fetched action can be trusted: trees are whole, a call gets the revision
   its reference named, no credential leaves the host it is for, one download
   at a time per flight, and a failure is blamed on what failed. *)
FetchIsSafe ==
  /\ FetchTypeOK /\ TreesAreWhole /\ HandedTreeIsRight
  /\ CredentialsStayHome /\ OneFlight /\ BlameIsRight
=============================================================================
