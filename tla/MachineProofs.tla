----------------------------- MODULE MachineProofs -----------------------------
(***************************************************************************)
(* Theorems about a toolu.sh machine, for every number of jobs, claims,    *)
(* tokens, starts, attempts and faults: what the box and toolu.sh hold of  *)
(* each other is true, and `remove` forgets no token toolu.sh still takes. *)
(***************************************************************************)
EXTENDS Machine, WellFoundedInduction, TLAPS

LoopPcs == {"off", "top", "list", "next", "claim", "run", "complete", "settle", "boot"}
Loop ==
  [pc : LoopPcs, token : 0 .. MaxTokens, todo : SUBSET Jobs, job : Jobs \cup {0},
   epoch : 0 .. MaxClaims, tries : Nat, res : Results]
Row == [st : {"queued", "claimed", "done", "failed"}, epoch : 0 .. MaxClaims, mine : BOOLEAN]
WatchState ==
  [pc : {"off", "dispatch", "watch", "beat", "revoked", "grace"}, renewing : BOOLEAN, fired : BOOLEAN]

Types ==
  /\ row \in [Jobs -> Row] /\ loop \in Loop /\ watch \in WatchState
  /\ jit \in {"none", "live", "over"}
  /\ late \in BOOLEAN /\ cancel \in BOOLEAN /\ drain \in BOOLEAN /\ jobCancel \in BOOLEAN
  /\ pending \in BOOLEAN /\ heard \in BOOLEAN /\ spoke \in BOOLEAN
  /\ starts \in Nat /\ exit \in {Running, "0", "1", "2", "5", "124"}

\* The two commands do not overlap; a registration is listed once its token is
\* stored and until it is revoked.
Paired ==
  /\ setup = "off" \/ remove = "off"
  /\ setup = "refresh" => config
  /\ setup = "config" \/ config => creds # 0
  /\ remove \in {"config", "creds"} => creds \notin tokens
  /\ remove = "creds" => ~config

\* The watcher lives within the lifecycle it watches, the watchdog within boot.
Watched ==
  /\ jit # "none" => loop.pc \in {"run", "boot"}
  /\ jit = "live" => loop.res = "none"
  /\ loop.pc \in {"top", "list", "next", "claim"} => loop.res = "none"
  /\ loop.pc \notin {"run", "boot"} => watch = NoWatch
  /\ watch.pc \in {"dispatch", "beat", "revoked"} => loop.pc = "run"
  /\ watch.pc = "grace" => Booting /\ watch.fired
  /\ Booting => starts = 0
  /\ Active => starts > 0
  /\ loop.pc \in {"claim", "run", "complete"} => loop.job \in Jobs
  /\ loop.pc \notin {"complete", "settle"} => loop.tries = 0
  /\ loop.pc = "complete" => loop.tries < Attempts

\* Whoever was answered 401 has ended, or is the watcher of a cancelled job.
Silent ==
  /\ ~spoke
  /\ heard => starts > 0 /\ (loop.pc = "off" \/ (loop.pc = "run" /\ watch.pc = "revoked" /\ jobCancel))

\* A claim is fenced by its epoch: as long as the row carries it, what the
\* lifecycle concluded is on record.
Claimed ==
  loop.pc \in {"run", "complete"} =>
    /\ loop.epoch <= row[loop.job].epoch
    /\ loop.res = "job" /\ Fenced(loop.job, loop.epoch) => <<loop.job, loop.epoch>> \in ran

\* A boot that answered has a listener that returned, or was too late.
Answered ==
  Booting /\ exit # Running =>
    /\ exit = "124" <=> watch.fired
    /\ exit # "124" => jit = "over"
    /\ exit = "0" => loop.res \in {"job", "idle"}

MInv == PairTypeOK /\ Types /\ Paired /\ Watched /\ Silent /\ Claimed /\ DoneIsDone /\ Answered

----------------------------------------------------------------------------
(* The pairing *)

\* The five that the poll loop never writes, and the bound on faults.
PairKept ==
  UNCHANGED <<server, code, files, setup, grant, remove>> /\ (faults' = faults \/ Fault)

\* What leaves the pairing alone keeps it.
LEMMA PairKeeps ==
  ASSUME PairTypeOK, Paired, PairKept
  PROVE  PairTypeOK' /\ Paired'
<1>1. faults' \in 0 .. MaxFaults
  BY PairingAssumption DEF PairKept, PairTypeOK, Fault
<1>2. PairTypeOK'
  BY <1>1 DEF PairKept, PairTypeOK, server, files
<1>3. Paired'
  BY DEF PairKept, Paired, server, files
<1> QED BY <1>2, <1>3

\* toolu.sh issues one token more.
LEMMA Granted ==
  ASSUME PairTypeOK, Grant
  PROVE  /\ tokens' \subseteq 1 .. MaxTokens /\ issued' \in 1 .. MaxTokens
<1>1. issued' = issued + 1 /\ issued + 1 \in 1 .. MaxTokens /\ tokens' = tokens \cup {issued + 1}
  BY PairingAssumption DEF Grant, PairTypeOK
<1>2. tokens \subseteq 1 .. MaxTokens
  BY DEF PairTypeOK
<1> QED BY <1>1, <1>2

\* The steps of toolu.sh, its console, `setup` and `remove` keep the pairing.
LEMMA PairSteps ==
  ASSUME PairTypeOK, Paired, PairNext
  PROVE  PairTypeOK' /\ Paired'
<1> USE PairingAssumption DEF server, files
<1>0. faults' \in 0 .. MaxFaults
  BY DEF PairNext, PairTypeOK, Fault, ConsoleDecides, CodeExpires, ConsoleRevokes,
     SetupStarts, Enroll, PairStart, PairPoll, PersistCreds, PersistConfig, Announce, Refresh,
     SetupKilled, RemoveTakes, RemoveRevokes, RemoveDeletes, RemoveKilled
<1>1. CASE ConsoleDecides \/ CodeExpires
  <2>1. PairTypeOK'
    BY <1>1 DEF PairTypeOK, ConsoleDecides, CodeExpires, Codes
  <2>2. Paired'
    BY <1>1 DEF Paired, ConsoleDecides, CodeExpires
  <2> QED BY <2>1, <2>2
<1>2. CASE ConsoleRevokes
  <2>1. PairTypeOK'
    BY <1>2 DEF PairTypeOK, ConsoleRevokes
  <2>2. Paired'
    BY <1>2 DEF Paired, ConsoleRevokes
  <2> QED BY <2>1, <2>2
<1>3. CASE SetupStarts
  <2>1. PairTypeOK'
    BY <1>3 DEF PairTypeOK, SetupStarts, Idle
  <2>2. Paired'
    BY <1>3 DEF Paired, SetupStarts, Idle
  <2> QED BY <2>1, <2>2
<1>4. CASE Enroll
  <2>0. Grant \/ UNCHANGED <<tokens, issued>>
    BY <1>4 DEF Enroll
  <2>1. tokens' \subseteq 1 .. MaxTokens /\ issued' \in 0 .. MaxTokens
    <3>1. CASE Grant
      BY <3>1, Granted
    <3>2. CASE UNCHANGED <<tokens, issued>>
      BY <3>2 DEF PairTypeOK
    <3> QED BY <2>0, <3>1, <3>2
  <2>2. code' \in Codes /\ faults' \in 0 .. MaxFaults
    BY <1>4 DEF PairTypeOK, Enroll, SetupEnds, Codes, Fault
  <2>3. setup' \in {"off", "creds"} /\ (setup' = "creds" <=> grant' # 0) /\ grant' \in 0 .. MaxTokens
    BY <1>4, Granted DEF Enroll, SetupEnds
  <2>4. PairTypeOK'
    BY <1>4, <2>1, <2>2, <2>3 DEF PairTypeOK, Enroll
  <2>5. Paired'
    BY <1>4, <2>3 DEF Paired, Enroll
  <2> QED BY <2>4, <2>5
<1>5. CASE PairStart
  <2>1. PairTypeOK'
    BY <1>5 DEF PairTypeOK, PairStart, Fault, SetupEnds, Codes
  <2>2. Paired'
    BY <1>5 DEF Paired, PairStart, SetupEnds
  <2> QED BY <2>1, <2>2
<1>6. CASE PairPoll
  <2>0. Grant \/ UNCHANGED <<tokens, issued>>
    BY <1>6 DEF PairPoll
  <2>1. tokens' \subseteq 1 .. MaxTokens /\ issued' \in 0 .. MaxTokens
    <3>1. CASE Grant
      BY <3>1, Granted
    <3>2. CASE UNCHANGED <<tokens, issued>>
      BY <3>2 DEF PairTypeOK
    <3> QED BY <2>0, <3>1, <3>2
  <2>2. code' \in Codes /\ faults' \in 0 .. MaxFaults
    BY <1>6 DEF PairTypeOK, PairPoll, SetupEnds, Codes, Fault
  <2>3. /\ setup' \in {"off", "pair", "poll", "creds"} /\ (setup' = "creds" <=> grant' # 0)
        /\ grant' \in 0 .. MaxTokens
    BY <1>6, Granted DEF PairPoll, SetupEnds, PairTypeOK
  <2>4. PairTypeOK'
    BY <1>6, <2>1, <2>2, <2>3 DEF PairTypeOK, PairPoll
  <2>5. Paired'
    BY <1>6, <2>3 DEF Paired, PairPoll
  <2> QED BY <2>4, <2>5
<1>7. CASE PersistCreds
  <2>1. PairTypeOK'
    BY <1>7 DEF PairTypeOK, PersistCreds
  <2>2. Paired'
    BY <1>7 DEF PairTypeOK, Paired, PersistCreds
  <2> QED BY <2>1, <2>2
<1>8. CASE PersistConfig
  <2>1. PairTypeOK'
    BY <1>8 DEF PairTypeOK, PersistConfig, Codes
  <2>2. Paired'
    BY <1>8 DEF Paired, PersistConfig
  <2> QED BY <2>1, <2>2
<1>9. CASE Announce
  <2>1. PairTypeOK'
    BY <1>9 DEF PairTypeOK, Announce
  <2>2. Paired'
    BY <1>9 DEF Paired, Announce
  <2> QED BY <2>1, <2>2
<1>10. CASE Refresh
  <2>1. PairTypeOK'
    BY <1>0, <1>10 DEF PairTypeOK, Refresh
  <2>2. Paired'
    BY <1>10 DEF Paired, Refresh
  <2> QED BY <2>1, <2>2
<1>11. CASE SetupKilled
  <2>1. PairTypeOK'
    BY <1>11 DEF PairTypeOK, SetupKilled, Fault, SetupEnds, Codes
  <2>2. Paired'
    BY <1>11 DEF Paired, SetupKilled, SetupEnds
  <2> QED BY <2>1, <2>2
<1>12. CASE RemoveTakes \/ RemoveRevokes \/ RemoveDeletes \/ RemoveKilled
  <2>0. /\ tokens' \subseteq tokens /\ remove' \in {"off", "revoke", "config", "creds"}
        /\ config' = config \/ config' = FALSE
        /\ creds' = creds \/ creds' = 0
        /\ UNCHANGED <<issued, code, setup, grant>>
    BY <1>12 DEF RemoveTakes, RemoveRevokes, RemoveDeletes, RemoveKilled
  <2>1. config' \in BOOLEAN
    BY <2>0, Zenon DEF PairTypeOK
  <2>3. creds' \in 0 .. MaxTokens /\ tokens' \subseteq 1 .. MaxTokens
    BY <2>0 DEF PairTypeOK
  <2>2. PairTypeOK'
    BY <1>0, <2>0, <2>1, <2>3 DEF PairTypeOK
  <2>4. Paired'
    BY <1>12 DEF Paired, RemoveTakes, RemoveRevokes, RemoveDeletes, RemoveKilled
  <2> QED BY <2>2, <2>4
<1> QED
  BY <1>1, <1>2, <1>3, <1>4, <1>5, <1>6, <1>7, <1>8, <1>9, <1>10, <1>11, <1>12 DEF PairNext

----------------------------------------------------------------------------
(* The rows and the choices *)

\* A set of naturals that is not empty has a least element.
LEMMA Least ==
  ASSUME NEW S \in SUBSET Nat, S # {}
  PROVE  \E i \in S : \A k \in S : i <= k
<1> DEFINE R == OpToRel(<, Nat)
<1>1. \A k, i \in Nat : <<k, i>> \in R <=> k < i
  BY DEF OpToRel
<1>2. IsWellFoundedOn(R, Nat)
  BY NatLessThanWellFounded
<1> HIDE DEF R
<1>3. PICK i \in S : \A k \in S : <<k, i>> \notin R
  BY <1>2, WFMin
<1>4. ASSUME NEW k \in S PROVE i <= k
  <2>1. k \in Nat /\ i \in Nat
    OBVIOUS
  <2>2. ~ (k < i)
    BY <1>1, <1>3, <2>1, Zenon
  <2> QED BY <2>1, <2>2
<1> QED BY <1>4

\* There is a last epoch, and no row is beyond it.
LEMMA LastEpochIs ==
  ASSUME row \in [Jobs -> Row]
  PROVE  LastEpoch \in 0 .. MaxClaims /\ \A j \in Jobs : row[j].epoch <= LastEpoch
<1> DEFINE S == {e \in 0 .. MaxClaims : \A j \in Jobs : row[j].epoch <= e}
<1>1. MaxClaims \in S /\ S \in SUBSET Nat
  BY MachineAssumption DEF Row
<1>2. PICK e \in S : \A k \in S : e <= k
  BY <1>1, Least
<1>3. e = 0 \/ \E j \in Jobs : row[j].epoch = e
  <2> SUFFICES ASSUME e # 0, \A j \in Jobs : row[j].epoch # e PROVE FALSE
    OBVIOUS
  <2>1. e - 1 \in 0 .. MaxClaims /\ \A j \in Jobs : row[j].epoch <= e - 1
    BY MachineAssumption DEF Row
  <2> QED BY <1>2, <2>1
<1> QED BY <1>2, <1>3 DEF LastEpoch

\* A row that is taken gets an epoch nobody had.
LEMMA Taken ==
  ASSUME row \in [Jobs -> Row], NEW j \in Jobs, NEW mine \in BOOLEAN, TakeRow(j, mine)
  PROVE  /\ row' \in [Jobs -> Row] /\ row[j].st = "queued" /\ row'[j].st = "claimed"
         /\ row'[j].mine = mine /\ row'[j].epoch \in 0 .. MaxClaims
         /\ \A i \in Jobs : row[i].epoch < row'[j].epoch
         /\ \A i \in Jobs : i # j => row'[i] = row[i]
<1>1. LastEpoch \in 0 .. MaxClaims /\ \A i \in Jobs : row[i].epoch <= LastEpoch
  BY LastEpochIs
<1>2. /\ row[j].st = "queued" /\ LastEpoch + 1 \in 0 .. MaxClaims
      /\ row' = [row EXCEPT ![j] = [st |-> "claimed", epoch |-> LastEpoch + 1, mine |-> mine]]
  BY <1>1, MachineAssumption DEF TakeRow
<1> HIDE DEF LastEpoch
<1> QED BY <1>1, <1>2 DEF Row

\* A report is of a claim that is still this machine's.
LEMMA ReportKeeps ==
  ASSUME MInv, loop.pc = "complete", Reported \/ UNCHANGED row, UNCHANGED ran
  PROVE  /\ row' \in [Jobs -> Row] /\ DoneIsDone'
         /\ row'[loop.job].epoch = row[loop.job].epoch
         /\ row'[loop.job].st = "claimed" /\ row'[loop.job].mine =>
              row[loop.job].st = "claimed" /\ row[loop.job].mine
<1> DEFINE j == loop.job
<1>1. j \in Jobs /\ row \in [Jobs -> Row] /\ DoneIsDone
      /\ (loop.res = "job" /\ Fenced(j, loop.epoch) => <<j, loop.epoch>> \in ran)
  BY DEF MInv, Watched, Types, Claimed
<1>2. CASE UNCHANGED row
  BY <1>1, <1>2 DEF DoneIsDone
<1>3. CASE Fenced(j, loop.epoch) /\ row' = [row EXCEPT ![j].st = CompleteBody(loop.res)]
  <2>1. /\ row' \in [Jobs -> Row] /\ row'[j].epoch = row[j].epoch /\ row'[j].st # "claimed"
        /\ row'[j].st = "done" => loop.res = "job"
        /\ \A i \in Jobs : i # j => row'[i] = row[i]
    BY <1>1, <1>3 DEF Row, CompleteBody
  <2>2. <<j, row[j].epoch>> = <<j, loop.epoch>>
    BY <1>3 DEF Fenced
  <2>3. DoneIsDone'
    BY <1>1, <1>3, <2>1, <2>2 DEF DoneIsDone
  <2> QED BY <2>1, <2>3
<1> QED BY <1>2, <1>3 DEF Reported

----------------------------------------------------------------------------
(* The loop between jobs *)

\* A step of a loop that has no job, before and after it.
LEMMA IdleMove ==
  ASSUME MInv, PairKept, Active, loop.pc # "run",
         loop' \in Loop, loop'.pc \in {"off", "top", "list", "next", "claim", "settle"},
         loop'.pc = "claim" => loop'.job \in Jobs,
         loop'.pc # "settle" => loop'.tries = 0,
         loop'.pc \notin {"off", "settle"} => loop'.res = "none",
         row' \in [Jobs -> Row], DoneIsDone',
         UNCHANGED <<jit, watch, late, jobCancel, pending, starts, exit>>,
         cancel' \in BOOLEAN, drain' \in BOOLEAN, heard' \in BOOLEAN,
         heard' => heard \/ loop'.pc = "off", spoke' = FALSE
  PROVE  MInv'
<1> USE DEF MInv
<1>1. PairTypeOK' /\ Paired'
  BY PairKeeps
<1>2. Types'
  BY DEF Types
<1>3. loop.pc \notin {"run", "boot", "off"} /\ jit = "none" /\ watch = NoWatch /\ starts > 0 /\ ~heard
  BY DEF Active, Watched, Types, Silent
<1>4. Watched'
  BY <1>3 DEF Watched, Booting, Active, NoWatch
<1>5. Silent'
  BY <1>3 DEF Silent
<1>6. Claimed' /\ Answered'
  BY DEF Claimed, Answered, Booting
<1> QED BY <1>1, <1>2, <1>4, <1>5, <1>6

\* Where a loop that ends or starts over is.
LEMMA Ends ==
  /\ Off \in Loop /\ Off.pc = "off" /\ Off.tries = 0 /\ Off.res = "none"
  /\ [Off EXCEPT !.pc = "top"] \in Loop /\ [Off EXCEPT !.pc = "top"].pc = "top"
  /\ [Off EXCEPT !.pc = "top"].tries = 0 /\ [Off EXCEPT !.pc = "top"].res = "none"
  BY PairingAssumption, MachineAssumption DEF Off, Loop, LoopPcs, Results


\* What a loop with nothing in hand has to begin with.
LEMMA AtRest ==
  ASSUME MInv, Active, loop.pc # "run"
  PROVE  /\ loop \in Loop /\ row \in [Jobs -> Row] /\ DoneIsDone /\ spoke = FALSE /\ heard = FALSE
         /\ loop.pc \notin {"off", "run", "boot"}
         /\ loop.pc \in {"top", "list", "next", "claim"} => loop.tries = 0 /\ loop.res = "none"
<1>1. loop \in Loop /\ row \in [Jobs -> Row] /\ DoneIsDone
  BY DEF MInv, Types
<1>2. loop.pc \notin {"off", "run", "boot"}
  BY DEF Active
<1>3. spoke = FALSE /\ heard = FALSE
  BY <1>2 DEF MInv, Types, Silent
<1>4. loop.pc \in {"top", "list", "next", "claim"} => loop.tries = 0 /\ loop.res = "none"
  BY DEF MInv, Watched
<1> QED BY <1>1, <1>2, <1>3, <1>4

\* The tokens of the loop are left to it, or go with it.
Tokens == cancel' \in BOOLEAN /\ drain' \in BOOLEAN

LEMMA TopKeeps ==
  ASSUME MInv, Top, Tokens
  PROVE  MInv'
<1>1. loop.pc = "top" /\ Active
  BY DEF Top, Active
<1>2. loop \in Loop /\ creds \in 0 .. MaxTokens
  BY DEF MInv, Types, PairTypeOK
<1>3. loop' \in Loop /\ loop'.pc \in {"off", "list"} /\ loop'.tries = 0 /\ loop'.res = "none"
  <2>1. CASE LoopEnds
    BY <2>1, Ends DEF LoopEnds
  <2>2. CASE loop' = [loop EXCEPT !.pc = "list", !.token = creds]
    BY <1>1, <1>2, <2>2, AtRest DEF Loop, LoopPcs
  <2> QED BY <2>1, <2>2 DEF Top
<1>4. spoke' = FALSE
  BY <1>1, AtRest DEF Top, Send
<1>5. PairKept /\ UNCHANGED <<row, jit, watch, late, jobCancel, pending, starts, exit, heard, ran>>
  BY DEF Top, PairKept, pairVars, server, files
<1>6. row' \in [Jobs -> Row] /\ DoneIsDone' /\ heard' = FALSE
  BY <1>1, <1>5, AtRest DEF DoneIsDone
<1> QED BY <1>1, <1>3, <1>4, <1>5, <1>6, IdleMove DEF Tokens

LEMMA ListKeeps ==
  ASSUME MInv, List, Tokens
  PROVE  MInv'
<1>1. loop.pc = "list" /\ Active
  BY DEF List, Active
<1>2. /\ loop' \in Loop /\ loop'.pc \in {"off", "top", "next"} /\ loop'.tries = 0 /\ loop'.res = "none"
      /\ heard' = FALSE \/ (heard' = TRUE /\ loop'.pc = "off")
  <2>1. CASE LoopEnds /\ heard' = TRUE
    BY <2>1, Ends DEF LoopEnds
  <2>2. CASE Again /\ UNCHANGED heard
    BY <1>1, <2>2, Ends, AtRest DEF Again
  <2>3. ASSUME NEW T \in SUBSET Jobs, loop' = [loop EXCEPT !.pc = "next", !.todo = T], UNCHANGED heard
        PROVE  <1>2!1 /\ <1>2!2
    BY <1>1, <2>3, AtRest DEF Loop, LoopPcs
  <2> QED BY <2>1, <2>2, <2>3 DEF List
<1>3. PairKept /\ UNCHANGED <<row, jit, watch, late, jobCancel, pending, starts, exit, spoke, ran>>
  BY DEF List, PairKept
<1>4. row' \in [Jobs -> Row] /\ DoneIsDone' /\ spoke' = FALSE
  BY <1>1, <1>3, AtRest DEF DoneIsDone
<1> QED BY <1>1, <1>2, <1>3, <1>4, IdleMove DEF Tokens

LEMMA NextJobKeeps ==
  ASSUME MInv, NextJob, Tokens
  PROVE  MInv'
<1>1. loop.pc = "next" /\ Active
  BY DEF NextJob, Active
<1>2. /\ loop' \in Loop /\ loop'.pc \in {"top", "claim"} /\ loop'.tries = 0 /\ loop'.res = "none"
      /\ loop'.pc = "claim" => loop'.job \in Jobs
  <2>1. CASE Again
    BY <2>1, Ends DEF Again
  <2>2. CASE ~(loop.todo = {} \/ Stopping)
    <3> DEFINE j == CHOOSE k \in loop.todo : \A m \in loop.todo : k <= m
    <3>1. loop.todo \in SUBSET Jobs /\ loop.todo \in SUBSET Nat /\ loop.todo # {}
      BY <1>1, <2>2, AtRest, MachineAssumption DEF Loop
    <3>2. \E k \in loop.todo : \A m \in loop.todo : k <= m
      BY <3>1, Least
    <3>3. j \in loop.todo
      BY <3>2
    <3>4. loop' = [loop EXCEPT !.pc = "claim", !.job = j, !.todo = @ \ {j}]
      BY <2>2 DEF NextJob
    <3> HIDE DEF j
    <3> QED BY <1>1, <3>1, <3>3, <3>4, AtRest DEF Loop, LoopPcs
  <2> QED BY <2>1, <2>2 DEF NextJob
<1>3. spoke' = FALSE
  BY <1>1, AtRest DEF NextJob, Send
<1>4. PairKept /\ UNCHANGED <<row, jit, watch, late, jobCancel, pending, starts, exit, heard, ran>>
  BY DEF NextJob, PairKept, pairVars, server, files
<1>5. row' \in [Jobs -> Row] /\ DoneIsDone' /\ heard' = FALSE
  BY <1>1, <1>4, AtRest DEF DoneIsDone
<1> QED BY <1>1, <1>2, <1>3, <1>4, <1>5, IdleMove DEF Tokens

LEMMA SettleKeeps ==
  ASSUME MInv, Settle, Tokens
  PROVE  MInv'
<1>1. loop.pc = "settle" /\ Active
  BY DEF Settle, Active
<1>2. loop' = Off \/ loop' = [Off EXCEPT !.pc = "top"]
  BY DEF Settle
<1>3. loop' \in Loop /\ loop'.pc \in {"off", "top"} /\ loop'.tries = 0 /\ loop'.res = "none"
  BY <1>2, Ends
<1>4. PairKept /\ UNCHANGED <<row, jit, watch, late, jobCancel, pending, starts, exit, heard, spoke, ran>>
  BY DEF Settle, PairKept, pairVars, server, files, ghosts
<1>5. row' \in [Jobs -> Row] /\ DoneIsDone' /\ heard' = FALSE /\ spoke' = FALSE
  BY <1>1, <1>4, AtRest DEF DoneIsDone
<1> QED BY <1>1, <1>3, <1>4, <1>5, IdleMove DEF Tokens

----------------------------------------------------------------------------
(* A claim *)

\* A row that is taken was not done, and is not now.
LEMMA TakenKeeps ==
  ASSUME row \in [Jobs -> Row], DoneIsDone, NEW j \in Jobs, NEW mine \in BOOLEAN, TakeRow(j, mine),
         UNCHANGED ran
  PROVE  row' \in [Jobs -> Row] /\ DoneIsDone'
<1>1. /\ row' \in [Jobs -> Row] /\ row'[j].st = "claimed"
      /\ \A i \in Jobs : i # j => row'[i] = row[i]
  BY Taken
<1>2. DoneIsDone'
  BY <1>1 DEF DoneIsDone
<1> QED BY <1>1, <1>2

\* The claim is granted: the lifecycle begins, or a deadline already past is
\* to be reported.
LEMMA ClaimGranted ==
  ASSUME MInv, loop.pc = "claim", TakeRow(loop.job, TRUE), PairKept, Tokens,
         loop'.pc \in {"run", "complete"}, loop' \in Loop, loop'.epoch = row'[loop.job].epoch,
         loop'.job = loop.job, loop'.tries = 0, loop'.res # "job",
         loop'.pc = "run" => loop'.res = "none" /\ jit' = "live" /\ jobCancel' = cancel
                             /\ watch' = [pc |-> "dispatch", renewing |-> TRUE, fired |-> FALSE],
         loop'.pc = "complete" => UNCHANGED <<jit, jobCancel, watch>>,
         spoke' = FALSE, UNCHANGED <<heard, late, pending, starts, exit, ran>>
  PROVE  MInv'
<1>1. loop.job \in Jobs /\ row \in [Jobs -> Row] /\ DoneIsDone
  BY DEF MInv, Watched, Types
<1>2. row' \in [Jobs -> Row] /\ DoneIsDone'
  BY <1>1, TakenKeeps
<1>3. PairTypeOK' /\ Paired'
  BY PairKeeps DEF MInv
<1>4. heard = FALSE /\ jit = "none" /\ watch = NoWatch /\ starts > 0 /\ spoke = FALSE
  BY AtRest DEF MInv, Watched, Types, Active
<1>5. Types'
  <2>1. CASE loop'.pc = "run"
    <3>0. watch' = [pc |-> "dispatch", renewing |-> TRUE, fired |-> FALSE]
      BY <2>1
    <3>1. watch' \in WatchState
      BY <3>0 DEF WatchState
    <3>2. jobCancel' \in BOOLEAN
      BY <2>1, Zenon DEF MInv, Types
    <3> QED BY <1>2, <2>1, <3>1, <3>2 DEF MInv, Types, Tokens
  <2>2. CASE loop'.pc = "complete"
    BY <1>2, <2>2 DEF MInv, Types, Tokens
  <2> QED BY <2>1, <2>2
<1>6. Watched'
  BY <1>1, <1>4, MachineAssumption DEF Watched, Booting, Active, NoWatch
<1>7. Silent'
  BY <1>4 DEF Silent
<1>8. Claimed'
  BY <1>1, <1>2 DEF Claimed, Row
<1>9. Answered'
  BY DEF Answered, Booting
<1> QED BY <1>2, <1>3, <1>5, <1>6, <1>7, <1>8, <1>9 DEF MInv

LEMMA ClaimKeeps ==
  ASSUME MInv, Claim, Tokens
  PROVE  MInv'
<1>1. loop.pc = "claim" /\ Active
  BY DEF Claim, Active
<1>2. loop \in Loop /\ loop.job \in Jobs /\ row \in [Jobs -> Row]
  BY <1>1 DEF MInv, Watched, Types
<1>3. UNCHANGED <<server, code, files, setup, grant, remove, late, pending, starts, exit, ran>>
  BY DEF Claim
<1>4. CASE /\ TakeRow(loop.job, TRUE) /\ Send /\ UNCHANGED <<faults, heard>>
           /\ loop' = [loop EXCEPT !.pc = "run", !.epoch = row'[loop.job].epoch, !.todo = {}]
           /\ StartJit /\ watch' = [pc |-> "dispatch", renewing |-> TRUE, fired |-> FALSE]
  <2>1. row'[loop.job].epoch \in 0 .. MaxClaims
    BY <1>2, <1>4, Taken
  <2>2. /\ loop' \in Loop /\ loop'.pc = "run" /\ loop'.epoch = row'[loop.job].epoch
        /\ loop'.job = loop.job /\ loop'.tries = 0 /\ loop'.res = "none"
    BY <1>1, <1>2, <1>4, <2>1, AtRest DEF Loop, LoopPcs
  <2>3. spoke' = FALSE
    BY <1>1, <1>4, AtRest DEF Send
  <2>4. PairKept
    BY <1>3, <1>4 DEF PairKept
  <2> QED BY <1>1, <1>3, <1>4, <2>2, <2>3, <2>4, ClaimGranted DEF StartJit
<1>5. CASE /\ TakeRow(loop.job, TRUE) /\ Send /\ UNCHANGED <<faults, heard>>
           /\ loop' = [loop EXCEPT !.pc = "complete", !.epoch = row'[loop.job].epoch, !.todo = {},
                                   !.res = "error"]
           /\ UNCHANGED <<jit, jobCancel, watch>>
  <2>1. row'[loop.job].epoch \in 0 .. MaxClaims
    BY <1>2, <1>5, Taken
  <2>2. /\ loop' \in Loop /\ loop'.pc = "complete" /\ loop'.epoch = row'[loop.job].epoch
        /\ loop'.job = loop.job /\ loop'.tries = 0 /\ loop'.res # "job"
    BY <1>1, <1>2, <1>5, <2>1, AtRest DEF Loop, LoopPcs, Results
  <2>3. spoke' = FALSE
    BY <1>1, <1>5, AtRest DEF Send
  <2>4. PairKept
    BY <1>3, <1>5 DEF PairKept
  <2> QED BY <1>1, <1>3, <1>5, <2>2, <2>3, <2>4, ClaimGranted
<1>6. CASE /\ UNCHANGED row \/ TakeRow(loop.job, TRUE)
           /\ faults' = faults \/ Fault
           /\ \/ (Goto("next") \/ Again) /\ UNCHANGED heard
              \/ LoopEnds /\ heard' = TRUE
           /\ UNCHANGED <<jit, jobCancel, watch, spoke>>
  <2>1. /\ loop' \in Loop /\ loop'.pc \in {"off", "top", "next"} /\ loop'.tries = 0 /\ loop'.res = "none"
        /\ heard' = FALSE \/ (heard' = TRUE /\ loop'.pc = "off")
    <3>1. CASE LoopEnds /\ heard' = TRUE
      BY <3>1, Ends DEF LoopEnds
    <3>2. CASE Again /\ UNCHANGED heard
      BY <1>1, <3>2, Ends, AtRest DEF Again
    <3>3. CASE Goto("next") /\ UNCHANGED heard
      BY <1>1, <3>3, AtRest DEF Goto, Loop, LoopPcs
    <3> QED BY <1>6, <3>1, <3>2, <3>3
  <2>2. row' \in [Jobs -> Row] /\ DoneIsDone'
    <3>1. CASE UNCHANGED row
      BY <1>1, <1>3, <3>1, AtRest DEF DoneIsDone
    <3>2. CASE TakeRow(loop.job, TRUE)
      BY <1>1, <1>2, <1>3, <3>2, AtRest, TakenKeeps
    <3> QED BY <1>6, <3>1, <3>2
  <2>3. PairKept /\ spoke' = FALSE
    BY <1>1, <1>3, <1>6, AtRest DEF PairKept
  <2> QED BY <1>1, <1>3, <1>6, <2>1, <2>2, <2>3, IdleMove DEF Tokens
<1> QED BY <1>4, <1>5, <1>6 DEF Claim

----------------------------------------------------------------------------
(* The lifecycle and its watcher *)

LEMMA ListenerReturnsKeeps ==
  ASSUME MInv, ListenerReturns
  PROVE  MInv'
<1>1. PICK r \in Results \ {"none"} :
        /\ loop' = [loop EXCEPT !.res = r]
        /\ ran' = IF r = "job" /\ ~Booting /\ Fenced(loop.job, loop.epoch)
                  THEN {<<j, row[j].epoch>> : j \in Jobs} \cap (ran \cup {<<loop.job, loop.epoch>>})
                  ELSE ran
  BY DEF ListenerReturns
<1>2. /\ jit = "live" /\ jit' = "over"
      /\ UNCHANGED <<pairVars, row, watch, late, cancel, drain, jobCancel, pending, starts, exit, heard, spoke>>
  BY DEF ListenerReturns, signals
<1>3. loop \in Loop /\ row \in [Jobs -> Row] /\ loop.pc \in {"run", "boot"} /\ DoneIsDone
  BY <1>2 DEF MInv, Types, Watched
<1>4. /\ loop' \in Loop /\ loop'.res = r
      /\ loop'.pc = loop.pc /\ loop'.job = loop.job /\ loop'.epoch = loop.epoch /\ loop'.tries = loop.tries
  BY <1>1, <1>3 DEF Loop
<1>5. PairTypeOK' /\ Paired'
  BY <1>2, PairKeeps DEF MInv, PairKept, pairVars, server, files
<1>6. Types'
  BY <1>2, <1>4 DEF MInv, Types
<1>7. Watched'
  BY <1>2, <1>3, <1>4 DEF MInv, Watched, Booting, Active
<1>8. Silent'
  BY <1>2, <1>4 DEF MInv, Silent
<1>9. DoneIsDone'
  <2> SUFFICES ASSUME NEW j \in Jobs, row[j].st = "done" PROVE <<j, row[j].epoch>> \in ran'
    BY <1>2 DEF DoneIsDone
  <2>1. <<j, row[j].epoch>> \in ran
    BY <1>3 DEF DoneIsDone
  <2> QED BY <1>1, <2>1
<1>10. Claimed'
  <2>1. CASE loop.pc = "boot"
    BY <1>4, <2>1 DEF Claimed
  <2>2. CASE loop.pc = "run"
    <3>1. loop.job \in Jobs /\ loop.epoch <= row[loop.job].epoch
      BY <2>2 DEF MInv, Watched, Claimed
    <3>2. ASSUME r = "job", Fenced(loop.job, loop.epoch) PROVE <<loop.job, loop.epoch>> \in ran'
      <4>1. ran' = {<<j, row[j].epoch>> : j \in Jobs} \cap (ran \cup {<<loop.job, loop.epoch>>})
        BY <1>1, <2>2, <3>2 DEF Booting
      <4>2. row[loop.job].epoch = loop.epoch
        BY <3>2 DEF Fenced
      <4> QED BY <3>1, <4>1, <4>2
    <3>3. Fenced(loop.job, loop.epoch)' <=> Fenced(loop.job, loop.epoch)
      BY <1>2, <1>4 DEF Fenced, Holds
    <3> QED BY <1>2, <1>4, <3>1, <3>2, <3>3 DEF Claimed
  <2> QED BY <1>3, <2>1, <2>2
<1>11. Answered'
  BY <1>2, <1>4 DEF MInv, Answered, Booting
<1> QED BY <1>5, <1>6, <1>7, <1>8, <1>9, <1>10, <1>11 DEF MInv

\* A step of the watcher of a job, before a 401 or at one.
LEMMA WatcherMove ==
  ASSUME MInv, loop.pc = "run", watch.pc # "revoked", watch' \in WatchState, watch'.pc # "grace",
         PairKept, UNCHANGED <<row, loop, jit, late, cancel, drain, pending, starts, exit, ran>>,
         jobCancel' \in BOOLEAN, spoke' = FALSE,
         heard' = FALSE \/ (heard' = TRUE /\ watch'.pc = "revoked" /\ jobCancel')
  PROVE  MInv'
<1>1. PairTypeOK' /\ Paired'
  BY PairKeeps DEF MInv
<1>2. Types'
  BY DEF MInv, Types
<1>3. Watched'
  BY DEF MInv, Watched, Booting, Active
<1>4. Silent'
  <2>1. starts > 0
    BY DEF MInv, Watched, Active
  <2> QED BY <2>1 DEF Silent
<1>5. Claimed' /\ DoneIsDone' /\ Answered'
  BY DEF MInv, Claimed, DoneIsDone, Answered, Booting, Fenced, Holds
<1> QED BY <1>1, <1>2, <1>3, <1>4, <1>5 DEF MInv

\* The watcher at work: nobody was answered 401 yet.
LEMMA AtWatch ==
  ASSUME MInv, watch.pc \in {"dispatch", "beat"} \/ (watch.pc = "watch" /\ ~Booting)
  PROVE  loop.pc = "run" /\ heard = FALSE /\ spoke = FALSE /\ watch \in WatchState /\ jobCancel \in BOOLEAN
<1>1. watch # NoWatch => loop.pc \in {"run", "boot"}
  BY DEF MInv, Watched
<1>2. loop.pc = "run"
  BY <1>1 DEF MInv, Watched, NoWatch, Booting
<1> QED BY <1>2 DEF MInv, Types, Silent

\* Where a step of the watcher leaves it.
LEMMA Watches ==
  ASSUME watch \in WatchState
  PROVE  /\ NoWatch \in WatchState /\ NoWatch.pc = "off"
         /\ \A p \in {"watch", "beat", "revoked"} :
              [watch EXCEPT !.pc = p] \in WatchState /\ [watch EXCEPT !.pc = p].pc = p
         /\ \A b \in BOOLEAN :
              /\ [watch EXCEPT !.pc = "watch", !.renewing = b] \in WatchState
              /\ [watch EXCEPT !.pc = "watch", !.renewing = b].pc = "watch"
         /\ [watch EXCEPT !.pc = "watch", !.fired = TRUE] \in WatchState
         /\ [watch EXCEPT !.pc = "watch", !.fired = TRUE].pc = "watch"
  BY DEF WatchState, NoWatch

LEMMA DispatchKeeps ==
  ASSUME MInv, Dispatch
  PROVE  MInv'
<1>1. /\ loop.pc = "run" /\ heard = FALSE /\ spoke = FALSE /\ watch \in WatchState /\ jobCancel \in BOOLEAN
      /\ watch.pc = "dispatch"
  BY AtWatch DEF Dispatch
<1>2. /\ watch' \in WatchState /\ watch'.pc \in {"off", "watch", "revoked"} /\ jobCancel' \in BOOLEAN
      /\ heard' = FALSE \/ (heard' = TRUE /\ watch'.pc = "revoked" /\ jobCancel')
  BY <1>1, Watches DEF Dispatch, Revoke
<1>3. PairKept /\ UNCHANGED <<row, loop, jit, late, cancel, drain, pending, starts, exit, spoke, ran>>
  BY DEF Dispatch, PairKept
<1> QED BY <1>1, <1>2, <1>3, WatcherMove

LEMMA WatchKeeps ==
  ASSUME MInv, Watch
  PROVE  MInv'
<1>1. /\ loop.pc = "run" /\ heard = FALSE /\ spoke = FALSE /\ watch \in WatchState /\ jobCancel \in BOOLEAN
      /\ watch.pc = "watch"
  BY AtWatch DEF Watch
<1>2. watch' \in WatchState /\ watch'.pc \in {"off", "watch", "beat"} /\ jobCancel' \in BOOLEAN
  BY <1>1, Watches DEF Watch, Fire
<1>3. spoke' = FALSE
  BY <1>1 DEF Watch, Send
<1>4. PairKept /\ UNCHANGED <<row, loop, jit, late, cancel, drain, pending, starts, exit, heard, ran>>
  BY DEF Watch, PairKept, pairVars, server, files
<1> QED BY <1>1, <1>2, <1>3, <1>4, WatcherMove

LEMMA HeartbeatKeeps ==
  ASSUME MInv, Heartbeat
  PROVE  MInv'
<1>1. /\ loop.pc = "run" /\ heard = FALSE /\ spoke = FALSE /\ watch \in WatchState /\ jobCancel \in BOOLEAN
      /\ watch.pc = "beat"
  BY AtWatch DEF Heartbeat
<1>2. /\ watch' \in WatchState /\ watch'.pc \in {"off", "watch", "revoked"} /\ jobCancel' \in BOOLEAN
      /\ heard' = FALSE \/ (heard' = TRUE /\ watch'.pc = "revoked" /\ jobCancel')
  <2>1. CASE Revoke
    BY <1>1, <2>1, Watches DEF Revoke
  <2>2. CASE Fire /\ UNCHANGED heard
    BY <1>1, <2>2, Watches DEF Fire
  <2>3. CASE watch' = [watch EXCEPT !.pc = "watch", !.renewing = Fenced(loop.job, loop.epoch)]
             /\ UNCHANGED <<jobCancel, heard>>
    <3>1. Fenced(loop.job, loop.epoch) \in BOOLEAN
      BY DEF Fenced
    <3> QED BY <1>1, <2>3, <3>1, Watches
  <2>4. CASE (watch' = NoWatch \/ watch' = [watch EXCEPT !.pc = "watch"]) /\ UNCHANGED <<jobCancel, heard>>
    BY <1>1, <2>4, Watches
  <2> QED BY <2>1, <2>2, <2>3, <2>4 DEF Heartbeat
<1>3. PairKept /\ UNCHANGED <<row, loop, jit, late, cancel, drain, pending, starts, exit, spoke, ran>>
  BY DEF Heartbeat, PairKept
<1> QED BY <1>1, <1>2, <1>3, WatcherMove

\* The watcher was joined: what it knows decides whether there is a report.
LEMMA LifecycleEndsKeeps ==
  ASSUME MInv, LifecycleEnds, Tokens
  PROVE  MInv'
<1>1. /\ loop.pc = "run" /\ jit' = "none" /\ watch' = NoWatch /\ jobCancel' = FALSE /\ late' = FALSE
      /\ UNCHANGED <<pairVars, row, pending, starts, exit, heard, ran>>
  BY DEF LifecycleEnds
<1>2. /\ loop \in Loop /\ loop.job \in Jobs /\ loop.tries = 0 /\ starts > 0 /\ heard \in BOOLEAN
      /\ spoke = FALSE
  BY <1>1 DEF MInv, Types, Watched, Silent, Active
<1>3. PairTypeOK' /\ Paired'
  BY <1>1, PairKeeps DEF MInv, PairKept, pairVars, server, files
<1>4. NoWatch \in WatchState
  BY DEF NoWatch, WatchState
<1>5. DoneIsDone'
  BY <1>1 DEF MInv, DoneIsDone
<1>6. CASE LoopEnds /\ UNCHANGED spoke
  <2>1. loop' \in Loop /\ loop'.pc = "off" /\ loop'.tries = 0
    BY <1>6, Ends DEF LoopEnds
  <2>2. Types'
    BY <1>1, <1>2, <1>4, <1>6, <2>1 DEF MInv, Types, Tokens
  <2>3. Watched'
    BY <1>1, <2>1 DEF Watched, NoWatch, Booting, Active
  <2>4. Silent' /\ Claimed' /\ Answered'
    BY <1>1, <1>2, <1>6, <2>1 DEF Silent, Claimed, Answered, Booting
  <2> QED BY <1>3, <1>5, <2>2, <2>3, <2>4 DEF MInv
<1>7. CASE /\ watch.pc # "revoked" /\ Send
           /\ loop' = [loop EXCEPT !.pc = "complete", !.tries = 0]
  <2>1. /\ loop' \in Loop /\ loop'.pc = "complete" /\ loop'.tries = 0 /\ loop'.job = loop.job
        /\ loop'.epoch = loop.epoch /\ loop'.res = loop.res
    BY <1>2, <1>7 DEF Loop, LoopPcs
  <2>2. heard = FALSE /\ spoke' = FALSE
    BY <1>1, <1>2, <1>7 DEF MInv, Silent, Send
  <2>3. Types'
    BY <1>1, <1>2, <1>4, <2>1, <2>2 DEF MInv, Types, Tokens
  <2>4. Watched'
    BY <1>1, <1>2, <2>1, MachineAssumption DEF Watched, NoWatch, Booting, Active
  <2>5. Silent' /\ Answered'
    BY <1>1, <2>1, <2>2 DEF Silent, Answered, Booting
  <2>6. Claimed'
    BY <1>1, <2>1 DEF MInv, Claimed, Fenced, Holds
  <2> QED BY <1>3, <1>5, <2>3, <2>4, <2>5, <2>6 DEF MInv
<1> QED BY <1>6, <1>7 DEF LifecycleEnds

----------------------------------------------------------------------------
(* The report *)

LEMMA CompleteKeeps ==
  ASSUME MInv, Complete, Tokens
  PROVE  MInv'
<1>1. loop.pc = "complete" /\ Active
  BY DEF Complete, Active
<1>2. /\ UNCHANGED <<server, code, files, setup, grant, remove, jit, watch, late, jobCancel, pending,
                     starts, exit, spoke, ran>>
      /\ PairKept
  BY DEF Complete, PairKept
<1>3. Reported \/ UNCHANGED row
  BY DEF Complete
<1>4. /\ row' \in [Jobs -> Row] /\ DoneIsDone'
      /\ row'[loop.job].epoch = row[loop.job].epoch
      /\ row'[loop.job].st = "claimed" /\ row'[loop.job].mine =>
           row[loop.job].st = "claimed" /\ row[loop.job].mine
  BY <1>1, <1>2, <1>3, ReportKeeps
<1>5. loop \in Loop /\ heard = FALSE /\ spoke = FALSE
  BY <1>1, AtRest
<1>6. CASE \/ (Goto("settle") \/ loop' = [loop EXCEPT !.pc = "settle"]) /\ UNCHANGED heard
           \/ LoopEnds /\ heard' = TRUE
  <2>1. /\ loop' \in Loop /\ loop'.pc \in {"off", "settle"}
        /\ loop'.pc # "settle" => loop'.tries = 0
        /\ heard' = FALSE \/ (heard' = TRUE /\ loop'.pc = "off")
    <3>1. CASE LoopEnds /\ heard' = TRUE
      BY <3>1, Ends DEF LoopEnds
    <3>2. CASE loop' = [loop EXCEPT !.pc = "settle"] /\ UNCHANGED heard
      BY <1>5, <3>2 DEF Loop, LoopPcs
    <3> QED BY <1>6, <3>1, <3>2 DEF Goto
  <2> QED BY <1>1, <1>2, <1>4, <1>5, <2>1, IdleMove DEF Tokens
<1>7. CASE /\ loop.tries + 1 < Attempts /\ loop' = [loop EXCEPT !.tries = @ + 1] /\ UNCHANGED heard
  <2>1. /\ loop' \in Loop /\ loop'.pc = "complete" /\ loop'.job = loop.job /\ loop'.epoch = loop.epoch
        /\ loop'.res = loop.res /\ loop'.tries < Attempts
    BY <1>1, <1>5, <1>7 DEF Loop
  <2>2. jit = "none" /\ watch = NoWatch /\ starts > 0 /\ loop.job \in Jobs
    BY <1>1 DEF MInv, Types, Watched, Active
  <2>3. PairTypeOK' /\ Paired'
    BY <1>2, PairKeeps DEF MInv
  <2>4. Types'
    BY <1>2, <1>4, <1>5, <1>7, <2>1 DEF MInv, Types, Tokens
  <2>5. Watched'
    BY <1>2, <2>1, <2>2 DEF Watched, NoWatch, Booting, Active
  <2>6. Silent' /\ Answered'
    BY <1>2, <1>5, <1>7, <2>1 DEF Silent, Answered, Booting
  <2>7. Claimed'
    BY <1>1, <1>2, <1>4, <2>1 DEF MInv, Claimed, Fenced, Holds
  <2> QED BY <1>4, <2>3, <2>4, <2>5, <2>6, <2>7 DEF MInv
<1> QED BY <1>6, <1>7 DEF Complete

LEMMA LoopStepKeeps ==
  ASSUME MInv, LoopStep
  PROVE  MInv'
<1>1. Tokens
  BY Zenon DEF MInv, Types, LoopStep, Tokens
<1> QED
  BY <1>1, TopKeeps, ListKeeps, NextJobKeeps, ClaimKeeps, LifecycleEndsKeeps, CompleteKeeps, SettleKeeps
  DEF LoopStep

----------------------------------------------------------------------------
(* What happens around the loop *)

\* The world moves while the loop and the watcher stand still: rows are taken
\* or lapse, the pairing changes, a signal arrives, a deadline passes.
LEMMA WorldMove ==
  ASSUME MInv, PairTypeOK', Paired',
         UNCHANGED <<loop, jit, watch, starts, exit, heard, spoke, ran>>,
         late' \in BOOLEAN, cancel' \in BOOLEAN, drain' \in BOOLEAN, pending' \in BOOLEAN,
         jobCancel' \in BOOLEAN, jobCancel => jobCancel',
         row' \in [Jobs -> Row], DoneIsDone',
         \A j \in Jobs : /\ row[j].epoch <= row'[j].epoch
                         /\ Holds(j)' => Holds(j) /\ row'[j].epoch = row[j].epoch
  PROVE  MInv'
<1>1. Types'
  BY DEF MInv, Types
<1>2. Watched'
  BY DEF MInv, Watched, Booting, Active
<1>3. Silent'
  BY DEF MInv, Silent
<1>4. Claimed'
  <2> SUFFICES ASSUME loop.pc \in {"run", "complete"}
               PROVE  /\ loop.epoch <= row'[loop.job].epoch
                      /\ loop.res = "job" /\ Fenced(loop.job, loop.epoch)' => <<loop.job, loop.epoch>> \in ran
    BY DEF Claimed
  <2>1. loop.job \in Jobs /\ loop \in Loop /\ row \in [Jobs -> Row]
    BY DEF MInv, Watched, Types
  <2>2. loop.epoch <= row'[loop.job].epoch
    BY <2>1 DEF MInv, Claimed, Loop, Row
  <2>3. Fenced(loop.job, loop.epoch)' => Fenced(loop.job, loop.epoch)
    BY <2>1 DEF Fenced
  <2> QED BY <2>2, <2>3 DEF MInv, Claimed
<1>5. Answered'
  BY DEF MInv, Answered, Booting
<1> QED BY <1>1, <1>2, <1>3, <1>4, <1>5 DEF MInv

LEMMA OthersClaimKeeps ==
  ASSUME MInv, OthersClaim
  PROVE  MInv'
<1>1. PICK j \in Jobs : TakeRow(j, FALSE)
  BY DEF OthersClaim
<1>2. UNCHANGED <<pairVars, loop, jit, watch, late, cancel, drain, jobCancel, pending, starts, exit,
                  heard, spoke, ran>>
  BY DEF OthersClaim, signals, ghosts
<1>3. row \in [Jobs -> Row] /\ DoneIsDone
  BY DEF MInv, Types
<1>4. /\ row' \in [Jobs -> Row] /\ row'[j].mine = FALSE
      /\ \A i \in Jobs : row[i].epoch < row'[j].epoch
      /\ \A i \in Jobs : i # j => row'[i] = row[i]
  BY <1>1, <1>3, Taken
<1>5. DoneIsDone'
  BY <1>1, <1>2, <1>3, TakenKeeps
<1>6. ASSUME NEW i \in Jobs
      PROVE  /\ row[i].epoch <= row'[i].epoch
             /\ Holds(i)' => Holds(i) /\ row'[i].epoch = row[i].epoch
  BY <1>3, <1>4 DEF Holds, Row
<1>7. PairTypeOK' /\ Paired'
  BY <1>2, PairKeeps DEF MInv, PairKept, pairVars, server, files
<1> QED BY <1>2, <1>4, <1>5, <1>6, <1>7, WorldMove DEF MInv, Types

LEMMA LapseKeeps ==
  ASSUME MInv, Lapse
  PROVE  MInv'
<1>1. PICK j \in Jobs : /\ row[j].st = "claimed"
                        /\ row' = [row EXCEPT ![j].st = "queued", ![j].mine = FALSE]
  BY DEF Lapse
<1>2. UNCHANGED <<pairVars, loop, jit, watch, late, cancel, drain, jobCancel, pending, starts, exit,
                  heard, spoke, ran>>
  BY DEF Lapse, signals, ghosts
<1>3. row \in [Jobs -> Row] /\ DoneIsDone
  BY DEF MInv, Types
<1>4. /\ row' \in [Jobs -> Row] /\ row'[j].st = "queued" /\ row'[j].epoch = row[j].epoch
      /\ \A i \in Jobs : i # j => row'[i] = row[i]
  BY <1>1, <1>3 DEF Row
<1>5. DoneIsDone'
  BY <1>2, <1>3, <1>4 DEF DoneIsDone
<1>6. ASSUME NEW i \in Jobs
      PROVE  /\ row[i].epoch <= row'[i].epoch
             /\ Holds(i)' => Holds(i) /\ row'[i].epoch = row[i].epoch
  BY <1>3, <1>4 DEF Holds, Row
<1>7. PairTypeOK' /\ Paired'
  BY <1>2, PairKeeps DEF MInv, PairKept, pairVars, server, files
<1> QED BY <1>2, <1>4, <1>5, <1>6, <1>7, WorldMove DEF MInv, Types

\* Rows that stay as they are.
LEMMA RowsStay ==
  ASSUME MInv, UNCHANGED <<row, ran>>
  PROVE  /\ row' \in [Jobs -> Row] /\ DoneIsDone'
         /\ \A j \in Jobs : /\ row[j].epoch <= row'[j].epoch
                            /\ Holds(j)' => Holds(j) /\ row'[j].epoch = row[j].epoch
  BY DEF MInv, Types, DoneIsDone, Holds, Row

LEMMA DeadlinePassesKeeps ==
  ASSUME MInv, DeadlinePasses
  PROVE  MInv'
<1>1. /\ late' = TRUE
      /\ UNCHANGED <<pairVars, row, loop, jit, watch, cancel, drain, jobCancel, pending, starts, exit,
                     heard, spoke, ran>>
  BY DEF DeadlinePasses, signals, ghosts
<1>2. PairTypeOK' /\ Paired'
  BY <1>1, PairKeeps DEF MInv, PairKept, pairVars, server, files
<1> QED BY <1>1, <1>2, RowsStay, WorldMove DEF MInv, Types

LEMMA SignalKeeps ==
  ASSUME MInv, Signal
  PROVE  MInv'
<1>1. /\ cancel' = TRUE
      /\ UNCHANGED <<pairVars, row, loop, jit, watch, late, drain, pending, starts, exit, heard, spoke, ran>>
  BY DEF Signal, ghosts
<1>2. jobCancel' \in BOOLEAN /\ (jobCancel => jobCancel')
  BY Zenon DEF Signal, MInv, Types
<1>3. PairTypeOK' /\ Paired'
  BY <1>1, PairKeeps DEF MInv, PairKept, pairVars, server, files
<1> QED BY <1>1, <1>2, <1>3, RowsStay, WorldMove DEF MInv, Types

LEMMA PairStepKeeps ==
  ASSUME MInv, PairStep
  PROVE  MInv'
<1>1. UNCHANGED <<row, loop, jit, watch, late, cancel, drain, jobCancel, starts, exit, heard, spoke, ran>>
  BY DEF PairStep, ghosts
<1>2. pending' \in BOOLEAN
  BY Zenon DEF PairStep, MInv, Types
<1>3. PairTypeOK' /\ Paired'
  BY PairSteps DEF PairStep, MInv
<1> QED BY <1>1, <1>2, <1>3, RowsStay, WorldMove DEF MInv, Types

LEMMA RemoveStartsKeeps ==
  ASSUME MInv, RemoveStarts
  PROVE  MInv'
<1>1. /\ remove' = "wait" /\ setup = "off"
      /\ UNCHANGED <<tokens, issued, code, config, creds, setup, grant, faults>>
      /\ UNCHANGED <<row, loop, jit, watch, late, cancel, jobCancel, starts, exit, heard, spoke, ran>>
  BY DEF RemoveStarts, Idle, server, files, ghosts
<1>2. drain' \in BOOLEAN /\ pending' \in BOOLEAN
  BY Zenon DEF RemoveStarts, Active
<1>3. PairTypeOK'
  BY <1>1 DEF MInv, PairTypeOK
<1>4. Paired'
  BY <1>1 DEF MInv, Paired
<1> QED BY <1>1, <1>2, <1>3, <1>4, RowsStay, WorldMove DEF MInv, Types

LEMMA LoopStartsKeeps ==
  ASSUME MInv, LoopStarts
  PROVE  MInv'
<1>1. /\ loop.pc = "off" /\ loop' = [Off EXCEPT !.pc = "top"] /\ starts' = starts + 1 /\ heard' = FALSE
      /\ UNCHANGED <<pairVars, row, jit, watch, late, cancel, drain, jobCancel, pending, exit, spoke, ran>>
  BY DEF LoopStarts, signals
<1>2. /\ loop' \in Loop /\ loop'.pc = "top" /\ loop'.tries = 0 /\ loop'.res = "none"
  BY <1>1, Ends
<1>3. jit = "none" /\ watch = NoWatch /\ starts \in Nat /\ spoke = FALSE
  BY <1>1 DEF MInv, Types, Watched, Silent
<1>4. PairTypeOK' /\ Paired'
  BY <1>1, PairKeeps DEF MInv, PairKept, pairVars, server, files
<1>5. Types'
  <2>1. starts' \in Nat
    BY <1>1, <1>3
  <2>2. heard' \in BOOLEAN
    BY <1>1, Zenon
  <2> QED BY <1>1, <1>2, <2>1, <2>2 DEF MInv, Types
<1>6. Watched'
  BY <1>1, <1>2, <1>3 DEF Watched, NoWatch, Booting, Active
<1>7. Silent' /\ Claimed' /\ Answered' /\ DoneIsDone'
  BY <1>1, <1>2, <1>3 DEF MInv, Silent, Claimed, Answered, DoneIsDone, Booting
<1> QED BY <1>4, <1>5, <1>6, <1>7 DEF MInv

----------------------------------------------------------------------------
(* boot *)

\* An exit code is none of the codes a boot ends with until it has one.
LEMMA NotRunning == Running \notin {"0", "1", "2", "5", "124"}
  BY Zenon DEF Running

\* A machine that never started a loop was never answered 401.
LEMMA NeverHeard ==
  ASSUME MInv, starts = 0
  PROVE  heard = FALSE /\ spoke = FALSE
  BY DEF MInv, Silent, Types

LEMMA BootKeeps ==
  ASSUME MInv, Boot
  PROVE  MInv'
<1>1. /\ loop.pc = "off" /\ starts = 0 /\ exit = Running
      /\ UNCHANGED <<pairVars, row, late, cancel, drain, pending, starts, heard, spoke, ran>>
  BY DEF Boot, ghosts
<1>2. jit = "none" /\ watch = NoWatch /\ heard = FALSE /\ spoke = FALSE
  BY <1>1, NeverHeard DEF MInv, Types, Watched
<1>3. PairTypeOK' /\ Paired'
  BY <1>1, PairKeeps DEF MInv, PairKept, pairVars, server, files
<1>4. DoneIsDone' /\ Silent'
  BY <1>1, <1>2 DEF MInv, DoneIsDone, Silent
<1>5. CASE exit' \in {"2", "124"} /\ UNCHANGED <<loop, jit, jobCancel, watch>>
  <2>1. Types'
    BY <1>1, <1>5 DEF MInv, Types
  <2>2. Watched' /\ Claimed' /\ Answered'
    BY <1>1, <1>5 DEF MInv, Watched, Claimed, Answered, Booting, Active
  <2> QED BY <1>3, <1>4, <2>1, <2>2 DEF MInv
<1>6. CASE /\ loop' = [Off EXCEPT !.pc = "boot"] /\ jit' = "live" /\ jobCancel' = cancel
           /\ watch' \in {NoWatch, [NoWatch EXCEPT !.pc = "watch"]}
           /\ UNCHANGED exit
  <2>1. loop' \in Loop /\ loop'.pc = "boot" /\ loop'.tries = 0 /\ loop'.res = "none"
    BY <1>6, Ends DEF Off, Loop, LoopPcs
  <2>2. watch' \in WatchState /\ watch'.pc \in {"off", "watch"}
    <3>1. NoWatch \in WatchState /\ NoWatch.pc = "off"
      BY DEF NoWatch, WatchState
    <3>2. /\ [NoWatch EXCEPT !.pc = "watch"] \in WatchState
          /\ [NoWatch EXCEPT !.pc = "watch"].pc = "watch"
      BY DEF NoWatch, WatchState
    <3> QED BY <1>6, <3>1, <3>2
  <2>3. jobCancel' \in BOOLEAN
    BY <1>6, Zenon DEF MInv, Types
  <2>4. Types'
    BY <1>1, <1>6, <2>1, <2>2, <2>3 DEF MInv, Types
  <2>5. Watched'
    BY <1>1, <1>6, <2>1, <2>2 DEF Watched, Booting, Active
  <2>6. Claimed' /\ Answered'
    BY <1>1, <1>6, <2>1 DEF Claimed, Answered
  <2> QED BY <1>3, <1>4, <2>4, <2>5, <2>6 DEF MInv
<1> QED BY <1>5, <1>6 DEF Boot, StartJit

LEMMA WatchdogKeeps ==
  ASSUME MInv, Watchdog
  PROVE  MInv'
<1>1. /\ Booting /\ exit = Running
      /\ UNCHANGED <<pairVars, row, loop, jit, late, drain, pending, starts, heard, spoke, ran>>
  BY DEF Watchdog, ghosts
<1>2. starts = 0 /\ heard = FALSE /\ spoke = FALSE /\ watch \in WatchState /\ loop.pc = "boot"
  BY <1>1, NeverHeard DEF MInv, Watched, Types, Booting
<1>3. PairTypeOK' /\ Paired'
  BY <1>1, PairKeeps DEF MInv, PairKept, pairVars, server, files
<1>4. DoneIsDone' /\ Silent' /\ Claimed'
  BY <1>1, <1>2 DEF MInv, DoneIsDone, Silent, Claimed
<1>5. CASE /\ watch.pc = "watch" /\ watch' = NoWatch /\ UNCHANGED <<cancel, jobCancel, exit>>
  <2>1. watch' \in WatchState /\ watch'.pc = "off"
    BY <1>5 DEF NoWatch, WatchState
  <2>2. Types'
    BY <1>1, <1>5, <2>1 DEF MInv, Types
  <2>3. Watched' /\ Answered'
    BY <1>1, <1>2, <1>5, <2>1 DEF MInv, Watched, Answered, Booting, Active
  <2> QED BY <1>3, <1>4, <2>2, <2>3 DEF MInv
<1>6. CASE /\ watch' = [watch EXCEPT !.pc = "grace", !.fired = TRUE]
           /\ cancel' = TRUE /\ jobCancel' = TRUE /\ UNCHANGED exit
  <2>1. watch' \in WatchState /\ watch'.pc = "grace" /\ watch'.fired
    BY <1>2, <1>6 DEF WatchState
  <2>2. Types'
    BY <1>1, <1>6, <2>1 DEF MInv, Types
  <2>3. Watched' /\ Answered'
    BY <1>1, <1>2, <1>6, <2>1 DEF MInv, Watched, Answered, Booting, Active
  <2> QED BY <1>3, <1>4, <2>2, <2>3 DEF MInv
<1>7. CASE watch.pc = "grace" /\ exit' = "124" /\ UNCHANGED <<watch, cancel, jobCancel>>
  <2>1. watch.fired
    BY <1>7 DEF MInv, Watched
  <2>2. Types'
    BY <1>1, <1>7 DEF MInv, Types
  <2>3. Watched'
    BY <1>1, <1>7 DEF MInv, Watched, Booting, Active
  <2>4. Answered'
    BY <1>7, <2>1 DEF Answered
  <2> QED BY <1>3, <1>4, <2>2, <2>3, <2>4 DEF MInv
<1> QED BY <1>5, <1>6, <1>7 DEF Watchdog

\* exit_code_for gives 0 only to a job or to none.
LEMMA ExitCodes ==
  ASSUME NEW r, NEW c \in ExitCode(r)
  PROVE  c \in {"0", "1", "5"} /\ (c = "0" => r \in {"job", "idle"})
<1>1. CASE r = "idle"
  BY <1>1 DEF ExitCode
<1>2. CASE r = "job"
  BY <1>2 DEF ExitCode
<1>3. CASE r = "conflict"
  BY <1>3 DEF ExitCode
<1>4. CASE r \notin {"idle", "job", "conflict"}
  BY <1>4 DEF ExitCode
<1> QED BY <1>1, <1>2, <1>3, <1>4

LEMMA BootReturnsKeeps ==
  ASSUME MInv, BootReturns
  PROVE  MInv'
<1>1. /\ Booting /\ jit = "over"
      /\ UNCHANGED <<pairVars, row, loop, jit, watch, late, cancel, drain, jobCancel, pending, starts,
                     heard, spoke, ran>>
  BY DEF BootReturns, Stop, signals, ghosts
<1>2. /\ exit' \in {"0", "1", "5", "124"} /\ (exit' = "124" <=> watch.fired)
      /\ exit' = "0" => loop.res \in {"job", "idle"}
  BY ExitCodes DEF BootReturns
<1>3. PairTypeOK' /\ Paired'
  BY <1>1, PairKeeps DEF MInv, PairKept, pairVars, server, files
<1>4. Types'
  BY <1>1, <1>2 DEF MInv, Types
<1>5. Watched' /\ Silent' /\ Claimed' /\ DoneIsDone'
  BY <1>1 DEF MInv, Watched, Silent, Claimed, DoneIsDone, Booting, Active, Fenced, Holds
<1>6. Answered'
  BY <1>1, <1>2 DEF Answered, Booting
<1> QED BY <1>3, <1>4, <1>5, <1>6 DEF MInv

----------------------------------------------------------------------------
(* The theorems *)

LEMMA MInvInit == Init => MInv
<1> SUFFICES ASSUME Init PROVE MInv
  OBVIOUS
<1>1. loop = Off /\ watch = NoWatch /\ jit = "none" /\ starts = 0 /\ exit = Running
      /\ row = [j \in Jobs |-> [st |-> "queued", epoch |-> 0, mine |-> FALSE]]
      /\ heard = FALSE /\ spoke = FALSE
  BY DEF Init
<1>2. PairTypeOK /\ Paired
  <2>1. /\ tokens = {} /\ issued = 0 /\ code = "none" /\ config = FALSE /\ creds = 0
        /\ setup = "off" /\ grant = 0 /\ remove = "off" /\ faults = 0
    BY DEF Init, PairInit
  <2>2. config \in BOOLEAN
    BY <2>1, Zenon
  <2>3. PairTypeOK
    BY <2>1, <2>2, PairingAssumption DEF PairTypeOK, Codes
  <2>4. Paired
    BY <2>1 DEF Paired
  <2> QED BY <2>3, <2>4
<1>3. row \in [Jobs -> Row] /\ DoneIsDone
  BY <1>1, MachineAssumption DEF Row, DoneIsDone
<1>4. NoWatch \in WatchState
  BY DEF NoWatch, WatchState
<1>5. Types
  <2>1. /\ late \in BOOLEAN /\ cancel \in BOOLEAN /\ drain \in BOOLEAN /\ jobCancel \in BOOLEAN
        /\ pending \in BOOLEAN /\ heard \in BOOLEAN /\ spoke \in BOOLEAN
    BY Zenon DEF Init
  <2> QED BY <1>1, <1>3, <1>4, <2>1, Ends DEF Types
<1>6. Watched /\ Silent /\ Claimed /\ Answered
  BY <1>1, Ends DEF Watched, Silent, Claimed, Answered, NoWatch, Booting, Active
<1> QED BY <1>2, <1>3, <1>5, <1>6 DEF MInv

LEMMA MInvStep == MInv /\ [Next]_vars => MInv'
<1> SUFFICES ASSUME MInv, [Next]_vars PROVE MInv'
  OBVIOUS
<1>1. CASE UNCHANGED vars
  <2>1. /\ UNCHANGED <<pairVars, row, loop, jit, watch, late, cancel, drain, jobCancel, pending, starts,
                       exit, heard, spoke, ran>>
    BY <1>1 DEF vars, signals, ghosts
  <2>2. PairTypeOK' /\ Paired'
    BY <2>1, PairKeeps DEF MInv, PairKept, pairVars, server, files
  <2> QED BY <2>1, <2>2, RowsStay, WorldMove DEF MInv, Types
<1>2. CASE Next
  BY <1>2, OthersClaimKeeps, LapseKeeps, LoopStartsKeeps, LoopStepKeeps, DispatchKeeps, WatchKeeps,
     HeartbeatKeeps, ListenerReturnsKeeps, DeadlinePassesKeeps, SignalKeeps, RemoveStartsKeeps,
     PairStepKeeps, BootKeeps, WatchdogKeeps, BootReturnsKeeps DEF Next, WatchStep
<1> QED BY <1>1, <1>2

\* The invariant is what the runs check.
LEMMA MInvTrue == MInv => ClaimsAreTrue
<1> SUFFICES ASSUME MInv PROVE ClaimsAreTrue
  OBVIOUS
<1>1. TypeOK
  <2>1. row \in [Jobs -> [st : {"queued", "claimed", "done", "failed"}, epoch : 0 .. MaxClaims,
                          mine : BOOLEAN]]
    BY DEF MInv, Types, Row
  <2>2. loop.pc \in LoopPcs /\ loop.res \in Results
    BY DEF MInv, Types, Loop
  <2>3. watch.pc \in {"off", "dispatch", "watch", "beat", "revoked", "grace"}
    BY DEF MInv, Types, WatchState
  <2> QED BY <2>1, <2>2, <2>3 DEF TypeOK, MInv, Types, Watched, LoopPcs
<1>2. ListedHasToken
  BY DEF MInv, Paired, ListedHasToken
<1>3. SilentOnceRevoked
  BY DEF MInv, Silent, Watched, SilentOnceRevoked
<1>4. ExitIsTrue
  BY DEF MInv, Answered, ExitIsTrue
<1> QED BY <1>1, <1>2, <1>3, <1>4 DEF ClaimsAreTrue, MInv

\* A listed machine has a token, a revoked one is silent, a row that toolu.sh
\* shows as done was run by the claim that reported it, and boot's exit code
\* tells what happened (poll_loop, poll_job, boot_cmd, setup::toolu).
THEOREM MachineTellsTheTruth == Spec => []ClaimsAreTrue
  BY MInvInit, MInvStep, MInvTrue, PTL DEF Spec

\* `remove` forgets a host token only once toolu.sh no longer accepts it
\* (toolu_host::revoke).
THEOREM RemoveIsSafe == Spec => RemoveRevokesFirst
<1>1. MInv /\ [Next]_vars => [remove = "creds" /\ creds # 0 /\ creds' = 0 => creds \notin tokens]_vars
  BY DEF MInv, Paired
<1> QED BY <1>1, MInvInit, MInvStep, PTL DEF Spec, RemoveRevokesFirst

=============================================================================
