--------------------------- MODULE ListenerProofs ---------------------------
(***************************************************************************)
(* Theorems about one listener lifecycle, for every number of session      *)
(* attempts, report attempts, broker messages and step updates, and every  *)
(* outage threshold.                                                       *)
(***************************************************************************)
EXTENDS Listener, TLAPS

Before == {"connect", "waiting", "idle", "polling", "refreshing", "acquire"}
After  == {"report", "backoff", "cleanup", "over"}

\* ValuesOK is inductive once a conflicted attempt that is waited out is known
\* not to be the last.
Values == ValuesOK /\ (main = "waiting" => attempt < MaxAttempts)

\* The job's tasks run only while the lifecycle awaits the job.
Phases ==
  /\ main \in Before =>
       /\ renewal = "off" /\ engine = "off" /\ watcher = "off"
       /\ ~jobCancel /\ loss = "none" /\ verdict = "none"
       /\ queue = 0 /\ flight = 0
  /\ main \in After => renewal \in {"off", "stopped"} /\ watcher = "off"
  /\ main # "execute" => engine \in {"off", "done"}
  /\ main \notin After => conclusion = "none" /\ ghJob \in {"none", "assigned"}

\* Why the job was cancelled survives until its conclusion is fixed.
Blame ==
  /\ wcursor <= Len(inbox)
  /\ jobCancel => CancelReceived \/ loss # "none"
  /\ verdict = "cancelled" => jobCancel
  /\ conclusion = "cancelled" => CancelReceived /\ loss = "none"
  /\ ghJob = "cancelled" => conclusion = "cancelled"

\* What the drain leaves behind: an empty queue, or an expired deadline.
Drained ==
  main \in {"joining"} \cup After => expired \/ (queue = 0 /\ flight = 0)

\* A verdict is there as soon as the engine concludes, a conclusion as soon as
\* there is something to report, and an outcome only where GitHub's record of the
\* job already agrees with it.
Truth ==
  /\ engine \in {"winding", "done"} => verdict # "none"
  /\ main \in {"draining", "joining"} => engine = "done"
  /\ main \in {"report", "backoff"} => conclusion # "none"
  /\ main \in Before => ~acquired /\ ghJob = "none"
  /\ main \notin {"cleanup", "over"} => result = "none"
  /\ main \in {"cleanup", "over"} =>
       /\ result \in Conclusions => ghJob = result
       /\ result = "none" => ~acquired /\ ghJob = "none"

\* The newest token is the session's own, or waits in the watcher's channel
\* for the session to adopt it.
Fresh ==
  /\ main \in Before => token = exchanges /\ published = 0
  /\ Executing => SessionToken = exchanges
  /\ main \in {"report", "backoff", "cleanup"} => token = exchanges

Inv == FlagsOK /\ Values /\ Phases /\ Blame /\ Drained /\ Truth /\ Fresh

USE DEF mainVars, sessionVars, tokenVars, stopVars, watchVars, lockVars,
        engineVars, stepVars, reportVars, Return, Leave, LoseLock,
        Exchange, Trips

LEMMA InitInv == Init => Inv
<1> SUFFICES ASSUME Init PROVE Inv
  OBVIOUS
<1> USE BoundsAssumption DEF Init
<1>1. FlagsOK
  BY DEF FlagsOK
<1>2. Values
  BY DEF Values, ValuesOK, Losses, Conclusions
<1>3. Phases /\ Drained
  BY DEF Phases, Drained, Before, After
<1>4. Blame
  BY DEF Blame, CancelReceived
<1>5. Truth /\ Fresh
  BY DEF Truth, Fresh, Before, Executing, Conclusions
<1> QED BY <1>1, <1>2, <1>3, <1>4, <1>5 DEF Inv

\* A flag is only ever set to a truth value.
LEMMA FlagsStep == ASSUME FlagsOK, [Next]_vars PROVE FlagsOK'
<1> USE DEF FlagsOK
<1>1. CASE MainStep
  <2>1. CASE SessionCreated \/ SessionConflict \/ SessionRefused \/ ConflictWait
    BY <2>1 DEF SessionCreated, SessionConflict, SessionRefused, ConflictWait, AttemptsSpent
  <2>2. CASE IdleTop \/ IdleMessage \/ PollInterrupted \/ IdleRefresh
    BY <2>2 DEF IdleTop, IdleMessage, PollInterrupted, IdleRefresh
  <2>3. CASE Acquire \/ AcquireUnreadable \/ AcquireFails
    BY <2>3 DEF Acquire, AcquireUnreadable, AcquireFails
  <2>4. CASE DrainBegins \/ DrainEnds \/ JoinRenewal
    BY <2>4 DEF DrainBegins, DrainEnds, JoinRenewal, Override, SessionToken, QueueDone
  <2>5. CASE ReportOk \/ ReportRejected \/ ReportUnanswered \/ ReportBackoff \/ Cleanup
    BY <2>5 DEF ReportOk, ReportRejected, ReportUnanswered, ReportBackoff, Cleanup
  <2> QED BY <1>1, <2>1, <2>2, <2>3, <2>4, <2>5 DEF MainStep
<1>2. CASE PollIdle
  BY <1>2 DEF PollIdle
<1>3. CASE WatchStep
  BY <1>3 DEF WatchStep, WatchMessage, WatchRefresh, WatchInterrupted
<1>4. CASE RenewStep \/ LockClock
  BY <1>4 DEF RenewStep, LockClock, RenewTick, RenewOk, RenewMissing, RenewError
<1>5. CASE EngineStarts \/ StepEvent \/ EngineEnds
  BY <1>5 DEF EngineStarts, StepEvent, EngineEnds, EngineConcludes, EngineFinishes, JobCancelled
<1>6. CASE SendBatch \/ BatchAnswered
  BY <1>6 DEF SendBatch, BatchAnswered
<1>7. CASE Outside
  BY <1>7 DEF Outside, Signal, DrainRequested, Post, Kinds
<1>8. CASE UNCHANGED vars \/ Quiet
  BY <1>8 DEF Quiet, vars
<1> QED BY <1>1, <1>2, <1>3, <1>4, <1>5, <1>6, <1>7, <1>8 DEF Next

\* No step leaves a type or a bound.
LEMMA ValuesStep == ASSUME Values, [Next]_vars PROVE Values'
<1> USE BoundsAssumption DEF Values, ValuesOK, Conclusions, Losses
<1>1. CASE MainStep
  <2>1. CASE SessionCreated
    BY <2>1 DEF SessionCreated
  <2>2. CASE SessionConflict
    BY <2>2 DEF SessionConflict, AttemptsSpent
  <2>3. CASE SessionRefused
    BY <2>3 DEF SessionRefused
  <2>4. CASE ConflictWait
    BY <2>4 DEF ConflictWait
  <2>5. CASE IdleTop
    BY <2>5 DEF IdleTop
  <2>6. CASE IdleMessage
    BY <2>6 DEF IdleMessage
  <2>7. CASE PollInterrupted
    BY <2>7 DEF PollInterrupted
  <2>8. CASE IdleRefresh
    BY <2>8 DEF IdleRefresh
  <2>9. CASE Acquire
    BY <2>9 DEF Acquire
  <2>10. CASE AcquireUnreadable
    BY <2>10 DEF AcquireUnreadable
  <2>11. CASE AcquireFails
    BY <2>11 DEF AcquireFails
  <2>12. CASE DrainBegins
    BY <2>12 DEF DrainBegins
  <2>13. CASE DrainEnds
    BY <2>13 DEF DrainEnds
  <2>14. CASE JoinRenewal
    BY <2>14 DEF JoinRenewal, Override, SessionToken
  <2>15. CASE ReportOk
    BY <2>15 DEF ReportOk
  <2>16. CASE ReportRejected
    BY <2>16 DEF ReportRejected
  <2>17. CASE ReportUnanswered
    BY <2>17 DEF ReportUnanswered
  <2>18. CASE ReportBackoff
    BY <2>18 DEF ReportBackoff
  <2>19. CASE Cleanup
    BY <2>19 DEF Cleanup
  <2> QED BY <1>1, <2>1, <2>2, <2>3, <2>4, <2>5, <2>6, <2>7, <2>8, <2>9, <2>10, <2>11, <2>12, <2>13, <2>14, <2>15, <2>16, <2>17, <2>18, <2>19 DEF MainStep
<1>2. CASE WatchStep
  <2>1. CASE WatchMessage
    BY <2>1 DEF WatchMessage
  <2>2. CASE WatchRefresh
    BY <2>2 DEF WatchRefresh
  <2>3. CASE WatchInterrupted
    BY <2>3 DEF WatchInterrupted
  <2> QED BY <1>2, <2>1, <2>2, <2>3 DEF WatchStep
<1>3. CASE RenewStep
  <2>1. CASE RenewTick
    BY <2>1 DEF RenewTick
  <2>2. CASE RenewOk
    BY <2>2 DEF RenewOk
  <2>3. CASE RenewMissing
    BY <2>3 DEF RenewMissing
  <2>4. CASE RenewError
    BY <2>4 DEF RenewError
  <2> QED BY <1>3, <2>1, <2>2, <2>3, <2>4 DEF RenewStep
<1>4. CASE EngineEnds
  <2>1. CASE EngineConcludes
    BY <2>1 DEF EngineConcludes, JobCancelled
  <2>2. CASE EngineFinishes
    BY <2>2 DEF EngineFinishes
  <2> QED BY <1>4, <2>1, <2>2 DEF EngineEnds
<1>5. CASE PollIdle
  BY <1>5 DEF PollIdle
<1>6. CASE LockClock
  BY <1>6 DEF LockClock
<1>7. CASE EngineStarts
  BY <1>7 DEF EngineStarts
<1>8. CASE StepEvent
  BY <1>8 DEF StepEvent
<1>9. CASE SendBatch
  BY <1>9 DEF SendBatch
<1>10. CASE BatchAnswered
  BY <1>10 DEF BatchAnswered
<1>11. CASE Outside
  <2>1. CASE Signal
    BY <2>1 DEF Signal
  <2>2. CASE DrainRequested
    BY <2>2 DEF DrainRequested
  <2>3. ASSUME NEW kind \in Kinds, Post(kind) PROVE Values'
    BY <2>3 DEF Post
  <2> QED BY <1>11, <2>1, <2>2, <2>3 DEF Outside
<1>12. CASE UNCHANGED vars
  BY <1>12 DEF vars
<1>13. CASE Quiet
  BY <1>13 DEF Quiet, vars
<1> QED BY <1>1, <1>2, <1>3, <1>4, <1>5, <1>6, <1>7, <1>8, <1>9, <1>10, <1>11, <1>12, <1>13 DEF Next

\* No task outlives the await of the job.
LEMMA PhasesStep == ASSUME Inv, [Next]_vars PROVE Phases'
<1> USE DEF Inv, Phases, Before, After, Values, ValuesOK, Conclusions
<1>1. CASE MainStep
  <2>1. CASE SessionCreated \/ SessionConflict \/ SessionRefused \/ ConflictWait
    BY <2>1 DEF SessionCreated, SessionConflict, SessionRefused, ConflictWait, AttemptsSpent
  <2>2. CASE IdleTop \/ IdleMessage \/ PollInterrupted \/ IdleRefresh
    BY <2>2 DEF IdleTop, IdleMessage, PollInterrupted, IdleRefresh
  <2>3. CASE Acquire \/ AcquireUnreadable \/ AcquireFails
    BY <2>3 DEF Acquire, AcquireUnreadable, AcquireFails
  <2>4. CASE DrainBegins \/ DrainEnds \/ JoinRenewal
    BY <2>4 DEF DrainBegins, DrainEnds, JoinRenewal, Override, SessionToken, QueueDone
  <2>5. CASE ReportOk \/ ReportRejected \/ ReportUnanswered \/ ReportBackoff \/ Cleanup
    BY <2>5 DEF ReportOk, ReportRejected, ReportUnanswered, ReportBackoff, Cleanup
  <2> QED BY <1>1, <2>1, <2>2, <2>3, <2>4, <2>5 DEF MainStep
<1>2. CASE PollIdle
  BY <1>2 DEF PollIdle
<1>3. CASE WatchStep
  BY <1>3 DEF WatchStep, WatchMessage, WatchRefresh, WatchInterrupted
<1>4. CASE RenewStep \/ LockClock
  BY <1>4 DEF RenewStep, LockClock, RenewTick, RenewOk, RenewMissing, RenewError
<1>5. CASE EngineStarts \/ StepEvent \/ EngineEnds
  BY <1>5 DEF EngineStarts, StepEvent, EngineEnds, EngineConcludes, EngineFinishes, JobCancelled
<1>6. CASE SendBatch \/ BatchAnswered
  BY <1>6 DEF SendBatch, BatchAnswered
<1>7. CASE Outside
  BY <1>7 DEF Outside, Signal, DrainRequested, Post, Kinds
<1>8. CASE UNCHANGED vars \/ Quiet
  BY <1>8 DEF Quiet, vars
<1> QED BY <1>1, <1>2, <1>3, <1>4, <1>5, <1>6, <1>7, <1>8 DEF Next

\* A JobCancellation the watcher was handed stays handed.
LEMMA CancelStays ==
  ASSUME Values, Blame, wcursor' >= wcursor,
         \/ UNCHANGED inbox
         \/ \E kind \in Kinds : inbox' = Append(inbox, kind),
         CancelReceived, wcursor' \in Nat
  PROVE  CancelReceived'
<1>1. PICK i \in 1..wcursor : inbox[i] = "cancel"
  BY DEF CancelReceived
<1>2. wcursor \in Nat /\ inbox \in Seq(Kinds) /\ i \in 1..Len(inbox)
  BY <1>1 DEF Values, ValuesOK, Blame
<1>3. inbox'[i] = inbox[i]
  BY <1>1, <1>2
<1>4. i \in 1..wcursor'
  BY <1>2
<1> QED BY <1>1, <1>3, <1>4 DEF CancelReceived

\* Every cancellation keeps its reason, and GitHub is told the reason's verdict.
LEMMA BlameStep == ASSUME Inv, [Next]_vars PROVE Blame'
<1> USE DEF Inv, Phases, Before, After
<1>0. UNCHANGED <<inbox, wcursor>> => (CancelReceived' <=> CancelReceived)
  BY DEF CancelReceived
<1>1. CASE MainStep
  <2>1. CASE SessionCreated \/ SessionConflict \/ SessionRefused \/ ConflictWait
    BY <1>0, <2>1 DEF Blame, SessionCreated, SessionConflict, SessionRefused, ConflictWait
  <2>2. CASE IdleTop \/ IdleMessage \/ PollInterrupted \/ IdleRefresh
    BY <1>0, <2>2 DEF Blame, IdleTop, IdleMessage, PollInterrupted, IdleRefresh
  <2>3. CASE Acquire
    BY <2>3 DEF Blame, Acquire, Values, ValuesOK
  <2>4. CASE AcquireUnreadable \/ AcquireFails
    BY <1>0, <2>4 DEF Blame, AcquireUnreadable, AcquireFails
  <2>5. CASE DrainBegins \/ DrainEnds
    BY <1>0, <2>5 DEF Blame, DrainBegins, DrainEnds
  <2>6. CASE JoinRenewal
    BY <1>0, <2>6 DEF Blame, JoinRenewal, Override
  <2>7. CASE ReportOk \/ ReportRejected \/ ReportUnanswered \/ ReportBackoff \/ Cleanup
    BY <1>0, <2>7 DEF Blame, ReportOk, ReportRejected, ReportUnanswered, ReportBackoff, Cleanup
  <2> QED BY <1>1, <2>1, <2>2, <2>3, <2>4, <2>5, <2>6, <2>7 DEF MainStep
<1>2. CASE PollIdle
  BY <1>0, <1>2 DEF Blame, PollIdle
<1>3. CASE WatchMessage
  <2>1. wcursor \in Nat /\ inbox \in Seq(Kinds) /\ UNCHANGED inbox
    BY <1>3 DEF Values, ValuesOK, WatchMessage
  <2>2. wcursor' = wcursor + 1 /\ wcursor' <= Len(inbox')
    BY <1>3, <2>1 DEF WatchMessage
  <2>3. CancelReceived => CancelReceived'
    BY <2>1, <2>2, CancelStays
  <2>4. inbox[wcursor'] = "cancel" => CancelReceived'
    BY <2>1, <2>2 DEF CancelReceived
  <2>5. jobCancel' => jobCancel \/ inbox[wcursor'] = "cancel"
    BY <1>3 DEF WatchMessage
  <2>6. jobCancel => jobCancel'
    BY <1>3 DEF WatchMessage
  <2>7. UNCHANGED <<loss, verdict, conclusion, ghJob>>
    BY <1>3 DEF WatchMessage
  <2> QED BY <2>2, <2>3, <2>4, <2>5, <2>6, <2>7 DEF Blame
<1>4. CASE WatchRefresh \/ WatchInterrupted
  BY <1>0, <1>4 DEF Blame, WatchRefresh, WatchInterrupted
<1>5. CASE RenewTick \/ RenewOk \/ LockClock
  BY <1>0, <1>5 DEF Blame, RenewTick, RenewOk, LockClock
<1>6. CASE RenewMissing \/ RenewError
  BY <1>0, <1>6 DEF Blame, RenewMissing, RenewError, Values, ValuesOK
<1>7. CASE EngineStarts \/ StepEvent \/ EngineEnds
  BY <1>0, <1>7 DEF Blame, EngineStarts, StepEvent, EngineEnds, EngineConcludes, EngineFinishes
<1>8. CASE SendBatch \/ BatchAnswered
  BY <1>0, <1>8 DEF Blame, SendBatch, BatchAnswered
<1>9. CASE Signal \/ DrainRequested
  BY <1>0, <1>9 DEF Blame, Signal, DrainRequested
<1>10. ASSUME NEW kind \in Kinds, Post(kind) PROVE Blame'
  <2>1. wcursor \in Nat /\ inbox \in Seq(Kinds) /\ UNCHANGED wcursor /\ inbox' = Append(inbox, kind)
    BY <1>10 DEF Values, ValuesOK, Post
  <2>2. CancelReceived => CancelReceived'
    BY <2>1, CancelStays
  <2>3. wcursor' <= Len(inbox')
    BY <2>1 DEF Blame
  <2> QED BY <1>10, <2>2, <2>3 DEF Blame, Post
<1>11. CASE UNCHANGED vars \/ Quiet
  BY <1>0, <1>11 DEF Blame, Quiet, vars
<1> QED
  BY <1>1, <1>2, <1>3, <1>4, <1>5, <1>6, <1>7, <1>8, <1>9, <1>10, <1>11
     DEF Next, WatchStep, RenewStep, Outside

\* Only the drain's own two outcomes lead out of "draining", and no update is
\* enqueued once the engine is done.
LEMMA DrainedStep == ASSUME Inv, [Next]_vars PROVE Drained'
<1> USE DEF Inv, Drained, Phases, Before, After
<1>1. CASE MainStep
  <2>1. CASE SessionCreated \/ SessionConflict \/ SessionRefused \/ ConflictWait
    BY <2>1 DEF SessionCreated, SessionConflict, SessionRefused, ConflictWait
  <2>2. CASE IdleTop \/ IdleMessage \/ PollInterrupted \/ IdleRefresh
    BY <2>2 DEF IdleTop, IdleMessage, PollInterrupted, IdleRefresh
  <2>3. CASE Acquire \/ AcquireUnreadable \/ AcquireFails
    BY <2>3 DEF Acquire, AcquireUnreadable, AcquireFails
  <2>4. CASE DrainBegins \/ DrainEnds \/ JoinRenewal
    BY <2>4 DEF DrainBegins, DrainEnds, JoinRenewal, QueueDone
  <2>5. CASE ReportOk \/ ReportRejected \/ ReportUnanswered \/ ReportBackoff \/ Cleanup
    BY <2>5 DEF ReportOk, ReportRejected, ReportUnanswered, ReportBackoff, Cleanup
  <2> QED BY <1>1, <2>1, <2>2, <2>3, <2>4, <2>5 DEF MainStep
<1>2. CASE PollIdle
  BY <1>2 DEF PollIdle
<1>3. CASE WatchStep
  BY <1>3 DEF WatchStep, WatchMessage, WatchRefresh, WatchInterrupted
<1>4. CASE RenewStep \/ LockClock
  BY <1>4 DEF RenewStep, LockClock, RenewTick, RenewOk, RenewMissing, RenewError
<1>5. CASE EngineStarts \/ StepEvent \/ EngineEnds
  BY <1>5 DEF EngineStarts, StepEvent, EngineEnds, EngineConcludes, EngineFinishes
<1>6. CASE SendBatch \/ BatchAnswered
  BY <1>6 DEF SendBatch, BatchAnswered, Values, ValuesOK
<1>7. CASE Outside
  BY <1>7 DEF Outside, Signal, DrainRequested, Post
<1>8. CASE UNCHANGED vars \/ Quiet
  BY <1>8 DEF Quiet, vars
<1> QED BY <1>1, <1>2, <1>3, <1>4, <1>5, <1>6, <1>7, <1>8 DEF Next

\* Only a report that GitHub acknowledged, or a lifecycle that took no job,
\* ends without an error.
LEMMA TruthStep == ASSUME Inv, [Next]_vars PROVE Truth'
<1> USE DEF Inv, Truth, Phases, Before, After, Values, ValuesOK, Conclusions
<1>1. CASE MainStep
  <2>1. CASE SessionCreated \/ SessionConflict \/ SessionRefused \/ ConflictWait
    BY <2>1 DEF SessionCreated, SessionConflict, SessionRefused, ConflictWait, AttemptsSpent
  <2>2. CASE IdleTop \/ IdleMessage \/ PollInterrupted \/ IdleRefresh
    BY <2>2 DEF IdleTop, IdleMessage, PollInterrupted, IdleRefresh
  <2>3. CASE Acquire \/ AcquireUnreadable \/ AcquireFails
    BY <2>3 DEF Acquire, AcquireUnreadable, AcquireFails
  <2>4. CASE DrainBegins \/ DrainEnds
    BY <2>4 DEF DrainBegins, DrainEnds
  <2>5. CASE JoinRenewal
    BY <2>5 DEF JoinRenewal, Override
  <2>6. CASE ReportOk \/ ReportRejected
    BY <2>6 DEF ReportOk, ReportRejected
  <2>7. CASE ReportUnanswered
    BY <2>7 DEF ReportUnanswered
  <2>8. CASE ReportBackoff \/ Cleanup
    BY <2>8 DEF ReportBackoff, Cleanup
  <2> QED BY <1>1, <2>1, <2>2, <2>3, <2>4, <2>5, <2>6, <2>7, <2>8 DEF MainStep
<1>2. CASE PollIdle
  BY <1>2 DEF PollIdle
<1>3. CASE WatchStep
  BY <1>3 DEF WatchStep, WatchMessage, WatchRefresh, WatchInterrupted
<1>4. CASE RenewStep \/ LockClock
  BY <1>4 DEF RenewStep, LockClock, RenewTick, RenewOk, RenewMissing, RenewError
<1>5. CASE EngineStarts \/ StepEvent \/ EngineEnds
  BY <1>5 DEF EngineStarts, StepEvent, EngineEnds, EngineConcludes, EngineFinishes
<1>6. CASE SendBatch \/ BatchAnswered
  BY <1>6 DEF SendBatch, BatchAnswered
<1>7. CASE Outside
  BY <1>7 DEF Outside, Signal, DrainRequested, Post
<1>8. CASE UNCHANGED vars \/ Quiet
  BY <1>8 DEF Quiet, vars
<1> QED BY <1>1, <1>2, <1>3, <1>4, <1>5, <1>6, <1>7, <1>8 DEF Next

\* The watcher refreshes only beside the job, and its last token is adopted
\* before the session is used again.
LEMMA FreshStep == ASSUME Inv, [Next]_vars PROVE Fresh'
<1> USE DEF Inv, Fresh, Phases, Before, After, Executing, SessionToken
<1>0. token \in Nat /\ published \in Nat /\ exchanges \in Nat
  BY DEF Values, ValuesOK
<1>1. CASE MainStep
  <2>1. CASE SessionCreated \/ SessionConflict \/ SessionRefused \/ ConflictWait
    BY <2>1 DEF SessionCreated, SessionConflict, SessionRefused, ConflictWait
  <2>2. CASE IdleTop \/ IdleMessage \/ PollInterrupted \/ IdleRefresh
    BY <1>0, <2>2 DEF IdleTop, IdleMessage, PollInterrupted, IdleRefresh
  <2>3. CASE Acquire \/ AcquireUnreadable \/ AcquireFails
    BY <2>3 DEF Acquire, AcquireUnreadable, AcquireFails
  <2>4. CASE DrainBegins \/ DrainEnds \/ JoinRenewal
    BY <2>4 DEF DrainBegins, DrainEnds, JoinRenewal
  <2>5. CASE ReportOk \/ ReportRejected \/ ReportUnanswered \/ ReportBackoff \/ Cleanup
    BY <2>5 DEF ReportOk, ReportRejected, ReportUnanswered, ReportBackoff, Cleanup
  <2> QED BY <1>1, <2>1, <2>2, <2>3, <2>4, <2>5 DEF MainStep
<1>2. CASE PollIdle
  BY <1>2 DEF PollIdle
<1>3. CASE WatchMessage \/ WatchInterrupted
  BY <1>3 DEF WatchMessage, WatchInterrupted
<1>4. CASE WatchRefresh
  <2>1. Executing /\ UNCHANGED <<main, token>>
    BY <1>4 DEF WatchRefresh, Values, ValuesOK
  <2>2. SessionToken' = exchanges'
    BY <1>0, <1>4, <2>1 DEF WatchRefresh
  <2> QED BY <2>1, <2>2
<1>5. CASE RenewStep \/ LockClock
  BY <1>5 DEF RenewStep, LockClock, RenewTick, RenewOk, RenewMissing, RenewError
<1>6. CASE EngineStarts \/ StepEvent \/ EngineEnds
  BY <1>6 DEF EngineStarts, StepEvent, EngineEnds, EngineConcludes, EngineFinishes
<1>7. CASE SendBatch \/ BatchAnswered
  BY <1>7 DEF SendBatch, BatchAnswered
<1>8. CASE Outside
  BY <1>8 DEF Outside, Signal, DrainRequested, Post
<1>9. CASE UNCHANGED vars \/ Quiet
  BY <1>9 DEF Quiet, vars
<1> QED
  BY <1>1, <1>2, <1>3, <1>4, <1>5, <1>6, <1>7, <1>8, <1>9 DEF Next, WatchStep

LEMMA InvHolds == Spec => []Inv
<1>1. Inv /\ [Next]_vars => Inv'
  BY FlagsStep, ValuesStep, PhasesStep, BlameStep, DrainedStep, TruthStep, FreshStep DEF Inv
<1> QED BY <1>1, InitInv, PTL DEF Spec

\* Every variable of the lifecycle keeps to its type and its bound.
THEOREM ListenerTypes == Spec => []TypeOK
<1>1. Inv => TypeOK
  BY DEF Inv, Values, TypeOK
<1> QED BY <1>1, InvHolds, PTL

\* GitHub records a cancellation only for a job it asked to cancel and whose
\* lock was not lost: the override is applied after the renewal task is joined,
\* so no later 404 or outage can turn up, and a shutdown is a failure.
THEOREM CancelledIsRequested == Spec => []CancelledOnRequest
<1>1. Inv => CancelledOnRequest
  BY DEF Inv, Blame, CancelledOnRequest
<1> QED BY <1>1, InvHolds, PTL

\* The job's conclusion reaches GitHub only after its renewal task has ended and
\* its step queue was flushed or given up.
THEOREM ReportIsLast == Spec => []SettledBeforeReport
<1>1. Inv => SettledBeforeReport
  BY DEF Inv, Phases, Drained, After, SettledBeforeReport, Conclusions
<1> QED BY <1>1, InvHolds, PTL

\* What run() returns can be believed: a conclusion is the one GitHub recorded,
\* and Ok(None) means that no job was ever taken.
THEOREM OutcomeIsTrue == Spec => []AnswersTruthfully
<1>1. Inv => AnswersTruthfully
  BY DEF Inv, Truth, AnswersTruthfully
<1> QED BY <1>1, InvHolds, PTL

\* The session is deleted with the newest token received, whoever refreshed it
\* and however often: a refresh that arrives beside the job is never lost.
THEOREM CleanupIsFresh == Spec => []FreshToken
<1>1. Inv => FreshToken
  BY DEF Inv, Fresh, FreshToken
<1> QED BY <1>1, InvHolds, PTL
=============================================================================
