------------------------------ MODULE Listener ------------------------------
(***************************************************************************)
(* One lifecycle of GitHubListener::run (crates/listener): open a broker   *)
(* session, long-poll until a job message arrives, acquire the job, run it *)
(* beside a cancel watcher, a lock-renewal task and a step-report queue,   *)
(* report its conclusion, delete the session.                              *)
(*                                                                         *)
(* Six activities interleave: the lifecycle itself (main), the watcher     *)
(* future that polls the broker while the job runs, the renewal task, the  *)
(* engine, the step-report task, and the outside (signals, GitHub).  Every *)
(* await is a boundary between two actions; what happens between two       *)
(* awaits is one action.  Durations are abstracted: a sleep may end at any *)
(* time, and only the renewal watchdog's window is counted.                *)
(***************************************************************************)
EXTENDS Naturals, Sequences

CONSTANTS
  MaxAttempts,   \* SessionConflictPolicy.max_attempts (8)
  Threshold,     \* OUTAGE_THRESHOLD, in clock ticks
  MaxReports,    \* bound: complete_job attempts REPORT_RETRY_MAX has room for
  MaxMessages,   \* bound: messages the broker queues for this session
  MaxEntries     \* bound: step updates queued or on the wire at once

ASSUME BoundsAssumption ==
  /\ MaxAttempts \in Nat \ {0}
  /\ MaxReports \in Nat \ {0}
  /\ Threshold \in Nat
  /\ MaxMessages \in Nat
  /\ MaxEntries \in Nat

VARIABLES
  main,        \* where GitHubListener::run is
  result,      \* what it returns
  attempt,     \* the session attempt under way; back to 1 once one succeeds
  acquired,    \* SessionCtx::job_acquired
  cursor,      \* last_message_id of the idle poll
  token,       \* SessionCtx::token, as the number of the exchange it came from
  cancel,      \* the session token: SIGINT/SIGTERM, or a broker message
  drain,       \* the drain token of `run --all`
  jobCancel,   \* the job's own token, a child of cancel
  watcher,     \* where watch_for_gh_cancel is
  wcursor,     \* its last_message_id
  published,   \* the watch channel: a refreshed token, 0 when None
  renewal,     \* where the spawn_renewal task is
  stop,        \* renewal_cancel
  elapsed,     \* ticks since OutageWatchdog::last_ok, capped
  tripped,     \* OutageWatchdog::tripped
  loss,        \* the renewal_loss atomic
  engine,      \* where the engine task is
  verdict,     \* the conclusion it has reached
  queue,       \* updates in the step-report channel
  flight,      \* updates in the request on the wire, 0 when there is none
  closed,      \* the channel's sender is dropped
  expired,     \* drain gave up on the queue task
  reports,     \* complete_job attempts made
  conclusion,  \* the conclusion of the JobOutcome
  inbox,       \* broker: the messages queued for this session, oldest first
  exchanges,   \* broker: tokens handed out
  ghJob        \* GitHub's record of the job

sessionVars == <<attempt, acquired, cursor>>
tokenVars   == <<token, published, exchanges>>
stopVars    == <<cancel, drain, jobCancel>>
watchVars   == <<watcher, wcursor>>
lockVars    == <<renewal, stop, elapsed, tripped, loss>>
engineVars  == <<engine, verdict>>
stepVars    == <<queue, flight, closed, expired>>
reportVars  == <<reports, conclusion, ghJob>>
mainVars    == <<main, result>>
vars == <<mainVars, sessionVars, tokenVars, stopVars, watchVars, lockVars,
          engineVars, stepVars, reportVars, inbox>>

Kinds == {"job", "cancel", "shutdown", "refresh", "other"}
Conclusions == {"success", "failure", "cancelled"}
Losses == {"none", "missing", "timedOut"}

\* Mutant of JobCancelled: the engine is handed the session's token.
SessionCancelled == cancel

\* The job's token is a child of the session's: cancelling either cancels it.
JobCancelled == cancel \/ jobCancel

\* run_acquired_job is being awaited, the watcher beside it.
Executing == main \in {"execute", "draining", "joining"}

\* Mutant of QueueDone: the channel's close is taken for the task's end.
QueueClosed == closed

\* run_queue has returned: the channel is closed and everything was flushed.
QueueDone == closed /\ queue = 0 /\ flight = 0

Init ==
  /\ main = "connect" /\ result = "none"
  /\ attempt = 1 /\ acquired = FALSE /\ cursor = 0
  /\ token = 0 /\ published = 0 /\ exchanges = 0
  /\ cancel = FALSE /\ drain = FALSE /\ jobCancel = FALSE
  /\ watcher = "off" /\ wcursor = 0
  /\ renewal = "off" /\ stop = FALSE /\ elapsed = 0 /\ tripped = FALSE
  /\ loss = "none"
  /\ engine = "off" /\ verdict = "none"
  /\ queue = 0 /\ flight = 0 /\ closed = FALSE /\ expired = FALSE
  /\ reports = 0 /\ conclusion = "none" /\ ghJob = "none"
  /\ inbox = <<>>

-----------------------------------------------------------------------------
(* Opening the session (build_session_ctx, retry_session_conflict).  No    *)
(* session exists yet, so every failure here returns without a cleanup.    *)

Return(outcome) == main' = "over" /\ result' = outcome

\* A new access token was received; one that fails to arrive is not counted.
Exchange == exchanges' = exchanges + 1

SessionCreated ==
  /\ main = "connect"
  /\ main' = "idle"
  /\ Exchange /\ token' = exchanges' /\ attempt' = 1
  /\ UNCHANGED <<result, acquired, cursor, published, stopVars, watchVars,
                 lockVars, engineVars, stepVars, reportVars, inbox>>

\* Mutant of AttemptsSpent: one attempt too many.
AttemptsOverspent == attempt > MaxAttempts

AttemptsSpent == attempt = MaxAttempts

SessionConflict ==
  /\ main = "connect"
  /\ IF AttemptsSpent
     THEN Return("conflict")
     ELSE main' = "waiting" /\ UNCHANGED result
  /\ UNCHANGED <<sessionVars, tokenVars, stopVars, watchVars, lockVars,
                 engineVars, stepVars, reportVars, inbox>>

SessionRefused ==
  /\ main = "connect"
  /\ Return("error")
  /\ UNCHANGED <<sessionVars, tokenVars, stopVars, watchVars, lockVars,
                 engineVars, stepVars, reportVars, inbox>>

\* cancelled_while_waiting: neither arm of the select has priority.
ConflictWait ==
  /\ main = "waiting"
  /\ \/ cancel /\ Return("none") /\ UNCHANGED attempt
     \/ main' = "connect" /\ attempt' = attempt + 1 /\ UNCHANGED result
  /\ UNCHANGED <<acquired, cursor, tokenVars, stopVars, watchVars, lockVars,
                 engineVars, stepVars, reportVars, inbox>>

-----------------------------------------------------------------------------
(* The idle long-poll (poll_until_job).                                    *)

\* Every way out of poll_and_execute goes through cleanup_session.
Leave(outcome) == main' = "cleanup" /\ result' = outcome

\* Mutant of IdleTop: the drain is only raced with the poll.
IdleTopUnchecked ==
  /\ main = "idle" /\ main' = "polling"
  /\ UNCHANGED <<result, sessionVars, tokenVars, stopVars, watchVars, lockVars,
                 engineVars, stepVars, reportVars, inbox>>

\* The drain is looked at before every poll.
IdleTop ==
  /\ main = "idle"
  /\ IF drain THEN Leave("none") ELSE main' = "polling" /\ UNCHANGED result
  /\ UNCHANGED <<sessionVars, tokenVars, stopVars, watchVars, lockVars,
                 engineVars, stepVars, reportVars, inbox>>

\* The broker answers without news, with an error (backed off) or with a
\* message at or behind the cursor (a redelivery, backed off).
PollIdle ==
  /\ main = "polling"
  /\ ~cancel
  /\ main' = "idle"
  /\ UNCHANGED <<result, sessionVars, tokenVars, stopVars, watchVars, lockVars,
                 engineVars, stepVars, reportVars, inbox>>

\* The poll is biased towards the session token and raced with the drain.
PollInterrupted ==
  /\ main \in {"polling", "refreshing"}
  /\ cancel \/ drain
  /\ Leave("none")
  /\ UNCHANGED <<sessionVars, tokenVars, stopVars, watchVars, lockVars,
                 engineVars, stepVars, reportVars, inbox>>

\* The next message: the cursor moves past it, then handle_idle_outcome.
IdleMessage ==
  /\ main = "polling"
  /\ ~cancel
  /\ cursor < Len(inbox)
  /\ cursor' = cursor + 1
  /\ LET kind == inbox[cursor'] IN
     \/ /\ kind = "job"
        /\ main' = "acquire" /\ UNCHANGED <<result, cancel>>
     \/ /\ kind \in {"cancel", "shutdown"}
        /\ cancel' = TRUE /\ Leave("none")
     \/ /\ kind = "refresh"
        /\ main' = "refreshing" /\ UNCHANGED <<result, cancel>>
     \/ /\ kind = "other"
        /\ main' = "idle" /\ UNCHANGED <<result, cancel>>
  /\ UNCHANGED <<attempt, acquired, tokenVars, drain, jobCancel, watchVars,
                 lockVars, engineVars, stepVars, reportVars, inbox>>

\* refresh_idle_token: published on success only; a failed exchange ends the
\* lifecycle.
IdleRefresh ==
  /\ main = "refreshing"
  /\ ~cancel
  /\ \/ /\ Exchange /\ token' = exchanges'
        /\ main' = "idle" /\ UNCHANGED result
     \/ Leave("error") /\ UNCHANGED <<exchanges, token>>
  /\ UNCHANGED <<sessionVars, published, stopVars, watchVars, lockVars,
                 engineVars, stepVars, reportVars, inbox>>

-----------------------------------------------------------------------------
(* Taking the job.  acquire_job is one attempt and is not raced with any   *)
(* token; the acknowledge that follows gates nothing.                      *)

Acquire ==
  /\ main = "acquire"
  /\ acquired' = TRUE /\ ghJob' = "assigned"
  /\ main' = "execute"
  /\ watcher' = "polling" /\ wcursor' = 0
  /\ renewal' = "sleeping" /\ engine' = "setup"
  /\ UNCHANGED <<result, attempt, cursor, tokenVars, stopVars, stop, elapsed,
                 tripped, loss, verdict, stepVars, reports, conclusion, inbox>>

\* The acquired body does not parse: a failure outcome, nothing is started.
AcquireUnreadable ==
  /\ main = "acquire"
  /\ acquired' = TRUE /\ ghJob' = "assigned"
  /\ main' = "report" /\ conclusion' = "failure"
  /\ UNCHANGED <<result, attempt, cursor, tokenVars, stopVars, watchVars,
                 lockVars, engineVars, stepVars, reports, inbox>>

\* The request fails; GitHub may have assigned the job all the same.
AcquireFails ==
  /\ main = "acquire"
  /\ ghJob' \in {ghJob, "assigned"}
  /\ Leave("error")
  /\ UNCHANGED <<sessionVars, tokenVars, stopVars, watchVars, lockVars,
                 engineVars, stepVars, reports, conclusion, inbox>>

-----------------------------------------------------------------------------
(* The cancel watcher (watch_for_gh_cancel), dropped when the job future   *)
(* ends.  A poll without news, an error or a redelivery leaves it polling. *)

WatchMessage ==
  /\ watcher = "polling"
  /\ ~cancel
  /\ wcursor < Len(inbox)
  /\ wcursor' = wcursor + 1
  /\ LET kind == inbox[wcursor'] IN
     \/ kind = "cancel" /\ jobCancel' = TRUE /\ watcher' = "dormant" /\ UNCHANGED cancel
     \/ kind = "shutdown" /\ cancel' = TRUE /\ watcher' = "dormant" /\ UNCHANGED jobCancel
     \/ kind = "refresh" /\ watcher' = "refreshing" /\ UNCHANGED <<cancel, jobCancel>>
     \/ kind \in {"job", "other"} /\ UNCHANGED <<watcher, cancel, jobCancel>>
  /\ UNCHANGED <<mainVars, sessionVars, tokenVars, drain, lockVars, engineVars,
                 stepVars, reportVars, inbox>>

\* refresh_watcher_token: unlike the idle loop, a failed exchange is backed off.
WatchRefresh ==
  /\ watcher = "refreshing"
  /\ ~cancel
  /\ watcher' = "polling"
  /\ \/ Exchange /\ published' = exchanges'
     \/ UNCHANGED <<exchanges, published>>
  /\ UNCHANGED <<mainVars, sessionVars, token, stopVars, wcursor, lockVars,
                 engineVars, stepVars, reportVars, inbox>>

WatchInterrupted ==
  /\ watcher \in {"polling", "refreshing"}
  /\ cancel
  /\ watcher' = "dormant"
  /\ UNCHANGED <<mainVars, sessionVars, tokenVars, stopVars, wcursor, lockVars,
                 engineVars, stepVars, reportVars, inbox>>

-----------------------------------------------------------------------------
(* The lock-renewal task (spawn_renewal) and its OutageWatchdog.           *)

LockClock ==
  /\ renewal \in {"sleeping", "calling"}
  /\ elapsed <= Threshold
  /\ elapsed' = elapsed + 1
  /\ UNCHANGED <<mainVars, sessionVars, tokenVars, stopVars, watchVars, renewal,
                 stop, tripped, loss, engineVars, stepVars, reportVars, inbox>>

\* Mutant of RenewTick: the stop is not raced with the tick.
RenewTickDeaf ==
  /\ renewal = "sleeping" /\ renewal' = "calling"
  /\ UNCHANGED <<mainVars, sessionVars, tokenVars, stopVars, watchVars, stop,
                 elapsed, tripped, loss, engineVars, stepVars, reportVars, inbox>>

\* Biased: a pending stop wins over a due tick.
RenewTick ==
  /\ renewal = "sleeping"
  /\ renewal' = IF stop THEN "stopped" ELSE "calling"
  /\ UNCHANGED <<mainVars, sessionVars, tokenVars, stopVars, watchVars, stop,
                 elapsed, tripped, loss, engineVars, stepVars, reportVars, inbox>>

RenewOk ==
  /\ renewal = "calling"
  /\ renewal' = "sleeping" /\ elapsed' = 0 /\ tripped' = FALSE
  /\ UNCHANGED <<mainVars, sessionVars, tokenVars, stopVars, watchVars, stop,
                 loss, engineVars, stepVars, reportVars, inbox>>

\* record_renewal_loss_once: the first reason stays.
LoseLock(reason) ==
  /\ loss' = IF loss = "none" THEN reason ELSE loss
  /\ jobCancel' = TRUE

RenewMissing ==
  /\ renewal = "calling"
  /\ LoseLock("missing")
  /\ renewal' = "stopped"
  /\ UNCHANGED <<mainVars, sessionVars, tokenVars, cancel, drain, watchVars,
                 stop, elapsed, tripped, engineVars, stepVars, reportVars, inbox>>

\* OutageWatchdog::record_err: strictly longer than the threshold, once.
Trips == ~tripped /\ elapsed > Threshold

RenewError ==
  /\ renewal = "calling"
  /\ renewal' = "sleeping"
  /\ IF Trips
     THEN tripped' = TRUE /\ LoseLock("timedOut")
     ELSE UNCHANGED <<tripped, loss, jobCancel>>
  /\ UNCHANGED <<mainVars, sessionVars, tokenVars, cancel, drain, watchVars,
                 stop, elapsed, engineVars, stepVars, reportVars, inbox>>

-----------------------------------------------------------------------------
(* The engine.  Its steps are data here; what the listener depends on is   *)
(* how its conclusion follows from the two tokens it was given.            *)

\* connect_and_report_setup has returned.
EngineStarts ==
  /\ engine = "setup"
  /\ engine' = "running"
  /\ UNCHANGED <<mainVars, sessionVars, tokenVars, stopVars, watchVars, lockVars,
                 verdict, stepVars, reportVars, inbox>>

\* A step starts or completes, and the forwarder enqueues its update.
StepEvent ==
  /\ engine = "running"
  /\ queue + flight < MaxEntries
  /\ queue' = queue + 1
  /\ UNCHANGED <<mainVars, sessionVars, tokenVars, stopVars, watchVars, lockVars,
                 engineVars, flight, closed, expired, reportVars, inbox>>

\* run_main_and_posts: shutdown before cancellation before the steps' own
\* status; an error of the body is a failure whatever the tokens say.
EngineConcludes ==
  /\ engine = "running"
  /\ engine' = "winding"
  /\ \/ verdict' = "failure"
     \/ ~cancel /\ jobCancel /\ verdict' = "cancelled"
     \/ ~JobCancelled /\ verdict' = "success"
  /\ UNCHANGED <<mainVars, sessionVars, tokenVars, stopVars, watchVars, lockVars,
                 stepVars, reportVars, inbox>>

\* Containers and orphans are gone; job_outcome looks at the shutdown again
\* and JobCompleted closes the event stream.
EngineFinishes ==
  /\ engine = "winding"
  /\ engine' = "done"
  /\ verdict' = IF cancel THEN "failure" ELSE verdict
  /\ UNCHANGED <<mainVars, sessionVars, tokenVars, stopVars, watchVars, lockVars,
                 stepVars, reportVars, inbox>>

-----------------------------------------------------------------------------
(* The step-report queue task (run_queue): everything queued goes into one *)
(* request; a failed request drops its batch like a successful one.        *)

SendBatch ==
  /\ flight = 0 /\ queue > 0
  /\ flight' = queue /\ queue' = 0
  /\ UNCHANGED <<mainVars, sessionVars, tokenVars, stopVars, watchVars, lockVars,
                 engineVars, closed, expired, reportVars, inbox>>

BatchAnswered ==
  /\ flight > 0
  /\ flight' = 0
  /\ UNCHANGED <<mainVars, sessionVars, tokenVars, stopVars, watchVars, lockVars,
                 engineVars, queue, closed, expired, reportVars, inbox>>

-----------------------------------------------------------------------------
(* Winding the job up (finish_forwarder, execute_with_renewal,             *)
(* finish_acquired_job).                                                   *)

\* The event stream ended: close the step queue and wait for its task.
DrainBegins ==
  /\ main = "execute" /\ engine = "done"
  /\ main' = "draining" /\ closed' = TRUE
  /\ UNCHANGED <<result, sessionVars, tokenVars, stopVars, watchVars, lockVars,
                 engineVars, queue, flight, expired, reportVars, inbox>>

\* The task signalled, or the deadline passed; the renewal is told to stop.
DrainEnds ==
  /\ main = "draining"
  /\ \/ QueueDone /\ UNCHANGED expired
     \/ ~QueueDone /\ expired' = TRUE
  /\ main' = "joining" /\ stop' = TRUE
  /\ UNCHANGED <<result, sessionVars, tokenVars, stopVars, watchVars, renewal,
                 elapsed, tripped, loss, engineVars, queue, flight, closed,
                 reportVars, inbox>>

\* Mutant of Override: a renewal 404 leaves the engine's verdict.
OverrideTimeoutOnly(engineVerdict, reason) ==
  IF reason = "timedOut" /\ engineVerdict # "success" THEN "failure" ELSE engineVerdict

\* apply_outage_override: a lost lock turns every verdict but success into a
\* failure.
Override(engineVerdict, reason) ==
  IF reason # "none" /\ engineVerdict # "success" THEN "failure" ELSE engineVerdict

\* Mutant of SessionToken: the watcher's refresh is dropped with the watcher.
SessionTokenKept == token

\* A token the watcher refreshed replaces the session's.
SessionToken == IF published # 0 THEN published ELSE token

\* The renewal task is joined, so its reason is final; the watcher is dropped.
JoinRenewal ==
  /\ main = "joining" /\ renewal = "stopped"
  /\ conclusion' = Override(verdict, loss)
  /\ token' = SessionToken
  /\ watcher' = "off"
  /\ main' = "report"
  /\ UNCHANGED <<result, sessionVars, published, exchanges, stopVars, wcursor,
                 lockVars, engineVars, stepVars, reports, ghJob, inbox>>

-----------------------------------------------------------------------------
(* Reporting the completion (report_completion, retry_transient).          *)

ReportOk ==
  /\ main = "report"
  /\ ghJob' = conclusion
  /\ Leave(conclusion)
  /\ UNCHANGED <<sessionVars, tokenVars, stopVars, watchVars, lockVars,
                 engineVars, stepVars, reports, conclusion, inbox>>

\* Mutant of ReportRejected: the rejection is swallowed.
ReportRejectedSilently ==
  /\ main = "report"
  /\ Leave(conclusion)
  /\ UNCHANGED <<sessionVars, tokenVars, stopVars, watchVars, lockVars,
                 engineVars, stepVars, reportVars, inbox>>

\* A definitive answer: not retried.
ReportRejected ==
  /\ main = "report"
  /\ Leave("error")
  /\ UNCHANGED <<sessionVars, tokenVars, stopVars, watchVars, lockVars,
                 engineVars, stepVars, reportVars, inbox>>

\* No answer, though the request may have landed; retried while the budget
\* lasts.
ReportUnanswered ==
  /\ main = "report"
  /\ ghJob' \in {ghJob, conclusion}
  /\ \/ /\ reports + 1 < MaxReports
        /\ main' = "backoff" /\ reports' = reports + 1 /\ UNCHANGED result
     \/ Leave("error") /\ UNCHANGED reports
  /\ UNCHANGED <<sessionVars, tokenVars, stopVars, watchVars, lockVars,
                 engineVars, stepVars, conclusion, inbox>>

\* A cancelled session does not wait for another attempt.
ReportBackoff ==
  /\ main = "backoff"
  /\ \/ cancel /\ Leave("error")
     \/ main' = "report" /\ UNCHANGED result
  /\ UNCHANGED <<sessionVars, tokenVars, stopVars, watchVars, lockVars,
                 engineVars, stepVars, reportVars, inbox>>

\* cleanup_session: delete the session, join the log uploads.
Cleanup ==
  /\ main = "cleanup"
  /\ main' = "over"
  /\ UNCHANGED <<result, sessionVars, tokenVars, stopVars, watchVars, lockVars,
                 engineVars, stepVars, reportVars, inbox>>

-----------------------------------------------------------------------------
(* The outside: signals, the supervisor's drain, and the broker.           *)

Signal ==
  /\ ~cancel /\ main # "over"
  /\ cancel' = TRUE
  /\ UNCHANGED <<mainVars, sessionVars, tokenVars, drain, jobCancel, watchVars,
                 lockVars, engineVars, stepVars, reportVars, inbox>>

DrainRequested ==
  /\ ~drain /\ main # "over"
  /\ drain' = TRUE
  /\ UNCHANGED <<mainVars, sessionVars, tokenVars, cancel, jobCancel, watchVars,
                 lockVars, engineVars, stepVars, reportVars, inbox>>

Post(kind) ==
  /\ Len(inbox) < MaxMessages /\ main # "over"
  /\ inbox' = Append(inbox, kind)
  /\ UNCHANGED <<mainVars, sessionVars, tokenVars, stopVars, watchVars, lockVars,
                 engineVars, stepVars, reportVars>>

\* The lifecycle has returned and no task it started is left.
Quiet == main = "over" /\ queue = 0 /\ flight = 0 /\ UNCHANGED vars

-----------------------------------------------------------------------------
MainStep ==
  \/ SessionCreated \/ SessionConflict \/ SessionRefused \/ ConflictWait
  \/ IdleTop \/ IdleMessage \/ PollInterrupted \/ IdleRefresh
  \/ Acquire \/ AcquireUnreadable \/ AcquireFails
  \/ DrainBegins \/ DrainEnds \/ JoinRenewal
  \/ ReportOk \/ ReportRejected \/ ReportUnanswered \/ ReportBackoff \/ Cleanup
WatchStep == WatchMessage \/ WatchRefresh \/ WatchInterrupted
RenewStep == RenewTick \/ RenewOk \/ RenewMissing \/ RenewError
EngineEnds == EngineConcludes \/ EngineFinishes
Outside == Signal \/ DrainRequested \/ \E kind \in Kinds : Post(kind)

Next ==
  \/ MainStep \/ PollIdle
  \/ WatchStep
  \/ RenewStep \/ LockClock
  \/ EngineStarts \/ StepEvent \/ EngineEnds
  \/ SendBatch \/ BatchAnswered
  \/ Outside
  \/ Quiet

\* Every task of the runtime runs when it can; the HTTP calls return.
Fairness ==
  /\ WF_vars(MainStep)
  /\ WF_vars(WatchStep)
  /\ WF_vars(RenewStep)
  /\ WF_vars(EngineStarts)
  \* A job may run for ever, a cancelled one has its cleanup grace.
  /\ WF_vars(JobCancelled /\ EngineConcludes)
  /\ WF_vars(EngineFinishes)

Spec == Init /\ [][Next]_vars /\ Fairness

-----------------------------------------------------------------------------
(* Properties.                                                             *)

FlagsOK ==
  /\ acquired \in BOOLEAN /\ stop \in BOOLEAN /\ tripped \in BOOLEAN
  /\ cancel \in BOOLEAN /\ drain \in BOOLEAN /\ jobCancel \in BOOLEAN
  /\ closed \in BOOLEAN /\ expired \in BOOLEAN

ValuesOK ==
  /\ main \in {"connect", "waiting", "idle", "polling", "refreshing", "acquire",
               "execute", "draining", "joining", "report", "backoff", "cleanup",
               "over"}
  /\ result \in {"none", "conflict", "error"} \cup Conclusions
  /\ attempt \in 1..MaxAttempts
  /\ cursor \in 0..MaxMessages /\ wcursor \in 0..MaxMessages
  /\ token \in Nat /\ published \in Nat /\ exchanges \in Nat
  /\ watcher \in {"off", "polling", "refreshing", "dormant"}
  /\ renewal \in {"off", "sleeping", "calling", "stopped"}
  /\ elapsed \in 0..Threshold + 1
  /\ loss \in Losses
  /\ engine \in {"off", "setup", "running", "winding", "done"}
  /\ verdict \in {"none"} \cup Conclusions
  /\ queue \in 0..MaxEntries /\ flight \in 0..MaxEntries
  /\ reports \in 0..MaxReports
  /\ conclusion \in {"none"} \cup Conclusions
  /\ inbox \in Seq(Kinds) /\ Len(inbox) <= MaxMessages
  /\ ghJob \in {"none", "assigned"} \cup Conclusions

\* Every variable keeps to its type and its bound.
TypeOK == FlagsOK /\ ValuesOK

\* The watcher has been handed a JobCancellation.
CancelReceived == \E i \in 1..wcursor : inbox[i] = "cancel"

\* GitHub sees "cancelled" only for a job it asked to cancel: neither a runner
\* shutdown nor a lost lock is ever reported as a cancellation, whenever they
\* strike (after_shutdown, apply_outage_override, the join of the renewal task).
CancelledOnRequest == ghJob = "cancelled" => CancelReceived /\ loss = "none"

\* What run() returns can be trusted: a conclusion means that GitHub has
\* recorded that one, and Ok(None) that no job was acquired.
AnswersTruthfully ==
  main = "over" =>
    /\ result \in Conclusions => ghJob = result
    /\ result = "none" => ~acquired /\ ghJob = "none"

\* By the time GitHub can learn the conclusion nothing more is done in the
\* job's name: the lock is not being renewed, and every step update was sent,
\* unless the drain deadline gave up on the queue.
SettledBeforeReport ==
  ghJob \in Conclusions =>
    renewal \in {"off", "stopped"} /\ (expired \/ (queue = 0 /\ flight = 0))

\* The session is deleted with the newest token the lifecycle received, also
\* when it was the watcher that refreshed it.
FreshToken == main = "cleanup" => token = exchanges

\* A shutdown ends the lifecycle, wherever it is.
ShutdownEnds == cancel ~> main = "over"

\* A drain ends the lifecycle unless a job slipped in first.
DrainEndsIdle == drain ~> (main = "over" \/ acquired)

\* A cancellation queued while the job runs reaches the engine.
CancelReachesJob ==
  (Executing /\ \E i \in 1..Len(inbox) : inbox[i] = "cancel") ~> ~Executing

(* What is asked of a session happens: a shutdown ends it, a drain ends an  *)
(* idle one, and GitHub's cancellation reaches the running job.             *)
RequestsTakeEffect == ShutdownEnds /\ DrainEndsIdle /\ CancelReachesJob
=============================================================================
