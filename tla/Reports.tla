------------------------------- MODULE Reports -------------------------------
(***************************************************************************)
(* How a job's events reach GitHub.  The forwarder task takes the engine's *)
(* events one by one and feeds the collector of step results, a log        *)
(* streamer per step, the combined job log, the live feed, the queue of    *)
(* step statuses, the queue of step summaries and the journal; when the    *)
(* engine's channel closes it drains all of them, in an order the          *)
(* completion request depends on, and sends the job's outcome.             *)
(*                                                                         *)
(* Each of those consumers is a task of its own with a bounded or          *)
(* unbounded channel.  A log line is its number; every request may fail    *)
(* while mishaps are left.                                                 *)
(***************************************************************************)
EXTENDS Integers, Sequences, SequencesExt, FiniteSets

CONSTANTS
  ReportJobs,        \* jobs: the engine's events and which services exist
  ChannelCapacity,   \* lines a streamer's channel holds
  SummaryCapacity,   \* documents the summary queue holds
  PutAttempts,       \* PUTs of one summary before it is given up
  LiveCapacity,      \* lines the live feed's channel holds
  FlushThreshold,    \* FLUSH_LINE_THRESHOLD
  MinAttempts        \* MIN_ATTEMPTS_BEFORE_THRESHOLD of the live feed

VARIABLES
  job,       \* the job: its events, services and the mishaps it may meet
  eng,       \* the engine: the next event, and whether its channel is closed
  fwd,       \* the forwarder, its collector
  task,      \* the log tasks: one streamer per step, "job" for the job log
  queue,     \* the step-status queue and its task
  summs,     \* the summary queue and its task
  live,      \* the live feed
  hub,       \* the step statuses GitHub shows
  mishaps    \* failures left

rvars == <<job, eng, fwd, task, queue, summs, live, hub, mishaps>>

Setup == "setup"
JobLog == "job"
Void == [x \in {} |-> x]

Event(e, step, n, c) == [e |-> e, step |-> step, n |-> n, c |-> c]

\* A log task: its channel, what it spooled, the file on disk, the upload.
NewTask(st) ==
  [st |-> st, open |-> TRUE, chan |-> <<>>, spool |-> <<>>, file |-> st = "job",
   tries |-> 0, blob |-> <<>>, url |-> FALSE, joined |-> st = "job", failed |-> FALSE]

ReportsInit ==
  /\ job \in ReportJobs
  /\ eng = [next |-> 1, closed |-> FALSE]
  /\ fwd = [pc |-> "start", setup |-> TRUE, cancel |-> FALSE, journalOpen |-> TRUE,
            verdict |-> "none", results |-> <<>>, notes |-> Void, infra |-> {},
            category |-> FALSE, delivered |-> <<>>, late |-> FALSE]
  /\ task = IF job.results THEN JobLog :> NewTask("job") ELSE Void
  /\ queue = [chan |-> <<>>, batch |-> <<>>, st |-> "idle", open |-> TRUE, lost |-> FALSE]
  /\ summs = [chan |-> <<>>, st |-> "idle", tries |-> 0, open |-> TRUE,
              published |-> <<>>, lost |-> {}]
  /\ live = [chan |-> <<>>, buf |-> <<>>, groups |-> Void, counts |-> Void, total |-> 0,
             failed |-> 0, active |-> TRUE, open |-> job.live, feed |-> <<>>]
  /\ hub = IF job.results THEN Setup :> "in_progress" ELSE Void
  /\ mishaps = job.mishaps

----------------------------------------------------------------------------
(* What one event does.  Each operator takes and returns the forwarder and  *)
(* its channels as one record.                                              *)

Now == [fwd |-> fwd, task |-> task, queue |-> queue, summs |-> summs, live |-> live]

Completed(f, step) == \E i \in 1..Len(f.results) : f.results[i].step = step

\* record_annotation: a completed step's result takes it, else it waits.
Mutant_RecordAnnotation(f, step, n) ==
  [f EXCEPT !.notes = [s \in DOMAIN @ \cup {step} |->
                         (IF s \in DOMAIN @ THEN @[s] ELSE <<>>)
                         \o (IF s = step THEN <<n>> ELSE <<>>)]]

RecordAnnotation(f, step, n) ==
  IF Completed(f, step)
  THEN [f EXCEPT !.results = [i \in 1..Len(@) |->
          IF @[i].step = step THEN [@[i] EXCEPT !.notes = Append(@, n)] ELSE @[i]]]
  ELSE [f EXCEPT !.notes = [s \in DOMAIN @ \cup {step} |->
                              (IF s \in DOMAIN @ THEN @[s] ELSE <<>>)
                              \o (IF s = step THEN <<n>> ELSE <<>>)]]

\* record_completion: the result takes what waited for it; the first failed
\* step with an infrastructure error names the job's category.
RecordCompletion(f, step, c) ==
  [f EXCEPT !.results = Append(@, [step |-> step, c |-> c, url |-> FALSE, lines |-> 0,
                                   notes |-> IF step \in DOMAIN f.notes
                                             THEN f.notes[step] ELSE <<>>]),
            !.notes = [s \in DOMAIN @ \ {step} |-> @[s]],
            !.category = @ \/ (c = "failure" /\ step \in f.infra),
            !.infra = @ \ {step}]

Record(f, ev) ==
  CASE ev.e = "completed"      -> RecordCompletion(f, ev.step, ev.c)
    [] ev.e = "annotation"     -> RecordAnnotation(f, ev.step, ev.n)
    [] ev.e = "infrastructure" ->
         [RecordAnnotation(f, ev.step, ev.n) EXCEPT !.infra = @ \cup {ev.step}]
    [] OTHER                   -> f

\* forward_log_line: the job log, the step's streamer, and the live feed,
\* which drops the line rather than wait.
ForwardLogLine(f, step, n) ==
  [f EXCEPT
     !.task = [s \in DOMAIN @ |->
                 IF s = JobLog /\ @[s].st = "job" THEN [@[s] EXCEPT !.spool = Append(@, n)]
                 ELSE IF s = step /\ @[s].open /\ @[s].st = "run"
                 THEN [@[s] EXCEPT !.chan = Append(@, n)] ELSE @[s]],
     !.live.chan = IF f.live.open /\ Len(@) < LiveCapacity
                   THEN Append(@, [step |-> step, n |-> n]) ELSE @]

\* handle_event_arm: setup keeps its uploader when it completes.
Arm(f, ev) ==
  CASE ev.e = "started" /\ job.results ->
         [f EXCEPT !.task = (ev.step :> NewTask("run")) @@ @]
    [] ev.e = "log" -> ForwardLogLine(f, ev.step, ev.n)
    [] ev.e = "summary" /\ job.results ->
         [f EXCEPT !.summs.chan = Append(@, ev.step)]
    [] ev.e = "completed" /\ ev.step # Setup /\ job.results ->
         [f EXCEPT !.task[ev.step].open = FALSE]
    [] OTHER -> f

\* report_step: a step's start and end are queued; setup's own start was
\* reported before the forwarder ran.
ReportStep(f, ev) ==
  IF job.results /\ (ev.e = "completed" \/ (ev.e = "started" /\ ev.step # Setup))
  THEN [f EXCEPT !.queue.chan =
          Append(@, [step |-> ev.step,
                     status |-> IF ev.e = "started" THEN "in_progress" ELSE "completed"])]
  ELSE f

\* One event through the collector, the channels and the journal.
Deliver(f, ev) ==
  LET recorded == [f EXCEPT !.fwd = Record(@, ev)]
  IN [ReportStep(Arm(recorded, ev), ev) EXCEPT !.fwd.delivered = Append(@, ev)]

\* finish: setup is completed once.
Mutant_FinishSetup(f, c) ==
  Deliver([f EXCEPT !.fwd.setup = FALSE], Event("completed", Setup, 0, c))

FinishSetup(f, c) ==
  IF ~f.fwd.setup THEN f
  ELSE Deliver([f EXCEPT !.fwd.setup = FALSE], Event("completed", Setup, 0, c))

\* before_event: the first step to start, or the job's end, closes setup.
BeforeEvent(f, ev) ==
  CASE ev.e = "started"       -> FinishSetup(f, IF fwd.cancel THEN "cancelled" ELSE "success")
    [] ev.e = "job_completed" -> FinishSetup(f, ev.c)
    [] OTHER                  -> f

\* A log line without a step of its own belongs to setup.
Attributed(ev) ==
  IF ev.e = "log" /\ (fwd.setup \/ ev.step = Setup) THEN [ev EXCEPT !.step = Setup] ELSE ev

\* The sends that wait: a full streamer, a full summary queue.
Mutant_Room(ev) == ev.e = "summary" => Len(summs.chan) < SummaryCapacity

Room(ev) ==
  /\ ev.e = "log" /\ ev.step \in DOMAIN task =>
       \/ ~task[ev.step].open \/ task[ev.step].st # "run"
       \/ Len(task[ev.step].chan) < ChannelCapacity
  /\ ev.e = "summary" => Len(summs.chan) < SummaryCapacity

Becomes(f) ==
  /\ fwd' = f.fwd /\ task' = f.task /\ queue' = f.queue /\ summs' = f.summs
  /\ live' = f.live

----------------------------------------------------------------------------
(* The forwarder.                                                           *)

\* start: setup's step and its lines go first.
StartSetup ==
  /\ fwd.pc = "start"
  /\ LET started == Deliver(Now, Event("started", Setup, 0, ""))
         lined   == Deliver(started, Event("log", Setup, 0, ""))
     IN Becomes([lined EXCEPT !.fwd.pc = "events"])
  /\ UNCHANGED <<job, eng, hub, mishaps>>

\* forward_events: one event, with its closing of setup and its attribution;
\* a journal that is gone ends the loop.  A failed write ends the job log.
ForwardEvent ==
  /\ fwd.pc = "events" /\ ~eng.closed /\ eng.next <= Len(job.events)
  /\ LET ev == Attributed(job.events[eng.next])
         f  == BeforeEvent(Now, ev)
         g  == IF ev.e = "job_completed" THEN [f EXCEPT !.fwd.verdict = ev.c] ELSE f
         h  == [Deliver(g, ev) EXCEPT !.fwd.pc =
                  IF fwd.journalOpen THEN "events" ELSE "finish"]
     IN /\ Room(ev)
        /\ \/ Becomes(h) /\ UNCHANGED mishaps
           \/ /\ mishaps > 0 /\ ev.e = "log" /\ JobLog \in DOMAIN task
              /\ task[JobLog].st = "job"
              /\ Becomes([h EXCEPT !.task[JobLog] =
                            [NewTask("done") EXCEPT !.joined = TRUE, !.failed = TRUE]])
              /\ mishaps' = mishaps - 1
  /\ eng' = [eng EXCEPT !.next = @ + 1]
  /\ UNCHANGED <<job, hub>>

\* The engine's channel closes, after its last event or because it died.
EngineCloses ==
  /\ ~eng.closed
  /\ \/ eng.next > Len(job.events) /\ UNCHANGED mishaps
     \/ eng.next <= Len(job.events) /\ mishaps > 0 /\ mishaps' = mishaps - 1
  /\ eng' = [eng EXCEPT !.closed = TRUE]
  /\ UNCHANGED <<job, fwd, task, queue, summs, live, hub>>

JobIsCancelled ==
  /\ ~fwd.cancel /\ fwd.setup /\ fwd.pc = "events"
  /\ fwd' = [fwd EXCEPT !.cancel = TRUE]
  /\ UNCHANGED <<job, eng, task, queue, summs, live, hub, mishaps>>

\* The journal's reader goes away: the forwarder stops at its next send.
JournalCloses ==
  /\ fwd.pc = "events" /\ fwd.journalOpen /\ mishaps > 0
  /\ mishaps' = mishaps - 1
  /\ fwd' = [fwd EXCEPT !.journalOpen = FALSE]
  /\ UNCHANGED <<job, eng, task, queue, summs, live, hub>>

\* drain_step_uploads drops every sender before it waits for any streamer.
Mutant_ClearUploaders(tasks) == tasks

ClearUploaders(tasks) == [s \in DOMAIN tasks |-> [tasks[s] EXCEPT !.open = FALSE]]

\* finish_forwarder begins: setup still pending has failed.
BeginFinish ==
  /\ fwd.pc = "finish" \/ (fwd.pc = "events" /\ eng.closed)
  /\ LET f == FinishSetup(Now, "failure")
     IN Becomes([f EXCEPT !.fwd.pc = "join", !.task = ClearUploaders(@)])
  /\ UNCHANGED <<job, eng, hub, mishaps>>

\* set_log_url backfills a result that is there.
SetLogUrl(f, s) ==
  [f EXCEPT !.results = [i \in 1..Len(@) |->
     IF @[i].step = s THEN [@[i] EXCEPT !.url = TRUE, !.lines = Len(task[s].spool)]
     ELSE @[i]]]

\* The next finished streamer is joined, whatever it returned.
Mutant_JoinUpload(s) ==
  /\ fwd.pc = "join" /\ task[s].st = "done" /\ ~task[s].joined
  /\ fwd' = IF task[s].url THEN SetLogUrl(fwd, s) ELSE fwd
  /\ task' = IF task[s].url THEN [task EXCEPT ![s].joined = TRUE]
             ELSE [x \in DOMAIN task |->
                     [task[x] EXCEPT !.joined = TRUE,
                                     !.st = IF x = JobLog THEN @ ELSE "done"]]
  /\ UNCHANGED <<job, eng, queue, summs, live, hub, mishaps>>

JoinUpload(s) ==
  /\ fwd.pc = "join" /\ task[s].st = "done" /\ ~task[s].joined
  /\ fwd' = IF task[s].url THEN SetLogUrl(fwd, s) ELSE fwd
  /\ task' = [task EXCEPT ![s].joined = TRUE]
  /\ UNCHANGED <<job, eng, queue, summs, live, hub, mishaps>>

\* spawn_job_log_upload; an empty log is not sent, and its file removed.
SpawnJobLogUpload ==
  /\ fwd.pc = "join" /\ \A s \in DOMAIN task : task[s].joined
  /\ fwd' = [fwd EXCEPT !.pc = "summaries"]
  /\ task' = IF JobLog \in DOMAIN task /\ task[JobLog].st = "job"
             THEN [task EXCEPT ![JobLog].st = IF task[JobLog].spool = <<>> THEN "done" ELSE "sign",
                               ![JobLog].file = task[JobLog].spool # <<>>]
             ELSE task
  /\ summs' = [summs EXCEPT !.open = FALSE]
  /\ UNCHANGED <<job, eng, queue, live, hub, mishaps>>

\* The summary queue is awaited without a deadline, then the status queue
\* is closed.
DrainSummaries ==
  /\ fwd.pc = "summaries" /\ (summs.st = "done" \/ ~job.results)
  /\ fwd' = [fwd EXCEPT !.pc = "statuses"]
  /\ queue' = [queue EXCEPT !.open = FALSE]
  /\ UNCHANGED <<job, eng, task, summs, live, hub, mishaps>>

\* drain: the status queue has until DRAIN_DEADLINE; the outcome is sent and
\* the forwarder, with the live feed's sender, ends.
SendOutcome ==
  /\ fwd.pc = "statuses"
  /\ \/ (queue.st = "done" \/ ~job.results) /\ UNCHANGED mishaps
        /\ fwd' = [fwd EXCEPT !.pc = "sent",
                              !.verdict = IF @ = "none" THEN "failure" ELSE @]
     \/ job.results /\ queue.st # "done" /\ mishaps > 0 /\ mishaps' = mishaps - 1
        /\ fwd' = [fwd EXCEPT !.pc = "sent", !.late = TRUE,
                              !.verdict = IF @ = "none" THEN "failure" ELSE @]
  /\ live' = [live EXCEPT !.open = FALSE]
  /\ UNCHANGED <<job, eng, task, queue, summs, hub>>

----------------------------------------------------------------------------
(* The log tasks.                                                           *)

\* run_loop: a line goes to the spool, which the first line creates; a failed
\* write ends the task and drops the file.
StreamerTakes(s) ==
  /\ task[s].st = "run" /\ task[s].chan # <<>>
  /\ \/ /\ task' = [task EXCEPT ![s].spool = Append(@, Head(task[s].chan)),
                                ![s].chan = Tail(@), ![s].file = TRUE]
        /\ UNCHANGED mishaps
     \/ /\ mishaps > 0 /\ mishaps' = mishaps - 1
        /\ task' = [task EXCEPT ![s].st = "done", ![s].chan = <<>>, ![s].file = FALSE,
                                ![s].failed = TRUE]
  /\ UNCHANGED <<job, eng, fwd, queue, summs, live, hub>>

\* finalize: the sender is gone and the channel empty.
StreamerEnds(s) ==
  /\ task[s].st = "run" /\ task[s].chan = <<>> /\ ~task[s].open
  /\ task' = [task EXCEPT ![s].st = IF task[s].spool = <<>> THEN "done" ELSE "sign"]
  /\ UNCHANGED <<job, eng, fwd, queue, summs, live, hub, mishaps>>

\* A request of the upload fails: only the PUT is tried again, once, and only
\* the metadata's failure is forgiven; SpoolCleanup removes the files in
\* every case.
Mutant_UploadFails(t) ==
  IF t.st = "put" /\ t.tries = 0 THEN [t EXCEPT !.tries = 1]
  ELSE [t EXCEPT !.st = "done", !.file = t.st = "sign", !.url = t.st = "meta",
                 !.failed = t.st # "meta"]

UploadFails(t) ==
  IF t.st = "put" /\ t.tries = 0 THEN [t EXCEPT !.tries = 1]
  ELSE [t EXCEPT !.st = "done", !.file = FALSE, !.url = t.st = "meta",
                 !.failed = t.st # "meta"]

\* upload_step_logs, upload_job_logs: the signed URL, the PUT of the whole
\* spool, the metadata.
UploadProceeds(t) ==
  CASE t.st = "sign" -> [t EXCEPT !.st = "put"]
    [] t.st = "put"  -> [t EXCEPT !.st = "meta", !.blob = t.spool]
    [] t.st = "meta" -> [t EXCEPT !.st = "done", !.file = FALSE, !.url = TRUE]

Upload(s) ==
  /\ task[s].st \in {"sign", "put", "meta"}
  /\ \/ task' = [task EXCEPT ![s] = UploadProceeds(@)] /\ UNCHANGED mishaps
     \/ mishaps > 0 /\ mishaps' = mishaps - 1 /\ task' = [task EXCEPT ![s] = UploadFails(@)]
  /\ UNCHANGED <<job, eng, fwd, queue, summs, live, hub>>

----------------------------------------------------------------------------
(* The step-status queue.                                                   *)

\* run_queue: everything queued goes into one request.
QueueTakes ==
  /\ queue.st = "idle" /\ queue.chan # <<>>
  /\ queue' = [queue EXCEPT !.batch = @ \o queue.chan, !.chan = <<>>, !.st = "sending"]
  /\ UNCHANGED <<job, eng, fwd, task, summs, live, hub, mishaps>>

\* GitHub applies a request's entries in order (external).
ApplyStatuses(h, batch) ==
  FoldLeft(LAMBDA acc, u : (u.step :> u.status) @@ acc, h, batch)

\* flush: a failed request loses its batch; its answer may be all that is lost.
QueueFlushes ==
  /\ queue.st = "sending"
  /\ \/ /\ hub' = ApplyStatuses(hub, queue.batch)
        /\ queue' = [queue EXCEPT !.st = "idle", !.batch = <<>>] /\ UNCHANGED mishaps
     \/ /\ mishaps > 0 /\ mishaps' = mishaps - 1
        /\ hub' \in {hub, ApplyStatuses(hub, queue.batch)}
        /\ queue' = [queue EXCEPT !.st = "idle", !.batch = <<>>, !.lost = TRUE]
  /\ UNCHANGED <<job, eng, fwd, task, summs, live>>

\* The closed queue ends once it is empty.
Mutant_QueueEnds ==
  /\ queue.st = "idle" /\ ~queue.open
  /\ queue' = [queue EXCEPT !.st = "done"]
  /\ UNCHANGED <<job, eng, fwd, task, summs, live, hub, mishaps>>

QueueEnds ==
  /\ queue.st = "idle" /\ queue.chan = <<>> /\ ~queue.open
  /\ queue' = [queue EXCEPT !.st = "done"]
  /\ UNCHANGED <<job, eng, fwd, task, summs, live, hub, mishaps>>

----------------------------------------------------------------------------
(* The summary queue: one document at a time.                               *)

SummaryTakes ==
  /\ summs.st = "idle" /\ summs.chan # <<>>
  /\ summs' = [summs EXCEPT !.st = "sign", !.tries = 0]
  /\ UNCHANGED <<job, eng, fwd, task, queue, live, hub, mishaps>>

\* A document is given up, or published, and the next one's turn comes.
SummaryDone(lost) ==
  [summs EXCEPT !.st = "idle", !.chan = Tail(@),
                !.published = IF lost THEN @ ELSE Append(@, Head(summs.chan)),
                !.lost = IF lost THEN @ \cup {Head(summs.chan)} ELSE @]

\* upload_step_summary: only the PUT is retried.
SummaryUpload ==
  /\ summs.st \in {"sign", "put", "meta"}
  /\ \/ /\ summs' = CASE summs.st = "sign" -> [summs EXCEPT !.st = "put"]
                      [] summs.st = "put"  -> [summs EXCEPT !.st = "meta"]
                      [] summs.st = "meta" -> SummaryDone(FALSE)
        /\ UNCHANGED mishaps
     \/ /\ mishaps > 0 /\ mishaps' = mishaps - 1
        /\ summs' = IF summs.st = "put" /\ summs.tries + 1 < PutAttempts
                    THEN [summs EXCEPT !.tries = @ + 1] ELSE SummaryDone(TRUE)
  /\ UNCHANGED <<job, eng, fwd, task, queue, live, hub>>

SummaryEnds ==
  /\ summs.st = "idle" /\ summs.chan = <<>> /\ ~summs.open
  /\ summs' = [summs EXCEPT !.st = "done"]
  /\ UNCHANGED <<job, eng, fwd, task, queue, live, hub, mishaps>>

----------------------------------------------------------------------------
(* The live feed.                                                           *)

\* drain_into_groups: the buffer by step, each step's lines in order.
Groups(buf) ==
  [s \in {buf[i].step : i \in 1..Len(buf)} |->
     LET own == SelectSeq(buf, LAMBDA l : l.step = s)
     IN [i \in 1..Len(own) |-> own[i].n]]

\* run_loop takes a line whenever there is one; a full buffer is flushed.
LiveTakes ==
  /\ job.live /\ live.groups = Void /\ live.chan # <<>>
  /\ LET buf == Append(live.buf, Head(live.chan))
         full == live.active /\ Len(buf) >= FlushThreshold
     IN live' = [live EXCEPT !.chan = Tail(@),
                             !.buf = IF full THEN <<>> ELSE buf,
                             !.groups = IF full THEN Groups(buf) ELSE Void]
  /\ UNCHANGED <<job, eng, fwd, task, queue, summs, hub, mishaps>>

\* The timer, and the final flush when the channel is closed.
LiveFlushes ==
  /\ job.live /\ live.groups = Void /\ live.chan = <<>> /\ live.active /\ live.buf # <<>>
  /\ live' = [live EXCEPT !.buf = <<>>, !.groups = Groups(live.buf)]
  /\ UNCHANGED <<job, eng, fwd, task, queue, summs, hub, mishaps>>

ShouldDisable(total, failed) == total >= MinAttempts /\ failed > total \div 2

\* send_step_lines: the step's lines are numbered from where the ones
\* delivered before them end; a failed send drops them.
Count(s) == IF s \in DOMAIN live.counts THEN live.counts[s] ELSE 1

Mutant_SendStepLines(s) ==
  /\ s \in DOMAIN live.groups
  /\ LET lines == live.groups[s]
         rest  == [x \in DOMAIN live.groups \ {s} |-> live.groups[x]]
         off   == ShouldDisable(live.total + 1, live.failed + 1)
     IN \/ /\ live' = [live EXCEPT !.total = @ + 1, !.groups = rest,
                         !.counts = (s :> Count(s) + Len(lines)) @@ @,
                         !.feed = Append(@, [step |-> s, start |-> Count(s), lines |-> lines])]
           /\ UNCHANGED mishaps
        \/ /\ mishaps > 0 /\ mishaps' = mishaps - 1
           /\ live' = [live EXCEPT !.total = @ + 1, !.failed = @ + 1, !.active = ~off,
                         !.buf = [i \in 1..Len(lines) |-> [step |-> s, n |-> lines[i]]] \o @,
                         !.counts = (s :> Count(s) + Len(lines)) @@ @,
                         !.groups = IF off THEN Void ELSE rest]
  /\ UNCHANGED <<job, eng, fwd, task, queue, summs, hub>>

SendStepLines(s) ==
  /\ s \in DOMAIN live.groups
  /\ LET lines == live.groups[s]
         rest  == [x \in DOMAIN live.groups \ {s} |-> live.groups[x]]
         off   == ShouldDisable(live.total + 1, live.failed + 1)
     IN \/ /\ live' = [live EXCEPT !.total = @ + 1, !.groups = rest,
                         !.counts = (s :> Count(s) + Len(lines)) @@ @,
                         !.feed = Append(@, [step |-> s, start |-> Count(s), lines |-> lines])]
           /\ UNCHANGED mishaps
        \/ /\ mishaps > 0 /\ mishaps' = mishaps - 1
           /\ live' = [live EXCEPT !.total = @ + 1, !.failed = @ + 1, !.active = ~off,
                         !.groups = IF off THEN Void ELSE rest]
  /\ UNCHANGED <<job, eng, fwd, task, queue, summs, hub>>

----------------------------------------------------------------------------
TaskStep(s) == JoinUpload(s) \/ StreamerTakes(s) \/ StreamerEnds(s) \/ Upload(s)

ForwarderStep ==
  \/ StartSetup \/ ForwardEvent \/ BeginFinish \/ SpawnJobLogUpload
  \/ DrainSummaries \/ SendOutcome

ServiceStep ==
  \/ QueueTakes \/ QueueFlushes \/ QueueEnds
  \/ SummaryTakes \/ SummaryUpload \/ SummaryEnds
  \/ LiveTakes \/ LiveFlushes \/ \E s \in DOMAIN live.groups : SendStepLines(s)

ReportsNext ==
  \/ ForwarderStep \/ ServiceStep \/ EngineCloses \/ JobIsCancelled \/ JournalCloses
  \/ \E s \in DOMAIN task : TaskStep(s)

----------------------------------------------------------------------------
(* Properties.                                                              *)

Sent == fwd.pc = "sent"

\* Every log task that there is, at rest.
Idle == \A s \in DOMAIN task : task[s].st = "done"

\* A step's log is uploaded whole and in order, its result carries the URL
\* and the number of its lines, and a step that logged without a mishap of
\* its own never completes without them (drain_step_uploads).
LogUrlsBackfilled ==
  Sent /\ job.results =>
    \A i \in 1..Len(fwd.results) :
      LET r == fwd.results[i]
          said == SelectSeq(fwd.delivered, LAMBDA ev : ev.e = "log" /\ ev.step = r.step)
      IN /\ r.url => /\ task[r.step].blob = [k \in 1..Len(said) |-> said[k].n]
                     /\ r.lines = Len(said)
         /\ said # <<>> /\ ~task[r.step].failed => r.url

\* The forwarder cannot wait for ever: as long as the outcome is not sent,
\* someone can take a step (no streamer waits for a sender that only the
\* forwarder holds, no queue for a reader that is gone).
NeverStuck == ~Sent => ENABLED ReportsNext

\* When every task has ended no log is left on disk, whatever failed.
NoSpoolLeft == Sent /\ Idle => \A s \in DOMAIN task : ~task[s].file

\* Unless a request failed or the drain ran out of time, the statuses GitHub
\* shows when the outcome is sent are the final ones of every step.
StatusesSettled ==
  Sent /\ job.results /\ ~queue.lost /\ ~fwd.late =>
    /\ \A i \in 1..Len(fwd.results) : hub[fwd.results[i].step] = "completed"
    /\ \A s \in DOMAIN hub : Completed(fwd, s) => hub[s] = "completed"

\* Every annotation of a completed step is in its result, once and in order,
\* before or after the step completed.
AnnotationsKept ==
  Sent => \A i \in 1..Len(fwd.results) :
    LET r == fwd.results[i]
        said == SelectSeq(SubSeq(job.events, 1, eng.next - 1), LAMBDA ev :
                  ev.e \in {"annotation", "infrastructure"} /\ ev.step = r.step)
    IN r.notes = [k \in 1..Len(said) |-> said[k].n]

\* Setup is completed exactly once, before any other step starts, and as
\* cancelled or failed when the job ended without one.
SetupClosedOnce ==
  LET done == {i \in 1..Len(fwd.results) : fwd.results[i].step = Setup}
  IN /\ Cardinality(done) <= 1
     /\ fwd.pc \notin {"start", "events", "finish"} => done = {1}
     /\ \A i \in 1..Len(fwd.delivered) :
          fwd.delivered[i].e = "started" /\ fwd.delivered[i].step # Setup =>
            \E j \in 1..(i - 1) : fwd.delivered[j].e = "completed" /\ fwd.delivered[j].step = Setup

\* The live feed shows a step's lines in order and none twice, and numbers
\* them without a gap, although the feed drops lines and requests fail.
FeedInOrder ==
  \A i, j \in 1..Len(live.feed) :
    LET a == live.feed[i]
        b == live.feed[j]
        between == {k \in (i + 1)..(j - 1) : live.feed[k].step = a.step}
    IN i < j /\ a.step = b.step =>
         /\ \A m \in 1..Len(a.lines), n \in 1..Len(b.lines) : a.lines[m] < b.lines[n]
         /\ between = {} => b.start = a.start + Len(a.lines)

ReportsTypeOK ==
  /\ fwd.pc \in {"start", "events", "finish", "join", "summaries", "statuses", "sent"}
  /\ \A s \in DOMAIN task : Len(task[s].chan) <= ChannelCapacity
  /\ Len(summs.chan) <= SummaryCapacity /\ Len(live.chan) <= LiveCapacity

(* GitHub gets everything before the completion request, once and in order,
   and the forwarder never waits for somebody who waits for it. *)
ReportsAreComplete ==
  /\ ReportsTypeOK /\ LogUrlsBackfilled /\ NeverStuck /\ NoSpoolLeft
  /\ StatusesSettled /\ AnnotationsKept /\ SetupClosedOnce /\ FeedInOrder
=============================================================================
