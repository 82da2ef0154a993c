------------------------------- MODULE Journal -------------------------------
(***************************************************************************)
(* The job journal: a sink task that appends one numbered line per event   *)
(* to one file per job, and a reader that follows a file while it grows.   *)
(*                                                                         *)
(* A line is written in two pieces (its text and its newline); the         *)
(* buffered writer may hand any number of pieces to the file before it is  *)
(* flushed, so a reader can meet half a line, and a killed runner can      *)
(* leave one.                                                              *)
(***************************************************************************)
EXTENDS Integers, Sequences, SequencesExt, FiniteSets

CONSTANTS
  Retain,        \* JOURNAL_RETAIN: files kept
  PreAcquire,    \* PREACQ_BUF: events buffered before a job is known
  MaxEvents,     \* bound: events the listener emits
  MaxJobs,       \* bound: jobs it acquires
  MaxFaults      \* bound: failed writes and killed runners

VARIABLES
  writer,      \* the writer: buffer, open file, unflushed pieces, seq, failed
  shelf,      \* the files: name -> pieces on disk
  tail,       \* the reader: its file, its offset, the lines it returned
  emitted,    \* events emitted, jobs acquired, faults met
  owed        \* file -> the events its lines stand for, in order

jvars == <<writer, shelf, tail, emitted, owed>>

Piece(seq, ev, part) == [seq |-> seq, ev |-> ev, part |-> part]
NewWriter == [pre |-> <<>>, file |-> 0, buf |-> <<>>, seq |-> 0, failed |-> FALSE]

JournalInit ==
  /\ writer = NewWriter
  /\ shelf = [f \in {} |-> <<>>] /\ owed = [f \in {} |-> <<>>]
  /\ tail = [file |-> 0, offset |-> 0, got |-> <<>>]
  /\ emitted = [events |-> 0, jobs |-> 0, faults |-> 0]

\* write_event: a numbered line goes to the buffered writer.
WriteEvent(w, ev) ==
  [w EXCEPT !.buf = @ \o <<Piece(w.seq, ev, 1), Piece(w.seq, ev, 2)>>, !.seq = @ + 1]

\* buffer_pre_acquire: the oldest event makes room.
BufferPreAcquire(w, ev) ==
  [w EXCEPT !.pre = Append(IF Len(@) >= PreAcquire THEN Tail(@) ELSE @, ev)]

\* handle, for any event but JobAcquired.
Handle ==
  /\ emitted.events < MaxEvents
  /\ LET ev == emitted.events + 1
     IN /\ emitted' = [emitted EXCEPT !.events = ev]
        /\ writer' = IF writer.failed THEN writer
                    ELSE IF writer.file # 0 THEN WriteEvent(writer, ev)
                    ELSE BufferPreAcquire(writer, ev)
        /\ owed' = IF writer.file # 0 THEN [owed EXCEPT ![writer.file] = Append(@, ev)] ELSE owed
  /\ UNCHANGED <<shelf, tail>>

\* prune_jobs_dir: the oldest files go until there is room for one more.
Mutant_Pruned(names) ==
  {f \in names : Cardinality({g \in names : g > f}) < Retain}

Pruned(names) ==
  IF Cardinality(names) < Retain THEN names
  ELSE {f \in names : Cardinality({g \in names : g > f}) < Retain - 1}

\* open_for_job: the open file is flushed and closed and its numbering ends;
\* the new one starts with the events buffered before it.
Mutant_Rotated(w) == [NewWriter EXCEPT !.pre = w.pre, !.seq = w.seq]

Rotated(w) == [NewWriter EXCEPT !.pre = w.pre, !.seq = IF w.file # 0 THEN 0 ELSE w.seq]

Acquire ==
  /\ emitted.jobs < MaxJobs /\ emitted.events < MaxEvents
  /\ LET ev   == emitted.events + 1
         name == emitted.jobs + 1
         kept == Pruned(DOMAIN shelf)
         closed == [f \in kept |-> IF f = writer.file THEN shelf[f] \o writer.buf ELSE shelf[f]]
         opened == [Rotated(writer) EXCEPT !.file = name, !.pre = <<>>]
         lines  == Append(writer.pre, ev)
     IN /\ emitted' = [emitted EXCEPT !.events = ev, !.jobs = name]
        /\ IF writer.failed THEN UNCHANGED <<writer, shelf, owed>>
           ELSE /\ writer' = FoldLeft(WriteEvent, opened, lines)
                /\ shelf' = (name :> <<>>) @@ closed
                /\ owed' = (name :> lines) @@ [f \in kept |-> owed[f]]
  /\ UNCHANGED tail

\* The buffered writer passes pieces on: when it is full, or at a flush.
Flush ==
  /\ writer.buf # <<>>
  /\ \E n \in 1..Len(writer.buf) :
       /\ shelf' = [shelf EXCEPT ![writer.file] = @ \o SubSeq(writer.buf, 1, n)]
       /\ writer' = [writer EXCEPT !.buf = SubSeq(@, n + 1, Len(@))]
  /\ UNCHANGED <<tail, emitted, owed>>

\* fail_once: the first failed write ends journaling; events still drain.
\* What the buffer held is lost.
WriteFails ==
  /\ emitted.faults < MaxFaults /\ writer.file # 0
  /\ emitted' = [emitted EXCEPT !.faults = @ + 1]
  /\ writer' = [NewWriter EXCEPT !.failed = TRUE]
  /\ UNCHANGED <<shelf, tail, owed>>

\* The runner is killed and started again: the buffer is lost.
Restart ==
  /\ emitted.faults < MaxFaults
  /\ emitted' = [emitted EXCEPT !.faults = @ + 1]
  /\ writer' = NewWriter
  /\ UNCHANGED <<shelf, tail, owed>>

\* A reader opens a file that is there.
Watch ==
  /\ tail.file = 0
  /\ \E f \in DOMAIN shelf : tail' = [tail EXCEPT !.file = f]
  /\ UNCHANGED <<writer, shelf, emitted, owed>>

\* poll: everything after the offset, up to the last newline; the offset
\* never passes half a line.  An open file stays readable once pruned.
Complete(pieces) ==
  LET ends == {i \in 1..Len(pieces) : pieces[i].part = 2}
  IN IF ends = {} THEN <<>>
     ELSE SubSeq(pieces, 1, CHOOSE i \in ends : \A j \in ends : j <= i)

Mutant_NextOffset(offset, read, whole) == offset + Len(read)

NextOffset(offset, read, whole) == offset + Len(whole)

Lines(pieces) == SelectSeq(pieces, LAMBDA p : p.part = 2)

Poll ==
  /\ tail.file \in DOMAIN shelf
  /\ LET read  == SubSeq(shelf[tail.file], tail.offset + 1, Len(shelf[tail.file]))
         whole == Complete(read)
         texts == {i \in 1..Len(whole) : whole[i].part = 1}
         \* a newline whose text was read before is an unparseable line
         fresh == SelectSeq(Lines(whole), LAMBDA p : \E i \in texts : whole[i].seq = p.seq)
     IN /\ read # <<>>
        /\ tail' = [tail EXCEPT !.offset = NextOffset(@, read, whole), !.got = @ \o fresh]
  /\ UNCHANGED <<writer, shelf, emitted, owed>>

JournalNext ==
  \/ Handle \/ Acquire \/ Flush \/ WriteFails \/ Restart \/ Watch \/ Poll

----------------------------------------------------------------------------
JournalTypeOK ==
  /\ Len(writer.pre) <= PreAcquire
  /\ writer.file # 0 => writer.file \in DOMAIN shelf
  /\ Cardinality(DOMAIN shelf) <= Retain

\* Every file numbers its lines 0, 1, 2, ..., and they are the events since
\* its job was acquired, behind the ones buffered for it, with none missing
\* before the last one written: after a failed write or a kill a file ends
\* early, it never goes on with a hole.
FilesAreGapless ==
  \A f \in DOMAIN shelf :
    LET lines == SelectSeq(shelf[f], LAMBDA p : p.part = 1)
    IN \A i \in 1..Len(lines) : lines[i].seq = i - 1 /\ lines[i].ev = owed[f][i]

\* The lines a reader has returned are a prefix of its file's: none twice,
\* none skipped and none torn, however its polls meet the writer's flushes.
TailIsExact ==
  \A i \in 1..Len(tail.got) : tail.got[i].seq = i - 1

(* The journal is a faithful copy: files without gaps, readers without loss
   or repetition. *)
JournalIsExact == JournalTypeOK /\ FilesAreGapless /\ TailIsExact
=============================================================================
