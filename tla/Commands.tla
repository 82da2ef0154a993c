------------------------------ MODULE Commands ------------------------------
(***************************************************************************)
(* What a step's process says to the runner: workflow commands and problem *)
(* matchers on its two output streams, and the files named by GITHUB_ENV,  *)
(* GITHUB_OUTPUT and GITHUB_STATE.  One dispatcher reads both streams of   *)
(* the step; its events travel through a channel to the forwarder, which   *)
(* masks log lines on the way to every durable sink.                       *)
(*                                                                         *)
(* A text is abstracted to the class of its wording (a regular expression  *)
(* is the set of classes it matches) and to the pieces of secrets it shows *)
(* in clear.  The streams' readers are merged into the dispatcher: a line  *)
(* is chosen when the dispatcher takes it, so every interleaving of the    *)
(* two streams is an order of Dispatch steps.                              *)
(***************************************************************************)
EXTENDS Integers, Sequences, SequencesExt, FiniteSets

CONSTANTS
  Vocabularies,   \* scene -> what the process may print on each stream
  Documents,      \* path -> the matchers a problem-matcher file holds
  Entries,        \* scene -> the file-command entries the process may write
  Summaries,      \* scene -> what it may leave as its step summary
  BlankTexts,     \* text classes whose captured message is blank
  MaxOwners,      \* MAX_OWNERS: owners the registry holds
  MaxPatterns,    \* MAX_PATTERNS of one matcher
  MaxLines,       \* scene -> bound: lines and entries of one step
  MaxSteps        \* scene -> bound: steps of the job

VARIABLES
  scene,      \* which vocabulary the job's processes use
  running,    \* a process is running
  steps,      \* steps started
  left,       \* lines and entries the process may still produce
  disp,       \* the step's CommandDispatcher
  registry,   \* the job's MatcherRegistry: definitions, highest priority first
  masker,     \* pieces the shared SecretMasker replaces
  ctx,        \* what the job's context keeps: env, state, this step's outputs
  files,      \* the command files, line by line
  summary,    \* the summary file: how it is found and what it shows
  events,     \* the event channel to the forwarder
  sink,       \* what reached the durable sinks
  fed,        \* per stream, the texts handed to the matchers in this step
  report,     \* the last diagnostic a matcher reported
  told,       \* pieces announced by an add-mask command
  arcs,       \* definitions created so far (the identity of an Arc)
  said        \* this step's set-outputs and files as its process meant them

cvars == <<scene, running, steps, left, disp, registry, masker, ctx, files,
           summary, events, sink, fed, report, told, arcs, said>>

Streams == {"out", "err"}
Kinds   == {"env", "state", "output"}
Empty   == [x \in {} |-> x]

CommandNames ==
  {"set-output", "save-state", "add-mask", "add-matcher", "remove-matcher",
   "add-path", "set-env", "group", "endgroup", "error", "debug", "echo",
   "stop-commands"}

\* No match state, and a matcher result: where each pattern matched.
None == [on |-> FALSE, at |-> <<>>, blank |-> TRUE]

NewDispatcher ==
  [echo |-> FALSE, stop |-> "", outs |-> Empty, failed |-> FALSE,
   warned |-> FALSE, act |-> [s \in Streams |-> Empty]]

NoSummary == [found |-> "empty", has |-> {}]

NoSaid == [outs |-> Empty, entries |-> [k \in Kinds |-> <<>>], torn |-> {}]

CommandsInit ==
  /\ scene \in DOMAIN Vocabularies
  /\ running = FALSE /\ steps = 0 /\ left = 0
  /\ disp = NewDispatcher
  /\ registry = <<>> /\ masker = {} /\ told = {} /\ arcs = 0
  /\ ctx = [env |-> Empty, state |-> Empty, outputs |-> Empty, failed |-> FALSE]
  /\ files = [k \in Kinds |-> <<>>] /\ summary = NoSummary
  /\ events = <<>> /\ sink = {}
  /\ fed = [s \in Streams |-> <<>>] /\ report = [on |-> FALSE]
  /\ said = NoSaid

----------------------------------------------------------------------------
(* Problem matchers.                                                        *)

\* parse_matcher: what a definition must satisfy to be registered.
ValidMatcher(m) ==
  LET n == Len(m.pats)
      capturing == {i \in 1..n : m.pats[i].msg}
  IN /\ m.owner # ""
     /\ n \in 1..MaxPatterns
     /\ n = 1 => ~m.pats[1].loop
     /\ \A i \in 1..n : m.pats[i].loop => i = n /\ m.pats[i].msg
     /\ Cardinality(capturing) = 1

\* parse_add: every matcher valid, no owner named twice.
ParseAdd(doc) ==
  /\ Len(doc) <= MaxOwners
  /\ \A i \in 1..Len(doc) : ValidMatcher(doc[i])
  /\ \A i, j \in 1..Len(doc) : doc[i].owner = doc[j].owner => i = j

Owners(defs) == {defs[i].owner : i \in 1..Len(defs)}

\* add_json: the document's definitions come first, in its order, in place of
\* the ones their owners had.
Mutant_AddJson(reg, adds) == adds \o reg

AddJson(reg, adds) ==
  adds \o SelectSeq(reg, LAMBDA d : d.owner \notin Owners(adds))

RemoveOwners(reg, owners) == SelectSeq(reg, LAMBDA d : d.owner \notin owners)

\* sync: progress belongs to one definition and is lost with it.
Mutant_Sync(reg, act) ==
  [o \in Owners(reg) |->
     LET d == reg[CHOOSE i \in 1..Len(reg) : reg[i].owner = o]
     IN IF o \in DOMAIN act /\ Len(act[o].st) = Len(d.pats) THEN act[o]
        ELSE [arc |-> d.arc, st |-> [i \in 1..Len(d.pats) |-> None]]]

Sync(reg, act) ==
  [o \in Owners(reg) |->
     LET d == reg[CHOOSE i \in 1..Len(reg) : reg[i].owner = o]
     IN IF o \in DOMAIN act /\ act[o].arc = d.arc THEN act[o]
        ELSE [arc |-> d.arc, st |-> [i \in 1..Len(d.pats) |-> None]]]

Cleared(st) == [i \in DOMAIN st |-> None]

\* clear_failed_state: a failed last pattern ends the match it would have
\* completed, any other pattern only its own.
ClearFailed(st, i) ==
  LET j == IF i = Len(st) THEN i - 1 ELSE i
  IN [k \in DOMAIN st |-> IF k = j THEN None ELSE st[k]]

\* finish_match: a looping last pattern keeps the match it continues.
FinishMatch(st, loop) ==
  LET n == Len(st)
  IN [k \in DOMAIN st |-> IF loop /\ k = n - 1 THEN st[k] ELSE None]

\* attempt_pattern: pattern i of definition d on the line at position pos.
Attempt(d, pos, text, acc, i) ==
  LET st   == acc.st
      prev == IF i = 1 THEN [None EXCEPT !.on = TRUE] ELSE st[i - 1]
      hit  == [on |-> TRUE, at |-> Append(prev.at, pos),
               blank |-> IF d.pats[i].msg THEN text \in BlankTexts ELSE prev.blank]
  IN IF acc.hit.on \/ ~prev.on THEN acc
     ELSE IF text \notin d.pats[i].lang THEN [acc EXCEPT !.st = ClearFailed(st, i)]
     ELSE IF i # Len(st) THEN [acc EXCEPT !.st[i] = hit]
     ELSE [st |-> FinishMatch(st, d.pats[i].loop), hit |-> hit]

\* match_active: the last pattern first.
MatchActive(d, pos, text, st) ==
  LET n == Len(st)
  IN FoldLeft(LAMBDA acc, i : Attempt(d, pos, text, acc, i),
              [st |-> st, hit |-> None], [i \in 1..n |-> n + 1 - i])

\* One definition's turn in match_line: a match resets every other one, and
\* ends the line when it can be reported.
TryDefinition(pos, text, acc, d) ==
  LET m == MatchActive(d, pos, text, acc.act[d.owner].st)
  IN IF acc.found.on THEN acc
     ELSE [act |-> [o \in DOMAIN acc.act |->
                      IF o = d.owner THEN [acc.act[o] EXCEPT !.st = m.st]
                      ELSE IF m.hit.on THEN [acc.act[o] EXCEPT !.st = Cleared(@)]
                      ELSE acc.act[o]],
           found |-> IF m.hit.on /\ ~m.hit.blank THEN m.hit ELSE None,
           by |-> d]

\* match_line: text is "long" for a line over 64 KiB.
MatchLine(reg, act, pos, text) ==
  LET synced == Sync(reg, act)
  IN IF reg = <<>> THEN [act |-> synced, found |-> None, by |-> None]
     ELSE IF text = "long"
     THEN [act |-> [o \in DOMAIN synced |-> [synced[o] EXCEPT !.st = Cleared(@)]],
           found |-> None, by |-> None]
     ELSE FoldLeft(LAMBDA acc, d : TryDefinition(pos, text, acc, d),
                   [act |-> synced, found |-> None, by |-> None], reg)

----------------------------------------------------------------------------
(* The dispatcher.  An event shows the pieces it carries in clear; known is *)
(* what had been announced as secret when its line was handled.            *)

Log(pieces)        == [kind |-> "log", shown |-> pieces]
Annotation(pieces) == [kind |-> "annotation", shown |-> pieces]
Group(pieces)      == [kind |-> "group", shown |-> pieces]

\* The dispatcher masks an annotation's and a group's text itself.
Mask(pieces) == pieces \ masker

Queue(evs, known) ==
  events' = events \o [i \in 1..Len(evs) |-> evs[i] @@ ("known" :> known)]

\* match_output: every line that is not a command is matched and logged.
MatchOutput(line, s) ==
  LET pos == Len(fed[s]) + 1
      m   == MatchLine(registry, disp.act[s], pos, line.arg)
      warn == line.arg = "long" /\ ~disp.warned /\ registry # <<>>
  IN /\ disp' = [disp EXCEPT !.act[s] = m.act, !.warned = @ \/ warn]
     /\ fed' = [fed EXCEPT ![s] = Append(@, line.arg)]
     /\ report' = IF ~m.found.on THEN report
                  ELSE [on |-> TRUE, stream |-> s, at |-> m.found.at,
                        pats |-> m.by.pats, since |-> m.by.since[s]]
     /\ Queue((IF warn THEN <<Annotation({})>> ELSE <<>>)
              \o (IF m.found.on THEN <<Annotation(Mask(line.has))>> ELSE <<>>)
              \o <<Log(line.has)>>, told)
     /\ UNCHANGED <<registry, masker, ctx, told, arcs, said>>

\* A command's own events, behind its echo.
Reply(line, evs, known) ==
  Queue((IF disp.echo THEN <<Log(line.has)>> ELSE <<>>) \o evs, known)

\* set-output and save-state need a name.
SetOutput(line) ==
  /\ line.cmd = "set-output"
  /\ disp' = [disp EXCEPT !.outs = IF line.arg = "" THEN @ ELSE (line.arg :> line.val) @@ @]
  /\ ctx' = [ctx EXCEPT !.outputs = IF line.arg = "" THEN @ ELSE (line.arg :> line.val) @@ @]
  /\ said' = [said EXCEPT !.outs = IF line.arg = "" THEN @ ELSE (line.arg :> line.val) @@ @]
  /\ Reply(line, <<>>, told)
  /\ UNCHANGED <<registry, masker, told, arcs>>

SaveState(line) ==
  /\ line.cmd = "save-state"
  /\ ctx' = [ctx EXCEPT !.state = IF line.arg = "" THEN @ ELSE (line.arg :> line.val) @@ @]
  /\ Reply(line, <<>>, told)
  /\ UNCHANGED <<disp, registry, masker, told, arcs, said>>

\* add_mask registers every line of the value in the shared masker.
Mutant_AddMask(line) ==
  /\ line.cmd = "add-mask"
  /\ masker' = masker \cup {p \in line.has : \A q \in line.has : q = p}
  /\ told' = told \cup line.has
  /\ Reply(line, <<>>, told')
  /\ UNCHANGED <<disp, registry, ctx, arcs, said>>

AddMask(line) ==
  /\ line.cmd = "add-mask"
  /\ masker' = masker \cup line.has
  /\ told' = told \cup line.has
  /\ Reply(line, <<>>, told')
  /\ UNCHANGED <<disp, registry, ctx, arcs, said>>

\* add-matcher: a file that cannot be read or parsed, or too many owners,
\* fails the step and leaves the registry as it was.
AddMatcher(line) ==
  /\ line.cmd = "add-matcher"
  /\ LET doc   == IF line.arg \in DOMAIN Documents THEN Documents[line.arg] ELSE <<>>
         since == [s \in Streams |-> Len(fed[s])]
         adds  == [i \in 1..Len(doc) |->
                     doc[i] @@ [arc |-> arcs + i, since |-> since]]
         new   == AddJson(registry, adds)
         ok    == line.arg \in DOMAIN Documents /\ ParseAdd(doc) /\ Len(new) <= MaxOwners
     IN /\ registry' = IF line.arg # "" /\ ok THEN new ELSE registry
        /\ arcs' = IF line.arg # "" /\ ok THEN arcs + Len(doc) ELSE arcs
        /\ disp' = [disp EXCEPT !.failed = @ \/ (line.arg # "" /\ ~ok)]
        /\ Reply(line, IF line.arg # "" /\ ok THEN <<>> ELSE <<Annotation({})>>, told)
  /\ UNCHANGED <<masker, ctx, told, said>>

\* remove-matcher names an owner or a file, not both.
RemoveMatcher(line) ==
  /\ line.cmd = "remove-matcher"
  /\ LET byFile == line.val \in DOMAIN Documents
         gone   == IF line.arg # "" THEN {line.arg}
                   ELSE IF byFile THEN Owners(Documents[line.val]) ELSE {}
         usable == (line.arg # "") # (line.val # "")
         failed == usable /\ line.arg = "" /\ ~byFile
     IN /\ registry' = IF usable THEN RemoveOwners(registry, gone) ELSE registry
        /\ disp' = [disp EXCEPT !.failed = @ \/ failed]
        /\ Reply(line, IF usable /\ ~failed THEN <<>> ELSE <<Annotation({})>>, told)
  /\ UNCHANGED <<masker, ctx, told, arcs, said>>

\* Annotations and groups, and the refused set-env and add-path.
Annotate(line) ==
  /\ \/ /\ line.cmd = "error"
        /\ Reply(line, IF line.arg \in BlankTexts THEN <<>>
                       ELSE <<Annotation(Mask(line.has))>>, told)
     \/ /\ line.cmd \in {"group", "endgroup"}
        /\ Reply(line, <<Group(Mask(line.has))>>, told)
     \/ /\ line.cmd \in {"set-env", "add-path"}
        /\ Reply(line, <<Annotation({})>>, told)
     \/ /\ line.cmd = "debug"
        /\ Reply(line, <<>>, told)
  /\ UNCHANGED <<disp, registry, masker, ctx, told, arcs, said>>

\* echo and stop-commands; an empty or reserved token is ignored.
ValidatedStopToken(token) ==
  IF token \in CommandNames \cup {"", "pause-logging"} THEN "" ELSE token

Switch(line) ==
  /\ \/ /\ line.cmd = "echo"
        /\ disp' = [disp EXCEPT !.echo = line.arg = "on"]
     \/ /\ line.cmd = "stop-commands"
        /\ disp' = [disp EXCEPT !.stop = ValidatedStopToken(line.arg)]
  /\ Reply(line, <<>>, told)
  /\ UNCHANGED <<registry, masker, ctx, told, arcs, said>>

Apply(line) ==
  \/ SetOutput(line) \/ SaveState(line) \/ AddMask(line) \/ AddMatcher(line)
  \/ RemoveMatcher(line) \/ Annotate(line) \/ Switch(line)

\* on_output_line: while commands are stopped only the token's own marker
\* resumes them; an unknown command is a plain line.
Dispatch(line, s) ==
  /\ running /\ left > 0
  /\ left' = left - 1
  /\ \/ /\ disp.stop # ""
        /\ line.cmd = "marker" /\ line.arg = disp.stop
        /\ disp' = [disp EXCEPT !.stop = ""]
        /\ UNCHANGED <<registry, masker, ctx, events, fed, report, told, arcs, said>>
     \/ /\ disp.stop # "" /\ ~(line.cmd = "marker" /\ line.arg = disp.stop)
        /\ MatchOutput(line, s)
     \/ /\ disp.stop = "" /\ line.cmd \notin CommandNames
        /\ MatchOutput(line, s)
     \/ /\ disp.stop = "" /\ line.cmd \in CommandNames
        /\ Apply(line)
        /\ UNCHANGED <<fed, report>>
  /\ UNCHANGED <<scene, running, steps, files, summary, sink>>

\* forward_log_line: a log line is masked when it reaches the sinks, anything
\* else goes on as the dispatcher made it.
Forward ==
  /\ events # <<>>
  /\ LET e == Head(events)
     IN sink' = sink \cup {IF e.kind = "log" THEN [e EXCEPT !.shown = Mask(@)] ELSE e}
  /\ events' = Tail(events)
  /\ UNCHANGED <<scene, running, steps, left, disp, registry, masker, ctx, files,
                 summary, fed, report, told, arcs, said>>

----------------------------------------------------------------------------
(* Command files.  A file is a sequence of lines; a line is its name, its   *)
(* separator and the rest, and lf says that a newline ends it.             *)

Raw(line) == [name |-> line.name, sep |-> line.sep, rest |-> line.rest]
Bare(d)   == [name |-> d, sep |-> "", rest |-> ""]

\* parse_heredoc: the first line at or after i that ends the value, by being
\* the delimiter, or by having no newline, or by not being there.
HeredocEnd(text, i, d) ==
  CHOOSE j \in i..(Len(text) + 1) :
    /\ j <= Len(text) => Raw(text[j]) = Bare(d) \/ ~text[j].lf
    /\ \A k \in i..(j - 1) : Raw(text[k]) # Bare(d) /\ text[k].lf

\* parse_entry at line i: the pair and the line after it, or an error.
Mutant_ParseEntry(text, i) ==
  LET line == text[i]
      j == HeredocEnd(text, i + 1, line.rest)
  IN IF line.sep = "<<"
     THEN IF line.name = "" \/ line.rest = "" THEN [ok |-> FALSE]
          ELSE [ok |-> TRUE, name |-> line.name, next |-> j + 1,
                val |-> [k \in 1..(j - i - 1) |-> Raw(text[i + k])]]
     ELSE IF line.sep = "=" /\ line.name # ""
     THEN [ok |-> TRUE, name |-> line.name, next |-> i + 1, val |-> <<Bare(line.rest)>>]
     ELSE [ok |-> FALSE]

ParseEntry(text, i) ==
  LET line == text[i]
      j == HeredocEnd(text, i + 1, line.rest)
  IN IF line.sep = "<<"
     THEN IF line.name = "" \/ line.rest = "" \/ j > Len(text) THEN [ok |-> FALSE]
          ELSE IF Raw(text[j]) # Bare(line.rest) THEN [ok |-> FALSE]
          ELSE [ok |-> TRUE, name |-> line.name, next |-> j + 1,
                val |-> [k \in 1..(j - i - 1) |-> Raw(text[i + k])]]
     ELSE IF line.sep = "=" /\ line.name # ""
     THEN [ok |-> TRUE, name |-> line.name, next |-> i + 1, val |-> <<Bare(line.rest)>>]
     ELSE [ok |-> FALSE]

\* parse_kv_file: blank lines are skipped, the first malformed entry ends the
\* reading, a repeated name keeps its last value.
ParseKvFile(text) ==
  LET Blank(i) == Raw(text[i]) = Bare("")
      from[i \in 1..(Len(text) + 2)] ==
        IF i > Len(text) THEN [pairs |-> Empty, error |-> FALSE]
        ELSE IF Blank(i) THEN from[i + 1]
        ELSE LET e == ParseEntry(text, i)
             IN IF ~e.ok THEN [pairs |-> Empty, error |-> TRUE]
                ELSE [from[e.next] EXCEPT !.pairs = @ @@ (e.name :> e.val)]
  IN from[1]

\* The process appends an entry to a file.
Write(kind, e) ==
  /\ running /\ left > 0
  /\ left' = left - 1
  /\ files' = [files EXCEPT ![kind] = @ \o e.lines]
  /\ said' = [said EXCEPT !.entries[kind] = Append(@, e)]
  /\ UNCHANGED <<scene, running, steps, disp, registry, masker, ctx, events, sink,
                 summary, fed, report, told, arcs>>

\* The process is killed while it writes an entry: only its first n lines get
\* there, the last without its newline.
WriteTorn(kind, e, n) ==
  /\ running /\ left > 0 /\ n \in 1..(Len(e.lines) - 1)
  /\ left' = 0
  /\ files' = [files EXCEPT ![kind] =
                 @ \o [i \in 1..n |-> [e.lines[i] EXCEPT !.lf = i < n]]]
  /\ said' = [said EXCEPT !.torn = @ \cup {kind}]
  /\ UNCHANGED <<scene, running, steps, disp, registry, masker, ctx, events, sink,
                 summary, fed, report, told, arcs>>

\* The process writes its summary, or replaces the file by something else.
WriteSummary(new) ==
  /\ running /\ left > 0 /\ summary = NoSummary
  /\ left' = left - 1
  /\ summary' = new
  /\ UNCHANGED <<scene, running, steps, disp, registry, masker, ctx, files, events,
                 sink, fed, report, told, arcs, said>>

\* collect: a regular file of at most 1 MiB is masked and reported; anything
\* else is an annotation and never changes the step's result.
Collect ==
  CASE summary.found = "empty"   -> <<>>
    [] summary.found = "text"    -> <<[kind |-> "summary", shown |-> Mask(summary.has)]>>
    [] summary.found = "refused" -> <<Annotation({})>>

\* strip_blocked_env: NODE_OPTIONS is never taken from a file.
StripBlockedEnv(env) == [k \in DOMAIN env \ {"NODE_OPTIONS"} |-> env[k]]

\* report_file_command_issues: a blocked name is one error, a failed file two,
\* each a log line and an annotation.
FileIssues(blocked, failed) ==
  FlattenSeq([i \in 1..(Cardinality(blocked) + 2 * Cardinality(failed)) |->
                <<Log({}), Annotation({})>>])

\* apply_file_commands_and_merge_outputs: an output printed on a stream wins
\* over one in the file.
MergeOutputs(printed, written) == printed @@ written

\* The step ends: its summary is collected, its files are read, each on its
\* own, and what they hold is applied.
EndStep ==
  /\ running
  /\ LET env     == ParseKvFile(files["env"])
         state   == ParseKvFile(files["state"])
         output  == ParseKvFile(files["output"])
         failed  == {k \in Kinds : ParseKvFile(files[k]).error}
         blocked == DOMAIN env.pairs \cap {"NODE_OPTIONS"}
     IN /\ ctx' = [env |-> StripBlockedEnv(env.pairs) @@ ctx.env,
                   state |-> state.pairs @@ ctx.state,
                   outputs |-> MergeOutputs(disp.outs, output.pairs) @@ ctx.outputs,
                   failed |-> disp.failed \/ failed # {}]
        /\ Queue(Collect \o FileIssues(blocked, failed), told)
  /\ running' = FALSE /\ left' = 0
  /\ UNCHANGED <<scene, steps, disp, registry, masker, files, summary, sink, fed,
                 report, told, arcs, said>>

\* create: the files of every step have the same paths and are truncated.
CreateFiles == [k \in Kinds |-> <<>>]

\* The next step starts, with a dispatcher of its own.
StartStep ==
  /\ ~running /\ steps < MaxSteps[scene]
  /\ running' = TRUE /\ steps' = steps + 1 /\ left' = MaxLines[scene]
  /\ disp' = NewDispatcher
  /\ files' = CreateFiles /\ summary' = NoSummary
  /\ ctx' = [ctx EXCEPT !.outputs = Empty, !.failed = FALSE]
  /\ fed' = [s \in Streams |-> <<>>] /\ report' = [on |-> FALSE]
  /\ said' = NoSaid
  /\ registry' = [i \in 1..Len(registry) |->
                    [registry[i] EXCEPT !.since = [s \in Streams |-> 0]]]
  /\ UNCHANGED <<scene, masker, events, sink, told, arcs>>

CommandsNext ==
  \/ StartStep \/ Forward \/ EndStep
  \/ \E s \in Streams : \E line \in Vocabularies[scene][s] : Dispatch(line, s)
  \/ \E k \in Kinds : \E e \in Entries[scene][k] :
       Write(k, e) \/ \E n \in 1..Len(e.lines) : WriteTorn(k, e, n)
  \/ \E new \in Summaries[scene] : WriteSummary(new)

----------------------------------------------------------------------------
(* Properties.                                                              *)

CommandsTypeOK ==
  /\ running \in BOOLEAN /\ steps \in 0..MaxSteps[scene] /\ left \in 0..MaxLines[scene]
  /\ Len(registry) <= MaxOwners /\ Cardinality(Owners(registry)) = Len(registry)
  /\ \A e \in sink : e.kind \in {"log", "annotation", "group", "summary"}
  /\ DOMAIN ctx = {"env", "state", "outputs", "failed"}

\* Nothing announced by an add-mask line is shown by what the runner makes of
\* that line (its echo included) or of any line handled after it, in a log,
\* an annotation or a group, whichever stream the line came on.
MaskedFromThenOn == \A e \in sink : e.shown \cap e.known = {}

\* A reported diagnostic was put together from one unbroken run of lines of
\* one stream: each pattern matched the line after its predecessor's, a loop
\* only went on through lines its pattern matched, and all of them were read
\* after the definition was registered (match_active and sync).
DiagnosticIsOneRun ==
  report.on =>
    LET n == Len(report.pats)
        at == report.at
        text(i) == fed[report.stream][i]
    IN /\ Len(at) = n
       /\ \A i \in 1..n : at[i] > report.since /\ text(at[i]) \in report.pats[i].lang
       /\ \A i \in 1..(n - 2) : at[i + 1] = at[i] + 1
       /\ n > 1 => \A p \in (at[n - 1] + 1)..at[n] : text(p) \in report.pats[n].lang
       /\ n > 1 /\ ~report.pats[n].loop => at[n] = at[n - 1] + 1

\* The entries a file should yield: those before the first malformed one.
Meant(kind) ==
  LET es == said.entries[kind]
      bad == {i \in 1..Len(es) : es[i].val = <<>>}
      upTo == IF bad = {} THEN Len(es) ELSE (CHOOSE i \in bad : \A j \in bad : i <= j) - 1
  IN [k \in {es[i].name : i \in 1..upTo} |->
        es[CHOOSE i \in 1..upTo : es[i].name = k /\ \A j \in (i + 1)..upTo : es[j].name # k].val]

\* After a step, its outputs are what its process printed and wrote, printed
\* ones first and the last of several; a value that looks like an entry stays
\* a value; a torn or malformed entry adds nothing, spoils nothing before it
\* and fails the step; nothing of an earlier step's files comes back.
FilesReadBack ==
  (~running /\ steps > 0) =>
    /\ ctx.outputs = said.outs @@ Meant("output")
    /\ \A k \in DOMAIN Meant("env") \ {"NODE_OPTIONS"} : ctx.env[k] = Meant("env")[k]
    /\ "NODE_OPTIONS" \notin DOMAIN ctx.env
    /\ \A k \in DOMAIN Meant("state") : k \in DOMAIN ctx.state
    /\ (\E k \in Kinds : k \in said.torn
          \/ \E i \in 1..Len(said.entries[k]) : said.entries[k][i].val = <<>>) => ctx.failed

(* What the process says is understood as it was said: masked from the mask
   on, one diagnostic per run of matches, files read back as written. *)
OutputIsRight == CommandsTypeOK /\ MaskedFromThenOn /\ DiagnosticIsOneRun /\ FilesReadBack
=============================================================================
