------------------------------- MODULE MCLogs -------------------------------
(* Small jobs for TLC: each scene puts one part of the output path to work.  *)
EXTENDS Commands, Reports, Journal

Line(cmd, arg, val, has) == [cmd |-> cmd, arg |-> arg, val |-> val, has |-> has]
Plain(text)        == Line("", text, "", {})
Command(cmd, arg)  == Line(cmd, arg, "", {})
Secret(cmd, piece) == Line(cmd, "words", "", {piece})

\* Masks: a value of two lines, shown line by line in every kind of text.
MaskWords ==
  {Line("add-mask", "", "", {"p", "q"}), Secret("", "p"), Secret("error", "q"),
   Secret("group", "p"), Command("echo", "on"), Command("stop-commands", "tok"),
   Command("stop-commands", "error"), Command("marker", "tok")}

\* Matchers: a looping one of three patterns, one of two that does not loop,
\* one of a single pattern, and files that must not be accepted.
Pat(lang, msg, loop) == [lang |-> lang, msg |-> msg, loop |-> loop]
Looping == [owner |-> "l", pats |-> <<Pat({"head", "both"}, FALSE, FALSE),
                                      Pat({"mid", "both"}, FALSE, FALSE),
                                      Pat({"item", "blank"}, TRUE, TRUE)>>]
Pair    == [owner |-> "t", pats |-> <<Pat({"head"}, FALSE, FALSE), Pat({"item", "both"}, TRUE, FALSE)>>]
Single  == [owner |-> "s", pats |-> <<Pat({"mid"}, TRUE, FALSE)>>]
MCDocuments ==
  [loop |-> <<Looping>>, pair |-> <<Pair>>, single |-> <<Single>>,
   again |-> <<[Looping EXCEPT !.pats[3].lang = {"item"}]>>,
   twice |-> <<Pair, Pair>>, early |-> <<[Looping EXCEPT !.pats[1].loop = TRUE]>>]

MatchWords ==
  {Command("add-matcher", f) : f \in {"loop", "again"}}
    \cup {Plain(t) : t \in {"head", "mid", "item", "both", "none", "blank"}}
PairWords ==
  {Command("add-matcher", f) : f \in {"pair", "single", "twice", "early", "", "missing"}}
    \cup {Line("remove-matcher", "t", "", {}), Line("remove-matcher", "", "pair", {}),
          Line("remove-matcher", "t", "pair", {}), Line("remove-matcher", "", "missing", {})}
    \cup {Plain(t) : t \in {"head", "item", "both", "mid", "long"}}

\* Files: plain and heredoc entries, a value that looks like an entry, a
\* malformed one, a blocked name.
KV(name, sep, rest) == [name |-> name, sep |-> sep, rest |-> rest, lf |-> TRUE]
Entry(name, lines, val) == [name |-> name, lines |-> lines, val |-> val]
A1   == Entry("a", <<KV("a", "=", "1")>>, <<Bare("1")>>)
Here == Entry("a", <<KV("a", "<<", "E"), KV("b", "=", "2"), KV("E", "", "")>>,
              <<Raw(KV("b", "=", "2"))>>)
Nest == Entry("b", <<KV("b", "<<", "F"), KV("a", "<<", "E"), KV("F", "", "")>>,
              <<Raw(KV("a", "<<", "E"))>>)
Bad  == Entry("", <<KV("", "=", "1")>>, <<>>)
Node == Entry("NODE_OPTIONS", <<KV("NODE_OPTIONS", "=", "1")>>, <<Bare("1")>>)
PrintWords ==
  {Line("set-output", "a", <<Bare("9")>>, {}), Line("set-output", "", <<Bare("9")>>, {}),
   Line("save-state", "a", <<Bare("9")>>, {}), Command("set-env", "a")}

Said(out, err) == [s \in Streams |-> IF s = "out" THEN out ELSE err]
MCVocabularies ==
  [masks |-> Said(MaskWords, {Secret("", "q")}),
   loops |-> Said(MatchWords, {Plain("item")}),
   pairs |-> Said(PairWords, {Plain("item")}),
   files |-> Said(PrintWords, {})]
NoEntries == [k \in Kinds |-> {}]
MCEntries ==
  [masks |-> NoEntries, loops |-> NoEntries, pairs |-> NoEntries,
   files |-> [env |-> {A1, Node, Here}, state |-> {A1}, output |-> {A1, Here, Nest, Bad}]]
MCSummaries ==
  [masks |-> {[found |-> "text", has |-> {"q"}], [found |-> "refused", has |-> {}]},
   loops |-> {}, pairs |-> {}, files |-> {}]

MCMaxLines == [masks |-> 4, loops |-> 5, pairs |-> 4, files |-> 3]
MCMaxSteps == [masks |-> 1, loops |-> 1, pairs |-> 1, files |-> 2]

\* Two steps with a log each, an annotation after its step completed and a
\* summary; the live feed alone; a job that ends before its first step.
E(e, step, n)  == Event(e, step, n, "")
Done(step, c)  == Event("completed", step, 0, c)
Ended(c)       == Event("job_completed", "", 0, c)
TwoSteps == <<E("log", "x", 1), E("started", "a", 0), E("log", "a", 1), E("log", "a", 2),
              E("annotation", "a", 1), Done("a", "success"), E("annotation", "a", 2),
              E("started", "b", 0), E("summary", "b", 0), Done("b", "success"), Ended("success")>>
Feed     == <<E("started", "a", 0), E("log", "a", 1), E("log", "a", 2), E("log", Setup, 3),
              E("log", "a", 4), Done("a", "success"), Ended("success")>>
Early    == <<E("log", "x", 1), E("infrastructure", Setup, 1), Ended("failure")>>
MCJobs ==
  {[events |-> TwoSteps, results |-> TRUE, live |-> FALSE, mishaps |-> 1],
   [events |-> Feed, results |-> FALSE, live |-> TRUE, mishaps |-> 3],
   [events |-> Early, results |-> TRUE, live |-> FALSE, mishaps |-> 2]}

\* One part of the path at a time.
VARIABLE part
IdleCommands == /\ scene = "masks" /\ CommandsInit
IdleReports  == /\ job = (CHOOSE j \in MCJobs : TRUE) /\ ReportsInit
vars == <<cvars, rvars, jvars, part>>

Init ==
  /\ JournalInit
  /\ \/ part = "commands" /\ CommandsInit /\ IdleReports
     \/ part = "reports" /\ IdleCommands /\ ReportsInit
     \/ part = "journal" /\ IdleCommands /\ IdleReports
Next ==
  \/ part = "commands" /\ CommandsNext /\ UNCHANGED <<rvars, jvars, part>>
  \/ part = "reports" /\ ReportsNext /\ UNCHANGED <<cvars, jvars, part>>
  \/ part = "journal" /\ JournalNext /\ UNCHANGED <<cvars, rvars, part>>
Spec == Init /\ [][Next]_vars
=============================================================================
