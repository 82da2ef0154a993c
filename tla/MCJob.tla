-------------------------------- MODULE MCJob --------------------------------
(* Small jobs for TLC: each plan puts one part of the engine to work, and    *)
(* beside it what the engine calls upon: the action fetcher, the Node.js     *)
(* runtime, the Docker build context, hashFiles and expressions.             *)
EXTENDS Job, Fetch, NodeRuntime, HashFiles, Expressions

Step(id, uses, cond) ==
  [id |-> id, uses |-> uses, cond |-> cond, coe |-> FALSE, pre |-> FALSE,
   post |-> FALSE, postIf |-> "always()", steps |-> <<>>]

Run(id, cond)  == Step(id, "run", cond)
Node(id, cond) == [Step(id, "node", cond) EXCEPT !.pre = TRUE, !.post = TRUE]
Dock(id)       == [Step(id, "docker", "success()") EXCEPT !.post = TRUE]
Comp(id, ss)   == [Step(id, "composite", "success()") EXCEPT !.steps = ss]
Lenient(s)     == [s EXCEPT !.coe = TRUE]

Job(steps, container, services, images, hooks) ==
  [steps |-> steps, container |-> container, services |-> services,
   images |-> images, hooks |-> hooks]

\* Actions with pre and post, recovered and unrecovered failures, cleanup steps.
Actions == Job(<<Lenient(Node("a", "success()")),
                 [Node("b", "success()") EXCEPT !.pre = FALSE, !.postIf = "success()"],
                 Run("c", "cancelled()"), Run("d", "broken")>>, FALSE, 0, 0, FALSE)

\* A composite whose steps fail, clean up and register posts, a composite
\* inside it, and a step for failed jobs after it.
Composites == Job(<<Comp("a", <<Node("n", "success()"), Comp("b", <<Lenient(Comp("c", <<Run("r", "success()")>>))>>),
                                Run("s", "always()")>>),
                    Run("e", "failure()")>>, FALSE, 0, 0, FALSE)

\* A job container with a service, hooks, and a Docker action built beforehand.
Containers == Job(<<Dock("a"), Run("b", "always()")>>, TRUE, 1, 1, TRUE)

\* A service alone, whose network the services own.
ServicesOnly == Job(<<Run("a", "success()")>>, FALSE, 1, 0, FALSE)

\* Conditions that do not evaluate, in a composite and in a post.
Broken == Job(<<Comp("a", <<Run("x", "broken"), Run("y", "always()")>>),
                [Node("b", "always()") EXCEPT !.postIf = "broken"]>>, FALSE, 0, 0, FALSE)

MCPlans == {Actions, Composites, Containers, ServicesOnly, Broken}

----------------------------------------------------------------------------
\* Fetches: a prefetch and a step of one job; steps of two processes.
Call(j, kind) == [job |-> j, kind |-> kind]
MCFetches == {Call("j1", "prefetch"), Call("j1", "step"), Call("j2", "step")}

Offer(launch, legacy, tokens) == [launch |-> launch, legacy |-> legacy, tokens |-> tokens]
Launch == Offer(TRUE, FALSE, {"service"})
Site(calls, jobs, littered, redirects, moves) ==
  [calls |-> calls, jobs |-> jobs, littered |-> littered, redirects |-> redirects, moves |-> moves]
Own == {Call("j1", "prefetch"), Call("j1", "step")}
MCSites ==
  {Site(Own, [j1 |-> Launch], {}, 0, 1),
   Site({Call("j1", "step"), Call("j2", "step")}, [j1 |-> Launch, j2 |-> Launch], {"r1"}, 0, 0),
   Site({Call("j1", "step")}, [j1 |-> Offer(FALSE, TRUE, {"service", "job"})], {}, 2, 0)}
  \cup {Site({Call("j1", "step")}, [j1 |-> o], {}, 0, 0) :
           o \in {Offer(FALSE, TRUE, {"service"}), Offer(FALSE, TRUE, {}),
                  Offer(FALSE, FALSE, {"job"}), Offer(FALSE, FALSE, {}), Offer(TRUE, FALSE, {})}}
MCRevisions == <<"r1", "r2">>

\* Runtimes: two stages of one process and one of another.
Stage(process, n) == [process |-> process, n |-> n]
MCInstalls == {Stage("p1", 1), Stage("p1", 2), Stage("p2", 1)}
MCWorkers  == MCFetches \cup MCInstalls
MCTargets  == {[arch |-> "x64", libc |-> "glibc", host |-> TRUE],
               [arch |-> "x64", libc |-> "musl", host |-> FALSE],
               [arch |-> "arm64", libc |-> "musl", host |-> FALSE]}
MCDirs     == {"r1", "r2", "glibc", "musl"}
MCDeclared == [old |-> 16, new |-> 24]
MCPhases   == [default : BOOLEAN, require : BOOLEAN, warn : BOOLEAN]
MCSwitches == [workflow : {"unset", "", "true"}, system : {"unset", "", "false", "true"}]
NoPhase    == [default |-> FALSE, require |-> FALSE, warn |-> FALSE]

\* A context of two levels of directories, with its control files.
MCFolders == {<<"a">>, <<"b">>, <<"a", "a">>, <<"a", "b">>}
MCTree    == MCFolders \cup {<<"D">>, <<"I">>, <<"b", "a">>}
               \cup {Append(d, f) : d \in {<<"a", "a">>, <<"a", "b">>}, f \in {"a", "b"}}
Line(parts, exclusion) == [rooted |-> FALSE, parts |-> parts, exclusion |-> exclusion]
MCLines   ==
  {Line(p, x) : p \in {<<"a">>, <<"*">>, <<"**">>, <<"a", "b">>, <<"a", "*">>, <<"a", "**">>,
                       <<"**", "b">>, <<"*", "a">>, <<"a", "b", "a">>, <<"**", "b", "**">>},
               x \in BOOLEAN}
    \cup {[rooted |-> r, parts |-> <<"..", ".", "a", "b", "..">>, exclusion |-> FALSE] : r \in BOOLEAN}
MCDockerfile == <<"D">>
MCIgnoreFile == <<"I">>

\* The same tree for hashFiles, two of its files being links.
MCDirLinks == {<<"b", "a">>}
MCDangling == {<<"D">>}
MCCollate  == <<"D", "I", "a", "b">>

\* Inputs of every shape over a few tokens each, and expressions over values of
\* every type; `unreadable()' cannot be evaluated.
MCAlphabets == {{"a", "||", "==", "<"}, {"a", "(", ")", "!", "||"}, {"a", ".", "*", "[", "]"},
                {"a", "(", ")", ","}, {"a", "'k'", "(", ")", "."},
                {"q", "}", "x"}}
MCNames     == {"a", "k"}
MCQuoted    == ("'k'" :> "k")
List(id, items) == <<"arr", id, items, FALSE>>
MCValues    == {Null, Bool(TRUE), Bool(FALSE), <<"num", 1>>, <<"num", NaN>>, Str(<<>>), Str(<<"1">>),
                Str(<<"x">>), Str(<<"X", "{0}">>), Str(<<"{1}", "{0}">>), List(1, <<>>), List(2, <<Null>>),
                List(3, <<Bool(FALSE), <<"num", 1>>>>)}
MCContexts  == [dict |-> <<"obj", 9, (<<"X">> :> List(4, <<Null, Str(<<"x">>)>>)) @@ (<<"1">> :> Bool(TRUE))>>]
Leaves      == {<<"lit", v>> : v \in MCValues} \cup {<<"ctx", "dict">>}
Blocked     == <<"call", "unreadable", <<>>>>
Operand     == Leaves \cup {Blocked}
Compound    ==
  {<<"bin", op, x, y>> : op \in UNION ToSet(Operators), x \in Leaves, y \in Operand}
    \cup {<<"call", f, <<x, y>>>> : f \in {"contains", "startsWith", "endsWith", "join", "format"}, x \in Leaves, y \in Operand}
    \cup {<<"index", x, y>> : x \in Leaves, y \in Operand}
    \cup {<<"index", <<"wild", x>>, y>> : x \in Leaves, y \in Operand}
    \cup {<<"call", "case", <<x, y, z>>>> : x \in Leaves, y \in Operand, z \in Operand}
    \cup {<<"call", f, <<x>>>> : f \in {"join", "format"}, x \in Operand}
    \cup {<<"wild", <<"wild", <<"ctx", n>>>>>> : n \in {"dict", "unknown"}}
    \cup {<<"prop", <<"ctx", "dict">>, <<"x">>>>, <<"call", "always", <<>>>>}
MCTrees     == Compound \cup {<<"not", e>> : e \in Operand}
                 \cup {<<"bin", op, e, Blocked>> : op \in {"&&", "||"}, e \in Compound}

\* One part at a time.
VARIABLE part
NodeOnly    == <<target, preseed, download, proven, got, phase, upgraded, deprecated, ran>>
FetchOnly   == <<site, tag, sha, attempt, cell, cells, inflight, masked, hop, outcome,
                 cause, sent, failed, forced>>
HashOnly    == <<roots, stack, digest, hashing>>
mcVars      == <<vars, stageVars, FetchOnly, NodeOnly, contextVars, HashOnly, exprVars, part>>

JobIdle     == Init /\ plan = ServicesOnly
FetchIdle   == site = (CHOOSE s \in MCSites : s.moves = 1) /\ tag = 1
               /\ sha = [c \in Fetches |-> "r1"] /\ attempt = [c \in Fetches |-> 0]
               /\ cell = [c \in Fetches |-> 0] /\ cells = <<>> /\ inflight = <<>> /\ masked = <<>>
               /\ hop = <<>> /\ outcome = [c \in Fetches |-> ""] /\ cause = outcome
               /\ sent = {} /\ failed = {} /\ forced = {}
NodeIdle    == /\ target = (CHOOSE t \in MCTargets : t.host) /\ preseed = [is |-> "unset", mtime |-> 0]
               /\ download = [w \in Installs |-> 0] /\ got = [w \in Installs |-> ""]
               /\ proven = <<>> /\ phase = NoPhase /\ upgraded = {} /\ deprecated = {} /\ ran = {}
StagingIdle == StagingInit({}) /\ at = [w \in Workers |-> "idle"]
WalkIdle    == roots = <<>> /\ stack = <<>> /\ digest = <<>> /\ hashing = "idle"
ContextIdle == lines = <<>> /\ walk = {} /\ archive = MCTree /\ WalkIdle
ExprIdle    == alphabet = {} /\ typed = <<>> /\ tree = <<"lit", Null>> /\ value = Null

\* The second stage of a process matters where it may skip the start check.
Busy == {w \in Installs : w.n = 1 \/ preseed.is # "unset"}

MCInit ==
  \/ part = "job" /\ Init /\ StagingIdle /\ FetchIdle /\ NodeIdle /\ ContextIdle /\ ExprIdle
  \/ part = "fetch" /\ JobIdle /\ FetchInit /\ NodeIdle /\ ContextIdle /\ ExprIdle
  \/ part = "node" /\ JobIdle /\ NodeInit /\ phase = NoPhase /\ FetchIdle /\ ContextIdle /\ ExprIdle
     /\ at = [w \in Workers |-> IF w \in Busy THEN "idle" ELSE "gone"]
  \/ part = "migration" /\ JobIdle /\ StagingIdle /\ FetchIdle /\ ContextIdle /\ ExprIdle
     /\ NodeInit /\ target.host /\ preseed.is = "unset" /\ dir = [k \in Dirs |-> Absent]
  \/ part = "context" /\ JobIdle /\ StagingIdle /\ FetchIdle /\ NodeIdle /\ ExprIdle
     /\ ContextInit /\ WalkIdle
  \/ part = "hash" /\ JobIdle /\ StagingIdle /\ FetchIdle /\ NodeIdle /\ ExprIdle
     /\ HashInit /\ Len(lines) < MaxLines /\ walk = {<<>>} /\ archive = {}
  \/ part = "expression" /\ JobIdle /\ StagingIdle /\ FetchIdle /\ NodeIdle /\ ContextIdle /\ ExprInit

MCNext ==
  \/ /\ part = "job" /\ Next
     /\ UNCHANGED <<stageVars, FetchOnly, NodeOnly, contextVars, HashOnly, exprVars, part>>
  \/ /\ part = "fetch" /\ FetchNext
     /\ UNCHANGED <<vars, NodeOnly, contextVars, HashOnly, exprVars, part>>
  \/ /\ part = "node" /\ InstallNext
     /\ UNCHANGED <<vars, FetchOnly, contextVars, HashOnly, exprVars, part>>
  \/ /\ part = "migration" /\ SelectStage
     /\ UNCHANGED <<vars, FetchOnly, contextVars, HashOnly, exprVars, part>>
  \/ /\ part = "context" /\ ContextNext
     /\ UNCHANGED <<vars, stageVars, FetchOnly, NodeOnly, HashOnly, exprVars, part>>
  \/ /\ part = "hash" /\ HashNext
     /\ UNCHANGED <<vars, stageVars, FetchOnly, NodeOnly, exprVars, part>>
  \/ /\ part = "expression" /\ ExprNext
     /\ UNCHANGED <<vars, stageVars, FetchOnly, NodeOnly, contextVars, HashOnly, part>>
  \/ part # "job" /\ UNCHANGED mcVars

\* The fairness of Job and of Fetch, each where its part is played.
MCFairness ==
  /\ WF_vars(part = "job" /\ EngineStep) /\ WF_vars(part = "job" /\ Killed)
  /\ WF_vars(part = "job" /\ ShutdownCancels) /\ WF_vars(part = "job" /\ GraceExpires)
  /\ WF_vars(part = "job" /\ WatchStep)
  /\ \A c \in Fetches : WF_fetchVars(part = "fetch" /\ CallStep(c))

MCSpec == MCInit /\ [][MCNext]_mcVars /\ MCFairness
=============================================================================
