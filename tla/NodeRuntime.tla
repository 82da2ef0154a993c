----------------------------- MODULE NodeRuntime -----------------------------
(***************************************************************************)
(* The Node.js runtime of an action's stage (execution/node): which major  *)
(* it runs on (the node20 to node24 migration), which build its target     *)
(* needs, and how that build is found: an operator's directory, the shared *)
(* cache, or a download that must start here before it is committed.       *)
(* Installs are workers of Staging: the marker of a runtime is bin/node.   *)
(***************************************************************************)
EXTENDS Staging

CONSTANTS Installs,      \* stages that need the runtime, in several processes
          Targets,       \* what they may have to run on: [arch, libc, host]
          Preseeds,      \* states of TOOLU_RUNNER_NODE_DIR at the start
          MaxDownloads,  \* DOWNLOAD_ATTEMPTS
          MaxSwaps,      \* bound: how often the operator replaces a preseeded binary
          Declared,      \* action -> the major its manifest declares
          Phases,        \* the server's flags: [default, require, warn]
          Switches,      \* FORCE.. and ALLOW..: where each is set, and to what
          MaxStages      \* bound: stages of the job that select a runtime

VARIABLES
  target,      \* the environment the runtime must start in
  preseed,     \* the preseeded binary: [is, mtime]; is = "unset" without the directory
  download,    \* install -> downloads tried
  proven,      \* PROVEN: process -> modification times of binaries that started
  got,         \* ghost: install -> the binary it was handed
  phase,       \* NodeMigrationFlags
  upgraded, deprecated,   \* NodeMigrationState
  ran          \* ghost: what ran: set of [action, major]

nodeVars == <<stageVars, target, preseed, download, proven, got, phase,
              upgraded, deprecated, ran>>
migration == <<phase, upgraded, deprecated, ran>>
sources   == <<target, preseed, proven>>

----------------------------------------------------------------------------
(* The build *)

\* classify and container_target: musl builds exist for x64 alone.
Supported(t) == t.libc = "musl" => t.arch = "x64"

\* cache_name: one directory per C library.
RuntimeDir(t) == t.libc

\* ensure_node_runtime_from up to the download.
EnsureRuntime(w) ==
  /\ at[w] = "idle"
  /\ \/ /\ ~Supported(target)
        /\ Go(w, "returned") /\ got' = [got EXCEPT ![w] = "error"]
     \/ /\ Supported(target) /\ preseed.is # "unset"
        /\ Go(w, "preseed") /\ UNCHANGED got
     \/ /\ Supported(target) /\ preseed.is = "unset"
        /\ IF Cached(RuntimeDir(target))
           THEN Go(w, "returned") /\ got' = [got EXCEPT ![w] = dir[RuntimeDir(target)].of]
           ELSE Go(w, "download") /\ UNCHANGED got
  /\ UNCHANGED <<dir, staging, late, faults, download, sources, migration>>

\* preseeded and validate_runtime_once: authoritative, never downloads; a
\* binary proven in this process is not run again until it changes.
Proven(w) == preseed.mtime \in proven[w.process]
Preseeded(w) ==
  /\ at[w] = "preseed" /\ Go(w, "returned")
  /\ IF preseed.is = "missing" \/ (target.host /\ ~Proven(w) /\ preseed.is = "broken")
     THEN got' = [got EXCEPT ![w] = "error"] /\ UNCHANGED proven
     ELSE /\ got' = [got EXCEPT ![w] = preseed.is]
          /\ proven' = IF target.host THEN [proven EXCEPT ![w.process] = @ \cup {preseed.mtime}]
                                      ELSE proven
  /\ UNCHANGED <<dir, staging, late, faults, download, target, preseed, migration>>

\* The operator replaces the preseeded binary.
Swap ==
  /\ preseed.is # "unset" /\ preseed.mtime < MaxSwaps
  /\ \E is \in {"good", "broken"} : preseed' = [is |-> is, mtime |-> preseed.mtime + 1]
  /\ UNCHANGED <<stageVars, target, download, proven, got, migration>>

\* Attempts per install.
MayRetry(w) == download[w] + 1 < MaxDownloads

\* download_into, one attempt: a build that starts on the target, or does not;
\* a transient failure is tried again, a few times.
Download(w) ==
  /\ at[w] = "download"
  /\ \/ /\ \E build \in {"good", "broken"} :
             staging' = [staging EXCEPT ![w] = [there |-> TRUE, mark |-> TRUE, whole |-> TRUE, of |-> build]]
        /\ Go(w, "validate") /\ UNCHANGED <<faults, download, got>>
     \/ /\ Fault /\ MayRetry(w)
        /\ download' = [download EXCEPT ![w] = @ + 1] /\ UNCHANGED <<at, staging, got>>
     \/ /\ Fault /\ Go(w, "returned") /\ got' = [got EXCEPT ![w] = "error"]
        /\ UNCHANGED <<staging, download>>
  /\ UNCHANGED <<dir, late, sources, migration>>

\* The start check, in staging and only for a build that can run here.
Mutant_Starts(w) == TRUE
Starts(w) == target.host => staging[w].of = "good"
Validate(w) ==
  /\ at[w] = "validate"
  /\ IF Starts(w)
     THEN Go(w, "promote") /\ UNCHANGED <<staging, got>>
     ELSE Discard(w) /\ Go(w, "returned") /\ got' = [got EXCEPT ![w] = "error"]
  /\ UNCHANGED <<dir, late, faults, download, sources, migration>>

\* promote_staging of node/download.rs.
PromoteRuntime(w) ==
  /\ at[w] \in Promoting /\ Promote(w, RuntimeDir(target))
  /\ UNCHANGED <<download, got, sources, migration>>

Installed(w) ==
  /\ at[w] \in {"promoted", "unpromoted"} /\ Go(w, "returned")
  /\ got' = [got EXCEPT ![w] = IF at[w] = "promoted" THEN dir[RuntimeDir(target)].of ELSE "error"]
  /\ UNCHANGED <<dir, staging, late, faults, download, sources, migration>>

\* The stage's bounds end the wait, or its process dies.
GiveUp(w) ==
  /\ at[w] \in {"download", "validate"} \cup Promoting /\ Go(w, "gone") /\ Discard(w)
  /\ UNCHANGED <<dir, late, faults, download, got, sources, migration>>

----------------------------------------------------------------------------
(* The migration *)

\* switch_details: the workflow's value decides, even an empty one; the system
\* counts as a source when it says anything.
SwitchDetails(s) ==
  [is |-> (IF s.workflow = "unset" THEN s.system ELSE s.workflow) = "true",
   workflow |-> s.workflow # "unset", system |-> s.system \notin {"unset", ""}]

\* determine_actions_node_version.
NodeVersion(p, force, allow) ==
  LET f == SwitchDetails(force)  a == SwitchDetails(allow)
      clash == f.is /\ a.is /\ ((f.workflow /\ a.workflow) \/ (f.system /\ a.system))
      standard == IF p.default THEN 24 ELSE 20
  IN  CASE p.require -> 24
        [] ~p.require /\ clash -> standard
        [] ~p.require /\ ~clash /\ p.default -> IF a.is THEN 20 ELSE 24
        [] OTHER -> IF f.is THEN 24 ELSE 20

\* select_node_version: node12 and node16 count as node20, others stay.
Selected(declared, p, force, allow) ==
  IF declared > 20 THEN declared ELSE NodeVersion(p, force, allow)

\* Tracking: the list of the end-of-job warning the action belongs to.
Mutant_Tracking(declared, major) ==
  CASE major = 24 -> "upgraded" [] OTHER -> IF phase.warn THEN "deprecated" ELSE ""
Tracking(declared, major) ==
  CASE declared > 20 -> ""
    [] declared <= 20 /\ major = 24 -> "upgraded"
    [] OTHER -> IF phase.warn THEN "deprecated" ELSE ""

\* NodeMigrationState::record; its sets are what completion_warnings lists.
Record(a, list) ==
  /\ upgraded' = IF list = "upgraded" THEN upgraded \cup {a} ELSE upgraded
  /\ deprecated' = IF list = "deprecated" THEN deprecated \cup {a} ELSE deprecated

\* select_stage_node, for every stage of every action: the environment, and so
\* the switches, may differ from stage to stage.
SelectStage ==
  /\ Cardinality(ran) < MaxStages
  /\ \E a \in DOMAIN Declared, force \in Switches, allow \in Switches :
       LET major == Selected(Declared[a], phase, force, allow)
       IN  /\ ran' = ran \cup {[action |-> a, major |-> major]}
           /\ Record(a, Tracking(Declared[a], major))
  /\ UNCHANGED <<stageVars, sources, download, got, phase>>

----------------------------------------------------------------------------
InstallStep(w) ==
  \/ EnsureRuntime(w) \/ Preseeded(w) \/ Download(w) \/ Validate(w)
  \/ PromoteRuntime(w) \/ Installed(w)

NodeInit ==
  /\ target \in Targets /\ StagingInit({RuntimeDir(target)})
  /\ \E is \in Preseeds : preseed = [is |-> is, mtime |-> 0]
  /\ download = [w \in Installs |-> 0] /\ got = [w \in Installs |-> ""]
  /\ proven = [p \in {w.process : w \in Installs} |-> {}]
  /\ phase \in Phases /\ upgraded = {} /\ deprecated = {} /\ ran = {}

InstallNext == Swap \/ \E w \in Installs : InstallStep(w) \/ GiveUp(w)

----------------------------------------------------------------------------
(* Properties *)

\* A stage on this host is handed a runtime that started here: from the
\* operator's directory though the binary was replaced, from a cache that
\* another process filled, or from its own download (late removals aside).
RuntimeStarts ==
  target.host => \A w \in Installs : got[w] # "broken"

\* The end-of-job warnings name the node20 actions that ran on node24, and
\* those that ran on node20 when that is asked for, and no other action.
WarningsTell ==
  LET on(m) == {r.action : r \in {x \in ran : x.major = m /\ Declared[x.action] <= 20}}
  IN  upgraded = on(24) /\ deprecated = IF phase.warn THEN on(20) ELSE {}

(* A stage runs on a Node that starts where it runs, and the migration
   warnings name exactly the actions it concerns. *)
NodeIsRight == RuntimeStarts /\ WarningsTell
=============================================================================
