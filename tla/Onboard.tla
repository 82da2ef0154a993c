------------------------------- MODULE Onboard -------------------------------
(***************************************************************************)
(* `setup` for GitHub: from the flags and answers to a reviewed plan, and   *)
(* from the plan to saved credentials, registrations and one machine unit   *)
(* that runs them all (crates/toolu-runner: setup, setup::stage,            *)
(* setup::scope, setup::apply, register_cmd, machine_service, service_cmd;  *)
(* crates/wire: register).                                                  *)
(*                                                                         *)
(* GitHub's runner lists and the service manager are external.  A runner    *)
(* GitHub lists under a name was minted by this box ("mine") or by another  *)
(* one ("foreign").  `setup` runs one at a time; any request, command or    *)
(* write of it may fail, and it may be killed between any two.              *)
(***************************************************************************)
EXTENDS Naturals, FiniteSets

CONSTANTS Targets,     \* the repositories a plan may cover, in order: 1 .. n
          Names,       \* runner names
          MaxWork,     \* bound on targets planned or removed, over all runs
          MaxMishaps   \* bound on failed or killed steps

ASSUME OnboardAssumption == Targets \subseteq Nat \ {0} /\ MaxWork \in Nat /\ MaxMishaps \in Nat

VARIABLES
  hub,      \* GitHub: hub[t][n], the runner called n at target t
  conf,     \* conf[t]: the runner name in t's config.toml, "" for no file
  cred,     \* the targets with a credentials.json
  app,      \* the saved GitHub App
  file,     \* file[u]: what the unit file u runs
  live,     \* live[u]: what the process of unit u runs
  at,       \* where setup is
  plan,     \* its plan
  todo,     \* targets not registered yet
  old,      \* the configuration register_and_persist would roll back to
  said,     \* how the last run ended
  torn,     \* for the properties: setup was killed between two writes of one registration
  forsaken, \* for the properties: units deleted although stopping them failed
  work, mishaps

box == <<conf, cred, app>>
units == <<file, live>>
vars == <<hub, box, units, at, plan, todo, old, said, torn, forsaken, work, mishaps>>

\* A unit file's command line (Supervises): nothing, `run --all` for this home
\* or another, `run --config` for a target (0: a config outside this home), or
\* not a toolu run.
Unit == {"machine", "old", "system"}
Line == [runs : {"none", "all", "elsewhere", "unknown"}, cfg : {0}]
        \cup [runs : {"config"}, cfg : Targets \cup {0}]
Runs(r) == [runs |-> r, cfg |-> 0]
RunsConfig(t) == [runs |-> "config", cfg |-> t]

NoPlan == [targets |-> {}, name |-> "", replace |-> FALSE, auth |-> "", service |-> FALSE]

Staging == {"match", "auth", "collide", "review"}
Applying == {"bearer", "register", "config", "creds", "install", "write", "activate", "online"}

TypeOK ==
  /\ hub \in [Targets -> [Names -> {"none", "foreign", "mine"}]]
  /\ conf \in [Targets -> Names \cup {""}] /\ cred \subseteq Targets
  /\ app \in {"none", "own", "other"}
  /\ file \in [Unit -> Line] /\ live \in [Unit -> Line]
  /\ at \in {"off"} \cup Staging \cup Applying
  /\ plan.targets \subseteq Targets /\ todo \subseteq plan.targets
  /\ plan.auth \in {"", "token", "app", "create", "import"}
  /\ at \in {"config", "creds"} => todo # {}
  /\ at \in {"install", "write", "activate", "online"} => todo = {} /\ plan.service
  /\ said \in {"", "ok", "kept", "failed"}

Mishap == mishaps < MaxMishaps /\ mishaps' = mishaps + 1

\* The command returns, whatever it had done.
Ends(how) ==
  /\ at' = "off" /\ said' = how /\ todo' = {} /\ old' = ""
  /\ plan' = IF how = "ok" THEN [plan EXCEPT !.replace = FALSE] ELSE NoPlan

Goto(pc) == at' = pc /\ UNCHANGED <<todo, old, said>>

----------------------------------------------------------------------------
(* Staging: nothing is written, except an App GitHub hands over once *)

(* run_setup, rerun_choice, flag_target and auth_plan: the flags and answers.
   Reconfigure is the same plan with --replace, locked to one registration.
   An unattended run is one whose operator never changes the name, creates an
   App, confirms or goes back. *)
SetupBegins ==
  /\ at = "off"
  /\ \E ts \in SUBSET Targets \ {{}}, n \in Names, r, s \in BOOLEAN :
       /\ work' = work + Cardinality(ts) /\ work' <= MaxWork
       /\ plan' = [targets |-> ts, name |-> n, replace |-> r, auth |-> "", service |-> s]
  /\ at' = "match" /\ said' = ""
  /\ UNCHANGED <<hub, box, units, todo, old, torn, forsaken, mishaps>>

\* machine_unit_present
UnitPresent == file["machine"].runs # "none"

(* existing_match: a registration under another name needs --replace; all of
   them in place is "kept", unless the service never landed.  A terminal may
   still change the name after this check. *)
Registered(t) == conf[t] # ""
ExistingMatch ==
  /\ at = "match"
  /\ LET ours == {t \in plan.targets : Registered(t)} IN
     \/ /\ ~plan.replace /\ \E t \in ours : conf[t] # plan.name
        /\ Ends("failed")
     \/ /\ ~plan.replace /\ ours = plan.targets /\ \A t \in ours : conf[t] = plan.name
        /\ plan.service => UnitPresent
        /\ Ends("kept")
     \/ /\ plan.replace \/ /\ \A t \in ours : conf[t] = plan.name
                           /\ ours = plan.targets => plan.service /\ ~UnitPresent
        /\ \E n \in Names : plan' = [plan EXCEPT !.name = n]
        /\ Goto("auth")
  /\ UNCHANGED <<hub, box, units, torn, forsaken, work, mishaps>>

(* auth_plan and authenticate: a token; the saved App, or one created in the
   browser, saved as soon as GitHub returns it (a refusal offers a token); an
   import, refused when a different App is saved. *)
Authenticate ==
  /\ at = "auth"
  /\ \/ plan' = [plan EXCEPT !.auth = "token"] /\ Goto("collide") /\ UNCHANGED app
     \/ /\ app # "none"
        /\ plan' = [plan EXCEPT !.auth = "app"] /\ Goto("collide") /\ UNCHANGED app
     \/ /\ app = "none"
        /\ \/ app' = "own" /\ plan' = [plan EXCEPT !.auth = "app"]
           \/ plan' = [plan EXCEPT !.auth = "token"] /\ UNCHANGED app
        /\ Goto("collide")
     \/ /\ app # "own"
        /\ plan' = [plan EXCEPT !.auth = "import"] /\ Goto("collide") /\ UNCHANGED app
     \/ Ends("failed") /\ UNCHANGED app
  /\ UNCHANGED <<hub, conf, cred, units, torn, forsaken, work, mishaps>>

(* check_collision: targets registered here are skipped, a lookup that fails
   counts as no collision. *)
Colliding == {t \in plan.targets : ~Registered(t) /\ hub[t][plan.name] # "none"}
CheckCollision ==
  /\ at = "collide"
  /\ \/ /\ plan.replace \/ Colliding = {}
        /\ Goto("review") /\ UNCHANGED <<plan, mishaps>>
     \/ /\ ~plan.replace /\ Colliding # {}
        /\ plan' = [plan EXCEPT !.replace = TRUE]
        /\ Goto("review") /\ UNCHANGED mishaps
     \/ /\ ~plan.replace /\ Colliding # {}
        /\ Ends("failed") /\ UNCHANGED mishaps
     \/ /\ ~plan.replace /\ Colliding # {} /\ Mishap
        /\ Goto("review") /\ UNCHANGED plan
  /\ UNCHANGED <<hub, box, units, torn, forsaken, work>>

(* Review: apply, go back, cancel; a dry run ends here. *)
Review ==
  /\ at = "review"
  /\ \/ Goto("bearer") /\ UNCHANGED plan
     \/ Goto("match") /\ UNCHANGED plan
     \/ Ends("failed")
  /\ UNCHANGED <<hub, box, units, torn, forsaken, work, mishaps>>

----------------------------------------------------------------------------
(* Apply: credentials and registrations *)

(* scope_bearer, persist_import and store_token (the stored token is read by
   later commands only). *)
Bearer ==
  /\ at = "bearer"
  /\ app' = IF plan.auth = "import" THEN "other" ELSE app
  /\ at' = "register" /\ todo' = plan.targets /\ plan' = [plan EXCEPT !.auth = ""]
  /\ UNCHANGED <<hub, conf, cred, units, old, said, torn, forsaken, work, mishaps>>

Target == CHOOSE t \in todo : \A u \in todo : t <= u
Hub(what) == hub' = [hub EXCEPT ![Target][plan.name] = what]

\* The next target, or what follows the last one.
Mutant_NextTarget ==
  /\ todo' = todo \ {Target} /\ old' = ""
  /\ at' = IF todo' # {} THEN "register" ELSE "install"
  /\ UNCHANGED <<plan, said>>
NextTarget ==
  /\ todo' = todo \ {Target} /\ old' = ""
  /\ IF todo' # {} THEN at' = "register" /\ UNCHANGED <<plan, said>>
     ELSE IF plan.service THEN at' = "install" /\ UNCHANGED <<plan, said>>
     ELSE at' = "off" /\ said' = "ok" /\ plan' = [plan EXCEPT !.replace = FALSE]

(* register_one for a target that has a config and may not be replaced. *)
Resume ==
  /\ at = "register" /\ Registered(Target) /\ ~plan.replace
  /\ IF conf[Target] = plan.name THEN NextTarget ELSE Ends("failed")
  /\ UNCHANGED <<hub, box, units, torn, forsaken, work, mishaps>>

(* register_jit: mint; on a taken name, with replace, delete the runner found
   under it and mint again.  A failed request ends setup wherever it got to:
   with nothing done, the old runner gone, or a runner minted nobody here
   knows of. *)
Mutant_Mint ==
  /\ at = "register" /\ ~(Registered(Target) /\ ~plan.replace)
  /\ \/ Hub("mine") /\ Goto("config") /\ UNCHANGED <<plan, mishaps>>
     \/ Mishap /\ (UNCHANGED hub \/ Hub("mine") \/ Hub("none")) /\ Ends("failed")
  /\ UNCHANGED <<box, units, torn, forsaken, work>>
Mint ==
  /\ at = "register" /\ ~(Registered(Target) /\ ~plan.replace)
  /\ LET free == hub[Target][plan.name] = "none" IN
     \/ (free \/ plan.replace) /\ Hub("mine") /\ Goto("config") /\ UNCHANGED <<plan, mishaps>>
     \/ ~free /\ ~plan.replace /\ Ends("failed") /\ UNCHANGED <<hub, mishaps>>
     \/ /\ Mishap /\ Ends("failed")
        /\ \/ UNCHANGED hub
           \/ (free \/ plan.replace) /\ Hub("mine")
           \/ ~free /\ plan.replace /\ Hub("none")
  /\ UNCHANGED <<box, units, torn, forsaken, work>>

(* register_and_persist: config.toml first ... *)
SaveConfig ==
  /\ at = "config"
  /\ \/ /\ conf' = [conf EXCEPT ![Target] = plan.name] /\ old' = conf[Target]
        /\ at' = "creds" /\ UNCHANGED <<plan, todo, said, mishaps>>
     \/ Mishap /\ Ends("failed") /\ UNCHANGED conf
  /\ UNCHANGED <<hub, cred, app, units, torn, forsaken, work>>

(* ... then credentials.json; if that fails the config is rolled back. *)
SaveCreds ==
  /\ at = "creds"
  /\ \/ cred' = cred \cup {Target} /\ NextTarget /\ UNCHANGED <<conf, mishaps>>
     \/ Mishap /\ Ends("failed") /\ conf' = [conf EXCEPT ![Target] = old] /\ UNCHANGED cred
  /\ UNCHANGED <<hub, app, units, torn, forsaken, work>>

----------------------------------------------------------------------------
(* Apply: the machine unit *)

(* disposition, for an installation into the user's unit directory. *)
Mutant_Disposition(u) ==
  LET line == file[u] IN
  CASE line.runs = "none" -> "absent"
    [] line.runs = "elsewhere" -> "other_home"
    [] line.runs = "all" -> "machine"
    [] u = "machine" -> "replace"
    [] line.runs = "config" /\ line.cfg # 0 -> "replace"
    [] OTHER -> "keep"
Disposition(u) ==
  LET line == file[u] IN
  CASE line.runs = "none" -> "absent"
    [] line.runs = "elsewhere" -> "other_home"
    [] line.runs = "all" -> IF u = "machine" THEN "machine" ELSE "replace"
    [] u = "machine" -> "replace"
    [] line.runs = "config" /\ line.cfg # 0 -> "replace"
    [] OTHER -> "keep"

\* The units replace_old_units stops: never a system unit.
Replaced == {u \in Unit \ {"system"} : Disposition(u) = "replace"}

\* refuse_foreign_at
Mutant_Refused == FALSE
Refused == Disposition("machine") \in {"other_home", "keep"}

(* refuse_foreign_at, then replace_old_units: one unit is stopped, and only
   then its file deleted.  A failed `disable --now` or `daemon-reload` keeps
   the file and ends setup. *)
Mutant_ReplaceUnits ==
  /\ at = "install"
  /\ \/ Refused /\ Ends("failed") /\ UNCHANGED <<units, mishaps>>
     \/ /\ ~Refused /\ Replaced = {}
        /\ Goto("write") /\ UNCHANGED <<plan, units, mishaps>>
     \/ /\ ~Refused
        /\ \E u \in Replaced :
             /\ file' = [file EXCEPT ![u] = Runs("none")]
             /\ \/ live' = [live EXCEPT ![u] = Runs("none")] /\ UNCHANGED mishaps
                \/ Mishap /\ UNCHANGED live
             /\ UNCHANGED <<at, plan, todo, old, said>>
  /\ UNCHANGED <<hub, box, torn, forsaken, work>>
ReplaceUnits ==
  /\ at = "install"
  /\ \/ Refused /\ Ends("failed") /\ UNCHANGED <<units, mishaps>>
     \/ /\ ~Refused /\ Replaced = {}
        /\ Goto("write") /\ UNCHANGED <<plan, units, mishaps>>
     \/ /\ ~Refused
        /\ \E u \in Replaced :
             \/ /\ live' = [live EXCEPT ![u] = Runs("none")]
                /\ file' = [file EXCEPT ![u] = Runs("none")]
                /\ UNCHANGED <<at, plan, todo, old, said, mishaps>>
             \/ /\ Mishap /\ Ends("failed") /\ UNCHANGED file
                /\ (UNCHANGED live \/ live' = [live EXCEPT ![u] = Runs("none")])
  /\ UNCHANGED <<hub, box, torn, forsaken, work>>

WriteUnit ==
  /\ at = "write"
  /\ \/ file' = [file EXCEPT !["machine"] = Runs("all")] /\ Goto("activate") /\ UNCHANGED <<plan, mishaps>>
     \/ Mishap /\ Ends("failed") /\ UNCHANGED file
  /\ UNCHANGED <<hub, box, live, torn, forsaken, work>>

(* activate, then notify: a running supervisor rescans. *)
Activate ==
  /\ at = "activate"
  /\ \/ live' = [live EXCEPT !["machine"] = file["machine"]] /\ Goto("online") /\ UNCHANGED <<plan, mishaps>>
     \/ Mishap /\ Ends("failed") /\ UNCHANGED live
  /\ UNCHANGED <<hub, box, file, torn, forsaken, work>>

\* A live unit drives t's registration.
Drives(u, t) == live[u].runs = "all" \/ live[u] = RunsConfig(t)

(* poll_online, for every runner: listed under its name and online, or the
   timeout. *)
Online ==
  /\ at = "online"
  /\ \/ /\ \A t \in plan.targets : hub[t][plan.name] # "none"
        /\ Ends("ok")
     \/ Ends("failed")
  /\ UNCHANGED <<hub, box, units, torn, forsaken, work, mishaps>>

Killed ==
  /\ at # "off" /\ Mishap /\ Ends("failed")
  /\ torn' = (torn \/ at = "creds")
  /\ UNCHANGED <<hub, box, units, forsaken, work>>

----------------------------------------------------------------------------
(* The other commands that touch units and registrations *)

(* remove_service: stopping the unit is best effort, deleting its file is not. *)
RemoveService(u) ==
  /\ file' = [file EXCEPT ![u] = Runs("none")]
  /\ \/ live' = [live EXCEPT ![u] = Runs("none")] /\ UNCHANGED <<forsaken, mishaps>>
     \/ Mishap /\ forsaken' = forsaken \cup {u} /\ UNCHANGED live

Command == at = "off" /\ work < MaxWork /\ work' = work + 1 /\ said' = "" /\ plan' = NoPlan

(* remove of a GitHub registration (module Runner has its steps), then
   uninstall_if_last. *)
RemoveRegistration ==
  /\ Command
  /\ \E t \in Targets :
       /\ Registered(t)
       /\ hub' = [hub EXCEPT ![t][conf[t]] = IF @ = "mine" THEN "none" ELSE @]
       /\ conf' = [conf EXCEPT ![t] = ""] /\ cred' = cred \ {t}
       /\ IF (\A u \in Targets \ {t} : ~Registered(u)) /\ file["machine"].runs = "all"
          THEN RemoveService("machine")
          ELSE UNCHANGED <<units, forsaken, mishaps>>
  /\ UNCHANGED <<app, at, todo, old, torn>>

(* install-service --config: the unit of one registration, at a path of its
   own, written and activated whatever else drives it. *)
InstallUnit ==
  /\ Command
  /\ file["old"].runs = "none" \/ (file["old"].runs = "config" /\ file["old"].cfg # 0)
  /\ \E t \in Targets :
       /\ Registered(t)
       /\ file' = [file EXCEPT !["old"] = RunsConfig(t)]
       /\ \/ live' = [live EXCEPT !["old"] = RunsConfig(t)] /\ UNCHANGED mishaps
          \/ Mishap /\ UNCHANGED live
  /\ UNCHANGED <<hub, box, at, todo, old, torn, forsaken>>

(* install-service --config --remove. *)
RemoveUnit ==
  /\ Command
  /\ file["old"].runs = "config" /\ file["old"].cfg # 0
  /\ RemoveService("old")
  /\ UNCHANGED <<hub, box, at, todo, old, torn>>

\* Another box registers a runner under one of the names.
OthersRegister ==
  /\ at # "off" /\ Mishap
  /\ \E t \in plan.targets : /\ hub[t][plan.name] = "none"
                             /\ hub' = [hub EXCEPT ![t][plan.name] = "foreign"]
  /\ UNCHANGED <<box, units, at, plan, todo, old, said, torn, forsaken, work>>

----------------------------------------------------------------------------
\* What earlier releases and the operator may have installed: the unit at the
\* machine unit's path, another user unit, the system's unit.
UnitWorlds ==
  LET none == Runs("none") all == Runs("all") IN
  { <<none, none, none>>, <<none, all, none>>, <<none, RunsConfig(1), none>>,
    <<all, RunsConfig(0), none>>, <<Runs("elsewhere"), RunsConfig(1), none>>,
    <<Runs("unknown"), Runs("elsewhere"), all>> }

(* A box before setup: registered or not, with a unit of an older release or
   none. *)
Init ==
  /\ \E who \in [Targets -> {"none", "foreign", "mine"}] : LET n == CHOOSE m \in Names : TRUE IN
       /\ hub = [t \in Targets |-> [m \in Names |-> IF m = n THEN who[t] ELSE "none"]]
       /\ conf = [t \in Targets |-> IF who[t] = "mine" THEN n ELSE ""]
       /\ cred = {t \in Targets : who[t] = "mine"}
  /\ app = "none"
  /\ \E world \in UnitWorlds :
       file = [u \in Unit |-> CASE u = "machine" -> world[1] [] u = "old" -> world[2] [] OTHER -> world[3]]
  /\ live = file
  /\ at = "off" /\ plan = NoPlan /\ todo = {} /\ old = "" /\ said = ""
  /\ torn = FALSE /\ forsaken = {} /\ work = 0 /\ mishaps = 0

Next ==
  \/ SetupBegins \/ ExistingMatch \/ Authenticate \/ CheckCollision \/ Review
  \/ Bearer \/ Resume \/ Mint \/ SaveConfig \/ SaveCreds
  \/ ReplaceUnits \/ WriteUnit \/ Activate \/ Online \/ Killed
  \/ RemoveRegistration \/ InstallUnit \/ RemoveUnit \/ OthersRegister

Spec == Init /\ [][Next]_vars

----------------------------------------------------------------------------
(* Another box's runner disappears from GitHub only under a plan that says
   replace: --replace, or a confirmation given for this plan (register_jit,
   check_collision, register_one). *)
NoSilentReplace ==
  [][\A t \in Targets, n \in Names :
       hub[t][n] = "foreign" /\ hub'[t][n] # "foreign" => plan.replace /\ plan.name = n]_vars

(* A setup that reports success has every target registered here, with its
   credentials, whatever an earlier run left behind (unless it was killed
   between the two files); with the service, GitHub lists the runners and
   the machine unit drives them and, units a removal failed to stop aside, no
   other user unit does. *)
SuccessIsTrue ==
  said = "ok" =>
    /\ \A t \in plan.targets : conf[t] = plan.name /\ (t \in cred \/ torn)
    /\ plan.service =>
         \A t \in plan.targets :
           /\ hub[t][plan.name] # "none" /\ Drives("machine", t)
           /\ \A u \in Unit \ ({"machine", "system"} \cup forsaken) : ~Drives(u, t)

(* Migration never leaves a running process without its unit file
   (replace_old_units: "a running process is never left without its unit"),
   removals whose stop failed aside. *)
NoOrphanedUnit ==
  \A u \in Unit \ forsaken : live[u].runs # "none" => file[u].runs # "none"

(* No step touches a unit that serves another home (refuse_foreign_at,
   disposition). *)
OthersUnitsKept ==
  [][\A u \in Unit : file[u].runs = "elsewhere" => file'[u] = file[u] /\ live'[u] = live[u]]_vars

(* What `setup` leaves is what it says: a reported success is one, and every
   unit that runs was asked for and can be found again. *)
SetupIsTrue == TypeOK /\ SuccessIsTrue /\ NoOrphanedUnit
=============================================================================
