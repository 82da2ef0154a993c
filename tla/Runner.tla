------------------------------- MODULE Runner -------------------------------
(***************************************************************************)
(* One registration of the runner binary and everything that drives or     *)
(* changes it: the loops the `run --all` supervisor starts for it, a       *)
(* foreground `run`, and the commands `register` and `remove`              *)
(* (crates/toolu-runner: supervisor.rs, run_cmd.rs, main.rs, ...).  They   *)
(* share the files of its data directory, its lock and GitHub's record of  *)
(* the runner.  A lifecycle of the listener is abstracted to what          *)
(* GitHubListener::run returns; module Listener models its inside.         *)
(***************************************************************************)
EXTENDS Lockfile, LoopDecision

CONSTANTS
  MaxMints,    \* bound: JIT configurations GitHub mints
  MaxTrouble,  \* bound: failures, crashes, signals, foreground runs,
               \*   forced or repeated removals
  Overlap,     \* acquire calls and operator commands may interleave
  LeftBehind   \* an old .lock of a killed process is there at the start

ASSUME BoundsAssumption ==
  /\ IsFiniteSet(Users) /\ "rm" \in Users /\ None \notin Users
  /\ MaxMints \in Nat \ {0} /\ MaxTrouble \in Nat
  /\ Overlap \in BOOLEAN /\ LeftBehind \in BOOLEAN

Loops == Users \ {"fg", "rm"}    \* the supervisor's tasks
Drivers == Users \ {"rm"}        \* what may drive the registration

VARIABLES
  config,    \* config.toml and credentials.json, Absent when there is none
  pending,   \* .pending_remove exists
  stopped,   \* .stopped exists
  pc,        \* where a driver is
  cfg,       \* the configuration a driver, or `remove`, has loaded
  out,       \* what its last listener lifecycle returned
  cancelled, \* processes whose root token is cancelled
  sup,       \* where the supervisor is
  hup,       \* a SIGHUP it has not taken yet
  scan,      \* what its rescan has read
  cur,       \* Supervisor::loops for this registration, None when there is none
  drained,   \* loops whose drain token is cancelled
  retired,   \* Supervisor::retired
  rm,        \* where `remove` is
  force,     \* its --force
  reg,       \* where `register` is
  wanted,    \* the configuration that `register` is making
  runner,    \* GitHub: the JIT configuration of the registered runner, 0 none
  minted,    \* GitHub: JIT configurations minted
  trouble,   \* outcomes other than success so far
  waived     \* what the operator or GitHub gave up on: see the properties

disk == <<config, pending, stopped>>
drivers == <<pc, cfg, out>>
supervisor == <<sup, hup, scan, cur, drained, retired>>
commands == <<rm, force, reg, wanted>>
github == <<runner, minted>>
vars == <<lockVars, disk, drivers, cancelled, supervisor, commands, github,
          trouble, waived>>

Absent == [mint |-> 0, ephemeral |-> FALSE]
Configs == [mint : 1 .. MaxMints, ephemeral : BOOLEAN]
NoScan == [entry |-> FALSE, pending |-> FALSE, departing |-> FALSE]

Phases == {"off", "load", "lock", "wait", "ready", "top", "session", "job",
           "decide", "mint", "persist", "backoff", "cleanup", "wipe", "end",
           "fatal", "record", "done"}
Outcomes == {"none", "idle", "job", "jobErr", "auth", "conflict", "error"}

Waivers == {"force", "unregister", "runner", "unverified"}

TypeOK ==
  /\ LockTypeOK
  /\ config \in Configs \cup {Absent}
  /\ pending \in BOOLEAN /\ stopped \in BOOLEAN
  /\ pc \in [Drivers -> Phases]
  /\ cfg \in [Users -> Configs \cup {Absent}]
  /\ out \in [Drivers -> Outcomes]
  /\ cancelled \subseteq {"supervisor", "fg"}
  /\ sup \in {"down", "scan", "apply", "serve", "stop"}
  /\ hup \in BOOLEAN
  /\ scan \in [entry : BOOLEAN, pending : BOOLEAN, departing : BOOLEAN]
  /\ cur \in Loops \cup {None}
  /\ drained \subseteq Loops /\ retired \subseteq Loops
  /\ rm \in {"off", "lock", "drain", "wait", "reload", "unregister", "delete",
             "after", "kept"}
  /\ rm = "unregister" => cfg["rm"] # Absent
  /\ force \in BOOLEAN
  /\ reg \in {"off", "mint", "save", "notify"}
  /\ wanted \in [mint : 0 .. MaxMints, ephemeral : BOOLEAN]
  /\ runner \in 0 .. MaxMints /\ minted \in 0 .. MaxMints
  /\ trouble \in 0 .. MaxTrouble
  /\ waived \subseteq Waivers

Init ==
  /\ LockInit(IF LeftBehind THEN "fg" ELSE None)
  /\ config = Absent /\ pending = FALSE /\ stopped = FALSE
  /\ pc = [d \in Drivers |-> "off"]
  /\ cfg = [u \in Users |-> Absent]
  /\ out = [d \in Drivers |-> "none"]
  /\ cancelled = {}
  /\ sup = "down" /\ hup = FALSE /\ scan = NoScan
  /\ cur = None /\ drained = {} /\ retired = {}
  /\ rm = "off" /\ force = FALSE /\ reg = "off" /\ wanted = Absent
  /\ runner = 0 /\ minted = 0 /\ trouble = 0 /\ waived = {}

(* What is not the plain course of events counts against MaxTrouble. *)
Trouble == trouble < MaxTrouble /\ trouble' = trouble + 1

(* register_jit with replace: a fresh runner in the place of any of that name.
   A failure may come after the old runner was deleted. *)
Registers == minted < MaxMints /\ minted' = minted + 1 /\ runner' = minted + 1
RegisterFails ==
  /\ IF minted = MaxMints THEN UNCHANGED trouble ELSE Trouble
  /\ runner' \in {0, runner} /\ UNCHANGED minted

(* unregister_runner: the runner of that id goes; for one that is not there,
   the lookup by name must find none either. *)
Mutant_Unregisters(u) ==
  runner' = IF runner = cfg[u].mint THEN 0 ELSE runner
Unregisters(u) == runner \in {0, cfg[u].mint} /\ runner' = 0
UnregisterFails(u) ==
  /\ IF runner \in {0, cfg[u].mint} THEN Trouble ELSE UNCHANGED trouble
  /\ UNCHANGED runner

Alive ==
  (IF sup # "down" THEN {"supervisor"} ELSE {})
    \cup {d \in {"fg"} \cap Drivers : pc[d] # "off"}
    \cup (IF rm # "off" THEN {"rm"} ELSE {})

(* The token a loop races its waits against: the process's root token or its
   own drain token. *)
Mutant_Cancelled(d) == ProcOf(d) \in cancelled
Mutant_DrainOnly(d) == d \in drained
Cancelled(d) == ProcOf(d) \in cancelled \/ d \in drained
Goto(d, phase) == pc' = [pc EXCEPT ![d] = phase]

-----------------------------------------------------------------------------
(* The loop of a registration (run_cmd.rs, supervisor.rs)                  *)

(* supervise, drive_registration and cmd_run: load the configuration, then
   ask for the lock. *)
Load(d) ==
  /\ pc[d] = "load"
  /\ IF config = Absent
     THEN Goto(d, "fatal") /\ UNCHANGED lockVars
     ELSE /\ Goto(d, "lock")
          /\ lk' = [lk EXCEPT ![d] = "open"]
          /\ UNCHANGED <<path, flock, body, aged, fd, seen>>
  /\ UNCHANGED <<disk, cfg, out, cancelled, supervisor, commands, github,
                 trouble, waived>>

(* acquire_when_free waits out another holder; a foreground run gives up on
   the first refusal, and any other error ends both. *)
LockAnswer(d) ==
  /\ pc[d] = "lock" /\ lk[d] \in {"held", "refused", "failed"}
  /\ Goto(d, CASE lk[d] = "held"    -> IF d = "fg" THEN "top" ELSE "ready"
               [] lk[d] = "refused" -> IF d = "fg" THEN "fatal" ELSE "wait"
               [] OTHER             -> "fatal")
  /\ seen' = [seen EXCEPT ![d] = None]     \* the pid is only logged
  /\ UNCHANGED <<path, flock, body, aged, lk, fd, disk, cfg, out, cancelled,
                 supervisor, commands, github, trouble, waived>>

(* A try of a polling loop that would be refused once more changes nothing. *)
WorthATry == path # 0 => flock[path] = None \/ Stale(Alive)

(* The LOCK_RETRY sleep: cut short by the root token or the drain. *)
RetryLock(d) ==
  /\ pc[d] = "wait" /\ (Cancelled(d) \/ WorthATry)
  /\ IF Cancelled(d)
     THEN Goto(d, "end") /\ UNCHANGED lockVars
     ELSE /\ Goto(d, "lock")
          /\ lk' = [lk EXCEPT ![d] = "open"]
          /\ UNCHANGED <<path, flock, body, aged, fd, seen>>
  /\ UNCHANGED <<disk, cfg, out, cancelled, supervisor, commands, github,
                 trouble, waived>>

(* ready_to_drive: with the lock held, a pending removal ends the loop and
   anything else clears .stopped. *)
Mutant_Ready(d) ==
  /\ pc[d] = "ready"
  /\ IF pending THEN Goto(d, "end") ELSE Goto(d, "top")
  /\ UNCHANGED <<lockVars, disk, cfg, out, cancelled, supervisor, commands,
                 github, trouble, waived>>
Ready(d) ==
  /\ pc[d] = "ready"
  /\ IF pending
     THEN Goto(d, "end") /\ UNCHANGED stopped
     ELSE Goto(d, "top") /\ stopped' = FALSE
  /\ UNCHANGED <<lockVars, config, pending, cfg, out, cancelled, supervisor,
                 commands, github, trouble, waived>>

(* A pass of RunLoop::drive is over, and with it the configuration it loaded. *)
PassEnds(d) == cfg' = [cfg EXCEPT ![d] = Absent]

(* The head of RunLoop::drive: every pass reloads the configuration, and a
   configuration that is gone is fatal. *)
Top(d) ==
  /\ pc[d] = "top"
  /\ cfg' = [cfg EXCEPT ![d] = config]
  /\ Goto(d, IF config = Absent THEN "fatal" ELSE "session")
  /\ UNCHANGED <<lockVars, disk, out, cancelled, supervisor, commands, github,
                 trouble, waived>>

(* run_once while no job is acquired.  GitHub refuses a configuration it has
   replaced, removed or seen used; otherwise the poll ends with a job, with a
   drain or a signal, with a conflict, or with another error, an acquire
   whose answer is lost included (GitHub then has assigned the job). *)
Session(d) ==
  /\ pc[d] = "session"
  /\ \/ /\ runner # cfg[d].mint
        /\ out' = [out EXCEPT ![d] = "auth"] /\ Goto(d, "decide")
        /\ UNCHANGED <<runner, trouble>>
     \/ /\ runner = cfg[d].mint
        /\ runner' = 0 /\ Goto(d, "job")
        /\ UNCHANGED <<out, trouble>>
     \/ /\ Cancelled(d)
        /\ out' = [out EXCEPT ![d] = "idle"] /\ Goto(d, "decide")
        /\ UNCHANGED <<runner, trouble>>
     \/ /\ runner = cfg[d].mint /\ Trouble
        /\ \E o \in {"conflict", "error"} : out' = [out EXCEPT ![d] = o]
        /\ Goto(d, "decide")
        /\ UNCHANGED runner
     \/ /\ runner = cfg[d].mint /\ Trouble
        /\ out' = [out EXCEPT ![d] = "error"] /\ Goto(d, "decide")
        /\ runner' = 0
  /\ UNCHANGED <<lockVars, disk, cfg, cancelled, supervisor, commands, minted, waived>>

(* run_once with a job: a drain never ends it; it ends by itself (or by the
   root token), with a conclusion or with an error after the acquire. *)
Job(d) ==
  /\ pc[d] = "job"
  /\ \/ out' = [out EXCEPT ![d] = "job"] /\ UNCHANGED trouble
     \/ out' = [out EXCEPT ![d] = "jobErr"] /\ Trouble
  /\ Goto(d, "decide")
  /\ UNCHANGED <<lockVars, disk, cfg, cancelled, supervisor, commands, github, waived>>

(* The tail of drive: the signals are read after the lifecycle returned.
   Only a foreground run may be `--once`. *)
Decide(d) ==
  /\ pc[d] = "decide"
  /\ \E once \in (IF d = "fg" THEN BOOLEAN ELSE {FALSE}) :
       Goto(d, IF cfg[d].ephemeral
               THEN NextEphemeralAction(out[d], once, Cancelled(d), pending)
               ELSE NextAction(out[d], once, Cancelled(d), pending))
  /\ out' = IF pc'[d] = "cleanup" THEN out ELSE [out EXCEPT ![d] = "none"]
  /\ IF pc'[d] \in {"mint", "cleanup"} THEN UNCHANGED cfg ELSE PassEnds(d)
  /\ UNCHANGED <<lockVars, disk, cancelled, supervisor, commands, github,
                 trouble, waived>>

(* reregister, up to GitHub's answer: a fresh configuration that replaces the
   runner, a rejected or missing bearer (fatal), or a failure worth a retry. *)
Mint(d) ==
  /\ pc[d] = "mint"
  /\ \/ /\ Registers /\ Goto(d, "persist") /\ UNCHANGED trouble
        /\ cfg' = [cfg EXCEPT ![d].mint = minted']
     \/ /\ RegisterFails /\ PassEnds(d)
        /\ \E next \in {"fatal", "backoff"} :
             Goto(d, IF minted = MaxMints THEN "fatal" ELSE next)
  /\ UNCHANGED <<lockVars, disk, out, cancelled, supervisor, commands, waived>>

(* The rest of remint_and_persist: the configuration loaded before the
   lifecycle, with the new JIT, is written over the file; when the
   credentials cannot be written the file is rolled back and the mint retried. *)
Persist(d) ==
  /\ pc[d] = "persist"
  /\ \/ /\ config' = cfg[d]
        /\ Goto(d, "top")
        /\ UNCHANGED trouble
     \/ /\ Trouble /\ Goto(d, "backoff") /\ UNCHANGED config
  /\ PassEnds(d)
  /\ UNCHANGED <<lockVars, pending, stopped, out, cancelled, supervisor,
                 commands, github, waived>>

(* backoff_step. *)
Backoff(d) ==
  /\ pc[d] = "backoff"
  /\ Goto(d, IF Cancelled(d) THEN "end" ELSE "top")
  /\ UNCHANGED <<lockVars, disk, cfg, out, cancelled, supervisor, commands,
                 github, trouble, waived>>

(* ephemeral::finish_job up to GitHub's answer.  Without a bearer, or for a URL
   no runners API can address, nothing is asked (GithubSide::Unverified) and
   the local state goes all the same; GitHub has removed the used runner, but
   not one that was registered in its place meanwhile. *)
SkipsUnregister ==
  /\ waived' = IF runner = 0 THEN waived ELSE waived \cup {"unverified"}
  /\ UNCHANGED <<runner, trouble>>

Mutant_Cleanup(d) ==
  /\ pc[d] = "cleanup"
  /\ \/ Unregisters(d) /\ Goto(d, "wipe") /\ UNCHANGED <<trouble, waived>>
     \/ SkipsUnregister /\ Goto(d, "wipe")
     \/ UnregisterFails(d) /\ Goto(d, "wipe") /\ UNCHANGED waived
  /\ UNCHANGED <<lockVars, disk, cfg, out, cancelled, supervisor, commands, minted>>
Cleanup(d) ==
  /\ pc[d] = "cleanup"
  /\ \/ Unregisters(d) /\ Goto(d, "wipe") /\ UNCHANGED <<trouble, waived>>
     \/ SkipsUnregister /\ Goto(d, "wipe")
     \/ UnregisterFails(d) /\ Goto(d, "fatal") /\ UNCHANGED waived
  /\ UNCHANGED <<lockVars, disk, cfg, out, cancelled, supervisor, commands, minted>>

(* delete_registration_state with keep_lock = false: an absent config.toml
   is its only error; then the markers and the lock file go. *)
Wipe(d) ==
  /\ pc[d] = "wipe"
  /\ IF config = Absent
     THEN Goto(d, "fatal") /\ UNCHANGED <<disk, path>>
     ELSE /\ config' = Absent /\ pending' = FALSE /\ stopped' = FALSE
          /\ path' = 0
          /\ Goto(d, IF out[d] = "job" THEN "end" ELSE "fatal")
  /\ UNCHANGED <<flock, body, aged, lk, fd, seen, cfg, out, cancelled,
                 supervisor, commands, github, trouble, waived>>

(* The loop returns and its LockGuard drops; a fatal error of a supervised
   loop is then recorded. *)
End(d) ==
  /\ pc[d] \in {"end", "fatal"}
  /\ Release(d, FALSE)
  /\ Goto(d, CASE d = "fg" -> "off"
               [] d # "fg" /\ pc[d] = "fatal" -> "record"
               [] OTHER -> "done")
  /\ cancelled' = IF d = "fg" THEN cancelled \ {"fg"} ELSE cancelled
  /\ cfg' = [cfg EXCEPT ![d] = Absent] /\ out' = [out EXCEPT ![d] = "none"]
  /\ UNCHANGED <<disk, supervisor, commands, github, trouble, waived>>

(* record_stop: a registration whose configuration is gone is not recorded. *)
RecordStop(d) ==
  /\ pc[d] = "record"
  /\ stopped' = IF config = Absent THEN stopped ELSE TRUE
  /\ Goto(d, "done")
  /\ UNCHANGED <<lockVars, config, pending, cfg, out, cancelled, supervisor,
                 commands, github, trouble, waived>>

DriverStep(d) ==
  \/ Load(d) \/ LockAnswer(d) \/ RetryLock(d) \/ Ready(d) \/ Top(d)
  \/ Session(d) \/ Job(d) \/ Decide(d) \/ Mint(d) \/ Persist(d) \/ Backoff(d)
  \/ Cleanup(d) \/ Wipe(d) \/ End(d) \/ RecordStop(d)

-----------------------------------------------------------------------------
(* `run --all` (supervisor.rs)                                             *)

(* cmd_run_all: the SIGHUP handler, the supervisor lock, the first rescan. *)
SupervisorStarts ==
  /\ sup = "down"
  /\ sup' = "scan" /\ hup' = FALSE
  /\ UNCHANGED <<lockVars, disk, drivers, cancelled, scan, cur, drained,
                 retired, commands, github, trouble, waived>>

(* serve: a SIGHUP starts a rescan, which first forgets the finished loops. *)
TakeHup ==
  /\ sup = "serve" /\ hup /\ "supervisor" \notin cancelled
  /\ sup' = "scan" /\ hup' = FALSE
  /\ cur' = IF cur # None /\ pc[cur] = "done" THEN None ELSE cur
  /\ retired' = {l \in retired : pc[l] # "done"}
  /\ UNCHANGED <<lockVars, disk, drivers, cancelled, scan, drained, commands,
                 github, trouble, waived>>

(* Scan::read, off the runtime: the disk as it is now, for the loops that
   were live when the rescan began.  An unreadable registry ends the rescan. *)
ReadScan ==
  /\ sup = "scan"
  /\ \/ /\ scan' = [entry |-> config # Absent, pending |-> pending,
                     departing |-> cur # None /\ (config = Absent \/ pending)]
        /\ sup' = "apply" /\ UNCHANGED trouble
     \/ Trouble /\ sup' = "serve" /\ UNCHANGED scan
  /\ UNCHANGED <<lockVars, disk, drivers, cancelled, hup, cur, drained, retired,
                 commands, github, waived>>

(* The rest of rescan: drain what is departing, then start_missing, which
   keeps a live loop, retires a drained one and spawns its successor.  A task
   has no identity of its own: the successor is any name that is free. *)
ApplyScan ==
  LET leaving == IF scan.departing /\ cur # None THEN {cur} ELSE {}
      spawn == scan.entry /\ ~scan.pending
               /\ (cur = None \/ cur \in drained \cup leaving)
      free == {l \in Loops : pc[l] \in {"off", "done"}} \ ({cur} \cup retired)
  IN  /\ sup = "apply"
      /\ sup' = "serve" /\ scan' = NoScan
      /\ IF spawn
         THEN LET l == CHOOSE l \in free : TRUE IN
              /\ free # {}
              /\ cur' = l /\ Goto(l, "load")
              /\ retired' = retired \cup ({cur} \ {None})
              /\ drained' = (drained \cup leaving) \ {l}
         ELSE drained' = drained \cup leaving /\ UNCHANGED <<cur, pc, retired>>
      /\ UNCHANGED <<lockVars, disk, cfg, out, cancelled, hup, commands, github,
                     trouble, waived>>

(* spawn_signal_bridge, or a shutdown message of the broker: either cancels
   the root token of the whole process. *)
Signal(p) ==
  /\ p \in Alive \ (cancelled \cup {"rm"})
  /\ cancelled' = cancelled \cup {p} /\ Trouble
  /\ UNCHANGED <<lockVars, disk, drivers, supervisor, commands, github,
                 waived>>

(* serve returns, and shutdown awaits every loop, retired ones included. *)
Shutdown ==
  /\ sup = "serve" /\ "supervisor" \in cancelled
  /\ sup' = "stop"
  /\ UNCHANGED <<lockVars, disk, drivers, cancelled, hup, scan, cur, drained,
                 retired, commands, github, trouble, waived>>

AllJoined == \A l \in Loops : l \in retired \cup {cur} => pc[l] = "done"

Exit ==
  /\ sup = "stop" /\ AllJoined
  /\ sup' = "down" /\ hup' = FALSE /\ cur' = None /\ drained' = {} /\ retired' = {}
  /\ pc' = [d \in Drivers |-> IF d \in Loops THEN "off" ELSE pc[d]]
  /\ cancelled' = cancelled \ {"supervisor"}
  /\ Vanish(Loops)
  /\ UNCHANGED <<disk, cfg, out, scan, commands, github, trouble, waived>>

(* The supervisor is killed: its tasks and its locks go with it. *)
Crash ==
  /\ sup # "down" /\ Trouble
  /\ sup' = "down" /\ hup' = FALSE /\ cur' = None /\ drained' = {} /\ retired' = {}
  /\ scan' = NoScan
  /\ pc' = [d \in Drivers |-> IF d \in Loops THEN "off" ELSE pc[d]]
  /\ cfg' = [u \in Users |-> IF u \in Loops THEN Absent ELSE cfg[u]]
  /\ out' = [d \in Drivers |-> IF d \in Loops THEN "none" ELSE out[d]]
  /\ cancelled' = cancelled \ {"supervisor"}
  /\ Vanish(Loops)
  /\ UNCHANGED <<disk, commands, github, waived>>

SupervisorStep ==
  SupervisorStarts \/ TakeHup \/ ReadScan \/ ApplyScan \/ Shutdown \/ Exit

-----------------------------------------------------------------------------
(* The operator: `run`, `register`, `remove`                    *)

CommandFree == Overlap \/ (rm = "off" /\ reg = "off")

(* cmd_run.  Bound: the supervisor is down and no command runs, but either
   may start beside it. *)
ForegroundStarts ==
  /\ Trouble
  /\ Overlap \/ (sup = "down" /\ rm = "off" /\ reg = "off")
  /\ "fg" \in Drivers /\ pc["fg"] = "off" /\ config # Absent
  /\ Goto("fg", "load")
  /\ UNCHANGED <<lockVars, disk, cfg, out, cancelled, supervisor, commands,
                 github, waived>>

(* supervisor_signal::notify. *)
Notify == hup' = (hup \/ sup # "down")

(* cmd_register up to the request: an existing registration needs --replace,
   so a `register` that goes on may find a configuration or none. *)
RegisterStarts ==
  /\ reg = "off" /\ CommandFree /\ minted < MaxMints
  /\ reg' = "mint"
  /\ \E ephemeral \in BOOLEAN : wanted' = [Absent EXCEPT !.ephemeral = ephemeral]
  /\ UNCHANGED <<lockVars, disk, drivers, cancelled, supervisor, rm, force,
                 github, trouble, waived>>

(* mint_jit; a runner of the same name is replaced. *)
RegisterMints ==
  /\ reg = "mint"
  /\ \/ Registers /\ reg' = "save" /\ wanted' = [wanted EXCEPT !.mint = minted'] /\ UNCHANGED trouble
     \/ RegisterFails /\ reg' = "off" /\ wanted' = Absent
  /\ UNCHANGED <<lockVars, disk, drivers, cancelled, supervisor, rm, force, waived>>

(* register_and_persist's writes: all or, when the credentials cannot be
   written, the previous configuration again (GitHub keeps the new runner). *)
RegisterSaves ==
  /\ reg = "save" /\ wanted' = Absent
  /\ \/ /\ config' = wanted
        /\ reg' = "notify"
        /\ waived' = waived \ {"unregister", "runner", "unverified"}
        /\ UNCHANGED trouble
     \/ /\ Trouble /\ reg' = "off"
        /\ waived' = waived \cup {"runner"}
        /\ UNCHANGED config
  /\ UNCHANGED <<lockVars, pending, stopped, drivers, cancelled, supervisor, rm,
                 force, github>>

(* report_service_pickup. *)
RegisterNotifies ==
  /\ reg = "notify"
  /\ reg' = "off" /\ Notify
  /\ UNCHANGED <<lockVars, disk, drivers, cancelled, sup, scan, cur, drained,
                 retired, rm, force, wanted, github, trouble, waived>>

RegisterStep == RegisterMints \/ RegisterSaves \/ RegisterNotifies

(* cmd_remove up to the lock. *)
RemoveStarts ==
  /\ rm = "off" /\ CommandFree /\ config # Absent
  /\ rm' = "lock"
  /\ \/ force' = FALSE /\ IF pending THEN Trouble ELSE UNCHANGED trouble
     \/ force' = TRUE /\ Trouble
  /\ cfg' = [cfg EXCEPT !["rm"] = config]
  /\ lk' = [lk EXCEPT !["rm"] = "open"]
  /\ UNCHANGED <<path, flock, body, aged, fd, seen, disk, pc, out, cancelled,
                 supervisor, reg, wanted, github, waived>>

(* acquire_remove_lock: a held lock is drained, unless --force goes on
   without it and without unregistering (SkipReason::RunInFlight). *)
RemoveLocked ==
  /\ rm = "lock" /\ lk["rm"] \in {"held", "refused", "failed"}
  /\ rm' = IF lk["rm"] = "refused"
           THEN IF force THEN "delete" ELSE "drain"
           ELSE "unregister"
  /\ pending' = (pending \/ rm' = "drain")
  /\ waived' = IF rm' = "delete" THEN waived \cup {"force"} ELSE waived
  /\ UNCHANGED <<lockVars, config, stopped, drivers, cancelled, supervisor,
                 force, reg, wanted, github, trouble>>

RemoveFails ==
  /\ rm' = "off" /\ force' = FALSE
  /\ cfg' = [cfg EXCEPT !["rm"] = Absent]

(* drain_and_wait: with .pending_remove written, ask the supervisor when the
   holder is the supervisor; any other holder ends the command. *)
RemoveDrains ==
  /\ rm = "drain"
  /\ IF sup # "down" /\ seen["rm"] = "supervisor"
     THEN /\ rm' = "wait" /\ Notify
          /\ UNCHANGED <<lk, cfg, force>>
     ELSE RemoveFails /\ lk' = [lk EXCEPT !["rm"] = "idle"] /\ UNCHANGED hup
  /\ seen' = [seen EXCEPT !["rm"] = None]
  /\ UNCHANGED <<path, flock, body, aged, fd, disk, pc, out, cancelled,
                 sup, scan, cur, drained, retired, reg, wanted, github, trouble, waived>>

(* Its waiting loop: the lock, another try, or the end of the wait (the
   marker stays, and the loop stops after its job). *)
RemoveWaits ==
  /\ rm = "wait" /\ seen' = [seen EXCEPT !["rm"] = None]
  /\ lk["rm"] \in {"held", "refused", "failed"}
  /\ \/ lk["rm"] = "held" /\ rm' = "reload" /\ UNCHANGED <<lk, cfg, force>>
     \/ /\ lk["rm"] = "refused" /\ WorthATry
        /\ lk' = [lk EXCEPT !["rm"] = "open"]
        /\ UNCHANGED <<rm, cfg, force>>
     \/ /\ lk["rm"] # "held" /\ RemoveFails
        /\ lk' = [lk EXCEPT !["rm"] = "idle"]
  /\ UNCHANGED <<path, flock, body, aged, fd, disk, pc, out, cancelled,
                 supervisor, reg, wanted, github, trouble, waived>>

(* The rest of drain_held_registration: an ephemeral job may have removed the
   registration meanwhile (already_removed), a re-mint may have changed it. *)
Mutant_RemoveReloads ==
  /\ rm = "reload"
  /\ rm' = "unregister" /\ cfg' = [cfg EXCEPT !["rm"] = config]
  /\ UNCHANGED <<lockVars, disk, pc, out, cancelled, supervisor, force, reg,
                 wanted, github, trouble, waived>>
RemoveReloads ==
  /\ rm = "reload"
  /\ IF config = Absent
     THEN /\ pending' = FALSE /\ Release("rm", TRUE)
          /\ rm' = "after" /\ cfg' = [cfg EXCEPT !["rm"] = Absent]
     ELSE /\ rm' = "unregister" /\ cfg' = [cfg EXCEPT !["rm"] = config]
          /\ UNCHANGED <<pending, lockVars>>
  /\ UNCHANGED <<config, stopped, pc, out, cancelled, supervisor, force, reg,
                 wanted, github, trouble, waived>>

(* unregister_on_github, before anything local is touched: done, skipped on
   request or because no endpoint can address the URL, or failed. *)
RemoveUnregisters ==
  /\ rm = "unregister"
  /\ \/ /\ Unregisters("rm") /\ rm' = "delete"
        /\ UNCHANGED <<trouble, waived, lockVars, cfg, force>>
     \/ /\ Trouble /\ rm' = "delete" /\ waived' = waived \cup {"unregister"}
        /\ UNCHANGED <<runner, lockVars, cfg, force>>
     \/ /\ UnregisterFails("rm") /\ RemoveFails /\ Release("rm", FALSE)
        /\ UNCHANGED waived
  /\ UNCHANGED <<disk, pc, out, cancelled, supervisor, reg, wanted, minted>>

(* delete_registration_state: the lock file goes only with a lock held, then
   the guard drops. *)
Mutant_RemoveDeletes ==
  /\ rm = "delete"
  /\ IF config = Absent
     THEN RemoveFails /\ Release("rm", FALSE) /\ UNCHANGED disk
     ELSE /\ config' = Absent /\ pending' = FALSE /\ stopped' = FALSE
          /\ Release("rm", TRUE)
          /\ rm' = IF lk["rm"] = "held" THEN "after" ELSE "kept"
          /\ UNCHANGED <<force, cfg>>
  /\ UNCHANGED <<pc, out, cancelled, supervisor, reg, wanted, github, trouble, waived>>
RemoveDeletes ==
  /\ rm = "delete"
  /\ IF config = Absent
     THEN RemoveFails /\ Release("rm", FALSE) /\ UNCHANGED disk
     ELSE /\ config' = Absent /\ pending' = FALSE /\ stopped' = FALSE
          /\ Release("rm", lk["rm"] = "held")
          /\ rm' = IF lk["rm"] = "held" THEN "after" ELSE "kept"
          /\ UNCHANGED <<force, cfg>>
  /\ UNCHANGED <<pc, out, cancelled, supervisor, reg, wanted, github, trouble, waived>>

(* after_removal: a forced removal has the supervisor rescan; any other one
   of the last registration stops the machine service. *)
RemoveEnds ==
  /\ rm \in {"after", "kept"} /\ RemoveFails
  /\ IF rm = "kept"
     THEN Notify /\ UNCHANGED cancelled
     ELSE /\ cancelled' = IF config = Absent /\ sup # "down"
                          THEN cancelled \cup {"supervisor"} ELSE cancelled
          /\ UNCHANGED hup
  /\ UNCHANGED <<lockVars, disk, pc, out, sup, scan, cur, drained, retired, reg,
                 wanted, github, trouble, waived>>

RemoveStep ==
  RemoveLocked \/ RemoveDrains \/ RemoveWaits \/ RemoveReloads
  \/ RemoveUnregisters \/ RemoveDeletes \/ RemoveEnds

LockStep(u) ==
  /\ AcquireStep(u, Alive)
  /\ UNCHANGED <<disk, drivers, cancelled, supervisor, commands, github,
                 trouble, waived>>

(* Where an activity only computes or touches local files without waiting for
   anybody: inside acquire, between a lifecycle's return and the decision,
   around a reload, and at the end of a loop from GitHub's answer to the
   unregister (or from its last decision) to the record of its stop.  Without
   Overlap nobody else acts meanwhile; with it everything interleaves. *)
Brief == {"load", "lock", "top", "decide", "wipe", "end", "fatal", "record"}
Undisturbed(u) ==
  \/ Overlap
  \/ \A v \in Users \ {u} :
       lk[v] \notin Acquiring /\ (v \in Drivers => pc[v] \notin Brief)

Next ==
  \/ \E u \in Users : Undisturbed(u) /\ LockStep(u)
  \/ \E d \in Drivers : Undisturbed(d) /\ DriverStep(d)
  \/ Undisturbed(None) /\ SupervisorStep
  \/ Undisturbed(None) /\ (RegisterStep \/ RemoveStep)
  \/ Undisturbed(None) /\ (RegisterStarts \/ RemoveStarts)
  \/ Undisturbed(None) /\ (ForegroundStarts \/ Crash)
  \/ Undisturbed(None) /\ \E p \in {"supervisor", "fg"} : Signal(p)

(* Tasks and commands run on, inside acquire as elsewhere; jobs end
   (timeout-minutes); an idle session ends once it is cancelled, drained or
   refused.  Nothing obliges GitHub to send a job, the operator to do
   anything, or a `register' or `remove' to finish. *)
Fairness ==
  /\ \A d \in Drivers :
       WF_vars(/\ Undisturbed(d)
               /\ \/ LockStep(d)
                  \/ /\ DriverStep(d)
                     /\ pc[d] = "session" => Cancelled(d) \/ runner # cfg[d].mint)
  /\ WF_vars(Undisturbed(None) /\ (TakeHup \/ ReadScan \/ ApplyScan \/ Shutdown \/ Exit))
  /\ WF_vars(Undisturbed("rm") /\ LockStep("rm"))

Spec == Init /\ [][Next]_vars /\ Fairness

-----------------------------------------------------------------------------
(* Properties                                                              *)

Driving == {"session", "job", "decide", "mint", "persist", "backoff", "cleanup"}

(* lockfile.rs promises "at most one live `run` per data directory": never do
   two loops drive the registration, whatever was crashed, drained, retired,
   re-registered or removed by force. *)
OneDriver ==
  \A d, e \in Drivers : pc[d] \in Driving /\ pc[e] \in Driving => d = e

(* main.rs and ephemeral.rs unregister before they delete the local record,
   the only handle on the runner: GitHub never keeps a runner whose
   registration is gone, unless the operator skipped the request (--force, or
   `remove' without unregistering), a `register' failed after GitHub's answer,
   or an ephemeral clean-up could not ask while another runner had been
   registered during its job.  The next `register' ends all but the first. *)
NoStrandedRunner ==
  runner # 0 /\ config = Absent => reg = "save" \/ waived # {}

(* .stopped says why a registration has no loop: while a loop of the
   supervisor drives it there is no such record.  (With Overlap the loop of a
   registration removed by force may record its end after its successor.) *)
StoppedIsTrue == stopped => \A l \in Loops : pc[l] \notin Driving

(* A drained loop ends, whatever it was doing (waiting for its lock, backing
   off, re-minting, running a job), unless the process is killed first. *)
DrainedLoopEnds ==
  \A l \in Loops : l \in drained ~> pc[l] \in {"off", "done"}

(* SIGTERM stops the service: every loop, also a retired one, gets to end. *)
ServiceStops == "supervisor" \in cancelled ~> sup = "down"

(* The records of a registration are true: GitHub's runner has its local
   record, and .stopped is there only while no loop drives it. *)
RecordsAreTrue == TypeOK /\ NoStrandedRunner /\ StoppedIsTrue

(* What is told to stop stops, a drained loop as well as the service. *)
StopsEnd == DrainedLoopEnds /\ ServiceStops
=============================================================================
