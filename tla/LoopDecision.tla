---------------------------- MODULE LoopDecision ----------------------------
(***************************************************************************)
(* What a run loop does after a listener lifecycle returned                 *)
(* (crates/listener: loop_decision), for the loops of Runner and Machine.   *)
(* "mint" is LoopAction::Reregister, "end" Exit(0), "fatal" any other exit. *)
(***************************************************************************)

(* next_action, first match wins: what a persistent registration's loop does
   next.  An error after the acquire is one of the "any other" errors. *)
NextAction(o, once, stop, removing) ==
  IF stop THEN "end"
  ELSE IF once THEN IF o \in {"idle", "job"} THEN "end" ELSE "fatal"
  ELSE IF removing THEN "end"
  ELSE IF o = "conflict" THEN "fatal"
  ELSE IF o \in {"idle", "job", "auth"} THEN "mint"
  ELSE "backoff"

(* next_ephemeral_action: a used registration is cleaned up before any other
   rule is looked at, and no rule re-mints. *)
NextEphemeralAction(o, once, stop, removing) ==
  IF o \in {"job", "jobErr"} THEN "cleanup"
  ELSE IF stop THEN "end"
  ELSE IF once THEN IF o = "idle" THEN "end" ELSE "fatal"
  ELSE IF removing THEN "end"
  ELSE IF o \in {"conflict", "auth"} THEN "fatal"
  ELSE "backoff"

=============================================================================
