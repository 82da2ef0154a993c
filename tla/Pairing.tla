------------------------------- MODULE Pairing -------------------------------
(***************************************************************************)
(* How a box becomes a machine of a toolu.sh organization and stops being   *)
(* one (crates/toolu-runner: setup::toolu, setup::toolu_wait, toolu_host;   *)
(* crates/wire: toolu_pair).                                                *)
(*                                                                          *)
(* toolu.sh and its console are external.  `setup` and `remove` are         *)
(* commands of one operator and do not overlap; either may be killed.       *)
(***************************************************************************)
EXTENDS Naturals

CONSTANTS MaxTokens,  \* bound on machines toolu.sh creates
          MaxFaults   \* bound on unanswered requests and killed commands

ASSUME PairingAssumption == MaxTokens \in Nat /\ MaxFaults \in Nat

VARIABLES
  tokens,   \* toolu.sh: the host tokens it accepts
  issued,   \* toolu.sh: how many it ever issued
  code,     \* toolu.sh: the pairing code being polled
  config,   \* config.toml exists: the registration is listed
  creds,    \* the host token in credentials.json, 0 for none
  setup,    \* where `setup` is
  grant,    \* the HostGrant it holds
  remove,   \* where `remove` is
  faults

files == <<config, creds>>
server == <<tokens, issued>>
pairVars == <<server, code, config, creds, setup, grant, remove, faults>>

Codes == {"none", "pending", "approved", "denied", "expired", "delivered"}

PairTypeOK ==
  /\ tokens \subseteq 1 .. MaxTokens /\ issued \in 0 .. MaxTokens
  /\ code \in Codes
  /\ config \in BOOLEAN /\ creds \in 0 .. MaxTokens
  /\ setup \in {"off", "refresh", "pair", "poll", "creds", "config", "announce"}
  /\ grant \in 0 .. MaxTokens
  /\ setup \in {"creds", "config"} <=> grant # 0
  /\ remove \in {"off", "wait", "revoke", "config", "creds"}
  /\ faults \in 0 .. MaxFaults

PairInit ==
  /\ tokens = {} /\ issued = 0 /\ code = "none"
  /\ config = FALSE /\ creds = 0
  /\ setup = "off" /\ grant = 0 /\ remove = "off" /\ faults = 0

Fault == faults < MaxFaults /\ faults' = faults + 1

----------------------------------------------------------------------------
(* toolu.sh and its console *)

\* An authenticated request with token t is answered with success or with 401.
Accepted(t) == t \in tokens

\* A machine is created and its token put in the one answer that carries it.
Grant == issued < MaxTokens /\ issued' = issued + 1 /\ tokens' = tokens \cup {issued + 1}

ConsoleDecides ==
  /\ code = "pending"
  /\ code' \in {"approved", "denied"}
  /\ UNCHANGED <<server, files, setup, grant, remove, faults>>

CodeExpires ==
  /\ code \in {"pending", "approved"}
  /\ code' = "expired"
  /\ UNCHANGED <<server, files, setup, grant, remove, faults>>

ConsoleRevokes ==
  /\ \E t \in tokens : tokens' = tokens \ {t}
  /\ UNCHANGED <<issued, code, files, setup, grant, remove, faults>>

----------------------------------------------------------------------------
(* setup --source toolu *)

Idle == setup = "off" /\ remove = "off"

SetupEnds == setup' = "off" /\ grant' = 0 /\ code' = "none"

(* run: a listed toolu.sh registration is refreshed, else the box enrolls or
   pairs. *)
SetupStarts ==
  /\ Idle
  /\ setup' = IF config THEN "refresh" ELSE "pair"
  /\ UNCHANGED <<server, code, files, grant, remove, faults>>

(* enroll: one request, granted, refused, or its answer lost with the token it
   carried. *)
Enroll ==
  /\ setup = "pair"
  /\ \/ Grant /\ setup' = "creds" /\ grant' = issued' /\ UNCHANGED <<code, faults>>
     \/ Fault /\ Grant /\ SetupEnds
     \/ UNCHANGED <<server, faults>> /\ SetupEnds
  /\ UNCHANGED <<files, remove>>

(* pair, the top of its loop: pair_start. *)
PairStart ==
  /\ setup = "pair"
  /\ \/ code' = "pending" /\ setup' = "poll" /\ UNCHANGED <<grant, faults>>
     \/ Fault /\ SetupEnds
  /\ UNCHANGED <<server, files, remove>>

(* wait_for_approval, one poll.  An unanswered poll is retried, although
   toolu.sh may have delivered the token in the answer that was lost; a code
   that expired (or was delivered) is replaced after enter on a terminal, and
   ends an unattended setup.  slow_down and authorization_pending only wait. *)
PairPoll ==
  /\ setup = "poll"
  /\ \/ /\ code = "approved" /\ Grant /\ code' = "delivered"
        /\ \/ setup' = "creds" /\ grant' = issued' /\ UNCHANGED faults
           \/ Fault /\ UNCHANGED <<setup, grant>>
     \/ /\ code \in {"denied", "expired", "delivered"} /\ SetupEnds
        /\ UNCHANGED <<server, faults>>
     \/ /\ code \in {"expired", "delivered"} /\ setup' = "pair" /\ code' = "none"
        /\ UNCHANGED <<server, grant, faults>>
  /\ UNCHANGED <<files, remove>>

(* persist: the host token first. *)
PersistCreds ==
  /\ setup = "creds"
  /\ creds' = grant
  /\ setup' = "config"
  /\ UNCHANGED <<server, code, config, grant, remove, faults>>

(* persist: the config last, which lists the registration; then the service
   is notified. *)
PersistConfig ==
  /\ setup = "config"
  /\ config' = TRUE
  /\ setup' = "announce" /\ grant' = 0 /\ code' = "none"
  /\ UNCHANGED <<server, creds, remove, faults>>

(* announce and finish: GET /runner/host (only a 401 ends setup there), then
   the service, its first poll and GET /runner/host again.  Nothing is
   written. *)
Announce ==
  /\ setup = "announce"
  /\ setup' = "off"
  /\ UNCHANGED <<server, code, files, grant, remove, faults>>

(* refresh: PATCH /runner/host, then config.toml is written back, and finish. *)
Refresh ==
  /\ setup = "refresh"
  /\ \/ Accepted(creds) /\ config' = TRUE /\ setup' = "announce" /\ UNCHANGED faults
     \/ ~Accepted(creds) /\ setup' = "off" /\ UNCHANGED <<config, faults>>
     \/ Fault /\ setup' = "off" /\ UNCHANGED config
  /\ UNCHANGED <<server, code, creds, grant, remove>>

SetupKilled ==
  /\ setup # "off" /\ Fault /\ SetupEnds
  /\ UNCHANGED <<server, files, remove>>

----------------------------------------------------------------------------
(* remove, for a toolu.sh registration.  Taking the registration's lock, and
   draining the loop that holds it, is Machine's. *)

RemoveTakes ==
  /\ remove = "wait"
  /\ remove' = "revoke"
  /\ UNCHANGED <<server, code, files, setup, grant, faults>>

(* revoke: DELETE /runner/host.  A 401 means already revoked; any other
   failure deletes nothing, whether or not toolu.sh took the request. *)
Mutant_RemoveRevokes ==
  /\ remove = "revoke"
  /\ \/ /\ tokens' = tokens \ {creds} /\ remove' = "config" /\ UNCHANGED faults
     \/ /\ Fault /\ tokens' \in {tokens, tokens \ {creds}} /\ remove' = "config"
  /\ UNCHANGED <<issued, code, files, setup, grant>>
RemoveRevokes ==
  /\ remove = "revoke"
  /\ \/ /\ tokens' = tokens \ {creds} /\ remove' = "config" /\ UNCHANGED faults
     \/ /\ Fault /\ tokens' \in {tokens, tokens \ {creds}} /\ remove' = "off"
  /\ UNCHANGED <<issued, code, files, setup, grant>>

(* delete_registration_state: config.toml first, then credentials.json. *)
Mutant_RemoveDeletes ==
  /\ \/ remove = "config" /\ remove' = "creds" /\ creds' = 0 /\ UNCHANGED config
     \/ remove = "creds" /\ remove' = "off" /\ config' = FALSE /\ UNCHANGED creds
  /\ UNCHANGED <<server, code, setup, grant, faults>>
RemoveDeletes ==
  /\ \/ remove = "config" /\ remove' = "creds" /\ config' = FALSE /\ UNCHANGED creds
     \/ remove = "creds" /\ remove' = "off" /\ creds' = 0 /\ UNCHANGED config
  /\ UNCHANGED <<server, code, setup, grant, faults>>

RemoveKilled ==
  /\ remove # "off" /\ Fault /\ remove' = "off"
  /\ UNCHANGED <<server, code, files, setup, grant>>

PairNext ==
  \/ ConsoleDecides \/ CodeExpires \/ ConsoleRevokes
  \/ SetupStarts \/ Enroll \/ PairStart \/ PairPoll \/ PersistCreds \/ PersistConfig
  \/ Announce \/ Refresh \/ SetupKilled
  \/ RemoveTakes \/ RemoveRevokes \/ RemoveDeletes \/ RemoveKilled

=============================================================================
