------------------------------ MODULE Registry ------------------------------
(***************************************************************************)
(* The per-artifact record of the coordinator's registry                   *)
(* (coordinator/registry.py, ArtifactRecord) and the registry operations   *)
(* that rewrite it, as functions from record to record.  Every registry    *)
(* method runs under one lock hold, so each is a single indivisible        *)
(* rewrite.                                                                *)
(*                                                                         *)
(* Abstractions.  The artifact body, its hash and its size are left out:   *)
(* they travel with the version.  A transient is represented by the tick   *)
(* at which it was entered: the code only ever asks whether a transient is *)
(* present and for how long.  An agent with no entry in the state map is   *)
(* INVALID, which is how set_agent_state reads a missing entry.            *)
(*                                                                         *)
(* A definition whose comment starts with "Mutant" is a wrong variant of   *)
(* the definition below it; nothing uses it.  It stands for a bug that the *)
(* property PROJECT.json pairs it with must catch.                         *)
(***************************************************************************)
EXTENDS Integers

CONSTANTS Agents, None

ASSUME NoneAssumption == None \notin Int /\ None \notin Agents

MESIState == {"MODIFIED", "EXCLUSIVE", "SHARED", "INVALID"}

VALID_TRANSITIONS ==
  {<<"INVALID", "SHARED">>, <<"INVALID", "EXCLUSIVE">>,
   <<"SHARED", "INVALID">>, <<"SHARED", "EXCLUSIVE">>,
   <<"EXCLUSIVE", "SHARED">>, <<"EXCLUSIVE", "MODIFIED">>, <<"EXCLUSIVE", "INVALID">>,
   <<"MODIFIED", "INVALID">>, <<"MODIFIED", "SHARED">>}

M_OR_E_STATES == {"MODIFIED", "EXCLUSIVE"}

RECLAIM_TRIGGERS == {"reclaim_heartbeat", "reclaim_max_hold", "timeout"}

\* Mutant: giving back a claim does not move the epoch.
EPOCH_BUMP_TRIGGERS_NoInvalidate == RECLAIM_TRIGGERS

EPOCH_BUMP_TRIGGERS == RECLAIM_TRIGGERS \cup {"invalidate"}

CLAIM_CAPTURE_TRIGGERS == {"fetch"}

\* The stable-grant sweep is the only writer of the reclamation slot.
ReclamationSlot == {"reclaim_heartbeat", "reclaim_max_hold"}

OptNat == Nat \cup {None}

ArtifactRecord ==
  [version          : Nat,
   last_writer      : Agents \cup {None},
   state            : [Agents -> MESIState],
   transient        : [Agents -> OptNat],
   granted_at       : [Agents -> OptNat],
   last_reclamation : [Agents -> ReclamationSlot \cup {None}],
   owner_generation : Nat,
   read_generation  : [Agents -> OptNat],
   last_observed    : [Agents -> OptNat]]

ASSUME NoneIsNoRecord == None \notin ArtifactRecord

register_artifact ==
  [version          |-> 1,
   last_writer      |-> None,
   state            |-> [a \in Agents |-> "INVALID"],
   transient        |-> [a \in Agents |-> None],
   granted_at       |-> [a \in Agents |-> None],
   last_reclamation |-> [a \in Agents |-> None],
   owner_generation |-> 0,
   read_generation  |-> [a \in Agents |-> None],
   last_observed    |-> [a \in Agents |-> None]]

-----------------------------------------------------------------------------
(* Views of a record.                                                      *)

valid_holders(r) == {a \in Agents : r.state[a] # "INVALID"}

Owners(r) == {a \in Agents : r.state[a] \in M_OR_E_STATES}

OtherHolders(r, a) == valid_holders(r) \ {a}

OtherOwner(r, a) == \E p \in Agents \ {a} : r.state[p] \in M_OR_E_STATES

\* The read-generation fence: a captured claim that a revocation superseded.
\* An agent that never captured one is admitted.
StaleReadGeneration(r, a) ==
  /\ r.read_generation[a] # None
  /\ r.read_generation[a] < r.owner_generation

-----------------------------------------------------------------------------
(* set_agent_state, with its grant, reclamation, epoch, claim and          *)
(* observation bookkeeping.                                                *)

LeavesOwnership(r, a, s) ==
  r.state[a] \in M_OR_E_STATES /\ s \notin M_OR_E_STATES

EntersOwnership(r, a, s) ==
  r.state[a] \notin M_OR_E_STATES /\ s \in M_OR_E_STATES

ClaimsGeneration(r, a, s, trigger) ==
  \/ EntersOwnership(r, a, s)
  \/ /\ trigger \in CLAIM_CAPTURE_TRIGGERS
     /\ s # "INVALID"
     /\ r.state[a] \notin M_OR_E_STATES

EpochAfter(r, a, s, trigger) ==
  IF LeavesOwnership(r, a, s) /\ trigger \in EPOCH_BUMP_TRIGGERS
    THEN r.owner_generation + 1
    ELSE r.owner_generation

\* Mutant: the grant tick survives the loss of ownership.
set_agent_state_KeepsGrant(r, a, s, trigger, tick) ==
  [r EXCEPT
     !.state[a] = s,
     !.granted_at[a] = IF EntersOwnership(r, a, s) THEN tick ELSE @,
     !.last_reclamation[a] = IF EntersOwnership(r, a, s) THEN None ELSE @,
     !.owner_generation = EpochAfter(r, a, s, trigger),
     !.read_generation[a] =
        IF ClaimsGeneration(r, a, s, trigger) THEN EpochAfter(r, a, s, trigger) ELSE @,
     !.last_observed[a] = IF s # "INVALID" THEN r.version ELSE @]

set_agent_state(r, a, s, trigger, tick) ==
  [r EXCEPT
     !.state[a] = s,
     !.granted_at[a] = IF EntersOwnership(r, a, s) THEN tick
                       ELSE IF LeavesOwnership(r, a, s) THEN None ELSE @,
     !.last_reclamation[a] = IF EntersOwnership(r, a, s) THEN None ELSE @,
     !.owner_generation = EpochAfter(r, a, s, trigger),
     !.read_generation[a] =
        IF ClaimsGeneration(r, a, s, trigger) THEN EpochAfter(r, a, s, trigger) ELSE @,
     !.last_observed[a] = IF s # "INVALID" THEN r.version ELSE @]

clear_agent_transient(r, a) == [r EXCEPT !.transient[a] = None]

record_last_reclamation(r, a, trigger) == [r EXCEPT !.last_reclamation[a] = trigger]

\* set_artifact_and_content once its fence has admitted the writer.
set_artifact_and_content(r, a) ==
  [r EXCEPT !.version = @ + 1, !.last_writer = a]

-----------------------------------------------------------------------------
(* commit_cas: the arbitration legs in the order the code tries them, and  *)
(* the winning rewrite, which is also the per-member rewrite of            *)
(* commit_all.  The winner ends SHARED and claims nothing; peers lose      *)
(* their copy with neither a transient nor an epoch move.                  *)

CasOutcome(r, a, expected) ==
  CASE expected > r.version       -> "corruption"
    [] expected < r.version       -> "version_mismatch"
    [] /\ expected = r.version
       /\ OtherOwner(r, a)        -> "other_holder"
    [] /\ expected = r.version
       /\ ~OtherOwner(r, a)
       /\ StaleReadGeneration(r, a) -> "stale_read_generation"
    [] OTHER                      -> "win"

\* Mutant: a winner keeps its peers' copies.
CasWin_KeepsPeers(r, a) ==
  [r EXCEPT !.version = @ + 1, !.last_writer = a, !.state[a] = "SHARED",
            !.last_observed[a] = r.version + 1]

CasWin(r, a) ==
  [r EXCEPT
     !.version = @ + 1,
     !.last_writer = a,
     !.state = [p \in Agents |-> IF p = a THEN "SHARED" ELSE "INVALID"],
     !.granted_at = [p \in Agents |->
                       IF p # a /\ r.state[p] \in M_OR_E_STATES THEN None ELSE @[p]],
     !.last_observed[a] = r.version + 1]

=============================================================================
