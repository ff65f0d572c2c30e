-------------------------- MODULE CheckpointStore --------------------------
(***************************************************************************)
(* The registry's durable checkpoint tables: one header per checkpoint and *)
(* one row per member.  Each operator is one registry transaction, written *)
(* whole or not at all; the service operators above it check the closed    *)
(* vocabularies first.  A fingerprint is the body it identifies.           *)
(***************************************************************************)
EXTENDS ObjectStore

CONSTANTS Checkpoints, Members, None

VARIABLES
  status,     \* checkpoint -> restore_status; "unused" before it is persisted
  refcount,   \* checkpoint -> pin_refcount
  rows        \* checkpoint -> member -> its row

store == <<status, refcount, rows>>

RESTORE_STATUSES == {"none", "in_progress", "registered", "concluded"}
RESTORE_MEMBER_OUTCOMES == {"restored", "converged", "conflict", "held_unconfirmed",
                            "target_lost", "forward_only_skipped"}
PIN_STATES == {"unpinned", "held", "pin_unavailable", "released"}
RestoreTier == {"restorable", "restorable-unpinned", "forward_only"}

CheckpointMember ==
  [absent : BOOLEAN, token : Nat \cup {None}, fingerprint : Contents \cup {None},
   dirty : BOOLEAN, tier : RestoreTier, pin : PIN_STATES,
   outcome : RESTORE_MEMBER_OUTCOMES \cup {None}, deleted : BOOLEAN]

\* A row's defaults claim the least.
Undescribed == [absent |-> FALSE, token |-> None, fingerprint |-> None, dirty |-> FALSE,
                tier |-> "forward_only", pin |-> "unpinned", outcome |-> None, deleted |-> FALSE]

NoManifest == [m \in Members |-> Undescribed]

StoreInit ==
  /\ status = [c \in Checkpoints |-> "unused"]
  /\ refcount = [c \in Checkpoints |-> 0]
  /\ rows = [c \in Checkpoints |-> NoManifest]

StoreTypeOK ==
  /\ status \in [Checkpoints -> RESTORE_STATUSES \cup {"unused"}]
  /\ refcount \in [Checkpoints -> Nat]
  /\ rows \in [Checkpoints -> [Members -> CheckpointMember]]

get_checkpoint(c) == status[c] # "unused"

create_checkpoint(c, members) ==
  /\ ~get_checkpoint(c)
  /\ status' = [status EXCEPT ![c] = "none"]
  /\ rows' = [rows EXCEPT ![c] = members]
  /\ UNCHANGED refcount

set_checkpoint_restore_status(c, value) ==
  /\ get_checkpoint(c)
  /\ status' = [status EXCEPT ![c] = value]
  /\ UNCHANGED <<refcount, rows>>

set_checkpoint_member_restore(c, m, outcome, deleted) ==
  /\ get_checkpoint(c)
  /\ rows' = [rows EXCEPT ![c][m].outcome = outcome, ![c][m].deleted = deleted]
  /\ UNCHANGED <<status, refcount>>

\* tier = None leaves the tier alone.
set_checkpoint_member_pin(c, m, pin, tier) ==
  /\ get_checkpoint(c)
  /\ rows' = [rows EXCEPT ![c][m].pin = pin, ![c][m].tier = IF tier = None THEN @ ELSE tier]
  /\ UNCHANGED <<status, refcount>>

\* Refused when the result would be negative.
adjust_checkpoint_pin_refcount(c, delta) ==
  /\ get_checkpoint(c) /\ refcount[c] + delta >= 0
  /\ refcount' = [refcount EXCEPT ![c] = @ + delta]
  /\ UNCHANGED <<status, rows>>

-----------------------------------------------------------------------------
\* The service operators.

create_workspace_checkpoint(c, members) ==
  Members # {} /\ create_checkpoint(c, members)

set_workspace_checkpoint_restore_status(c, value) ==
  value \in RESTORE_STATUSES /\ set_checkpoint_restore_status(c, value)

set_workspace_checkpoint_member_restore(c, m, outcome, deleted) ==
  /\ outcome \in RESTORE_MEMBER_OUTCOMES \cup {None}
  /\ set_checkpoint_member_restore(c, m, outcome, deleted)

set_workspace_checkpoint_member_pin(c, m, pin, tier) ==
  /\ pin \in PIN_STATES /\ tier \in RestoreTier \cup {None}
  /\ set_checkpoint_member_pin(c, m, pin, tier)

adjust_workspace_checkpoint_pin_refcount(c, delta) == adjust_checkpoint_pin_refcount(c, delta)
=============================================================================
