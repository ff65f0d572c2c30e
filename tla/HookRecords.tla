---------------------------- MODULE HookRecords ----------------------------
(***************************************************************************)
(* What a library client does to the record of one artifact through the    *)
(* hook endpoints, beside the service calls: the grant of a read, and the  *)
(* new identity it takes to shed a denial.                                 *)
(***************************************************************************)
EXTENDS ServiceRecords

CONSTANT Orphan   \* stands for the identities nobody uses any more

\* The handlers' set_agent_state(SHARED).
GrantShared(r, a) == set_agent_state(r, a, "SHARED", "hook", 0)

\* The record once c has a new identity.  Of the old one only an ownership
\* still matters to others.
Forget(r, c) ==
  IF r = None THEN None
  ELSE LET owner == r.state[c] \in M_OR_E_STATES IN
    [r EXCEPT
      !.state[Orphan] = IF owner THEN r.state[c] ELSE @,
      !.granted_at[Orphan] = IF owner THEN r.granted_at[c] ELSE @,
      !.read_generation[Orphan] = IF owner THEN r.read_generation[c] ELSE @,
      !.state[c] = "INVALID", !.transient[c] = None, !.granted_at[c] = None,
      !.last_reclamation[c] = None, !.read_generation[c] = None, !.last_observed[c] = None,
      !.last_writer = IF @ = c THEN Orphan ELSE @]
=============================================================================
