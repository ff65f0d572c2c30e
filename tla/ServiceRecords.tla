--------------------------- MODULE ServiceRecords ---------------------------
(***************************************************************************)
(* What each call of CoordinatorService (coordinator/service.py) does to   *)
(* the record of one artifact.  A service call holds the registry's lock   *)
(* from its first read to its last write, so its effect is one rewrite.    *)
(***************************************************************************)
EXTENDS Registry

(* The loops over peers touch each peer's own slots only, so they are     *)
(* written as one rewrite.                                                 *)

\* fetch: the requester gets EXCLUSIVE when nobody else holds a valid copy;
\* otherwise SHARED, and an owning peer is downgraded.  A SHARED peer is left
\* alone.  A transient brackets the grant and is cleared in the same hold.
FetchGrant(r, a) == IF OtherHolders(r, a) = {} THEN "EXCLUSIVE" ELSE "SHARED"

\* Mutant: an owner keeps its grant beside a new SHARED copy.
DowngradePeers_KeepsOwner(r, a) == r

DowngradePeers(r, a) ==
  LET downgraded == Owners(r) \ {a} IN
  [r EXCEPT
     !.state = [p \in Agents |-> IF p \in downgraded THEN "SHARED" ELSE @[p]],
     !.granted_at = [p \in Agents |-> IF p \in downgraded THEN None ELSE @[p]],
     !.last_observed = [p \in Agents |-> IF p \in downgraded THEN r.version ELSE @[p]]]

FetchRecord(r, a, tick) ==
  clear_agent_transient(
    set_agent_state(DowngradePeers(r, a), a, FetchGrant(r, a), "fetch", tick), a)

\* The peer loop of write and commit: every valid copy but the caller's
\* becomes INVALID and keeps a transient until the signal is delivered.
InvalidatePeers(r, a, tick) ==
  [r EXCEPT
     !.state = [p \in Agents |-> IF p = a THEN @[p] ELSE "INVALID"],
     !.transient = [p \in Agents |-> IF p \in OtherHolders(r, a) THEN tick ELSE @[p]],
     !.granted_at = [p \in Agents |->
                       IF p # a /\ r.state[p] \in M_OR_E_STATES THEN None ELSE @[p]]]

WriteRecord(r, a, tick) ==
  clear_agent_transient(
    set_agent_state(InvalidatePeers(r, a, tick), a, "EXCLUSIVE", "write", tick), a)

CommitRecord(r, a, tick) ==
  clear_agent_transient(
    set_agent_state(InvalidatePeers(set_artifact_and_content(r, a), a, tick),
                    a, "MODIFIED", "commit", tick), a)

InvalidateRecord(r, a, tick) ==
  clear_agent_transient(set_agent_state(r, a, "INVALID", "invalidate", tick), a)

TimeoutRecord(r, a, tick) ==
  clear_agent_transient(set_agent_state(r, a, "INVALID", "timeout", tick), a)

ReclaimRecord(r, a, trigger, tick) ==
  record_last_reclamation(set_agent_state(r, a, "INVALID", trigger, tick), a, trigger)

-----------------------------------------------------------------------------
(* When a call is admitted.                                                *)

\* The preconditions commit_cas and commit_all impose on the caller: no
\* transient of its own, and not an owner (an owner uses commit).
OccAllowed(r, a) ==
  /\ r.transient[a] = None
  /\ r.state[a] \notin M_OR_E_STATES

\* Mutant: an announcement of the very version the target holds is honoured.
RevokeIsSuperseded_Strict(r, target, version, issuer) ==
  /\ issuer # target
  /\ r.state[target] # "INVALID"
  /\ r.last_observed[target] # None
  /\ r.last_observed[target] > version

\* invalidate: honoured for a target that gives back its own claim and for
\* one that is already INVALID; a peer's signal is dropped when the target
\* has observed a version at least as new as the one announced.
RevokeIsSuperseded(r, target, version, issuer) ==
  /\ issuer # target
  /\ r.state[target] # "INVALID"
  /\ r.last_observed[target] # None
  /\ r.last_observed[target] >= version
-----------------------------------------------------------------------------
(* Well-formed records.                                                    *)

\* What one record satisfies between service calls: an owner excludes every
\* other valid copy and carries the current epoch; a valid copy is of the
\* current version; a transient sits on an INVALID entry; no claim is ahead of
\* the epoch; exactly the owners have a grant tick, and none of them has a
\* reclamation slot.
RecordInv(r) ==
  /\ r \in ArtifactRecord
  /\ r.version > 0
  /\ \A a, b \in Agents :
       r.state[a] \in M_OR_E_STATES /\ a # b => r.state[b] = "INVALID"
  /\ \A a \in Agents :
       /\ r.state[a] \in M_OR_E_STATES => r.read_generation[a] = r.owner_generation
       /\ r.state[a] # "INVALID" => r.last_observed[a] = r.version
       /\ r.transient[a] # None => r.state[a] = "INVALID"
       /\ r.read_generation[a] # None => r.read_generation[a] <= r.owner_generation
       /\ r.granted_at[a] # None <=> r.state[a] \in M_OR_E_STATES
       /\ r.last_reclamation[a] # None => r.state[a] \notin M_OR_E_STATES
=============================================================================
