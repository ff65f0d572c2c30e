----------------------- MODULE CoordinatorRefinement -----------------------
(***************************************************************************)
(* The coordinator implements CoherentStore.  An agent holds what it last  *)
(* observed while its entry is valid; it owns what it has in MODIFIED or   *)
(* EXCLUSIVE.                                                              *)
(***************************************************************************)
EXTENDS Coordinator

VersionOf(r) == IF r = None THEN 0 ELSE r.version

HeldOf(r) ==
  [a \in Agents |-> IF r = None THEN 0
                    ELSE IF r.state[a] = "INVALID" THEN 0 ELSE r.last_observed[a]]

OwnerOf(r) ==
  IF r # None /\ \E a \in Agents : r.state[a] \in M_OR_E_STATES
    THEN CHOOSE a \in Agents : r.state[a] \in M_OR_E_STATES
    ELSE None

StoreVersion == [f \in Artifacts |-> VersionOf(records[f])]

StoreHeld == [f \in Artifacts |-> HeldOf(records[f])]

StoreOwner == [f \in Artifacts |-> OwnerOf(records[f])]

Store == INSTANCE CoherentStore WITH
  version <- StoreVersion, held <- StoreHeld, owner <- StoreOwner,
  barred <- revoked, removed <- gone

\* Every behaviour of the service calls, the transport and the sweeps is a
\* behaviour of the store they promise: copies are current, owners exclusive,
\* multi-artifact commits one step, and a revoked claim does not publish.
ImplementsStore == Store!Spec
=============================================================================
