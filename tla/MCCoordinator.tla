--------------------------- MODULE MCCoordinator ---------------------------
(***************************************************************************)
(* TLC instances of Coordinator.                                           *)
(*                                                                         *)
(* MCCoordinatorProtocol: ProtocolSpec, three agents at one artifact,      *)
(* while the clock stands still.                                           *)
(*                                                                         *)
(* MCCoordinatorSweeps: SweepsSpec, two agents and two artifacts.  The     *)
(* clock and the sweeps run while there is only f1.  Once f2 has been      *)
(* registered the subject is the batches that span both, at tick 0,        *)
(* without sweeps and without further ownership epochs; f2 is registered   *)
(* second, which loses nothing, as the two are alike.                      *)
(***************************************************************************)
EXTENDS CoordinatorRefinement, TLC

CONSTANTS a1, a2, a3, f1, f2

Symmetry == Permutations(Agents)

ProtocolSpec == Init /\ [][AgentNext \/ SweepNext]_vars

SecondArtifact == f2 \in Live \cup gone

TimeOrBatch ==
  SecondArtifact => /\ now = 0 /\ sweep = None /\ gone = {} /\ f1 \in Live
                    /\ \A a \in Agents : heartbeat[a] = None
                    /\ \A f \in Live : records[f].owner_generation = 0

SweepsNext == Next /\ TimeOrBatch'

\* Where the clock runs, time passes and the sweeper is a background loop; agents
\* and the transport owe nothing.
SweepsFairness ==
  /\ WF_vars(~SecondArtifact /\ Tick)
  /\ SF_vars(~SecondArtifact /\ StartSweep("transient", TransientPairs, now))
  /\ SF_vars(~SecondArtifact /\ StartSweep("grant", OwnerPairs, now))
  /\ \A a \in Agents : WF_vars(SweepTransient(f1, a)) /\ WF_vars(SweepGrant(f1, a))

SweepsSpec == Init /\ [][SweepsNext]_vars /\ SweepsFairness

\* Where the clock runs, every grant of ownership ends, whatever its holder does
\* or fails to do: the sweep reclaims it after max_hold_ticks
\* (enforce_stable_grant_timeouts).
GrantsExpire ==
  \A a \in Agents : GrantDue(f1, a) ~> (GrantOver(f1, a) \/ SecondArtifact)

\* Where the clock runs, a transient whose signal is never delivered is cleared
\* by the sweep, so it does not block its agent's optimistic commits for ever
\* (enforce_transient_timeouts).
TransientsExpire ==
  \A a \in Agents : TransientDue(f1, a) ~> (TransientOver(f1, a) \/ SecondArtifact)

\* Nothing a silent agent or a lost signal leaves behind lasts: grants and
\* transients end (the two sweeps of the background loop).
ClaimsExpire == GrantsExpire /\ TransientsExpire
=============================================================================
