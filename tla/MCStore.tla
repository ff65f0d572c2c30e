------------------------------ MODULE MCStore ------------------------------
(***************************************************************************)
(* A TLC instance of CCSStore in two parts.  "store": two agents at one    *)
(* key.  "replay": the same two agents in a recorded session, whose trace  *)
(* is replayed.                                                            *)
(***************************************************************************)
EXTENDS Store

LOCAL INSTANCE TLC

VARIABLES
  part,
  \* the recorded store and its trace
  r_view, r_strategy, r_recovery, r_known, r_indexed, r_heartbeat, r_last_sweep, r_tick,
  r_commits, r_stale_since, r_forgotten,
  session, manifest, lines, instance, seq, ops, log_faults, deleted, last_put,
  stale_reads, put_stale, late_reads

replayVars == <<r_view, r_strategy, r_recovery, r_known, r_indexed, r_heartbeat, r_last_sweep,
                r_tick, r_commits, r_stale_since, r_forgotten, session, manifest, lines,
                instance, seq, ops, log_faults, deleted, last_put, stale_reads, put_stale,
                late_reads>>
mcVars == <<part, storeVars, replayVars>>

Trace == INSTANCE Replay WITH
  view <- r_view, strategy <- r_strategy, recovery <- r_recovery, known <- r_known,
  indexed <- r_indexed, heartbeat <- r_heartbeat, last_sweep <- r_last_sweep, tick <- r_tick,
  commits <- r_commits, stale_since <- r_stale_since, forgotten <- r_forgotten,
  Strategies <- {"lazy", "blind"}, Clock <- {0, 1, 4}, MaxOps <- 3, MaxLogFaults <- 1

ASSUME TraceAssumption == Trace!ReplayAssumption

\* The part that is not checked stays in one of its initial states.
AtRest ==
  /\ part # "store" => strategy = "lazy" /\ ~recovery
  /\ part # "replay" => r_strategy = "lazy" /\ ~r_recovery

MCInit ==
  /\ part \in {"store", "replay"}
  /\ StoreInit /\ Trace!ReplayInit
  /\ AtRest

MCNext ==
  \/ part = "store" /\ StoreNext /\ UNCHANGED <<part, replayVars>>
  \/ part = "replay" /\ Trace!ReplayNext /\ UNCHANGED <<part, storeVars>>

MCSpec == MCInit /\ [][MCNext]_mcVars

\* The agents are interchangeable.
AgentSymmetry == Permutations(Agents)

\* A replay says what happened: the recorder's directory loads, a confirmed finding
\* is a stale read that did happen, every read older than the last put is reported,
\* and exit code 0 means there was none (Replay: the recorder, the loader and the
\* predicates of coherence_replay).
ReplayIsRight ==
  part = "replay" => /\ Trace!TraceLoads /\ Trace!NoFalseBreach
                     /\ Trace!NoMissedStaleRead /\ Trace!CleanMeansCoherent
=============================================================================
