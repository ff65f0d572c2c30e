----------------------------- MODULE Simulation -----------------------------
(***************************************************************************)
(* SimulationEngine (simulation/engine.py): the agents' runtimes over one  *)
(* artifact and a network that delays and loses messages                   *)
(* (transport/network_sim.py), with scheduled failures, churn of the       *)
(* source, both crash-recovery sweeps and the ConsistencyMonitor           *)
(* (simulation/consistency.py).                                            *)
(*                                                                         *)
(* The engine is one loop: a tick runs through its phases in a fixed order *)
(* and the agents act in the order of their numbers.  What the random      *)
(* generator decides is a choice here: who acts, reads or writes, which    *)
(* messages are lost, when the source changes.  Each agent acts at most    *)
(* once a tick (the action_probability mode).                              *)
(*                                                                         *)
(* Abstractions.  Token, message and hit counters are left out; the        *)
(* sessions' liveness sweep has nothing to do, the engine opens none.      *)
(***************************************************************************)
EXTENDS Runtime, SequencesExt

CONSTANTS
  latency_ticks,
  transient_timeout,                          \* transient.timeout_ticks
  sim_heartbeat_timeout, sim_max_hold,        \* crash_recovery
  SimStrategies,  \* the strategies compared
  duration_ticks, \* the length of a run
  MaxSimCommits,  \* bound: writes and changes of the source
  MaxFaults       \* bound: lost messages and failure events together

ASSUME SimulationAssumption ==
  /\ Agents \subseteq Nat
  /\ latency_ticks \in Nat /\ transient_timeout \in Nat \ {0}
  /\ sim_heartbeat_timeout \in Nat \ {0} /\ sim_max_hold \in Nat \ {0}
  /\ SimStrategies \subseteq StrategyNames
  /\ duration_ticks \in Nat /\ MaxSimCommits \in Nat /\ MaxFaults \in Nat

VARIABLES
  world,       \* the artifact's record, body, caches and remembered bodies
  tactic,      \* the strategy of this run
  queue,       \* the network's messages, oldest first
  clock,
  phase,       \* where in the tick the loop is
  turn,        \* whose action is next
  alive, busy, killed, busy_until,   \* the failure model's bookkeeping
  beats,       \* the registry's heartbeat ticks
  stale_steps, \* the monitor's count of stale reads in a row
  simcommits, faults,
  stale_run,   \* history: the stale reads of a cached copy since it was fetched
  unserved     \* history: agents a message was lost for, or whose grant was swept

simVars == <<world, tactic, queue, clock, phase, turn, alive, busy, killed, busy_until,
             beats, stale_steps, simcommits, faults, stale_run, unserved>>

Message ==
  [type : {"invalidate", "update"}, version : Nat, body : Nat, destination : Agents,
   source : Agents, due : Nat]

Phases == {"failures", "deliver", "source", "act", "timeouts", "finished"}

SimTypeOK ==
  /\ world \in View /\ tactic \in StrategyNames
  /\ queue \in Seq(Message)
  /\ clock \in Nat /\ phase \in Phases /\ turn \in Nat
  /\ alive \subseteq Agents /\ busy \subseteq Agents /\ killed \subseteq Agents
  /\ busy_until \in [Agents -> OptNat] /\ beats \in [Agents -> OptNat]
  /\ stale_steps \in [Agents -> Nat] /\ stale_run \in [Agents -> Nat]
  /\ simcommits \in Nat /\ faults \in Nat /\ unserved \subseteq Agents

SimInit ==
  /\ world = NewView
  /\ tactic \in SimStrategies
  /\ queue = <<>>
  /\ clock = 0 /\ phase = "failures" /\ turn = 1
  /\ alive = Agents /\ busy = {} /\ killed = {}
  /\ busy_until = [a \in Agents |-> None]
  /\ beats = [a \in Agents |-> None]
  /\ stale_steps = [a \in Agents |-> 0] /\ stale_run = [a \in Agents |-> 0]
  /\ simcommits = 0 /\ faults = 0 /\ unserved = {}

-----------------------------------------------------------------------------
(* The monitor.                                                            *)

\* check_bounded_staleness on a number of stale reads in a row.
WithinBound(steps) == staleness_bound(tactic) = None \/ steps <= staleness_bound(tactic)

-----------------------------------------------------------------------------
(* Failure events, at the start of a tick.                                 *)

\* A busy window that has ended is closed, unless its agent was killed.
Expired == {a \in Agents : busy_until[a] # None /\ clock >= busy_until[a] /\ a \notin killed}

StartTick ==
  /\ phase = "failures" /\ turn = 1
  /\ turn' = 2
  /\ busy_until' = [a \in Agents |-> IF a \in Expired THEN None ELSE busy_until[a]]
  /\ busy' = busy \ Expired
  /\ alive' = alive \cup Expired
  /\ UNCHANGED <<world, tactic, queue, clock, phase, killed, beats, stale_steps, stale_run,
                 simcommits, faults, unserved>>

Failing == phase = "failures" /\ turn = 2 /\ faults < MaxFaults

FailureEvent(a) ==
  /\ Failing
  /\ faults' = faults + 1
  /\ UNCHANGED <<world, tactic, queue, clock, phase, turn, beats, stale_steps, stale_run,
                 simcommits, unserved>>

Kill(a) ==
  /\ FailureEvent(a)
  /\ alive' = alive \ {a} /\ busy' = busy \ {a} /\ killed' = killed \cup {a}
  /\ busy_until' = [busy_until EXCEPT ![a] = None]

\* A busy event on a killed agent is refused: the run ends with an error.
Busy(a, until) ==
  /\ FailureEvent(a)
  /\ a \notin killed
  /\ alive' = alive \ {a} /\ busy' = busy \cup {a}
  /\ busy_until' = [busy_until EXCEPT ![a] = until]
  /\ UNCHANGED killed

Restore(a) ==
  /\ FailureEvent(a)
  /\ a \notin alive
  /\ alive' = alive \cup {a} /\ busy' = busy \ {a} /\ killed' = killed \ {a}
  /\ busy_until' = [busy_until EXCEPT ![a] = None]

EndFailures ==
  /\ phase = "failures" /\ turn = 2
  /\ phase' = "deliver" /\ turn' = 1
  /\ UNCHANGED <<world, tactic, queue, clock, alive, busy, killed, busy_until, beats,
                 stale_steps, stale_run, simcommits, faults, unserved>>

-----------------------------------------------------------------------------
(* Delivery.                                                               *)

Due(m) == m.due <= clock

Applied(m) ==
  IF m.type = "invalidate"
    THEN handle_invalidation(world, m.destination, m.version, m.source, clock)
    ELSE handle_update(tactic, world, m.destination, m.version, m.body, m.source, clock)

\* deliver_due hands over the due messages in the order they were sent.
DeliverMessage ==
  /\ phase = "deliver"
  /\ \E i \in DOMAIN queue :
       /\ Due(queue[i]) /\ \A j \in 1 .. i - 1 : ~Due(queue[j])
       /\ world' = Applied(queue[i])
       /\ stale_steps' = [stale_steps EXCEPT ![queue[i].destination] = 0]
       /\ stale_run' = IF Applied(queue[i]).entry = world.entry THEN stale_run
                       ELSE [stale_run EXCEPT ![queue[i].destination] = 0]
       /\ queue' = RemoveAt(queue, i)
  /\ UNCHANGED <<tactic, clock, phase, turn, alive, busy, killed, busy_until, beats,
                 simcommits, faults, unserved>>

\* The delivery after the last tick ends the run.
EndDelivery ==
  /\ phase = "deliver" /\ \A i \in DOMAIN queue : ~Due(queue[i])
  /\ phase' = IF clock = duration_ticks THEN "finished" ELSE "source"
  /\ UNCHANGED <<world, tactic, queue, clock, turn, alive, busy, killed, busy_until, beats,
                 stale_steps, stale_run, simcommits, faults, unserved>>

-----------------------------------------------------------------------------
(* Churn of the source.                                                    *)

\* A new version that no agent wrote: every registered holder is invalidated,
\* in the registry and in its cache, without a message.
SourceMutated(v) ==
  [v EXCEPT
     !.rec = [InvalidatePeers(@, None, clock) EXCEPT !.version = @ + 1,
                                                     !.transient = v.rec.transient],
     !.body = simcommits + 1,
     !.entry = [a \in Agents |-> IF a \in valid_holders(v.rec)
                                   THEN cache_invalidate(@[a], v.rec.version) ELSE @[a]]]

SourceMutation ==
  /\ phase = "source" /\ simcommits < MaxSimCommits
  /\ phase' = "act"
  /\ world' = SourceMutated(world)
  /\ simcommits' = simcommits + 1
  /\ UNCHANGED <<tactic, queue, clock, turn, alive, busy, killed, busy_until, beats,
                 stale_steps, stale_run, faults, unserved>>

NoSourceMutation ==
  /\ phase = "source"
  /\ phase' = "act"
  /\ UNCHANGED <<world, tactic, queue, clock, turn, alive, busy, killed, busy_until, beats,
                 stale_steps, stale_run, simcommits, faults, unserved>>

-----------------------------------------------------------------------------
(* The agents' actions.                                                    *)

Acts(a) == phase = "act" /\ turn = a /\ a \in alive /\ a \notin busy /\ a \notin killed

IsStale(v, a) == has_valid(v.entry[a]) /\ v.entry[a].local_version < v.rec.version

\* A read from the cache is shown to the monitor; a fetch is not.
PerformRead(a) ==
  LET hit   == ~NeedsRefresh(tactic, world, a, clock)
      done  == read(tactic, world, a, clock)
      More(count) == IF IsStale(done, a) THEN count[a] + 1 ELSE 0 IN
  /\ Acts(a)
  /\ turn' = turn + 1
  /\ world' = done
  /\ stale_steps' = IF hit THEN [stale_steps EXCEPT ![a] = More(stale_steps)] ELSE stale_steps
  /\ stale_run' = [stale_run EXCEPT ![a] = IF hit THEN More(stale_run) ELSE 0]
  /\ UNCHANGED <<tactic, queue, clock, phase, alive, busy, killed, busy_until, beats,
                 simcommits, faults, unserved>>

\* The peers a write is announced to are the holders it is about to take the
\* copy from.
PeersToSync(a) == OtherHolders(world.rec, a)

MessageTo(v, a, p) ==
  [type        |-> IF broadcasts_content_on_commit(tactic) THEN "update" ELSE "invalidate",
   version     |-> v.rec.version,
   body        |-> v.body,
   destination |-> p,
   source      |-> a,
   due         |-> clock + latency_ticks]

\* NetworkSimulator.send: any of the messages may be lost.
PerformWrite(a, lost) ==
  LET done == write(tactic, world, a, simcommits + 1, clock)
      kept == SetToSortSeq(PeersToSync(a) \ lost, <) IN
  /\ Acts(a) /\ simcommits < MaxSimCommits
  /\ lost \subseteq PeersToSync(a) /\ faults + Cardinality(lost) <= MaxFaults
  /\ turn' = turn + 1
  /\ world' = done
  /\ simcommits' = simcommits + 1
  /\ faults' = faults + Cardinality(lost)
  /\ unserved' = unserved \cup lost
  /\ queue' = queue \o [i \in DOMAIN kept |-> MessageTo(done, a, kept[i])]
  /\ stale_steps' = [stale_steps EXCEPT ![a] = 0]
  /\ stale_run' = [stale_run EXCEPT ![a] = 0]
  /\ UNCHANGED <<tactic, clock, phase, alive, busy, killed, busy_until, beats>>

\* An agent that is not alive, or whose number did not come up.
Idle ==
  /\ phase = "act" /\ turn \in Agents
  /\ turn' = turn + 1
  /\ UNCHANGED <<world, tactic, queue, clock, phase, alive, busy, killed, busy_until, beats,
                 stale_steps, stale_run, simcommits, faults, unserved>>

\* _broadcast_all_to_all pushes the current body to every agent, in order.
BroadcastAll(v) ==
  FoldLeft(LAMBDA w, a : handle_update(tactic, w, a, v.rec.version, v.body, None, clock),
           v, SetToSortSeq(Agents, <))

EndActions ==
  /\ phase = "act" /\ turn \notin Agents
  /\ phase' = "timeouts"
  /\ stale_run' = IF broadcasts_every_tick(tactic) THEN [a \in Agents |-> 0] ELSE stale_run
  /\ world' = IF broadcasts_every_tick(tactic) THEN BroadcastAll(world) ELSE world
  /\ UNCHANGED <<tactic, queue, clock, turn, alive, busy, killed, busy_until, beats,
                 stale_steps, simcommits, faults, unserved>>

-----------------------------------------------------------------------------
(* The end of a tick: both sweeps, then the clock.                         *)

TransientsOver(r) ==
  {a \in Agents : r.transient[a] # None /\ clock - r.transient[a] >= transient_timeout}

Silent(hb, a) == hb[a] = None \/ clock - hb[a] >= sim_heartbeat_timeout

GrantsOver(r, hb) ==
  {a \in Owners(r) :
     /\ r.transient[a] = None
     /\ \/ Silent(hb, a)
        \/ r.granted_at[a] # None /\ clock - r.granted_at[a] >= sim_max_hold}

EndTick ==
  LET hb      == [a \in Agents |-> IF a \in alive THEN clock ELSE beats[a]]
      timed   == FoldLeft(LAMBDA r, a : TimeoutRecord(r, a, clock), world.rec,
                          SetToSortSeq(TransientsOver(world.rec), <))
      overdue == GrantsOver(timed, hb) IN
  /\ phase = "timeouts"
  /\ beats' = hb
  /\ world' = [world EXCEPT !.rec =
       FoldLeft(LAMBDA r, a : ReclaimRecord(r, a, IF Silent(hb, a) THEN "reclaim_heartbeat"
                                                  ELSE "reclaim_max_hold", clock),
                timed, SetToSortSeq(overdue, <))]
  /\ unserved' = unserved \cup overdue
  /\ clock' = clock + 1 /\ turn' = 1
  /\ phase' = IF clock + 1 = duration_ticks THEN "deliver" ELSE "failures"
  /\ UNCHANGED <<tactic, queue, alive, busy, killed, busy_until, stale_steps, stale_run,
                 simcommits, faults>>

SimNext ==
  \/ StartTick
  \/ \E a \in Agents : Kill(a) \/ Restore(a) \/ Busy(a, clock + 1) \/ Busy(a, clock + 2)
  \/ EndFailures
  \/ DeliverMessage \/ EndDelivery
  \/ SourceMutation \/ NoSourceMutation
  \/ \E a \in Agents : PerformRead(a) \/ \E lost \in SUBSET Agents : PerformWrite(a, lost)
  \/ Idle \/ EndActions
  \/ EndTick

SimSpec == SimInit /\ [][SimNext]_simVars

-----------------------------------------------------------------------------
(* Properties.                                                             *)

\* Whatever is lost or late, no two agents own the artifact: the engine's
\* validate_single_writer never counts a violation.
SingleWriter == \A a, b \in Owners(world.rec) : a = b

\* A fetched copy is served stale no more often than its strategy's
\* staleness_bound, even when the message that would have ended it is lost.
\* (Eager and broadcast promise no staleness at all, which holds only on a
\* network without latency.)
StaleReadsBounded ==
  tactic \notin {"eager", "broadcast"} => \A a \in Agents : WithinBound(stale_run[a])

\* The directory does not lie, in spite of delays and losses: an agent that the
\* registry counts as a holder and whose cache is valid has the current body.
HoldersAreCurrent ==
  \A a \in valid_holders(world.rec) :
    has_valid(world.entry[a]) => /\ world.entry[a].local_version = world.rec.version
                                 /\ world.content[a] = world.body

\* Where peers are invalidated, a copy that is out of date has the message that
\* will invalidate it under way, unless it was lost or the sweep took the grant.
StaleHasMessageUnderWay ==
  invalidates_peers_on_commit(tactic) /\ tactic # "blind" =>
    \A a \in Agents \ unserved : IsStale(world, a) =>
      \E i \in DOMAIN queue : queue[i].destination = a

\* The three sets of the failure model stay a partition through any order of
\* events and expiries, and an open busy window belongs to a busy agent.
OneCondition ==
  \A a \in Agents :
    /\ a \in alive <=> a \notin busy \cup killed
    /\ ~(a \in busy /\ a \in killed)
    /\ busy_until[a] # None <=> a \in busy

\* Over a network that delays and loses there is one writer, holders are current,
\* staleness has its message under way or the strategy's bound, and an agent is in
\* one condition (the engine's tick, the strategies, the failure model).
SimulationIsBounded ==
  /\ SimTypeOK /\ SingleWriter /\ HoldersAreCurrent /\ StaleReadsBounded
  /\ StaleHasMessageUnderWay /\ OneCondition

=============================================================================
