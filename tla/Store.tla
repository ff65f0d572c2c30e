------------------------------- MODULE Store -------------------------------
(***************************************************************************)
(* CCSStore (adapters/ccsstore.py) over CoherenceAdapterCore               *)
(* (adapters/base.py): one key of one scope, shared by the agents that use *)
(* it, with the in-process event bus (bus/event_bus.py) that carries a     *)
(* writer's signals and updates to its peers before the call returns.      *)
(*                                                                         *)
(* batch holds the store's lock, so each operation is one action.  The     *)
(* tick is the batch counter: an operation continues the current batch or  *)
(* opens a later one (batches on other keys, or empty ones, lie between).  *)
(* The artifact's id is derived from scope and key: a key that is deleted  *)
(* and put again is the same id with a new record.                         *)
(*                                                                         *)
(* Abstractions.  Metrics, benchmark totals and token estimates are left   *)
(* out, and so is the degraded mode: core calls raise only for an artifact *)
(* the registry does not have, and the store's map and the registry gain   *)
(* and lose the key together.                                              *)
(***************************************************************************)
EXTENDS Runtime, FiniteSetsExt

CONSTANTS
  heartbeat_timeout_ticks, max_hold_ticks,  \* CrashRecoveryConfig
  Strategies,  \* the strategies the stores are built with
  Clock,       \* bound: the ticks at which batches on this key happen
  MaxCommits   \* bound: the number of writes

ASSUME StoreAssumption ==
  /\ heartbeat_timeout_ticks \in Nat \ {0} /\ max_hold_ticks \in Nat \ {0}
  /\ Strategies \subseteq StrategyNames
  /\ Clock \subseteq Nat /\ MaxCommits \in Nat

VARIABLES
  view,         \* the key's record, body, caches and remembered bodies
  strategy,     \* the strategy the store was built with
  recovery,     \* CrashRecoveryConfig.enabled
  known,        \* agents registered with the core, hence subscribed to the bus
  indexed,      \* agents under whose namespace the key is listed
  heartbeat,    \* the registry's heartbeat ticks
  last_sweep,   \* _last_sweep_tick
  tick,         \* the batch counter
  commits,      \* writes so far; numbers the bodies
  stale_since,  \* history: the tick since which a cached copy is out of date
  forgotten     \* history: agents that lost their registry entry unannounced

storeVars == <<view, strategy, recovery, known, indexed, heartbeat, last_sweep, tick,
               commits, stale_since, forgotten>>

StoreTypeOK ==
  /\ view \in View
  /\ strategy \in StrategyNames
  /\ recovery \in BOOLEAN
  /\ known \in SUBSET Agents /\ indexed \in SUBSET Agents
  /\ heartbeat \in [Agents -> OptNat]
  /\ last_sweep \in OptNat
  /\ tick \in Nat /\ commits \in Nat
  /\ stale_since \in [Agents -> OptNat]
  /\ forgotten \in SUBSET Agents

StoreInit ==
  /\ view = [NewView EXCEPT !.rec = None]
  /\ strategy \in Strategies
  /\ recovery \in BOOLEAN
  /\ known = {} /\ indexed = {}
  /\ heartbeat = [a \in Agents |-> None]
  /\ last_sweep = None
  /\ tick = 0 /\ commits = 0
  /\ stale_since = [a \in Agents |-> None]
  /\ forgotten = {}

-----------------------------------------------------------------------------
(* Heartbeats and the rate-limited sweep.                                  *)

\* register_agent at tick 0, then the call's own heartbeat.
Heartbeats(a, now) ==
  IF ~recovery THEN heartbeat
  ELSE [heartbeat EXCEPT ![a] = IF @ = None \/ @ < now THEN now ELSE @]

Gate == heartbeat_timeout_ticks \div 2

\* Mutant: the gate is a whole timeout.
SweepDue_WholeTimeout(now) ==
  recovery /\ (last_sweep = None \/ now - last_sweep >= heartbeat_timeout_ticks)

SweepDue(now) == recovery /\ (last_sweep = None \/ now - last_sweep >= Gate)

\* enforce_stable_grant_timeouts: the owners it takes the grant from.
Overdue(r, beats, now) ==
  {a \in Owners(r) :
     /\ r.transient[a] = None
     /\ \/ beats[a] = None \/ now - beats[a] >= heartbeat_timeout_ticks
        \/ r.granted_at[a] # None /\ now - r.granted_at[a] >= max_hold_ticks}

ReclaimOf(r, beats, a, now) ==
  ReclaimRecord(r, a, IF beats[a] = None \/ now - beats[a] >= heartbeat_timeout_ticks
                        THEN "reclaim_heartbeat" ELSE "reclaim_max_hold", now)

Reclaimed(v, beats, now) ==
  IF v.rec = None \/ ~SweepDue(now) THEN {} ELSE Overdue(v.rec, beats, now)

\* _maybe_sweep: only the registry learns of it.
Swept(v, beats, now) ==
  [v EXCEPT !.rec = FoldSet(LAMBDA a, r : ReclaimOf(r, beats, a, now), @,
                            Reclaimed(v, beats, now))]

\* The entry of every core call: heartbeat, then sweep.
Enter(a, now) ==
  /\ heartbeat' = Heartbeats(a, now)
  /\ last_sweep' = IF SweepDue(now) THEN now ELSE last_sweep
  /\ known' = known \cup {a}

-----------------------------------------------------------------------------
(* The bus.                                                                *)

Peers(a) == known \ {a}

\* Mutant: only agents the registry still counts as holders are told.
publish_invalidation_HoldersOnly(v, a, version, now) ==
  FoldSet(LAMBDA p, w : handle_invalidation(w, p, version, a, now), v,
          {p \in Peers(a) : view.rec # None /\ view.rec.state[p] = "MODIFIED"})

publish_invalidation(v, a, version, now) ==
  FoldSet(LAMBDA p, w : handle_invalidation(w, p, version, a, now), v, Peers(a))

publish_update(v, a, now) ==
  FoldSet(LAMBDA p, w : handle_update(strategy, w, p, v.rec.version, v.body, a, now),
          v, Peers(a))

\* The tail of write and write_cas: signals to all peers if there are any, then
\* the content if the strategy pushes it.
Published(v, a, signalled, version, now) ==
  LET told == IF signalled THEN publish_invalidation(v, a, version, now) ELSE v IN
  IF broadcasts_content_on_commit(strategy) THEN publish_update(told, a, now) ELSE told

-----------------------------------------------------------------------------
(* History.                                                                *)

Current(v, a) ==
  /\ v.rec # None
  /\ v.entry[a].local_version = v.rec.version
  /\ v.content[a] = v.body

\* An agent is forgotten while its cache still holds a copy it lost to the
\* sweep, or to its own delete, without being told.
Observe(v, lost, now) ==
  /\ view' = v
  /\ tick' = now
  /\ stale_since' = [a \in Agents |-> IF ~has_valid(v.entry[a]) \/ Current(v, a) THEN None
                                      ELSE IF stale_since[a] = None THEN now
                                      ELSE stale_since[a]]
  /\ forgotten' = {a \in forgotten \cup lost :
                     /\ has_valid(v.entry[a])
                     /\ v.rec = None \/ v.rec.state[a] = "INVALID"}

-----------------------------------------------------------------------------
(* The operations.                                                         *)

Batch(now) == now >= tick

\* _apply_get of a key the store has.
Get(a, now) ==
  /\ Batch(now) /\ view.rec # None
  /\ Enter(a, now)
  /\ LET beats == Heartbeats(a, now) IN
     Observe(read(strategy, Swept(view, beats, now), a, now), Reclaimed(view, beats, now), now)
  /\ UNCHANGED <<strategy, recovery, indexed, commits>>

\* _ensure_artifact_registered: a key that is absent, or was deleted, starts
\* over with an empty body; nobody's cache is touched.
EnsureRegistered(v) ==
  IF v.rec = None THEN [v EXCEPT !.rec = register_artifact, !.body = 0] ELSE v

_apply_put(a, now) ==
  LET beats == Heartbeats(a, now)
      swept == Swept(EnsureRegistered(view), beats, now)
      done  == write(strategy, swept, a, commits + 1, now) IN
  /\ Batch(now) /\ commits < MaxCommits
  /\ Enter(a, now)
  /\ commits' = commits + 1
  /\ indexed' = indexed \cup {a}
  /\ Observe(Published(done, a, WriteSignalled(strategy, swept, a, now),
                       WriteAnnounces(swept), now),
             Reclaimed(view, beats, now), now)
  /\ UNCHANGED <<strategy, recovery>>

\* CoherenceAdapterCore.write_cas: it either wins or raises, in which case the
\* refresh it began with stays.
WriteCas(a, now) ==
  LET beats == Heartbeats(a, now)
      swept == Swept(view, beats, now)
      last  == CasAttempt(strategy, swept, a, now)
      wins  == CasReady(strategy, last, a, now) IN
  /\ Batch(now) /\ view.rec # None /\ commits < MaxCommits
  /\ Enter(a, now)
  /\ commits' = IF wins THEN commits + 1 ELSE commits
  /\ Observe(IF wins THEN Published(write_cas(strategy, last, a, commits + 1, now), a,
                                    OtherHolders(last.rec, a) # {}, last.rec.version + 1, now)
                     ELSE last,
             Reclaimed(view, beats, now), now)
  /\ UNCHANGED <<strategy, recovery, indexed>>

\* _apply_delete: the record goes, the peers are told, the caller's own cache
\* is not.  Only the caller's namespace drops the key.
_apply_delete(a, now) ==
  LET removed == [view EXCEPT !.rec = None]
      held    == valid_holders(view.rec) # {} IN
  /\ Batch(now) /\ view.rec # None
  /\ known' = known \cup {a}
  /\ heartbeat' = IF a \in known THEN heartbeat ELSE Heartbeats(a, 0)
  /\ indexed' = indexed \ {a}
  /\ Observe(IF held THEN publish_invalidation(removed, a, view.rec.version, now)
                     ELSE removed,
             {a} \cup forgotten, now)
  /\ UNCHANGED <<strategy, recovery, last_sweep, commits>>

\* A get or put of another key: of this one, only the sweep takes notice.
OtherKey(a, now) ==
  /\ Batch(now)
  /\ Enter(a, now)
  /\ LET beats == Heartbeats(a, now) IN
     Observe(Swept(view, beats, now), Reclaimed(view, beats, now), now)
  /\ UNCHANGED <<strategy, recovery, indexed, commits>>

\* heartbeat and recover, which flushes the agent's cache in any case.
Heartbeat(a, now) ==
  /\ Batch(now) /\ a \in known /\ recovery
  /\ heartbeat' = Heartbeats(a, now)
  /\ Observe(view, {}, now)
  /\ UNCHANGED <<strategy, recovery, known, indexed, last_sweep, commits>>

recover(a, now) ==
  /\ Batch(now) /\ a \in known
  /\ heartbeat' = Heartbeats(a, now)
  /\ Observe([view EXCEPT !.entry[a] = cache_invalidate_all(@)], {}, now)
  /\ UNCHANGED <<strategy, recovery, known, indexed, last_sweep, commits>>

\* _apply_search under the scope: it goes through the index of every namespace
\* and reads the registry, past the caches.
_apply_search == IF view.rec = None THEN {} ELSE {<<a, view.body>> : a \in indexed}

StoreNext ==
  \E a \in Agents, now \in Clock :
    \/ Get(a, now)
    \/ _apply_put(a, now)
    \/ WriteCas(a, now)
    \/ _apply_delete(a, now)
    \/ OtherKey(a, now)
    \/ Heartbeat(a, now)
    \/ recover(a, now)

StoreSpec == StoreInit /\ [][StoreNext]_storeVars

-----------------------------------------------------------------------------
(* Properties.                                                             *)

\* The directory does not lie: an agent that the registry counts as a holder
\* and whose cache is valid has the current version and the current body.
DirectoryMatchesCache ==
  view.rec # None =>
    \A a \in valid_holders(view.rec) : has_valid(view.entry[a]) => Current(view, a)

\* A copy that a cache still serves although a peer has written since belongs
\* to an agent whose grant the sweep took, or who deleted the key itself: those
\* two tell the registry and not the cache.  Every other peer is reached.
StaleOnlyWhenForgotten ==
  \A a \in Agents :
    has_valid(view.entry[a]) /\ ~Current(view, a) => a \in forgotten

\* A lease ends the staleness even of a forgotten copy: whatever is read in
\* between, the copy expires within ttl_ticks of the write that superseded it.
LeaseEndsStaleness ==
  strategy = "lease" =>
    \A a \in Agents : stale_since[a] # None =>
      view.entry[a].expires_at <= stale_since[a] + ttl_ticks

\* A silent owner does not outlive the sweep's rate limit: when a call returns,
\* every owner was heard of within the timeout plus the gate.
SweptInTime ==
  [][recovery /\ view'.rec # None /\ (\E a \in Agents : Get(a, tick') \/ OtherKey(a, tick')) =>
       \A a \in Owners(view'.rec) :
         tick' - heartbeat'[a] < heartbeat_timeout_ticks + Gate]_storeVars

\* write_cas never overwrites a body its caller has not seen, unless the copy it
\* works from is one the agent was never told it had lost.
CasReplacesWhatWasRead ==
  [][\A a \in Agents :
       WriteCas(a, tick') /\ commits' # commits /\ a \notin forgotten /\ strategy # "blind" =>
         CasAttempt(strategy, Swept(view, heartbeat', tick'), a, tick').content[a]
           = view.body]_storeVars

\* Every key the store has is found by a search: some namespace lists it.
LiveKeyIsListed == view.rec # None => _apply_search # {}

\* What the caches of a store serve: holders have the current body, only a copy
\* whose loss nobody announced is stale, a lease ends even that, and a live key is
\* found (get, put, delete, search and the in-process bus).
CopiesAreHonest ==
  /\ StoreTypeOK /\ DirectoryMatchesCache /\ StaleOnlyWhenForgotten
  /\ LeaseEndsStaleness /\ LiveKeyIsListed

\* The steps that take something away do so in time and from the right one: the
\* rate-limited sweep from silent owners, write_cas from the body it read.
StoreStepsAreExact == SweptInTime /\ CasReplacesWhatWasRead

\* ccsstore.py: "A peer write invalidates all other agents' cached copies".
PeerWriteInvalidatesCopies ==
  \A a \in Agents : view.rec # None /\ has_valid(view.entry[a]) => Current(view, a)
=============================================================================
