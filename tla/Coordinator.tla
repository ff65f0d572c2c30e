---------------------------- MODULE Coordinator ----------------------------
(***************************************************************************)
(* CoordinatorService over the registry (coordinator/service.py): fetch,   *)
(* pessimistic write and commit, optimistic commit_cas and commit_all,     *)
(* invalidation, deletion, heartbeats and the two crash-recovery sweeps.   *)
(*                                                                         *)
(* Every service call runs under one registry.abort_guard hold and is one  *)
(* action.  A sweep is not one hold: it takes a snapshot of pairs and      *)
(* visits each of them in a hold of its own, so a sweep is a start action  *)
(* and one action per visited pair.  A rejected call changes no protocol   *)
(* state and is a stuttering step.                                         *)
(*                                                                         *)
(* Invalidation signals are minted under the lock and delivered later by   *)
(* whatever transport carries them.  A signal stays in `issued' for ever   *)
(* and may be delivered at any time, any number of times or never.         *)
(***************************************************************************)
EXTENDS ServiceRecords, FiniteSets

CONSTANTS
  Artifacts,
  HeartbeatTimeout,   \* CrashRecoveryConfig.heartbeat_timeout_ticks
  MaxHold,            \* CrashRecoveryConfig.max_hold_ticks
  TransientTimeout,   \* timeout_ticks of the transient sweep
  MaxVersion,         \* bound: no commit beyond this version
  MaxEpoch,           \* bound: no ownership granted from this epoch on
  MaxTick             \* bound: the clock stops here

ASSUME BoundsAssumption ==
  /\ HeartbeatTimeout \in Nat \ {0} /\ MaxHold \in Nat /\ MaxHold > HeartbeatTimeout
  /\ TransientTimeout \in Nat \ {0}
  /\ MaxVersion \in Nat /\ MaxEpoch \in Nat /\ MaxTick \in Nat

VARIABLES
  records,    \* artifact -> its registry record, None when unregistered
  gone,       \* ids of deleted artifacts; an id is a fresh uuid, never reused
  heartbeat,  \* agent -> last recorded heartbeat tick
  now,        \* the callers' clock
  issued,     \* invalidation signals handed to the transport
  sweep,      \* the sweep in progress: its kind, its tick, the pairs to visit
  revoked     \* history: agents whose write claim was revoked with the version
              \* unmoved, until they claim again by a fetch or an acquire

vars == <<records, gone, heartbeat, now, issued, sweep, revoked>>

Signal == [artifact : Artifacts, target : Agents, version : Nat]

Sweep == [kind : {"transient", "grant"}, tick : Nat, pairs : SUBSET (Artifacts \X Agents)]

TypeOK ==
  /\ records \in [Artifacts -> ArtifactRecord \cup {None}]
  /\ gone \in SUBSET Artifacts
  /\ heartbeat \in [Agents -> OptNat]
  /\ now \in Nat
  /\ issued \in SUBSET Signal
  /\ sweep = None \/ sweep \in Sweep
  /\ revoked \in [Artifacts -> SUBSET Agents]

Live == {f \in Artifacts : records[f] # None}

Init ==
  /\ records = [f \in Artifacts |-> None]
  /\ gone = {}
  /\ heartbeat = [a \in Agents |-> None]
  /\ now = 0
  /\ issued = {}
  /\ sweep = None
  /\ revoked = [f \in Artifacts |-> {}]

-----------------------------------------------------------------------------
(* Signals and history.                                                    *)

\* One signal per invalidated peer, all alike, each published to every other
\* registered agent (CoherenceAdapterCore.write and write_cas).
SignalsFor(f, a, invalidated, version) ==
  {[artifact |-> f, target |-> p, version |-> version] :
     p \in IF invalidated = {} THEN {} ELSE Agents \ {a}}

Claimed(f, a) == revoked' = [revoked EXCEPT ![f] = @ \ {a}]

Revoked(f, a) ==
  revoked' = [revoked EXCEPT ![f] = IF records[f].state[a] \in M_OR_E_STATES
                                      THEN @ \cup {a} ELSE @]

-----------------------------------------------------------------------------
(* Service calls.                                                          *)

\* register_artifact, with or without an initial owner.
Register(f, owner) ==
  /\ records[f] = None /\ f \notin gone
  /\ records' = [records EXCEPT ![f] =
       IF owner = None THEN register_artifact
       ELSE set_agent_state(register_artifact, owner, "EXCLUSIVE", "register", 0)]
  /\ UNCHANGED <<gone, heartbeat, now, issued, sweep, revoked>>

fetch(a, f) ==
  /\ f \in Live
  /\ FetchGrant(records[f], a) = "EXCLUSIVE" => records[f].owner_generation < MaxEpoch
  /\ records' = [records EXCEPT ![f] = FetchRecord(@, a, now)]
  /\ Claimed(f, a)
  /\ UNCHANGED <<gone, heartbeat, now, issued, sweep>>

write(a, f) ==
  /\ f \in Live
  /\ records[f].owner_generation < MaxEpoch
  /\ records' = [records EXCEPT ![f] = WriteRecord(@, a, now)]
  /\ issued' = issued \cup
       SignalsFor(f, a, OtherHolders(records[f], a), records[f].version)
  /\ Claimed(f, a)
  /\ UNCHANGED <<gone, heartbeat, now, sweep>>

\* commit: the caller must own the artifact; the version move is fenced.
commit(a, f) ==
  /\ f \in Live
  /\ records[f].state[a] \in M_OR_E_STATES
  /\ ~StaleReadGeneration(records[f], a)
  /\ records[f].version < MaxVersion
  /\ records' = [records EXCEPT ![f] = CommitRecord(@, a, now)]
  /\ issued' = issued \cup
       SignalsFor(f, a, OtherHolders(records[f], a), records[f].version + 1)
  /\ UNCHANGED <<gone, heartbeat, now, sweep, revoked>>

commit_cas(a, f, expected) ==
  /\ f \in Live
  /\ OccAllowed(records[f], a)
  /\ CasOutcome(records[f], a, expected) = "win"
  /\ records[f].version < MaxVersion
  /\ records' = [records EXCEPT ![f] = CasWin(@, a)]
  /\ issued' = issued \cup
       SignalsFor(f, a, OtherHolders(records[f], a), records[f].version + 1)
  /\ UNCHANGED <<gone, heartbeat, now, sweep, revoked>>

\* commit_all: every member is checked before any is written.
commit_all(a, F, expected) ==
  /\ F # {} /\ F \subseteq Live
  /\ \A f \in F : /\ OccAllowed(records[f], a)
                  /\ CasOutcome(records[f], a, expected[f]) = "win"
                  /\ records[f].version < MaxVersion
  /\ records' = [f \in Artifacts |-> IF f \in F THEN CasWin(records[f], a) ELSE records[f]]
  /\ issued' = issued \cup
       UNION {SignalsFor(f, a, OtherHolders(records[f], a), records[f].version + 1) : f \in F}
  /\ UNCHANGED <<gone, heartbeat, now, sweep, revoked>>

invalidate(target, f, version, issuer) ==
  /\ f \in Live
  /\ ~RevokeIsSuperseded(records[f], target, version, issuer)
  /\ records' = [records EXCEPT ![f] = InvalidateRecord(@, target, now)]
  /\ Revoked(f, target)
  /\ UNCHANGED <<gone, heartbeat, now, issued, sweep>>

\* A holder releases its own claim (failed edit, session stop, drain).
Release(a, f) ==
  /\ f \in Live
  /\ invalidate(a, f, records[f].version, a)

\* AgentRuntime.handle_invalidation: the recipient of a peer's signal asks
\* the coordinator to invalidate its copy.  No recipient is the issuer.
DeliverInvalidation(s) ==
  invalidate(s.target, s.artifact, s.version, None)

delete(a, f) ==
  /\ f \in Live
  /\ records' = [records EXCEPT ![f] = None]
  /\ gone' = gone \cup {f}
  /\ issued' = issued \cup
       SignalsFor(f, a, valid_holders(records[f]), records[f].version)
  /\ UNCHANGED <<heartbeat, now, sweep, revoked>>

record_heartbeat(a) ==
  /\ heartbeat' = [heartbeat EXCEPT ![a] = IF @ = None \/ @ < now THEN now ELSE @]
  /\ UNCHANGED <<records, gone, now, issued, sweep, revoked>>

Tick ==
  /\ now < MaxTick
  /\ now' = now + 1
  /\ UNCHANGED <<records, gone, heartbeat, issued, sweep, revoked>>

-----------------------------------------------------------------------------
(* The sweeps.  The tick and the pairs are fixed when the sweep starts;    *)
(* every decision is taken again from the record when a pair is visited.   *)

TransientPairs ==
  {p \in Live \X Agents : records[p[1]].transient[p[2]] # None}

OwnerPairs ==
  {p \in Live \X Agents : records[p[1]].state[p[2]] \in M_OR_E_STATES}

StartSweep(kind, pairs, tick) ==
  /\ sweep = None
  /\ pairs # {}
  /\ sweep' = [kind |-> kind, tick |-> tick, pairs |-> pairs]
  /\ UNCHANGED <<records, gone, heartbeat, now, issued, revoked>>

Visited(p) ==
  sweep' = IF sweep.pairs = {p} THEN None ELSE [sweep EXCEPT !.pairs = @ \ {p}]

TransientExpired(r, a, tick) ==
  /\ r.transient[a] # None
  /\ tick - r.transient[a] >= TransientTimeout

\* One pair of enforce_transient_timeouts.
SweepTransient(f, a) ==
  /\ sweep # None /\ sweep.kind = "transient" /\ <<f, a>> \in sweep.pairs
  /\ IF f \in Live /\ TransientExpired(records[f], a, sweep.tick)
       THEN /\ records' = [records EXCEPT ![f] = TimeoutRecord(@, a, sweep.tick)]
            /\ Revoked(f, a)
       ELSE UNCHANGED <<records, revoked>>
  /\ Visited(<<f, a>>)
  /\ UNCHANGED <<gone, heartbeat, now, issued>>

HeartbeatStale(a, tick) ==
  \/ heartbeat[a] = None
  \/ tick - heartbeat[a] >= HeartbeatTimeout

HeldTooLong(r, a, tick) ==
  /\ r.granted_at[a] # None
  /\ tick - r.granted_at[a] >= MaxHold

\* Mutant: the hold is measured against the heartbeat timeout.
ReclaimTrigger_WrongLimit(r, a, tick) ==
  IF r.state[a] \notin M_OR_E_STATES \/ r.transient[a] # None THEN None
  ELSE IF HeartbeatStale(a, tick) THEN "reclaim_heartbeat"
  ELSE IF r.granted_at[a] # None /\ tick - r.granted_at[a] >= HeartbeatTimeout
    THEN "reclaim_max_hold"
  ELSE None

\* Mutant: an agent that keeps sending heartbeats is never reclaimed.
ReclaimTrigger_HeartbeatOnly(r, a, tick) ==
  IF r.state[a] \notin M_OR_E_STATES \/ r.transient[a] # None THEN None
  ELSE IF HeartbeatStale(a, tick) THEN "reclaim_heartbeat"
  ELSE None

\* The trigger under which the stable-grant sweep reclaims a pair, or None.
\* A pair with a transient belongs to the transient sweep.
ReclaimTrigger(r, a, tick) ==
  IF r.state[a] \notin M_OR_E_STATES \/ r.transient[a] # None THEN None
  ELSE IF HeartbeatStale(a, tick) THEN "reclaim_heartbeat"
  ELSE IF HeldTooLong(r, a, tick) THEN "reclaim_max_hold"
  ELSE None

\* One pair of enforce_stable_grant_timeouts.
SweepGrant(f, a) ==
  /\ sweep # None /\ sweep.kind = "grant" /\ <<f, a>> \in sweep.pairs
  /\ IF f \in Live /\ ReclaimTrigger(records[f], a, sweep.tick) # None
       THEN /\ records' = [records EXCEPT ![f] =
                 ReclaimRecord(@, a, ReclaimTrigger(@, a, sweep.tick), sweep.tick)]
            /\ Revoked(f, a)
       ELSE UNCHANGED <<records, revoked>>
  /\ Visited(<<f, a>>)
  /\ UNCHANGED <<gone, heartbeat, now, issued>>

\* One round of the sweep loop reads the clock once and hands that tick to both
\* sweeps, so the tick a sweep works with may already be in the past.
StartTransientSweep == \E tick \in 0 .. now : StartSweep("transient", TransientPairs, tick)

StartGrantSweep == \E tick \in 0 .. now : StartSweep("grant", OwnerPairs, tick)

SweepNext ==
  \/ StartTransientSweep
  \/ StartGrantSweep
  \/ \E f \in Artifacts, a \in Agents : SweepTransient(f, a) \/ SweepGrant(f, a)

-----------------------------------------------------------------------------
AgentNext ==
  \/ \E f \in Artifacts, owner \in Agents \cup {None} : Register(f, owner)
  \/ \E a \in Agents, f \in Artifacts :
       \/ fetch(a, f)
       \/ write(a, f)
       \/ commit(a, f)
       \/ \E expected \in 1 .. MaxVersion : commit_cas(a, f, expected)
       \/ Release(a, f)
       \/ delete(a, f)
  \/ \E a \in Agents, F \in SUBSET Artifacts :
       \E expected \in [F -> 1 .. MaxVersion] : commit_all(a, F, expected)
  \/ \E a \in Agents : record_heartbeat(a)
  \/ \E s \in issued : DeliverInvalidation(s)

Next == AgentNext \/ SweepNext \/ Tick

Spec == Init /\ [][Next]_vars

-----------------------------------------------------------------------------
(* Properties.                                                             *)

\* At most one agent owns an artifact, and while it does nobody else holds a
\* valid copy: fetch downgrades the owner before it grants SHARED, and every
\* write and commit invalidates all peers (check_single_writer, strengthened).
ExclusiveOwner ==
  \A f \in Live : \A a \in Owners(records[f]), b \in valid_holders(records[f]) : a = b

\* An owner always carries the current ownership epoch, so the fence inside
\* commit never rejects an agent that passed the ownership check.
OwnerNotFenced ==
  \A f \in Live : \A a \in Owners(records[f]) :
    records[f].read_generation[a] = records[f].owner_generation

\* No agent holds a copy marked valid of a version that has been superseded:
\* the observation recorded with its grant is the current version.
ValidCopyIsCurrent ==
  \A f \in Live : \A a \in valid_holders(records[f]) :
    records[f].last_observed[a] = records[f].version

\* A transient that outlives a service call sits on an INVALID entry only, so
\* the transient-timeout sweep, which evicts, never evicts a granted copy.
TransientOnlyOnInvalid ==
  \A f \in Live : \A a \in Agents :
    records[f].transient[a] # None => records[f].state[a] = "INVALID"

\* What the directory records is coherent: one owner at most, who carries the
\* current claim, and no valid copy of a superseded version (fetch, write, commit
\* and their signals, in any order).
Coherent == ExclusiveOwner /\ OwnerNotFenced /\ ValidCopyIsCurrent

\* An agent whose write claim was revoked at an unmoved version (by a sweep or
\* by its own release) publishes nothing until it fetches or acquires again.
NoSilentRevoke ==
  [][\A f \in Live : records'[f] # None /\ records'[f].version # records[f].version
       => records'[f].last_writer \notin revoked[f]]_vars

\* No version is ever published over the head of an owner: whoever moves the
\* version is the owner, or there is none.
OwnerNotOvertaken ==
  [][\A f \in Live : records'[f] # None /\ records'[f].version # records[f].version
       => Owners(records[f]) \subseteq {records'[f].last_writer}]_vars

\* Who publishes is entitled to: neither a claim that was revoked nor an optimistic
\* commit beside another owner moves a version (the legs of commit_cas and
\* commit_all, and the owner check of commit).
OnlyEntitledPublish == NoSilentRevoke /\ OwnerNotOvertaken

\* However late, often or out of order a peer's signal is delivered, it takes
\* no valid copy away and moves no ownership epoch: all it may still do is
\* clear the transient of an INVALID entry (NoZombieRevoke).
LateSignalKeepsCopies ==
  [][(\E s \in issued : DeliverInvalidation(s))
       => \A f \in Live : /\ records'[f].state = records[f].state
                          /\ records'[f].owner_generation = records[f].owner_generation]_vars

\* The stable-grant sweep decides from a tick and a list of pairs that are out
\* of date by the time it acts, and still reclaims only from an agent that is
\* silent for too long, or that holds for too long, by the clock of that moment.
ReclaimOnlyStale ==
  [][\A f \in Live : \A a \in Owners(records[f]) :
       records'[f] # None /\ records'[f].last_reclamation[a] # None
         => HeartbeatStale(a, now) \/ HeldTooLong(records[f], a, now)]_vars

\* Every change of a stable state is one that the transition table allows
\* (core/states.py, VALID_TRANSITIONS).
TransitionsAreInTable ==
  [][\A f \in Live : \A a \in Agents :
       records'[f] # None /\ records'[f].state[a] # records[f].state[a]
         => <<records[f].state[a], records'[f].state[a]>> \in VALID_TRANSITIONS]_vars

\* The recorded grant tick is the tick at which the agent acquired its grant
\* (registry.py, granted_at_tick), which the max-hold limit is measured from.
GrantTickIsAcquireTick ==
  [][\A f \in Artifacts, a \in Agents :
       (/\ records'[f] # None /\ records'[f].state[a] \in M_OR_E_STATES
        /\ records[f] # None => records[f].state[a] \notin M_OR_E_STATES)
         => records'[f].granted_at[a] = now]_vars

\* What a sweep ends, and when it has ended.  (The bounded clock must have room.)
GrantDue(f, a) ==
  /\ f \in Live /\ records[f].state[a] \in M_OR_E_STATES
  /\ records[f].granted_at[a] + MaxHold <= MaxTick

GrantOver(f, a) == f \notin Live \/ records[f].state[a] \notin M_OR_E_STATES

TransientDue(f, a) ==
  /\ f \in Live /\ records[f].transient[a] # None
  /\ records[f].transient[a] + TransientTimeout <= MaxTick

TransientOver(f, a) == f \notin Live \/ records[f].transient[a] = None
-----------------------------------------------------------------------------
(* The inductive invariant behind the safety properties.                   *)

\* Records are well formed, a revoked claim is behind the epoch, and no signal
\* announces a version its artifact has not reached.
IndInv ==
  /\ TypeOK
  /\ \A f \in Live :
       /\ RecordInv(records[f])
       /\ \A a \in revoked[f] : StaleReadGeneration(records[f], a)
  /\ \A s \in issued : IF s.artifact \in Live
                         THEN s.version <= records[s.artifact].version
                         ELSE s.artifact \in gone
  /\ \A f \in gone : records[f] = None
  /\ \A f \in Artifacts : records[f] = None /\ f \notin gone => revoked[f] = {}
=============================================================================
