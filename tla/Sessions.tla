------------------------------ MODULE Sessions ------------------------------
(***************************************************************************)
(* Snapshot sessions of CoordinatorService (coordinator/service.py): a     *)
(* session pins a consistent cut of versions, reads and commits against    *)
(* it, keeps a heartbeat lease and is reaped when the lease or an absolute *)
(* age runs out.  Pins and the owner binding live in the registry, which   *)
(* survives a restart when it is the SQLite one (Durable); the service     *)
(* also keeps its own maps, which never do.                                *)
(*                                                                         *)
(* The traffic of the agents of module Coordinator appears here only as    *)
(* what a session can see of it: versions that move (singly or in a        *)
(* batch), ownership that comes and goes, and deletion.                    *)
(*                                                                         *)
(* A read or commit is three steps: get_session_cut, the owner check, the  *)
(* access itself.  They are separate registry calls, and anything may      *)
(* happen between them.  A call that is rejected simply ends.              *)
(***************************************************************************)
EXTENDS Retention

CONSTANTS
  Artifacts, Callers,
  Tokens,        \* session tokens; each is minted once
  Durable,       \* the registry survives a restart
  MaxSessions,   \* SessionCapsConfig.max_sessions
  MaxReadSet,    \* SessionCapsConfig.max_read_set_cardinality
  AbsoluteAge,   \* SessionCapsConfig.absolute_age_ticks
  LeaseTimeout,  \* heartbeat_timeout_ticks of the liveness sweep
  MaxVersion,    \* bound: nothing is published beyond this version
  MaxTick        \* bound: the clock stops here

ASSUME SessionAssumption ==
  /\ None \notin Callers
  /\ IsFiniteSet(Tokens) /\ Durable \in BOOLEAN
  /\ MaxSessions \in Nat \ {0} /\ MaxReadSet \in Nat \ {0}
  /\ AbsoluteAge \in Nat \ {0} /\ LeaseTimeout \in Nat \ {0}
  /\ MaxVersion \in Nat /\ MaxTick \in Nat

VARIABLES
  version,   \* artifact -> current version, 0 when there is no such artifact
  gone,      \* ids that were in use; an id is a fresh uuid, never reused
  owned,     \* artifacts some agent holds in MODIFIED or EXCLUSIVE
  rows,      \* artifact -> its retained bodies
  pins,      \* token -> its cut, as artifact -> version with 0 for unpinned
  meta,      \* token -> the registry's owner binding and creation tick
  owners,    \* token -> the service's owner binding
  lease,     \* token -> last heartbeat tick
  created,   \* token -> the service's creation tick
  call,      \* token -> the read or commit in progress
  now,       \* the callers' clock
  opened,    \* history: token -> who opened it, when, and the cut
  beat,      \* history: token -> tick of its opening or last accepted heartbeat
  captured,  \* history: artifact -> versions whose body was ever captured
  commits    \* history: winning session commits <<token, artifact, version>>

registry == <<version, gone, owned, rows, pins, meta>>
service == <<owners, lease, created>>
ghosts == <<opened, beat, captured, commits>>
vars == <<registry, service, call, now, ghosts>>

OptNat == Nat \cup {None}

Cut == [Artifacts -> Nat]

Meta == [owner : Callers, created : Nat]

Opening == [owner : Callers, created : Nat, cut : Cut]

Call == [op : {"read", "commit"}, caller : Callers, on : SUBSET Artifacts,
         cut : Cut \cup {None}, checked : BOOLEAN]

ASSUME NoneIsNoValue ==
  None \notin Cut /\ None \notin Meta /\ None \notin Opening /\ None \notin Call

TypeOK ==
  /\ version \in [Artifacts -> Nat]
  /\ gone \in SUBSET Artifacts
  /\ owned \in SUBSET Artifacts
  /\ rows \in [Artifacts -> SUBSET Row]
  /\ pins \in [Tokens -> Cut \cup {None}]
  /\ meta \in [Tokens -> Meta \cup {None}]
  /\ owners \in [Tokens -> Callers \cup {None}]
  /\ lease \in [Tokens -> OptNat]
  /\ created \in [Tokens -> OptNat]
  /\ call \in [Tokens -> Call \cup {None}]
  /\ now \in Nat
  /\ opened \in [Tokens -> Opening \cup {None}]
  /\ beat \in [Tokens -> OptNat]
  /\ captured \in [Artifacts -> SUBSET Nat]
  /\ commits \in SUBSET (Tokens \X Artifacts \X Nat)

Empty(D) == [x \in D |-> None]

Init ==
  /\ version = [f \in Artifacts |-> 0] /\ gone = {} /\ owned = {}
  /\ rows = [f \in Artifacts |-> {}]
  /\ pins = Empty(Tokens) /\ meta = Empty(Tokens)
  /\ owners = Empty(Tokens) /\ lease = Empty(Tokens) /\ created = Empty(Tokens)
  /\ call = Empty(Tokens)
  /\ now = 0
  /\ opened = Empty(Tokens) /\ beat = Empty(Tokens)
  /\ captured = [f \in Artifacts |-> {}]
  /\ commits = {}

-----------------------------------------------------------------------------
(* The registry.                                                           *)

Live == {f \in Artifacts : version[f] > 0}

LiveSessions == {t \in Tokens : meta[t] # None}

\* _live_pins_for_artifact: what the collector must leave alone.
live_pins_for_artifact(f) ==
  {pins[t][f] : t \in {u \in Tokens : pins[u] # None /\ pins[u][f] > 0}}

\* The members F move to their next version; B of them come with a body.
PublishAll(F, B) ==
  /\ version' = [f \in Artifacts |-> IF f \in F THEN version[f] + 1 ELSE version[f]]
  /\ rows' = [f \in Artifacts |->
                IF f \in F \cap B
                  THEN capture_version(rows[f], version[f] + 1, now, live_pins_for_artifact(f))
                  ELSE rows[f]]
  /\ captured' = [f \in Artifacts |->
                    IF f \in F \cap B THEN captured[f] \cup {version[f] + 1} ELSE captured[f]]

register_artifact(f, B) ==
  /\ f \notin Live /\ f \notin gone
  /\ PublishAll({f}, B)
  /\ UNCHANGED <<gone, owned, pins, meta, service, call, now, opened, beat, commits>>

\* A commit, commit_cas or commit_all of the agents.
AgentPublish(F, B) ==
  /\ F # {} /\ F \subseteq Live
  /\ \A f \in F : version[f] < MaxVersion
  /\ PublishAll(F, B)
  /\ UNCHANGED <<gone, owned, pins, meta, service, call, now, opened, beat, commits>>

AgentOwnership(f) ==
  /\ f \in Live
  /\ owned' = IF f \in owned THEN owned \ {f} ELSE owned \cup {f}
  /\ UNCHANGED <<version, gone, rows, pins, meta, service, call, now, ghosts>>

\* remove_artifact takes the record with its history; pins are left behind.
remove_artifact(f) ==
  /\ f \in Live
  /\ version' = [version EXCEPT ![f] = 0]
  /\ gone' = gone \cup {f}
  /\ owned' = owned \ {f}
  /\ rows' = [rows EXCEPT ![f] = {}]
  /\ UNCHANGED <<pins, meta, service, call, now, ghosts>>

-----------------------------------------------------------------------------
(* Opening, keeping and losing a session.                                  *)

\* Mutant: the cap counts the service's own bindings.
SessionCount_ServiceOnly == Cardinality({t \in Tokens : owners[t] # None})

\* session_count: every open session has one row, whoever opened it and
\* whether or not the service has restarted since.
SessionCount == Cardinality(LiveSessions)

CutOf(F) == [f \in Artifacts |-> IF f \in F THEN version[f] ELSE 0]

\* Versions are read and pinned, and the owner bound, in one registry step; an
\* unknown id rejects the whole capture.
capture_version_vector(t, caller, F, at) ==
  /\ F \subseteq Live
  /\ pins' = [pins EXCEPT ![t] = CutOf(F)]
  /\ meta' = [meta EXCEPT ![t] = [owner |-> caller, created |-> at]]

CapsAllow(F) == Cardinality(F) <= MaxReadSet /\ SessionCount < MaxSessions

\* Runs under the session lock from the cap check to the lease.  The tick is the
\* caller's: one it read before the call, when the call was queued.
begin_session(t, caller, F, at) ==
  /\ opened[t] = None
  /\ CapsAllow(F)
  /\ capture_version_vector(t, caller, F, at)
  /\ owners' = [owners EXCEPT ![t] = caller]
  /\ lease' = [lease EXCEPT ![t] = at]
  /\ created' = [created EXCEPT ![t] = at]
  /\ beat' = [beat EXCEPT ![t] = at]
  /\ opened' = [opened EXCEPT ![t] = [owner |-> caller, created |-> at, cut |-> CutOf(F)]]
  /\ UNCHANGED <<version, gone, owned, rows, call, now, captured, commits>>

\* The service's binding, or else the registry's.
BoundOwner(t) ==
  IF owners[t] # None THEN owners[t]
  ELSE IF meta[t] # None THEN meta[t].owner ELSE None

\* Mutant: a session adopted after a restart starts a new life.
AdoptedCreation_Now(t) == now

\* The creation tick under which a heartbeat adopts a session that outlived
\* the service that opened it.
AdoptedCreation(t) == meta[t].created

\* Heartbeats may be recorded out of order; an older one moves nothing.
Later(old, at) == IF old = None \/ old < at THEN at ELSE old

record_session_heartbeat(t, caller, at) ==
  /\ BoundOwner(t) = caller
  /\ owners' = [owners EXCEPT ![t] = caller]
  /\ created' = [created EXCEPT ![t] = IF owners[t] = None THEN AdoptedCreation(t) ELSE @]
  /\ lease' = [lease EXCEPT ![t] = Later(lease[t], at)]
  /\ beat' = [beat EXCEPT ![t] = IF @ = None \/ @ < at THEN at ELSE @]
  /\ UNCHANGED <<registry, call, now, opened, captured, commits>>

release_session(t) ==
  /\ pins' = [pins EXCEPT ![t] = None]
  /\ meta' = [meta EXCEPT ![t] = None]

drop_service_state(t) ==
  /\ owners' = [owners EXCEPT ![t] = None]
  /\ lease' = [lease EXCEPT ![t] = None]
  /\ created' = [created EXCEPT ![t] = None]

LeaseStale(t) == lease[t] = None \/ now - lease[t] >= LeaseTimeout

OverAge(birth) == birth = None \/ now - birth >= AbsoluteAge

\* Mutant: a survivor without a lease counts as stale.
ReapDue_LeaselessIsStale(t) ==
  /\ owners[t] # None \/ meta[t] # None
  /\ LeaseStale(t) \/ OverAge(created[t])

\* A session the service does not know has no lease to be stale: only its age
\* counts, from the creation tick the registry kept.
ReapDue(t) ==
  \/ owners[t] # None /\ (LeaseStale(t) \/ OverAge(created[t]))
  \/ owners[t] = None /\ meta[t] # None /\ OverAge(meta[t].created)

\* enforce_session_liveness, one token of its walk.  The whole walk holds the
\* session lock, so no other session call sees a token half reaped.  A sweep
\* whose tick is already past reaps no token that is not due now.
Reap(t) ==
  /\ ReapDue(t)
  /\ release_session(t)
  /\ drop_service_state(t)
  /\ UNCHANGED <<version, gone, owned, rows, call, now, ghosts>>

-----------------------------------------------------------------------------
(* Reads and commits against the cut.                                      *)

\* get_session_cut.  SQLite keeps one row per pin, so an empty cut has none.
get_session_cut(t) ==
  IF Durable /\ pins[t] # None /\ \A f \in Artifacts : pins[t][f] = 0 THEN None
  ELSE pins[t]

StartCall(t, op, caller, F) ==
  /\ opened[t] # None /\ call[t] = None
  /\ F # {}
  /\ call' = [call EXCEPT ![t] = [op |-> op, caller |-> caller, on |-> F,
                                  cut |-> get_session_cut(t), checked |-> FALSE]]
  /\ UNCHANGED <<registry, service, now, ghosts>>

\* Mutant: pins without an owner are served to anyone.
Admitted_Ownerless(t, c) ==
  /\ BoundOwner(t) \in {c.caller, None}
  /\ c.cut # None
  /\ \A f \in c.on : c.cut[f] > 0

\* _validate_session_owner and the checks on the cut that follow it.
Admitted(t, c) ==
  /\ BoundOwner(t) = c.caller
  /\ c.cut # None
  /\ \A f \in c.on : c.cut[f] > 0

CheckCall(t) ==
  /\ call[t] # None /\ ~call[t].checked
  /\ call' = [call EXCEPT ![t] = IF Admitted(t, @) THEN [@ EXCEPT !.checked = TRUE] ELSE None]
  /\ UNCHANGED <<registry, service, now, ghosts>>

Ready(t, op) == call[t] # None /\ call[t].checked /\ call[t].op = op

\* The read is answered: with the pinned body, or by deferral to the data plane
\* when the coordinator holds none.
session_read(t) ==
  /\ Ready(t, "read")
  /\ call' = [call EXCEPT ![t] = None]
  /\ UNCHANGED <<registry, service, now, ghosts>>

\* What a read of an old version is answered, in the code's order of checks.  A
\* row past the age limit reads as collected before it is; the store's epoch is
\* its identity, and an id never outlives its store.
read_at_version(f, v) ==
  LET aged == collectible_versions({r \in rows[f] : r.version = v}, version[f], now, {})
  IN  CASE f \notin Live -> "unknown_artifact"
        [] f \in Live /\ v = version[f] -> "current_version"
        [] f \in Live /\ v > version[f] -> "future_version"
        [] f \in Live /\ v < version[f] ->
             IF v \in Versions(rows[f]) \ aged THEN "content" ELSE "not_retained"

\* commit_cas and commit_all at the pinned versions, by a committer that has no
\* claim of its own.
CutWins(c) ==
  \A f \in c.on : f \in Live /\ c.cut[f] = version[f] /\ f \notin owned

\* session_commit (one member) and session_commit_all.
session_commit(t) ==
  /\ Ready(t, "commit")
  /\ call' = [call EXCEPT ![t] = None]
  /\ IF CutWins(call[t])
       THEN /\ \A f \in call[t].on : version[f] < MaxVersion
            /\ PublishAll(call[t].on, call[t].on)
            /\ commits' = commits \cup {<<t, f, version[f]>> : f \in call[t].on}
       ELSE UNCHANGED <<version, rows, captured, commits>>
  /\ UNCHANGED <<gone, owned, pins, meta, service, now, opened, beat>>

-----------------------------------------------------------------------------
Tick ==
  /\ now < MaxTick
  /\ now' = now + 1
  /\ UNCHANGED <<registry, service, call, ghosts>>

\* The coordinator process ends and a new one opens the store.
Restart ==
  /\ owners' = Empty(Tokens) /\ lease' = Empty(Tokens) /\ created' = Empty(Tokens)
  /\ call' = Empty(Tokens)
  /\ IF Durable THEN UNCHANGED registry
     ELSE /\ version' = [f \in Artifacts |-> 0]
          /\ gone' = gone \cup Live
          /\ owned' = {}
          /\ rows' = [f \in Artifacts |-> {}]
          /\ pins' = Empty(Tokens) /\ meta' = Empty(Tokens)
  /\ UNCHANGED <<now, ghosts>>

\* One step of the agents, in which the artifacts B come with a body.
AgentStep(B) ==
  \/ \E f \in Artifacts : register_artifact(f, B)
  \/ \E F \in SUBSET Artifacts : AgentPublish(F, B)
  \/ \E f \in Artifacts : AgentOwnership(f) \/ remove_artifact(f)

SessionStep(t) ==
  \/ \E caller \in Callers, F \in SUBSET Artifacts : begin_session(t, caller, F, now)
  \/ \E caller \in Callers : record_session_heartbeat(t, caller, now)
  \/ Reap(t)

CallStep(t) ==
  \/ \E caller \in Callers, f \in Artifacts : StartCall(t, "read", caller, {f})
  \/ \E caller \in Callers, F \in SUBSET Artifacts : StartCall(t, "commit", caller, F)
  \/ CheckCall(t)
  \/ session_read(t)
  \/ session_commit(t)

Next ==
  \/ \E B \in SUBSET Artifacts : AgentStep(B)
  \/ \E t \in Tokens : SessionStep(t) \/ CallStep(t)
  \/ Tick
  \/ Restart

Spec == Init /\ [][Next]_vars

-----------------------------------------------------------------------------
(* Properties.                                                             *)

\* The number of open sessions, survivors of a restart included, never exceeds
\* the cap, so what sessions keep from the collector is bounded.
SessionCap == Cardinality(LiveSessions) <= MaxSessions

\* A body that was captured for a version a session has pinned stays retained
\* for as long as the session and the artifact exist, whatever is published.
PinnedBodyKept ==
  \A t \in Tokens, f \in Artifacts :
    pins[t] # None /\ f \in Live /\ pins[t][f] \in captured[f]
      => pins[t][f] \in Versions(rows[f])

\* Only the caller that opened the session gets past the owner check, even when
\* the session is reaped or the service restarts between the two lookups.
OnlyOwnerAdmitted ==
  \A t \in Tokens :
    call[t] # None /\ call[t].checked => call[t].caller = opened[t].owner

\* A session publishes each artifact at most once, and always on top of the
\* version it pinned: a second commit finds the version moved.
OneCommitPerPin ==
  \A c \in commits : c[3] = opened[c[1]].cut[c[2]]

\* A session's cut is what it reads and commits against, to its end: the pinned
\* bodies are there, and what it commits goes on top of them (the pins that
\* collection spares, and the comparand of session_commit).
PinsAreHonoured == PinnedBodyKept /\ OneCommitPerPin

\* As long as no body can be past the age limit, an old version whose body was
\* captured can be read until MaxVersions newer bodies were captured: neither the
\* pins that come and go nor the versions published without a body bring its
\* collection forward.
ReadableHistory ==
  MaxVersions # None /\ (MaxAge = None \/ now <= MaxAge)
    => \A f \in Live : \A v \in captured[f] :
         v < version[f] /\ Cardinality({u \in captured[f] : u > v}) < MaxVersions
           => read_at_version(f, v) = "content"

\* The retained history of an artifact is bounded by the policy and the cap.
HistoryBounded ==
  MaxVersions # None
    => \A f \in Artifacts : Cardinality(rows[f]) <= MaxVersions + MaxSessions

\* Retention keeps what the policy promises, and no more than the policy and the
\* pins account for (collectible_versions).
RetentionIsExact == HistoryBounded /\ ReadableHistory

\* A session is taken away from its owner only by a restart of an in-memory
\* coordinator, at the age limit counted from its opening, or when the owner has
\* not been heard of for a lease: no restart, adoption or sweep shortens either.
ReapedOnlyWhenDue ==
  [][\A t \in Tokens : meta[t] # None /\ meta'[t] = None
       => \/ ~Durable /\ Restart
          \/ now - beat[t] >= LeaseTimeout
          \/ now - opened[t].created >= AbsoluteAge]_vars
-----------------------------------------------------------------------------
(* The inductive invariant.                                                *)

\* Pins and binding come and go together and are what the session opened with;
\* so are the service's entries, up to the last heartbeat;
\* a call works on the pinned cut, an admitted one for the owner.
SessionInv(t) ==
  /\ (pins[t] = None) <=> (meta[t] = None)
  /\ opened[t] = None => pins[t] = None /\ owners[t] = None /\ call[t] = None
  /\ pins[t] # None => /\ pins[t] = opened[t].cut
                       /\ meta[t].owner = opened[t].owner
                       /\ meta[t].created = opened[t].created
                       /\ beat[t] # None
  /\ owners[t] # None => /\ owners[t] = opened[t].owner
                         /\ created[t] = opened[t].created
                         /\ lease[t] = beat[t]
  /\ owners[t] = None => lease[t] = None
  /\ beat[t] # None => beat[t] <= now
  /\ call[t] # None /\ call[t].cut # None => call[t].cut = opened[t].cut
  /\ call[t] # None /\ call[t].checked => /\ call[t].caller = opened[t].owner
                                          /\ call[t].cut # None

\* Captured versions were published; an id never used has none, a deleted
\* one retains none; the current body, if it was captured, is retained.  There is
\* one row per retained version.
HistoryInv(f) ==
  /\ \A v \in captured[f] : 0 < v /\ (f \in Live => v <= version[f])
  /\ f \notin Live => rows[f] = {}
  /\ f \notin Live /\ f \notin gone => captured[f] = {}
  /\ f \in Live /\ version[f] \in captured[f] => version[f] \in Versions(rows[f])
  /\ IsFiniteSet(rows[f]) /\ IsFiniteSet(captured[f])
  /\ \A r \in rows[f] : r.version \in captured[f]
  /\ \A q, r \in rows[f] : q.version = r.version => q = r

\* TypeOK, the three facts above, and that commits belong to opened sessions.
SessionsInv ==
  /\ TypeOK
  /\ \A t \in Tokens : SessionInv(t)
  /\ \A f \in Artifacts : HistoryInv(f)
  /\ PinnedBodyKept
  /\ \A c \in commits : opened[c[1]] # None
  /\ OneCommitPerPin
=============================================================================
