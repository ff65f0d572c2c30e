--------------------------- MODULE SessionsProofs ---------------------------
(***************************************************************************)
(* Sessions: the calls of a session, the inductive invariant and what      *)
(* follows from it, how many sessions are open, when the sweep takes one,  *)
(* how much history the artifacts retain and which versions a reader still *)
(* finds, for every value of the constants.                                *)
(***************************************************************************)
EXTENDS SessionStepsProofs

-----------------------------------------------------------------------------
(* The calls of a session.                                                 *)

\* A step that only rewrites the call of one token.
LEMMA CallFrame ==
  ASSUME SessionsInv, NEW t \in Tokens, NEW c \in Call \cup {None},
         call' = [call EXCEPT ![t] = c],
         UNCHANGED <<pins, meta, service, now, opened, beat>>,
         c # None => /\ opened[t] # None
                     /\ c.cut # None => c.cut = opened[t].cut
                     /\ c.checked => c.caller = opened[t].owner /\ c.cut # None
  PROVE  \A u \in Tokens : SessionInv(u)'
<1> USE DEF service
<1>0. TypeOK
  BY SMTT(60) DEF SessionsInv
<1>1. call'[t] = c /\ \A u \in Tokens : u # t => call'[u] = call[u]
  BY <1>0 DEF TypeOK
<1>2. SUFFICES ASSUME NEW u \in Tokens PROVE SessionInv(u)'
  OBVIOUS
<1>3. CASE u = t
  <2>1. SessionInv(t)
    BY SMTT(60) DEF SessionsInv
  <2> QED
    BY SMTT(60), <1>1, <1>3, <2>1 DEF SessionInv
<1>4. CASE u # t
  BY SMTT(60), <1>0, <1>1, <1>4, SessionFrame DEF SessionsInv, TypeOK
<1> QED
  BY SMTT(60), <1>3, <1>4

\* A call starts with the cut the session opened with, or with none.
LEMMA StartCallStep ==
  ASSUME SessionsInv, NEW t \in Tokens, NEW op \in {"read", "commit"},
         NEW caller \in Callers, NEW F \in SUBSET Artifacts, StartCall(t, op, caller, F)
  PROVE  SessionsInv'
<1> DEFINE c == [op |-> op, caller |-> caller, on |-> F, cut |-> get_session_cut(t),
                 checked |-> FALSE]
<1>0. TypeOK /\ SessionInv(t)
  BY SMTT(60) DEF SessionsInv
<1>1. call' = [call EXCEPT ![t] = c] /\ opened[t] # None
      /\ UNCHANGED <<registry, service, now, ghosts>>
  BY ZenonT(60) DEF StartCall
<1>2. get_session_cut(t) = None \/ get_session_cut(t) = pins[t]
  BY DEF get_session_cut
<1>3. get_session_cut(t) \in Cut \cup {None}
  BY <1>0, <1>2 DEF TypeOK
<1>4. c \in Call /\ ~c.checked /\ c.cut = get_session_cut(t)
  BY SMTT(60), <1>3 DEF Call
<1>5. c.cut # None => c.cut = opened[t].cut
  BY SMTT(60), <1>0, <1>2, <1>4 DEF SessionInv
<1> HIDE DEF c
<1>6. TypeOK'
  BY SMTT(60), <1>0, <1>1, <1>4 DEF TypeOK, registry, service, ghosts
<1>7. \A u \in Tokens : SessionInv(u)'
  BY ZenonT(60), <1>1, <1>4, <1>5, CallFrame DEF registry, ghosts
<1> QED
  BY ZenonT(60), <1>1, <1>6, <1>7, HistoryFrame, CommitFrame DEF SessionsInv, registry, ghosts

\* The owner check admits the opener: the bound owner is the opener's whenever
\* there is one.
LEMMA CheckCallStep ==
  ASSUME SessionsInv, NEW t \in Tokens, CheckCall(t)
  PROVE  SessionsInv'
<1> DEFINE c == IF Admitted(t, call[t]) THEN [call[t] EXCEPT !.checked = TRUE] ELSE None
<1>0. TypeOK /\ SessionInv(t)
  BY DEF SessionsInv
<1>1. call' = [call EXCEPT ![t] = c] /\ call[t] # None
      /\ UNCHANGED <<registry, service, now, ghosts>>
  BY DEF CheckCall
<1>2. call[t] \in Call /\ opened[t] # None
  BY <1>0, <1>1 DEF TypeOK, SessionInv
<1>3. c \in Call \cup {None}
  BY ZenonT(60), <1>2 DEF Call
<1>4. ASSUME c # None
      PROVE  /\ Admitted(t, call[t])
             /\ c.cut = call[t].cut /\ c.caller = call[t].caller
  BY <1>2, <1>4 DEF Call
<1> HIDE DEF c
<1>5. ASSUME Admitted(t, call[t])
      PROVE  call[t].cut # None /\ call[t].caller = opened[t].owner
  <2>1. BoundOwner(t) = call[t].caller /\ call[t].caller \in Callers /\ call[t].cut # None
    BY <1>2, <1>5 DEF Admitted, Call
  <2>2. BoundOwner(t) # None
    BY SMTT(60), <2>1, SessionAssumption
  <2>3. BoundOwner(t) = opened[t].owner
    BY SMTT(60), <2>2, <1>0 DEF BoundOwner, SessionInv
  <2> QED
    BY <2>1, <2>3
<1>6. c # None => /\ opened[t] # None
                  /\ c.cut # None => c.cut = opened[t].cut
                  /\ c.checked => c.caller = opened[t].owner /\ c.cut # None
  BY SMTT(60), <1>0, <1>1, <1>2, <1>4, <1>5 DEF SessionInv
<1>7. TypeOK'
  BY SMTT(60), <1>0, <1>1, <1>3 DEF TypeOK, registry, service, ghosts
<1>8. \A u \in Tokens : SessionInv(u)'
  BY ZenonT(60), <1>1, <1>3, <1>6, CallFrame DEF registry, ghosts
<1> QED
  BY ZenonT(60), <1>1, <1>7, <1>8, HistoryFrame, CommitFrame DEF SessionsInv, registry, ghosts

\* A served read changes nothing but ends the call.
LEMMA ReadStep ==
  ASSUME SessionsInv, NEW t \in Tokens, session_read(t)
  PROVE  SessionsInv'
<1>0. TypeOK
  BY DEF SessionsInv
<1>1. call' = [call EXCEPT ![t] = None] /\ UNCHANGED <<registry, service, now, ghosts>>
  BY SMTT(60) DEF session_read
<1>2. TypeOK'
  BY SMTT(60), <1>0, <1>1 DEF TypeOK, registry, service, ghosts
<1>3. \A u \in Tokens : SessionInv(u)'
  BY ZenonT(60), <1>1, CallFrame DEF registry, ghosts
<1> QED
  BY ZenonT(60), <1>1, <1>2, <1>3, HistoryFrame, CommitFrame DEF SessionsInv, registry, ghosts

\* A publication by the session itself, on top of the versions it pinned.
LEMMA CommitAtPin ==
  ASSUME SessionsInv, NEW t \in Tokens, opened[t] # None, NEW F \in SUBSET Artifacts,
         \A f \in F : f \in Live /\ opened[t].cut[f] = version[f],
         PublishAll(F, F),
         commits' = commits \cup {<<t, f, version[f]>> : f \in F},
         UNCHANGED <<gone, owned, pins, meta, service, now, opened, beat>>,
         call' \in [Tokens -> Call \cup {None}], \A u \in Tokens : SessionInv(u)'
  PROVE  SessionsInv'
<1>0. TypeOK
  BY SMTT(60) DEF SessionsInv
<1>1. commits' \in SUBSET (Tokens \X Artifacts \X Nat)
  BY SMTT(60), <1>0 DEF TypeOK
<1>2. TypeOK'
  BY ZenonT(60), <1>0, <1>1, PublishType DEF TypeOK, service
<1>3. (\A f \in Artifacts : HistoryInv(f)') /\ PinnedBodyKept'
  BY SMTT(60), PublishKeeps
<1>4. ASSUME NEW c \in commits'
      PROVE  opened'[c[1]] # None /\ c[3] = opened'[c[1]].cut[c[2]]
  <2>1. CASE c \in commits
    BY SMTT(60), <2>1 DEF SessionsInv, OneCommitPerPin
  <2>2. CASE c \in {<<t, f, version[f]>> : f \in F}
    <3>1. PICK f \in F : c = <<t, f, version[f]>>
      BY SMTT(60), <2>2
    <3>2. c[1] = t /\ c[2] = f /\ c[3] = version[f]
      BY SMTT(60), <3>1
    <3> QED
      BY SMTT(60), <3>2
  <2> QED
    BY SMTT(60), <2>1, <2>2
<1> QED
  BY SMTT(60), <1>2, <1>3, <1>4 DEF SessionsInv, OneCommitPerPin

\* A session commit publishes on top of the pinned version or not at all.
LEMMA SessionCommitStep ==
  ASSUME SessionsInv, NEW t \in Tokens, session_commit(t)
  PROVE  SessionsInv'
<1> DEFINE F == call[t].on
<1>0. TypeOK /\ SessionInv(t)
  BY DEF SessionsInv
<1>1. /\ call[t] # None /\ call[t].checked
      /\ call' = [call EXCEPT ![t] = None]
      /\ UNCHANGED <<gone, owned, pins, meta, service, now, opened, beat>>
  BY SMTT(60) DEF session_commit, Ready
<1>2. call[t] \in Call /\ F \in SUBSET Artifacts /\ opened[t] # None
  BY <1>0, <1>1 DEF TypeOK, Call, SessionInv
<1>3. (\A u \in Tokens : SessionInv(u)') /\ call' \in [Tokens -> Call \cup {None}]
  <2>1. call' \in [Tokens -> Call \cup {None}]
    BY SMTT(60), <1>0, <1>1 DEF TypeOK
  <2> QED
    BY ZenonT(60), <1>1, <2>1, CallFrame
<1>4. CASE ~CutWins(call[t])
  <2>1. UNCHANGED <<version, rows, captured, commits>>
    BY ZenonT(60), <1>4 DEF session_commit
  <2>2. TypeOK'
    BY ZenonT(60), <1>0, <1>1, <1>3, <2>1 DEF TypeOK, service
  <2> QED
    BY ZenonT(60), <1>1, <1>3, <2>1, <2>2, HistoryFrame, CommitFrame DEF SessionsInv
<1>5. CASE CutWins(call[t])
  <2>1. /\ PublishAll(F, F)
        /\ commits' = commits \cup {<<t, f, version[f]>> : f \in F}
    BY ZenonT(60), <1>5 DEF session_commit
  <2>2. \A f \in F : f \in Live /\ opened[t].cut[f] = version[f]
    BY SMTT(60), <1>0, <1>1, <1>5 DEF CutWins, SessionInv
  <2> HIDE DEF F
  <2> QED
    BY SMTT(60), <1>1, <1>2, <1>3, <2>1, <2>2, CommitAtPin
<1> QED
  BY SMTT(60), <1>4, <1>5

\* The clock only moves forward.
LEMMA TickStep ==
  ASSUME SessionsInv, Tick
  PROVE  SessionsInv'
<1> USE DEF Tick, registry, service, ghosts
<1>1. TypeOK'
  BY DEF SessionsInv, TypeOK
<1>2. now' \in Nat /\ now <= now'
  BY SMTT(60) DEF SessionsInv, TypeOK
<1>3. \A t \in Tokens : SessionInv(t)'
  BY <1>2, SessionFrame DEF SessionsInv
<1> QED
  BY SMTT(60), <1>1, <1>3, HistoryFrame, CommitFrame DEF SessionsInv

\* A restart clears the service, and with an in-memory registry everything.
LEMMA RestartStep ==
  ASSUME SessionsInv, Restart
  PROVE  SessionsInv'
<1> USE DEF ghosts
<1>0. TypeOK
  BY DEF SessionsInv
<1>1. /\ \A t \in Tokens : /\ owners'[t] = None /\ lease'[t] = None
                            /\ created'[t] = None /\ call'[t] = None
      /\ owners' \in [Tokens -> {None}] /\ lease' \in [Tokens -> {None}]
      /\ created' \in [Tokens -> {None}] /\ call' \in [Tokens -> {None}]
      /\ UNCHANGED <<now, opened, beat, captured, commits>>
  BY SMTT(60) DEF Restart, Empty
<1>2. CASE Durable
  <2>1. UNCHANGED registry
    BY SMTT(60), <1>2 DEF Restart
  <2>2. TypeOK'
    BY SMTT(60), <1>0, <1>1, <2>1 DEF TypeOK, registry, OptNat
  <2>3. ASSUME NEW t \in Tokens PROVE SessionInv(t)'
    <3>1. SessionInv(t) /\ UNCHANGED <<pins, meta>>
      BY <2>1 DEF SessionsInv, registry
    <3> QED
      BY SMTT(60), <1>1, <3>1 DEF SessionInv
  <2> QED
    BY SMTT(60), <1>1, <2>1, <2>2, <2>3, HistoryFrame, CommitFrame DEF SessionsInv, registry
<1>3. CASE ~Durable
  <2>1. /\ version' = [f \in Artifacts |-> 0] /\ gone' = gone \cup Live /\ owned' = {}
        /\ rows' = [f \in Artifacts |-> {}]
        /\ \A t \in Tokens : pins'[t] = None /\ meta'[t] = None
        /\ pins' \in [Tokens -> {None}] /\ meta' \in [Tokens -> {None}]
    BY <1>3 DEF Restart, Empty
  <2>2. Live \subseteq Artifacts /\ Live' = {}
    BY SMTT(60), <2>1 DEF Live
  <2>3. TypeOK'
    BY SMTT(60), <1>0, <1>1, <2>1, <2>2 DEF TypeOK, OptNat
  <2>4. ASSUME NEW t \in Tokens PROVE SessionInv(t)'
    <3>1. SessionInv(t) /\ pins'[t] = None /\ meta'[t] = None
      BY SMTT(60), <2>1 DEF SessionsInv
    <3> QED
      BY SMTT(60), <1>1, <3>1 DEF SessionInv
  <2>5. ASSUME NEW f \in Artifacts PROVE HistoryInv(f)'
    <3>1. HistoryInv(f) /\ captured' = captured
      BY ZenonT(60), <1>1 DEF SessionsInv
    <3>2. rows'[f] = {} /\ (f \in Live \/ f \in gone => f \in gone') /\ f \notin Live'
      BY ZenonT(60), <2>1, <2>2
    <3> QED
      BY SMTT(60), <3>1, <3>2, FS_EmptySet DEF HistoryInv
  <2>6. PinnedBodyKept'
    BY SMTT(60), <2>1 DEF PinnedBodyKept
  <2> QED
    BY ZenonT(60), <1>1, <2>3, <2>4, <2>5, <2>6, CommitFrame DEF SessionsInv
<1> QED
  BY <1>2, <1>3

\* A fresh coordinator satisfies the invariant.
LEMMA InitInv == Init => SessionsInv
<1> SUFFICES ASSUME Init PROVE SessionsInv
  OBVIOUS
<1> USE DEF Init, Empty
<1>1. TypeOK
  BY SMTT(60) DEF TypeOK, OptNat
<1>2. \A t \in Tokens : SessionInv(t)
  BY SMTT(60) DEF SessionInv
<1>3. \A f \in Artifacts : HistoryInv(f)
  BY FS_EmptySet DEF HistoryInv, Live
<1> QED
  BY <1>1, <1>2, <1>3 DEF SessionsInv, PinnedBodyKept, OneCommitPerPin

\* Every step of the service, the sweep, the agents and the clock preserves it.
LEMMA NextInv == SessionsInv /\ [Next]_vars => SessionsInv'
<1> SUFFICES ASSUME SessionsInv, [Next]_vars PROVE SessionsInv'
  OBVIOUS
<1>1. ASSUME NEW B \in SUBSET Artifacts, AgentStep(B) PROVE SessionsInv'
  <2>1. ASSUME NEW f \in Artifacts, register_artifact(f, B) PROVE SessionsInv'
    BY <2>1, AgentPublishStep DEF register_artifact
  <2>2. ASSUME NEW F \in SUBSET Artifacts, AgentPublish(F, B) PROVE SessionsInv'
    BY SMTT(60), <2>2, AgentPublishStep DEF AgentPublish
  <2> QED
    BY <1>1, <2>1, <2>2, AgentOtherStep DEF AgentStep
<1>2. ASSUME NEW t \in Tokens, SessionStep(t) PROVE SessionsInv'
  <2>1. now \in Nat /\ now <= now /\ (beat[t] = None \/ beat[t] <= now)
    BY SMTT(60) DEF SessionsInv, SessionInv, TypeOK
  <2> QED
    BY SMTT(60), <1>2, <2>1, BeginStep, HeartbeatStep, ReapStep DEF SessionStep
<1>3. ASSUME NEW t \in Tokens, CallStep(t) PROVE SessionsInv'
  <2>1. ASSUME NEW caller \in Callers, NEW f \in Artifacts, StartCall(t, "read", caller, {f})
        PROVE  SessionsInv'
    BY <2>1, StartCallStep
  <2>2. ASSUME NEW caller \in Callers, NEW F \in SUBSET Artifacts,
               StartCall(t, "commit", caller, F)
        PROVE  SessionsInv'
    BY SMTT(60), <2>2, StartCallStep
  <2> QED
    BY ZenonT(60), <1>3, <2>1, <2>2, CheckCallStep, ReadStep, SessionCommitStep DEF CallStep
<1>4. CASE UNCHANGED vars
  <2> USE <1>4 DEF vars, registry, service, ghosts
  <2>1. TypeOK' /\ now <= now'
    BY SMTT(60) DEF SessionsInv, TypeOK
  <2>2. \A t \in Tokens : SessionInv(t)'
    BY SMTT(60), <2>1, SessionFrame DEF SessionsInv, TypeOK
  <2> QED
    BY SMTT(60), <2>1, <2>2, HistoryFrame, CommitFrame DEF SessionsInv
<1> QED
  BY <1>1, <1>2, <1>3, <1>4, TickStep, RestartStep DEF Next

-----------------------------------------------------------------------------
(* Theorems.                                                               *)

\* The inductive invariant holds of every behaviour of the session service.
THEOREM SessionsInvariance == Spec => []SessionsInv
<1> QED
  BY InitInv, NextInv, PTL DEF Spec

\* The collector never takes a captured body that a live session has pinned.
THEOREM PinnedBodiesAreKept == Spec => []PinnedBodyKept
<1>1. SessionsInv => PinnedBodyKept
  BY SMTT(60) DEF SessionsInv
<1> QED
  BY <1>1, SessionsInvariance, PTL

\* Nobody but the opener of a session gets past _validate_session_owner.
THEOREM OnlyOwnersAreAdmitted == Spec => []OnlyOwnerAdmitted
<1>1. SessionsInv => OnlyOwnerAdmitted
  BY ZenonT(60) DEF SessionsInv, SessionInv, OnlyOwnerAdmitted
<1> QED
  BY <1>1, SessionsInvariance, PTL

\* Session commits are published on top of the pinned version only.
THEOREM CommitsAreAtThePin == Spec => []OneCommitPerPin
<1>1. SessionsInv => OneCommitPerPin
  BY DEF SessionsInv
<1> QED
  BY <1>1, SessionsInvariance, PTL

\* A session reads and commits against its cut until it is released.
THEOREM CutsAreHonoured == Spec => []PinsAreHonoured
<1>1. PinnedBodyKept /\ OneCommitPerPin => PinsAreHonoured
  BY DEF PinsAreHonoured
<1> QED
  BY <1>1, PinnedBodiesAreKept, CommitsAreAtThePin, PTL

-----------------------------------------------------------------------------
(* The session cap and the sweep.                                          *)

\* Only begin_session adds an open session, and a step adds at most one.
LEMMA LiveSessionsStep ==
  ASSUME SessionsInv, [Next]_vars
  PROVE  \/ LiveSessions' \subseteq LiveSessions
         \/ \E t \in Tokens : /\ SessionCount < MaxSessions
                             /\ LiveSessions' \subseteq LiveSessions \cup {t}
<1>0. TypeOK
  BY DEF SessionsInv
<1> USE DEF LiveSessions
<1>1. CASE UNCHANGED meta
  BY SMTT(60), <1>1
<1>2. ASSUME NEW t \in Tokens, NEW caller \in Callers, NEW F \in SUBSET Artifacts,
             begin_session(t, caller, F, now)
      PROVE  /\ SessionCount < MaxSessions
             /\ LiveSessions' \subseteq LiveSessions \cup {t}
  BY SMTT(60), <1>0, <1>2 DEF begin_session, CapsAllow, capture_version_vector, TypeOK
<1>3. ASSUME NEW t \in Tokens, Reap(t)
      PROVE  LiveSessions' \subseteq LiveSessions
  BY <1>0, <1>3 DEF Reap, release_session, TypeOK
<1>4. CASE Restart
  <2>1. UNCHANGED meta \/ \A t \in Tokens : meta'[t] = None
    BY SMTT(60), <1>4 DEF Restart, Empty, registry
  <2> QED
    BY <2>1
<1>5. ASSUME NEW B, AgentStep(B) PROVE UNCHANGED meta
  BY ZenonT(60), <1>5 DEF AgentStep, register_artifact, AgentPublish, AgentOwnership, remove_artifact
<1>6. ASSUME NEW t \in Tokens, NEW caller \in Callers, record_session_heartbeat(t, caller, now)
      PROVE  UNCHANGED meta
  BY <1>6 DEF record_session_heartbeat, Later, registry
<1>7. ASSUME NEW t \in Tokens, CallStep(t) PROVE UNCHANGED meta
  BY <1>7 DEF CallStep, StartCall, CheckCall, session_read, session_commit, registry
<1>8. CASE Tick \/ UNCHANGED vars
  BY <1>8 DEF Tick, vars, registry
<1>9. ASSUME NEW t \in Tokens, SessionStep(t)
      PROVE  \/ UNCHANGED meta
             \/ LiveSessions' \subseteq LiveSessions
             \/ /\ SessionCount < MaxSessions
                /\ LiveSessions' \subseteq LiveSessions \cup {t}
  <2> HIDE DEF LiveSessions
  <2> QED
    BY <1>9, <1>2, <1>3, <1>6 DEF SessionStep
<1>10. Next \/ UNCHANGED vars
  OBVIOUS
<1> HIDE DEF LiveSessions
<1> QED
  BY SMTT(60), <1>1, <1>4, <1>5, <1>7, <1>8, <1>9, <1>10 DEF Next

\* Nothing is open at first.
LEMMA InitCap == Init => SessionCap
<1> SUFFICES ASSUME Init PROVE SessionCap
  OBVIOUS
<1>1. LiveSessions = {}
  BY DEF Init, Empty, LiveSessions
<1>2. Cardinality({}) = 0
  BY FS_EmptySet
<1> QED
  BY <1>1, <1>2, SessionAssumption DEF SessionCap, SessionCount

\* Under the cap, one more session at most, and only below it, stays under the cap.
LEMMA CapKept ==
  ASSUME SessionCap,
         \/ LiveSessions' \subseteq LiveSessions
         \/ \E t \in Tokens : /\ SessionCount < MaxSessions
                             /\ LiveSessions' \subseteq LiveSessions \cup {t}
  PROVE  SessionCap'
<1>1. IsFiniteSet(LiveSessions) /\ Cardinality(LiveSessions) \in Nat
  <2>1. LiveSessions \subseteq Tokens
    BY DEF LiveSessions
  <2>2. IsFiniteSet(LiveSessions)
    BY <2>1, FS_Subset, SessionAssumption
  <2> QED
    BY <2>2, FS_CardinalityType
<1>2. CASE LiveSessions' \subseteq LiveSessions
  <2>1. Cardinality(LiveSessions') <= Cardinality(LiveSessions)
        /\ Cardinality(LiveSessions') \in Nat
    BY SMTT(60), <1>1, <1>2, FS_Subset, FS_CardinalityType
  <2> QED
    BY <1>1, <2>1, SessionAssumption DEF SessionCap, SessionCount
<1>3. ASSUME NEW t \in Tokens, SessionCount < MaxSessions,
             LiveSessions' \subseteq LiveSessions \cup {t}
      PROVE  SessionCap'
  <2> DEFINE S == LiveSessions \cup {t}
  <2>1. /\ IsFiniteSet(S) /\ Cardinality(S) \in Nat
        /\ Cardinality(S) <= Cardinality(LiveSessions) + 1
    <3>1. IsFiniteSet(S)
      BY <1>1, FS_AddElement
    <3>2. Cardinality(S) = Cardinality(LiveSessions)
          \/ Cardinality(S) = Cardinality(LiveSessions) + 1
      BY <1>1, FS_AddElement
    <3> QED
      BY <1>1, <3>1, <3>2, FS_CardinalityType
  <2>2. LiveSessions' \subseteq S
    BY <1>3
  <2> HIDE DEF S
  <2>3. Cardinality(LiveSessions') <= Cardinality(S) /\ Cardinality(LiveSessions') \in Nat
    BY <2>1, <2>2, FS_Subset, FS_CardinalityType
  <2> QED
    BY SMTT(60), <1>1, <1>3, <2>1, <2>3, SessionAssumption DEF SessionCap, SessionCount
<1> QED
  BY <1>2, <1>3

\* The cap of begin_session bounds the open sessions of every incarnation of the
\* service taken together, because it counts the registry's bindings.
THEOREM SessionsAreCapped == Spec => []SessionCap
<1>1. SessionsInv /\ SessionCap /\ [Next]_vars => SessionCap'
  BY LiveSessionsStep, CapKept
<1> QED
  BY <1>1, InitCap, SessionsInvariance, PTL DEF Spec

\* enforce_session_liveness takes a session only after a lease of silence or at
\* the age limit.
LEMMA ReapIsDue ==
  ASSUME SessionsInv, NEW t \in Tokens, meta[t] # None, Reap(t)
  PROVE  now - beat[t] >= LeaseTimeout \/ now - opened[t].created >= AbsoluteAge
<1>0. TypeOK /\ SessionInv(t)
  BY SMTT(60) DEF SessionsInv
<1>1. /\ pins[t] # None /\ meta[t].created = opened[t].created
      /\ beat[t] # None /\ meta[t] \in Meta
  BY SMTT(60), <1>0 DEF SessionInv, TypeOK
<1>2. meta[t].created \in Nat /\ meta[t].created # None
  BY <1>1, PolicyAssumption DEF Meta
<1>3. ReapDue(t)
  BY SMTT(60) DEF Reap
<1>4. CASE owners[t] # None
  <2>1. created[t] = meta[t].created /\ lease[t] = beat[t]
    BY ZenonT(60), <1>0, <1>1, <1>4 DEF SessionInv
  <2> QED
    BY SMTT(60), <1>1, <1>2, <1>3, <1>4, <2>1 DEF ReapDue, LeaseStale, OverAge
<1>5. CASE owners[t] = None
  BY SMTT(60), <1>1, <1>2, <1>3, <1>5 DEF ReapDue, OverAge
<1> QED
  BY SMTT(60), <1>4, <1>5

\* The sweep takes a session only after a full lease of silence or at the age
\* limit, both counted across restarts and adoptions.
THEOREM SessionsAreReapedWhenDue == Spec => ReapedOnlyWhenDue
<1>1. ASSUME SessionsInv, [Next]_vars, NEW t \in Tokens, meta[t] # None, meta'[t] = None
      PROVE  \/ ~Durable /\ Restart
             \/ now - beat[t] >= LeaseTimeout
             \/ now - opened[t].created >= AbsoluteAge
  <2>0. TypeOK /\ SessionInv(t)
    BY <1>1 DEF SessionsInv
  <2>1. meta'[t] # meta[t]
    BY SMTT(60), <1>1
  <2>2. CASE Restart
    BY <2>1, <2>2 DEF Restart, registry
  <2>3. CASE Reap(t)
    BY SMTT(60), <1>1, <2>3, ReapIsDue
  <2>4. ASSUME NEW u \in Tokens, Reap(u), u # t PROVE FALSE
    BY <2>0, <2>1, <2>4 DEF Reap, release_session, TypeOK
  <2>5. ASSUME NEW u \in Tokens, NEW caller \in Callers, NEW F \in SUBSET Artifacts,
               begin_session(u, caller, F, now)
        PROVE  FALSE
    <3>1. CASE u = t
      <4>1. opened[t] = None
        BY SMTT(60), <2>5, <3>1 DEF begin_session, CapsAllow
      <4> QED
        BY SMTT(60), <4>1, <1>1, <2>0 DEF SessionInv
    <3>2. CASE u # t
      BY SMTT(60), <2>0, <2>1, <2>5, <3>2 DEF begin_session, CapsAllow, capture_version_vector, TypeOK
    <3> QED
      BY SMTT(60), <3>1, <3>2
  <2>6. ASSUME NEW B, AgentStep(B) PROVE UNCHANGED meta
    BY ZenonT(60), <2>6 DEF AgentStep, register_artifact, AgentPublish, AgentOwnership, remove_artifact
  <2>7. ASSUME NEW u \in Tokens, NEW caller \in Callers, record_session_heartbeat(u, caller, now)
        PROVE  UNCHANGED meta
    BY <2>7 DEF record_session_heartbeat, Later, registry
  <2>8. ASSUME NEW u \in Tokens, CallStep(u) PROVE UNCHANGED meta
    BY <2>8 DEF CallStep, StartCall, CheckCall, session_read, session_commit, registry
  <2>9. Tick \/ UNCHANGED vars => UNCHANGED meta
    BY DEF Tick, vars, registry
  <2>10. ASSUME NEW u \in Tokens, SessionStep(u)
         PROVE  UNCHANGED meta \/ Reap(t)
    BY SMTT(60), <2>10, <2>4, <2>5, <2>7 DEF SessionStep
  <2> QED
    BY SMTT(60), <1>1, <2>1, <2>2, <2>3, <2>6, <2>8, <2>9, <2>10 DEF Next
<1>2. SessionsInv /\ [Next]_vars =>
        [\A t \in Tokens : meta[t] # None /\ meta'[t] = None
           => \/ ~Durable /\ Restart
              \/ now - beat[t] >= LeaseTimeout
              \/ now - opened[t].created >= AbsoluteAge]_vars
  BY <1>1
<1> QED
  BY <1>2, SessionsInvariance, PTL DEF Spec, ReapedOnlyWhenDue

-----------------------------------------------------------------------------
(* The retained history.                                                   *)

\* What a step may do to the history of one artifact: end it, leave it alone, or
\* capture the next version's body and collect.
HistoryStep(f) ==
  \/ rows'[f] = {} /\ f \notin Live'
  \/ /\ rows'[f] = rows[f] /\ captured'[f] = captured[f]
     /\ f \in Live' => f \in Live \/ captured[f] = {}
  \/ /\ f \in Live \/ captured[f] = {}
     /\ captured'[f] = captured[f] \cup {version[f] + 1}
     /\ rows'[f] = capture_version(rows[f], version[f] + 1, now, live_pins_for_artifact(f))

\* A publication only captures.
LEMMA PublishHistory ==
  ASSUME SessionsInv, NEW F \in SUBSET Artifacts, NEW B, PublishAll(F, B),
         \A f \in F : f \in Live \/ f \notin gone, NEW f \in Artifacts
  PROVE  HistoryStep(f)
<1>0. TypeOK /\ HistoryInv(f)
  BY DEF SessionsInv
<1>1. CASE f \in F \cap B
  <2>1. f \in Live \/ captured[f] = {}
    BY <1>0, <1>1 DEF HistoryInv
  <2> QED
    BY ZenonT(60), <1>0, <1>1, <2>1, PublishEffect DEF HistoryStep
<1>2. CASE f \notin F \cap B
  <2>1. rows'[f] = rows[f] /\ captured'[f] = captured[f]
    BY ZenonT(60), <1>0, <1>2, PublishEffect
  <2>2. f \in F => f \in Live \/ captured[f] = {}
    BY <1>0 DEF HistoryInv
  <2>3. f \notin F => version'[f] = version[f]
    BY ZenonT(60), <1>0, PublishEffect
  <2> QED
    BY <2>1, <2>2, <2>3 DEF HistoryStep, Live
<1> QED
  BY <1>1, <1>2

\* Every step of the service moves a history in one of these ways.
LEMMA NextHistory ==
  ASSUME SessionsInv, [Next]_vars, NEW f \in Artifacts
  PROVE  HistoryStep(f)
<1>0. TypeOK
  BY DEF SessionsInv
<1>1. CASE UNCHANGED <<version, rows, captured>>
  BY <1>1 DEF HistoryStep, Live
<1>2. ASSUME NEW B \in SUBSET Artifacts, AgentStep(B) PROVE HistoryStep(f)
  <2>1. ASSUME NEW g \in Artifacts, register_artifact(g, B) PROVE HistoryStep(f)
    BY <2>1, PublishHistory DEF register_artifact
  <2>2. ASSUME NEW F \in SUBSET Artifacts, AgentPublish(F, B) PROVE HistoryStep(f)
    BY <2>2, PublishHistory DEF AgentPublish
  <2>3. ASSUME NEW g \in Artifacts, AgentOwnership(g) PROVE HistoryStep(f)
    BY <2>3, <1>1 DEF AgentOwnership, ghosts
  <2>4. ASSUME NEW g \in Artifacts, remove_artifact(g) PROVE HistoryStep(f)
    <3>1. CASE f = g
      BY <1>0, <2>4, <3>1 DEF remove_artifact, HistoryStep, Live, TypeOK
    <3>2. CASE f # g
      BY <1>0, <2>4, <3>2 DEF remove_artifact, HistoryStep, Live, TypeOK, ghosts
    <3> QED
      BY <3>1, <3>2
  <2> QED
    BY <1>2, <2>1, <2>2, <2>3, <2>4 DEF AgentStep
<1>3. ASSUME NEW t \in Tokens, SessionStep(t) PROVE HistoryStep(f)
  BY <1>1, <1>3 DEF SessionStep, begin_session, record_session_heartbeat, Reap, registry, ghosts
<1>4. ASSUME NEW t \in Tokens, CallStep(t) PROVE HistoryStep(f)
  <2>1. CASE session_commit(t) /\ CutWins(call[t])
    <3>1. call[t] \in Call
      BY <1>0, <2>1 DEF session_commit, Ready, TypeOK
    <3>2. call[t].on \in SUBSET Artifacts /\ \A g \in call[t].on : g \in Live
      BY SMTT(60), <2>1, <3>1 DEF CutWins, Call
    <3> QED
      BY ZenonT(60), <2>1, <3>2, PublishHistory DEF session_commit
  <2>2. CASE session_commit(t) /\ ~CutWins(call[t])
    BY ZenonT(60), <1>1, <2>2 DEF session_commit
  <2> QED
    BY ZenonT(60), <1>1, <1>4, <2>1, <2>2
       DEF CallStep, StartCall, CheckCall, session_read, registry, ghosts
<1>5. CASE Restart
  BY <1>1, <1>5 DEF Restart, registry, ghosts, HistoryStep, Live
<1>6. CASE Tick \/ UNCHANGED vars
  BY <1>1, <1>6 DEF Tick, vars, registry, ghosts
<1> QED
  BY <1>2, <1>3, <1>4, <1>5, <1>6 DEF Next

\* The collector exempts at most one version per open session.
LEMMA PinsAreFew ==
  ASSUME SessionsInv, SessionCap, NEW f \in Artifacts
  PROVE  /\ IsFiniteSet(live_pins_for_artifact(f))
         /\ Cardinality(live_pins_for_artifact(f)) <= MaxSessions
<1> DEFINE P == {u \in Tokens : pins[u] # None /\ pins[u][f] > 0}
           X == live_pins_for_artifact(f)
           g == [t \in P |-> pins[t][f]]
<1>1. P \in SUBSET LiveSessions
  BY DEF SessionsInv, SessionInv, LiveSessions
<1>2. IsFiniteSet(LiveSessions)
  BY FS_Subset, LiveSessions \in SUBSET Tokens, SessionAssumption DEF LiveSessions
<1>3. g \in Surjection(P, X)
  BY DEF live_pins_for_artifact, Surjection
<1> HIDE DEF P, g, X
<1>4. IsFiniteSet(P) /\ Cardinality(P) <= Cardinality(LiveSessions)
  BY <1>1, <1>2, FS_Subset
<1>5. IsFiniteSet(X) /\ Cardinality(X) <= Cardinality(P)
  BY <1>3, <1>4, FS_Surjection
<1>6. /\ Cardinality(X) \in Nat /\ Cardinality(P) \in Nat
      /\ Cardinality(LiveSessions) \in Nat /\ MaxSessions \in Nat
  BY <1>2, <1>4, <1>5, FS_CardinalityType, SessionAssumption
<1> QED
  BY SMTT(60), <1>4, <1>5, <1>6 DEF SessionCap, X

\* One step keeps the bound on the history of an artifact.
LEMMA BoundStep ==
  ASSUME SessionsInv, SessionCap, MaxVersions # None, NEW f \in Artifacts, HistoryStep(f),
         Cardinality(rows[f]) <= MaxVersions + MaxSessions
  PROVE  Cardinality(rows'[f]) <= MaxVersions + MaxSessions
<1>0. TypeOK /\ HistoryInv(f) /\ MaxVersions \in Nat /\ MaxSessions \in Nat
  BY PolicyAssumption, SessionAssumption DEF SessionsInv
<1>1. CASE rows'[f] = {}
  BY <1>0, <1>1, FS_EmptySet
<1>2. CASE rows'[f] = rows[f]
  BY <1>2
<1>3. CASE rows'[f] = capture_version(rows[f], version[f] + 1, now, live_pins_for_artifact(f))
  <2> DEFINE R == rows[f]
             X == live_pins_for_artifact(f)
             v == version[f] + 1
  <2>1. R \in SUBSET Row /\ v \in Nat /\ now \in Nat
    BY <1>0 DEF TypeOK
  <2>2. IsFiniteSet(R) /\ \A q, r \in R : q.version = r.version => q = r
    BY <1>0 DEF HistoryInv
  <2>3. \A r \in R : r.version < v
    <3>1. \A r \in R : r.version \in captured[f]
      BY <1>0 DEF HistoryInv
    <3>2. \A u \in captured[f] : u \in Nat /\ (f \in Live => u <= version[f])
      BY <1>0 DEF HistoryInv, TypeOK
    <3>3. f \in Live \/ R = {}
      BY <1>0, <3>1 DEF HistoryInv
    <3> QED
      BY SMTT(60), <1>0, <3>1, <3>2, <3>3 DEF TypeOK
  <2>4. IsFiniteSet(X) /\ Cardinality(X) <= MaxSessions /\ Cardinality(X) \in Nat
    BY PinsAreFew, FS_CardinalityType
  <2>5. rows'[f] = capture_version(R, v, now, X)
    BY <1>3
  <2> HIDE DEF R, X, v
  <2>6. IsFiniteSet(rows'[f])
    BY ONLY <2>1, <2>2, <2>5, CaptureRows
  <2>7. Cardinality(rows'[f]) <= MaxVersions + Cardinality(X)
    BY <2>1, <2>2, <2>3, <2>4, <2>5, CaptureBound
  <2>8. Cardinality(rows'[f]) \in Nat
    BY <2>6, FS_CardinalityType
  <2> QED
    BY <1>0, <2>4, <2>7, <2>8
<1> QED
  BY <1>1, <1>2, <1>3 DEF HistoryStep

\* What the policy and the session cap allow bounds what is kept of an artifact.
THEOREM HistoriesAreBounded == Spec => []HistoryBounded
<1>1. Init => HistoryBounded
  <2> SUFFICES ASSUME Init, MaxVersions # None, NEW f \in Artifacts
               PROVE  Cardinality(rows[f]) <= MaxVersions + MaxSessions
    BY DEF HistoryBounded
  <2>1. rows[f] = {}
    BY DEF Init
  <2> QED
    BY <2>1, FS_EmptySet, PolicyAssumption, SessionAssumption
<1>2. SessionsInv /\ SessionCap /\ HistoryBounded /\ [Next]_vars => HistoryBounded'
  <2> SUFFICES ASSUME SessionsInv, SessionCap, HistoryBounded, [Next]_vars,
                      MaxVersions # None, NEW f \in Artifacts
               PROVE  Cardinality(rows'[f]) <= MaxVersions + MaxSessions
    BY DEF HistoryBounded
  <2>1. Cardinality(rows[f]) <= MaxVersions + MaxSessions
    BY DEF HistoryBounded
  <2>2. HistoryStep(f)
    BY NextHistory
  <2> QED
    BY <2>1, <2>2, BoundStep
<1> QED
  BY <1>1, <1>2, SessionsInvariance, SessionsAreCapped, PTL DEF Spec

\* While no body can be past the age limit, the captured versions with fewer than
\* max_versions newer ones are retained.
NoneAged == MaxAge = None \/ now <= MaxAge
RecentKept(f) ==
  MaxVersions # None /\ NoneAged /\ f \in Live
    => \A v \in captured[f] :
         Cardinality({u \in captured[f] : u > v}) < MaxVersions => v \in Versions(rows[f])

\* The clock does not run backwards.
LEMMA NextClock == SessionsInv /\ [Next]_vars => now \in Nat /\ now' \in Nat /\ now <= now'
<1> SUFFICES ASSUME SessionsInv, [Next]_vars PROVE now \in Nat /\ now' \in Nat /\ now <= now'
  OBVIOUS
<1>0. now \in Nat
  BY DEF SessionsInv, TypeOK
<1>1. CASE UNCHANGED now
  BY <1>0, <1>1
<1>2. CASE Tick
  BY <1>0, <1>2 DEF Tick
<1>3. ASSUME NEW B, AgentStep(B) PROVE UNCHANGED now
  BY ZenonT(60), <1>3 DEF AgentStep, register_artifact, AgentPublish, AgentOwnership, remove_artifact
<1>4. ASSUME NEW t \in Tokens, SessionStep(t) PROVE UNCHANGED now
  BY <1>4 DEF SessionStep, begin_session, record_session_heartbeat, Reap
<1>5. ASSUME NEW t \in Tokens, CallStep(t) PROVE UNCHANGED now
  BY <1>5 DEF CallStep, StartCall, CheckCall, session_read, session_commit
<1>6. CASE Restart \/ UNCHANGED vars
  BY SMTT(60), <1>1, <1>6 DEF Restart, vars
<1> QED
  BY <1>1, <1>2, <1>3, <1>4, <1>5, <1>6 DEF Next

\* One step keeps the recent versions of an artifact.
LEMMA RecentStep ==
  ASSUME SessionsInv, NEW f \in Artifacts, HistoryStep(f), RecentKept(f),
         now \in Nat, now' \in Nat, now <= now'
  PROVE  RecentKept(f)'
<1>0. TypeOK /\ HistoryInv(f)
  BY DEF SessionsInv
<1> SUFFICES ASSUME MaxVersions # None, NoneAged', f \in Live', NEW w \in captured'[f],
                    Cardinality({u \in captured'[f] : u > w}) < MaxVersions
             PROVE  w \in Versions(rows'[f])
  BY DEF RecentKept
<1>1. NoneAged /\ MaxVersions \in Nat
  BY PolicyAssumption DEF NoneAged
<1>2. CASE rows'[f] = rows[f] /\ captured'[f] = captured[f] /\ (f \in Live \/ captured[f] = {})
  BY SMTT(60), <1>1, <1>2 DEF RecentKept
<1>3. CASE /\ f \in Live \/ captured[f] = {}
           /\ captured'[f] = captured[f] \cup {version[f] + 1}
           /\ rows'[f] = capture_version(rows[f], version[f] + 1, now, live_pins_for_artifact(f))
  <2> DEFINE R == rows[f]
             X == live_pins_for_artifact(f)
             v == version[f] + 1
             C == captured'[f]
             D == {u \in C : u > w}
             A == {u \in captured[f] : u > w}
  <2>1. R \in SUBSET Row /\ v \in Nat /\ now \in Nat
    BY SMTT(60), <1>0 DEF TypeOK
  <2>2. C \in SUBSET Nat /\ IsFiniteSet(C) /\ v \in C /\ captured[f] \in SUBSET C
    <3>1. captured[f] \in SUBSET Nat /\ IsFiniteSet(captured[f])
      BY <1>0 DEF HistoryInv, TypeOK
    <3>2. IsFiniteSet(captured[f] \cup {v})
      BY ONLY SMTT(60), <3>1, FS_AddElement
    <3> QED
      BY SMTT(60), <1>3, <2>1, <3>1, <3>2
  <2>3. \A r \in R : r.version \in C
    BY <1>0, <2>2 DEF HistoryInv
  <2>4. rows'[f] = capture_version(R, v, now, X)
    BY <1>3
  <2>5. Cardinality(D) < MaxVersions
    OBVIOUS
  <2>6. CASE w = v
    <3> HIDE DEF R, X, v, C, D, A
    <3> QED
      BY SMTT(60), <2>1, <2>4, <2>6, CaptureKeeps
  <2>7. CASE w \in captured[f]
    <3>1. A \in SUBSET D /\ D \in SUBSET C
      BY <2>2
    <3>2. IsFiniteSet(D) /\ IsFiniteSet(A) /\ Cardinality(A) <= Cardinality(D)
      <4> HIDE DEF A, D, C
      <4> QED
        BY ZenonT(60), <2>2, <3>1, FS_Subset
    <3>3. Cardinality(A) \in Nat /\ Cardinality(D) \in Nat
      BY <3>2, FS_CardinalityType
    <3>4. Cardinality(A) < MaxVersions
      <4> HIDE DEF A, D, C
      <4> QED
        BY <1>1, <2>5, <3>2, <3>3
    <3>5. f \in Live
      BY <1>3, <2>7
    <3>6. w \in Versions(R)
      BY <1>1, <2>7, <3>4, <3>5 DEF RecentKept
    <3>7. MaxAge = None \/ now <= MaxAge
      BY <1>1 DEF NoneAged
    <3> HIDE DEF R, X, v, C, A
    <3> QED
      BY SMTT(60), <2>1, <2>2, <2>3, <2>4, <2>5, <3>6, <3>7, CaptureKeepsRecent
  <2> QED
    BY SMTT(60), <1>3, <2>6, <2>7
<1> QED
  BY <1>2, <1>3 DEF HistoryStep

\* What is recent and retained is served: alone, a version is beyond no count.
LEMMA RecentIsRead ==
  ASSUME SessionsInv, \A f \in Artifacts : RecentKept(f)
  PROVE  ReadableHistory
<1> SUFFICES ASSUME MaxVersions # None, NoneAged, NEW f \in Live, NEW v \in captured[f],
                    v < version[f], Cardinality({u \in captured[f] : u > v}) < MaxVersions
             PROVE  read_at_version(f, v) = "content"
  BY DEF ReadableHistory, NoneAged
<1>0. TypeOK /\ f \in Artifacts /\ MaxVersions \in Nat /\ MaxVersions > 0
  BY PolicyAssumption DEF SessionsInv, Live
<1>1. v \in Versions(rows[f])
  BY <1>0 DEF RecentKept
<1> DEFINE one == {r \in rows[f] : r.version = v}
<1>2. Versions(one) \in SUBSET {v} /\ one \in SUBSET Row
  BY <1>0 DEF Versions, TypeOK
<1>3. v \in Nat /\ version[f] \in Nat
  BY <1>0 DEF TypeOK
<1> HIDE DEF one
<1>4. {w \in Versions(one) : w > v} = {}
  BY <1>2, <1>3
<1>5. BeyondCount(one) \in SUBSET {v} /\ v \notin BeyondCount(one)
  <2>1. Cardinality({w \in Versions(one) : w > v}) = 0
    BY <1>4, FS_EmptySet
  <2>2. v \in Versions(one) => v \in KeptByCount(Versions(one))
    BY <1>0, <2>1 DEF KeptByCount
  <2> QED
    BY <1>2, <2>2 DEF BeyondCount
<1>6. BeyondAge(one, now) = {}
  <2>1. CASE MaxAge = None
    BY <2>1 DEF BeyondAge
  <2>2. CASE MaxAge # None
    <3>1. MaxAge \in Nat /\ now \in Nat /\ now <= MaxAge
      BY SMTT(60), <1>0, <2>2, PolicyAssumption DEF NoneAged, TypeOK
    <3>2. \A q \in one : ~(q.at < now - MaxAge)
      BY <1>2, <3>1 DEF Row
    <3> QED
      BY <2>2, <3>2 DEF BeyondAge
  <2> QED
    BY <2>1, <2>2
<1>7. v \notin collectible_versions(one, version[f], now, {})
  BY <1>5, <1>6 DEF collectible_versions
<1> QED
  BY <1>0, <1>1, <1>3, <1>7 DEF read_at_version, one

\* A recent version is readable whatever sessions and publications did since.
THEOREM RecentHistoryIsReadable == Spec => []ReadableHistory
<1> DEFINE Kept == \A f \in Artifacts : RecentKept(f)
<1>1. Init => Kept
  BY DEF Init, RecentKept
<1>2. SessionsInv /\ Kept /\ [Next]_vars => Kept'
  BY NextHistory, NextClock, RecentStep
<1>3. SessionsInv /\ Kept => ReadableHistory
  BY RecentIsRead
<1> HIDE DEF Kept
<1> QED
  BY <1>1, <1>2, <1>3, SessionsInvariance, PTL DEF Spec

\* The two sides of collectible_versions: what must be kept is, and nothing beyond
\* the policy and the pins.
THEOREM RetentionKeepsItsPromise == Spec => []RetentionIsExact
<1>1. HistoryBounded /\ ReadableHistory => RetentionIsExact
  BY DEF RetentionIsExact
<1> QED
  BY <1>1, HistoriesAreBounded, RecentHistoryIsReadable, PTL
=============================================================================
