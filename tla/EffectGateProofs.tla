-------------------------- MODULE EffectGateProofs --------------------------
(***************************************************************************)
(* Proofs about the effect gate, for any number of sessions, artifacts and *)
(* callers.  SessionsInv survives the gates: every step of a gate but its  *)
(* teardown is a step of Sessions.  GatesInv adds what a gate knows.       *)
(***************************************************************************)
EXTENDS EffectGate, SessionsProofs

-----------------------------------------------------------------------------
(* The sessions under a gate.                                              *)

\* The two halves of _drop_session_state, each alone, keep the sessions'
\* invariant: the registry's entries go first.
LEMMA TeardownSessions ==
  ASSUME SessionsInv, NEW t \in Tokens, Teardown(t)
  PROVE  SessionsInv' /\ UNCHANGED <<version, gone, rows, captured, commits, opened, call>>
         /\ LiveSessions' \subseteq LiveSessions
<1> USE DEF ghosts, service, registry
<1>0. TypeOK
  BY DEF SessionsInv
<1>1. CASE release_session(t) /\ UNCHANGED <<version, gone, owned, rows, service, call, now, ghosts>>
  <2>1. pins' = [pins EXCEPT ![t] = None] /\ meta' = [meta EXCEPT ![t] = None]
    BY <1>1 DEF release_session
  <2>2. TypeOK'
    BY <1>0, <1>1, <2>1 DEF TypeOK
  <2>3. \A u \in Tokens :
          /\ u = t => pins'[u] = None /\ meta'[u] = None
          /\ u # t => pins'[u] = pins[u] /\ meta'[u] = meta[u]
    BY <1>0, <2>1 DEF TypeOK
  <2>4. ASSUME NEW u \in Tokens PROVE SessionInv(u)'
    <3>1. CASE u = t
      BY ZenonT(60), <1>1, <2>3, <3>1 DEF SessionsInv, SessionInv
    <3>2. CASE u # t
      <4>1. SessionInv(u) /\ now' \in Nat /\ now <= now' /\ UNCHANGED <<service, call, now, ghosts>>
        BY <1>0, <1>1 DEF SessionsInv, TypeOK
      <4> QED
        BY SMTT(60), <1>0, <2>3, <3>2, <4>1, SessionFrame
    <3> QED
      BY SMTT(60), <3>1, <3>2
  <2>5. \A u \in Tokens : pins'[u] = pins[u] \/ pins'[u] = None
    BY <2>3
  <2>6. LiveSessions' \subseteq LiveSessions
    BY <2>3 DEF LiveSessions
  <2> QED
    BY ZenonT(60), <1>1, <2>2, <2>4, <2>5, <2>6, HistoryFrame, CommitFrame DEF SessionsInv
<1>2. CASE drop_service_state(t) /\ UNCHANGED <<registry, call, now, ghosts>>
  <2>1. /\ owners' = [owners EXCEPT ![t] = None] /\ lease' = [lease EXCEPT ![t] = None]
        /\ created' = [created EXCEPT ![t] = None]
    BY <1>2 DEF drop_service_state
  <2>2. TypeOK'
    BY <1>0, <1>2, <2>1 DEF TypeOK, OptNat
  <2>3. \A u \in Tokens :
          /\ u = t => owners'[u] = None /\ lease'[u] = None
          /\ u # t => owners'[u] = owners[u] /\ lease'[u] = lease[u] /\ created'[u] = created[u]
    BY SMTT(60), <1>0, <2>1 DEF TypeOK
  <2>4. ASSUME NEW u \in Tokens PROVE SessionInv(u)'
    <3>1. CASE u = t
      BY ZenonT(60), <1>2, <2>3, <3>1 DEF SessionsInv, SessionInv
    <3>2. CASE u # t
      <4>1. SessionInv(u) /\ now' \in Nat /\ now <= now' /\ UNCHANGED <<registry, call, now, ghosts>>
        BY <1>0, <1>2 DEF SessionsInv, TypeOK
      <4> QED
        BY SMTT(60), <1>0, <2>3, <3>2, <4>1, SessionFrame
    <3> QED
      BY <3>1, <3>2
  <2>5. LiveSessions' \subseteq LiveSessions
    BY <1>2 DEF LiveSessions
  <2> QED
    BY ZenonT(60), <1>2, <2>2, <2>4, <2>5, HistoryFrame, CommitFrame DEF SessionsInv
<1> QED
  BY <1>1, <1>2 DEF Teardown

\* Every other step of a gate is a step of Sessions.
LEMMA GateIsSessionStep ==
  ASSUME GateTypeOK, [GateNext]_gateVars
  PROVE  [Next]_vars \/ \E t \in Tokens : Teardown(t)
<1>1. ASSUME NEW t \in Tokens, GateStep(t), ~Teardown(t) PROVE [Next]_vars
  <2>1. ASSUME NEW caller \in Callers, NEW F \in SUBSET Artifacts, NEW target \in Artifacts,
               NEW mode, NEW release, GateBegin(t, caller, F, mode, target, release)
        PROVE  Next
    BY <2>1 DEF GateBegin, SessionStep, Next
  <2>2. CASE GateCommit(t)
    <3>1. CASE At(t, "commit") /\ StartCall(t, "commit", gate[t].owner, {gate[t].target})
      <4>1. gate[t].owner \in Callers /\ {gate[t].target} \in SUBSET Artifacts
        BY <3>1 DEF At, GateTypeOK, Gate
      <4> QED
        BY <3>1, <4>1 DEF CallStep, Next
    <3> QED
      BY ZenonT(60), <2>2, <3>1 DEF GateCommit, CallStep, Next
  <2> QED
    BY ZenonT(60), <1>1, <2>1, <2>2
       DEF GateStep, Decide, DecideRaises, Revalidate, FireOrHold, CommitOrHold, KeepSession
<1>2. CASE AgentStep({}) \/ (\E t \in Tokens : SessionStep(t)) \/ Tick \/ Restart
  BY <1>2, {} \in SUBSET Artifacts DEF Next
<1>3. CASE UNCHANGED gateVars
  BY <1>3 DEF gateVars
<1> QED
  BY <1>1, <1>2, <1>3 DEF GateNext

-----------------------------------------------------------------------------
(* Versions only grow while an artifact exists.                            *)

\* What every step does to versions and to the ids that were given up.
Grows ==
  /\ gone \subseteq gone' /\ gone' \cap Live' = {}
  /\ \A f \in Artifacts : f \notin gone' => version[f] <= version'[f]

\* A publication moves its members up by one.
LEMMA PublishGrows ==
  ASSUME TypeOK, gone \cap Live = {}, NEW F \in SUBSET Artifacts, NEW B, PublishAll(F, B),
         \A f \in F : f \in Live \/ f \notin gone, UNCHANGED gone
  PROVE  Grows
<1>1. \A f \in Artifacts : version[f] \in Nat
  BY DEF TypeOK
<1>2. \A f \in Artifacts : version'[f] = IF f \in F THEN version[f] + 1 ELSE version[f]
  BY ZenonT(60), PublishEffect
<1>3. \A f \in Artifacts : f \in gone => f \notin F
  BY DEF Live
<1>4. gone' \cap Live' = {}
  BY <1>2, <1>3 DEF Live
<1>5. \A f \in Artifacts : version[f] <= version'[f]
  BY <1>1, <1>2
<1> QED
  BY <1>4, <1>5 DEF Grows

\* Every step of the service, the agents and the clock lets versions only grow.
LEMMA NextGrows ==
  ASSUME SessionsInv, gone \cap Live = {}, [Next]_vars
  PROVE  Grows
<1>0. TypeOK /\ \A f \in Artifacts : version[f] \in Nat
  BY DEF SessionsInv, TypeOK
<1>1. CASE UNCHANGED <<version, gone>>
  BY <1>0, <1>1 DEF Grows, Live
<1>2. ASSUME NEW B \in SUBSET Artifacts, AgentStep(B) PROVE Grows
  <2>1. ASSUME NEW g \in Artifacts, register_artifact(g, B) PROVE Grows
    BY <1>0, <2>1, PublishGrows DEF register_artifact
  <2>2. ASSUME NEW F \in SUBSET Artifacts, AgentPublish(F, B) PROVE Grows
    BY <1>0, <2>2, PublishGrows DEF AgentPublish
  <2>3. ASSUME NEW g \in Artifacts, AgentOwnership(g) PROVE Grows
    BY <2>3, <1>1 DEF AgentOwnership
  <2>4. ASSUME NEW g \in Artifacts, remove_artifact(g) PROVE Grows
    <3>1. \A f \in Artifacts : version'[f] = IF f = g THEN 0 ELSE version[f]
      BY <1>0, <2>4 DEF remove_artifact, TypeOK
    <3>2. gone' = gone \cup {g}
      BY <2>4 DEF remove_artifact
    <3> QED
      BY <1>0, <3>1, <3>2 DEF Grows, Live
  <2> QED
    BY <1>2, <2>1, <2>2, <2>3, <2>4 DEF AgentStep
<1>3. ASSUME NEW t \in Tokens, SessionStep(t) PROVE Grows
  BY <1>1, <1>3 DEF SessionStep, begin_session, record_session_heartbeat, Reap, registry
<1>4. ASSUME NEW t \in Tokens, CallStep(t) PROVE Grows
  <2>1. CASE session_commit(t) /\ CutWins(call[t])
    <3>1. call[t] \in Call
      BY <1>0, <2>1 DEF session_commit, Ready, TypeOK
    <3>2. call[t].on \in SUBSET Artifacts /\ \A g \in call[t].on : g \in Live
      BY SMTT(60), <2>1, <3>1 DEF CutWins, Call
    <3> QED
      BY SMTT(60), <1>0, <2>1, <3>2, PublishGrows DEF session_commit
  <2>2. CASE session_commit(t) /\ ~CutWins(call[t])
    BY <1>1, <2>2 DEF session_commit
  <2> QED
    BY SMTT(60), <1>1, <1>4, <2>1, <2>2 DEF CallStep, StartCall, CheckCall, session_read, registry
<1>5. CASE Restart
  <2>1. CASE Durable
    BY <1>1, <1>5, <2>1 DEF Restart, registry
  <2>2. CASE ~Durable
    <3>1. gone' = gone \cup Live /\ \A f \in Artifacts : version'[f] = 0
      BY <1>5, <2>2 DEF Restart
    <3> QED
      BY <1>0, <3>1 DEF Grows, Live
  <2> QED
    BY <2>1, <2>2
<1>6. CASE Tick \/ UNCHANGED vars
  BY <1>1, <1>6 DEF Tick, vars, registry
<1> QED
  BY SMTT(60), <1>2, <1>3, <1>4, <1>5, <1>6 DEF Next

-----------------------------------------------------------------------------
(* A gate that does not take the step.                                     *)

\* The step leaves the gate of u alone, and of its session changes at most what a
\* reaper, a heartbeat or a restart may.
Quiet(u) ==
  /\ gate'[u] = gate[u] /\ (u \in closed' => u \in closed)
  /\ opened[u] # None => /\ opened'[u] = opened[u]
                         /\ pins'[u] \in {pins[u], None} /\ meta'[u] \in {meta[u], None}
                         /\ Committed(u)' = Committed(u)

\* The order of pin, start of the check and current version survives.
LEMMA MembersStay ==
  ASSUME TypeOK, TypeOK', Grows, NEW g \in Gate, MembersInv(g)
  PROVE  MembersInv(g)'
<1> DEFINE M == Members(g.cut)
<1>0. /\ M \in SUBSET Artifacts
      /\ \A f \in M : g.cut[f] \in Nat /\ g.cut[f] > 0 /\ g.atCheck[f] \in Nat
      /\ \A f \in M : version[f] \in Nat /\ version'[f] \in Nat
  BY DEF Members, Gate, Cut, TypeOK
<1>1. ASSUME NEW f \in M, f \notin gone'
      PROVE  /\ f \notin gone /\ g.cut[f] <= g.atCheck[f] /\ g.atCheck[f] <= version[f]
             /\ version[f] <= version'[f]
  BY <1>0, <1>1 DEF Grows, MembersInv
<1>2. ASSUME NEW f \in M, f \notin gone'
      PROVE  g.cut[f] <= g.atCheck[f] /\ g.atCheck[f] <= version'[f]
  BY <1>0, <1>1, <1>2
<1>3. ASSUME NEW f \in g.moved
      PROVE  version'[f] # g.cut[f]
  <2>1. f \in M /\ version[f] # g.cut[f]
    BY <1>3 DEF MembersInv
  <2>2. CASE f \in gone'
    <3>1. version'[f] = 0
      BY <1>0, <2>1, <2>2 DEF Grows, Live
    <3> QED
      BY <1>0, <2>1, <3>1
  <2>3. CASE f \notin gone'
    BY <1>0, <1>1, <2>1, <2>3
  <2> QED
    BY <2>2, <2>3
<1>4. /\ g.todo \subseteq M /\ g.moved \subseteq M
      /\ \A f \in M : f \notin g.todo \cup g.moved => g.atCheck[f] = g.cut[f]
  BY SMTT(60) DEF MembersInv
<1> QED
  BY SMTT(60), <1>2, <1>3, <1>4 DEF MembersInv

\* So a gate that is left alone keeps its part of the invariant.
LEMMA QuietGate ==
  ASSUME GatesInv, TypeOK', Grows, NEW u \in Tokens, Quiet(u)
  PROVE  GateInv(u)'
<1> SUFFICES ASSUME gate'[u] # None PROVE GateInv(u)'
  BY SMTT(60) DEF GateInv
<1>1. gate'[u] = gate[u] /\ gate[u] # None /\ gate[u] \in Gate /\ GateInv(u)
  BY SMTT(60) DEF Quiet, GatesInv, GateTypeOK
<1>2. opened[u] # None /\ u \notin closed /\ MembersInv(gate[u])
  BY SMTT(60), <1>1 DEF GateInv
<1>3. MembersInv(gate[u])'
  <2>1. TypeOK
    BY DEF GatesInv, GateTypeOK
  <2>2. PICK g \in Gate : g = gate[u]
    BY <1>1
  <2>3. MembersInv(g)
    BY <1>2, <2>2
  <2>4. MembersInv(g)'
    BY <2>1, <2>3, MembersStay
  <2> QED
    BY ZenonT(60), <1>1, <2>2, <2>4 DEF MembersInv, Members
<1>4. /\ opened'[u] = opened[u] /\ u \notin closed' /\ Committed(u)' = Committed(u)
      /\ pins'[u] \in {pins[u], None} /\ meta'[u] \in {meta[u], None}
  BY <1>2 DEF Quiet
<1> QED
  BY ZenonT(60), <1>1, <1>2, <1>3, <1>4 DEF GateInv

\* Nothing is left of the session u.
Dead(u) == /\ pins[u] = None /\ meta[u] = None
           /\ owners[u] = None /\ lease[u] = None /\ created[u] = None

\* A token that was opened once and has no binding left gets none: begin_session
\* mints a fresh token, and a heartbeat needs a bound owner.
LEMMA DeadStays ==
  ASSUME SessionsInv, [Next]_vars, NEW u \in Tokens, opened[u] # None, Dead(u)
  PROVE  Dead(u)'
<1>0. TypeOK
  BY DEF SessionsInv
<1>1. CASE UNCHANGED <<pins, meta, service>>
  BY <1>1 DEF Dead, service
<1>2. ASSUME NEW B, AgentStep(B) PROVE Dead(u)'
  BY ZenonT(60), <1>1, <1>2
     DEF AgentStep, register_artifact, AgentPublish, AgentOwnership, remove_artifact
<1>3. ASSUME NEW t \in Tokens, SessionStep(t) PROVE Dead(u)'
  <2>1. ASSUME NEW caller \in Callers, NEW F \in SUBSET Artifacts, begin_session(t, caller, F, now)
        PROVE  Dead(u)'
    <3>1. t # u
      BY <2>1 DEF begin_session
    <3> QED
      BY <1>0, <2>1, <3>1 DEF begin_session, capture_version_vector, Dead, TypeOK
  <2>2. ASSUME NEW caller \in Callers, record_session_heartbeat(t, caller, now)
        PROVE  Dead(u)'
    <3>1. BoundOwner(t) # None
      BY <2>2, SessionAssumption DEF record_session_heartbeat
    <3>2. t # u
      BY <3>1 DEF BoundOwner, Dead
    <3> QED
      BY <1>0, <2>2, <3>2 DEF record_session_heartbeat, registry, Dead, TypeOK
  <2>3. CASE Reap(t)
    BY <1>0, <2>3 DEF Reap, release_session, drop_service_state, Dead, TypeOK
  <2> QED
    BY SMTT(60), <1>3, <2>1, <2>2, <2>3 DEF SessionStep
<1>4. ASSUME NEW t \in Tokens, CallStep(t) PROVE Dead(u)'
  BY SMTT(60), <1>1, <1>4 DEF CallStep, StartCall, CheckCall, session_read, session_commit, registry
<1>5. CASE Restart
  BY <1>5 DEF Restart, Empty, registry, Dead
<1>6. CASE Tick \/ UNCHANGED vars
  BY <1>1, <1>6 DEF Tick, vars, registry
<1> QED
  BY SMTT(60), <1>2, <1>3, <1>4, <1>5, <1>6 DEF Next

\* What the agents, the reaper, a heartbeat and the clock do to a session that is
\* open or was.
LEMMA OutsideIsQuiet ==
  ASSUME SessionsInv, UNCHANGED <<gate, closed>>, NEW u \in Tokens,
         AgentStep({}) \/ (\E t \in Tokens : SessionStep(t)) \/ Tick \/ UNCHANGED vars
  PROVE  Quiet(u) /\ UNCHANGED <<call, commits>> /\ (opened[u] # None => opened'[u] # None)
<1>0. TypeOK
  BY DEF SessionsInv
<1>1. CASE UNCHANGED <<pins, meta, opened, commits, call>>
  BY <1>1 DEF Quiet, Committed
<1>2. CASE AgentStep({})
  <2>1. UNCHANGED <<pins, meta, opened, commits, call>>
    BY ZenonT(60), <1>2
       DEF AgentStep, register_artifact, AgentPublish, AgentOwnership, remove_artifact, ghosts
  <2> QED
    BY <1>1, <2>1
<1>3. CASE \E t \in Tokens : SessionStep(t)
  <2>0. PICK t \in Tokens : SessionStep(t)
    BY SMTT(60), <1>3
  <2>1. ASSUME NEW caller \in Callers, NEW F \in SUBSET Artifacts, begin_session(t, caller, F, now)
        PROVE  Quiet(u) /\ UNCHANGED <<call, commits>> /\ (opened[u] # None => opened'[u] # None)
    <3>1. opened[t] = None /\ UNCHANGED <<call, commits>>
      BY SMTT(60), <2>1 DEF begin_session
    <3>2. u # t => opened'[u] = opened[u] /\ pins'[u] = pins[u] /\ meta'[u] = meta[u]
      BY <1>0, <2>1 DEF begin_session, capture_version_vector, TypeOK
    <3> QED
      BY <3>1, <3>2 DEF Quiet, Committed
  <2>2. ASSUME NEW caller \in Callers, record_session_heartbeat(t, caller, now)
        PROVE  UNCHANGED <<pins, meta, opened, commits, call>>
    BY SMTT(60), <2>2 DEF record_session_heartbeat, registry
  <2>3. CASE Reap(t)
    <3>1. UNCHANGED <<opened, commits, call>>
      BY <2>3 DEF Reap, ghosts
    <3>2. pins'[u] \in {pins[u], None} /\ meta'[u] \in {meta[u], None}
      BY SMTT(60), <1>0, <2>3 DEF Reap, release_session, TypeOK
    <3> QED
      BY <3>1, <3>2 DEF Quiet, Committed
  <2> QED
    BY SMTT(60), <1>1, <2>0, <2>1, <2>2, <2>3 DEF SessionStep
<1>4. CASE Tick \/ UNCHANGED vars
  BY SMTT(60), <1>1, <1>4 DEF Tick, vars, registry, ghosts
<1> QED
  BY <1>2, <1>3, <1>4

-----------------------------------------------------------------------------
(* The steps of a gate, one by one.                                        *)

\* What the step of a gate must show about its own token.
Own(t) ==
  /\ gate'[t] \in Gate \cup {None}
  /\ GateInv(t)'
  /\ call'[t] # None => At(t, "committing")' /\ call'[t].on = {gate'[t].target}
  /\ t \in closed' => opened'[t] # None

\* A step that only the gate sees: the check that begins, reads or ends, and the
\* decision that raises.  It may pass over the commit, not make one.
LEMMA LocalStep ==
  ASSUME GatesInv, NEW t \in Tokens, UNCHANGED <<vars, closed>>, gate[t] # None,
         gate[t].stage # "committing",
         NEW h \in Gate, gate'[t] = h, MembersInv(h),
         h.cut = gate[t].cut, h.mode = gate[t].mode,
         gate[t].outcome # "fired", h.mode = "atomic" => h.outcome # "fired",
         h.mode = "escaping" /\ h.outcome = "fired" => h.todo = {} /\ h.moved = {},
         h.mode = "escaping" /\ h.outcome = "held" => h.moved # {},
         h.stage \in {"commit", "committing"} => h.mode = "atomic",
         h.stage \in {"decide", "check", "commit", "committing"} => h.outcome = "none",
         h.stage # "drop"
  PROVE  Own(t)
<1>1. /\ opened[t] # None /\ t \notin closed /\ gate[t].cut = opened[t].cut
      /\ Committed(t) = {}
  BY SMTT(60) DEF GatesInv, GateInv
<1>2. call[t] = None
  BY DEF GatesInv, At
<1>3. /\ opened' = opened /\ closed' = closed /\ call' = call
      /\ version' = version /\ gone' = gone /\ commits' = commits
  BY SMTT(60) DEF vars, registry, ghosts
<1>4. MembersInv(h)'
  BY SMTT(60), <1>3 DEF MembersInv
<1>5. Committed(t)' = {}
  BY SMTT(60), <1>1, <1>3 DEF Committed
<1>6. GateInv(t)'
  BY ZenonT(60), <1>1, <1>3, <1>4, <1>5 DEF GateInv
<1> QED
  BY SMTT(60), <1>1, <1>2, <1>3, <1>6 DEF Own

\* DECIDE returns: the versions have not fallen below the pins since.
LEMMA DecideStep ==
  ASSUME GatesInv, NEW t \in Tokens, Decide(t)
  PROVE  Own(t)
<1>0. TypeOK /\ gate \in [Tokens -> Gate \cup {None}]
  BY DEF GatesInv, GateTypeOK
<1>1. PICK g \in Gate : g = gate[t] /\ g # None
  BY <1>0 DEF Decide, At
<1>2. /\ g.stage = "decide" /\ g.outcome = "none" /\ opened[t] # None
      /\ g.cut = opened[t].cut /\ MembersInv(g)
  BY <1>1 DEF Decide, At, GatesInv, GateInv
<1> DEFINE h == [g EXCEPT !.stage = "check", !.todo = Members(g.cut),
                          !.atCheck = version, !.aliveAtCheck = pins[t] # None]
<1>3. gate'[t] = h
  BY <1>0, <1>1 DEF Decide
<1>4. h \in Gate
  <2>1. version \in Cut /\ Members(g.cut) \in SUBSET Artifacts /\ (pins[t] # None) \in BOOLEAN
    BY <1>0 DEF TypeOK, Cut, Members
  <2> QED
    BY ZenonT(60), <2>1 DEF Gate
<1>5. /\ h.cut = g.cut /\ h.mode = g.mode /\ h.outcome = "none" /\ h.stage = "check"
      /\ h.todo = Members(g.cut) /\ h.moved = g.moved /\ h.atCheck = version
  BY <1>2 DEF Gate
<1>6. MembersInv(h)
  <2>1. \A f \in Members(g.cut) : f \notin gone => g.cut[f] <= version[f]
    <3> SUFFICES ASSUME NEW f \in Members(g.cut), f \notin gone PROVE g.cut[f] <= version[f]
      OBVIOUS
    <3>1. f \in Artifacts /\ g.cut[f] \in Nat /\ g.atCheck[f] \in Nat /\ version[f] \in Nat
      BY SMTT(60), <1>0 DEF Gate, Members, Cut, TypeOK
    <3>2. g.cut[f] <= g.atCheck[f] /\ g.atCheck[f] <= version[f]
      BY <1>2 DEF MembersInv
    <3> QED
      BY <3>1, <3>2
  <2>2. \A f \in Members(g.cut) : version[f] <= version[f]
    BY SMTT(60), <1>0 DEF TypeOK, Members
  <2>3. g.moved \subseteq Members(g.cut) /\ \A f \in g.moved : version[f] # g.cut[f]
    BY <1>2 DEF MembersInv
  <2> HIDE DEF h
  <2> QED
    BY SMTT(60), <1>5, <2>1, <2>2, <2>3 DEF MembersInv
<1>7. UNCHANGED <<vars, closed>>
  BY SMTT(60) DEF Decide
<1> HIDE DEF h
<1> QED
  BY ZenonT(60), <1>1, <1>2, <1>3, <1>4, <1>5, <1>6, <1>7, LocalStep

\* DECIDE raises.
LEMMA RaiseStep ==
  ASSUME GatesInv, NEW t \in Tokens, DecideRaises(t)
  PROVE  Own(t)
<1>0. TypeOK /\ gate \in [Tokens -> Gate \cup {None}]
  BY DEF GatesInv, GateTypeOK
<1>1. PICK g \in Gate : g = gate[t] /\ g # None
  BY SMTT(60), <1>0 DEF DecideRaises, At
<1>2. g.stage = "decide" /\ g.outcome = "none" /\ MembersInv(g)
  BY <1>1 DEF DecideRaises, At, GatesInv, GateInv
<1> DEFINE h == [g EXCEPT !.stage = "release", !.outcome = "none"]
<1>3. gate'[t] = h /\ UNCHANGED <<vars, closed>>
  BY <1>0, <1>1 DEF DecideRaises, Finish
<1>4. h \in Gate
  BY ZenonT(60) DEF Gate
<1>5. /\ h.cut = g.cut /\ h.mode = g.mode /\ h.outcome = "none" /\ h.stage = "release"
      /\ h.todo = g.todo /\ h.moved = g.moved /\ h.atCheck = g.atCheck
  BY SMTT(60) DEF Gate
<1> HIDE DEF h
<1>6. MembersInv(h)
  BY <1>2, <1>5 DEF MembersInv
<1> QED
  BY ZenonT(60), <1>1, <1>2, <1>3, <1>4, <1>5, <1>6, LocalStep

\* One read of the check: a version between the start of the check and the pin
\* is both, and one that differs from the pin has moved.
LEMMA RevalidateStep ==
  ASSUME GatesInv, NEW t \in Tokens, NEW f \in Artifacts, Revalidate(t, f)
  PROVE  Own(t)
<1>0. TypeOK /\ gate \in [Tokens -> Gate \cup {None}] /\ gone \cap Live = {}
  BY DEF GatesInv, GateTypeOK
<1>1. PICK g \in Gate : g = gate[t] /\ g # None
  BY <1>0 DEF Revalidate, At
<1>2. g.stage = "check" /\ g.outcome = "none" /\ MembersInv(g) /\ f \in g.todo
  BY <1>1 DEF Revalidate, At, GatesInv, GateInv
<1> DEFINE m == IF Moved(g.cut, f) THEN g.moved \cup {f} ELSE g.moved
           h == [g EXCEPT !.todo = g.todo \ {f}, !.moved = m]
<1>3. gate'[t] = h /\ UNCHANGED <<vars, closed>>
  BY <1>0, <1>1 DEF Revalidate
<1>4. h \in Gate
  BY ZenonT(60) DEF Gate
<1>5. /\ h.cut = g.cut /\ h.mode = g.mode /\ h.outcome = "none" /\ h.stage = "check"
      /\ h.todo = g.todo \ {f} /\ h.moved = m /\ h.atCheck = g.atCheck
  BY <1>2 DEF Gate
<1>6. MembersInv(h)
  <2> DEFINE M == Members(g.cut)
  <2>0. /\ g.todo \subseteq M /\ g.moved \subseteq M /\ f \in M
        /\ \A x \in g.moved : version[x] # g.cut[x]
        /\ \A x \in M : /\ x \notin gone => g.cut[x] <= g.atCheck[x] /\ g.atCheck[x] <= version[x]
                        /\ x \notin g.todo \cup g.moved => g.atCheck[x] = g.cut[x]
    BY SMTT(60), <1>2 DEF MembersInv
  <2>1. version[f] = g.cut[f] => g.atCheck[f] = g.cut[f]
    <3>1. g.cut[f] \in Nat /\ g.atCheck[f] \in Nat /\ version[f] \in Nat /\ g.cut[f] > 0
      BY SMTT(60), <1>0, <2>0 DEF Gate, Members, Cut, TypeOK
    <3>2. version[f] = g.cut[f] => f \notin gone
      BY <1>0, <3>1 DEF Live
    <3> QED
      BY SMTT(60), <2>0, <3>1, <3>2
  <2>2. Moved(g.cut, f) <=> version[f] # g.cut[f]
    BY SMTT(60) DEF Moved
  <2>3. \A x \in m : version[x] # g.cut[x]
    BY SMTT(60), <2>0, <2>2
  <2>4. \A x \in M : x \notin (g.todo \ {f}) \cup m => g.atCheck[x] = g.cut[x]
    BY SMTT(60), <2>0, <2>1, <2>2
  <2>5. g.todo \ {f} \subseteq M /\ m \subseteq M
    BY SMTT(60), <2>0
  <2> HIDE DEF m, h
  <2> QED
    BY SMTT(60), <1>5, <2>0, <2>3, <2>4, <2>5 DEF MembersInv
<1> HIDE DEF h
<1> QED
  BY ZenonT(60), <1>1, <1>2, <1>3, <1>4, <1>5, <1>6, LocalStep

\* The check is over: an escaping gate fires or holds, an atomic one goes on to
\* its commit or holds.
LEMMA VerdictStep ==
  ASSUME GatesInv, NEW t \in Tokens, FireOrHold(t) \/ CommitOrHold(t)
  PROVE  Own(t)
<1>0. TypeOK /\ gate \in [Tokens -> Gate \cup {None}]
  BY DEF GatesInv, GateTypeOK
<1>1. PICK g \in Gate : g = gate[t] /\ g # None
  BY <1>0 DEF FireOrHold, CommitOrHold, Checked, At
<1>2. g.stage = "check" /\ g.todo = {} /\ g.outcome = "none" /\ MembersInv(g)
  BY <1>1 DEF FireOrHold, CommitOrHold, Checked, At, GatesInv, GateInv
<1>3. UNCHANGED <<vars, closed>>
  BY SMTT(60) DEF FireOrHold, CommitOrHold
<1>4. PICK h \in Gate :
        /\ gate'[t] = h /\ h.cut = g.cut /\ h.mode = g.mode
        /\ h.todo = g.todo /\ h.moved = g.moved /\ h.atCheck = g.atCheck
        /\ \/ /\ h.mode = "escaping" /\ h.stage = "release"
              /\ h.outcome = IF g.moved = {} THEN "fired" ELSE "held"
           \/ h.mode = "atomic" /\ h.stage = "release" /\ h.outcome = "held"
           \/ h.mode = "atomic" /\ h.stage = "commit" /\ h.outcome = "none"
  <2>1. ASSUME FireOrHold(t), NEW o \in {"fired", "held"}, o = IF g.moved = {} THEN "fired" ELSE "held"
        PROVE  gate'[t] = [g EXCEPT !.stage = "release", !.outcome = o] /\ g.mode = "escaping"
    BY SMTT(60), <1>0, <1>1, <2>1 DEF FireOrHold, Finish
  <2>2. CASE FireOrHold(t)
    <3>1. PICK o \in {"fired", "held"} : o = IF g.moved = {} THEN "fired" ELSE "held"
      OBVIOUS
    <3> DEFINE h == [g EXCEPT !.stage = "release", !.outcome = o]
    <3>2. gate'[t] = h /\ g.mode = "escaping"
      BY ZenonT(60), <2>1, <2>2, <3>1
    <3>3. h \in Gate /\ h.cut = g.cut /\ h.mode = g.mode /\ h.todo = g.todo /\ h.moved = g.moved
          /\ h.atCheck = g.atCheck /\ h.stage = "release" /\ h.outcome = o
      BY ZenonT(60) DEF Gate
    <3> HIDE DEF h
    <3> QED
      BY SMTT(60), <3>1, <3>2, <3>3
  <2>3. CASE CommitOrHold(t) /\ g.target \in g.moved
    <3> DEFINE h == [g EXCEPT !.stage = "release", !.outcome = "held"]
    <3>2. gate'[t] = h /\ g.mode = "atomic"
      BY ZenonT(60), <1>0, <1>1, <2>3 DEF CommitOrHold, Finish
    <3>3. h \in Gate /\ h.cut = g.cut /\ h.mode = g.mode /\ h.todo = g.todo /\ h.moved = g.moved
          /\ h.atCheck = g.atCheck /\ h.stage = "release" /\ h.outcome = "held"
      BY ZenonT(60) DEF Gate
    <3> HIDE DEF h
    <3> QED
      BY <3>2, <3>3
  <2>4. CASE CommitOrHold(t) /\ g.target \notin g.moved
    <3> DEFINE h == [g EXCEPT !.stage = "commit"]
    <3>2. gate'[t] = h /\ g.mode = "atomic"
      BY <1>0, <1>1, <2>4 DEF CommitOrHold
    <3>3. h \in Gate /\ h.cut = g.cut /\ h.mode = g.mode /\ h.todo = g.todo /\ h.moved = g.moved
          /\ h.atCheck = g.atCheck /\ h.stage = "commit" /\ h.outcome = "none"
      BY SMTT(60), <1>2 DEF Gate
    <3> HIDE DEF h
    <3> QED
      BY <3>2, <3>3
  <2> QED
    BY <2>2, <2>3, <2>4
<1>5. MembersInv(h)
  BY SMTT(60), <1>2, <1>4 DEF MembersInv
<1> QED
  BY ZenonT(60), <1>1, <1>2, <1>3, <1>4, <1>5, LocalStep

\* PIN: the session is fresh, and its cut is what the registry holds.
LEMMA GateBeginStep ==
  ASSUME GatesInv, NEW t \in Tokens, NEW caller \in Callers, NEW F \in SUBSET Artifacts,
         NEW mode \in {"escaping", "atomic"}, NEW target \in Artifacts, NEW release \in BOOLEAN,
         GateBegin(t, caller, F, mode, target, release)
  PROVE  Own(t)
<1>0. TypeOK /\ gate \in [Tokens -> Gate \cup {None}] /\ gone \cap Live = {}
  BY SMTT(60) DEF GatesInv, GateTypeOK
<1>1. opened[t] = None /\ F \subseteq Live
  BY SMTT(60) DEF GateBegin, begin_session, capture_version_vector
<1>2. t \notin closed /\ call[t] = None
  BY ZenonT(60), <1>1 DEF GatesInv, SessionsInv, SessionInv
<1>3. Committed(t) = {}
  BY ZenonT(60), <1>1 DEF Committed, GatesInv, SessionsInv
<1>4. CutOf(F) \in Cut /\ Members(CutOf(F)) = F
  BY SMTT(60), <1>0, <1>1 DEF CutOf, Cut, TypeOK, Members, Live
<1> DEFINE o == [owner |-> caller, created |-> now, cut |-> CutOf(F)]
<1>5. /\ opened'[t] = o
      /\ pins'[t] = CutOf(F)
      /\ UNCHANGED <<closed, call, commits, version, gone>>
  BY SMTT(60), <1>0 DEF GateBegin, begin_session, capture_version_vector, TypeOK
<1>6. o \in Opening /\ o # None /\ o.cut = CutOf(F)
  BY SMTT(60), <1>0, <1>4, NoneIsNoValue DEF Opening, TypeOK
<1> DEFINE h == [mode |-> mode, owner |-> caller, cut |-> CutOf(F), target |-> target,
                 release |-> release, stage |-> "decide", todo |-> {}, moved |-> {},
                 outcome |-> "none", atCheck |-> CutOf(F), aliveAtCheck |-> TRUE]
<1>7. gate'[t] = h
  BY ZenonT(60), <1>0, <1>5 DEF GateBegin
<1>8. PICK g \in Gate : g = h
  BY ZenonT(60), <1>4 DEF Gate
<1>9. /\ gate'[t] = g /\ g.cut = CutOf(F) /\ g.atCheck = CutOf(F) /\ g.todo = {} /\ g.moved = {}
      /\ g.outcome = "none" /\ g.stage = "decide"
  BY SMTT(60), <1>7, <1>8
<1> HIDE DEF h, o
<1>10. MembersInv(g)'
  <2>1. \A f \in F : /\ CutOf(F)[f] = version[f] /\ CutOf(F)[f] \in Nat
    BY SMTT(60), <1>0 DEF CutOf, TypeOK
  <2>2. \A f \in F : CutOf(F)[f] <= CutOf(F)[f] /\ CutOf(F)[f] <= version[f]
    BY SMTT(60), <2>1
  <2> QED
    BY ZenonT(60), <1>4, <1>5, <1>9, <2>1, <2>2 DEF MembersInv
<1>11. Committed(t)' = {}
  BY SMTT(60), <1>3, <1>5 DEF Committed
<1>12. GateInv(t)'
  BY ZenonT(60), <1>2, <1>5, <1>6, <1>9, <1>10, <1>11 DEF GateInv
<1> QED
  BY SMTT(60), <1>2, <1>5, <1>6, <1>9, <1>12 DEF Own

\* The commit call starts and is checked: nothing is published yet.
LEMMA GateCallStep ==
  ASSUME GatesInv, NEW t \in Tokens, UNCHANGED <<registry, service, now, ghosts, closed>>,
         gate[t] # None, gate[t].stage \in {"commit", "committing"},
         NEW h \in Gate, gate'[t] = h,
         h.cut = gate[t].cut, h.mode = gate[t].mode, h.target = gate[t].target,
         h.todo = gate[t].todo, h.moved = gate[t].moved, h.atCheck = gate[t].atCheck,
         h.outcome = "none", h.stage \in {"committing", "release"},
         call'[t] # None => h.stage = "committing" /\ call'[t].on = {h.target}
  PROVE  Own(t)
<1>1. /\ opened[t] # None /\ t \notin closed /\ gate[t].cut = opened[t].cut
      /\ gate[t].mode = "atomic" /\ gate[t].outcome = "none"
      /\ Committed(t) = {} /\ MembersInv(gate[t])
  BY SMTT(60) DEF GatesInv, GateInv
<1>2. /\ opened' = opened /\ closed' = closed
      /\ version' = version /\ gone' = gone /\ commits' = commits
  BY SMTT(60) DEF registry, ghosts
<1>3. MembersInv(h)'
  BY ZenonT(60), <1>1, <1>2 DEF MembersInv
<1>4. Committed(t)' = {}
  BY SMTT(60), <1>1, <1>2 DEF Committed
<1>5. GateInv(t)'
  BY ZenonT(60), <1>1, <1>2, <1>3, <1>4 DEF GateInv
<1> QED
  BY ZenonT(60), <1>1, <1>2, <1>5, NoneIsNoGate DEF Own, At

\* The three steps of the gate's own session_commit; only the last publishes, on
\* top of the pinned version.
LEMMA GateCommitStep ==
  ASSUME GatesInv, NEW t \in Tokens, GateCommit(t), TypeOK', Grows
  PROVE  Own(t)
<1>0. TypeOK /\ gate \in [Tokens -> Gate \cup {None}]
  BY DEF GatesInv, GateTypeOK
<1>1. PICK g \in Gate : g = gate[t] /\ g # None
  BY <1>0 DEF GateCommit, At
<1>2. /\ opened[t] # None /\ t \notin closed /\ g.cut = opened[t].cut
      /\ g.stage \in {"commit", "committing"} /\ g.mode = "atomic" /\ g.outcome = "none"
      /\ Committed(t) = {} /\ MembersInv(g)
  BY ZenonT(60), <1>1 DEF GateCommit, At, GatesInv, GateInv
<1>3. CASE /\ At(t, "commit")
           /\ StartCall(t, "commit", gate[t].owner, {gate[t].target})
           /\ gate' = [gate EXCEPT ![t].stage = "committing"]
           /\ UNCHANGED closed
  <2> DEFINE h == [g EXCEPT !.stage = "committing"]
  <2>1. gate'[t] = h /\ UNCHANGED <<registry, service, now, ghosts, closed>>
    BY <1>0, <1>1, <1>3 DEF StartCall
  <2>2. call'[t].on = {g.target}
    BY ZenonT(60), <1>0, <1>1, <1>3 DEF StartCall, TypeOK
  <2>3. /\ h \in Gate /\ h.cut = g.cut /\ h.mode = g.mode /\ h.target = g.target
        /\ h.todo = g.todo /\ h.moved = g.moved /\ h.atCheck = g.atCheck
        /\ h.outcome = "none" /\ h.stage = "committing"
    BY <1>2 DEF Gate
  <2> HIDE DEF h
  <2> QED
    BY ZenonT(60), <1>1, <1>2, <2>1, <2>2, <2>3, GateCallStep
<1>4. CASE /\ At(t, "committing")
           /\ CheckCall(t)
           /\ IF call'[t] = None THEN Finish(t, "none") ELSE UNCHANGED gate
           /\ UNCHANGED closed
  <2>1. UNCHANGED <<registry, service, now, ghosts, closed>>
    BY <1>4 DEF CheckCall
  <2>2. call[t] # None /\ call[t] \in Call /\ call[t].on = {g.target}
    BY ZenonT(60), <1>0, <1>1, <1>4 DEF CheckCall, TypeOK, GatesInv
  <2>3. CASE call'[t] = None
    <3> DEFINE h == [g EXCEPT !.stage = "release", !.outcome = "none"]
    <3>1. gate'[t] = h
      BY ZenonT(60), <1>0, <1>1, <1>4, <2>3 DEF Finish
    <3>2. /\ h \in Gate /\ h.cut = g.cut /\ h.mode = g.mode /\ h.target = g.target
          /\ h.todo = g.todo /\ h.moved = g.moved /\ h.atCheck = g.atCheck
          /\ h.outcome = "none" /\ h.stage = "release"
      BY ZenonT(60) DEF Gate
    <3> HIDE DEF h
    <3> QED
      BY ZenonT(60), <1>1, <1>2, <2>1, <2>3, <3>1, <3>2, GateCallStep
  <2>4. CASE call'[t] # None
    <3>1. gate'[t] = g /\ g.stage = "committing"
      BY SMTT(60), <1>1, <1>4, <2>4 DEF At
    <3>2. call'[t].on = {g.target}
      BY ZenonT(60), <1>0, <1>4, <2>2, <2>4 DEF CheckCall, TypeOK, Call
    <3> QED
      BY ZenonT(60), <1>1, <1>2, <2>1, <3>1, <3>2, GateCallStep
  <2> QED
    BY <2>3, <2>4
<1>5. CASE /\ At(t, "committing")
           /\ session_commit(t)
           /\ Finish(t, CASE CutWins(call[t]) -> "fired"
                          [] gate[t].target \in Live /\ ~CutWins(call[t]) -> "held"
                          [] OTHER -> "none")
           /\ UNCHANGED closed
  <2>1. PICK o \in {"fired", "held", "none"} :
             /\ o = "fired" <=> CutWins(call[t])
             /\ gate' = [gate EXCEPT ![t].stage = "release", ![t].outcome = o]
    BY ZenonT(60), <1>5 DEF Finish
  <2> DEFINE h == [g EXCEPT !.stage = "release", !.outcome = o]
  <2>2. gate'[t] = h
    BY <1>0, <1>1, <2>1
  <2>3. /\ h \in Gate /\ h.cut = g.cut /\ h.mode = g.mode /\ h.target = g.target
        /\ h.todo = g.todo /\ h.moved = g.moved /\ h.atCheck = g.atCheck
        /\ h.outcome = o /\ h.stage = "release"
    BY ZenonT(60) DEF Gate
  <2> HIDE DEF h
  <2>4. MembersInv(h)'
    <3>1. MembersInv(g)'
      BY SMTT(60), <1>0, <1>2, MembersStay
    <3> QED
      BY SMTT(60), <2>3, <3>1 DEF MembersInv
  <2>5. call'[t] = None /\ UNCHANGED <<opened, closed>>
    BY ZenonT(60), <1>0, <1>5 DEF session_commit, TypeOK
  <2>6. /\ call[t] # None /\ call[t].on = {g.target} /\ call[t].cut = g.cut
    BY ZenonT(60), <1>1, <1>2, <1>5 DEF session_commit, Ready, GatesInv, SessionsInv, SessionInv
  <2>7. Committed(t)' = IF o = "fired" THEN {<<t, g.target, g.cut[g.target]>>} ELSE {}
    <3>1. CASE CutWins(call[t])
      <4>1. g.cut[g.target] = version[g.target]
        BY <2>6, <3>1 DEF CutWins
      <4>2. commits' = commits \cup {<<t, f, version[f]>> : f \in call[t].on}
        BY SMTT(60), <1>5, <3>1 DEF session_commit
      <4>3. commits' = commits \cup {<<t, g.target, g.cut[g.target]>>}
        BY <2>6, <4>1, <4>2
      <4> QED
        BY SMTT(60), <1>2, <2>1, <3>1, <4>3 DEF Committed
    <3>2. CASE ~CutWins(call[t])
      BY ZenonT(60), <1>2, <1>5, <2>1, <3>2 DEF session_commit, Committed
    <3> QED
      BY <3>1, <3>2
  <2>8. GateInv(t)'
    BY ZenonT(60), <1>2, <2>2, <2>3, <2>4, <2>5, <2>7 DEF GateInv
  <2> QED
    BY ZenonT(60), <1>2, <2>2, <2>3, <2>5, <2>8 DEF Own
<1> QED
  BY SMTT(60), <1>3, <1>4, <1>5 DEF GateCommit

\* The gate ends: it leaves the session open, or releases it in the registry and
\* then in the service, and only then is the token closed.
LEMMA GateEndStep ==
  ASSUME GatesInv, NEW t \in Tokens, Teardown(t) \/ KeepSession(t)
  PROVE  Own(t) /\ UNCHANGED <<call, opened>> /\ closed' \subseteq closed \cup {t}
         /\ (t \in closed' => Dead(t)')
<1>0. TypeOK /\ gate \in [Tokens -> Gate \cup {None}]
  BY DEF GatesInv, GateTypeOK
<1>1. PICK g \in Gate : g = gate[t] /\ g # None
  BY SMTT(60), <1>0 DEF Teardown, KeepSession, At
<1>2. /\ opened[t] # None /\ t \notin closed /\ g.stage \in {"release", "drop"}
      /\ call[t] = None /\ GateInv(t) /\ MembersInv(g)
  BY ZenonT(60), <1>1 DEF Teardown, KeepSession, At, GatesInv, GateInv
<1>3. CASE /\ At(t, "release") /\ gate[t].release
           /\ release_session(t)
           /\ gate' = [gate EXCEPT ![t].stage = "drop"]
           /\ UNCHANGED <<version, gone, owned, rows, service, call, now, ghosts, closed>>
  <2> DEFINE h == [g EXCEPT !.stage = "drop"]
  <2>1. gate'[t] = h /\ UNCHANGED <<call, opened, closed, commits, version, gone>>
    BY <1>0, <1>1, <1>3 DEF ghosts
  <2>2. pins'[t] = None /\ meta'[t] = None
    BY <1>0, <1>3 DEF release_session, TypeOK
  <2>3. /\ h \in Gate /\ h.cut = g.cut /\ h.mode = g.mode /\ h.target = g.target
        /\ h.todo = g.todo /\ h.moved = g.moved /\ h.atCheck = g.atCheck
        /\ h.outcome = g.outcome /\ h.stage = "drop"
    BY SMTT(60) DEF Gate
  <2> HIDE DEF h
  <2>4. MembersInv(h)'
    BY SMTT(60), <1>2, <2>1, <2>3 DEF MembersInv
  <2>5. Committed(t)' = Committed(t)
    BY SMTT(60), <2>1 DEF Committed
  <2>6. GateInv(t)'
    BY ZenonT(60), <1>1, <1>2, <2>1, <2>2, <2>3, <2>4, <2>5 DEF GateInv
  <2> QED
    BY <1>2, <2>1, <2>3, <2>6 DEF Own
<1>4. CASE /\ At(t, "drop")
           /\ drop_service_state(t)
           /\ gate' = [gate EXCEPT ![t] = None]
           /\ closed' = closed \cup {t}
           /\ UNCHANGED <<registry, call, now, ghosts>>
  <2>1. gate'[t] = None /\ UNCHANGED <<call, opened>>
    BY SMTT(60), <1>0, <1>4 DEF ghosts
  <2>2. Dead(t)'
    <3>1. pins[t] = None /\ meta[t] = None /\ UNCHANGED <<pins, meta>>
      BY ZenonT(60), <1>1, <1>2, <1>4 DEF At, GateInv, registry
    <3> QED
      BY ZenonT(60), <1>0, <1>4, <3>1 DEF Dead, drop_service_state, TypeOK
  <2> QED
    BY ZenonT(60), <1>2, <1>4, <2>1, <2>2 DEF Own, GateInv
<1>5. CASE KeepSession(t)
  <2>1. gate'[t] = None /\ UNCHANGED <<call, opened, closed>>
    BY SMTT(60), <1>0, <1>5 DEF KeepSession, vars, ghosts
  <2> QED
    BY ZenonT(60), <1>2, <2>1 DEF Own, GateInv
<1> QED
  BY <1>3, <1>4, <1>5 DEF Teardown

\* The step of one gate as another session sees it.
LEMMA OthersQuiet ==
  ASSUME GatesInv, NEW t \in Tokens, GateStep(t), NEW u \in Tokens, u # t
  PROVE  Quiet(u) /\ call'[u] = call[u] /\ opened'[u] = opened[u] /\ gate'[u] \in Gate \cup {None}
         /\ (u \in closed' => u \in closed)
<1>0. TypeOK /\ gate \in [Tokens -> Gate \cup {None}]
  BY DEF GatesInv, GateTypeOK
<1>1. gate'[u] = gate[u]
  BY ZenonT(60), <1>0 DEF GateStep, GateBegin, Decide, DecideRaises, Revalidate, FireOrHold, CommitOrHold,
              GateCommit, Teardown, KeepSession, Finish
<1>2. u \in closed' => u \in closed
  BY ZenonT(60) DEF GateStep, GateBegin, Decide, DecideRaises, Revalidate, FireOrHold, CommitOrHold,
         GateCommit, Teardown, KeepSession
<1>3. CASE UNCHANGED <<pins, meta, opened, commits, call>>
  BY SMTT(60), <1>0, <1>1, <1>2, <1>3 DEF Quiet, Committed
<1>4. ASSUME NEW caller \in Callers, NEW F \in SUBSET Artifacts, begin_session(t, caller, F, now)
      PROVE  UNCHANGED <<commits, call>> /\ opened'[u] = opened[u] /\ pins'[u] = pins[u] /\ meta'[u] = meta[u]
  BY <1>0, <1>4 DEF begin_session, capture_version_vector, TypeOK
<1>5. CASE GateCommit(t)
  <2>1. UNCHANGED <<pins, meta, opened>> /\ call'[u] = call[u]
    BY ZenonT(60), <1>0, <1>5 DEF GateCommit, StartCall, CheckCall, session_commit, registry, ghosts, TypeOK
  <2>2. Committed(u)' = Committed(u)
    <3>1. commits' = commits \/ commits' = commits \cup {<<t, f, version[f]>> : f \in call[t].on}
      BY SMTT(60), <1>5 DEF GateCommit, StartCall, CheckCall, session_commit, ghosts
    <3> QED
      BY <3>1 DEF Committed
  <2> QED
    BY ZenonT(60), <1>0, <1>1, <1>2, <2>1, <2>2 DEF Quiet
<1>6. CASE Teardown(t)
  <2>1. UNCHANGED <<opened, commits, call>> /\ pins'[u] = pins[u] /\ meta'[u] = meta[u]
    BY SMTT(60), <1>0, <1>6 DEF Teardown, release_session, registry, ghosts, TypeOK
  <2> QED
    BY SMTT(60), <1>0, <1>1, <1>2, <2>1 DEF Quiet, Committed
<1>7. CASE \E caller \in Callers, F \in SUBSET Artifacts : begin_session(t, caller, F, now)
  BY ZenonT(60), <1>0, <1>1, <1>2, <1>4, <1>7 DEF Quiet, Committed
<1>8. CASE UNCHANGED vars
  BY SMTT(60), <1>3, <1>8 DEF vars, registry, ghosts
<1> QED
  BY ZenonT(60), <1>5, <1>6, <1>7, <1>8
     DEF GateStep, GateBegin, Decide, DecideRaises, Revalidate, FireOrHold, CommitOrHold, KeepSession

-----------------------------------------------------------------------------
(* The invariant of the gates, and what follows.                           *)

\* No gate, no call, no closed token.
LEMMA GateInitInv == GateInit => GatesInv
<1> SUFFICES ASSUME GateInit PROVE GatesInv
  OBVIOUS
<1>1. SessionsInv /\ TypeOK
  BY SMTT(60), InitInv DEF GateInit, SessionsInv
<1>2. gone = {} /\ closed = {} /\ call = Empty(Tokens) /\ gate = Empty(Tokens)
  BY DEF GateInit, Init
<1>3. GateTypeOK
  BY <1>1, <1>2 DEF GateTypeOK, Empty
<1> QED
  BY ZenonT(60), <1>1, <1>2, <1>3 DEF GatesInv, GateInv, NoResurrection, Empty

\* The state of the sessions under a step of the gates.
LEMMA GatesKeepSessions ==
  ASSUME GatesInv, [GateNext]_gateVars
  PROVE  SessionsInv' /\ TypeOK' /\ Grows
<1>1. [Next]_vars \/ \E t \in Tokens : Teardown(t)
  BY SMTT(60), GateIsSessionStep DEF GatesInv
<1>2. CASE [Next]_vars
  BY ZenonT(60), <1>2, NextInv, NextGrows DEF GatesInv, SessionsInv
<1>3. ASSUME NEW t \in Tokens, Teardown(t) PROVE SessionsInv' /\ TypeOK' /\ Grows
  <2>1. SessionsInv' /\ UNCHANGED <<version, gone>>
    BY SMTT(60), <1>3, TeardownSessions DEF GatesInv
  <2>2. \A f \in Artifacts : version[f] \in Nat /\ version[f] <= version[f]
    BY DEF GatesInv, GateTypeOK, TypeOK
  <2> QED
    BY ZenonT(60), <2>1, <2>2 DEF Grows, Live, GatesInv, SessionsInv
<1> QED
  BY SMTT(60), <1>1, <1>2, <1>3

\* A closed token stays dead, and a token is closed dead.
LEMMA ClosedAreDead ==
  ASSUME GatesInv, [GateNext]_gateVars
  PROVE  NoResurrection'
<1> SUFFICES ASSUME NEW u \in closed' PROVE Dead(u)'
  BY SMTT(60) DEF NoResurrection, Dead
<1>0. TypeOK /\ closed \in SUBSET Tokens
  BY SMTT(60) DEF GatesInv, GateTypeOK
<1>1. CASE u \in closed
  <2>1. u \in Tokens /\ Dead(u) /\ opened[u] # None
    BY SMTT(60), <1>0, <1>1 DEF GatesInv, NoResurrection, Dead
  <2>2. CASE [Next]_vars
    BY SMTT(60), <2>1, <2>2, DeadStays DEF GatesInv
  <2>3. ASSUME NEW t \in Tokens, Teardown(t) PROVE Dead(u)'
    <3>1. t # u
      BY ZenonT(60), <1>1, <2>3 DEF Teardown, At, GatesInv, GateInv
    <3> QED
      BY ZenonT(60), <1>0, <2>1, <2>3, <3>1
         DEF Teardown, Dead, release_session, drop_service_state, registry, service, TypeOK
  <2> QED
    BY SMTT(60), <2>2, <2>3, GateIsSessionStep DEF GatesInv
<1>2. CASE u \notin closed
  <2>1. PICK t \in Tokens : GateStep(t)
    BY SMTT(60), <1>2 DEF GateNext, gateVars
  <2>2. Teardown(t)
    BY ZenonT(60), <1>2, <2>1 DEF GateStep, GateBegin, Decide, DecideRaises, Revalidate, FireOrHold,
                      CommitOrHold, GateCommit, KeepSession
  <2>3. closed' \subseteq closed \cup {t} /\ (t \in closed' => Dead(t)')
    BY SMTT(60), <2>2, GateEndStep
  <2> QED
    BY <1>2, <2>3
<1> QED
  BY SMTT(60), <1>1, <1>2

\* The invariant of the gates is inductive.
LEMMA GateNextInv == GatesInv /\ [GateNext]_gateVars => GatesInv'
<1> SUFFICES ASSUME GatesInv, [GateNext]_gateVars PROVE GatesInv'
  OBVIOUS
<1>0. GateTypeOK
  BY DEF GatesInv
<1>1. SessionsInv' /\ TypeOK' /\ Grows /\ NoResurrection'
  BY GatesKeepSessions, ClosedAreDead
<1>2. gone' \cap Live' = {}
  BY <1>1 DEF Grows
<1>3. ASSUME NEW u \in Tokens PROVE Own(u)
  <2>0. /\ gate[u] \in Gate \cup {None}
        /\ call[u] # None => At(u, "committing") /\ call[u].on = {gate[u].target}
        /\ u \in closed => opened[u] # None
    BY SMTT(60), <1>0 DEF GateTypeOK, GatesInv
  <2>1. ASSUME Quiet(u), call'[u] = call[u], opened[u] # None => opened'[u] # None,
               u \in closed' => u \in closed
        PROVE  Own(u)
    <3>1. GateInv(u)'
      BY SMTT(60), <1>1, <2>1, QuietGate
    <3>2. gate'[u] = gate[u]
      BY <2>1 DEF Quiet
    <3> QED
      BY SMTT(60), <2>0, <2>1, <3>1, <3>2 DEF Own, At
  <2>2. ASSUME NEW t \in Tokens, GateStep(t) PROVE Own(u)
    <3>1. CASE u # t
      BY ZenonT(60), <2>1, <2>2, <3>1, OthersQuiet
    <3>2. CASE u = t
      BY ZenonT(60), <1>1, <2>2, <3>2, GateBeginStep, DecideStep, RaiseStep, RevalidateStep, VerdictStep,
         GateCommitStep, GateEndStep DEF GateStep
    <3> QED
      BY SMTT(60), <3>1, <3>2
  <2>3. CASE /\ AgentStep({}) \/ (\E t \in Tokens : SessionStep(t)) \/ Tick \/ UNCHANGED vars
             /\ UNCHANGED <<gate, closed>>
    BY ZenonT(60), <2>1, <2>3, OutsideIsQuiet DEF GatesInv
  <2>4. CASE Restart /\ gate' = Empty(Tokens) /\ UNCHANGED closed
    BY ZenonT(60), <2>0, <2>4 DEF Restart, Empty, Own, GateInv, ghosts
  <2>5. CASE UNCHANGED gateVars
    BY <2>3, <2>5 DEF gateVars
  <2> QED
    BY ZenonT(60), <2>2, <2>3, <2>4, <2>5 DEF GateNext
<1>4. GateTypeOK'
  <2>1. ASSUME NEW t \in Tokens, GateStep(t)
        PROVE  gate' = [u \in Tokens |-> gate'[u]] /\ closed' \in SUBSET Tokens
    BY ZenonT(60), <1>0, <2>1 DEF GateTypeOK, GateStep, GateBegin, Decide, DecideRaises, Revalidate,
                      FireOrHold, CommitOrHold, GateCommit, Teardown, KeepSession, Finish
  <2>2. gate' = [u \in Tokens |-> gate'[u]] /\ closed' \in SUBSET Tokens
    BY SMTT(60), <1>0, <2>1 DEF GateTypeOK, GateNext, gateVars, Empty
  <2>3. \A u \in Tokens : gate'[u] \in Gate \cup {None}
    BY <1>3 DEF Own
  <2> QED
    BY SMTT(60), <1>1, <2>2, <2>3 DEF GateTypeOK
<1> QED
  BY SMTT(60), <1>1, <1>2, <1>3, <1>4 DEF GatesInv, Own

\* The invariant of gates and sessions together, over every interleaving of gates
\* with agents, sweeps, heartbeats and restarts.
THEOREM GatesInvariance == GateSpec => []GatesInv
  BY GateInitInv, GateNextInv, PTL DEF GateSpec

\* An escaping gate's verdict is true although it reads the members one by one.
THEOREM EscapingVerdictsAreTrue == GateSpec => []EscapingVerdict
<1>1. GatesInv => EscapingVerdict
  <2> SUFFICES ASSUME GatesInv, NEW t \in Tokens, gate[t] # None, gate[t].mode = "escaping"
               PROVE  LET g == gate[t] IN
                      /\ g.outcome = "fired" => \A f \in Members(g.cut) : g.atCheck[f] = g.cut[f]
                      /\ g.outcome = "held" => \E f \in Members(g.cut) : version[f] # g.cut[f]
    BY DEF EscapingVerdict
  <2>1. PICK g : g = gate[t]
    OBVIOUS
  <2>2. /\ MembersInv(g)
        /\ g.outcome = "fired" => g.todo = {} /\ g.moved = {}
        /\ g.outcome = "held" => g.moved # {}
    BY ZenonT(60), <2>1 DEF GatesInv, GateInv
  <2> QED
    BY SMTT(60), <2>1, <2>2 DEF MembersInv
<1> QED
  BY <1>1, GatesInvariance, PTL

\* An atomic gate reports exactly what it published.
THEOREM AtomicVerdictsAreTrue == GateSpec => []AtomicVerdict
<1>1. GatesInv => AtomicVerdict
  BY SMTT(60) DEF GatesInv, GateInv, AtomicVerdict, GateTypeOK, Gate
<1> QED
  BY <1>1, GatesInvariance, PTL

\* In both modes the verdict of effect_gate is what happened.
THEOREM VerdictsAreTrue == GateSpec => []VerdictIsTrue
<1>1. EscapingVerdict /\ AtomicVerdict => VerdictIsTrue
  BY DEF VerdictIsTrue
<1> QED
  BY <1>1, EscapingVerdictsAreTrue, AtomicVerdictsAreTrue, PTL

\* A gate that has torn its session down leaves nothing of it, for good.
THEOREM TornDownForGood == GateSpec => []NoResurrection
<1>1. GatesInv => NoResurrection
  BY DEF GatesInv
<1> QED
  BY <1>1, GatesInvariance, PTL

\* The gate's state keeps its type, and so does the session state under it.
THEOREM GatesAreTyped == GateSpec => []GateTypeOK
<1>1. GatesInv => GateTypeOK
  BY DEF GatesInv
<1> QED
  BY <1>1, GatesInvariance, PTL

\* What sessions promise holds under gates too: pinned bodies stay, only owners
\* are admitted, every commit is at its pin.
THEOREM GatesKeepSessionPromises ==
  GateSpec => [](PinnedBodyKept /\ OnlyOwnerAdmitted /\ OneCommitPerPin)
<1>1. GatesInv => PinnedBodyKept /\ OnlyOwnerAdmitted /\ OneCommitPerPin
  BY ZenonT(60) DEF GatesInv, SessionsInv, SessionInv, OnlyOwnerAdmitted
<1> QED
  BY <1>1, GatesInvariance, PTL
=============================================================================
