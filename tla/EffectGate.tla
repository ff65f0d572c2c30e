----------------------------- MODULE EffectGate -----------------------------
(***************************************************************************)
(* CoordinatorService.effect_gate: open a session, let the caller decide,  *)
(* re-read the version of every pinned artifact, then fire.  An escaping   *)
(* gate runs a callable when nothing moved; an atomic gate publishes one   *)
(* artifact with session_commit.  No lock is held across the gate, so      *)
(* agents, sweeps, heartbeats and restarts come between any two steps.     *)
(*                                                                         *)
(* The decide callback is opaque: it ends or raises.  What it reads of the *)
(* cut changes no state, so the only session call here is the gate's own   *)
(* commit.  The agents publish without bodies, which the gate never reads. *)
(***************************************************************************)
EXTENDS Sessions

VARIABLES
  gate,     \* token -> the gate in progress on the session it opened
  closed    \* history: tokens whose gate has torn its session down

gateVars == <<vars, gate, closed>>

Gate == [mode : {"escaping", "atomic"}, owner : Callers, cut : Cut,
         target : Artifacts, release : BOOLEAN,
         stage : {"decide", "check", "commit", "committing", "release", "drop"},
         todo : SUBSET Artifacts, moved : SUBSET Artifacts,
         outcome : {"none", "fired", "held"},
         atCheck : Cut, aliveAtCheck : BOOLEAN]  \* history: the start of the check

ASSUME NoneIsNoGate == None \notin Gate

GateTypeOK ==
  /\ TypeOK
  /\ gate \in [Tokens -> Gate \cup {None}]
  /\ closed \in SUBSET Tokens

GateInit == Init /\ gate = Empty(Tokens) /\ closed = {}

Members(cut) == {f \in Artifacts : cut[f] > 0}

At(t, stage) == gate[t] # None /\ gate[t].stage = stage

Finish(t, outcome) == gate' = [gate EXCEPT ![t].stage = "release", ![t].outcome = outcome]

\* PIN.
GateBegin(t, caller, F, mode, target, release) ==
  /\ begin_session(t, caller, F, now)
  /\ gate' = [gate EXCEPT ![t] =
       [mode |-> mode, owner |-> caller, cut |-> pins'[t], target |-> target,
        release |-> release, stage |-> "decide", todo |-> {}, moved |-> {},
        outcome |-> "none", atCheck |-> pins'[t], aliveAtCheck |-> TRUE]]
  /\ UNCHANGED closed

\* DECIDE returns, and re-validation of the gate's own copy of the cut begins.
Decide(t) ==
  /\ At(t, "decide")
  /\ gate' = [gate EXCEPT ![t].stage = "check", ![t].todo = Members(gate[t].cut),
                          ![t].atCheck = version, ![t].aliveAtCheck = pins[t] # None]
  /\ UNCHANGED <<vars, closed>>

DecideRaises(t) ==
  /\ At(t, "decide")
  /\ Finish(t, "none")
  /\ UNCHANGED <<vars, closed>>

\* Mutant: an artifact that is gone counts as unmoved.
Moved_IgnoresVanished(cut, f) == f \in Live /\ version[f] # cut[f]

\* A member moved when its current version is not the pin; a deleted artifact
\* has no current version.
Moved(cut, f) == version[f] # cut[f]

\* One registry read of _revalidate_cut.
Revalidate(t, f) ==
  /\ At(t, "check") /\ f \in gate[t].todo
  /\ gate' = [gate EXCEPT ![t].todo = @ \ {f},
                          ![t].moved = IF Moved(gate[t].cut, f) THEN @ \cup {f} ELSE @]
  /\ UNCHANGED <<vars, closed>>

Checked(t) == At(t, "check") /\ gate[t].todo = {}

\* _effect_gate_escaping.
FireOrHold(t) ==
  /\ Checked(t) /\ gate[t].mode = "escaping"
  /\ Finish(t, IF gate[t].moved = {} THEN "fired" ELSE "held")
  /\ UNCHANGED <<vars, closed>>

\* _effect_gate_atomic: only a move of the commit target holds the gate here.
CommitOrHold(t) ==
  /\ Checked(t) /\ gate[t].mode = "atomic"
  /\ IF gate[t].target \in gate[t].moved THEN Finish(t, "held")
     ELSE gate' = [gate EXCEPT ![t].stage = "commit"]
  /\ UNCHANGED <<vars, closed>>

\* The three steps of its session_commit; a rejected one raises.
GateCommit(t) ==
  \/ /\ At(t, "commit")
     /\ StartCall(t, "commit", gate[t].owner, {gate[t].target})
     /\ gate' = [gate EXCEPT ![t].stage = "committing"]
     /\ UNCHANGED closed
  \/ /\ At(t, "committing")
     /\ CheckCall(t)
     /\ IF call'[t] = None THEN Finish(t, "none") ELSE UNCHANGED gate
     /\ UNCHANGED closed
  \/ /\ At(t, "committing")
     /\ session_commit(t)
     /\ Finish(t, CASE CutWins(call[t]) -> "fired"
                    [] gate[t].target \in Live /\ ~CutWins(call[t]) -> "held"
                    [] OTHER -> "none")
     /\ UNCHANGED closed

\* Mutant: the service's maps are cleared before the registry.
Teardown_ServiceFirst(t) ==
  \/ /\ At(t, "release") /\ gate[t].release
     /\ drop_service_state(t)
     /\ gate' = [gate EXCEPT ![t].stage = "drop"]
     /\ UNCHANGED <<registry, call, now, ghosts, closed>>
  \/ /\ At(t, "drop")
     /\ release_session(t)
     /\ gate' = [gate EXCEPT ![t] = None]
     /\ closed' = closed \cup {t}
     /\ UNCHANGED <<version, gone, owned, rows, service, call, now, ghosts>>

\* _drop_session_state: the registry first, then the service's maps.  Only the
\* second part holds the session lock.
Teardown(t) ==
  \/ /\ At(t, "release") /\ gate[t].release
     /\ release_session(t)
     /\ gate' = [gate EXCEPT ![t].stage = "drop"]
     /\ UNCHANGED <<version, gone, owned, rows, service, call, now, ghosts, closed>>
  \/ /\ At(t, "drop")
     /\ drop_service_state(t)
     /\ gate' = [gate EXCEPT ![t] = None]
     /\ closed' = closed \cup {t}
     /\ UNCHANGED <<registry, call, now, ghosts>>

\* release_on_exit = False leaves the session open.
KeepSession(t) ==
  /\ At(t, "release") /\ ~gate[t].release
  /\ gate' = [gate EXCEPT ![t] = None]
  /\ UNCHANGED <<vars, closed>>

GateStep(t) ==
  \/ \E caller \in Callers, F \in SUBSET Artifacts, target \in Artifacts,
        mode \in {"escaping", "atomic"}, release \in BOOLEAN :
       GateBegin(t, caller, F, mode, target, release)
  \/ Decide(t)
  \/ DecideRaises(t)
  \/ \E f \in Artifacts : Revalidate(t, f)
  \/ FireOrHold(t)
  \/ CommitOrHold(t)
  \/ GateCommit(t)
  \/ Teardown(t)
  \/ KeepSession(t)

GateNext ==
  \/ \E t \in Tokens : GateStep(t)
  \/ /\ \/ AgentStep({})
        \/ \E t \in Tokens : SessionStep(t)
        \/ Tick
     /\ UNCHANGED <<gate, closed>>
  \/ Restart /\ gate' = Empty(Tokens) /\ UNCHANGED closed

GateSpec == GateInit /\ [][GateNext]_gateVars

-----------------------------------------------------------------------------
\* An escaping effect fires only if the whole read-set was at its pins together
\* when re-validation began, although the members are read one by one; and a
\* gate that holds names a member that really is not at its pin.
EscapingVerdict ==
  \A t \in Tokens :
    gate[t] # None /\ gate[t].mode = "escaping" =>
      LET g == gate[t] IN
      /\ g.outcome = "fired" => \A f \in Members(g.cut) : g.atCheck[f] = g.cut[f]
      /\ g.outcome = "held" => \E f \in Members(g.cut) : version[f] # g.cut[f]

\* What the session has published.
Committed(t) == {c \in commits : c[1] = t}

\* An atomic gate says what it did: when it reports "fired" it has published its
\* target on top of the pinned version, and nothing else; when it holds or raises
\* it has published nothing.
AtomicVerdict ==
  \A t \in Tokens :
    gate[t] # None /\ gate[t].mode = "atomic" /\ gate[t].stage \in {"release", "drop"} =>
      Committed(t) =
        IF gate[t].outcome = "fired" THEN {<<t, gate[t].target, gate[t].cut[gate[t].target]>>}
        ELSE {}

\* In either mode the verdict of a gate is what happened (effect_gate).
VerdictIsTrue == EscapingVerdict /\ AtomicVerdict

\* Once a gate has torn its session down no part of it is left or comes back,
\* whatever heartbeats and sweeps ran during the teardown.
NoResurrection ==
  \A t \in closed : /\ pins[t] = None /\ meta[t] = None
                    /\ owners[t] = None /\ lease[t] = None /\ created[t] = None

\* As documented: the effect fires only if every member of the read-set was
\* unchanged at re-validation, in either mode.
FiresOnlyIfUnchanged ==
  \A t \in Tokens :
    gate[t] # None /\ gate[t].outcome = "fired" =>
      \A f \in Members(gate[t].cut) : gate[t].atCheck[f] = gate[t].cut[f]

\* As documented: a session that is dead at re-validation never fires.
DeadSessionNeverFires ==
  \A t \in Tokens :
    gate[t] # None /\ gate[t].outcome = "fired" => gate[t].aliveAtCheck
-----------------------------------------------------------------------------
(* The inductive invariant, together with SessionsInv.                     *)

\* A member's pin, what the check started from and the current version are in
\* this order for as long as the artifact exists; what was read and has not moved
\* was at its pin when the check began, and what has moved stays moved.
MembersInv(g) ==
  /\ g.todo \subseteq Members(g.cut) /\ g.moved \subseteq Members(g.cut)
  /\ \A f \in Members(g.cut) :
       /\ f \notin gone => g.cut[f] <= g.atCheck[f] /\ g.atCheck[f] <= version[f]
       /\ f \notin g.todo \cup g.moved => g.atCheck[f] = g.cut[f]
  /\ \A f \in g.moved : version[f] # g.cut[f]

\* A gate works on the session it opened; only its own commit is in flight, and
\* only a gate that fired atomically has committed.
GateInv(t) ==
  gate[t] # None =>
    LET g == gate[t] IN
    /\ opened[t] # None /\ t \notin closed
    /\ g.cut = opened[t].cut
    /\ MembersInv(g)
    /\ g.mode = "escaping" /\ g.outcome = "fired" => g.todo = {} /\ g.moved = {}
    /\ g.mode = "escaping" /\ g.outcome = "held" => g.moved # {}
    /\ g.mode = "atomic" /\ g.outcome = "fired" => Committed(t) = {<<t, g.target, g.cut[g.target]>>}
    /\ g.mode = "escaping" \/ g.outcome # "fired" => Committed(t) = {}
    /\ g.stage \in {"commit", "committing"} => g.mode = "atomic"
    /\ g.stage \in {"decide", "check", "commit", "committing"} => g.outcome = "none"
    /\ g.stage = "drop" => pins[t] = None /\ meta[t] = None

\* An id in use was never given up; a session without a gate has no call and a
\* session that was torn down has nothing left.
GatesInv ==
  /\ GateTypeOK /\ SessionsInv
  /\ gone \cap Live = {}
  /\ \A t \in Tokens :
       /\ GateInv(t)
       /\ call[t] # None => At(t, "committing") /\ call[t].on = {gate[t].target}
       /\ t \in closed => opened[t] # None
  /\ NoResurrection
=============================================================================
