----------------------------- MODULE MCSessions -----------------------------
(***************************************************************************)
(* A TLC instance of Sessions and EffectGate, in three parts.  "sqlite":   *)
(* two sessions and two callers at one artifact of a durable registry,     *)
(* with restarts and the clock.  "memory": the same with one caller and    *)
(* four versions at an in-memory registry, at tick 0.  "gate": one effect  *)
(* gate over two artifacts.  One session is open at a time; the theorems   *)
(* of SessionsProofs are about any number.                                 *)
(*                                                                         *)
(* Tokens are minted in order, and the first session is c1's: tokens and   *)
(* callers are alike, so nothing is lost.                                  *)
(***************************************************************************)
EXTENDS EffectGate

CONSTANTS f1, f2, t1, t2, c1, c2

VARIABLE part

mcVars == <<gateVars, part>>

Memory == INSTANCE Sessions WITH
  Durable <- FALSE, MaxVersion <- 4, MaxTick <- 0

InOrder ==
  /\ opened[t2] # None => opened[t1] # None
  /\ opened[t1] # None => opened[t1].owner = c1

OnlyF1 ==
  /\ f2 \notin Live
  /\ \A t \in Tokens : call[t] # None => call[t].on = {f1}

\* The gates' own instance: one session, and a short time.
OneGate == now <= 1 /\ opened[t2] = None

Sqlite == Next /\ OnlyF1' /\ UNCHANGED <<gate, closed>>

InMemory ==
  /\ Memory!Next
  /\ OnlyF1'
  /\ \A t \in Tokens : /\ opened'[t] # None => opened'[t].owner = c1
                       /\ call'[t] # None => call'[t].caller = c1
  /\ UNCHANGED <<gate, closed>>

Gates == GateNext /\ OneGate'

MCInit == GateInit /\ part \in {"sqlite", "memory", "gate"}

MCNext ==
  /\ \/ part = "sqlite" /\ Sqlite
     \/ part = "memory" /\ InMemory
     \/ part = "gate" /\ Gates
  /\ InOrder'
  /\ UNCHANGED part

\* The sweep loop keeps running with the current tick, and time passes.
MCFairness ==
  /\ WF_mcVars(part = "sqlite" /\ Tick /\ UNCHANGED <<gate, closed, part>>)
  /\ WF_mcVars(part = "sqlite" /\ Reap(t1) /\ UNCHANGED <<gate, closed, part>>)

MCSpec == MCInit /\ [][MCNext]_mcVars /\ MCFairness

\* A session's pins are released in the end, whatever heartbeats arrive and
\* however often the service restarts: the age limit counts from the opening.
PinsReleased ==
  (part = "sqlite" /\ pins[t1] # None /\ opened[t1].created + AbsoluteAge <= MaxTick)
    ~> pins[t1] = None
=============================================================================
