------------------------------ MODULE MCVolume ------------------------------
(***************************************************************************)
(* Instance of Volume.  A fleet is the calls its clients make, how many,    *)
(* whether they overlap and what may go wrong around them: clients that     *)
(* update with write_cas; that merge what they read and commit it at its    *)
(* version; that publish two files; that read and write one at a time.     *)
(* Clients and paths are alike, so the first call is c1's, on p1.          *)
(*                                                                         *)
(* A fifth part of the instance, without clients, is DurableRegistry: the  *)
(* same three identities as agents of service calls on SQLite, with kills  *)
(* and failed transactions.                                                *)
(***************************************************************************)
EXTENDS Volume

CONSTANTS c1, c2, orphan, p1, p2, KnownPaths, Fleets,
          MaxServiceCalls, MaxFaults   \* bounds of DurableRegistry

VARIABLES fleet, table, bodies, saved, seq, sink, program, goal, served, faults

Durable == INSTANCE DurableRegistry WITH
  disk <- table, log <- sink, calls <- served, MaxCalls <- MaxServiceCalls

ASSUME DurableBounds == Durable!DurableAssumption

durableVars == <<table, bodies, saved, seq, sink, program, goal, served, faults>>
mcVars == <<vars, fleet, durableVars>>

AllAgents == {c1, c2, orphan}

Fleet(ops, total, paths, overlap, beside) ==
  [ops |-> ops, total |-> total, paths |-> paths, overlap |-> overlap, beside |-> beside]

CasFleet == Fleet({"write_cas"}, 3, {p1}, TRUE, {"lost_read", "crash"})

AtFleet ==
  Fleet({"read_with_version", "write_cas_at", "write_cas"}, 3, {p1}, TRUE, {"lost_read"})

PublishFleet ==
  Fleet({"read_with_version", "atomic_publish", "write_cas"}, 4, {p1, p2}, TRUE, {})

SequentialFleet ==
  Fleet({"read", "reacquire", "write"}, 4, {p1}, FALSE, {"lost_read", "sweep", "foreign"})

NoFleet == Fleet({}, 0, {}, FALSE, {})

PassingFleets == {CasFleet, AtFleet, PublishFleet, SequentialFleet, NoFleet}

Started == Cardinality({u \in Clients \X (1 .. MaxCalls) : u[2] <= calls[u[1]]})

MCInit ==
  /\ Init /\ Durable!Init
  /\ fleet \in Fleets
  /\ IF KnownPaths THEN \A p \in Paths : rec[p] # None
                   ELSE config.on_error = "strict"
  /\ fleet \in {PublishFleet, SequentialFleet, NoFleet} => config.on_error = "strict"
  /\ fleet # SequentialFleet => config.on_stale_read = "allow"

Idle == \A c \in Clients : call[c] = None

FleetStep ==
  \/ \E c \in Clients, op \in fleet.ops, p \in fleet.paths :
       /\ fleet.overlap \/ Idle
       /\ Started < fleet.total
       /\ Started = 0 => c = c1 /\ p = p1
       /\ op = "atomic_publish" => p = p1
       /\ Begin(c, op, p)
  \/ \E c \in Clients : Step(c)
  \/ \E c \in Clients : CommitFault(c)
  \/ "lost_read" \in fleet.beside /\ \E c \in Clients : PreReadLost(c)
  \/ "crash" \in fleet.beside /\ \E c \in Clients : Crash(c)
  \/ "sweep" \in fleet.beside /\ \E p \in fleet.paths, a \in Agents : Reclaim(p, a)
  \/ "foreign" \in fleet.beside /\ Idle /\ \E p \in fleet.paths : ForeignEdit(p, 1)
  \/ Idle /\ Started = fleet.total /\ UNCHANGED vars

MCNext ==
  /\ UNCHANGED fleet
  /\ \/ fleet # NoFleet /\ FleetStep /\ UNCHANGED durableVars
     \/ fleet = NoFleet /\ Durable!Next /\ UNCHANGED vars
     \/ fleet = NoFleet /\ served = MaxServiceCalls /\ UNCHANGED <<vars, durableVars>>

\* A call goes on; a service call goes on, and so does the sweep of c1's transient.
MCFairness ==
  /\ \A c \in Clients : WF_mcVars(fleet # NoFleet /\ Step(c) /\ UNCHANGED <<fleet, durableVars>>)
  /\ WF_mcVars(fleet = NoFleet /\ Durable!Transact /\ UNCHANGED <<fleet, vars>>)
  /\ WF_mcVars(/\ fleet = NoFleet /\ Durable!enforce_transient_timeouts(c1)
               /\ UNCHANGED <<fleet, vars>>)

MCSpec == MCInit /\ [][MCNext]_mcVars /\ MCFairness

\* NoLostUpdate, for clients that only use write_cas.
CasKept == fleet = CasFleet => NoLostUpdate

\* DiskIsCommitted, for fleets without plain writes.
CommittedFirst == "write" \notin fleet.ops => DiskIsCommitted

\* SequentialWritesKept, for clients whose calls do not overlap.
SequentialKept == ~fleet.overlap => SequentialWritesKept

\* The files of a workspace: no update of write_cas is lost, a file holds committed
\* bytes only, a publish is whole, and writes one after another keep what they
\* returned from (Volume: write_cas, atomic_publish, write).
FilesAreSound == TypeOK /\ CasKept /\ CommittedFirst /\ PublishWhole /\ SequentialKept

\* The rows on disk, after every single transaction and wherever a call is killed:
\* one writer at most, no version without its body, a log that replays to the rows,
\* and a call that ran to its end did what the service's rewrite of the record says
\* (DurableRegistry: the order of the registry calls, set_artifact_and_content, the
\* sink).
DiskIsSound ==
  /\ Durable!SingleWriterOnDisk /\ Durable!CallIsOneRewrite
  /\ Durable!BodyWithVersion /\ Durable!LogReplaysToDisk

\* A transient that a killed call left behind does not last.  Agents are alike; one
\* of them is enough.
TransientsEnd == table.transient[c1] # None ~> table.transient[c1] = None

\* What a kill leaves on disk does no harm: a version moves only for a writer nobody
\* excludes and no fence refuses, and a transient neither blocks its agent nor
\* shields its grant from the sweeps for ever (DurableRegistry).
KillsAreHarmless == Durable!VersionMovesFenced /\ TransientsEnd
=============================================================================
