-------------------------- MODULE DurableRegistry ---------------------------
(***************************************************************************)
(* The coordinator over its SQLite registry (coordinator/                  *)
(* sqlite_registry.py).  A service call holds the registry lock, so calls  *)
(* never interleave; but over SQLite a call is a sequence of transactions, *)
(* and the process may be killed, or a transaction may fail, between any   *)
(* two of them.  What is on disk then is what the next process starts      *)
(* from.                                                                   *)
(*                                                                         *)
(* Each transaction writes its state-log entries to the sink BEFORE it     *)
(* commits, numbered by a counter that is kept in memory and saved in the  *)
(* same transaction.  A transaction that rolls back leaves the entries in  *)
(* the sink and takes the counter back.                                    *)
(*                                                                         *)
(* Abstractions.  One artifact.  Ticks are left out: a sweep finds any     *)
(* timeout expired.  A retained body is the number of its version.  The    *)
(* service preconditions that need no registry write (a refused call) are  *)
(* guards.                                                                 *)
(***************************************************************************)
EXTENDS ServiceRecords, Sequences, SequencesExt

CONSTANTS MaxCalls,      \* bound on the service calls of the agents
          MaxFaults      \* bound on kills and failed transactions

\* What an instance has to satisfy.
DurableAssumption == MaxCalls \in Nat /\ MaxFaults \in Nat

VARIABLES disk,          \* the committed rows of the artifact
          bodies,        \* versions whose body is retained on disk
          saved,         \* registry_meta.sequence_number
          seq,           \* the counter in memory
          log,           \* what the state-log sink has received
          program,       \* the transactions the running call still has to make
          goal,          \* the record the running (or last) call works towards
          calls, faults

vars == <<disk, bodies, saved, seq, log, program, goal, calls, faults>>

-----------------------------------------------------------------------------
(* Transactions.                                                           *)

Tick == 0

Txn == [op : {"set_agent_transient", "clear_agent_transient", "set_agent_state",
              "set_artifact_and_content", "record_last_reclamation", "commit_cas"},
        agent : Agents, state : MESIState, trigger : STRING]

T(op, a) == [op |-> op, agent |-> a, state |-> "INVALID", trigger |-> "none"]

SetState(a, s, trigger) ==
  [op |-> "set_agent_state", agent |-> a, state |-> s, trigger |-> trigger]

Reclaimed(a, trigger) ==
  [op |-> "record_last_reclamation", agent |-> a, state |-> "INVALID", trigger |-> trigger]

set_agent_transient(r, a, tick) == [r EXCEPT !.transient[a] = tick]

\* The rows after the transaction.
Apply(r, t) ==
  CASE t.op = "set_agent_transient"      -> set_agent_transient(r, t.agent, Tick)
    [] t.op = "clear_agent_transient"    -> clear_agent_transient(r, t.agent)
    [] t.op = "set_agent_state"          -> set_agent_state(r, t.agent, t.state, t.trigger, Tick)
    [] t.op = "set_artifact_and_content" -> set_artifact_and_content(r, t.agent)
    [] t.op = "record_last_reclamation"  -> record_last_reclamation(r, t.agent, t.trigger)
    [] t.op = "commit_cas"               -> CasWin(r, t.agent)

\* The body of a new version is captured inside the transaction that makes
\* the version.
Captures(t) == t.op \in {"set_artifact_and_content", "commit_cas"}

Captured(t, version) == IF Captures(t) THEN bodies \cup {version} ELSE bodies

\* The state-log entries of the transaction, in the order they are emitted:
\* one per state write; commit_cas writes every valid peer, then the winner.
Entry(r, a, s, trigger, version) ==
  [agent |-> a, from |-> r.state[a], to |-> s, trigger |-> trigger, version |-> version]

Emits(r, t) ==
  CASE t.op = "set_agent_state" ->
         <<Entry(r, t.agent, t.state, t.trigger, r.version)>>
    [] t.op = "commit_cas" ->
         LET peers == SetToSeq(OtherHolders(r, t.agent)) IN
         [i \in 1..Len(peers) |-> Entry(r, peers[i], "INVALID", "commit", r.version + 1)]
           \o <<Entry(r, t.agent, "SHARED", "commit", r.version + 1)>>
    [] OTHER -> <<>>

\* _emit_state_log: the entries numbered from the counter in memory.
Numbered(entries) ==
  [i \in 1..Len(entries) |-> [n |-> seq + i, entry |-> entries[i]]]

-----------------------------------------------------------------------------
(* The transactions of each service call, read from the record it starts   *)
(* from.  A peer loop runs in the order the rows are read.                 *)

PeerLoop(peers, trigger) ==
  FlattenSeq([i \in 1..Len(peers) |->
    <<T("set_agent_transient", peers[i]), SetState(peers[i], "INVALID", trigger)>>])

\* fetch: an owner is downgraded before the requester is granted.
fetch(r, a, peers) ==
  <<T("set_agent_transient", a)>>
  \o [i \in 1..Len(peers) |-> SetState(peers[i], "SHARED", "fetch")]
  \o <<SetState(a, FetchGrant(r, a), "fetch"), T("clear_agent_transient", a)>>

\* Mutant: the caller is granted before its peers are invalidated.
write_GrantFirst(a, peers) ==
  <<T("set_agent_transient", a), SetState(a, "EXCLUSIVE", "write")>>
  \o PeerLoop(peers, "write")
  \o <<T("clear_agent_transient", a)>>

write(a, peers) ==
  <<T("set_agent_transient", a)>>
  \o PeerLoop(peers, "write")
  \o <<SetState(a, "EXCLUSIVE", "write"), T("clear_agent_transient", a)>>

commit(a, peers) ==
  <<T("set_agent_transient", a), T("set_artifact_and_content", a)>>
  \o PeerLoop(peers, "commit")
  \o <<SetState(a, "MODIFIED", "commit"), T("clear_agent_transient", a)>>

invalidate(a) == <<SetState(a, "INVALID", "invalidate"), T("clear_agent_transient", a)>>

TransientTimeout(a) == <<SetState(a, "INVALID", "timeout"), T("clear_agent_transient", a)>>

StableGrantTimeout(a, trigger) ==
  <<SetState(a, "INVALID", trigger), Reclaimed(a, trigger)>>

-----------------------------------------------------------------------------
(* Calls begin when the lock is free.                                      *)

Begin(p, g) ==
  /\ program = <<>>
  /\ program' = p
  /\ goal' = g
  /\ UNCHANGED <<disk, bodies, saved, seq, log, faults>>

Called == calls < MaxCalls /\ calls' = calls + 1

BeginFetch(a) ==
  /\ Called
  /\ \E peers \in SetToSeqs(Owners(disk) \ {a}) :
       Begin(fetch(disk, a, peers), FetchRecord(disk, a, Tick))

BeginWrite(a) ==
  /\ Called
  /\ \E peers \in SetToSeqs(OtherHolders(disk, a)) :
       Begin(write(a, peers), WriteRecord(disk, a, Tick))

\* Only an owner whose claim was not superseded commits.
BeginCommit(a) ==
  /\ Called
  /\ disk.state[a] \in M_OR_E_STATES
  /\ ~StaleReadGeneration(disk, a)
  /\ \E peers \in SetToSeqs(OtherHolders(disk, a)) :
       Begin(commit(a, peers), CommitRecord(disk, a, Tick))

\* commit_cas is one transaction; a refusal writes no row of the artifact.
BeginCas(a) ==
  /\ Called
  /\ OccAllowed(disk, a)
  /\ \E expected \in 1..disk.version : CasOutcome(disk, a, expected) = "win"
  /\ Begin(<<T("commit_cas", a)>>, CasWin(disk, a))

\* An agent gives back its claim, or a peer's signal is delivered.
BeginInvalidate(a) ==
  /\ Called
  /\ \E issuer \in Agents, version \in 1..disk.version :
       ~RevokeIsSuperseded(disk, a, version, issuer)
  /\ Begin(invalidate(a), InvalidateRecord(disk, a, Tick))

\* Mutant: the transient sweep passes over an agent that is INVALID.
enforce_transient_timeouts_OnlyHolders(a) ==
  /\ disk.transient[a] # None
  /\ disk.state[a] # "INVALID"
  /\ Begin(TransientTimeout(a), TimeoutRecord(disk, a, Tick))
  /\ UNCHANGED calls

\* The two sweeps, per pair.  The stable-grant sweep leaves a pair with a
\* transient to the other one.
enforce_transient_timeouts(a) ==
  /\ disk.transient[a] # None
  /\ Begin(TransientTimeout(a), TimeoutRecord(disk, a, Tick))
  /\ UNCHANGED calls

enforce_stable_grant_timeouts(a, trigger) ==
  /\ disk.state[a] \in M_OR_E_STATES
  /\ disk.transient[a] = None
  /\ Begin(StableGrantTimeout(a, trigger), ReclaimRecord(disk, a, trigger, Tick))
  /\ UNCHANGED calls

-----------------------------------------------------------------------------
(* The next transaction of the running call.                               *)

Commits(t) ==
  LET entries == Emits(disk, t) IN
  /\ disk' = Apply(disk, t)
  /\ bodies' = Captured(t, disk'.version)
  /\ log' = log \o Numbered(entries)
  /\ seq' = seq + Len(entries)
  /\ saved' = seq'

Transact ==
  /\ program # <<>>
  /\ Commits(Head(program))
  /\ program' = Tail(program)
  /\ UNCHANGED <<goal, calls, faults>>

\* The transaction does not commit after j of its entries reached the sink:
\* the sink raised on the next one, or COMMIT failed after the last.
Fault(j) ==
  /\ program # <<>>
  /\ faults < MaxFaults
  /\ faults' = faults + 1
  /\ j <= Len(Emits(disk, Head(program)))
  /\ log' = log \o SubSeq(Numbered(Emits(disk, Head(program))), 1, j)
  /\ program' = <<>>
  /\ goal' = None
  /\ UNCHANGED <<disk, bodies, saved, calls>>

\* The rollback takes the counter back and the error leaves the service
\* call.
RollsBack(j) == Fault(j) /\ UNCHANGED seq

\* The process is killed, and the next one reads the counter from the store.
Crash(j) == Fault(j) /\ seq' = saved

Init ==
  /\ disk = register_artifact
  /\ bodies = {1}
  /\ saved = 0 /\ seq = 0 /\ log = <<>>
  /\ program = <<>> /\ goal = None
  /\ calls = 0 /\ faults = 0

AgentCall(a) ==
  BeginFetch(a) \/ BeginWrite(a) \/ BeginCommit(a) \/ BeginCas(a) \/ BeginInvalidate(a)

Sweep(a) ==
  \/ enforce_transient_timeouts(a)
  \/ \E trigger \in ReclamationSlot : enforce_stable_grant_timeouts(a, trigger)

Next ==
  \/ \E a \in Agents : AgentCall(a) \/ Sweep(a)
  \/ Transact
  \/ \E j \in 0..2 : RollsBack(j) \/ Crash(j)

Spec == Init /\ [][Next]_vars

-----------------------------------------------------------------------------
(* Properties.                                                             *)

\* The rows, the counters and the running call have the types of the code.
TypeOK ==
  /\ disk \in ArtifactRecord
  /\ bodies \subseteq 1..disk.version
  /\ saved \in Nat /\ seq \in Nat
  /\ \A i \in DOMAIN program : program[i] \in Txn
  /\ goal \in ArtifactRecord \cup {None}
  /\ calls \in 0..MaxCalls /\ faults \in 0..MaxFaults

\* On disk there is at most one owner at every instant: between the
\* transactions of a call as after it, so whatever kill the next process
\* wakes up to.
SingleWriterOnDisk ==
  \A a, b \in Owners(disk) : a = b

\* A call that is neither killed nor failed leaves exactly the record the
\* one-rewrite model of the service gives: the sequence of transactions
\* implements the call.
CallIsOneRewrite ==
  program = <<>> /\ goal # None => disk = goal

\* The body of the current version is on disk whenever the version is.
BodyWithVersion == 1..disk.version \subseteq bodies

LastNumbered(n) ==
  LET at == {i \in DOMAIN log : log[i].n = n} IN
  log[CHOOSE i \in at : \A k \in at : k <= i].entry

Replayed(a) ==
  LET of == {n \in 1..saved : LastNumbered(n).agent = a} IN
  IF of = {} THEN "INVALID"
  ELSE LastNumbered(CHOOSE n \in of : \A k \in of : k <= n).to

\* The last entry the sink received under each saved number replays to the
\* state map on disk, whatever transactions rolled back on the way: no
\* committed transition is missing, misnumbered or overwritten.
LogReplaysToDisk ==
  /\ \A n \in 1..saved : \E i \in DOMAIN log : log[i].n = n
  /\ \A a \in Agents : Replayed(a) = disk.state[a]

\* A version moves only under the writer that the arbitration admits: no
\* other owner is on disk, and the writer's claim was not superseded.
VersionMovesFenced ==
  [][disk'.version # disk.version =>
       /\ ~OtherOwner(disk, disk'.last_writer)
       /\ ~StaleReadGeneration(disk, disk'.last_writer)]_vars
=============================================================================
