----------------------------- MODULE Substrate -----------------------------
(***************************************************************************)
(* Clients that commit to a native-CAS substrate, a database row or an S3   *)
(* object, under the coordinator (adapters/substrate.py, coherent_row.py,   *)
(* coherent_object.py).  The substrate holds the bytes and arbitrates; the  *)
(* coordinator's version follows it.  A write whose answer is lost may have *)
(* landed, may land later (a ghost) or never.                              *)
(*                                                                         *)
(* Abstractions.  One artifact.  Bytes are sets of updates, as in Volume.   *)
(* The substrate is the sequence of what was written to it: a row's token   *)
(* is its version, the length; an object's is its ETag, the bytes.          *)
(***************************************************************************)
EXTENDS HookRecords, Sequences, SequencesExt

CONSTANTS
  Clients,
  Seed,       \* what the artifact held before
  Absent,     \* the row or the object was deleted
  MaxCalls    \* bound: calls of one client

\* What an instance has to satisfy.
SubstrateAssumption ==
  /\ Agents = Clients \cup {Orphan} /\ Orphan \notin Clients
  /\ Absent \notin Agents /\ Absent # None /\ MaxCalls \in Nat

VARIABLES
  kind,      \* "row" or "object"
  store,     \* what was written, and by which call
  ghosts,    \* writes without an answer that may still arrive
  rec, rows, \* the registry's record, and the identities with a state row
  log,       \* the bytes behind each version of the record
  call,      \* client -> the call it is in, or None
  observed,  \* _observed_hash
  view,      \* client -> the bytes and the token its application holds
  calls,     \* client -> calls begun
  acked      \* history: updates whose commit returned

vars == <<kind, store, ghosts, rec, rows, log, call, observed, view, calls, acked>>

Updates == Clients \X (1 .. MaxCalls)

Bytes == SUBSET (Updates \cup {Seed})

Tokens == [version : Nat, etag : Bytes]

Put == [by : Updates, try : 1 .. 2, token : Tokens, bytes : Bytes]

\* read with on_stale "allow" or "raise"; a commit that adds an update, that
\* writes what was read, that empties the artifact, or that restores it.
Reads == {"read_allow", "read_raise", "reacquire"}
Commits == {"merge", "same", "clear", "restore"}

Call ==
  [op : Reads \cup Commits, bytes : Bytes, token : Tokens, version : Nat,
   deny : {"no", "peer", "behind"}, try : 1 .. 2, converged : BOOLEAN,
   pc : {"get", "state", "grant", "answer", "put", "reconcile", "bump", "match"}]

TypeOK ==
  /\ kind \in {"row", "object"}
  /\ store \in Seq([by : Updates \cup {None}, bytes : Bytes \cup {Absent}])
  /\ ghosts \subseteq Put
  /\ rec \in ArtifactRecord /\ rows \subseteq Agents
  /\ log \in Seq(Bytes) /\ Len(log) = rec.version
  /\ call \in [Clients -> Call \cup {None}]
  /\ observed \in [Clients -> Bytes \cup {None}]
  /\ view \in [Clients -> [bytes : Bytes, token : Tokens] \cup {None}]
  /\ calls \in [Clients -> 0 .. MaxCalls]
  /\ acked \in Bytes

\* The artifact exists, and the coordinator has seen it as it is.
Init ==
  /\ kind \in {"row", "object"}
  /\ store = <<[by |-> None, bytes |-> {Seed}]>>
  /\ ghosts = {}
  /\ rec = register_artifact /\ rows = {} /\ log = <<{Seed}>>
  /\ call = [c \in Clients |-> None]
  /\ observed = [c \in Clients |-> None]
  /\ view = [c \in Clients |-> None]
  /\ calls = [c \in Clients |-> 0]
  /\ acked = {}

-----------------------------------------------------------------------------
(* The substrate.                                                          *)

Content == Last(store).bytes

\* The trigger of a row mints its version; nobody else can set it.
RowToken == [version |-> Len(store), etag |-> {}]

\* The ETag of an object is derived from its bytes.
ObjectToken == [version |-> 0, etag |-> Content]

Token == IF kind = "row" THEN RowToken ELSE ObjectToken

\* The guard of the UPDATE, or If-Match.
Matches(token) == Content # Absent /\ Token = token

Lands(p) ==
  /\ Matches(p.token)
  /\ store' = Append(store, [by |-> p.by, bytes |-> p.bytes])

\* Mutant: bytes that moved are taken for the intended ones.
reconcile_after_unknown_AnyMove(token, intended) ==
  CASE Content = Absent -> "hold"
    [] kind = "object" /\ Token = token -> "re_drive"
    [] kind = "row" /\ Token = token -> "re_derive"
    [] OTHER -> "converge"

\* One read of the substrate decides what an unanswered write did.  A row
\* takes only the version its own write would have minted ...
RowReconciles(token, intended) ==
  IF RowToken.version = token.version + 1 /\ Content = intended
    THEN "converge" ELSE "re_derive"

\* ... while an ETag says nothing of who wrote the bytes.
ObjectReconciles(token, intended) ==
  CASE ObjectToken = token -> "re_drive"
    [] ObjectToken # token /\ Content = intended -> "converge"
    [] OTHER -> "conflict"

reconcile_after_unknown(token, intended) ==
  IF Content = Absent THEN "hold"
  ELSE IF kind = "row" THEN RowReconciles(token, intended)
                       ELSE ObjectReconciles(token, intended)

-----------------------------------------------------------------------------
(* Calls.                                                                  *)

At(c, pc) == call[c] # None /\ call[c].pc = pc

Goto(c, pc) == call' = [call EXCEPT ![c].pc = pc]

Return(c) == call' = [call EXCEPT ![c] = None]

Me(c) == <<c, calls[c]>>

Coordinator == <<rec, rows, log>>

Fixed == UNCHANGED <<kind, calls>>

remint(c) ==
  /\ rec' = Forget(rec, c)
  /\ rows' = IF c \in rows THEN (rows \ {c}) \cup {Orphan} ELSE rows

Token0 == [version |-> 0, etag |-> {}]

NewBytes(c, op) ==
  CASE op = "merge" -> view[c].bytes \cup {<<c, calls[c] + 1>>}
    [] op = "clear" -> {}
    [] op = "restore" -> {Seed}
    [] OTHER -> view[c].bytes

\* A commit uses up the token it names: its result has no new one, and every
\* error tells the caller to read again.
Begin(c, op) ==
  /\ call[c] = None /\ calls[c] < MaxCalls
  /\ op \in Commits => view[c] # None
  /\ calls' = [calls EXCEPT ![c] = @ + 1]
  /\ call' = [call EXCEPT ![c] =
       [op |-> op, version |-> 0, deny |-> "no", try |-> 1, converged |-> FALSE,
        bytes |-> IF op \in Commits THEN NewBytes(c, op) ELSE {},
        token |-> IF op \in Commits THEN view[c].token ELSE Token0,
        pc |-> IF op \in Commits THEN "state" ELSE "get"]]
  /\ IF op = "reacquire" THEN remint(c) ELSE UNCHANGED <<rec, rows>>
  /\ view' = [view EXCEPT ![c] = IF op \in Commits THEN None ELSE @]
  /\ UNCHANGED <<kind, store, ghosts, log, observed, acked>>

\* read and reacquire fetch the bytes first; a deleted artifact is a KeyError.
Get(c) ==
  /\ At(c, "get")
  /\ IF Content = Absent
       THEN Return(c) /\ view' = [view EXCEPT ![c] = None]
       ELSE /\ call' = [call EXCEPT ![c].bytes = Content, ![c].token = Token, ![c].pc = "state"]
            /\ UNCHANGED view
  /\ UNCHANGED <<store, ghosts, Coordinator, observed, acked>> /\ Fixed

\* The bytes whose hash a pre-read sends: those just read, those a commit is
\* built on, or those that converged.
Asked(c) ==
  IF call[c].op \in Commits /\ call[c].pc = "state" THEN observed[c] ELSE call[c].bytes

State(c) == IF c \in rows THEN rec.state[c] ELSE None

HashDiffers(c) == Asked(c) # Last(log)

\* _deny_is_peer_invalidation: only an INVALID identity is told of an older
\* version; otherwise the substrate moved and the coordinator did not.
Denial(c) == IF State(c) = "INVALID" THEN "peer" ELSE "behind"

MayDeny(c) == State(c) = "INVALID" \/ HashDiffers(c)

\* _is_recent_self_commit_lag may or may not be in its window.
MayAllow(c) ==
  MayDeny(c) => State(c) \notin {None, "INVALID"} /\ rec.last_writer = c

\* The pre-read of read, reacquire and commit.
PreRead(c) ==
  /\ At(c, "state")
  /\ \/ /\ MayDeny(c)
        /\ call' = [call EXCEPT ![c].deny = Denial(c), ![c].version = rec.version,
                                ![c].pc = "answer"]
     \/ /\ MayAllow(c)
        /\ call' = [call EXCEPT ![c].version = rec.version,
                                ![c].pc = IF State(c) = None THEN "grant" ELSE "answer"]
  /\ UNCHANGED <<store, ghosts, Coordinator, observed, view, acked>> /\ Fixed

PreReadGrant(c) ==
  /\ At(c, "grant")
  /\ rec' = GrantShared(rec, c) /\ rows' = rows \cup {c}
  /\ Goto(c, "answer")
  /\ UNCHANGED <<store, ghosts, log, observed, view, acked>> /\ Fixed

\* No usable answer: the call raises before it does anything.
PreReadFails(c) ==
  /\ \E pc \in {"state", "grant", "answer"} : At(c, pc)
  /\ Return(c)
  /\ view' = [view EXCEPT ![c] = IF call[c].op \in Reads THEN None ELSE @]
  /\ UNCHANGED <<store, ghosts, Coordinator, observed, acked>> /\ Fixed

\* _raise_on_deny, for reads: reacquire does not look.
ReadReturns(c) ==
  LET k == call[c] IN
  /\ At(c, "answer") /\ k.op \in Reads
  /\ observed' = [observed EXCEPT ![c] = k.bytes]
  /\ view' = [view EXCEPT ![c] =
       IF \/ k.op = "reacquire" \/ k.deny = "no"
          \/ k.op = "read_allow" /\ k.deny = "peer"
         THEN [bytes |-> k.bytes, token |-> k.token] ELSE None]
  /\ Return(c)
  /\ UNCHANGED <<store, ghosts, Coordinator, acked>> /\ Fixed

-----------------------------------------------------------------------------
(* commit: the substrate first, the coordinator second.                    *)

\* A denial always raises; bytes that were just read are not written.
CommitChecked(c) ==
  /\ At(c, "answer") /\ call[c].op \in Commits
  /\ IF call[c].deny # "no" \/ observed[c] = call[c].bytes THEN Return(c) ELSE Goto(c, "put")
  /\ UNCHANGED <<store, ghosts, Coordinator, observed, view, acked>> /\ Fixed

PutOf(c) ==
  [by |-> Me(c), try |-> call[c].try, token |-> call[c].token, bytes |-> call[c].bytes]

\* clear and restore take back what was acknowledged, on purpose.
Landed(p) == acked' = IF p.bytes \subseteq {Seed} THEN {} ELSE acked

PutWritten(c) ==
  /\ At(c, "put")
  /\ Lands(PutOf(c)) /\ Landed(PutOf(c))
  /\ Goto(c, "bump")
  /\ UNCHANGED <<ghosts, Coordinator, observed, view>> /\ Fixed

\* Mutant: a re-drive that conflicts is taken for the ghost's success.
PutConflict_Bumps(c) ==
  /\ At(c, "put")
  /\ Matches(call[c].token) => kind = "object"
  /\ IF call[c].try = 1 THEN Return(c) ELSE Goto(c, "bump")
  /\ UNCHANGED <<store, ghosts, Coordinator, observed, view, acked>> /\ Fixed

\* The comparand is gone, or S3 answers 409.  After a re-drive the reason may
\* be the caller's own ghost: read once more.
PutConflict(c) ==
  /\ At(c, "put")
  /\ Matches(call[c].token) => kind = "object"
  /\ IF call[c].try = 1 THEN Return(c) ELSE Goto(c, "reconcile")
  /\ UNCHANGED <<store, ghosts, Coordinator, observed, view, acked>> /\ Fixed

\* No answer.  A second one raises CommitUnconfirmed.
PutUnknown(c) ==
  /\ At(c, "put")
  /\ \/ Lands(PutOf(c)) /\ Landed(PutOf(c)) /\ UNCHANGED ghosts
     \/ ghosts' = ghosts \cup {PutOf(c)} /\ UNCHANGED <<store, acked>>
  /\ IF call[c].try = 1 THEN Goto(c, "reconcile") ELSE Return(c)
  /\ UNCHANGED <<Coordinator, observed, view>> /\ Fixed

\* _reconcile_unknown, and the second read of _re_drive, which only converges.
Reconcile(c) ==
  LET k == call[c]
      verdict == reconcile_after_unknown(k.token, k.bytes) IN
  /\ At(c, "reconcile")
  /\ \/ /\ verdict = "converge"
        /\ call' = [call EXCEPT ![c].converged = TRUE, ![c].pc = "bump"]
     \/ /\ verdict = "re_drive" /\ k.try = 1
        /\ call' = [call EXCEPT ![c].try = 2, ![c].pc = "put"]
     \/ /\ verdict = "re_drive" => k.try = 2
        /\ verdict # "converge"
        /\ Return(c)
  /\ UNCHANGED <<store, ghosts, Coordinator, observed, view, acked>> /\ Fixed

\* The reconciling read fails: the call raises.
ReconcileFails(c) ==
  /\ At(c, "reconcile")
  /\ Return(c)
  /\ UNCHANGED <<store, ghosts, Coordinator, observed, view, acked>> /\ Fixed

Succeeds(c) ==
  /\ observed' = [observed EXCEPT ![c] = call[c].bytes]
  /\ acked' = IF call[c].op = "merge" THEN acked \cup {Me(c)} ELSE acked
  /\ Return(c)

Wins(c) == OccAllowed(rec, c) /\ CasOutcome(rec, c, call[c].version) = "win"

Advance(c) ==
  /\ rec' = CasWin(rec, c) /\ rows' = rows \cup {c}
  /\ log' = Append(log, call[c].bytes)

Bump(c) ==
  /\ At(c, "bump") /\ Wins(c)
  /\ Advance(c) /\ Succeeds(c)
  /\ UNCHANGED <<store, ghosts, view>> /\ Fixed

\* Lost: a converged write may have been finished by a byte-identical peer.
BumpLost(c) ==
  /\ At(c, "bump") /\ ~Wins(c)
  /\ IF call[c].converged /\ rec.transient[c] = None
        /\ CasOutcome(rec, c, call[c].version) \in {"version_mismatch", "stale_read_generation"}
       THEN Goto(c, "match") ELSE Return(c)
  /\ UNCHANGED <<store, ghosts, Coordinator, observed, view, acked>> /\ Fixed

\* coordinator_hash_matches
BumpMatch(c) ==
  /\ At(c, "match")
  /\ IF HashDiffers(c) THEN Return(c) /\ UNCHANGED <<observed, acked>> ELSE Succeeds(c)
  /\ UNCHANGED <<store, ghosts, Coordinator, view>> /\ Fixed

\* CommitUnconfirmed: the answer is lost, after the effect or instead of it.
BumpUnknown(c) ==
  /\ At(c, "bump")
  /\ \/ Wins(c) /\ Advance(c)
     \/ UNCHANGED Coordinator
  /\ Return(c)
  /\ UNCHANGED <<store, ghosts, observed, view, acked>> /\ Fixed

-----------------------------------------------------------------------------
(* What else happens.                                                      *)

\* A write without an answer arrives.
GhostArrives(g) ==
  /\ g \in ghosts
  /\ ghosts' = ghosts \ {g}
  /\ \/ Lands(g) /\ Landed(g)
     \/ ~Matches(g.token) /\ UNCHANGED <<store, acked>>
  /\ UNCHANGED <<Coordinator, call, observed, view>> /\ Fixed

\* Somebody deletes the row or the object.
Delete ==
  /\ Content # Absent
  /\ store' = Append(store, [by |-> None, bytes |-> Absent])
  /\ acked' = {}
  /\ UNCHANGED <<ghosts, Coordinator, call, observed, view>> /\ Fixed

\* The process dies in a call; its successor starts with nothing.
Crash(c) ==
  /\ call[c] # None
  /\ Return(c) /\ remint(c)
  /\ observed' = [observed EXCEPT ![c] = None]
  /\ view' = [view EXCEPT ![c] = None]
  /\ UNCHANGED <<store, ghosts, log, acked>> /\ Fixed

Step(c) ==
  \/ Get(c) \/ PreRead(c) \/ PreReadGrant(c) \/ ReadReturns(c)
  \/ CommitChecked(c) \/ PutWritten(c) \/ PutConflict(c) \/ Reconcile(c)
  \/ Bump(c) \/ BumpLost(c) \/ BumpMatch(c)

Fault(c) ==
  PreReadFails(c) \/ PutUnknown(c) \/ ReconcileFails(c) \/ BumpUnknown(c) \/ Crash(c)

Next ==
  \/ \E c \in Clients, op \in Reads \cup Commits : Begin(c, op)
  \/ \E c \in Clients : Step(c) \/ Fault(c)
  \/ \E g \in ghosts : GhostArrives(g)
  \/ Delete

Spec == Init /\ [][Next]_vars

-----------------------------------------------------------------------------
(* Properties.                                                             *)

\* A commit that returned is in the substrate, whatever ghosts arrive and
\* whichever read reconciled it.
AckedIsKept == Content # Absent => acked \subseteq Content

\* The coordinator follows the substrate: what it recorded was written there,
\* and in that order, so no version announces bytes that failed the
\* substrate's own CAS.
CoordinatorFollows ==
  \E at \in [1 .. Len(log) -> 1 .. Len(store)] :
    /\ \A i \in 1 .. Len(log) : store[at[i]].bytes = log[i]
    /\ \A i, j \in 1 .. Len(log) : i < j => at[i] < at[j]

\* No version announces the bytes of the version before it: neither a no-op
\* nor a write that converged advances the coordinator for nothing.
NoPhantomAdvance == \A i \in 1 .. Len(log) - 1 : log[i] # log[i + 1]

\* Of a write that was not answered and the re-drive of it at most one lands.
AtMostOneLands ==
  \A i, j \in 1 .. Len(store) :
    store[i].by # None /\ store[i].by = store[j].by => i = j
=============================================================================
