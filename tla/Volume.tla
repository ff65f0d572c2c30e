------------------------------- MODULE Volume -------------------------------
(***************************************************************************)
(* Clients of the coordinator that share files of one workspace            *)
(* (adapters/coherent_volume.py).  The bytes are on the disk; the          *)
(* coordinator holds a version and a hash.  Nothing makes the two change   *)
(* together: a call reads the disk, asks the coordinator, derives new      *)
(* bytes, commits and replaces the file, each a step that others may come  *)
(* between.                                                                *)
(*                                                                         *)
(* Abstractions.  The bytes of a file are the set of updates they contain, *)
(* and an update is named after the call that makes it; a hash stands for  *)
(* the bytes.  All paths are managed (strict).  A request to the           *)
(* coordinator takes effect in the transactions HookServer has for it;     *)
(* its answer may be lost, after the effect or instead of it.  A client    *)
(* that mints a new identity leaves its old one to Orphan, which keeps an  *)
(* ownership the old one may have held.  Replacing a file by the bytes it  *)
(* has (already_on_disk) is not told apart from leaving it.                *)
(***************************************************************************)
EXTENDS HookRecords, Sequences, FiniteSets

CONSTANTS
  Clients, Human,          \* volumes; out-of-band editors
  Paths,
  Careful,                 \* an application drops its bytes when a re-read raises
  MAX_CAS_REACQUIRES,
  MaxCalls                 \* bound: calls of one client

ASSUME VolumeAssumption ==
  /\ Agents = Clients \cup {Orphan} /\ Orphan \notin Clients
  /\ Human \notin Agents /\ Careful \in BOOLEAN
  /\ MAX_CAS_REACQUIRES \in Nat /\ MaxCalls \in Nat

VARIABLES
  config,    \* how the volumes were constructed: on_error, on_stale_read
  rec,       \* path -> registry record, None before it is registered
  row,       \* path -> identities with a state row
  log,       \* path -> bytes behind each version, None for the empty hash
  disk,      \* path -> bytes
  call,      \* client -> the call it is in, or None
  observed,  \* _last_observed_hash
  view,      \* client, path -> what its application last read, and the version
  calls,     \* client -> calls begun
  acked,     \* history: path -> updates whose call returned
  batches    \* history: publishes sent to the coordinator

vars == <<config, rec, row, log, disk, call, observed, view, calls, acked, batches>>

Updates == (Clients \cup {Human}) \X (1 .. MaxCalls)

Bytes == SUBSET Updates

Ops == {"read", "reacquire", "read_with_version", "write", "write_cas", "write_cas_at",
        "atomic_publish"}

Call ==
  [op : Ops, path : Paths, buf : Bytes, version : Nat, denied : BOOLEAN,
   pc : {"disk", "lookup", "first", "state", "heal", "answer", "cas", "replace", "check",
         "acquire", "compare", "put", "fail", "commit", "begin", "commit_all", "stage", "materialize"},
   attempts : 0 .. MAX_CAS_REACQUIRES + 1, streak : 0 .. MAX_CAS_REACQUIRES,
   todo : SUBSET Paths]

TypeOK ==
  /\ config \in [on_error : {"strict", "degrade"}, on_stale_read : {"allow", "raise"}]
  /\ rec \in [Paths -> ArtifactRecord \cup {None}]
  /\ row \in [Paths -> SUBSET Agents]
  /\ \A p \in Paths : /\ log[p] \in Seq(Bytes \cup {None})
                      /\ Len(log[p]) = IF rec[p] = None THEN 0 ELSE rec[p].version
  /\ disk \in [Paths -> Bytes]
  /\ call \in [Clients -> Call \cup {None}]
  /\ observed \in [Clients -> [Paths -> Bytes \cup {None}]]
  /\ view \in [Clients -> [Paths -> [bytes : Bytes, version : Nat] \cup {None}]]
  /\ calls \in [Clients -> 0 .. MaxCalls]
  /\ acked \in [Paths -> Bytes]
  /\ batches \in SUBSET Updates

\* The files exist.  A path is unknown to the coordinator, or was seen by it
\* as it is.
Init ==
  /\ config \in [on_error : {"strict", "degrade"}, on_stale_read : {"allow", "raise"}]
  /\ \E known \in SUBSET Paths :
       /\ rec = [p \in Paths |-> IF p \in known THEN register_artifact ELSE None]
       /\ log = [p \in Paths |-> IF p \in known THEN <<{}>> ELSE <<>>]
  /\ row = [p \in Paths |-> {}]
  /\ disk = [p \in Paths |-> {}]
  /\ call = [c \in Clients |-> None]
  /\ observed = [c \in Clients |-> [p \in Paths |-> None]]
  /\ view = [c \in Clients |-> [p \in Paths |-> None]]
  /\ calls = [c \in Clients |-> 0]
  /\ acked = [p \in Paths |-> {}]
  /\ batches = {}

-----------------------------------------------------------------------------
(* What the coordinator has.                                               *)

get_agent_state(p, a) == IF a \in row[p] THEN rec[p].state[a] ELSE None

Valid(p, a) == get_agent_state(p, a) \notin {None, "INVALID"}

\* The bytes of the current version, None where it has no hash.
Recorded(p) == log[p][rec[p].version]

HashDiffers(p, bytes) == Recorded(p) # None /\ bytes # Recorded(p)

\* resolve_or_register with the hash of these bytes.
resolve_or_register(p, bytes) ==
  IF rec[p] = None THEN [rec |-> register_artifact, log |-> <<bytes>>]
                   ELSE [rec |-> rec[p], log |-> log[p]]

-----------------------------------------------------------------------------
(* Identities and calls.                                                   *)

_remint(c) ==
  /\ rec' = [p \in Paths |-> Forget(rec[p], c)]
  /\ row' = [p \in Paths |-> IF c \in row[p] THEN (row[p] \ {c}) \cup {Orphan} ELSE row[p]]

At(c, pc) == call[c] # None /\ call[c].pc = pc

Goto(c, pc) == call' = [call EXCEPT ![c].pc = pc]

Me(c) == <<c, calls[c]>>

\* The call returns or raises.
Return(c) == call' = [call EXCEPT ![c] = None]

Fixed == UNCHANGED <<config, calls>>

Coordinator == <<rec, row, log>>

Local == <<disk, observed, view, acked, batches>>

\* The bytes the call would write.  write, write_cas_at and atomic_publish
\* build on what the application read, write_cas on what the call itself read.
New(c, p) ==
  {Me(c)} \cup IF call[c].op = "write_cas" THEN call[c].buf ELSE view[c][p].bytes

FirstStep(op) ==
  CASE op = "write" -> "check"
    [] op = "atomic_publish" -> "begin"
    [] OTHER -> "disk"

\* The calls that start with a new identity.
Remints == {"reacquire", "write_cas_at", "atomic_publish"}

Merges == {"write", "write_cas_at"}

Begin(c, op, p) ==
  /\ call[c] = None /\ calls[c] < MaxCalls
  /\ op \in Merges => view[c][p] # None
  /\ op = "atomic_publish" => \A q \in Paths : view[c][q] # None
  /\ calls' = [calls EXCEPT ![c] = @ + 1]
  /\ call' = [call EXCEPT ![c] =
       [op |-> op, path |-> p, buf |-> {}, version |-> 0, denied |-> FALSE,
        pc |-> FirstStep(op), attempts |-> 0, streak |-> 0, todo |-> {}]]
  /\ IF op \in Remints THEN _remint(c) ELSE UNCHANGED <<rec, row>>
  /\ UNCHANGED <<config, log, disk, observed, view, acked, batches>>

\* _fail_closed_or_degrade after a request without a usable answer: strict
\* raises, degrade goes on as if the answer had said nothing.
FailOr(c, pc) == IF config.on_error = "strict" THEN Return(c) ELSE Goto(c, pc)

-----------------------------------------------------------------------------
(* _read_impl and _read_with_version: the bytes first, then /hooks/pre-read *)
(* with their hash.                                                        *)

ReadDisk(c) ==
  LET p == call[c].path IN
  /\ At(c, "disk")
  /\ call' = [call EXCEPT ![c].buf = disk[p], ![c].pc = "lookup",
                          ![c].denied = FALSE, ![c].version = 0]
  /\ observed' = [observed EXCEPT ![c][p] = disk[p]]
  /\ UNCHANGED <<Coordinator, disk, view, acked, batches>> /\ Fixed

PreReadLookup(c) ==
  /\ At(c, "lookup")
  /\ Goto(c, IF rec[call[c].path] = None THEN "first" ELSE "state")
  /\ UNCHANGED <<Coordinator, Local>> /\ Fixed

\* The lookup found no artifact: register it and grant, unchecked.
PreReadFirst(c) ==
  LET p == call[c].path
      seeded == resolve_or_register(p, call[c].buf) IN
  /\ At(c, "first")
  /\ rec' = [rec EXCEPT ![p] = GrantShared(seeded.rec, c)]
  /\ log' = [log EXCEPT ![p] = seeded.log]
  /\ row' = [row EXCEPT ![p] = @ \cup {c}]
  /\ call' = [call EXCEPT ![c].version = seeded.rec.version, ![c].pc = "answer"]
  /\ UNCHANGED Local /\ Fixed

\* _is_recent_self_commit_lag may or may not be in its window.
MayLag(p, c) == rec[p].last_writer = c

\* Mutant: an identity without a row is granted whatever bytes it has.
MayDeny_UncheckedNew(p, c, bytes) ==
  \/ Valid(p, c) /\ HashDiffers(p, bytes)
  \/ get_agent_state(p, c) = "INVALID"

MayDeny(p, c, bytes) ==
  \/ Valid(p, c) /\ HashDiffers(p, bytes)
  \/ get_agent_state(p, c) = "INVALID"
  \/ get_agent_state(p, c) = None /\ HashDiffers(p, bytes)

MayAllow(p, c, bytes) ==
  MayDeny(p, c, bytes) => Valid(p, c) /\ MayLag(p, c)

PreReadState(c) ==
  LET p == call[c].path IN
  /\ At(c, "state")
  /\ \/ /\ MayDeny(p, c, call[c].buf)
        /\ call' = [call EXCEPT ![c].denied = TRUE, ![c].version = rec[p].version,
                                ![c].pc = "answer"]
     \/ /\ MayAllow(p, c, call[c].buf)
        /\ call' = [call EXCEPT ![c].version = rec[p].version,
                                ![c].pc = IF Valid(p, c) THEN "answer" ELSE "heal"]
  /\ UNCHANGED <<Coordinator, Local>> /\ Fixed

PreReadHeal(c) ==
  LET p == call[c].path IN
  /\ At(c, "heal")
  /\ rec' = [rec EXCEPT ![p] = GrantShared(@, c)]
  /\ row' = [row EXCEPT ![p] = @ \cup {c}]
  /\ Goto(c, "answer")
  /\ UNCHANGED <<log, Local>> /\ Fixed

\* What the application still holds after a read that raised.
Raised(c) ==
  view' = [view EXCEPT ![c][call[c].path] = IF Careful THEN None ELSE @]

\* No answer, or a degraded one: version 0 and no verdict.
PreReadLost(c) ==
  /\ call[c] # None /\ call[c].pc \in {"lookup", "first", "state", "heal", "answer"}
  /\ IF config.on_error = "strict"
       THEN Return(c) /\ Raised(c)
       ELSE /\ call' = [call EXCEPT ![c].version = 0, ![c].denied = FALSE, ![c].pc = "answer"]
            /\ UNCHANGED view
  /\ UNCHANGED <<Coordinator, disk, observed, acked, batches>> /\ Fixed

\* read, reacquire and read_with_version hand the bytes to the application.
\* read_with_version does not look at the denial.
ReadReturns(c) ==
  LET k == call[c] IN
  /\ At(c, "answer") /\ k.op \in {"read", "reacquire", "read_with_version"}
  /\ IF k.op = "read" /\ k.denied /\ config.on_stale_read = "raise"
       THEN Raised(c)
       ELSE view' = [view EXCEPT ![c][k.path] = [bytes |-> k.buf, version |-> k.version]]
  /\ Return(c)
  /\ UNCHANGED <<Coordinator, disk, observed, acked, batches>> /\ Fixed

-----------------------------------------------------------------------------
(* _write_cas_impl and _write_cas_at_impl: a checked view, then the commit  *)
(* at its version, then the file.                                          *)

Cas == {"write_cas", "write_cas_at"}

\* Mutant: denials in a row are not counted.
CasDenied_Uncounted(c) ==
  /\ At(c, "answer") /\ call[c].op \in Cas /\ call[c].denied
  /\ Goto(c, "disk") /\ _remint(c)
  /\ UNCHANGED <<log, Local>> /\ Fixed

\* A denied comparand read: write_cas starts over under a new identity, up
\* to a bound of consecutive denials; write_cas_at raises.
CasDenied(c) ==
  LET k == call[c] IN
  /\ At(c, "answer") /\ k.op \in Cas /\ k.denied
  /\ IF k.op = "write_cas_at" \/ k.streak >= MAX_CAS_REACQUIRES
       THEN Return(c) /\ UNCHANGED <<rec, row>>
       ELSE /\ call' = [call EXCEPT ![c].streak = @ + 1, ![c].pc = "disk"]
            /\ _remint(c)
  /\ UNCHANGED <<log, Local>> /\ Fixed

CasReady(c) ==
  LET k == call[c] IN
  /\ At(c, "answer") /\ k.op \in Cas /\ ~k.denied
  /\ IF k.op = "write_cas_at" /\ k.version # view[c][k.path].version
       THEN Return(c)
       ELSE call' = [call EXCEPT ![c].streak = 0, ![c].pc = "cas"]
  /\ UNCHANGED <<Coordinator, Local>> /\ Fixed

\* The commit itself: one transaction of the registry.
Wins(p, c, expected) == OccAllowed(rec[p], c) /\ CasOutcome(rec[p], c, expected) = "win"

\* _CAS_RETRY_REASONS
Retryable(p, c, expected) ==
  \/ rec[p].transient[c] # None
  \/ /\ OccAllowed(rec[p], c)
     /\ CasOutcome(rec[p], c, expected) \in
          {"version_mismatch", "other_holder", "stale_read_generation"}

Commits(p, c, bytes) ==
  /\ rec' = [rec EXCEPT ![p] = CasWin(@, c)]
  /\ row' = [row EXCEPT ![p] = @ \cup {c}]
  /\ log' = [log EXCEPT ![p] = Append(@, bytes)]

\* A path the coordinator does not know: it answers ok and records nothing.
CasWon(c) ==
  LET k == call[c] IN
  /\ At(c, "cas")
  /\ \/ rec[k.path] = None /\ UNCHANGED Coordinator
     \/ /\ rec[k.path] # None
        /\ Wins(k.path, c, k.version)
        /\ Commits(k.path, c, New(c, k.path))
  /\ call' = [call EXCEPT ![c].attempts = @ + 1, ![c].pc = "replace"]
  /\ UNCHANGED Local /\ Fixed

CasLost(c) ==
  LET k == call[c] IN
  /\ At(c, "cas") /\ rec[k.path] # None /\ ~Wins(k.path, c, k.version)
  /\ IF /\ Retryable(k.path, c, k.version)
        /\ k.op = "write_cas" /\ k.attempts < MAX_CAS_REACQUIRES
       THEN /\ call' = [call EXCEPT ![c].attempts = @ + 1, ![c].pc = "disk"]
            /\ _remint(c)
       ELSE Return(c) /\ UNCHANGED <<rec, row>>
  /\ UNCHANGED <<log, Local>> /\ Fixed

\* No answer, or the watchdog's: committed or not, the call raises and leaves
\* the disk alone.
CasUnconfirmed(c) ==
  LET k == call[c] IN
  /\ At(c, "cas")
  /\ \/ UNCHANGED Coordinator
     \/ /\ rec[k.path] # None /\ Wins(k.path, c, k.version)
        /\ Commits(k.path, c, New(c, k.path))
  /\ Return(c)
  /\ UNCHANGED Local /\ Fixed

\* _atomic_write and _record_own_write.
Replace(c) ==
  LET p == call[c].path IN
  /\ At(c, "replace")
  /\ disk' = [disk EXCEPT ![p] = New(c, p)]
  /\ observed' = [observed EXCEPT ![c][p] = New(c, p)]
  /\ acked' = [acked EXCEPT ![p] = @ \cup {Me(c)}]
  /\ view' = [view EXCEPT ![c][p] = [bytes |-> New(c, p), version |-> call[c].version + 1]]
  /\ Return(c)
  /\ UNCHANGED <<Coordinator, batches>> /\ Fixed

\* Staging or replacing the file raises OSError.
ReplaceFails(c) ==
  /\ At(c, "replace")
  /\ Return(c)
  /\ UNCHANGED <<Coordinator, Local>> /\ Fixed

-----------------------------------------------------------------------------
(* _atomic_publish_session_impl and _materialize_publish, over all paths.  *)

\* /session/begin: paths are registered without a hash, the versions pinned.
PublishBegin(c) ==
  LET seeded == [p \in Paths |-> resolve_or_register(p, None)] IN
  /\ At(c, "begin")
  /\ rec' = [p \in Paths |-> seeded[p].rec]
  /\ log' = [p \in Paths |-> seeded[p].log]
  /\ IF \A p \in Paths : seeded[p].rec.version = view[c][p].version
       THEN Goto(c, "commit_all")
       ELSE Return(c)
  /\ UNCHANGED <<row, Local>> /\ Fixed

CanPublish(c) == \A p \in Paths : Wins(p, c, view[c][p].version)

\* /session/commit_all: every member or none.
CommitBatch(c) ==
  IF CanPublish(c)
    THEN /\ rec' = [p \in Paths |-> CasWin(rec[p], c)]
         /\ row' = [p \in Paths |-> row[p] \cup {c}]
         /\ log' = [p \in Paths |-> Append(log[p], New(c, p))]
    ELSE UNCHANGED Coordinator

PublishCommit(c) ==
  /\ At(c, "commit_all")
  /\ CommitBatch(c)
  /\ IF CanPublish(c) THEN Goto(c, "stage") ELSE Return(c)
  /\ batches' = batches \cup {Me(c)}
  /\ UNCHANGED <<disk, observed, view, acked>> /\ Fixed

\* begin or commit_all without an answer.  In degrade mode a degraded answer
\* is no success either.
PublishUnconfirmed(c) ==
  /\ \/ At(c, "begin") /\ UNCHANGED <<Coordinator, batches>>
     \/ At(c, "commit_all") /\ UNCHANGED <<Coordinator, batches>>
     \/ At(c, "commit_all") /\ CommitBatch(c) /\ batches' = batches \cup {Me(c)}
  /\ Return(c)
  /\ UNCHANGED <<disk, observed, view, acked>> /\ Fixed

\* Every member is staged before the first is replaced.
PublishStage(c) ==
  /\ At(c, "stage")
  /\ call' = [call EXCEPT ![c].pc = "materialize", ![c].todo = Paths]
  /\ UNCHANGED <<Coordinator, Local>> /\ Fixed

PublishPut(c) ==
  /\ At(c, "materialize")
  /\ \E p \in call[c].todo :
       /\ disk' = [disk EXCEPT ![p] = New(c, p)]
       /\ observed' = [observed EXCEPT ![c][p] = New(c, p)]
       /\ IF call[c].todo = {p}
            THEN /\ acked' = [q \in Paths |-> acked[q] \cup {Me(c)}]
                 /\ Return(c)
            ELSE /\ call' = [call EXCEPT ![c].todo = @ \ {p}]
                 /\ UNCHANGED acked
  /\ UNCHANGED <<Coordinator, view, batches>> /\ Fixed

\* PublishMaterializationError: nothing, or some of the members, landed.
PublishFails(c) ==
  /\ At(c, "stage") \/ At(c, "materialize")
  /\ Return(c)
  /\ UNCHANGED <<Coordinator, Local>> /\ Fixed

-----------------------------------------------------------------------------
(* _write_impl: /hooks/pre-edit, the foreign-edit check, the file, and only *)
(* then /hooks/post-edit.                                                  *)

\* The strict check of pre-edit.
EditCheck(c) ==
  LET p == call[c].path
      seeded == resolve_or_register(p, None) IN
  /\ At(c, "check")
  /\ rec' = [rec EXCEPT ![p] = seeded.rec]
  /\ log' = [log EXCEPT ![p] = seeded.log]
  /\ IF get_agent_state(p, c) = "INVALID" THEN Return(c) ELSE Goto(c, "acquire")
  /\ UNCHANGED <<row, Local>> /\ Fixed

EditAcquire(c) ==
  LET p == call[c].path IN
  /\ At(c, "acquire")
  /\ rec' = [rec EXCEPT ![p] = WriteRecord(@, c, 0)]
  /\ row' = [row EXCEPT ![p] = @ \cup {c}]
  /\ Goto(c, "compare")
  /\ UNCHANGED <<log, Local>> /\ Fixed

\* pre-edit without an answer, before or after its effect.
EditLost(c) ==
  /\ call[c] # None /\ call[c].op = "write" /\ call[c].pc \in {"check", "acquire", "compare"}
  /\ FailOr(c, "compare")
  /\ UNCHANGED <<Coordinator, Local>> /\ Fixed

_check_foreign_edit(c, p) == observed[c][p] # None /\ disk[p] # observed[c][p]

EditCompare(c) ==
  /\ At(c, "compare")
  /\ Goto(c, IF _check_foreign_edit(c, call[c].path) THEN "fail" ELSE "put")
  /\ UNCHANGED <<Coordinator, Local>> /\ Fixed

EditPut(c) ==
  LET p == call[c].path IN
  /\ At(c, "put")
  /\ \/ /\ disk' = [disk EXCEPT ![p] = New(c, p)]
        /\ observed' = [observed EXCEPT ![c][p] = New(c, p)]
        /\ Goto(c, "commit")
     \/ Goto(c, "fail") /\ UNCHANGED <<disk, observed>>
  /\ UNCHANGED <<Coordinator, view, acked, batches>> /\ Fixed

\* post-edit with success false, best effort; the write raises.
EditFail(c) ==
  LET p == call[c].path IN
  /\ At(c, "fail")
  /\ \/ UNCHANGED <<rec, row>>
     \/ /\ rec[p] # None
        /\ rec' = [rec EXCEPT ![p] = InvalidateRecord(@, c, 0)]
        /\ row' = [row EXCEPT ![p] = @ \cup {c}]
  /\ Return(c)
  /\ UNCHANGED <<log, Local>> /\ Fixed

CanCommit(p, c) ==
  /\ rec[p] # None /\ rec[p].state[c] \in M_OR_E_STATES
  /\ ~StaleReadGeneration(rec[p], c)

\* commit by the owner.
EditCommits(p, c, bytes) ==
  /\ rec' = [rec EXCEPT ![p] = CommitRecord(@, c, 0)]
  /\ log' = [log EXCEPT ![p] = Append(@, bytes)]
  /\ UNCHANGED row

\* The write returned to its application, which now holds the new bytes.
Written(c, p) ==
  /\ acked' = [acked EXCEPT ![p] = @ \cup {Me(c)}]
  /\ view' = [view EXCEPT ![c][p] = [bytes |-> New(c, p), version |-> @.version]]

\* Refused: CommitPreempted, with the new bytes on the disk.
EditCommit(c) ==
  LET p == call[c].path IN
  /\ At(c, "commit")
  /\ IF CanCommit(p, c)
       THEN EditCommits(p, c, New(c, p)) /\ Written(c, p)
       ELSE UNCHANGED <<Coordinator, acked, view>>
  /\ Return(c)
  /\ UNCHANGED <<disk, observed, batches>> /\ Fixed

\* post-edit without an answer: strict raises, degrade returns.
EditCommitLost(c) ==
  LET p == call[c].path IN
  /\ At(c, "commit")
  /\ \/ UNCHANGED Coordinator
     \/ CanCommit(p, c) /\ EditCommits(p, c, New(c, p))
  /\ IF config.on_error = "strict" THEN UNCHANGED <<acked, view>> ELSE Written(c, p)
  /\ Return(c)
  /\ UNCHANGED <<disk, observed, batches>> /\ Fixed

-----------------------------------------------------------------------------
(* Around the calls.                                                       *)

\* The coordinator's sweep reclaims a grant that was not renewed.
Reclaim(p, a) ==
  /\ rec[p] # None /\ rec[p].state[a] \in M_OR_E_STATES
  /\ rec' = [rec EXCEPT ![p] = ReclaimRecord(@, a, "reclaim_heartbeat", 0)]
  /\ UNCHANGED <<row, log, call, Local>> /\ Fixed

\* A client dies inside a call; its process starts again with a new volume.
Crash(c) ==
  /\ call[c] # None
  /\ Return(c)
  /\ _remint(c)
  /\ observed' = [observed EXCEPT ![c] = [p \in Paths |-> None]]
  /\ view' = [view EXCEPT ![c] = [p \in Paths |-> None]]
  /\ UNCHANGED <<log, disk, acked, batches>> /\ Fixed

\* An editor or a script changes the file behind everybody's back.
ForeignEdit(p, n) ==
  /\ \A q \in Paths : <<Human, n>> \notin acked[q]
  /\ disk' = [disk EXCEPT ![p] = @ \cup {<<Human, n>>}]
  /\ acked' = [acked EXCEPT ![p] = @ \cup {<<Human, n>>}]
  /\ UNCHANGED <<Coordinator, call, observed, view, batches>> /\ Fixed

PreRead(c) ==
  ReadDisk(c) \/ PreReadLookup(c) \/ PreReadFirst(c) \/ PreReadState(c) \/ PreReadHeal(c)

CasStep(c) == CasDenied(c) \/ CasReady(c) \/ CasWon(c) \/ CasLost(c) \/ Replace(c)

PublishStep(c) == PublishBegin(c) \/ PublishCommit(c) \/ PublishStage(c) \/ PublishPut(c)

EditStep(c) ==
  EditCheck(c) \/ EditAcquire(c) \/ EditCompare(c) \/ EditPut(c) \/ EditFail(c) \/ EditCommit(c)

\* The client's own next step.
Step(c) == PreRead(c) \/ ReadReturns(c) \/ CasStep(c) \/ PublishStep(c) \/ EditStep(c)

\* A commit or a file operation that fails.
CommitFault(c) ==
  \/ CasUnconfirmed(c) \/ ReplaceFails(c) \/ PublishUnconfirmed(c) \/ PublishFails(c)
  \/ EditLost(c) \/ EditCommitLost(c)

Next ==
  \/ \E c \in Clients : \E op \in Ops, p \in Paths : Begin(c, op, p)
  \/ \E c \in Clients : Step(c) \/ CommitFault(c) \/ PreReadLost(c) \/ Crash(c)
  \/ \E p \in Paths, a \in Agents : Reclaim(p, a)
  \/ \E p \in Paths, n \in 1 .. MaxCalls : ForeignEdit(p, n)

\* A call runs on its caller's thread: while the process lives it goes on.
Fairness == \A c \in Clients : WF_vars(Step(c))

Spec == Init /\ [][Next]_vars /\ Fairness

-----------------------------------------------------------------------------
(* Properties.                                                             *)

Committed(p) == {n \in 1 .. Len(log[p]) : log[p][n] # None}

\* "final == start + every applied delta, OR a typed raise": the bytes of the
\* current version of a path contain every update whose write_cas returned.
NoLostUpdate ==
  \A p \in Paths : acked[p] # {} /\ rec[p] # None => acked[p] \subseteq Recorded(p)

\* Where every writer commits first, a file only ever holds bytes of some
\* version: neither an unconfirmed commit nor a refused publish touches the
\* disk.
DiskIsCommitted ==
  \A p \in Paths : disk[p] # {} => \E n \in Committed(p) : log[p][n] = disk[p]

\* A publish moves the version of every member or of none.
PublishWhole ==
  \A u \in batches :
    LET members == {p \in Paths : \E n \in Committed(p) : u \in log[p][n]} IN
    members \in {{}, Paths}

\* "Prevents the sequential stale-read->write lost update": while calls do not
\* overlap, no update whose write returned, and no out-of-band edit, ever
\* leaves the disk.
SequentialWritesKept == \A p \in Paths : acked[p] \subseteq disk[p]

\* Every call returns or raises, whatever the others do.
EveryCallReturns == \A c \in Clients : call[c] # None ~> call[c] = None
=============================================================================
