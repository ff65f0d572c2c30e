----------------------------- MODULE Workspace -----------------------------
(***************************************************************************)
(* WorkspaceVersioner: named checkpoints over files, S3 objects and        *)
(* forward-only surfaces.  A checkpoint reads every member once (capture), *)
(* reads it again (verify), persists one manifest, then pins what the      *)
(* manifest points at.  The versioner's lock runs one operation at a time; *)
(* other writers move the members between any two of its reads.  The       *)
(* registry's rows survive a crash, the operation in progress does not.    *)
(*                                                                         *)
(* A fingerprint is the body it identifies.  File members ride the         *)
(* command line's working-tree bridge: a ledger of observed versions.      *)
(* For a Connected file that ledger is the coordinator's own registry;     *)
(* for the others the coordinator keeps its own artifact.                  *)
(***************************************************************************)
EXTENDS CheckpointStore, SequencesExt

CONSTANTS
  Files, Objects, Surfaces,   \* member paths by kind
  Order,                      \* the sequence of all members, by path
  Connected,                  \* files whose ledger is the coordinator's
  Binary,                     \* bodies that are not UTF-8 text
  Blocked,                    \* a path the bridge refuses: a link, a directory
  MaxMoves, MaxCrashes        \* bounds on the environment

ASSUME KindsAssumption ==
  /\ Members = Files \cup Objects \cup Surfaces
  /\ ToSet(Order) = Members
  /\ Connected \subseteq Files
  /\ Binary \subseteq Contents
  /\ {Absent, Lost, Blocked, None} \cap Contents = {}

VARIABLES
  disk,       \* file -> the bytes at its path
  ledger,     \* file -> its observed versions: [hash, kept]
  coord,      \* unconnected file -> the coordinator artifact's versions
  bucket,     \* object -> its versions
  bucketCfg,  \* "unversioned" | "versioned" | "locked": Object Lock needs versions
  run,        \* the operation the versioner is executing
  cut,        \* its captured rows, not yet persisted
  closing,    \* history: checkpoint -> object versions when its window closed
  moves, crashes

world == <<disk, ledger, coord, bucket, bucketCfg>>
vars == <<world, store, run, cut, closing, moves, crashes>>

Ledger == Seq([hash : Contents, kept : BOOLEAN])

Idle == [op |-> "idle", c |-> None, todo |-> <<>>, pin |-> FALSE]

Versioned == bucketCfg # "unversioned"

Init ==
  /\ disk \in [Files -> Contents \cup {Absent}]
  /\ ledger = [f \in Files |-> <<>>]
  /\ coord \in [Files -> {<<>>} \cup {<<[hash |-> body, kept |-> TRUE]>> : body \in Contents}]
  /\ \A f \in Connected : coord[f] = <<>>
  /\ bucketCfg \in {"unversioned", "versioned", "locked"}
  /\ \E body \in [Objects -> Contents \cup {Absent}] :
       bucket = [o \in Objects |->
         IF body[o] = Absent THEN <<>> ELSE Store(<<>>, body[o], Versioned)]
  /\ StoreInit
  /\ run = Idle /\ cut = NoManifest
  /\ closing = [c \in Checkpoints |-> [o \in Objects |-> 0]]
  /\ moves = 0 /\ crashes = 0

At(op) == run.op = op
Current == Head(run.todo)

\* Go to the next member of the pass, or end the operation.
Advance(op) ==
  run' = IF Tail(run.todo) = <<>> THEN Idle
         ELSE [run EXCEPT !.op = op, !.todo = Tail(@)]

-----------------------------------------------------------------------------
\* The file bridge.

HeadHash(log) == IF log = <<>> THEN None ELSE log[Len(log)].hash

\* WorkingTreeSource.read_with_version records what it reads: a first
\* observation mints version 1, drift mints the next one.
Observed(f) ==
  IF HeadHash(ledger[f]) = disk[f] THEN ledger
  ELSE [ledger EXCEPT ![f] = Append(@, [hash |-> disk[f], kept |-> TRUE])]

\* RetainedContentResolver.content_at; None when the version is not retained.
content_at(f, v) ==
  IF v \in 1..Len(ledger[f]) /\ ledger[f][v].kept THEN ledger[f][v].hash ELSE None

\* _validated_member_path and the guarded open: links, directories and other
\* non-regular leaves are refused.
MemberPathRefused(f) == disk[f] = Blocked

derive_restore_tier(versioned, pinnable) ==
  IF ~versioned THEN "forward_only"
  ELSE IF pinnable THEN "restorable" ELSE "restorable-unpinned"

Seen(absent, token, body, tier) ==
  [Undescribed EXCEPT !.absent = absent, !.token = token, !.fingerprint = body, !.tier = tier]

AbsentRow == Seen(TRUE, None, None, "forward_only")

\* read_versioned, or the plain read when the pointer is unconfirmed.
_observe_object(o) ==
  IF Latest(bucket[o]) = Absent THEN AbsentRow
  ELSE Seen(FALSE, IF Confirmed(bucket[o]) THEN Len(bucket[o]) ELSE None,
            Latest(bucket[o]), derive_restore_tier(Confirmed(bucket[o]), TRUE))

\* The readings of a file: its row and the ledger the read leaves.  A bridge
\* reads text with a version and other bytes without one; a volume that cannot
\* resolve its coordinator has no version either.  A blocked path has no reading.
_observe_file(f) ==
  LET unversioned == {<<Seen(FALSE, None, disk[f], "forward_only"), ledger>>}
      versioned == {<<Seen(FALSE, Len(Observed(f)[f]), disk[f],
                           derive_restore_tier(TRUE, FALSE)), Observed(f)>>}
  IN  CASE MemberPathRefused(f) -> {}
        [] disk[f] = Absent -> {<<AbsentRow, ledger>>}
        [] disk[f] \in Binary -> unversioned
        [] disk[f] \in Contents \ Binary ->
             IF f \in Connected THEN versioned ELSE versioned \cup unversioned

_observe(m) == IF m \in Objects THEN {<<_observe_object(m), ledger>>} ELSE _observe_file(m)

-----------------------------------------------------------------------------
\* checkpoint: capture, verify, persist.

checkpoint(c, pin) ==
  /\ At("idle") /\ status[c] = "unused"
  /\ run' = [op |-> "capture", c |-> c, todo |-> Order, pin |-> pin]
  /\ cut' = NoManifest
  /\ UNCHANGED <<world, store, closing, moves, crashes>>

Stateful == SelectSeq(Order, LAMBDA m : m \notin Surfaces)

RefusedBinary(m) == m \in Files /\ disk[m] \in Binary

Captured ==
  IF Tail(run.todo) # <<>> THEN run' = [run EXCEPT !.todo = Tail(@)] /\ UNCHANGED closing
  ELSE /\ run' = [run EXCEPT !.op = IF Stateful = <<>> THEN "persist" ELSE "verify",
                             !.todo = Stateful]
       /\ closing' = [closing EXCEPT ![run.c] = [o \in Objects |-> Len(bucket[o])]]

\* One capture read of _capture_all.
_capture_all ==
  /\ At("capture")
  /\ \/ Current \in Surfaces /\ UNCHANGED <<ledger, cut>>
     \/ /\ Current \notin Surfaces /\ ~RefusedBinary(Current)
        /\ \E seen \in _observe(Current) :
             ledger' = seen[2] /\ cut' = [cut EXCEPT ![Current] = seen[1]]
  /\ Captured
  /\ UNCHANGED <<disk, coord, bucket, bucketCfg, store, moves, crashes>>

\* BinaryFileMemberRefused or StructuralMemberRefused: nothing is persisted.
CaptureRefused ==
  /\ At("capture") \/ At("verify")
  /\ Current \in Files
  /\ MemberPathRefused(Current) \/ (At("capture") /\ RefusedBinary(Current))
  /\ run' = Idle /\ cut' = NoManifest
  /\ UNCHANGED <<world, store, closing, moves, crashes>>

Same(a, b) == a.absent = b.absent /\ a.token = b.token /\ a.fingerprint = b.fingerprint

\* One verification read of _verify_window.
_verify_window ==
  /\ At("verify")
  /\ \E seen \in _observe(Current) :
       /\ ledger' = seen[2]
       /\ cut' = [cut EXCEPT ![Current].dirty = ~Same(seen[1], cut[Current])]
  /\ run' = IF Tail(run.todo) # <<>> THEN [run EXCEPT !.todo = Tail(@)]
            ELSE [run EXCEPT !.op = "persist"]
  /\ UNCHANGED <<disk, coord, bucket, bucketCfg, store, closing, moves, crashes>>

\* create_workspace_checkpoint writes the manifest in one transaction, or the
\* registry raises and nothing is kept (CheckpointPersistFailed).
_persist ==
  /\ At("persist")
  /\ \/ /\ create_workspace_checkpoint(run.c, cut)
        /\ run' = IF run.pin THEN [run EXCEPT !.op = "pins"] ELSE Idle
     \/ run' = Idle /\ UNCHANGED store
  /\ cut' = NoManifest
  /\ UNCHANGED <<world, closing, moves, crashes>>

-----------------------------------------------------------------------------
\* The pin legs and their release.

Begin(op, todo) == run' = IF todo = <<>> THEN Idle ELSE [run EXCEPT !.op = op, !.todo = todo]

_pin_eligible(row, m) ==
  /\ ~row.absent /\ row.token # None /\ row.pin = "unpinned"
  /\ row.tier = IF m \in Objects THEN "restorable" ELSE "restorable-unpinned"

\* pin_checkpoint re-drives the pin pass of a persisted checkpoint.
pin_checkpoint(c) ==
  /\ At("idle") /\ status[c] # "unused"
  /\ run' = [op |-> "pins", c |-> c, todo |-> <<>>, pin |-> TRUE]
  /\ UNCHANGED <<world, store, cut, closing, moves, crashes>>

\* _pin_members reads the durable rows once.
_pin_members ==
  /\ At("pins")
  /\ Begin("pin", SelectSeq(Stateful, LAMBDA m : _pin_eligible(rows[run.c][m], m)))
  /\ UNCHANGED <<world, store, cut, closing, moves, crashes>>

SetPin(pin, tier) == set_workspace_checkpoint_member_pin(run.c, Current, pin, tier)

Pinning == At("pin") /\ UNCHANGED <<disk, ledger, coord, bucketCfg, cut, closing, moves, crashes>>

Pinned == rows[run.c][Current]

\* set_legal_hold: the substrate call.
_pin_object_leg ==
  /\ Pinning /\ Current \in Objects
  /\ \/ /\ bucketCfg = "locked" /\ read_pinned(bucket[Current], Pinned.token) # Lost
        /\ bucket' = [bucket EXCEPT ![Current][Pinned.token].held = TRUE]
        /\ run' = [run EXCEPT !.op = "record"]
        /\ UNCHANGED store
     \/ /\ bucketCfg # "locked" \/ read_pinned(bucket[Current], Pinned.token) = Lost
        /\ SetPin("pin_unavailable", "restorable-unpinned")
        /\ Advance("pin")
        /\ UNCHANGED bucket

\* The verification pin: retention still serves the captured bytes.
_pin_file_leg ==
  /\ Pinning /\ Current \in Files
  /\ IF content_at(Current, Pinned.token) = Pinned.fingerprint
       THEN run' = [run EXCEPT !.op = "record"] /\ UNCHANGED store
       ELSE SetPin("pin_unavailable", "forward_only") /\ Advance("pin")
  /\ UNCHANGED bucket

\* The pin state and the refcount are two registry writes.
RecordHeld ==
  /\ At("record")
  /\ SetPin("held", None)
  /\ run' = [run EXCEPT !.op = "count"]
  /\ UNCHANGED <<world, cut, closing, moves, crashes>>

CountHeld ==
  /\ At("count")
  /\ adjust_workspace_checkpoint_pin_refcount(run.c, 1)
  /\ Advance("pin")
  /\ UNCHANGED <<world, cut, closing, moves, crashes>>

_release_checkpoint_pins(c) ==
  LET held == SelectSeq(Stateful, LAMBDA m : rows[c][m].pin = "held") IN
  /\ At("idle") /\ held # <<>>
  /\ run' = [op |-> "release", c |-> c, todo |-> held, pin |-> FALSE]
  /\ UNCHANGED <<world, store, cut, closing, moves, crashes>>

RecordReleased ==
  /\ At("release")
  /\ SetPin("released", IF Pinned.tier = "restorable" THEN "restorable-unpinned" ELSE None)
  /\ run' = [run EXCEPT !.op = "uncount"]
  /\ UNCHANGED <<world, cut, closing, moves, crashes>>

\* The counter refuses to go negative: the release raises half way.
CountReleased ==
  /\ At("uncount")
  /\ \/ /\ adjust_workspace_checkpoint_pin_refcount(run.c, -1)
        /\ IF Current \in Objects THEN run' = [run EXCEPT !.op = "drop"] ELSE Advance("release")
     \/ refcount[run.c] = 0 /\ run' = Idle /\ UNCHANGED store
  /\ UNCHANGED <<world, cut, closing, moves, crashes>>

\* Mutant: the scan ignores other checkpoints.
_pin_shared_elsewhere_Never(c, m) == FALSE

_pin_shared_elsewhere(c, m) ==
  \E d \in Checkpoints \ {c} : rows[d][m].pin = "held" /\ rows[d][m].token = rows[c][m].token

\* release_legal_hold, unless another checkpoint holds the same version.
DropHold ==
  /\ At("drop")
  /\ bucket' = IF _pin_shared_elsewhere(run.c, Current) \/ bucketCfg # "locked" THEN bucket
               ELSE [bucket EXCEPT ![Current][Pinned.token].held = FALSE]
  /\ Advance("release")
  /\ UNCHANGED <<disk, ledger, coord, bucketCfg, store, cut, closing, moves, crashes>>

-----------------------------------------------------------------------------
\* The environment.

Move == moves < MaxMoves /\ moves' = moves + 1
        /\ UNCHANGED <<store, run, cut, closing, crashes>>

EditFile(f, body) ==
  /\ Move /\ body # disk[f]
  /\ disk' = [disk EXCEPT ![f] = body]
  /\ UNCHANGED <<ledger, coord, bucket, bucketCfg>>

PutObject(o, body) ==
  /\ Move /\ body # Latest(bucket[o])
  /\ bucket' = [bucket EXCEPT ![o] = Store(@, body, Versioned)]
  /\ UNCHANGED <<disk, ledger, coord, bucketCfg>>

\* A lifecycle rule expires an object version, or retention drops a body.
ExpireVersion(o, v) ==
  /\ Move /\ v \in Expirable(bucket[o])
  /\ bucket' = [bucket EXCEPT ![o] = Expire(@, v)]
  /\ UNCHANGED <<disk, ledger, coord, bucketCfg>>

EvictBody(f, v) ==
  /\ Move /\ v < Len(ledger[f]) /\ ledger[f][v].kept
  /\ ledger' = [ledger EXCEPT ![f][v].kept = FALSE]
  /\ UNCHANGED <<disk, coord, bucket, bucketCfg>>

SuspendVersioning ==
  /\ Move /\ bucketCfg = "versioned"
  /\ bucketCfg' = "unversioned"
  /\ UNCHANGED <<disk, ledger, coord, bucket>>

Environment ==
  \/ \E f \in Files, body \in Contents \cup {Absent, Blocked} : EditFile(f, body)
  \/ \E o \in Objects, body \in Contents \cup {Absent} : PutObject(o, body)
  \/ \E o \in Objects : \E v \in 1..Len(bucket[o]) : ExpireVersion(o, v)
  \/ \E f \in Files : \E v \in 1..Len(ledger[f]) : EvictBody(f, v)
  \/ SuspendVersioning

\* The process dies, or a substrate or registry call raises out of the operation.
Crash ==
  /\ ~At("idle") /\ crashes < MaxCrashes
  /\ run' = Idle /\ cut' = NoManifest /\ crashes' = crashes + 1
  /\ UNCHANGED <<world, store, closing, moves>>

Capture ==
  \/ \E c \in Checkpoints, pin \in BOOLEAN : checkpoint(c, pin)
  \/ _capture_all \/ CaptureRefused \/ _verify_window \/ _persist

Pins ==
  \/ \E c \in Checkpoints : pin_checkpoint(c) \/ _release_checkpoint_pins(c)
  \/ _pin_members \/ _pin_object_leg \/ _pin_file_leg \/ RecordHeld \/ CountHeld
  \/ RecordReleased \/ CountReleased \/ DropHold

Next == Capture \/ Pins \/ Environment \/ Crash

Spec == Init /\ [][Next]_vars

-----------------------------------------------------------------------------
\* Properties.

\* The state variables of the versioner, its registry rows and its members have
\* the shapes the code gives them.
TypeOK ==
  /\ disk \in [Files -> Contents \cup {Absent, Blocked}]
  /\ ledger \in [Files -> Ledger] /\ coord \in [Files -> Ledger]
  /\ bucket \in [Objects -> Seq(Version)]
  /\ StoreTypeOK
  /\ cut \in [Members -> CheckpointMember]
  /\ run.c \in Checkpoints \cup {None} /\ ToSet(run.todo) \subseteq Members

\* A pin the registry records as held is one the substrate enforces: the object
\* version carries a legal hold and its body is there, whatever other checkpoints
\* release, expire or crash in the middle of.
HeldIsHeld ==
  \A c \in Checkpoints, o \in Objects :
    rows[c][o].pin = "held" =>
      /\ bucket[o][rows[c][o].token].held
      /\ bucket[o][rows[c][o].token].body = rows[c][o].fingerprint

\* The tier restorable is never claimed without its pin: every refused or
\* released pin downgrades the tier in the same registry write.
RestorableIsBacked ==
  \A c \in Checkpoints, m \in Members :
    rows[c][m].tier = "restorable" => rows[c][m].pin \in {"unpinned", "held"}

\* A clean cut is a cut: the versions of all objects a manifest does not flag
\* were current together, when the last capture read ended the window.
CleanCutIsACut ==
  \A c \in Checkpoints, o \in Objects :
    status[c] # "unused" /\ rows[c][o].token # None /\ ~rows[c][o].dirty =>
      rows[c][o].token = closing[c][o]

\* The refcount tells how many members a checkpoint holds, up to one per crash:
\* the pin record and the counter are two registry writes.
RefcountDrift ==
  At("idle") => \A c \in Checkpoints :
    refcount[c] - Cardinality({m \in Members : rows[c][m].pin = "held"}) \in -crashes .. crashes
=============================================================================
