-------------------------- MODULE WorkspaceRestore --------------------------
(***************************************************************************)
(* WorkspaceVersioner.restore: drive every member of a checkpoint to a     *)
(* terminal outcome, record each outcome durably before the next member,   *)
(* register the written files with the coordinator, conclude.  Every read, *)
(* conditional write, reconciliation and registry write is a step of its   *)
(* own; the members' other writers and the crashes of Workspace come       *)
(* between any two.  A put whose answer was lost may land later, under the *)
(* comparand it carries.                                                   *)
(***************************************************************************)
EXTENDS Workspace

CONSTANT MaxRedrives   \* MAX_RESTORE_LEG_REDRIVES

ASSUME RedrivesAssumption == MaxRedrives \in Nat

VARIABLES
  leg,        \* the leg being driven, and what the run remembers for its seam
  inflight,   \* a put whose answer was lost and that has not landed yet
  obstacle,   \* what commit_all would answer the controller, besides a version
  matched,    \* history: members whose live state matched the manifest
  marked,     \* history: checkpoints that carried the registered marker
  regs        \* history: registration batches won, and commits by peers

restoreHistory == <<matched, marked, regs>>
restoreVars == <<vars, leg, inflight, obstacle, restoreHistory>>

NoLeg == [tries |-> 0, token |-> None, body |-> None, outcome |-> None,
          deleted |-> FALSE, prior |-> FALSE, batch |-> <<>>]

RestoreInit ==
  /\ Init
  /\ leg = NoLeg /\ inflight = None /\ obstacle = "none"
  /\ matched = {} /\ marked = {} /\ regs = [won |-> 0, peer |-> 0]

Target == rows[run.c][Current]

\* An engine step changes only what its action names.
Keep == UNCHANGED <<coord, bucketCfg, cut, closing, moves, crashes, marked>>
StayDurable == UNCHANGED <<store, regs, obstacle>>

Goto(op) == run' = [run EXCEPT !.op = op]

Answer(outcome) == Goto("outcome") /\ leg' = [leg EXCEPT !.outcome = outcome]

\* _restore_locked up to its first member.
restore(c) ==
  LET todo == SelectSeq(Order, LAMBDA m : rows[c][m].outcome = None) IN
  /\ At("idle") /\ status[c] \in {"none", "in_progress", "registered"}
  /\ set_workspace_checkpoint_restore_status(c, "in_progress")
  /\ run' = [op |-> IF todo = <<>> THEN "seam" ELSE "drive", c |-> c, todo |-> todo, pin |-> FALSE]
  /\ leg' = [NoLeg EXCEPT !.prior = status[c] = "registered"]
  /\ Keep /\ UNCHANGED <<disk, ledger, bucket, regs, obstacle, inflight>>

\* _drive_member: the absent fact first, then the tier, then the kind.
_drive_member ==
  /\ At("drive")
  /\ \/ Target.absent /\ Goto("probe") /\ UNCHANGED leg
     \/ ~Target.absent /\ Target.tier = "forward_only" /\ Answer("forward_only_skipped")
     \/ /\ ~Target.absent /\ Target.tier # "forward_only"
        /\ Goto(IF Current \in Objects THEN "read_object" ELSE "read_file")
        /\ UNCHANGED leg
  /\ Keep /\ StayDurable /\ UNCHANGED <<disk, ledger, bucket, inflight>>

\* Mutant: the outcomes are kept in memory.
RecordOutcome_RunLocal ==
  /\ At("outcome")
  /\ run' = IF Tail(run.todo) = <<>> THEN [run EXCEPT !.op = "seam", !.todo = <<>>]
            ELSE [run EXCEPT !.op = "drive", !.todo = Tail(@)]
  /\ leg' = [NoLeg EXCEPT !.prior = leg.prior]
  /\ Keep /\ UNCHANGED <<disk, ledger, bucket, store, regs, obstacle, inflight>>

\* set_workspace_checkpoint_member_restore, before the next member.
RecordOutcome ==
  /\ At("outcome")
  /\ set_workspace_checkpoint_member_restore(run.c, Current, leg.outcome, leg.deleted)
  /\ run' = IF Tail(run.todo) = <<>> THEN [run EXCEPT !.op = "seam", !.todo = <<>>]
            ELSE [run EXCEPT !.op = "drive", !.todo = Tail(@)]
  /\ leg' = [NoLeg EXCEPT !.prior = leg.prior]
  /\ Keep /\ UNCHANGED <<disk, ledger, bucket, regs, obstacle, inflight>>

-----------------------------------------------------------------------------
\* The delete legs.

_drive_file_absent_leg ==
  /\ At("probe") /\ Current \in Files
  /\ \/ MemberPathRefused(Current) /\ Answer("target_lost") /\ UNCHANGED ledger
     \/ \E seen \in _observe(Current) :
          /\ Answer(IF seen[1].absent THEN "converged" ELSE "conflict")
          /\ ledger' = seen[2]
  /\ Keep /\ StayDurable /\ UNCHANGED <<disk, bucket, inflight>>

_drive_object_delete_leg ==
  /\ run.todo # <<>> /\ Current \in Objects
  /\ \/ /\ At("probe")
        /\ IF Latest(bucket[Current]) = Absent THEN Answer("converged")
           ELSE Goto("delete") /\ UNCHANGED leg
        /\ UNCHANGED bucket
     \/ /\ At("delete")
        /\ bucket' = [bucket EXCEPT ![Current] = Store(@, Absent, Versioned)]
        /\ Goto("outcome") /\ leg' = [leg EXCEPT !.outcome = "restored", !.deleted = TRUE]
  /\ Keep /\ StayDurable /\ UNCHANGED <<disk, ledger, inflight>>

-----------------------------------------------------------------------------
\* The object leg.

Spent == leg.tries = MaxRedrives + 1

\* One iteration of _drive_object_leg: the budget, then the live read that
\* yields the comparand of the put.  A suspended bucket confirms no pointer.
_drive_object_leg ==
  LET live == Latest(bucket[Current])
      unconfirmed == live # Absent /\ ~Confirmed(bucket[Current])
  IN
  /\ At("read_object")
  /\ \/ Spent /\ Answer("conflict")
     \/ ~Spent /\ unconfirmed /\ Answer("held_unconfirmed")
     \/ ~Spent /\ ~unconfirmed /\ live = Target.fingerprint /\ Answer("converged")
     \/ /\ ~Spent /\ ~unconfirmed /\ live # Target.fingerprint
        /\ leg' = [leg EXCEPT !.token = live, !.tries = @ + 1]
        /\ Goto(IF leg.body = None THEN "resolve_object" ELSE "put")
  /\ Keep /\ StayDurable /\ UNCHANGED <<disk, ledger, bucket, inflight>>

_resolve_pinned_object ==
  /\ At("resolve_object")
  /\ LET body == read_pinned(bucket[Current], Target.token) IN
     \/ body = Lost /\ Answer("target_lost")
     \/ body # Lost /\ leg' = [leg EXCEPT !.body = body] /\ Goto("put")
  /\ Keep /\ StayDurable /\ UNCHANGED <<disk, ledger, bucket, inflight>>

Land(o, body) == bucket' = [bucket EXCEPT ![o] = Store(@, body, Versioned)]

\* One conditional put.  Its answer may be lost, before or after it landed, or
\* with the request still on its way.
_object_cas_attempt ==
  /\ At("put")
  /\ \/ /\ PutWins(bucket[Current], leg.token)
        /\ Land(Current, leg.body)
        /\ Answer("restored") /\ UNCHANGED inflight
     \/ /\ ~PutWins(bucket[Current], leg.token)
        /\ Goto("read_object") /\ UNCHANGED <<bucket, leg, inflight>>
     \/ Answer("conflict") /\ UNCHANGED <<bucket, inflight>>   \* 409, exhausted
     \/ /\ Goto("reconcile") /\ UNCHANGED leg
        /\ \/ UNCHANGED <<bucket, inflight>>
           \/ PutWins(bucket[Current], leg.token) /\ Land(Current, leg.body) /\ UNCHANGED inflight
           \/ /\ inflight' = [o |-> Current, token |-> leg.token, body |-> leg.body]
              /\ UNCHANGED bucket
  /\ Keep /\ StayDurable /\ UNCHANGED <<disk, ledger>>

Reconcile ==
  /\ At("reconcile")
  /\ LET verdict == reconcile_after_unknown(bucket[Current], leg.token, Target.fingerprint) IN
     \/ verdict = "converge" /\ Answer("converged")
     \/ verdict \in {"re_drive", "conflict"} /\ Goto("read_object") /\ UNCHANGED leg
     \/ verdict = "hold" /\ Answer("held_unconfirmed")
  /\ Keep /\ StayDurable /\ UNCHANGED <<disk, ledger, bucket, inflight>>

-----------------------------------------------------------------------------
\* The file leg.

\* Mutant: a refused path raises out of the restore.
RefusedPath_Raises == MemberPathRefused(Current) /\ run' = Idle /\ leg' = NoLeg

\* _drive_member_absorbing: a refused path is a terminal outcome.
RefusedPath == MemberPathRefused(Current) /\ Answer("target_lost")

\* One iteration of _drive_file_leg.
_drive_file_leg ==
  /\ At("read_file")
  /\ \/ Spent /\ Answer("conflict") /\ UNCHANGED ledger
     \/ ~Spent /\ RefusedPath /\ UNCHANGED ledger
     \/ /\ ~Spent
        /\ \E seen \in _observe(Current) :
             /\ ledger' = seen[2]
             /\ \/ seen[1].absent /\ Answer("conflict")
                \/ seen[1].fingerprint = Target.fingerprint /\ Answer("converged")
                \/ /\ ~seen[1].absent /\ seen[1].fingerprint # Target.fingerprint
                   /\ leg' = [leg EXCEPT !.token = seen[1].token, !.tries = @ + 1]
                   /\ Goto(IF leg.body = None THEN "resolve_file" ELSE "detect")
  /\ Keep /\ StayDurable /\ UNCHANGED <<disk, bucket, inflight>>

_resolve_pinned_file ==
  /\ At("resolve_file")
  /\ LET body == content_at(Current, Target.token) IN
     \/ body # Target.fingerprint /\ Answer("target_lost")
     \/ body = Target.fingerprint /\ leg' = [leg EXCEPT !.body = body] /\ Goto("detect")
  /\ Keep /\ StayDurable /\ UNCHANGED <<disk, ledger, bucket, inflight>>

\* WorkingTreeSource.write_cas_at: the ledger and the disk still are what the
\* leg read, then the bytes, then the ledger.
write_cas_at ==
  /\ \/ /\ At("detect")
        /\ \/ leg.token # Len(ledger[Current]) /\ Goto("read_file") /\ UNCHANGED leg
           \/ Current \notin Connected /\ Answer("conflict")   \* ViewWedged
           \/ leg.token = Len(ledger[Current]) /\ RefusedPath
           \/ /\ leg.token = Len(ledger[Current]) /\ ~MemberPathRefused(Current)
              /\ Goto(IF disk[Current] \in {Absent, HeadHash(ledger[Current])}
                      THEN "write" ELSE "read_file")
              /\ UNCHANGED leg
        /\ UNCHANGED <<disk, ledger>>
     \/ /\ At("write")
        /\ \/ RefusedPath /\ UNCHANGED disk
           \/ /\ ~MemberPathRefused(Current)
              /\ disk' = [disk EXCEPT ![Current] = leg.body]
              /\ Goto("ledger") /\ UNCHANGED leg
        /\ UNCHANGED ledger
     \/ /\ At("ledger")
        /\ \/ /\ leg.token = Len(ledger[Current])
              /\ ledger' = [ledger EXCEPT ![Current] = Append(@, [hash |-> leg.body, kept |-> TRUE])]
              /\ Answer("restored")
           \/ /\ leg.token # Len(ledger[Current]) \/ Current \notin Connected
              /\ Answer("held_unconfirmed") /\ UNCHANGED ledger   \* CommitUnconfirmed
        /\ UNCHANGED disk
  /\ Keep /\ StayDurable /\ UNCHANGED <<bucket, inflight>>

-----------------------------------------------------------------------------
\* The registration seam.

\* The coordinator's artifact of a file, and the registry after a commit to it.
Artifact(f) == IF f \in Connected THEN ledger[f] ELSE coord[f]

Committed(F, body, kept) ==
  LET grow(logs, G) == [f \in Files |->
        IF f \in G THEN Append(logs[f], [hash |-> body[f], kept |-> kept]) ELSE logs[f]]
  IN  ledger' = grow(ledger, F \cap Connected) /\ coord' = grow(coord, F \ Connected)

\* The files this checkpoint's restore wrote.
Written == {f \in Files : rows[run.c][f].outcome = "restored"}

Fingerprints == [f \in Files |-> rows[run.c][f].fingerprint]

SeamKeep == UNCHANGED <<disk, bucket, bucketCfg, cut, closing, moves, crashes, inflight, obstacle>>

_registration_seam ==
  /\ At("seam")
  /\ Goto(IF leg.prior THEN "conclude" ELSE IF Written = {} THEN "mark" ELSE "register")
  /\ UNCHANGED <<ledger, coord, store, leg, regs, marked>>
  /\ SeamKeep

\* The idempotency filter: an artifact that carries the fingerprint is skipped.
Unregistered(f) == HeadHash(Artifact(f)) # Fingerprints[f]

\* register_workspace_restore: mint what the coordinator never saw, skip what
\* already carries the fingerprint, and read the versions of the rest.  The
\* tries are the registration's own budget.
register_workspace_restore ==
  LET minted == {f \in Written : Artifact(f) = <<>>}
      stale == {f \in Written \ minted : Unregistered(f)}
  IN
  /\ At("register")
  /\ IF Spent THEN Goto("conclude") /\ UNCHANGED <<ledger, coord, leg>>
     ELSE /\ Committed(minted, Fingerprints, FALSE)
          /\ leg' = [leg EXCEPT !.tries = @ + 1, !.batch = [f \in stale |-> Len(Artifact(f))]]
          /\ Goto(IF stale = {} THEN "mark" ELSE "commit_all")
  /\ UNCHANGED <<store, regs, marked>>
  /\ SeamKeep

\* One all-or-nothing commit_all, and what the seam does with its answer: the
\* fence's refusal is final, the others re-drive.
DriveRegistration ==
  /\ At("commit_all")
  /\ \/ /\ obstacle = "none"
        /\ \A f \in DOMAIN leg.batch : Len(Artifact(f)) = leg.batch[f]
        /\ Committed(DOMAIN leg.batch, Fingerprints, FALSE)
        /\ regs' = [regs EXCEPT !.won = @ + 1]
        /\ Goto("mark")
     \/ /\ \/ obstacle # "none"
           \/ \E f \in DOMAIN leg.batch : Len(Artifact(f)) # leg.batch[f]
        /\ Goto(IF obstacle # "superseded" THEN "register" ELSE "conclude")
        /\ UNCHANGED <<ledger, coord, regs>>
  /\ UNCHANGED <<store, leg, marked>>
  /\ SeamKeep

\* The registered marker, then the concluded status.
MarkRegistered ==
  /\ At("mark")
  /\ set_workspace_checkpoint_restore_status(run.c, "registered")
  /\ marked' = marked \cup {run.c}
  /\ Goto("conclude")
  /\ UNCHANGED <<ledger, coord, leg, regs>>
  /\ SeamKeep

ConcludeRestore ==
  /\ At("conclude")
  /\ set_workspace_checkpoint_restore_status(run.c, "concluded")
  /\ run' = Idle /\ leg' = NoLeg
  /\ UNCHANGED <<ledger, coord, regs, marked>>
  /\ SeamKeep

-----------------------------------------------------------------------------
\* What else happens while a restore runs.

RestoreMove == moves < MaxMoves /\ moves' = moves + 1
               /\ UNCHANGED <<store, run, cut, closing, crashes, leg, marked>>

\* A registered peer commits a member through the coordinator.
PeerCommit(f, body) ==
  /\ RestoreMove /\ Artifact(f) # <<>> /\ body # HeadHash(Artifact(f))
  /\ disk' = [disk EXCEPT ![f] = body]
  /\ Committed({f}, [g \in Files |-> body], TRUE)
  /\ regs' = [regs EXCEPT !.peer = @ + 1]
  /\ UNCHANGED <<bucket, bucketCfg, inflight, obstacle>>

\* A peer takes the artifact or invalidates the controller mid-flight, or a
\* sweep supersedes it.  Only the last one stays.
Obstruct(reason) ==
  /\ RestoreMove /\ obstacle = "none"
  /\ obstacle' = reason
  /\ UNCHANGED <<world, inflight, regs>>

Clear ==
  /\ obstacle = "busy"
  /\ obstacle' = "none"
  /\ UNCHANGED <<vars, leg, inflight, marked, regs>>

\* The lost put arrives.
LateLanding ==
  /\ inflight # None
  /\ inflight' = None
  /\ IF PutWins(bucket[inflight.o], inflight.token) THEN Land(inflight.o, inflight.body)
     ELSE UNCHANGED bucket
  /\ UNCHANGED <<disk, ledger, coord, bucketCfg, store, run, cut, closing, moves, crashes,
                 leg, obstacle, marked, regs>>

Engine ==
  \/ _drive_member \/ RecordOutcome \/ _drive_file_absent_leg \/ _drive_object_delete_leg
  \/ _drive_object_leg \/ _resolve_pinned_object \/ _object_cas_attempt \/ Reconcile
  \/ _drive_file_leg \/ _resolve_pinned_file \/ write_cas_at
  \/ _registration_seam \/ register_workspace_restore \/ DriveRegistration
  \/ MarkRegistered \/ ConcludeRestore

Base ==
  /\ Next
  /\ leg' = IF run' = Idle THEN NoLeg ELSE leg
  /\ UNCHANGED <<inflight, obstacle, marked, regs>>

\* The live state of a member is what the manifest records.
Matches(c, m) ==
  LET row == rows[c][m]
      live == IF m \in Files THEN disk[m] ELSE Latest(bucket[m])
  IN  live = IF row.absent THEN Absent ELSE row.fingerprint

Restoring == {c \in Checkpoints : status[c] \notin {"unused", "none"}}

Watch == matched' = {<<c, m>> \in Restoring' \X (Files \cup Objects) :
                       <<c, m>> \in matched \/ Matches(c, m) \/ Matches(c, m)'}

RestoreNext ==
  /\ \/ Base \/ Engine \/ \E c \in Checkpoints : restore(c)
     \/ \E f \in Files, body \in Contents \ Binary : PeerCommit(f, body)
     \/ \E reason \in {"busy", "superseded"} : Obstruct(reason)
     \/ Clear \/ LateLanding
  /\ Watch

RestoreSpec == RestoreInit /\ [][RestoreNext]_restoreVars

\* A step of the operation in progress.
Step ==
  /\ \/ Engine
     \/ Base /\ (_capture_all \/ CaptureRefused \/ _verify_window \/ _persist)
     \/ Base /\ (_pin_members \/ _pin_object_leg \/ _pin_file_leg \/ RecordHeld \/ CountHeld)
     \/ Base /\ (RecordReleased \/ CountReleased \/ DropHold)
  /\ Watch

\* The operation in progress goes on, and the operator's repeated restore call
\* eventually gets the versioner's lock.
Fairness ==
  /\ WF_restoreVars(Step)
  /\ \A c \in Checkpoints : 
       SF_restoreVars(status[c] \in {"in_progress", "registered"} /\ restore(c) /\ Watch)

-----------------------------------------------------------------------------
\* Properties.

\* A restore that was registered or concluded holds a terminal outcome for every
\* member, across crashes and resumes; _require_known_restore_state never fires.
ConcludedComplete ==
  \A c \in Checkpoints, m \in Members :
    status[c] \in {"registered", "concluded"} => rows[c][m].outcome # None

\* An outcome of restored or converged is true: at some instant of the restore
\* the live member was what the manifest records.
SuccessIsReal ==
  \A c \in Checkpoints, m \in Files \cup Objects :
    rows[c][m].outcome \in {"restored", "converged"} => <<c, m>> \in matched

\* A held object is never lost: expiry cannot take the version a pin holds, so
\* its restore never answers target_lost.
PinKeepsTarget ==
  \A c \in Checkpoints, o \in Objects :
    rows[c][o].pin = "held" => rows[c][o].outcome # "target_lost"

\* Registration is exactly-once up to interference: a second batch is won only
\* after a peer committed in between.
RegistrationNeedsPeer == regs.won <= 1 + regs.peer

\* What a restore records of itself is true through crashes and resumes: complete
\* when concluded, successful only where the bytes were there, not lost where they
\* were pinned, and registered once unless a peer came between (restore_checkpoint).
RestoreIsTrue ==
  ConcludedComplete /\ SuccessIsReal /\ PinKeepsTarget /\ RegistrationNeedsPeer

\* Every restore that starts concludes, through crashes, refused paths, moving
\* members and lost answers.
RestoreTerminates ==
  \A c \in Checkpoints : status[c] = "in_progress" ~> status[c] = "concluded"

\* The registered marker is final: a resumed run never registers again.
MarkerHonoured ==
  [][\A c \in Checkpoints : c \in marked /\ run.c = c => regs'.won = regs.won]_restoreVars
=============================================================================
