------------------------------- MODULE Schema -------------------------------
(***************************************************************************)
(* Opening the coordinator's SQLite store (coordinator/sqlite_registry.py, *)
(* SqliteArtifactRegistry.__init__): the version dispatch, the refusal of  *)
(* a sibling runtime's ledger, the creation of a fresh store and the chain *)
(* of migrations, by processes that race on one file and may be killed     *)
(* between any two steps.                                                  *)
(*                                                                         *)
(* Every migration is one BEGIN IMMEDIATE transaction and so one step: a   *)
(* kill inside it rolls it back.  The version an opener dispatches on is   *)
(* read outside any transaction and may be stale when its first            *)
(* transaction gets the write lock.                                        *)
(*                                                                         *)
(* Abstractions.  A schema object (table, column or index) is its name,    *)
(* and the objects one version adds are one name.  Rows, file modes, the   *)
(* journal and the retention policy are left out.                          *)
(***************************************************************************)
EXTENDS Integers

CONSTANTS Openers,       \* processes that open the file
          Epochs,        \* values uuid4() can mint for coordinator_epoch
          Unset,         \* no epoch, no runtime recorded
          InitialFiles,  \* the files the first opener may meet
          MaxOpens       \* bound on the opens of one process

ASSUME MaxOpensAssumption == MaxOpens \in Nat

VARIABLES file,          \* the store on disk
          opener,        \* per process: where its open stands
          opens          \* per process: opens begun

schemaVars == <<file, opener, opens>>

SCHEMA_USER_VERSION == 7

\* What version n of this runtime's ledger adds.  The fence columns (with
\* the epoch) and pending_notices came to version 1 as unversioned shims.
Shims == {"fence_columns", "pending_notices"}

Added(n) ==
  CASE n = 1 -> {"tables"}
    [] n = 2 -> Shims \cup {"artifact_versions"}
    [] n = 3 -> {"session_pins"}
    [] n = 4 -> {"session_meta"}
    [] n = 5 -> {"workspace_checkpoints"}
    [] n = 6 -> {"last_observed_version"}
    [] n = 7 -> {"idx_agent_states_agent"}
    [] OTHER -> {}

Required(n) == UNION {Added(k) : k \in 1..n}

\* The sibling ledger's watchdog column.
Objects == Required(SCHEMA_USER_VERSION) \cup {"deadline_tick", "conflict_counters"}

Runtimes == {"python", "node"}

ASSUME UnsetAssumption == Unset \notin Epochs /\ Unset \notin Runtimes

File ==
  [stamp   : Nat,
   objects : SUBSET Objects,
   runtime : Runtimes \cup {Unset},
   epoch   : Epochs \cup {Unset}]

PC == {"idle", "dispatch", "create", "migrate", "rehydrate", "counters",
       "open", "refused", "failed"}

Opener == [pc : PC, read_only : BOOLEAN, seen : Nat, epoch : Epochs \cup {Unset}]

Closed == [pc |-> "idle", read_only |-> FALSE, seen |-> 0, epoch |-> Unset]

-----------------------------------------------------------------------------
(* The markers of a foreign ledger, in the order the code probes them.  v  *)
(* is the version the opener dispatches on.                                *)

Foreign(f, v) ==
  \/ f.runtime \notin {Unset, "python"}
  \/ v >= 3 /\ "deadline_tick" \in f.objects
  \/ v = 2 /\ "artifact_versions" \notin f.objects
  \/ v = 3 /\ "session_pins" \notin f.objects
  \/ v = 5 /\ "workspace_checkpoints" \notin f.objects

-----------------------------------------------------------------------------
(* One open.                                                               *)

Move(o, pc) == opener' = [opener EXCEPT ![o].pc = pc]

\* connect and read user_version.
ReadVersion(o, read_only) ==
  /\ opener[o].pc \in {"idle", "open", "refused", "failed"}
  /\ opens[o] < MaxOpens
  /\ opener' = [opener EXCEPT ![o] =
                  [pc |-> "dispatch", read_only |-> read_only,
                   seen |-> file.stamp, epoch |-> Unset]]
  /\ opens' = [opens EXCEPT ![o] = @ + 1]
  /\ UNCHANGED file

\* _reject_foreign_ledger_db, then the dispatch on the version read before.
\* A read-only open never migrates: any other version is refused.
NextPhase(seen, read_only) ==
  CASE seen = SCHEMA_USER_VERSION                -> "rehydrate"
    [] seen = 0 /\ ~read_only                    -> "create"
    [] seen \in 1..(SCHEMA_USER_VERSION - 1) /\ ~read_only -> "migrate"
    [] OTHER                                     -> "refused"

Dispatch(o) ==
  /\ opener[o].pc = "dispatch"
  /\ Move(o, IF Foreign(file, opener[o].seen) THEN "refused"
             ELSE NextPhase(opener[o].seen, opener[o].read_only))
  /\ UNCHANGED <<file, opens>>

\* A fresh store: all tables, the seeded meta rows and the stamp in one
\* transaction.  CREATE TABLE fails on a table that a racing creator made.
apply_v2_schema(o) ==
  /\ opener[o].pc = "create"
  /\ \/ /\ file.objects = {}
        /\ \E e \in Epochs :
             /\ file' = [stamp |-> SCHEMA_USER_VERSION,
                         objects |-> Required(SCHEMA_USER_VERSION),
                         runtime |-> "python", epoch |-> e]
             /\ opener' = [opener EXCEPT ![o].pc = "counters", ![o].epoch = e]
     \/ /\ file.objects # {}
        /\ Move(o, "failed")
        /\ UNCHANGED file
  /\ UNCHANGED opens

\* _rehydrate_meta: the stored epoch, or SchemaVersionError without one.
Rehydrated(o, f, pc, seen) ==
  opener' = [opener EXCEPT
               ![o].pc = IF f.epoch = Unset THEN "refused" ELSE pc,
               ![o].epoch = f.epoch,
               ![o].seen = seen]

\* The bodies of the migrations.  Each adds its objects where they are
\* missing and stamps its own version.  Only the first seeds meta rows, and
\* each with INSERT OR IGNORE.
Stamped(f, n) == [f EXCEPT !.stamp = n, !.objects = @ \cup Added(n)]

migrate_v1_to_v2(f, e) ==
  [Stamped(f, 2) EXCEPT !.epoch = IF @ = Unset THEN e ELSE @,
                        !.runtime = IF @ = Unset THEN "python" ELSE @]

migrate_v2_to_v3(f) == Stamped(f, 3)

migrate_v3_to_v4(f) == Stamped(f, 4)

migrate_v4_to_v5(f) == Stamped(f, 5)

migrate_v5_to_v6(f) == Stamped(f, 6)

migrate_v6_to_v7(f) == Stamped(f, SCHEMA_USER_VERSION)

MigratedFile(f, n, e) ==
  CASE n = 2 -> migrate_v1_to_v2(f, e)
    [] n = 3 -> migrate_v2_to_v3(f)
    [] n = 4 -> migrate_v3_to_v4(f)
    [] n = 5 -> migrate_v4_to_v5(f)
    [] n = 6 -> migrate_v5_to_v6(f)
    [] n = 7 -> migrate_v6_to_v7(f)

\* Mutant: the step stamps the current version instead of its own.
Migrated_Restamps(f, n, e) ==
  IF f.stamp >= n THEN f
  ELSE [MigratedFile(f, n, e) EXCEPT !.stamp = SCHEMA_USER_VERSION]

\* Mutant: the loser of a race runs the body a second time.
Migrated_NoLoserGuard(f, n, e) == MigratedFile(f, n, e)

\* The transaction of the step to version n: the stamp is read again under
\* the write lock, and a step that a racing opener already made is skipped.
Migrated(f, n, e) == IF f.stamp >= n THEN f ELSE MigratedFile(f, n, e)

\* The next migration of the chain, from the version it has reached.
migrate(o) ==
  /\ opener[o].pc = "migrate"
  /\ \E e \in Epochs :
       LET n == opener[o].seen + 1
           f == Migrated(file, n, e)
       IN  /\ file' = f
           /\ Rehydrated(o, f, IF n = SCHEMA_USER_VERSION THEN "counters" ELSE "migrate", n)
  /\ UNCHANGED opens

\* The write-free open of a current store.
rehydrate_meta(o) ==
  /\ opener[o].pc = "rehydrate"
  /\ Rehydrated(o, file, IF opener[o].read_only THEN "open" ELSE "counters", opener[o].seen)
  /\ UNCHANGED <<file, opens>>

\* CREATE TABLE IF NOT EXISTS, in autocommit.
ensure_conflict_counters_table(o) ==
  /\ opener[o].pc = "counters"
  /\ file' = [file EXCEPT !.objects = @ \cup {"conflict_counters"}]
  /\ Move(o, "open")
  /\ UNCHANGED opens

\* The process is killed, or gives up on a busy lock: whatever transaction
\* it had open is rolled back.
Kill(o) ==
  /\ opener[o].pc # "idle"
  /\ opener' = [opener EXCEPT ![o] = Closed]
  /\ UNCHANGED <<file, opens>>

SchemaInit ==
  /\ file \in InitialFiles
  /\ opener = [o \in Openers |-> Closed]
  /\ opens = [o \in Openers |-> 0]

SchemaNext ==
  \E o \in Openers :
    \/ \E read_only \in BOOLEAN : ReadVersion(o, read_only)
    \/ Dispatch(o)
    \/ apply_v2_schema(o)
    \/ migrate(o)
    \/ rehydrate_meta(o)
    \/ ensure_conflict_counters_table(o)
    \/ Kill(o)

SchemaSpec == SchemaInit /\ [][SchemaNext]_schemaVars

-----------------------------------------------------------------------------
(* Files.                                                                  *)

\* A store that the sibling runtime wrote: its own stamp, its watchdog
\* column, or its version 2, which adds no table.
IsForeign(f) ==
  \/ f.runtime = "node"
  \/ "deadline_tick" \in f.objects
  \/ f.stamp >= 2 /\ "artifact_versions" \notin f.objects

\* A store of this runtime's ledger that this build can serve.
IsOwn(f) ==
  /\ f.stamp \in 0..SCHEMA_USER_VERSION
  /\ f.runtime \in {Unset, "python"}
  /\ "deadline_tick" \notin f.objects
  /\ IF f.stamp = 0 THEN f.objects = {} /\ f.runtime = Unset /\ f.epoch = Unset
     ELSE /\ Required(f.stamp) \subseteq f.objects
          /\ f.stamp >= 2 => f.epoch # Unset

\* A store this build must leave alone.
Untouchable(f) == IsForeign(f) \/ f.stamp > SCHEMA_USER_VERSION

\* One that shows it: a sibling has the watchdog column from version 3 on, and
\* never the table that version 2 adds here.
Marked(f) ==
  \/ f.stamp > SCHEMA_USER_VERSION
  \/ IsForeign(f) /\ Foreign(f, f.stamp)

ASSUME InitialFilesAssumption ==
  /\ InitialFiles \subseteq File
  /\ \A f \in InitialFiles : IsOwn(f) \/ Marked(f)

-----------------------------------------------------------------------------
(* Properties.                                                             *)

\* The variables have the types of the store and of an open's progress.
SchemaTypeOK ==
  /\ file \in File
  /\ opener \in [Openers -> Opener]
  /\ opens \in [Openers -> 0..MaxOpens]

\* At every instant, so after a kill at any instant, a store of this ledger
\* that carries version n has every object of versions 1..n and, from 2 on,
\* an epoch.
StampMeansObjects == IsOwn(file) \/ Untouchable(file)

\* Two opens of one store, however they raced through its creation or its
\* migrations, ended with the epoch that is in the store.
OpenersAgree ==
  \A o \in Openers :
    opener[o].pc = "open" => /\ opener[o].epoch = file.epoch
                             /\ file.stamp = SCHEMA_USER_VERSION

\* An open for writing is refused only on a store of another ledger or of a
\* newer build, and fails only against a racing creator that succeeded: no
\* order of kills and races leaves a store that no process can open again.
NeverUnbootable ==
  \A o \in Openers :
    /\ opener[o].pc = "refused" /\ ~opener[o].read_only => Untouchable(file)
    /\ opener[o].pc = "failed" => file.stamp = SCHEMA_USER_VERSION

\* However many processes create, migrate and open one store, and wherever they
\* are killed, the store says what it is and stays usable (the constructor of
\* SqliteArtifactRegistry).
StoreOpens == SchemaTypeOK /\ StampMeansObjects /\ OpenersAgree /\ NeverUnbootable

\* A store of another ledger, and one of a newer build, is never written.
ForeignUntouched ==
  [][Untouchable(file) => file' = file]_schemaVars

\* No racing opener takes the stamp back or replaces a stored epoch.
StampNeverFalls ==
  [][/\ file'.stamp >= file.stamp
     /\ file.epoch # Unset => file'.epoch = file.epoch]_schemaVars

\* A store only moves forward, and another ledger's does not move at all (the
\* guards of creation and of every migration).
StoreMovesForward == ForeignUntouched /\ StampNeverFalls
-----------------------------------------------------------------------------
(* The inductive invariant.                                                *)

\* An open of a store that is not ours gets no further than the dispatch, which
\* sees the version the store has.
LeftAlone(o) ==
  /\ opener[o].pc \in {"idle", "dispatch", "refused"}
  /\ opener[o].pc = "dispatch" => opener[o].seen = file.stamp

\* An open of our store: what it read is not ahead of the store; who read 0 finds
\* the store empty or complete; who migrates has passed the versions below; and
\* from the end of the chain on, the epoch it keeps is the one in the store.
Stands(p, f) ==
  /\ p.pc = "dispatch" => p.seen <= f.stamp
  /\ p.pc = "dispatch" /\ p.seen = 0 => f.stamp \in {0, SCHEMA_USER_VERSION}
  /\ p.pc = "create" => f.stamp \in {0, SCHEMA_USER_VERSION} /\ ~p.read_only
  /\ p.pc = "migrate" =>
       /\ p.seen \in 1..(SCHEMA_USER_VERSION - 1) /\ p.seen <= f.stamp
       /\ ~p.read_only
  /\ p.pc \in {"rehydrate", "failed"} => f.stamp = SCHEMA_USER_VERSION
  /\ p.pc \in {"counters", "open"} =>
       f.stamp = SCHEMA_USER_VERSION /\ p.epoch = f.epoch
  /\ p.pc = "refused" => p.read_only

UnderWay(o) == Stands(opener[o], file)

\* A store is ours or not from the first open on, and stays what it is.
SchemaInv ==
  /\ SchemaTypeOK
  /\ \/ IsOwn(file) /\ \A o \in Openers : UnderWay(o)
     \/ Marked(file) /\ \A o \in Openers : LeftAlone(o)
=============================================================================
