----------------------------- MODULE MCStorage ------------------------------
(***************************************************************************)
(* A TLC instance of the three protocols that end in a store, in three     *)
(* parts that share nothing.  "schema": two processes open one SQLite      *)
(* file, which is fresh, any version of this ledger (with either of the    *)
(* shims that came to version 1), a version of the sibling ledger, or      *)
(* newer than this build.  "workspace": two checkpoints over an object, a  *)
(* file and a forward-only surface share the object's pin, and either may  *)
(* be torn.  "substrate": two clients merge into, rewrite and clear one    *)
(* object or row.                                                          *)
(***************************************************************************)
EXTENDS Schema, Sequences

LOCAL INSTANCE TLC

CONSTANTS e1, e2, a, b, f1, o1, s1, k1, k2, c1, c2, orphan, None, Absent, Lost, Blocked, Seed,
          MaxTotal   \* bound: calls of both clients of the substrate

VARIABLES part,
  status, refcount, rows, disk, ledger, coord, bucket, bucketCfg, run, cut, closing,
  moves, crashes,
  kind, store, ghosts, rec, present, log, call, observed, view, calls, acked

Own(n, shims) ==
  [stamp |-> n, objects |-> Required(n) \cup shims, runtime |-> Unset,
   epoch |-> IF n >= 2 \/ "fence_columns" \in shims THEN e1 ELSE Unset]

Sibling(n, objects, runtime) ==
  [stamp |-> n, objects |-> Required(1) \cup Shims \cup objects,
   runtime |-> runtime, epoch |-> e1]

Fresh == [stamp |-> 0, objects |-> {}, runtime |-> Unset, epoch |-> Unset]

MCInitialFiles ==
  {Fresh}
  \cup {Own(1, s) : s \in SUBSET Shims}
  \cup {Own(n, {}) : n \in 2..SCHEMA_USER_VERSION + 1}
  \cup {Sibling(2, {}, r) : r \in {"node", Unset}}
  \cup {Sibling(n, {"deadline_tick"}, r) : n \in {3, 4}, r \in {"node", Unset}}

Manifest == INSTANCE Workspace WITH
  Contents <- {a, b}, Binary <- {b}, Files <- {f1}, Objects <- {o1}, Surfaces <- {s1},
  Connected <- {f1}, Order <- <<o1, f1, s1>>, Members <- {o1, f1, s1},
  Checkpoints <- {k1, k2}, MaxMoves <- 2, MaxCrashes <- 1

Native == INSTANCE Substrate WITH
  Orphan <- orphan, Agents <- {c1, c2, orphan}, Clients <- {c1, c2}, rows <- present,
  MaxCalls <- 4

ASSUME NativeAssumption == Native!SubstrateAssumption

workspaceVars == <<status, refcount, rows, disk, ledger, coord, bucket, bucketCfg, run, cut,
                   closing, moves, crashes>>
substrateVars == <<kind, store, ghosts, rec, present, log, call, observed, view, calls, acked>>
mcVars == <<part, schemaVars, workspaceVars, substrateVars>>

\* The substrate's clients never write back what the artifact held first.
NativeNext ==
  \/ \E c \in {c1, c2}, op \in Native!Reads \cup {"merge", "same", "clear"} :
       calls[c1] + calls[c2] < MaxTotal /\ Native!Begin(c, op)
  \/ \E c \in {c1, c2} : Native!Step(c) \/ Native!Fault(c)
  \/ \E g \in ghosts : Native!GhostArrives(g)
  \/ Native!Delete

MCInit ==
  /\ part \in {"schema", "workspace", "substrate"}
  /\ SchemaInit /\ Manifest!Init /\ Native!Init
  /\ part # "schema" => file = Fresh
  /\ part # "workspace" => /\ disk[f1] = Absent /\ coord[f1] = <<>>
                           /\ bucket[o1] = <<>> /\ bucketCfg = "versioned"
  /\ part # "substrate" => kind = "row"

MCNext ==
  \/ part = "schema" /\ SchemaNext /\ UNCHANGED <<part, workspaceVars, substrateVars>>
  \/ part = "workspace" /\ Manifest!Next /\ UNCHANGED <<part, schemaVars, substrateVars>>
  \/ part = "substrate" /\ NativeNext /\ UNCHANGED <<part, schemaVars, workspaceVars>>

MCSpec == MCInit /\ [][MCNext]_mcVars

\* Checkpoints are interchangeable.
MCSymmetry == Permutations({k1, k2})

\* The manifest is true of the surfaces: what it records as pinned is held, what it
\* classes as restorable has its bytes, a cut without a dirty row is one moment of
\* the bucket, and a reference count is off by no more than torn operations account
\* for (Workspace: WorkspaceVersioner's capture, pins and releases).
ManifestIsTrue ==
  /\ Manifest!HeldIsHeld /\ Manifest!RestorableIsBacked
  /\ Manifest!CleanCutIsACut /\ Manifest!RefcountDrift

\* An acknowledged update stays in its row or object, and one call lands at most
\* one write, however answers are lost (Substrate: the native compare-and-swap and
\* its reconciliation).
UpdatesAreKept == Native!AckedIsKept /\ Native!AtMostOneLands

\* The registry's record follows the store: in order, and with no version that has
\* no write behind it (Substrate: the bump after the write).
RecordFollows == Native!CoordinatorFollows /\ Native!NoPhantomAdvance
=============================================================================
