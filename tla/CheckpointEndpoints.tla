------------------------ MODULE CheckpointEndpoints ------------------------
(***************************************************************************)
(* The /workspace endpoints of the coordinator server                      *)
(* (adapters/claude_code/coordinator_server.py): one controller persists a *)
(* manifest, records the progress of a restore and registers the restored  *)
(* files over HTTP, one request at a time.  The work of a request runs on  *)
(* a worker thread; when it is late the controller is told "unconfirmed",  *)
(* the abort event is set, and the controller may send the same request    *)
(* again while the first one is still queued.                              *)
(*                                                                         *)
(* Peers of the controller hold and commit the same artifacts.  A body     *)
(* that is refused (400) changes nothing and is left out.                  *)
(***************************************************************************)
EXTENDS CheckpointStore, FiniteSets

CONSTANTS
  Workers,         \* worker threads of the watchdog's pool
  MaxVersion,      \* bound: no artifact is committed beyond this version
  MaxRestarts      \* bound: restarts of the server

VARIABLES
  http,       \* worker -> the request whose work it runs
  waiting,    \* the worker the controller waits for
  artifact,   \* member -> version and hash of its artifact, version 0 for none
  held,       \* members some peer holds in MODIFIED or EXCLUSIVE
  restarts,
  confirmed,  \* history: <<checkpoint, what, value>> the controller may rely on
  bumps       \* history: member -> registrations won since a peer's last commit

httpVars == <<store, http, waiting, artifact, held, restarts, confirmed, bumps>>

HttpInit ==
  /\ StoreInit
  /\ http = [w \in Workers |-> None] /\ waiting = None
  /\ artifact = [m \in Members |-> [version |-> 0, hash |-> None]]
  /\ held = {} /\ restarts = 0
  /\ confirmed = {} /\ bumps = [m \in Members |-> 0]

-----------------------------------------------------------------------------
(* The front half of a handler, the watchdog, and the answer.              *)

\* What is in doubt from the moment a request is sent.
Unsettled(c, what) == {x \in confirmed : x[1] # c \/ x[2] # what}

Accept(w, r) ==
  /\ http[w] = None /\ waiting = None
  /\ http' = [http EXCEPT ![w] = r]
  /\ waiting' = w
  /\ confirmed' = Unsettled(r.c, r.what)
  /\ UNCHANGED <<store, artifact, held, restarts, bumps>>

NewRequest(c, what, value) ==
  [c |-> c, what |-> what, value |-> value, todo |-> {}, plan |-> <<>>,
   stage |-> "start", ok |-> FALSE, late |-> FALSE]

\* _parse_checkpoint_member vets each row; every row here is a legal one.
_handle_workspace_checkpoint(w, c, body) ==
  /\ ~get_checkpoint(c)
  /\ \A v \in Workers : http[v] # None => http[v].c # c
  /\ Accept(w, NewRequest(c, "manifest",
       [m \in Members |-> [Undescribed EXCEPT !.fingerprint = body]]))

_handle_workspace_restore_status(w, c, value) ==
  /\ get_checkpoint(c) /\ value \in RESTORE_STATUSES
  /\ Accept(w, NewRequest(c, "restore_status", value))

_handle_workspace_restore_member(w, c, m, outcome) ==
  /\ get_checkpoint(c) /\ outcome \in RESTORE_MEMBER_OUTCOMES
  /\ Accept(w, NewRequest(c, m, outcome))

\* The controller registers what the manifest says of the members W.
_handle_workspace_restore_register(w, c, W) ==
  /\ get_checkpoint(c) /\ W # {}
  /\ Accept(w, [NewRequest(c, "register", None) EXCEPT
       !.todo = W, !.plan = [m \in W |-> 0], !.stage = "resolve"])

\* _run_or_degrade: the controller is answered "unconfirmed".
Degrade(w) ==
  /\ waiting = w
  /\ http' = [http EXCEPT ![w].late = TRUE]
  /\ waiting' = None
  /\ UNCHANGED <<store, artifact, held, restarts, confirmed, bumps>>

\* _typed_reason_response and _unknown_checkpoint_response are the answers that
\* confirm nothing.
Answer(w) ==
  /\ http[w] # None /\ http[w].stage = "answer"
  /\ http' = [http EXCEPT ![w] = None]
  /\ waiting' = IF waiting = w THEN None ELSE waiting
  /\ confirmed' = IF http[w].late \/ ~http[w].ok \/ http[w].what = "register" THEN confirmed
                  ELSE confirmed \cup {<<http[w].c, http[w].what, http[w].value>>}
  /\ UNCHANGED <<store, artifact, held, restarts, bumps>>

-----------------------------------------------------------------------------
(* The work.                                                               *)

\* Mutant: the event is not looked at.
Abandoned_Never(w) == FALSE

\* abort_guard, once the registry lock is won.
Abandoned(w) == http[w].late

Done(w, ok) == http' = [http EXCEPT ![w].stage = "answer", ![w].ok = ok]

\* A manifest, a status or a member's outcome is one write of the store.
Record(w) ==
  LET r == http[w] IN
  /\ r # None /\ r.stage = "start"
  /\ IF Abandoned(w) THEN UNCHANGED store
     ELSE CASE r.what = "manifest" -> create_workspace_checkpoint(r.c, r.value)
            [] r.what = "restore_status" -> set_workspace_checkpoint_restore_status(r.c, r.value)
            [] OTHER -> set_workspace_checkpoint_member_restore(r.c, r.what, r.value, FALSE)
  /\ Done(w, ~Abandoned(w))
  /\ UNCHANGED <<waiting, artifact, held, restarts, confirmed, bumps>>

Fingerprint(w, m) == rows[http[w].c][m].fingerprint

Registered(w, m) == artifact[m].hash = Fingerprint(w, m)

\* _resolve_workspace_member_artifact mints the artifact of a path the
\* coordinator never saw, at its fingerprint and whether or not the request was
\* abandoned; then the version of the others is read.
Resolve(w, m) ==
  /\ http[w] # None /\ http[w].stage = "resolve" /\ m \in http[w].todo
  /\ LET mint == artifact[m].version = 0 IN
     /\ artifact' = IF mint THEN [artifact EXCEPT ![m] = [version |-> 1, hash |-> Fingerprint(w, m)]]
                    ELSE artifact
     /\ http' = [http EXCEPT ![w].todo = @ \ {m},
          ![w].plan[m] = IF mint \/ Registered(w, m) THEN 0 ELSE artifact[m].version]
  /\ UNCHANGED <<store, waiting, held, restarts, confirmed, bumps>>

\* commit_all at the versions read.
Admissible(w, B) == B \cap held = {} /\ \A m \in B : artifact[m].version = http[w].plan[m]

\* The rest of register_workspace_restore: nothing to do, the batch lands, or it
\* is refused as a whole.
RegisterBatch(w) ==
  /\ http[w] # None /\ http[w].stage = "resolve" /\ http[w].todo = {}
  /\ LET B == {m \in DOMAIN http[w].plan : http[w].plan[m] > 0}
         lands == B # {} /\ ~Abandoned(w) /\ Admissible(w, B)
     IN
     /\ \A m \in B : artifact[m].version < MaxVersion
     /\ artifact' = [m \in Members |->
          IF lands /\ m \in B THEN [version |-> artifact[m].version + 1, hash |-> Fingerprint(w, m)]
          ELSE artifact[m]]
     /\ bumps' = [m \in Members |-> IF lands /\ m \in B THEN bumps[m] + 1 ELSE bumps[m]]
     /\ Done(w, B = {} \/ lands)
  /\ UNCHANGED <<store, waiting, held, restarts, confirmed>>

-----------------------------------------------------------------------------
(* The peers, and the server's end.                                        *)

PeerCommits(m, body) ==
  /\ artifact[m].version < MaxVersion
  /\ artifact' = [artifact EXCEPT ![m] = [version |-> @.version + 1, hash |-> body]]
  /\ held' = held \ {m}
  /\ bumps' = [bumps EXCEPT ![m] = 0]
  /\ UNCHANGED <<store, http, waiting, restarts, confirmed>>

PeerAcquires(m) ==
  /\ artifact[m].version > 0
  /\ held' = held \cup {m}
  /\ UNCHANGED <<store, http, waiting, artifact, restarts, confirmed, bumps>>

ServerRestart ==
  /\ restarts < MaxRestarts
  /\ restarts' = restarts + 1
  /\ http' = [w \in Workers |-> None] /\ waiting' = None
  /\ UNCHANGED <<store, artifact, held, confirmed, bumps>>

Handle(w, c) ==
  \/ \E body \in Contents : _handle_workspace_checkpoint(w, c, body)
  \/ \E value \in {"in_progress", "registered"} : _handle_workspace_restore_status(w, c, value)
  \/ \E m \in Members, outcome \in {"restored", "conflict"} :
       _handle_workspace_restore_member(w, c, m, outcome)
  \/ \E W \in SUBSET Members : _handle_workspace_restore_register(w, c, W)

Work(w) == Record(w) \/ (\E m \in Members : Resolve(w, m)) \/ RegisterBatch(w) \/ Answer(w)

HttpNext ==
  \/ \E w \in Workers : Degrade(w) \/ Work(w) \/ \E c \in Checkpoints : Handle(w, c)
  \/ \E m \in Members : PeerAcquires(m) \/ \E body \in Contents : PeerCommits(m, body)
  \/ ServerRestart

HttpSpec == HttpInit /\ [][HttpNext]_httpVars

-----------------------------------------------------------------------------
(* Properties.                                                             *)

\* What the server confirmed stays on record until the controller asks for
\* something else: an earlier request that was given up for lost never
\* overwrites it, and no restart forgets it.
ConfirmedIsDurable ==
  \A x \in confirmed :
    CASE x[2] = "manifest" -> \A m \in Members : rows[x[1]][m].fingerprint = x[3][m].fingerprint
      [] x[2] = "restore_status" -> status[x[1]] = x[3]
      [] OTHER -> rows[x[1]][x[2]].outcome = x[3]

\* A registration that is sent again, after it was answered "unconfirmed" or the
\* server restarted, commits no member twice: until a peer commits it or another
\* manifest is registered, a member is moved once.
RegisteredOnce ==
  \A m \in Members : bumps[m] <= Cardinality({c \in Checkpoints : get_checkpoint(c)})
=============================================================================
