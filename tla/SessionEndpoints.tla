-------------------------- MODULE SessionEndpoints --------------------------
(***************************************************************************)
(* The /session endpoints of the coordinator server                        *)
(* (adapters/claude_code/coordinator_server.py) over the snapshot sessions *)
(* of module Sessions, and the lines they leave in session-audit.log.      *)
(*                                                                         *)
(* A handler checks the body, reads the clock and hands the rest, its      *)
(* work, to a worker thread.  When the work is late the watchdog answers   *)
(* "degraded", sets the abort event of a commit, and the work goes on      *)
(* alone: what it still does, it does behind the client's back.            *)
(*                                                                         *)
(* A request whose body is refused (400) changes nothing and is left out,  *)
(* and the server removes no artifact.  Paths and artifact ids coincide.   *)
(***************************************************************************)
EXTENDS Sessions

CONSTANTS
  Workers,      \* worker threads of the watchdog's pool
  MaxLost       \* bound: appends to the audit log that fail

\* The server's registry is always the SQLite one.
ASSUME EndpointAssumption == Durable /\ MaxLost \in Nat

VARIABLES
  request,   \* worker -> the request whose work it runs
  audit,     \* the lines of session-audit.log
  known,     \* tokens a client was given
  told,      \* history: commits a client was told of, as in commits
  unlogged   \* history: lines whose append failed

endpointVars == <<vars, request, audit, known, told, unlogged>>

CommitLine == [event : {"session_commit"}, session : Tokens, artifact : Artifacts,
               pinned_version : Nat, committed_version : Nat]

Line ==
  CommitLine
  \cup [event : {"session_begin"}, session : Tokens, cut : Cut]
  \cup [event : {"session_invalidate"}, session : Tokens]

Request == [op : {"begin", "read", "commit", "heartbeat"}, caller : Callers,
            token : Tokens \cup {None}, on : SUBSET Artifacts, at : Nat,
            stage : {"start", "resolved", "cut", "owner", "ready", "log"},
            pinned : Cut \cup {None}, cut : Cut \cup {None},
            todo : SUBSET Line, won : SUBSET (Tokens \X Artifacts \X Nat), late : BOOLEAN]

ASSUME NoneIsNoRequest == None \notin Request

EndpointTypeOK ==
  /\ TypeOK
  /\ request \in [Workers -> Request \cup {None}]
  /\ audit \in SUBSET Line /\ unlogged \in SUBSET Line
  /\ known \in SUBSET Tokens
  /\ told \in SUBSET (Tokens \X Artifacts \X Nat)

EndpointInit ==
  /\ Init
  /\ request = Empty(Workers)
  /\ audit = {} /\ known = {} /\ told = {} /\ unlogged = {}

-----------------------------------------------------------------------------
(* The front half of a handler, and the end of a request.                  *)

At(w, op, stage) == request[w] # None /\ request[w].op = op /\ request[w].stage = stage

\* The tick every later step of the work uses is the one read here; that of a
\* read or commit decides nothing.
Accept(w, op, caller, t, F) ==
  /\ request[w] = None
  /\ request' = [request EXCEPT ![w] =
       [op |-> op, caller |-> caller, token |-> t, on |-> F,
        at |-> IF op \in {"begin", "heartbeat"} THEN now ELSE 0, stage |-> "start",
        pinned |-> None, cut |-> None, todo |-> {}, won |-> {}, late |-> FALSE]]
  /\ UNCHANGED <<vars, audit, known, told, unlogged>>

_handle_session_begin(w, caller, F) == Accept(w, "begin", caller, None, F)

_handle_session_read(w, caller, t, f) == t \in known /\ Accept(w, "read", caller, t, {f})

_handle_session_commit(w, caller, t, f) == t \in known /\ Accept(w, "commit", caller, t, {f})

\* A batch of one is the single commit.
_handle_session_commit_all(w, caller, t, F) ==
  t \in known /\ Cardinality(F) > 1 /\ Accept(w, "commit", caller, t, F)

_handle_session_heartbeat(w, caller, t) == t \in known /\ Accept(w, "heartbeat", caller, t, {})

\* _run_or_degrade: the client is answered, the work goes on.
Degrade(w) ==
  /\ request[w] # None /\ ~request[w].late
  /\ request' = [request EXCEPT ![w].late = TRUE]
  /\ UNCHANGED <<vars, audit, known, told, unlogged>>

Stage(w, stage) == request' = [request EXCEPT ![w].stage = stage]

\* The rest of the work is to append the lines L and to answer.
Log(w, L) ==
  request' = [request EXCEPT ![w].stage = "log", ![w].todo = L,
                             ![w].pinned = None, ![w].cut = None]

-----------------------------------------------------------------------------
(* Begin and heartbeat.                                                    *)

\* Paths nobody has registered yet are registered, without a body.
_resolve_read_set(w) ==
  /\ At(w, "begin", "start")
  /\ PublishAll(request[w].on \ Live, {})
  /\ Stage(w, "resolved")
  /\ UNCHANGED <<gone, owned, pins, meta, service, call, now, opened, beat, commits,
                 audit, known, told, unlogged>>

\* append_session_begin
BeginLine(t, F) == [event |-> "session_begin", session |-> t, cut |-> CutOf(F)]

BeginWork(w, t) ==
  LET r == request[w] IN
  /\ At(w, "begin", "resolved")
  /\ IF CapsAllow(r.on)
       THEN /\ begin_session(t, r.caller, r.on, r.at)
            /\ request' = [request EXCEPT ![w].stage = "log", ![w].token = t,
                                        ![w].todo = {BeginLine(t, r.on)}]
       ELSE Log(w, {}) /\ UNCHANGED vars
  /\ UNCHANGED <<audit, known, told, unlogged>>

HeartbeatWork(w) ==
  LET r == request[w] IN
  /\ At(w, "heartbeat", "start")
  /\ Log(w, {})
  /\ IF BoundOwner(r.token) = r.caller THEN record_session_heartbeat(r.token, r.caller, r.at)
     ELSE UNCHANGED vars
  /\ UNCHANGED <<audit, known, told, unlogged>>

-----------------------------------------------------------------------------
(* Read and commit.                                                        *)

OnCut(w) == request[w] # None /\ request[w].op \in {"read", "commit"}

\* The paths are looked up; a commit reads the cut for its own audit line.
LookUp(w) ==
  /\ OnCut(w) /\ request[w].stage = "start"
  /\ IF request[w].on \subseteq Live
       THEN request' = [request EXCEPT ![w].stage = "cut",
              ![w].pinned = IF request[w].op = "commit"
                              THEN get_session_cut(request[w].token) ELSE None]
       ELSE Log(w, {})
  /\ UNCHANGED <<vars, audit, known, told, unlogged>>

\* The service reads the cut again,
ReadCut(w) ==
  /\ OnCut(w) /\ request[w].stage = "cut"
  /\ request' = [request EXCEPT ![w].stage = "owner", ![w].cut = get_session_cut(request[w].token)]
  /\ UNCHANGED <<vars, audit, known, told, unlogged>>

\* append_session_invalidate
InvalidateLine(t) == [event |-> "session_invalidate", session |-> t]

\* The owner check raises: no owner is left, or it is another.
OwnerRefused(r) ==
  \/ BoundOwner(r.token) = None /\ r.cut # None
  \/ BoundOwner(r.token) \notin {r.caller, None}

\* _classify_no_cut_reason never answers "not found" here: every token the
\* coordinator minted is recognised as one, reaped lately or not.
Invalidated(r) == OwnerRefused(r) \/ r.cut = None

\* then whose it is.
CheckOwner(w) ==
  LET r == request[w] IN
  /\ OnCut(w) /\ r.stage = "owner"
  /\ CASE Invalidated(r) -> Log(w, {InvalidateLine(r.token)})
       [] ~Invalidated(r) /\ ~Admitted(r.token, r) -> Log(w, {})
       [] OTHER -> Stage(w, "ready")
  /\ UNCHANGED <<vars, audit, known, told, unlogged>>

ReadWork(w) ==
  /\ At(w, "read", "ready")
  /\ Log(w, {})
  /\ UNCHANGED <<vars, audit, known, told, unlogged>>

\* append_session_commit
LinesOf(r) ==
  {[event |-> "session_commit", session |-> r.token, artifact |-> f,
    pinned_version |-> IF r.pinned # None THEN r.pinned[f] ELSE version[f],
    committed_version |-> version[f] + 1] : f \in r.on}

\* Mutant: the work does not look at the abort event.
Abandoned_Never(r) == FALSE

\* abort_guard: the answer has been given before the registry lock was won.
Abandoned(r) == r.late

\* The registry's transaction: every member at its pin and held by nobody, or
\* nothing is written.
commit_all(r) ==
  IF CutWins(r)
    THEN /\ \A f \in r.on : version[f] < MaxVersion
         /\ PublishAll(r.on, r.on)
         /\ commits' = commits \cup {<<r.token, f, version[f]>> : f \in r.on}
    ELSE UNCHANGED <<version, rows, captured, commits>>

CommitWork(w) ==
  LET r == request[w] IN
  /\ At(w, "commit", "ready")
  /\ IF Abandoned(r) THEN UNCHANGED <<version, rows, captured, commits>> ELSE commit_all(r)
  /\ request' = [request EXCEPT
       ![w].stage = "log", ![w].pinned = None, ![w].cut = None, ![w].won = commits' \ commits,
       ![w].todo = IF commits' = commits THEN {} ELSE LinesOf(r)]
  /\ UNCHANGED <<gone, owned, pins, meta, service, call, now, opened, beat,
                 audit, known, told, unlogged>>

-----------------------------------------------------------------------------
(* The audit log, and the answer.                                          *)

\* _append_record: one line, or a failure that is only logged.
_append_record(w, line) ==
  /\ request[w] # None /\ request[w].stage = "log" /\ line \in request[w].todo
  /\ request' = [request EXCEPT ![w].todo = @ \ {line}]
  /\ \/ audit' = audit \cup {line} /\ UNCHANGED unlogged
     \/ /\ Cardinality(unlogged) < MaxLost
        /\ unlogged' = unlogged \cup {line}
        /\ UNCHANGED audit
  /\ UNCHANGED <<vars, known, told>>

\* Mutant: a commit is answered before its lines are written.
MayAnswer_EarlyCommit(r) == r.stage = "log" /\ (r.op = "commit" \/ r.todo = {})

MayAnswer(r) == r.stage = "log" /\ r.todo = {}

\* The work returns; a client that has its answer already gets nothing.
Answer(w) ==
  LET r == request[w] IN
  /\ r # None /\ MayAnswer(r)
  /\ known' = IF r.op = "begin" /\ r.token # None /\ ~r.late THEN known \cup {r.token} ELSE known
  /\ told' = IF r.late THEN told ELSE told \cup r.won
  /\ request' = [request EXCEPT ![w] = None]
  /\ UNCHANGED <<vars, audit, unlogged>>

\* The process ends with its worker threads.
EndpointRestart ==
  /\ Restart
  /\ request' = Empty(Workers)
  /\ UNCHANGED <<audit, known, told, unlogged>>

Handle(w) ==
  \/ \E caller \in Callers, F \in SUBSET Artifacts : _handle_session_begin(w, caller, F)
  \/ \E caller \in Callers, t \in Tokens :
       \/ \E f \in Artifacts : _handle_session_read(w, caller, t, f) \/ _handle_session_commit(w, caller, t, f)
       \/ \E F \in SUBSET Artifacts : _handle_session_commit_all(w, caller, t, F)
       \/ _handle_session_heartbeat(w, caller, t)

Work(w) ==
  \/ _resolve_read_set(w) \/ HeartbeatWork(w)
  \/ \E t \in Tokens : BeginWork(w, t)
  \/ LookUp(w) \/ ReadCut(w) \/ CheckOwner(w) \/ ReadWork(w) \/ CommitWork(w)
  \/ \E line \in (IF request[w] = None THEN {} ELSE request[w].todo) : _append_record(w, line)
  \/ Answer(w)

\* What the hook endpoints and the sweep do meanwhile.
Elsewhere ==
  /\ \/ \E F \in SUBSET Artifacts : AgentPublish(F, {})
     \/ \E f \in Artifacts : AgentOwnership(f)
     \/ \E t \in Tokens : Reap(t)
     \/ Tick
  /\ UNCHANGED <<request, audit, known, told, unlogged>>

EndpointNext ==
  \/ \E w \in Workers : Handle(w) \/ Degrade(w) \/ Work(w)
  \/ Elsewhere
  \/ EndpointRestart

EndpointSpec == EndpointInit /\ [][EndpointNext]_endpointVars

-----------------------------------------------------------------------------
(* Properties.                                                             *)

\* What was appended, or was lost when the append failed.
Written == audit \cup unlogged

Begun(t) == [event |-> "session_begin", session |-> t, cut |-> opened[t].cut]

Recorded(line) == <<line.session, line.artifact, line.pinned_version>>

LineIsTrue(line) ==
  /\ Recorded(line) \in commits
  /\ line.pinned_version = opened[line.session].cut[line.artifact]
  /\ line.committed_version = line.pinned_version + 1
  /\ Begun(line.session) \in Written

\* The audit log tells the truth about commits: a commit line is about a commit
\* that happened, names the version the session pinned although the handler and
\* the service looked the cut up separately, and comes after the begin line of
\* its session unless the append of that one failed.
AuditIsTrue == \A line \in audit \cap CommitLine : LineIsTrue(line)

\* A commit a client was told of happened and has its line in the log, unless
\* the append failed: no crash or timeout after the answer loses it.
ToldIsLogged ==
  \A c \in told :
    c \in commits /\ \E line \in Written \cap CommitLine : Recorded(line) = c

\* The audit log is sound and complete for what clients were told
\* (session_audit_log.py, written by the begin and commit handlers).
LogTellsTruth == AuditIsTrue /\ ToldIsLogged

\* A commit whose client was answered "degraded" before the registry lock was
\* won never lands: the client may act on what it was told.
NothingLandsLate ==
  [][commits' # commits => \E w \in Workers : At(w, "commit", "ready") /\ ~request[w].late
                                             /\ request'[w] # request[w]]_endpointVars

-----------------------------------------------------------------------------
(* The inductive invariant.                                                *)

\* A request works for a session that was opened, on the cut it opened with, and
\* once admitted for its owner; no heartbeat was read before the one the session
\* was last known by, unless the service knows the session; what its work did is
\* true and on its way to the log.
RequestInv(r) ==
  /\ r.token # None => opened[r.token] # None
  /\ IF r.op = "begin" THEN r.pinned = None /\ r.cut = None ELSE r.token \in known
  /\ r.at <= now
  /\ r.op = "heartbeat" /\ owners[r.token] = None /\ meta[r.token] # None
       => beat[r.token] <= r.at
  /\ r.pinned # None => r.pinned = opened[r.token].cut
  /\ r.cut # None => r.cut = opened[r.token].cut
  /\ r.stage = "ready" => r.cut # None /\ r.caller = opened[r.token].owner
  /\ r.stage # "log" => r.todo = {} /\ r.won = {}
  /\ r.op = "begin" /\ r.token # None => Begun(r.token) \in Written \cup r.todo
  /\ \A line \in r.todo \cap CommitLine : LineIsTrue(line)
  /\ \A c \in r.won :
       c \in commits /\ \E line \in (Written \cup r.todo) \cap CommitLine : Recorded(line) = c

\* The sessions keep their own invariant whatever the workers do; a token that
\* was handed out is of a session whose begin line was written.
EndpointInv ==
  /\ EndpointTypeOK /\ SessionsInv /\ gone = {}
  /\ \A w \in Workers : request[w] # None => RequestInv(request[w])
  /\ \A t \in known : opened[t] # None /\ Begun(t) \in Written
  /\ AuditIsTrue /\ ToldIsLogged
=============================================================================
