----------------------- MODULE SessionEndpointsProofs -----------------------
(***************************************************************************)
(* Proofs about the /session endpoints: the sessions keep the promises of  *)
(* module Sessions when they are driven by worker threads that work on     *)
(* with an old tick and behind their client's back, and the audit log      *)
(* tells the truth.                                                        *)
(***************************************************************************)
EXTENDS SessionEndpoints, SessionsProofs

-----------------------------------------------------------------------------
(* What every step leaves standing.                                        *)

\* The histories, the log and the clock only grow.
Grows ==
  /\ now <= now'
  /\ \A t \in Tokens : opened[t] # None => opened'[t] = opened[t]
  /\ commits \subseteq commits'
  /\ known \subseteq known'
  /\ Written \subseteq Written'

\* No session is forgotten by the service that is still on record, and one the
\* service does not know is not heard of.
NoneForgotten ==
  \A t \in Tokens : owners'[t] = None /\ meta'[t] # None
    => owners[t] = None /\ meta[t] # None /\ beat'[t] = beat[t]

\* The audit line of a commit stays true.
LEMMA LineFrame ==
  ASSUME EndpointInv, Grows, NEW line \in CommitLine, LineIsTrue(line)
  PROVE  LineIsTrue(line)'
<1>1. line.session \in Tokens /\ line.artifact \in Artifacts
  BY DEF CommitLine
<1>2. opened[line.session] # None
  <2>1. Recorded(line) \in commits
    BY DEF LineIsTrue
  <2>2. \A c \in commits : opened[c[1]] # None
    BY DEF EndpointInv, SessionsInv
  <2>3. Recorded(line)[1] = line.session
    BY DEF Recorded
  <2> QED
    BY <2>1, <2>2, <2>3
<1>3. opened'[line.session] = opened[line.session]
  BY <1>1, <1>2 DEF Grows
<1> QED
  BY <1>3 DEF LineIsTrue, Recorded, Begun, Grows

\* A request that a step leaves alone keeps its invariant.
LEMMA RequestFrame ==
  ASSUME EndpointInv, Grows, NoneForgotten, NEW r \in Request, RequestInv(r),
         now \in Nat, now' \in Nat
  PROVE  RequestInv(r)'
<1>0. /\ r.token \in Tokens \cup {None} /\ r.at \in Nat
      /\ r.token # None => r.token \in Tokens
  BY DEF Request
<1>1. r.token # None => opened[r.token] # None /\ opened'[r.token] = opened[r.token]
  BY <1>0 DEF RequestInv, Grows
<1>2. known \in SUBSET Tokens /\ known \subseteq known' /\ commits \subseteq commits'
      /\ Written \subseteq Written' /\ now <= now'
  BY DEF EndpointInv, EndpointTypeOK, Grows
<1>3. r.op = "heartbeat" /\ owners'[r.token] = None /\ meta'[r.token] # None
        => beat'[r.token] <= r.at
  <2> SUFFICES ASSUME r.op = "heartbeat", owners'[r.token] = None, meta'[r.token] # None
               PROVE  beat'[r.token] <= r.at
    OBVIOUS
  <2>1. r.token \in Tokens
    BY <1>2 DEF RequestInv
  <2>2. owners[r.token] = None /\ meta[r.token] # None /\ beat'[r.token] = beat[r.token]
    BY <2>1 DEF NoneForgotten
  <2> QED
    BY <2>2 DEF RequestInv
<1>4. \A line \in r.todo \cap CommitLine : LineIsTrue(line)'
  BY LineFrame DEF RequestInv
<1>5. \A c \in r.won :
        c \in commits' /\ \E line \in (Written' \cup r.todo) \cap CommitLine : Recorded(line) = c
  BY <1>2 DEF RequestInv
<1>6. r.op = "begin" /\ r.token # None => Begun(r.token)' \in Written' \cup r.todo
  BY <1>1, <1>2 DEF RequestInv, Begun
<1>7. r.at <= now'
  BY <1>0, <1>2 DEF RequestInv
<1>8. /\ r.pinned # None => r.pinned = opened'[r.token].cut
      /\ r.cut # None => r.cut = opened'[r.token].cut
      /\ r.stage = "ready" => r.cut # None /\ r.caller = opened'[r.token].owner
  <2>1. r.op = "begin" => r.pinned = None /\ r.cut = None /\ r.stage # "ready"
    BY DEF RequestInv
  <2>2. r.op # "begin" => r.token \in Tokens /\ opened'[r.token] = opened[r.token]
    <3>1. r.op # "begin" => r.token \in known
      BY DEF RequestInv
    <3>2. \A t \in known : opened[t] # None
      BY DEF EndpointInv
    <3> QED
      BY <1>2, <3>1, <3>2 DEF Grows
  <2> QED
    BY <2>1, <2>2 DEF RequestInv
<1> QED
  BY ZenonT(60), <1>1, <1>2, <1>3, <1>4, <1>5, <1>6, <1>7, <1>8 DEF RequestInv, Recorded

\* Where nothing is appended or answered, what was stays logged and told.
LEMMA LogFrame ==
  ASSUME EndpointInv, Grows, UNCHANGED <<audit, known, told, unlogged>>
  PROVE  /\ \A t \in known' : opened'[t] # None /\ Begun(t)' \in Written'
         /\ AuditIsTrue' /\ ToldIsLogged'
<1>1. \A t \in known : t \in Tokens /\ opened[t] # None /\ Begun(t) \in Written
  BY DEF EndpointInv, EndpointTypeOK
<1>2. \A t \in known : opened'[t] = opened[t]
  BY <1>1 DEF Grows
<1>3. \A line \in audit \cap CommitLine : LineIsTrue(line)'
  BY LineFrame DEF EndpointInv, AuditIsTrue
<1>4. ToldIsLogged'
  BY DEF EndpointInv, ToldIsLogged, Grows, Recorded
<1> QED
  BY <1>1, <1>2, <1>3, <1>4 DEF AuditIsTrue, Begun, Grows

\* A step of one worker: it is enough to look at its own request.
LEMMA WorkerStep ==
  ASSUME EndpointInv, NEW w \in Workers, NEW s \in Request \cup {None},
         request' = [request EXCEPT ![w] = s],
         s # None => RequestInv(s)',
         Grows, NoneForgotten, SessionsInv', gone' = {}
  PROVE  /\ request' \in [Workers -> Request \cup {None}]
         /\ \A v \in Workers : request'[v] # None => RequestInv(request[v])'
<1>0. request \in [Workers -> Request \cup {None}] /\ now \in Nat /\ now' \in Nat
  BY ZenonT(60) DEF EndpointInv, EndpointTypeOK, SessionsInv, TypeOK
<1>1. request' \in [Workers -> Request \cup {None}]
  BY <1>0
<1>2. ASSUME NEW v \in Workers, request'[v] # None PROVE RequestInv(request[v])'
  <2>1. CASE v = w
    <3>1. request'[v] = s
      BY SMTT(60), <1>0, <2>1
    <3> QED
      BY ZenonT(60), <1>2, <3>1 DEF RequestInv
  <2>2. CASE v # w
    <3>1. PICK r : r = request[v]
      OBVIOUS
    <3>2. r \in Request /\ RequestInv(r) /\ request'[v] = r
      BY <1>0, <1>2, <2>2, <3>1 DEF EndpointInv
    <3>3. RequestInv(r)'
      BY <1>0, <3>2, RequestFrame
    <3> QED
      BY ZenonT(60), <3>2, <3>3 DEF RequestInv
  <2> QED
    BY SMTT(60), <2>1, <2>2
<1> QED
  BY SMTT(60), <1>1, <1>2

\* A step of one worker that neither appends nor answers.
LEMMA QuietStep ==
  ASSUME EndpointInv, NEW w \in Workers, NEW s \in Request,
         request' = [request EXCEPT ![w] = s], RequestInv(s)',
         Grows, NoneForgotten, SessionsInv', gone' = {},
         UNCHANGED <<audit, known, told, unlogged>>
  PROVE  EndpointInv'
<1>1. EndpointTypeOK'
  BY WorkerStep DEF EndpointInv, EndpointTypeOK, SessionsInv
<1> QED
  BY ZenonT(60), <1>1, WorkerStep, LogFrame DEF EndpointInv

\* A step of the request's own that touches no session: the sessions keep
\* their invariant and everything grows.
LEMMA SessionsStand ==
  ASSUME EndpointInv, UNCHANGED vars, known \subseteq known', Written \subseteq Written'
  PROVE  Grows /\ NoneForgotten /\ SessionsInv' /\ gone' = {}
<1>1. SessionsInv' /\ gone' = {}
  BY SMTT(60), NextInv DEF EndpointInv, vars, registry
<1>2. Grows
  BY DEF EndpointInv, SessionsInv, TypeOK, Grows, vars, registry, ghosts
<1>3. NoneForgotten
  BY DEF NoneForgotten, vars, registry, service, ghosts
<1> QED
  BY <1>1, <1>2, <1>3

\* The request of a worker, as a value of its own.
LEMMA RequestOf ==
  ASSUME EndpointInv, NEW w \in Workers, request[w] # None
  PROVE  request[w] \in Request /\ RequestInv(request[w])
BY DEF EndpointInv, EndpointTypeOK

-----------------------------------------------------------------------------
(* The steps that touch no session.                                        *)

\* A handler hands over its work: a heartbeat carries the tick of now.
LEMMA AcceptStep ==
  ASSUME EndpointInv, NEW w \in Workers, NEW op \in {"begin", "read", "commit", "heartbeat"},
         NEW caller \in Callers, NEW t \in Tokens \cup {None}, NEW F \in SUBSET Artifacts,
         IF op = "begin" THEN t = None ELSE t \in known,
         Accept(w, op, caller, t, F)
  PROVE  EndpointInv'
<1>0. /\ UNCHANGED vars /\ UNCHANGED <<audit, known, told, unlogged>>
      /\ TypeOK /\ now \in Nat
  BY DEF Accept, EndpointInv, SessionsInv, TypeOK
<1>1. PICK n \in Nat : n = IF op \in {"begin", "heartbeat"} THEN now ELSE 0
  BY SMTT(60), <1>0
<1> DEFINE s == [op |-> op, caller |-> caller, token |-> t, on |-> F, at |-> n,
                 stage |-> "start", pinned |-> None, cut |-> None, todo |-> {}, won |-> {},
                 late |-> FALSE]
<1>2. s \in Request
  BY DEF Request
<1>3. request' = [request EXCEPT ![w] = s]
  BY <1>1 DEF Accept
<1>4. Grows /\ NoneForgotten /\ SessionsInv' /\ gone' = {}
  BY <1>0, SessionsStand DEF Written
<1>5. n <= now /\ UNCHANGED <<now, opened, owners, meta, beat>>
  BY <1>0, <1>1 DEF vars, registry, service, ghosts
<1>6. t # None => opened[t] # None
  BY SMTT(60) DEF EndpointInv
<1>7. op = "heartbeat" /\ owners[t] = None /\ meta[t] # None => beat[t] <= n
  <2> SUFFICES ASSUME op = "heartbeat", meta[t] # None PROVE beat[t] <= n
    OBVIOUS
  <2>1. t \in Tokens /\ n = now
    BY <1>1 DEF EndpointInv, EndpointTypeOK
  <2>2. SessionInv(t)
    BY SMTT(60), <2>1 DEF EndpointInv, SessionsInv
  <2> QED
    BY <2>1, <2>2 DEF SessionInv
<1>8. RequestInv(s)'
  BY ZenonT(60), <1>0, <1>5, <1>6, <1>7 DEF RequestInv
<1> HIDE DEF s
<1> QED
  BY ZenonT(60), <1>0, <1>2, <1>3, <1>4, <1>8, QuietStep

\* A request that only changes stage, marks itself late or has nothing to log.
LEMMA OwnStep ==
  ASSUME EndpointInv, NEW w \in Workers, NEW r \in Request, r = request[w], RequestInv(r),
         NEW s \in Request, request' = [request EXCEPT ![w] = s],
         s.op = r.op /\ s.token = r.token /\ s.at = r.at /\ s.caller = r.caller,
         s.todo = r.todo \/ (r.todo = {} /\ s.todo \cap CommitLine = {}),
         s.won = r.won,
         s.pinned \in {None, r.pinned} \/ (r.op # "begin" /\ s.pinned = opened[r.token].cut),
         s.cut \in {None, r.cut} \/ (r.op # "begin" /\ s.cut = opened[r.token].cut),
         s.stage = "ready" => s.cut # None /\ s.caller = opened[s.token].owner,
         s.stage # "log" => s.todo = {} /\ s.won = {},
         UNCHANGED <<vars, audit, known, told, unlogged>>
  PROVE  EndpointInv'
<1>1. Grows /\ NoneForgotten /\ SessionsInv' /\ gone' = {}
  BY SessionsStand DEF Written
<1>2. now \in Nat /\ now' \in Nat
  BY ZenonT(60), <1>1 DEF EndpointInv, SessionsInv, TypeOK
<1>3. RequestInv(r)'
  BY ZenonT(60), <1>1, <1>2, RequestFrame
<1>4. UNCHANGED <<now, opened, owners, meta, beat, commits, known, Written>>
  BY DEF vars, registry, service, ghosts, Written
<1>5. \A line \in s.todo \cap CommitLine : LineIsTrue(line)'
  BY ZenonT(60), <1>3 DEF RequestInv
<1>6. r.todo \subseteq s.todo
  OBVIOUS
<1>7. RequestInv(s)'
  BY ZenonT(60), <1>3, <1>4, <1>5, <1>6 DEF RequestInv
<1> QED
  BY ZenonT(60), <1>1, <1>7, QuietStep

\* get_session_cut gives what the session opened with, or nothing.
LEMMA CutIsOpened ==
  ASSUME EndpointInv, NEW t \in Tokens
  PROVE  /\ get_session_cut(t) \in Cut \cup {None}
         /\ get_session_cut(t) # None => get_session_cut(t) = opened[t].cut
<1>1. SessionInv(t) /\ pins[t] \in Cut \cup {None}
  BY DEF EndpointInv, SessionsInv, TypeOK
<1> QED
  BY SMTT(60), <1>1 DEF SessionInv, get_session_cut

\* A bound owner is the one that opened the session.
LEMMA OwnerIsOpener ==
  ASSUME EndpointInv, NEW t \in Tokens, BoundOwner(t) # None
  PROVE  BoundOwner(t) = opened[t].owner
<1>1. SessionInv(t)
  BY DEF EndpointInv, SessionsInv
<1> QED
  BY SMTT(60), <1>1 DEF SessionInv, BoundOwner

\* The watchdog answers in the worker's place.
LEMMA DegradeStep ==
  ASSUME EndpointInv, NEW w \in Workers, Degrade(w)
  PROVE  EndpointInv'
<1>1. PICK r \in Request : r = request[w] /\ RequestInv(r)
  BY RequestOf DEF Degrade
<1> DEFINE s == [r EXCEPT !.late = TRUE]
<1>2. s \in Request
  BY ZenonT(60) DEF Request
<1>3. request' = [request EXCEPT ![w] = s]
  BY <1>1 DEF Degrade
<1>4. /\ s.op = r.op /\ s.token = r.token /\ s.at = r.at /\ s.caller = r.caller
      /\ s.todo = r.todo /\ s.won = r.won /\ s.pinned = r.pinned /\ s.cut = r.cut
      /\ s.stage = r.stage
  BY DEF Request
<1>5. /\ s.stage = "ready" => s.cut # None /\ s.caller = opened[s.token].owner
      /\ s.stage # "log" => s.todo = {} /\ s.won = {}
  BY ZenonT(60), <1>1, <1>4 DEF RequestInv
<1>6. UNCHANGED <<vars, audit, known, told, unlogged>>
  BY DEF Degrade
<1> HIDE DEF s
<1> QED
  BY ZenonT(60), <1>1, <1>2, <1>3, <1>4, <1>5, <1>6, OwnStep

\* The work is done and leaves the lines L, none of them of a commit.
LEMMA LogStep ==
  ASSUME EndpointInv, NEW w \in Workers, request[w] # None, request[w].stage # "log",
         NEW L \in SUBSET Line, L \cap CommitLine = {}, Log(w, L),
         UNCHANGED <<vars, audit, known, told, unlogged>>
  PROVE  EndpointInv'
<1>1. PICK r \in Request : r = request[w] /\ RequestInv(r)
  BY RequestOf
<1> DEFINE s == [r EXCEPT !.stage = "log", !.todo = L, !.pinned = None, !.cut = None]
<1>2. s \in Request
  BY ZenonT(60) DEF Request
<1>3. request' = [request EXCEPT ![w] = s]
  BY ZenonT(60), <1>1 DEF Log
<1>4. /\ s.op = r.op /\ s.token = r.token /\ s.at = r.at /\ s.caller = r.caller
      /\ s.todo = L /\ s.won = r.won /\ s.pinned = None /\ s.cut = None
      /\ s.stage = "log" /\ r.todo = {}
  BY ZenonT(60), <1>1 DEF Request, RequestInv
<1> HIDE DEF s
<1> QED
  BY ZenonT(60), <1>1, <1>2, <1>3, <1>4, OwnStep

\* A commit looks the cut up for its line.
LEMMA LookUpStep ==
  ASSUME EndpointInv, NEW w \in Workers, LookUp(w)
  PROVE  EndpointInv'
<1>1. PICK r \in Request : r = request[w] /\ RequestInv(r)
  BY RequestOf DEF LookUp, OnCut
<1>2. /\ r.op \in {"read", "commit"} /\ r.stage = "start"
      /\ UNCHANGED <<vars, audit, known, told, unlogged>>
  BY <1>1 DEF LookUp, OnCut
<1>3. r.token \in Tokens
  BY ZenonT(60), <1>1, <1>2 DEF RequestInv, EndpointInv, EndpointTypeOK
<1>4. CASE r.on \subseteq Live
  <2>1. PICK c \in Cut \cup {None} :
          c = IF r.op = "commit" THEN get_session_cut(r.token) ELSE None
    BY <1>3, CutIsOpened
  <2> DEFINE s == [r EXCEPT !.stage = "cut", !.pinned = c]
  <2>2. s \in Request
    BY ZenonT(60) DEF Request
  <2>3. request' = [request EXCEPT ![w] = s]
    BY ZenonT(60), <1>1, <1>4, <2>1 DEF LookUp
  <2>4. c = None \/ c = opened[r.token].cut
    BY <1>3, <2>1, CutIsOpened
  <2>5. /\ s.op = r.op /\ s.token = r.token /\ s.at = r.at /\ s.caller = r.caller
        /\ s.todo = r.todo /\ s.won = r.won /\ s.pinned = c /\ s.cut = r.cut
        /\ s.stage = "cut" /\ s.todo = {} /\ s.won = {}
    BY ZenonT(60), <1>1, <1>2 DEF Request, RequestInv
  <2> HIDE DEF s
  <2> QED
    BY ZenonT(60), <1>1, <1>2, <2>2, <2>3, <2>4, <2>5, OwnStep
<1>5. CASE ~(r.on \subseteq Live)
  BY SMTT(60), <1>1, <1>2, <1>5, NoneIsNoRequest, LogStep DEF LookUp
<1> QED
  BY <1>4, <1>5

\* The service looks it up again.
LEMMA ReadCutStep ==
  ASSUME EndpointInv, NEW w \in Workers, ReadCut(w)
  PROVE  EndpointInv'
<1>1. PICK r \in Request : r = request[w] /\ RequestInv(r)
  BY RequestOf DEF ReadCut, OnCut
<1>2. /\ r.op \in {"read", "commit"} /\ r.stage = "cut"
      /\ UNCHANGED <<vars, audit, known, told, unlogged>>
  BY <1>1 DEF ReadCut, OnCut
<1>3. r.token \in Tokens
  BY ZenonT(60), <1>1, <1>2 DEF RequestInv, EndpointInv, EndpointTypeOK
<1>4. PICK c \in Cut \cup {None} : c = get_session_cut(r.token)
  BY <1>3, CutIsOpened
<1> DEFINE s == [r EXCEPT !.stage = "owner", !.cut = c]
<1>5. s \in Request
  BY ZenonT(60) DEF Request
<1>6. request' = [request EXCEPT ![w] = s]
  BY ZenonT(60), <1>1, <1>4 DEF ReadCut
<1>7. c = None \/ c = opened[r.token].cut
  BY <1>3, <1>4, CutIsOpened
<1>8. /\ s.op = r.op /\ s.token = r.token /\ s.at = r.at /\ s.caller = r.caller
      /\ s.todo = r.todo /\ s.won = r.won /\ s.pinned = r.pinned /\ s.cut = c
      /\ s.stage = "owner" /\ s.todo = {} /\ s.won = {}
  BY ZenonT(60), <1>1, <1>2 DEF Request, RequestInv
<1> HIDE DEF s
<1> QED
  BY ZenonT(60), <1>1, <1>2, <1>5, <1>6, <1>7, <1>8, OwnStep

\* The owner check: refused, or admitted for the session's opener.
LEMMA CheckOwnerStep ==
  ASSUME EndpointInv, NEW w \in Workers, CheckOwner(w)
  PROVE  EndpointInv'
<1>1. PICK r \in Request : r = request[w] /\ RequestInv(r)
  BY RequestOf DEF CheckOwner, OnCut
<1>2. /\ r.op \in {"read", "commit"} /\ r.stage = "owner"
      /\ UNCHANGED <<vars, audit, known, told, unlogged>>
  BY SMTT(60), <1>1 DEF CheckOwner, OnCut
<1>3. r.token \in Tokens
  BY ZenonT(60), <1>1, <1>2 DEF RequestInv, EndpointInv, EndpointTypeOK
<1>4. {InvalidateLine(r.token)} \in SUBSET Line
  BY <1>3 DEF InvalidateLine, Line
<1>5. {InvalidateLine(r.token)} \cap CommitLine = {}
  BY DEF InvalidateLine, CommitLine
<1>6. CASE Invalidated(r)
  <2>1. Log(w, {InvalidateLine(r.token)})
    BY SMTT(60), <1>1, <1>6 DEF CheckOwner
  <2> QED
    BY ZenonT(60), <1>1, <1>2, <1>4, <1>5, <2>1, NoneIsNoRequest, LogStep
<1>7. CASE ~Invalidated(r) /\ ~Admitted(r.token, r)
  <2>1. Log(w, {})
    BY SMTT(60), <1>1, <1>7 DEF CheckOwner
  <2> QED
    BY SMTT(60), <1>1, <1>2, <2>1, NoneIsNoRequest, LogStep
<1>8. CASE ~Invalidated(r) /\ Admitted(r.token, r)
  <2> DEFINE s == [r EXCEPT !.stage = "ready"]
  <2>1. s \in Request
    BY DEF Request
  <2>2. request' = [request EXCEPT ![w] = s]
    BY <1>1, <1>8 DEF CheckOwner, Stage
  <2>3. r.cut # None /\ r.caller = opened[r.token].owner
    <3>1. r.caller \in Callers /\ r.caller # None
      BY SessionAssumption DEF Request
    <3> QED
      BY SMTT(60), <1>3, <1>8, <3>1, OwnerIsOpener DEF Admitted
  <2>4. /\ s.op = r.op /\ s.token = r.token /\ s.at = r.at /\ s.caller = r.caller
        /\ s.todo = r.todo /\ s.won = r.won /\ s.pinned = r.pinned /\ s.cut = r.cut
        /\ s.stage = "ready" /\ s.todo = {} /\ s.won = {}
    BY ZenonT(60), <1>1, <1>2 DEF Request, RequestInv
  <2> HIDE DEF s
  <2> QED
    BY ZenonT(60), <1>1, <1>2, <2>1, <2>2, <2>3, <2>4, OwnStep
<1> QED
  BY <1>6, <1>7, <1>8

-----------------------------------------------------------------------------
(* The steps that touch the sessions.                                      *)

\* Paths are registered for a read-set; nothing was ever deleted.
LEMMA ResolveStep ==
  ASSUME EndpointInv, NEW w \in Workers, _resolve_read_set(w)
  PROVE  EndpointInv'
<1>1. PICK r \in Request : r = request[w] /\ RequestInv(r)
  BY RequestOf DEF _resolve_read_set, At
<1> DEFINE s == [r EXCEPT !.stage = "resolved"]
<1>2. s \in Request
  BY DEF Request
<1>3. request' = [request EXCEPT ![w] = s]
  BY <1>1 DEF _resolve_read_set, Stage
<1>4. /\ UNCHANGED <<gone, owned, pins, meta, service, call, now, opened, beat, commits>>
      /\ UNCHANGED <<audit, known, told, unlogged>>
      /\ r.stage = "start" /\ r.op = "begin"
  BY SMTT(60), <1>1 DEF _resolve_read_set, At
<1>5. SessionsInv' /\ gone' = {}
  <2>1. PICK F \in SUBSET Artifacts : PublishAll(F, {})
    <3>1. r.on \ Live \in SUBSET Artifacts
      BY SMTT(60) DEF Request
    <3> QED
      BY <1>1, <3>1 DEF _resolve_read_set
  <2> QED
    BY SMTT(60), <1>4, <2>1, AgentPublishStep DEF EndpointInv
<1>6. now \in Nat /\ now' \in Nat
  BY ZenonT(60), <1>5 DEF EndpointInv, SessionsInv, TypeOK
<1>7. Grows /\ NoneForgotten
  BY <1>4, <1>6 DEF Grows, NoneForgotten, Written, service
<1>8. RequestInv(r)'
  BY SMTT(60), <1>1, <1>6, <1>7, RequestFrame
<1>9. /\ s.op = r.op /\ s.token = r.token /\ s.at = r.at /\ s.caller = r.caller
      /\ s.todo = r.todo /\ s.won = r.won /\ s.pinned = r.pinned /\ s.cut = r.cut
      /\ s.stage = "resolved" /\ r.todo = {} /\ r.won = {}
  BY ZenonT(60), <1>1, <1>4 DEF Request, RequestInv
<1> HIDE DEF s
<1>10. RequestInv(s)'
  BY ZenonT(60), <1>8, <1>9 DEF RequestInv
<1> QED
  BY ZenonT(60), <1>2, <1>3, <1>4, <1>5, <1>7, <1>10, QuietStep

\* A session opens under the tick its request was accepted at, and its begin
\* line names the cut it was given.
LEMMA BeginWorkStep ==
  ASSUME EndpointInv, NEW w \in Workers, NEW t \in Tokens, BeginWork(w, t)
  PROVE  EndpointInv'
<1>1. PICK r \in Request : r = request[w] /\ RequestInv(r)
  BY RequestOf DEF BeginWork, At
<1>2. /\ r.op = "begin" /\ r.stage = "resolved"
      /\ UNCHANGED <<audit, known, told, unlogged>>
  BY SMTT(60), <1>1 DEF BeginWork, At
<1>3. CASE ~CapsAllow(r.on)
  <2>1. Log(w, {}) /\ UNCHANGED vars
    BY SMTT(60), <1>1, <1>3 DEF BeginWork
  <2> QED
    BY SMTT(60), <1>1, <1>2, <2>1, NoneIsNoRequest, LogStep
<1>4. CASE CapsAllow(r.on)
  <2>0. TypeOK /\ r.caller \in Callers /\ r.on \in SUBSET Artifacts /\ r.at \in Nat /\ r.at <= now
    BY ZenonT(60), <1>1 DEF Request, RequestInv, EndpointInv, SessionsInv
  <2>1. begin_session(t, r.caller, r.on, r.at)
    BY SMTT(60), <1>1, <1>4 DEF BeginWork
  <2>2. PICK line \in Line : line = BeginLine(t, r.on)
    <3>1. CutOf(r.on) \in Cut
      BY <2>0 DEF CutOf, Cut, TypeOK
    <3> QED
      BY ZenonT(60), <3>1 DEF BeginLine, Line
  <2> DEFINE s == [r EXCEPT !.stage = "log", !.token = t, !.todo = {line}]
  <2>3. s \in Request
    BY ZenonT(60) DEF Request
  <2>4. request' = [request EXCEPT ![w] = s]
    BY ZenonT(60), <1>1, <1>4, <2>2 DEF BeginWork
  <2>5. SessionsInv'
    BY ZenonT(60), <2>0, <2>1, BeginStep DEF EndpointInv
  <2>6. /\ opened[t] = None
        /\ opened' = [opened EXCEPT ![t] = [owner |-> r.caller, created |-> r.at, cut |-> CutOf(r.on)]]
        /\ owners' = [owners EXCEPT ![t] = r.caller]
        /\ meta' = [meta EXCEPT ![t] = [owner |-> r.caller, created |-> r.at]]
        /\ beat' = [beat EXCEPT ![t] = r.at]
        /\ UNCHANGED <<gone, now, commits>>
    BY ZenonT(60), <2>1 DEF begin_session, capture_version_vector
  <2>7. Grows
    BY SMTT(60), <1>2, <2>0, <2>6 DEF Grows, Written, TypeOK
  <2>8. NoneForgotten
    BY ZenonT(60), <2>0, <2>6, SessionAssumption DEF NoneForgotten, TypeOK
  <2>9. line = Begun(t)' /\ opened'[t] # None /\ line \notin CommitLine
    <3> DEFINE o == [owner |-> r.caller, created |-> r.at, cut |-> CutOf(r.on)]
    <3>1. opened'[t] = o
      BY ZenonT(60), <2>0, <2>6 DEF TypeOK
    <3>2. o \in Opening
      BY <2>0 DEF Opening, CutOf, Cut, TypeOK
    <3>3. o.cut = CutOf(r.on)
      OBVIOUS
    <3> HIDE DEF o
    <3>4. line = Begun(t)'
      BY SMTT(60), <2>2, <3>1, <3>3 DEF BeginLine, Begun
    <3>5. line \notin CommitLine
      BY <2>2 DEF BeginLine, CommitLine
    <3> QED
      BY ZenonT(60), <3>1, <3>2, <3>4, <3>5, NoneIsNoValue
  <2>10. /\ s.op = "begin" /\ s.token = t /\ s.at = r.at /\ s.todo = {line} /\ s.won = {}
         /\ s.pinned = None /\ s.cut = None /\ s.stage = "log"
    BY ZenonT(60), <1>1, <1>2 DEF Request, RequestInv
  <2> HIDE DEF s
  <2>11. RequestInv(s)'
    BY ZenonT(60), <2>0, <2>6, <2>9, <2>10 DEF RequestInv
  <2> QED
    BY ZenonT(60), <1>2, <2>3, <2>4, <2>5, <2>6, <2>7, <2>8, <2>11, QuietStep DEF EndpointInv
<1> QED
  BY <1>3, <1>4

\* A heartbeat of the owner, under the tick its request was accepted at.
LEMMA HeartbeatWorkStep ==
  ASSUME EndpointInv, NEW w \in Workers, HeartbeatWork(w)
  PROVE  EndpointInv'
<1>1. PICK r \in Request : r = request[w] /\ RequestInv(r)
  BY SMTT(60), RequestOf DEF HeartbeatWork, At
<1>2. /\ r.op = "heartbeat" /\ r.stage = "start" /\ Log(w, {})
      /\ UNCHANGED <<audit, known, told, unlogged>>
  BY SMTT(60), <1>1 DEF HeartbeatWork, At
<1>3. PICK t \in Tokens : t = r.token
  BY ZenonT(60), <1>1, <1>2 DEF RequestInv, EndpointInv, EndpointTypeOK
<1>4. CASE BoundOwner(t) # r.caller
  <2>1. UNCHANGED vars
    BY SMTT(60), <1>1, <1>3, <1>4 DEF HeartbeatWork
  <2> QED
    BY ZenonT(60), <1>1, <1>2, <2>1, NoneIsNoRequest, LogStep
<1>5. CASE BoundOwner(t) = r.caller
  <2>0. /\ TypeOK /\ SessionInv(t) /\ r.caller \in Callers /\ r.caller # None
        /\ r.at \in Nat /\ r.at <= now
    BY ZenonT(60), <1>1, SessionAssumption DEF Request, RequestInv, EndpointInv, SessionsInv
  <2>1. record_session_heartbeat(t, r.caller, r.at)
    BY SMTT(60), <1>1, <1>3, <1>5 DEF HeartbeatWork
  <2>2. owners[t] = None => beat[t] = None \/ beat[t] <= r.at
    BY ZenonT(60), <1>1, <1>2, <1>3, <1>5, <2>0 DEF BoundOwner, RequestInv
  <2>3. SessionsInv'
    BY ZenonT(60), <2>0, <2>1, <2>2, HeartbeatStep DEF EndpointInv
  <2>4. /\ owners' = [owners EXCEPT ![t] = r.caller]
        /\ \A u \in Tokens : u # t => beat'[u] = beat[u]
        /\ UNCHANGED <<gone, meta, now, opened, commits>>
    BY SMTT(60), <2>0, <2>1 DEF record_session_heartbeat, registry, TypeOK
  <2>5. Grows
    BY SMTT(60), <1>2, <2>0, <2>4 DEF Grows, Written, TypeOK
  <2>6. NoneForgotten
    BY SMTT(60), <2>0, <2>4 DEF NoneForgotten, TypeOK
  <2>7. now \in Nat /\ now' \in Nat
    BY <2>0, <2>4 DEF TypeOK
  <2>8. RequestInv(r)'
    BY ZenonT(60), <1>1, <2>5, <2>6, <2>7, RequestFrame
  <2> DEFINE s == [r EXCEPT !.stage = "log", !.todo = {}, !.pinned = None, !.cut = None]
  <2>9. s \in Request
    BY ZenonT(60) DEF Request
  <2>10. request' = [request EXCEPT ![w] = s]
    BY ZenonT(60), <1>1, <1>2 DEF Log
  <2>11. /\ s.op = r.op /\ s.token = r.token /\ s.at = r.at /\ s.caller = r.caller
         /\ s.todo = {} /\ s.won = {} /\ s.pinned = None /\ s.cut = None
         /\ s.stage = "log"
    BY ZenonT(60), <1>1, <1>2 DEF Request, RequestInv
  <2> HIDE DEF s
  <2>12. RequestInv(s)'
    BY ZenonT(60), <1>2, <2>8, <2>11 DEF RequestInv
  <2> QED
    BY ZenonT(60), <1>2, <2>3, <2>4, <2>5, <2>6, <2>9, <2>10, <2>12, QuietStep DEF EndpointInv
<1> QED
  BY SMTT(60), <1>4, <1>5

\* A commit that wins: what it publishes is on top of the pin, and the lines it
\* leaves say so.
LEMMA CommitWins ==
  ASSUME EndpointInv, NEW w \in Workers, NEW r \in Request, r = request[w], RequestInv(r),
         r.op = "commit", r.stage = "ready", CutWins(r), CommitWork(w), ~Abandoned(r)
  PROVE  EndpointInv'
<1> DEFINE F == r.on
           C == {<<r.token, f, version[f]>> : f \in F}
<1>1. /\ PublishAll(F, F) /\ commits' = commits \cup C
      /\ UNCHANGED <<gone, owned, pins, meta, service, call, now, opened, beat>>
      /\ UNCHANGED <<audit, known, told, unlogged>>
  BY DEF CommitWork, commit_all
<1>2. PICK t \in Tokens : t = r.token /\ t \in known
  BY ZenonT(60) DEF RequestInv, EndpointInv, EndpointTypeOK
<1>3. /\ TypeOK /\ F \in SUBSET Artifacts
      /\ opened[t] # None /\ opened[t] \in Opening /\ Begun(t) \in Written
  BY ZenonT(60), <1>2 DEF EndpointInv, SessionsInv, TypeOK, Request
<1>4. \A f \in F : f \in Live /\ r.cut[f] = version[f]
  BY SMTT(60) DEF CutWins
<1>5. r.cut = opened[t].cut /\ (r.pinned # None => r.pinned = opened[t].cut)
  BY ZenonT(60), <1>2 DEF RequestInv
<1>6. \A f \in F : f \in Artifacts /\ version[f] \in Nat /\ opened[t].cut[f] = version[f]
  BY ZenonT(60), <1>3, <1>4, <1>5 DEF TypeOK
<1>7. SessionsInv'
  <2>1. call' \in [Tokens -> Call \cup {None}]
    BY ZenonT(60), <1>1, <1>3 DEF TypeOK
  <2>2. \A u \in Tokens : SessionInv(u)'
    <3>0. now \in Nat /\ now' = now
      BY ZenonT(60), <1>1, <1>3 DEF TypeOK
    <3>1. now' \in Nat /\ now <= now'
      BY ONLY SMTT(60), <3>0
    <3> QED
      BY ZenonT(60), <1>1, <1>3, <3>1, SessionFrame DEF EndpointInv, SessionsInv, service
  <2> QED
    BY ZenonT(60), <1>1, <1>2, <1>3, <1>4, <1>6, <2>1, <2>2, CommitAtPin DEF EndpointInv
<1>8. Grows /\ NoneForgotten
  BY SMTT(60), <1>1, <1>3 DEF Grows, NoneForgotten, Written, service, TypeOK
<1>9. PICK L : L = IF commits' = commits THEN {} ELSE LinesOf(r)
  BY ZenonT(60)
<1>10. PICK W : W = commits' \ commits
  BY ZenonT(60)
<1> DEFINE LineFor(f) == [event |-> "session_commit", session |-> t, artifact |-> f,
                          pinned_version |-> version[f], committed_version |-> version[f] + 1]
<1>11. LinesOf(r) = {LineFor(f) : f \in F}
  BY SMTT(60), <1>2, <1>5, <1>6 DEF LinesOf
<1>12. ASSUME NEW line \in LinesOf(r)
       PROVE  line \in CommitLine /\ LineIsTrue(line)'
  <2>1. PICK f \in F : line = LineFor(f)
    BY SMTT(60), <1>11
  <2>2. line \in CommitLine
    BY SMTT(60), <1>6, <2>1 DEF CommitLine
  <2>3. /\ line.session = t /\ line.artifact = f /\ line.pinned_version = version[f]
        /\ line.committed_version = version[f] + 1
    BY SMTT(60), <2>1
  <2>4. <<t, f, version[f]>> \in commits'
    BY SMTT(60), <1>1, <1>2
  <2>5. LineIsTrue(line)'
    BY ZenonT(60), <1>1, <1>3, <1>6, <2>3, <2>4 DEF LineIsTrue, Recorded, Begun, Written
  <2> QED
    BY SMTT(60), <2>2, <2>5
<1>13. ASSUME NEW c \in W
       PROVE  /\ c \in commits' /\ c \in Tokens \X Artifacts \X Nat
              /\ \E line \in L \cap CommitLine : Recorded(line) = c
  <2>1. PICK f \in F : c = <<t, f, version[f]>>
    BY ZenonT(60), <1>1, <1>2, <1>10, <1>13
  <2>2. commits' # commits
    BY SMTT(60), <1>10, <1>13
  <2>3. LineFor(f) \in L \cap CommitLine
    BY ZenonT(60), <1>9, <1>11, <1>12, <2>2
  <2>4. Recorded(LineFor(f)) = c
    BY ZenonT(60), <2>1 DEF Recorded
  <2>5. c \in commits'
    BY ZenonT(60), <1>10, <1>13
  <2>6. c \in Tokens \X Artifacts \X Nat
    BY ZenonT(60), <1>6, <2>1
  <2> QED
    BY ZenonT(60), <2>3, <2>4, <2>5, <2>6
<1> DEFINE s == [r EXCEPT !.stage = "log", !.pinned = None, !.cut = None, !.won = W, !.todo = L]
<1>14. s \in Request
  <2>1. L \in SUBSET Line
    BY SMTT(60), <1>9, <1>12 DEF Line
  <2>2. W \in SUBSET (Tokens \X Artifacts \X Nat)
    BY <1>13
  <2> QED
    BY ZenonT(60), <2>1, <2>2 DEF Request
<1>15. request' = [request EXCEPT ![w] = s]
  BY ZenonT(60), <1>9, <1>10 DEF CommitWork
<1>16. /\ s.op = "commit" /\ s.token = t /\ s.at = r.at /\ s.todo = L /\ s.won = W
       /\ s.pinned = None /\ s.cut = None /\ s.stage = "log"
  BY <1>2 DEF Request
<1>17. r.at <= now' /\ opened'[t] # None /\ t \in known'
  BY ZenonT(60), <1>1, <1>2, <1>3 DEF RequestInv
<1> HIDE DEF s, F, C, LineFor
<1>18. RequestInv(s)'
  <2>1. \A line \in s.todo \cap CommitLine : LineIsTrue(line)'
    BY SMTT(60), <1>9, <1>12, <1>16
  <2>2. \A c \in s.won : c \in commits'
          /\ \E line \in (Written' \cup s.todo) \cap CommitLine : Recorded(line) = c
    BY <1>13, <1>16
  <2> QED
    BY ZenonT(60), <1>16, <1>17, <2>1, <2>2 DEF RequestInv, Recorded
<1> QED
  BY ZenonT(60), <1>1, <1>7, <1>8, <1>14, <1>15, <1>18, QuietStep DEF EndpointInv

\* A commit lands at the pin, or not at all when it lost or came too late.
LEMMA CommitWorkStep ==
  ASSUME EndpointInv, NEW w \in Workers, CommitWork(w)
  PROVE  EndpointInv'
<1>1. PICK r \in Request : r = request[w] /\ RequestInv(r)
  BY RequestOf DEF CommitWork, At
<1>2. r.op = "commit" /\ r.stage = "ready"
  BY SMTT(60), <1>1 DEF CommitWork, At
<1>3. CASE ~Abandoned(r) /\ CutWins(r)
  BY ZenonT(60), <1>1, <1>2, <1>3, CommitWins
<1>4. CASE Abandoned(r) \/ ~CutWins(r)
  <2>1. /\ UNCHANGED vars /\ commits' = commits
        /\ UNCHANGED <<audit, known, told, unlogged>>
    BY ZenonT(60), <1>1, <1>4 DEF CommitWork, commit_all, vars, registry, ghosts
  <2> DEFINE s == [r EXCEPT !.stage = "log", !.pinned = None, !.cut = None, !.won = {},
                            !.todo = {}]
  <2>2. s \in Request
    BY ZenonT(60) DEF Request
  <2>3. request' = [request EXCEPT ![w] = s]
    BY ZenonT(60), <1>1, <2>1 DEF CommitWork
  <2>4. /\ s.op = r.op /\ s.token = r.token /\ s.at = r.at /\ s.caller = r.caller
        /\ s.todo = r.todo /\ s.won = r.won /\ s.pinned = None /\ s.cut = None
        /\ s.stage = "log"
    BY ZenonT(60), <1>1, <1>2 DEF Request, RequestInv
  <2> HIDE DEF s
  <2> QED
    BY ZenonT(60), <1>1, <2>1, <2>2, <2>3, <2>4, OwnStep
<1> QED
  BY <1>3, <1>4

-----------------------------------------------------------------------------
(* The log, the answer, and what goes on elsewhere.                        *)

\* A line leaves the request for the log, or is lost on the way.
LEMMA AppendStep ==
  ASSUME EndpointInv, NEW w \in Workers, NEW line \in Line, _append_record(w, line)
  PROVE  EndpointInv'
<1>1. PICK r \in Request : r = request[w] /\ RequestInv(r)
  BY RequestOf DEF _append_record
<1>2. /\ r.stage = "log" /\ line \in r.todo
      /\ UNCHANGED vars /\ UNCHANGED <<known, told>>
      /\ audit' \in {audit, audit \cup {line}}
      /\ Written' = Written \cup {line}
      /\ audit' \in SUBSET Line /\ unlogged' \in SUBSET Line
  BY <1>1 DEF _append_record, Written, EndpointInv, EndpointTypeOK
<1> DEFINE s == [r EXCEPT !.todo = @ \ {line}]
<1>3. s \in Request
  BY DEF Request
<1>4. request' = [request EXCEPT ![w] = s]
  BY SMTT(60), <1>1 DEF _append_record
<1>5. Grows /\ NoneForgotten /\ SessionsInv' /\ gone' = {}
  BY SMTT(60), <1>2, SessionsStand
<1>6. now \in Nat /\ now' \in Nat
  BY ZenonT(60), <1>5 DEF EndpointInv, SessionsInv, TypeOK
<1>7. RequestInv(r)'
  BY <1>1, <1>5, <1>6, RequestFrame
<1>8. /\ s.op = r.op /\ s.token = r.token /\ s.at = r.at /\ s.caller = r.caller
      /\ s.todo = r.todo \ {line} /\ s.won = r.won /\ s.pinned = r.pinned /\ s.cut = r.cut
      /\ s.stage = "log"
  BY SMTT(60), <1>2 DEF Request
<1> HIDE DEF s
<1>9. RequestInv(s)'
  <2>1. Written' \cup r.todo = Written' \cup s.todo
    BY SMTT(60), <1>2, <1>8
  <2>2. \A l \in s.todo \cap CommitLine : LineIsTrue(l)'
    BY ZenonT(60), <1>7, <1>8 DEF RequestInv
  <2> QED
    BY ZenonT(60), <1>7, <1>8, <2>1, <2>2 DEF RequestInv
<1>10. AuditIsTrue'
  <2> SUFFICES ASSUME NEW l \in audit' \cap CommitLine PROVE LineIsTrue(l)'
    BY SMTT(60) DEF AuditIsTrue
  <2>1. LineIsTrue(l)
    <3>1. CASE l \in audit
      BY ZenonT(60), <3>1 DEF EndpointInv, AuditIsTrue
    <3>2. CASE l = line
      BY ZenonT(60), <3>2, <1>1, <1>2 DEF RequestInv
    <3> QED
      BY <3>1, <3>2, <1>2
  <2> QED
    BY <1>5, <2>1, LineFrame
<1>11. ToldIsLogged'
  BY ZenonT(60), <1>2, <1>5 DEF EndpointInv, ToldIsLogged, Grows, Recorded
<1>12. \A t \in known' : opened'[t] # None /\ Begun(t)' \in Written'
  BY SMTT(60), <1>2 DEF EndpointInv, Begun, vars, ghosts
<1>13. /\ request' \in [Workers -> Request \cup {None}]
       /\ \A v \in Workers : request'[v] # None => RequestInv(request[v])'
  BY ZenonT(60), <1>3, <1>4, <1>5, <1>9, WorkerStep
<1>14. EndpointTypeOK'
  BY ZenonT(60), <1>2, <1>5, <1>13 DEF EndpointInv, EndpointTypeOK, SessionsInv
<1> QED
  BY ZenonT(60), <1>5, <1>10, <1>11, <1>12, <1>13, <1>14 DEF EndpointInv

\* The client is answered when all lines are written.
LEMMA AnswerStep ==
  ASSUME EndpointInv, NEW w \in Workers, Answer(w)
  PROVE  EndpointInv'
<1>1. PICK r \in Request : r = request[w] /\ RequestInv(r)
  BY SMTT(60), RequestOf DEF Answer
<1>2. /\ r.todo = {} /\ UNCHANGED vars /\ UNCHANGED <<audit, unlogged, Written>>
      /\ known' \in {known} \cup (IF r.op = "begin" /\ r.token # None THEN {known \cup {r.token}} ELSE {})
      /\ told' \in {told, told \cup r.won}
      /\ request' = [request EXCEPT ![w] = None]
  BY SMTT(60), <1>1 DEF Answer, MayAnswer, Written
<1>3. Grows /\ NoneForgotten /\ SessionsInv' /\ gone' = {}
  BY SMTT(60), <1>2, SessionsStand
<1>4. UNCHANGED <<opened, commits>>
  BY SMTT(60), <1>2 DEF vars, ghosts
<1>5. known' \in SUBSET Tokens /\ told' \in SUBSET (Tokens \X Artifacts \X Nat)
  BY ZenonT(60), <1>2 DEF EndpointInv, EndpointTypeOK, Request
<1>6. ASSUME NEW t \in known' PROVE opened'[t] # None /\ Begun(t)' \in Written'
  <2>1. Begun(t)' = Begun(t)
    BY ZenonT(60), <1>4 DEF Begun
  <2>2. t \in known \/ (r.op = "begin" /\ r.token = t /\ r.token # None)
    BY SMTT(60), <1>2
  <2>3. opened[t] # None /\ Begun(t) \in Written
    BY ZenonT(60), <1>1, <1>2, <2>2 DEF EndpointInv, RequestInv
  <2> QED
    BY ZenonT(60), <1>2, <1>4, <2>1, <2>3
<1>7. ToldIsLogged'
  BY ZenonT(60), <1>1, <1>2, <1>4 DEF EndpointInv, ToldIsLogged, RequestInv, Recorded
<1>8. AuditIsTrue'
  BY ZenonT(60), <1>2, <1>3, LineFrame DEF EndpointInv, AuditIsTrue
<1>9. /\ request' \in [Workers -> Request \cup {None}]
      /\ \A v \in Workers : request'[v] # None => RequestInv(request[v])'
  BY ZenonT(60), <1>2, <1>3, WorkerStep
<1>10. EndpointTypeOK'
  BY ZenonT(60), <1>2, <1>3, <1>5, <1>9 DEF EndpointInv, EndpointTypeOK, SessionsInv
<1> QED
  BY ZenonT(60), <1>3, <1>6, <1>7, <1>8, <1>9, <1>10 DEF EndpointInv

\* The hook endpoints, the sweep and the clock leave every request as it was.
LEMMA ElsewhereStep ==
  ASSUME EndpointInv, Elsewhere
  PROVE  EndpointInv'
<1>0. SessionsInv /\ TypeOK /\ gone = {} /\ UNCHANGED <<request, audit, known, told, unlogged>>
  BY ZenonT(60) DEF EndpointInv, SessionsInv, Elsewhere
<1>1. SessionsInv' /\ gone' = {} /\ NoneForgotten /\ Grows
  <2>1. ASSUME NEW F \in SUBSET Artifacts, AgentPublish(F, {})
        PROVE  SessionsInv' /\ gone' = {} /\ NoneForgotten /\ Grows
    <3>1. SessionsInv'
      BY SMTT(60), <1>0, <2>1, AgentPublishStep DEF AgentPublish
    <3> QED
      BY SMTT(60), <1>0, <2>1, <3>1 DEF AgentPublish, service, NoneForgotten, Grows, Written, TypeOK
  <2>2. ASSUME NEW f \in Artifacts, AgentOwnership(f)
        PROVE  SessionsInv' /\ gone' = {} /\ NoneForgotten /\ Grows
    <3>1. SessionsInv'
      BY SMTT(60), <1>0, <2>2, AgentOtherStep
    <3> QED
      BY SMTT(60), <1>0, <2>2, <3>1
      DEF AgentOwnership, service, ghosts, NoneForgotten, Grows, Written, TypeOK
  <2>3. ASSUME NEW t \in Tokens, Reap(t)
        PROVE  SessionsInv' /\ gone' = {} /\ NoneForgotten /\ Grows
    <3>1. SessionsInv'
      BY SMTT(60), <1>0, <2>3, ReapStep
    <3>2. NoneForgotten
      BY SMTT(60), <1>0, <2>3
      DEF Reap, release_session, drop_service_state, ghosts, NoneForgotten, TypeOK
    <3> QED
      BY SMTT(60), <1>0, <2>3, <3>1, <3>2 DEF Reap, ghosts, Grows, Written, TypeOK
  <2>4. CASE Tick
    <3>1. SessionsInv'
      BY SMTT(60), <1>0, <2>4, TickStep
    <3>2. now <= now'
      BY SMTT(60), <1>0, <2>4 DEF Tick, TypeOK
    <3> QED
      BY ZenonT(60), <1>0, <2>4, <3>1, <3>2
      DEF Tick, registry, service, ghosts, NoneForgotten, Grows, Written
  <2> QED
    BY SMTT(60), <2>1, <2>2, <2>3, <2>4 DEF Elsewhere
<1>2. now \in Nat /\ now' \in Nat
  BY ZenonT(60), <1>0, <1>1 DEF SessionsInv, TypeOK
<1>3. ASSUME NEW v \in Workers, request'[v] # None PROVE RequestInv(request[v])'
  <2>1. PICK r : r = request[v]
    OBVIOUS
  <2>2. r \in Request /\ RequestInv(r) /\ request'[v] = r
    BY SMTT(60), <1>0, <1>3, <2>1, RequestOf
  <2>3. RequestInv(r)'
    BY SMTT(60), <1>1, <1>2, <2>2, RequestFrame
  <2> QED
    BY ZenonT(60), <2>2, <2>3 DEF RequestInv
<1>4. EndpointTypeOK'
  BY ZenonT(60), <1>0, <1>1 DEF EndpointInv, EndpointTypeOK, SessionsInv
<1> QED
  BY ZenonT(60), <1>0, <1>1, <1>3, <1>4, LogFrame DEF EndpointInv

\* A restart ends every request and loses nothing that is on record.
LEMMA EndpointRestartStep ==
  ASSUME EndpointInv, EndpointRestart
  PROVE  EndpointInv'
<1>0. SessionsInv /\ TypeOK /\ gone = {} /\ Restart /\ request' = Empty(Workers)
      /\ UNCHANGED <<audit, known, told, unlogged>>
  BY ZenonT(60) DEF EndpointInv, SessionsInv, EndpointRestart
<1>1. SessionsInv' /\ gone' = {}
  BY SMTT(60), <1>0, RestartStep, EndpointAssumption DEF Restart, registry
<1>2. Grows
  BY <1>0 DEF Restart, ghosts, Grows, Written, TypeOK
<1>3. \A w \in Workers : request'[w] = None
  BY SMTT(60), <1>0 DEF Empty
<1>4. EndpointTypeOK'
  BY ZenonT(60), <1>0, <1>1 DEF EndpointInv, EndpointTypeOK, SessionsInv, Empty
<1> QED
  BY ZenonT(60), <1>0, <1>1, <1>2, <1>3, <1>4, LogFrame DEF EndpointInv

-----------------------------------------------------------------------------
(* Theorems.                                                               *)

\* It holds when the server starts on an empty store.
LEMMA EndpointInitInv == EndpointInit => EndpointInv
<1> SUFFICES ASSUME EndpointInit PROVE EndpointInv
  OBVIOUS
<1>1. SessionsInv /\ gone = {}
  BY SMTT(60), InitInv DEF EndpointInit, Init
<1>2. EndpointTypeOK
  BY ZenonT(60), <1>1 DEF EndpointInit, EndpointTypeOK, SessionsInv, Empty
<1>3. \A w \in Workers : request[w] = None
  BY DEF EndpointInit, Empty
<1>4. known = {} /\ AuditIsTrue /\ ToldIsLogged
  BY DEF EndpointInit, AuditIsTrue, ToldIsLogged
<1> QED
  BY ZenonT(60), <1>1, <1>2, <1>3, <1>4 DEF EndpointInv

\* Every step of the handlers, the workers and the rest of the server keeps it.
LEMMA EndpointNextInv == EndpointInv /\ [EndpointNext]_endpointVars => EndpointInv'
<1> SUFFICES ASSUME EndpointInv, [EndpointNext]_endpointVars PROVE EndpointInv'
  OBVIOUS
<1>1. ASSUME NEW w \in Workers, Handle(w) PROVE EndpointInv'
  <2>1. ASSUME NEW caller \in Callers, NEW F \in SUBSET Artifacts,
               _handle_session_begin(w, caller, F)
        PROVE  EndpointInv'
    BY SMTT(60), <2>1, AcceptStep DEF _handle_session_begin
  <2>2. ASSUME NEW caller \in Callers, NEW t \in Tokens, NEW f \in Artifacts,
               _handle_session_read(w, caller, t, f) \/ _handle_session_commit(w, caller, t, f)
        PROVE  EndpointInv'
    <3>1. {f} \in SUBSET Artifacts
      OBVIOUS
    <3>2. t \in known /\ \E op \in {"read", "commit"} : Accept(w, op, caller, t, {f})
      BY SMTT(60), <2>2 DEF _handle_session_read, _handle_session_commit
    <3> QED
      BY <3>1, <3>2, AcceptStep
  <2>3. ASSUME NEW caller \in Callers, NEW t \in Tokens, NEW F \in SUBSET Artifacts,
               _handle_session_commit_all(w, caller, t, F)
        PROVE  EndpointInv'
    BY SMTT(60), <2>3, AcceptStep DEF _handle_session_commit_all
  <2>4. ASSUME NEW caller \in Callers, NEW t \in Tokens, _handle_session_heartbeat(w, caller, t)
        PROVE  EndpointInv'
    BY SMTT(60), <2>4, AcceptStep DEF _handle_session_heartbeat
  <2> QED
    BY ZenonT(60), <1>1, <2>1, <2>2, <2>3, <2>4 DEF Handle
<1>2. ASSUME NEW w \in Workers, Work(w) PROVE EndpointInv'
  <2>1. CASE ReadWork(w)
    BY SMTT(60), <2>1, LogStep DEF ReadWork, At
  <2>2. ASSUME NEW line \in (IF request[w] = None THEN {} ELSE request[w].todo),
               _append_record(w, line)
        PROVE  EndpointInv'
    <3>1. line \in Line
      BY SMTT(60), <2>2, RequestOf DEF Request
    <3> QED
      BY SMTT(60), <2>2, <3>1, AppendStep
  <2> QED
    BY ZenonT(60), <1>2, <2>1, <2>2, ResolveStep, HeartbeatWorkStep, BeginWorkStep, LookUpStep,
       ReadCutStep, CheckOwnerStep, CommitWorkStep, AnswerStep DEF Work
<1>3. CASE UNCHANGED endpointVars
  <2>1. UNCHANGED vars /\ UNCHANGED <<request, audit, known, told, unlogged>>
    BY <1>3 DEF endpointVars
  <2>2. Grows /\ NoneForgotten /\ SessionsInv' /\ gone' = {}
    BY SMTT(60), <2>1, SessionsStand DEF Written
  <2>3. EndpointTypeOK'
    BY ZenonT(60), <2>1, <2>2 DEF EndpointInv, EndpointTypeOK, SessionsInv
  <2>4. ASSUME NEW v \in Workers, request'[v] # None PROVE RequestInv(request[v])'
    <3>1. PICK r : r = request[v]
      OBVIOUS
    <3>2. r \in Request /\ RequestInv(r) /\ request'[v] = r
      BY SMTT(60), <2>1, <2>4, <3>1, RequestOf
    <3>3. now \in Nat /\ now' \in Nat
      BY ZenonT(60), <2>2 DEF EndpointInv, SessionsInv, TypeOK
    <3>4. RequestInv(r)'
      BY <2>2, <3>2, <3>3, RequestFrame
    <3> QED
      BY ZenonT(60), <3>2, <3>4 DEF RequestInv
  <2> QED
    BY ZenonT(60), <2>1, <2>2, <2>3, <2>4, LogFrame DEF EndpointInv
<1> QED
  BY ZenonT(60), <1>1, <1>2, <1>3, DegradeStep, ElsewhereStep, EndpointRestartStep DEF EndpointNext

\* The inductive invariant of the endpoints: the sessions' own, and that every
\* request works for the session it names, as it was opened.
THEOREM EndpointInvariance == EndpointSpec => []EndpointInv
<1> QED
  BY EndpointInitInv, EndpointNextInv, PTL DEF EndpointSpec

\* session-audit.log tells the truth: each commit line is of a commit that landed
\* on the version its session pinned, after the session's begin line.
THEOREM AuditLogIsTrue == EndpointSpec => []AuditIsTrue
<1>1. EndpointInv => AuditIsTrue
  BY SMTT(60) DEF EndpointInv
<1> QED
  BY <1>1, EndpointInvariance, PTL

\* What a client was told of is committed and was given to the log first.
THEOREM AnswersAreLogged == EndpointSpec => []ToldIsLogged
<1>1. EndpointInv => ToldIsLogged
  BY DEF EndpointInv
<1> QED
  BY <1>1, EndpointInvariance, PTL

\* The audit log is sound, and complete for what clients were told.
THEOREM LogIsTrueAndComplete == EndpointSpec => []LogTellsTruth
<1>1. AuditIsTrue /\ ToldIsLogged => LogTellsTruth
  BY DEF LogTellsTruth
<1> QED
  BY <1>1, AuditLogIsTrue, AnswersAreLogged, PTL

\* The promises of the session service to its direct callers hold of requests
\* over HTTP: pinned bodies stay, and commits land on the pin.
THEOREM EndpointsKeepSessionPromises == EndpointSpec => [](PinnedBodyKept /\ OneCommitPerPin)
<1>1. EndpointInv => PinnedBodyKept /\ OneCommitPerPin
  BY SMTT(60) DEF EndpointInv, SessionsInv
<1> QED
  BY <1>1, EndpointInvariance, PTL

\* Sessions come and go in three kinds of step, and commits land in one.
LEMMA WhichStep ==
  ASSUME EndpointInv, [EndpointNext]_endpointVars
  PROVE  \/ UNCHANGED <<meta, commits>>
         \/ UNCHANGED commits /\ \E t \in Tokens : Reap(t)
         \/ /\ UNCHANGED commits
            /\ \E t \in Tokens, caller \in Callers, F \in SUBSET Artifacts, at \in Nat :
                 begin_session(t, caller, F, at)
         \/ UNCHANGED meta /\ \E w \in Workers : CommitWork(w)
<1> USE DEF vars, registry, ghosts
<1>1. ASSUME NEW w \in Workers, Handle(w) PROVE UNCHANGED <<meta, commits>>
  BY ZenonT(60), <1>1 DEF Handle, _handle_session_begin, _handle_session_read, _handle_session_commit,
              _handle_session_commit_all, _handle_session_heartbeat, Accept
<1>2. ASSUME NEW w \in Workers, NEW t \in Tokens, BeginWork(w, t)
      PROVE  /\ UNCHANGED commits
             /\ \/ UNCHANGED meta
                \/ \E caller \in Callers, F \in SUBSET Artifacts, at \in Nat :
                     begin_session(t, caller, F, at)
  <2>1. PICK r \in Request : r = request[w]
    BY SMTT(60), <1>2, RequestOf DEF BeginWork, At
  <2>2. r.caller \in Callers /\ r.on \in SUBSET Artifacts /\ r.at \in Nat
    BY DEF Request
  <2>3. UNCHANGED vars \/ begin_session(t, r.caller, r.on, r.at)
    BY SMTT(60), <1>2, <2>1 DEF BeginWork
  <2> QED
    BY ZenonT(60), <2>2, <2>3 DEF begin_session
<1>3. ASSUME NEW w \in Workers, Degrade(w) \/ LookUp(w) \/ ReadCut(w) \/ CheckOwner(w) \/ ReadWork(w)
                                \/ Answer(w) \/ \E line : _append_record(w, line)
      PROVE  UNCHANGED <<meta, commits>>
  BY ZenonT(60), <1>3 DEF Degrade, LookUp, ReadCut, CheckOwner, ReadWork, Answer, _append_record
<1>4. ASSUME NEW w \in Workers, _resolve_read_set(w) \/ HeartbeatWork(w)
      PROVE  UNCHANGED <<meta, commits>>
  BY ZenonT(60), <1>4 DEF _resolve_read_set, HeartbeatWork, record_session_heartbeat
<1>5. ASSUME NEW w \in Workers, CommitWork(w) PROVE UNCHANGED meta
  BY SMTT(60), <1>5 DEF CommitWork
<1>6. CASE Elsewhere
  BY SMTT(60), <1>6 DEF Elsewhere, AgentPublish, AgentOwnership, Reap, Tick
<1>7. CASE EndpointRestart \/ UNCHANGED endpointVars
  BY SMTT(60), <1>7, EndpointAssumption DEF EndpointRestart, Restart, endpointVars
<1>8. ASSUME NEW w \in Workers, Work(w)
      PROVE  \/ UNCHANGED <<meta, commits>>
             \/ \E t \in Tokens : BeginWork(w, t)
             \/ CommitWork(w)
  BY ZenonT(60), <1>3, <1>4, <1>8 DEF Work
<1> QED
  BY ZenonT(60), <1>1, <1>2, <1>3, <1>5, <1>6, <1>7, <1>8 DEF EndpointNext

\* The abort event: a commit whose client was answered never lands afterwards.
THEOREM NoCommitLandsLate == EndpointSpec => NothingLandsLate
<1>1. ASSUME EndpointInv, [EndpointNext]_endpointVars, commits' # commits
      PROVE  \E w \in Workers : At(w, "commit", "ready") /\ ~request[w].late
                                /\ request'[w] # request[w]
  <2>1. PICK w \in Workers : CommitWork(w)
    BY <1>1, WhichStep
  <2>2. PICK r \in Request : r = request[w]
    BY <1>1, <2>1, RequestOf DEF CommitWork, At
  <2>3. ~r.late
    BY ZenonT(60), <1>1, <2>1, <2>2 DEF CommitWork, Abandoned
  <2>4. r.stage = "ready" /\ request'[w].stage = "log"
    BY ZenonT(60), <1>1, <2>1, <2>2 DEF CommitWork, At, EndpointInv, EndpointTypeOK, Request
  <2> QED
    BY ZenonT(60), <2>1, <2>2, <2>3, <2>4 DEF CommitWork
<1>2. EndpointInv /\ [EndpointNext]_endpointVars =>
        [commits' # commits => \E w \in Workers : At(w, "commit", "ready") /\ ~request[w].late
                                                  /\ request'[w] # request[w]]_endpointVars
  BY <1>1
<1> QED
  BY <1>2, EndpointInvariance, PTL DEF EndpointSpec, NothingLandsLate

\* The sweep takes no session early, although heartbeats are recorded with the
\* tick of their request, out of order and after restarts.
THEOREM EndpointsReapWhenDue == EndpointSpec => ReapedOnlyWhenDue
<1>1. ASSUME EndpointInv, [EndpointNext]_endpointVars,
             NEW t \in Tokens, meta[t] # None, meta'[t] = None
      PROVE  now - beat[t] >= LeaseTimeout \/ now - opened[t].created >= AbsoluteAge
  <2>0. SessionsInv /\ TypeOK /\ SessionInv(t) /\ meta' # meta
    BY ZenonT(60), <1>1 DEF EndpointInv, SessionsInv
  <2>1. ASSUME NEW u \in Tokens, Reap(u)
        PROVE  now - beat[t] >= LeaseTimeout \/ now - opened[t].created >= AbsoluteAge
    <3>1. u = t
      BY ZenonT(60), <1>1, <2>0, <2>1 DEF Reap, release_session, TypeOK
    <3> QED
      BY ZenonT(60), <1>1, <2>0, <2>1, <3>1, ReapIsDue
  <2>2. ASSUME NEW u \in Tokens, NEW caller \in Callers, NEW F \in SUBSET Artifacts,
               NEW at \in Nat, begin_session(u, caller, F, at)
        PROVE  FALSE
    <3>1. u # t
      BY ZenonT(60), <1>1, <2>0, <2>2 DEF begin_session, SessionInv
    <3> QED
      BY ZenonT(60), <1>1, <2>0, <2>2, <3>1 DEF begin_session, capture_version_vector, TypeOK
  <2> QED
    BY ZenonT(60), <1>1, <2>0, <2>1, <2>2, WhichStep
<1>2. EndpointInv /\ [EndpointNext]_endpointVars =>
        [\A t \in Tokens : meta[t] # None /\ meta'[t] = None
           => \/ ~Durable /\ Restart
              \/ now - beat[t] >= LeaseTimeout
              \/ now - opened[t].created >= AbsoluteAge]_vars
  BY <1>1
<1> QED
  BY <1>2, EndpointInvariance, PTL DEF EndpointSpec, ReapedOnlyWhenDue

\* The cap on open sessions holds although workers open them concurrently.
THEOREM EndpointsCapSessions == EndpointSpec => []SessionCap
<1>1. EndpointInit => SessionCap
  BY SMTT(60), InitCap DEF EndpointInit
<1>2. EndpointInv /\ SessionCap /\ [EndpointNext]_endpointVars => SessionCap'
  <2> SUFFICES ASSUME EndpointInv, SessionCap, [EndpointNext]_endpointVars PROVE SessionCap'
    OBVIOUS
  <2>0. TypeOK
    BY ZenonT(60) DEF EndpointInv, SessionsInv
  <2>1. UNCHANGED meta => LiveSessions' \subseteq LiveSessions
    BY SMTT(60) DEF LiveSessions
  <2>2. ASSUME NEW t \in Tokens, Reap(t) PROVE LiveSessions' \subseteq LiveSessions
    BY SMTT(60), <2>0, <2>2 DEF Reap, release_session, LiveSessions, TypeOK
  <2>3. ASSUME NEW t \in Tokens, NEW caller \in Callers, NEW F \in SUBSET Artifacts,
               NEW at \in Nat, begin_session(t, caller, F, at)
        PROVE  SessionCount < MaxSessions /\ LiveSessions' \subseteq LiveSessions \cup {t}
    BY <2>0, <2>3
    DEF begin_session, CapsAllow, capture_version_vector, LiveSessions, TypeOK
  <2> QED
    BY ZenonT(60), <2>1, <2>2, <2>3, WhichStep, CapKept
<1> QED
  BY <1>1, <1>2, EndpointInvariance, PTL DEF EndpointSpec
=============================================================================
