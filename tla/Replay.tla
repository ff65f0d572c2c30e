------------------------------- MODULE Replay -------------------------------
(***************************************************************************)
(* A recorded session of a CCSStore and its replay: the recorder           *)
(* (replay/recorder.py) writes the store's two logs into a directory, the  *)
(* loader (replay/loader.py) merges them, the predicates                   *)
(* (replay/predicates.py) look for breaches and the command                *)
(* (cli/coherence_replay.py) turns what they find into an exit code.       *)
(*                                                                         *)
(* The session runs the operations of Store on one key and logs every      *)
(* state transition that set_agent_state or commit_cas would log, and      *)
(* every view of the content a runtime delivers.  The replay is a function *)
(* of what lies in the directory, so the properties apply it to every      *)
(* directory a session can leave behind, finished or not.                  *)
(*                                                                         *)
(* Abstractions.  Names, hashes and the wording of findings are left out;  *)
(* an artifact is the one key.  The strategies are those that invalidate   *)
(* (a pushing strategy logs updates as well).                              *)
(***************************************************************************)
EXTENDS Store, SequencesExt

CONSTANTS
  MaxOps,       \* bound: operations of a session
  MaxLogFaults  \* bound: log lines that raise

\* What an instance has to satisfy.
ReplayAssumption ==
  /\ MaxOps \in Nat /\ MaxLogFaults \in Nat
  /\ \A s \in Strategies : invalidates_peers_on_commit(s)

VARIABLES
  session,     \* "closed" or "open"
  manifest,    \* the directory's manifest: None, or the streams it declares
  lines,       \* stream -> its lines; a stream whose file is absent is None
  instance,    \* sessions begun so far; the instance id of the running one
  seq,         \* stream -> the last sequence number given out
  ops, log_faults,
  deleted,     \* history: the key was deleted in the session
  last_put,    \* history: the version and the tick of the last put
  stale_reads, \* history: audit lines that delivered a version that was not current
  put_stale,   \* history: those that delivered one older than the last put
  late_reads   \* history: those of a later tick than that put

traceVars == <<session, manifest, lines, instance, seq, ops, log_faults, deleted, last_put,
               stale_reads, put_stale, late_reads>>
replayVars == <<storeVars, traceVars>>

\* The recorder's two streams; the state log comes first in a merge.
_STREAM_PRIORITY == [state_log |-> 0, content_audit_log |-> 1]
Streams == DOMAIN _STREAM_PRIORITY

ReplayInit ==
  /\ StoreInit
  /\ session = "closed" /\ manifest = None
  /\ lines = [s \in Streams |-> None]
  /\ instance = 0
  /\ seq = [s \in Streams |-> 0]
  /\ ops = 0 /\ log_faults = 0
  /\ deleted = FALSE /\ last_put = [version |-> 0, tick |-> 0]
  /\ stale_reads = {} /\ put_stale = {} /\ late_reads = {}

-----------------------------------------------------------------------------
(* What an operation logs.                                                 *)

Transition(r, a, to, trigger, version, now) ==
  [tick |-> now, agent |-> a, from |-> r.state[a], to |-> to, trigger |-> trigger,
   version |-> version]

Transitions(r, agents, to, trigger, version, now) ==
  [i \in 1 .. Cardinality(agents) |->
     Transition(r, SetToSeq(agents)[i], to, trigger, version, now)]

SweepLog(beats, now) ==
  LET over == SetToSeq(Reclaimed(view, beats, now)) IN
  [i \in DOMAIN over |->
     Transition(view.rec, over[i], "INVALID",
                IF beats[over[i]] = None \/ now - beats[over[i]] >= heartbeat_timeout_ticks
                  THEN "reclaim_heartbeat" ELSE "reclaim_max_hold",
                view.rec.version, now)]

FetchLog(r, a, now) ==
  Transitions(r, Owners(r) \ {a}, "SHARED", "fetch", r.version, now)
    \o <<Transition(r, a, FetchGrant(r, a), "fetch", r.version, now)>>

\* write, then commit.
PutLog(r, a, now) ==
  Transitions(r, OtherHolders(r, a), "INVALID", "write", r.version, now)
    \o <<Transition(r, a, "EXCLUSIVE", "write", r.version, now),
         Transition(WriteRecord(r, a, now), a, "MODIFIED", "commit", r.version + 1, now)>>

\* The peers' lines come before the writer's own.
CasLog(r, a, now) ==
  Transitions(r, OtherHolders(r, a), "INVALID", "commit", r.version + 1, now)
    \o <<Transition(r, a, "SHARED", "commit", r.version + 1, now)>>

\* What the peers log when a signal reaches them.
SignalLog(v, a, signalled, version, now) ==
  LET told == {p \in Peers(a) : v.rec # None /\ ~RevokeIsSuperseded(v.rec, p, version, a)} IN
  IF signalled THEN Transitions(v.rec, told, "INVALID", "invalidate", v.rec.version, now)
  ELSE <<>>

\* _record_content_view.
Viewed(v, a, source, now) ==
  <<[tick |-> now, agent |-> a, version |-> v.entry[a].local_version, source |-> source]>>

RefreshLog(v, a, now) ==
  IF NeedsRefresh(strategy, v, a, now) THEN FetchLog(v.rec, a, now) ELSE <<>>

RefreshViews(v, a, now) ==
  IF NeedsRefresh(strategy, v, a, now)
    THEN Viewed(_fetch(strategy, v, a, now), a, "fetch", now) ELSE <<>>

-----------------------------------------------------------------------------
(* The recorder.                                                           *)

\* _StreamWriter.write of some entries.  The writer of a stream that is not
\* declared does nothing; its numbers are given out all the same.
Written(s, entries) ==
  IF s \notin manifest THEN lines[s]
  ELSE lines[s] \o [i \in DOMAIN entries |->
                      entries[i] @@ [seq |-> seq[s] + i, instance |-> instance]]

Record(states, views) ==
  /\ lines' = [state_log         |-> Written("state_log", states),
               content_audit_log |-> Written("content_audit_log", views)]
  /\ seq' = [state_log         |-> seq.state_log + Len(states),
             content_audit_log |-> seq.content_audit_log + Len(views)]

\* The audit lines that hand out a cached version older than the given one.
OlderThan(version, views) ==
  {seq.content_audit_log + i : i \in {j \in DOMAIN views :
     views[j].source = "cache_hit" /\ views[j].version < version}}

Logged(states, views, v) ==
  /\ session = "open" /\ ops < MaxOps
  /\ ops' = ops + 1
  /\ Record(states, views)
  /\ stale_reads' = stale_reads \cup
       (IF v.rec = None THEN {} ELSE OlderThan(v.rec.version, views))
  /\ put_stale' = put_stale \cup OlderThan(last_put.version, views)
  /\ late_reads' = late_reads \cup (IF tick' > last_put.tick
                                      THEN OlderThan(last_put.version, views) ELSE {})
  /\ UNCHANGED <<session, manifest, instance>>

\* RecordingSession.__enter__: a directory that has a manifest is refused, and
\* the header is written before the first line.
__enter__ ==
  /\ session = "closed" /\ manifest = None
  /\ \E streams \in {{"state_log"}, Streams} :
       /\ lines' = [s \in Streams |-> IF s \notin streams \/ lines[s] # None THEN lines[s] ELSE <<>>]
       /\ manifest' = streams
  /\ instance' = instance + 1
  /\ session' = "open"
  /\ UNCHANGED <<storeVars, seq, ops, log_faults, deleted, last_put, stale_reads, put_stale, late_reads>>

\* The header cannot be written: the files are there, empty, and a later
\* session may use the directory.
EnterRaises ==
  /\ session = "closed" /\ manifest = None /\ instance = 0
  /\ \E streams \in {{"state_log"}, Streams} :
       lines' = [s \in Streams |-> IF s \in streams THEN <<>> ELSE None]
  /\ instance' = instance + 1
  /\ UNCHANGED <<storeVars, session, manifest, seq, ops, log_faults, deleted, last_put,
                 stale_reads, put_stale, late_reads>>

\* __exit__ rewrites the manifest with what was observed; the streams it
\* declares, which are all the loader reads, stay those of the header.  A
\* process that dies leaves the header: for the loader there is no difference.
__exit__ ==
  /\ session = "open"
  /\ session' = "closed"
  /\ UNCHANGED <<storeVars, manifest, lines, instance, seq, ops, log_faults, deleted,
                 last_put, stale_reads, put_stale, late_reads>>

\* A file that was declared disappears afterwards.
FileLost(s) ==
  /\ session = "closed" /\ manifest # None /\ lines[s] # None
  /\ lines' = [lines EXCEPT ![s] = None]
  /\ UNCHANGED <<storeVars, session, manifest, instance, seq, ops, log_faults, deleted,
                 last_put, stale_reads, put_stale, late_reads>>

-----------------------------------------------------------------------------
(* The recorded operations.                                                *)

RecordedGet(a, now) ==
  LET swept == Swept(view, Heartbeats(a, now), now) IN
  /\ Get(a, now)
  /\ Logged(SweepLog(Heartbeats(a, now), now) \o RefreshLog(swept, a, now),
            IF NeedsRefresh(strategy, swept, a, now) THEN RefreshViews(swept, a, now)
            ELSE Viewed(swept, a, "cache_hit", now),
            swept)
  /\ UNCHANGED <<log_faults, deleted, last_put>>

RecordedPut(a, now) ==
  LET swept == Swept(EnsureRegistered(view), Heartbeats(a, now), now)
      fresh == Refreshed(strategy, swept, a, now)
      done  == write(strategy, swept, a, commits + 1, now) IN
  /\ _apply_put(a, now)
  /\ Logged(SweepLog(Heartbeats(a, now), now) \o RefreshLog(swept, a, now)
              \o PutLog(fresh.rec, a, now)
              \o SignalLog(done, a, WriteSignalled(strategy, swept, a, now),
                           WriteAnnounces(swept), now),
            RefreshViews(swept, a, now) \o Viewed(done, a, "write", now),
            swept)
  /\ last_put' = [version |-> done.rec.version, tick |-> now]
  /\ UNCHANGED <<log_faults, deleted>>

\* A conflict refetches once more before the last attempt.
CasRefetches(v, a, now) ==
  LET fresh == Refreshed(strategy, v, a, now) IN
  OccAllowed(fresh.rec, a) /\ CasAttempt(strategy, v, a, now) # fresh

CasPreamble(v, a, now) ==
  SweepLog(Heartbeats(a, now), now) \o RefreshLog(v, a, now)
    \o (IF CasRefetches(v, a, now)
          THEN FetchLog(Refreshed(strategy, v, a, now).rec, a, now) ELSE <<>>)

CasViews(v, a, now) ==
  RefreshViews(v, a, now)
    \o (IF CasRefetches(v, a, now)
          THEN Viewed(CasAttempt(strategy, v, a, now), a, "fetch", now) ELSE <<>>)

RecordedCas(a, now) ==
  LET swept == Swept(view, Heartbeats(a, now), now)
      last  == CasAttempt(strategy, swept, a, now)
      wins  == CasReady(strategy, last, a, now)
      done  == write_cas(strategy, last, a, commits + 1, now) IN
  /\ WriteCas(a, now)
  /\ Logged(CasPreamble(swept, a, now)
              \o (IF wins THEN CasLog(last.rec, a, now)
                               \o SignalLog(done, a, OtherHolders(last.rec, a) # {},
                                            done.rec.version, now)
                  ELSE <<>>),
            CasViews(swept, a, now)
              \o (IF wins THEN Viewed(done, a, "write_cas", now) ELSE <<>>),
            swept)
  /\ UNCHANGED <<log_faults, deleted, last_put>>

\* The writer's own line raises, before it is written or when it is synced, and
\* commit_cas gives back every number of the call: nothing was committed, but
\* the peers' lines, and a line that was only not synced, are in the file.
UnloggedCas(a, now, written) ==
  LET beats == Heartbeats(a, now)
      swept == Swept(view, beats, now)
      last  == CasAttempt(strategy, swept, a, now)
      ahead == CasPreamble(swept, a, now)
      torn  == CasLog(last.rec, a, now) IN
  /\ session = "open" /\ ops < MaxOps /\ log_faults < MaxLogFaults
  /\ Batch(now) /\ view.rec # None /\ CasReady(strategy, last, a, now)
  /\ Enter(a, now)
  /\ Observe(last, Reclaimed(view, beats, now), now)
  /\ ops' = ops + 1 /\ log_faults' = log_faults + 1
  /\ lines' = [state_log |-> Written("state_log", ahead \o IF written THEN torn ELSE Front(torn)),
               content_audit_log |-> Written("content_audit_log", CasViews(swept, a, now))]
  /\ seq' = [state_log |-> seq.state_log + Len(ahead),
             content_audit_log |-> seq.content_audit_log + Len(CasViews(swept, a, now))]
  /\ UNCHANGED <<strategy, recovery, indexed, commits, session, manifest, instance, deleted,
                 last_put, stale_reads, put_stale, late_reads>>

\* The audit line of a put raises.  By then the put is committed, so the peers
\* lose it at the registry; the call ends before they are signalled and before
\* the key is listed.
UnauditedPut(a, now, written) ==
  LET beats == Heartbeats(a, now)
      swept == Swept(EnsureRegistered(view), beats, now)
      fresh == Refreshed(strategy, swept, a, now)
      done  == write(strategy, swept, a, commits + 1, now)
      ahead == RefreshViews(swept, a, now)
      log   == SweepLog(beats, now) \o RefreshLog(swept, a, now) \o PutLog(fresh.rec, a, now) IN
  /\ session = "open" /\ ops < MaxOps /\ log_faults < MaxLogFaults
  /\ Batch(now) /\ commits < MaxCommits
  /\ Enter(a, now)
  /\ Observe(done, Reclaimed(view, beats, now), now)
  /\ commits' = commits + 1 /\ ops' = ops + 1 /\ log_faults' = log_faults + 1
  /\ lines' = [state_log |-> Written("state_log", log),
               content_audit_log |->
                 Written("content_audit_log",
                         IF written THEN ahead \o Viewed(done, a, "write", now) ELSE ahead)]
  /\ seq' = [state_log |-> seq.state_log + Len(log),
             content_audit_log |-> seq.content_audit_log + Len(ahead)]
  /\ last_put' = [version |-> done.rec.version, tick |-> now]
  /\ UNCHANGED <<strategy, recovery, indexed, session, manifest, instance, deleted,
                 stale_reads, put_stale, late_reads>>

\* A delete removes the record and logs nothing but the peers' signals, which
\* find no record.
RecordedDelete(a, now) ==
  /\ _apply_delete(a, now)
  /\ Logged(<<>>, <<>>, view)
  /\ deleted' = TRUE
  /\ UNCHANGED <<log_faults, last_put>>

RecordedOther(a, now) ==
  /\ OtherKey(a, now)
  /\ Logged(SweepLog(Heartbeats(a, now), now), <<>>, view)
  /\ UNCHANGED <<log_faults, deleted, last_put>>

ReplayNext ==
  \/ __enter__ \/ EnterRaises \/ __exit__
  \/ \E s \in Streams : FileLost(s)
  \/ \E a \in Agents, now \in Clock :
       \/ RecordedGet(a, now)
       \/ RecordedPut(a, now)
       \/ RecordedCas(a, now)
       \/ \E written \in BOOLEAN :
            UnloggedCas(a, now, written) \/ UnauditedPut(a, now, written)
       \/ RecordedDelete(a, now)
       \/ RecordedOther(a, now)

ReplaySpec == ReplayInit /\ [][ReplayNext]_replayVars

-----------------------------------------------------------------------------
(* The loader.                                                             *)

streams_present == {s \in manifest : lines[s] # None}

Tagged(s) == IF s \notin streams_present THEN <<>>
             ELSE [i \in DOMAIN lines[s] |-> [stream |-> s, line |-> lines[s][i], at |-> i]]

\* Mutant: the streams are merged by tick alone, the audit log first.
Before_AuditFirst(x, y) ==
  \/ x.line.tick < y.line.tick
  \/ x.line.tick = y.line.tick /\ _STREAM_PRIORITY[x.stream] > _STREAM_PRIORITY[y.stream]
  \/ x.line.tick = y.line.tick /\ x.stream = y.stream /\ x.line.seq < y.line.seq

\* The order of the merge: tick, stream, sequence number.
Before(x, y) ==
  \/ x.line.tick < y.line.tick
  \/ x.line.tick = y.line.tick /\ _STREAM_PRIORITY[x.stream] < _STREAM_PRIORITY[y.stream]
  \/ x.line.tick = y.line.tick /\ x.stream = y.stream /\ x.line.seq < y.line.seq

_iter_merged == SortSeq(Tagged("state_log") \o Tagged("content_audit_log"), Before)

\* _check_instance_id and _check_duplicate_seq.
Loads ==
  /\ manifest # None
  /\ \A s \in streams_present :
       \A i, j \in DOMAIN lines[s] : i # j => /\ lines[s][i].instance = lines[s][j].instance
                                              /\ lines[s][i].seq # lines[s][j].seq

-----------------------------------------------------------------------------
(* The predicates.                                                         *)

required_streams ==
  [n \in {"single-writer", "monotonic-version", "lost-write", "stale-read"} |->
     IF n = "stale-read" THEN Streams ELSE {"state_log"}]

_is_writer_commit(e) == e.trigger = "commit" /\ e.to \in M_OR_E_STATES

Finding(invariant, severity, x) == [invariant |-> invariant, severity |-> severity, at |-> x.at]

\* The three predicates on the state log; single-writer sees the states after
\* the line, monotonic-version the latest version before it.
StateFindings(shared, states, x) ==
  {Finding("single-writer", "CONFIRMED", x) : o \in
     {p \in Agents : \E q \in Agents \ {p} : {states[p], states[q]} \subseteq M_OR_E_STATES}}
  \cup {Finding("monotonic-version", "CONFIRMED", x) : e \in
     {y \in {x.line} : _is_writer_commit(y) /\ y.version <= shared.version}}
  \cup {Finding("lost-write", "CONFIRMED", x) : e \in
     {y \in {x.line} : _is_writer_commit(y) /\ y.from \notin M_OR_E_STATES}}

\* A read in the tick of the commit that superseded it is AMBIGUOUS.
_classify_stale_read(shared, x) ==
  IF shared.version = 0 \/ x.line.version >= shared.version THEN {}
  ELSE {Finding("stale-read", IF x.line.tick > shared.tick THEN "CONFIRMED" ELSE "AMBIGUOUS", x)}

\* _walk's step: the states first, then the predicates, then the version.
Visit(shared, x) ==
  IF x.stream = "content_audit_log"
    THEN [shared EXCEPT !.findings = @ \cup _classify_stale_read(shared, x)]
  ELSE LET states == [shared.states EXCEPT ![x.line.agent] = x.line.to]
           newer  == _is_writer_commit(x.line) /\ x.line.version > shared.version IN
       [states   |-> states,
        version  |-> IF newer THEN x.line.version ELSE shared.version,
        tick     |-> IF newer THEN x.line.tick ELSE shared.tick,
        findings |-> shared.findings \cup StateFindings(shared, states, x)]

_walk ==
  FoldLeft(Visit, [states |-> [a \in Agents |-> "INVALID"], version |-> 0, tick |-> 0,
                   findings |-> {}], _iter_merged).findings

active == {n \in DOMAIN required_streams : required_streams[n] \subseteq streams_present}

findings == {f \in _walk : f.invariant \in active}

\* _partition_active: a missing stream is opted out when it is not declared.
skipped ==
  {[invariant |-> n, opted_out |-> s \notin manifest] :
     <<n, s>> \in {<<m, t>> \in (DOMAIN required_streams) \X Streams :
                     t \in required_streams[m] \ streams_present}}

confirmed == {f \in findings : f.severity = "CONFIRMED"}

_has_capture_bug == \E s \in skipped : ~s.opted_out

\* main over _run and _exit_code.
exit_code ==
  IF ~Loads THEN 3
  ELSE IF confirmed # {} THEN 1
  ELSE IF _has_capture_bug THEN 2
  ELSE 0

\* emit_human and emit_json under --quiet write nothing at all.
cron_silent == Loads /\ confirmed = {} /\ ~_has_capture_bug

-----------------------------------------------------------------------------
(* Properties.                                                             *)

Replayed == Loads /\ ~deleted

\* The recorder's directory always loads: one instance, each number once,
\* whatever moment the session's process died at, unless a log line raised.
TraceLoads == manifest # None /\ log_faults = 0 => Loads

\* A confirmed finding is a breach.  Replaying a session of the store reports
\* none of the state log's three, and a stale read only where an old version
\* was delivered.
NoFalseBreach ==
  Replayed => \A f \in confirmed : f.invariant = "stale-read" /\ f.at \in stale_reads

\* No such breach is missed: a read that handed out a version older than the
\* last put is reported, as confirmed or, within the tick of the put, as ambiguous.
NoMissedStaleRead ==
  Replayed /\ "stale-read" \in active =>
    \A i \in put_stale : \E f \in findings : f.invariant = "stale-read" /\ f.at = i

\* Exit code 0, and the silence of --quiet, can be relied on: when both streams
\* were recorded, no agent was handed a version that a put of an earlier tick
\* had replaced, whatever has happened to the files since.
CleanMeansCoherent ==
  ~deleted /\ manifest = Streams /\ (exit_code = 0 \/ cron_silent) => late_reads = {}

\* predicates.py, Finding: "One invariant breach. ... CONFIRMED for breaches the
\* predicate can attest from observable trace data".  The same as NoFalseBreach,
\* of any session.
ConfirmedIsBreach ==
  Loads => \A f \in confirmed : f.invariant = "stale-read" /\ f.at \in stale_reads
=============================================================================
