----------------------------- MODULE HookServer -----------------------------
(***************************************************************************)
(* The coordinator's HTTP server for editor hooks                          *)
(* (adapters/claude_code/coordinator_server.py) over the registry.         *)
(*                                                                         *)
(* Every hook request is dispatched to a handler, whose work runs in a     *)
(* worker of the watchdog pool.  The work is a sequence of registry        *)
(* transactions and service calls; one action is one of them, and the      *)
(* requests interleave between them.  When the work is late the watchdog   *)
(* answers with a degraded body and sets the request's abort flag; the     *)
(* work itself goes on, and only the calls that take the flag (write,      *)
(* commit, commit_cas, invalidate) then do nothing.                        *)
(*                                                                         *)
(* Abstractions.  A content hash is only ever compared with the recorded   *)
(* one, so a request carries the outcome of the comparison.  Reads that    *)
(* shape the wording of an answer but decide nothing are left out, as are  *)
(* counters and logs.  All ticks are 0: the two sweeps may find any grant  *)
(* and any transient overdue at any moment.                                *)
(***************************************************************************)
EXTENDS ServiceRecords, FiniteSets

CONSTANTS
  Paths,        \* tracked paths
  Parent,       \* agent -> the agent of its session; a parent is its own
  Threads,      \* workers of the watchdog pool
  DrainMayTimeOut, \* a migration drain may give up waiting
  MaxRequests   \* bound: requests dispatched

Sweeper == "sweep"   \* SWEEP_RECLAMATION_PREEMPTER_ID

ASSUME HookAssumption ==
  /\ Paths # {}
  /\ Parent \in [Agents -> Agents] /\ \A a \in Agents : Parent[Parent[a]] = Parent[a]
  /\ DrainMayTimeOut \in BOOLEAN
  /\ MaxRequests \in Nat
  /\ Sweeper \notin Agents /\ None # Sweeper
  /\ IsFiniteSet(Threads)

VARIABLES
  strict,    \* the tracked paths in strict mode, as the policy file has them
  rec,       \* path -> its registry record, None before it is registered
  row,       \* path -> agents with a row in agent_states
  notices,   \* pending_notices: <<victim, path>> -> preempter or None
  pending,   \* _compact_pending: sessions owed a re-grounding
  work,      \* thread -> the request it works on, or None
  phase,     \* "serving", "closing" (shutting_down), "closed" (registry closed)
  drain,     \* the migration drain thread
  left,      \* paths the migration's release pass has still to visit
  admin,     \* the migration handler holds its slot
  requests,  \* requests dispatched so far
  missed,    \* history: <<agent, path>> with a peer's commit it was not told of
  owed       \* history: session -> re-groundings armed, delivered or expired

vars == <<strict, rec, row, notices, pending, work, phase, drain, admin, left, requests, missed, owed>>

Sessions == {a \in Agents : Parent[a] = a}

Reads == {"pre_read", "verify"}

Scans == {"pre_bash", "pre_grep"}

Kinds == Reads \cup Scans \cup
  {"pre_edit", "post_edit", "post_fail", "post_edit_cas", "session_stop",
   "session_start", "untracked"}

Request ==
  [kind : Kinds, agent : Agents, path : Paths, todo : SUBSET Paths, differs : BOOLEAN,
   pc : {"begin", "state", "first", "heal", "strict", "peers", "write", "record",
         "why", "release", "scan", "notices", "claim", "rebuild", "arm"},
   status : {"none", "fresh", "stale", "deny", "ok"},
   victims : SUBSET Agents, abort : BOOLEAN]

ASSUME NoneIsNoRequest == None \notin Request

Notice == Agents \cup {Sweeper, None}

TypeOK ==
  /\ strict \in SUBSET Paths
  /\ rec \in [Paths -> ArtifactRecord \cup {None}]
  /\ row \in [Paths -> SUBSET Agents]
  /\ notices \in [Agents \X Paths -> Notice]
  /\ pending \in SUBSET Sessions
  /\ work \in [Threads -> Request \cup {None}]
  /\ phase \in {"serving", "closing", "closed"}
  /\ drain \in {"no", "waiting", "revoking", "stopping"}
  /\ admin \in BOOLEAN /\ left \in SUBSET Paths
  /\ requests \in 0 .. MaxRequests
  /\ missed \in SUBSET (Agents \X Paths)
  /\ owed \in [Sessions -> Int]

Init ==
  /\ strict \in SUBSET Paths
  /\ rec = [p \in Paths |-> None]
  /\ row = [p \in Paths |-> {}]
  /\ notices = [v \in Agents \X Paths |-> None]
  /\ pending = {}
  /\ work = [t \in Threads |-> None]
  /\ phase = "serving" /\ drain = "no" /\ admin = FALSE /\ left = {}
  /\ requests = 0
  /\ missed = {}
  /\ owed = [s \in Sessions |-> 0]

-----------------------------------------------------------------------------
(* Registry rows.                                                          *)

Registered == {p \in Paths : rec[p] # None}

\* get_agent_state: None when the agent has no row.
get_agent_state(p, a) == IF a \in row[p] THEN rec[p].state[a] ELSE None

Valid(p, a) == get_agent_state(p, a) \notin {None, "INVALID"}

\* resolve_or_register: one transaction, whoever comes first inserts the row.
resolve_or_register(p) ==
  rec' = [rec EXCEPT ![p] = IF @ = None THEN register_artifact ELSE @]

\* The handlers' own set_agent_state(SHARED): no transient is cleared, no
\* owner is downgraded and no epoch moves.
GrantShared(p, a) ==
  /\ rec' = [rec EXCEPT ![p] = set_agent_state(@, a, "SHARED", "hook", 0)]
  /\ row' = [row EXCEPT ![p] = @ \cup {a}]

pop_pending_notices(a) ==
  notices' = [v \in DOMAIN notices |-> IF v[1] = a THEN None ELSE notices[v]]

\* A commit by a is news to every other agent with a row.
Committed(p, a) ==
  missed' = (missed \cup {<<b, p>> : b \in row[p]}) \ {<<a, p>>}

Told(p, a) == missed' = missed \ {<<a, p>>}

-----------------------------------------------------------------------------
(* Requests.                                                               *)

Running(t, pc) == work[t] # None /\ work[t].pc = pc

Goto(t, pc) == work' = [work EXCEPT ![t].pc = pc]

\* The request is answered, or its abandoned work has come to its end.
Finish(t) == work' = [work EXCEPT ![t] = None]

\* A live request holds an in-flight slot; the slot of an abandoned one was
\* given back when its degraded answer was sent.
Live == {t \in Threads : work[t] # None /\ ~work[t].abort}

InFlight == Cardinality(Live) + IF admin THEN 1 ELSE 0

Rejected == {"pre_edit", "post_edit_cas"}

acquire_handler_slot == phase = "serving"

\* _dispatch: slot, drain gate and what the handler does before its work.  A
\* parent's stop expires its session's pending re-grounding.
Dispatch(t, k, a, p, F, differs) ==
  /\ requests < MaxRequests /\ work[t] = None
  /\ acquire_handler_slot
  /\ ~(drain # "no" /\ k \in Rejected)
  /\ requests' = requests + 1
  /\ work' = [work EXCEPT ![t] =
       [kind |-> k, agent |-> a, path |-> p, todo |-> F, differs |-> differs,
        pc |-> "begin", status |-> "none", victims |-> {}, abort |-> FALSE]]
  /\ LET expired == IF k = "session_stop" THEN {a} \cap pending ELSE {} IN
       /\ pending' = pending \ expired
       /\ owed' = [s \in Sessions |-> IF s \in expired THEN owed[s] - 1 ELSE owed[s]]
  /\ UNCHANGED <<strict, rec, row, notices, phase, drain, admin, missed, left>>

\* run_with_watchdog: the answer is the degraded body, the work goes on.
Timeout(t) ==
  /\ work[t] # None /\ ~work[t].abort
  /\ work' = [work EXCEPT ![t].abort = TRUE]
  /\ UNCHANGED <<strict, rec, row, notices, pending, phase, drain, admin, requests, missed, owed, left>>

Starts(t, kinds) == Running(t, "begin") /\ work[t].kind \in kinds

Quiet == UNCHANGED <<strict, phase, drain, admin, left, requests>>

-----------------------------------------------------------------------------
(* /hooks/pre-read.  A verify request is a pre-read of an effect gate's     *)
(* fence: it re-grants nothing and pops nothing.                           *)

ReadLookup(t) ==
  /\ Starts(t, Reads)
  /\ resolve_or_register(work[t].path)
  /\ Goto(t, IF rec[work[t].path] = None THEN "first" ELSE "state")
  /\ Quiet /\ UNCHANGED <<row, notices, pending, missed, owed>>

ReadFirst(t) ==
  LET w == work[t] IN
  /\ Running(t, "first") /\ w.kind \in Reads
  /\ GrantShared(w.path, w.agent)
  /\ Told(w.path, w.agent)
  /\ work' = [work EXCEPT ![t].status = "fresh",
                          ![t].pc = IF w.kind = "verify" THEN "claim" ELSE "notices"]
  /\ Quiet /\ UNCHANGED <<notices, pending, owed>>

\* A hash that differs under a valid copy of a strict path is a foreign edit,
\* unless it can be the caller's own commit on its way to the disk.
ForeignEdit(w) ==
  /\ w.differs /\ w.path \in strict
  /\ Valid(w.path, w.agent)

StrictStale(w) ==
  /\ w.path \in strict
  /\ \/ get_agent_state(w.path, w.agent) = "INVALID"
     \/ get_agent_state(w.path, w.agent) = None /\ w.differs

ReadDenied(t) ==
  /\ Running(t, "state") /\ work[t].kind \in Reads
  /\ ForeignEdit(work[t]) \/ StrictStale(work[t])
  /\ Finish(t)
  /\ Quiet /\ UNCHANGED <<rec, row, notices, pending, missed, owed>>

ReadFresh(t) ==
  LET w == work[t] IN
  /\ Running(t, "state") /\ w.kind \in Reads
  /\ Valid(w.path, w.agent)
  /\ ForeignEdit(w) => rec[w.path].last_writer = w.agent
  /\ work' = [work EXCEPT ![t].status = "fresh",
                          ![t].pc = IF w.kind = "verify" THEN "claim" ELSE "notices"]
  /\ Quiet /\ UNCHANGED <<rec, row, notices, pending, missed, owed>>

ReadStale(t) ==
  LET w == work[t] IN
  /\ Running(t, "state") /\ w.kind \in Reads
  /\ ~Valid(w.path, w.agent) /\ ~StrictStale(w)
  /\ work' = [work EXCEPT ![t].status = "stale",
                          ![t].pc = IF w.kind = "verify" THEN "claim" ELSE "heal"]
  /\ Quiet /\ UNCHANGED <<rec, row, notices, pending, missed, owed>>

ReadHeal(t) ==
  /\ Running(t, "heal") /\ work[t].kind = "pre_read"
  /\ GrantShared(work[t].path, work[t].agent)
  /\ Told(work[t].path, work[t].agent)
  /\ Goto(t, "notices")
  /\ Quiet /\ UNCHANGED <<notices, pending, owed>>

-----------------------------------------------------------------------------
(* /hooks/pre-edit: acquire EXCLUSIVE.  The strict check, the snapshot of   *)
(* the owners to be notified and the acquire are three transactions.       *)

EditLookup(t) ==
  /\ Starts(t, {"pre_edit"})
  /\ resolve_or_register(work[t].path)
  /\ Goto(t, IF work[t].path \in strict THEN "strict" ELSE "peers")
  /\ Quiet /\ UNCHANGED <<row, notices, pending, missed, owed>>

EditStrict(t) ==
  /\ Running(t, "strict")
  /\ IF get_agent_state(work[t].path, work[t].agent) = "INVALID"
       THEN Finish(t)
       ELSE Goto(t, "peers")
  /\ Quiet /\ UNCHANGED <<rec, row, notices, pending, missed, owed>>

\* _peers_in_me_excluding and _exclusive_holder.
EditPeers(t) ==
  LET w == work[t] IN
  /\ Running(t, "peers")
  /\ work' = [work EXCEPT ![t].victims = Owners(rec[w.path]) \ {w.agent}, ![t].pc = "write"]
  /\ Quiet /\ UNCHANGED <<rec, row, notices, pending, missed, owed>>

\* Mutant: the acquire does not look at the abort flag.
EditWrite_NoAbort(t) ==
  LET w == work[t] IN
  /\ Running(t, "write")
  /\ rec' = [rec EXCEPT ![w.path] = WriteRecord(@, w.agent, 0)]
  /\ row' = [row EXCEPT ![w.path] = @ \cup {w.agent}]
  /\ Told(w.path, w.agent)
  /\ Goto(t, "record")
  /\ Quiet /\ UNCHANGED <<notices, pending, owed>>

\* Mutant: the acquire leaves the peers' grants in place.
EditWrite_KeepsPeers(t) ==
  LET w == work[t] IN
  /\ Running(t, "write")
  /\ IF w.abort
       THEN Finish(t) /\ UNCHANGED <<rec, row, missed>>
       ELSE /\ rec' = [rec EXCEPT ![w.path] = set_agent_state(@, w.agent, "EXCLUSIVE", "write", 0)]
            /\ row' = [row EXCEPT ![w.path] = @ \cup {w.agent}]
            /\ Told(w.path, w.agent)
            /\ Goto(t, "record")
  /\ Quiet /\ UNCHANGED <<notices, pending, owed>>

EditWrite(t) ==
  LET w == work[t] IN
  /\ Running(t, "write")
  /\ IF w.abort
       THEN Finish(t) /\ UNCHANGED <<rec, row, missed>>
       ELSE /\ rec' = [rec EXCEPT ![w.path] = WriteRecord(@, w.agent, 0)]
            /\ row' = [row EXCEPT ![w.path] = @ \cup {w.agent}]
            /\ Told(w.path, w.agent)
            /\ Goto(t, "record")
  /\ Quiet /\ UNCHANGED <<notices, pending, owed>>

EditRecord(t) ==
  LET w == work[t] IN
  /\ Running(t, "record")
  /\ notices' = [v \in DOMAIN notices |->
                   IF v[1] \in w.victims /\ v[2] = w.path THEN w.agent ELSE notices[v]]
  /\ Goto(t, "notices")
  /\ Quiet /\ UNCHANGED <<rec, row, pending, missed, owed>>

-----------------------------------------------------------------------------
(* /hooks/post-edit and /hooks/post-edit-cas.                              *)

PostCommit(t) ==
  LET w == work[t]
      r == rec[w.path] IN
  /\ Starts(t, {"post_edit"})
  /\ \/ /\ r = None \/ w.abort
        /\ Finish(t) /\ UNCHANGED <<rec, missed>>
     \/ /\ r # None /\ ~w.abort
        /\ IF r.state[w.agent] \notin M_OR_E_STATES
             THEN Goto(t, "why") /\ UNCHANGED <<rec, missed>>
           ELSE IF StaleReadGeneration(r, w.agent)
             THEN Finish(t) /\ UNCHANGED <<rec, missed>>
           ELSE /\ rec' = [rec EXCEPT ![w.path] = CommitRecord(@, w.agent, 0)]
                /\ Committed(w.path, w.agent)
                /\ Finish(t)
  /\ Quiet /\ UNCHANGED <<row, notices, pending, owed>>

\* The refusal says who took the grant, and consumes the notice.
PostWhy(t) ==
  /\ Running(t, "why")
  /\ notices' = [notices EXCEPT ![<<work[t].agent, work[t].path>>] = None]
  /\ Finish(t)
  /\ Quiet /\ UNCHANGED <<rec, row, pending, missed, owed>>

PostFail(t) ==
  LET w == work[t] IN
  /\ Starts(t, {"post_fail"})
  /\ IF rec[w.path] = None \/ w.abort
       THEN UNCHANGED <<rec, row>>
       ELSE /\ rec' = [rec EXCEPT ![w.path] = InvalidateRecord(@, w.agent, 0)]
            /\ row' = [row EXCEPT ![w.path] = @ \cup {w.agent}]
  /\ Finish(t)
  /\ Quiet /\ UNCHANGED <<notices, pending, missed, owed>>

PostCas(t, expected) ==
  LET w == work[t]
      r == rec[w.path] IN
  /\ Starts(t, {"post_edit_cas"})
  /\ IF /\ r # None /\ ~w.abort
        /\ OccAllowed(r, w.agent) /\ CasOutcome(r, w.agent, expected) = "win"
       THEN /\ rec' = [rec EXCEPT ![w.path] = CasWin(@, w.agent)]
            /\ row' = [row EXCEPT ![w.path] = @ \cup {w.agent}]
            /\ Committed(w.path, w.agent)
       ELSE UNCHANGED <<rec, row, missed>>
  /\ Finish(t)
  /\ Quiet /\ UNCHANGED <<notices, pending, owed>>

-----------------------------------------------------------------------------
(* /hooks/session-stop and /hooks/session-start.                           *)

StopHeld(t) ==
  LET w == work[t] IN
  /\ Starts(t, {"session_stop"})
  /\ work' = [work EXCEPT ![t].todo = {p \in Registered : w.agent \in Owners(rec[p])},
                          ![t].pc = "release"]
  /\ Quiet /\ UNCHANGED <<rec, row, notices, pending, missed, owed>>

StopRelease(t) ==
  LET w == work[t] IN
  /\ Running(t, "release")
  /\ IF w.todo = {}
       THEN Goto(t, "notices") /\ UNCHANGED rec
       ELSE IF w.abort THEN Finish(t) /\ UNCHANGED rec
       ELSE \E p \in w.todo :
              /\ rec' = [rec EXCEPT ![p] = InvalidateRecord(@, w.agent, 0)]
              /\ work' = [work EXCEPT ![t].todo = @ \ {p}]
  /\ Quiet /\ UNCHANGED <<row, notices, pending, missed, owed>>

\* The overview of a session that knows anything also arms the re-grounding.
HasContext(s) == \E a \in Agents, p \in Paths : Parent[a] = s /\ a \in row[p]

StartContext(t) ==
  LET w == work[t] IN
  /\ Starts(t, {"session_start"})
  /\ IF ~w.abort /\ HasContext(Parent[w.agent]) THEN Goto(t, "arm") ELSE Finish(t)
  /\ Quiet /\ UNCHANGED <<rec, row, notices, pending, missed, owed>>

StartArm(t) ==
  LET s == Parent[work[t].agent] IN
  /\ Running(t, "arm")
  /\ pending' = pending \cup {s}
  /\ owed' = [owed EXCEPT ![s] = IF s \in pending THEN @ ELSE @ + 1]
  /\ Finish(t)
  /\ Quiet /\ UNCHANGED <<rec, row, notices, missed>>

-----------------------------------------------------------------------------
(* /hooks/pre-bash and /hooks/pre-grep: a pre-read of every path of the     *)
(* command, or of every registered path below the searched directory.      *)

\* The next path of a command; one the registry does not know is registered.
BashNext(t) ==
  /\ Starts(t, {"pre_bash"}) \/ Running(t, "scan")
  /\ work[t].kind = "pre_bash"
  /\ \E p \in work[t].todo :
       /\ resolve_or_register(p)
       /\ work' = [work EXCEPT ![t].path = p,
                               ![t].pc = IF rec[p] = None THEN "first" ELSE "state"]
  /\ Quiet /\ UNCHANGED <<row, notices, pending, missed, owed>>

\* The paths of a search come from the registry.
GrepNext(t) ==
  /\ Starts(t, {"pre_grep"}) \/ Running(t, "scan")
  /\ work[t].kind = "pre_grep"
  /\ \E p \in work[t].todo :
       work' = [work EXCEPT ![t].path = p, ![t].pc = "state"]
  /\ Quiet /\ UNCHANGED <<rec, row, notices, pending, missed, owed>>

ScanEnd(t) ==
  /\ Running(t, "scan") /\ work[t].todo = {}
  /\ IF work[t].status = "deny" THEN Finish(t) ELSE Goto(t, "notices")
  /\ Quiet /\ UNCHANGED <<rec, row, notices, pending, missed, owed>>

ScanState(t) ==
  LET w == work[t] IN
  /\ Running(t, "state") /\ w.kind \in Scans
  /\ work' = [work EXCEPT ![t] =
       IF Valid(w.path, w.agent)
         THEN [w EXCEPT !.todo = @ \ {w.path}, !.pc = "scan"]
         ELSE [w EXCEPT !.status = IF w.path \in strict \/ @ = "deny" THEN "deny" ELSE "stale",
                        !.pc = "heal"]]
  /\ Quiet /\ UNCHANGED <<rec, row, notices, pending, missed, owed>>

\* The first observation and the re-grant of a stale path.
ScanGrant(t) ==
  LET w == work[t] IN
  /\ Running(t, "first") \/ Running(t, "heal")
  /\ w.kind \in Scans
  /\ GrantShared(w.path, w.agent)
  /\ Told(w.path, w.agent)
  /\ work' = [work EXCEPT ![t].todo = @ \ {w.path}, ![t].pc = "scan"]
  /\ Quiet /\ UNCHANGED <<notices, pending, owed>>

-----------------------------------------------------------------------------
(* The end of every handler's work: preemption notices are surfaced, then   *)
(* a pending re-grounding is attached to the answer.                       *)

Surface(t) ==
  LET w == work[t] IN
  /\ Running(t, "notices")
  /\ pop_pending_notices(w.agent)
  /\ IF w.kind = "session_stop" THEN Finish(t) ELSE Goto(t, "claim")
  /\ Quiet /\ UNCHANGED <<rec, row, pending, missed, owed>>

UntrackedPath(t) ==
  /\ Starts(t, {"untracked"})
  /\ Goto(t, "claim")
  /\ Quiet /\ UNCHANGED <<rec, row, notices, pending, missed, owed>>

\* _claim_reground_context: test and clear in one hold, parents only.
Claim(t) ==
  LET w == work[t] IN
  /\ Running(t, "claim")
  /\ IF ~w.abort /\ w.agent \in pending
       THEN pending' = pending \ {w.agent} /\ Goto(t, "rebuild")
       ELSE UNCHANGED pending /\ Finish(t)
  /\ Quiet /\ UNCHANGED <<rec, row, notices, missed, owed>>

\* The text is rebuilt and attached, or lost when the request was abandoned.
Rebuild(t) ==
  /\ Running(t, "rebuild")
  /\ owed' = [owed EXCEPT ![work[t].agent] = @ - 1]
  /\ Finish(t)
  /\ Quiet /\ UNCHANGED <<rec, row, notices, pending, missed>>

-----------------------------------------------------------------------------
(* The sweeps of the coordinator's lifecycle.  Nothing in the server tells  *)
(* them how late a grant is, so any grant may be found overdue.            *)

\* A reclaimed owner finds a notice from the sweeper.
Reclaim(a, p) ==
  /\ phase = "serving" /\ rec[p] # None
  /\ a \in Owners(rec[p]) /\ rec[p].transient[a] = None
  /\ rec' = [rec EXCEPT ![p] = ReclaimRecord(@, a, "reclaim_heartbeat", 0)]
  /\ notices' = [notices EXCEPT ![<<a, p>>] = Sweeper]
  /\ Quiet /\ UNCHANGED <<row, pending, work, missed, owed>>

TransientTimeout(a, p) ==
  /\ phase = "serving" /\ rec[p] # None /\ rec[p].transient[a] # None
  /\ rec' = [rec EXCEPT ![p] = TimeoutRecord(@, a, 0)]
  /\ Quiet /\ UNCHANGED <<row, notices, pending, work, missed, owed>>

\* A notice nobody came for is dropped after its retention time.
EvictNotice(a, p) ==
  /\ phase = "serving" /\ notices[<<a, p>>] # None
  /\ notices' = [notices EXCEPT ![<<a, p>>] = None]
  /\ Quiet /\ UNCHANGED <<rec, row, pending, work, missed, owed>>

-----------------------------------------------------------------------------
(* /admin/prepare-for-migration and shutdown.                              *)

PrepareForMigration ==
  /\ acquire_handler_slot /\ drain = "no"
  /\ drain' = "waiting" /\ admin' = TRUE
  /\ UNCHANGED <<strict, rec, row, notices, pending, work, phase, requests, missed, owed, left>>

AdminReturns ==
  /\ admin
  /\ admin' = FALSE
  /\ UNCHANGED <<strict, rec, row, notices, pending, work, phase, drain, requests, missed, owed, left>>

DrainDone ==
  /\ drain = "waiting"
  /\ InFlight <= 1 \/ DrainMayTimeOut
  /\ drain' = "revoking" /\ left' = Registered
  /\ UNCHANGED <<strict, rec, row, notices, pending, work, phase, admin, requests, missed, owed>>

\* One artifact of the pass that releases every grant.
DrainRevoke(p) ==
  /\ drain = "revoking" /\ p \in left
  /\ left' = left \ {p}
  /\ rec' = [rec EXCEPT ![p] = IF Owners(@) = {} THEN @
               ELSE InvalidateRecord(@, CHOOSE a \in Owners(@) : TRUE, 0)]
  /\ UNCHANGED <<strict, row, notices, pending, work, phase, drain, admin, requests, missed, owed>>

\* Mutant: the drain ends without calling shutdown.
DrainStops_NoShutdown ==
  /\ drain = "revoking" /\ left = {}
  /\ drain' = "stopping"
  /\ UNCHANGED <<strict, rec, row, notices, pending, work, phase, admin, requests, missed, owed, left>>

DrainStops ==
  /\ drain = "revoking" /\ left = {}
  /\ drain' = "stopping"
  /\ phase' = IF phase = "serving" THEN "closing" ELSE phase
  /\ UNCHANGED <<strict, rec, row, notices, pending, work, admin, requests, missed, owed, left>>

\* shutdown, by the drain or by the process: from here no slot is given out.
Shutdown ==
  /\ phase = "serving"
  /\ phase' = "closing"
  /\ UNCHANGED <<strict, rec, row, notices, pending, work, drain, admin, requests, missed, owed, left>>

\* The watchdog pool is shut down with wait=True, then the registry closes.
Close ==
  /\ phase = "closing" /\ \A t \in Threads : work[t] = None
  /\ phase' = "closed"
  /\ UNCHANGED <<strict, rec, row, notices, pending, work, drain, admin, requests, missed, owed, left>>

\* The server is gone.
Stopped == phase = "closed" /\ UNCHANGED vars

-----------------------------------------------------------------------------
HandlerStep(t) ==
  \/ ReadLookup(t) \/ ReadFirst(t) \/ ReadDenied(t) \/ ReadFresh(t) \/ ReadStale(t)
  \/ ReadHeal(t)
  \/ EditLookup(t) \/ EditStrict(t) \/ EditPeers(t) \/ EditWrite(t) \/ EditRecord(t)
  \/ PostCommit(t) \/ PostWhy(t) \/ PostFail(t)
  \/ \E expected \in 1 .. MaxRequests : PostCas(t, expected)
  \/ StopHeld(t) \/ StopRelease(t) \/ StartContext(t) \/ StartArm(t)
  \/ BashNext(t) \/ GrepNext(t) \/ ScanEnd(t) \/ ScanState(t) \/ ScanGrant(t)
  \/ Surface(t) \/ UntrackedPath(t) \/ Claim(t) \/ Rebuild(t)

\* What a hook may send: a path-less kind names a path nobody looks at.
Arrives(t) ==
  \E a \in Agents, p \in Paths :
    \/ \E k \in Kinds \ (Scans \cup Reads) : Dispatch(t, k, a, p, {}, FALSE)
    \/ \E k \in Reads, differs \in BOOLEAN : Dispatch(t, k, a, p, {}, differs)
    \/ \E F \in SUBSET Paths \ {{}} : Dispatch(t, "pre_bash", a, p, F, FALSE)
    \/ \E F \in SUBSET Registered \ {{}} : Dispatch(t, "pre_grep", a, p, F, FALSE)

Sweeps ==
  \E a \in Agents, p \in Paths : Reclaim(a, p) \/ TransientTimeout(a, p) \/ EvictNotice(a, p)

Migration ==
  \/ PrepareForMigration \/ AdminReturns \/ DrainDone \/ DrainStops
  \/ \E p \in Paths : DrainRevoke(p)

Next ==
  \/ \E t \in Threads : Arrives(t) \/ Timeout(t) \/ HandlerStep(t)
  \/ Sweeps \/ Migration \/ Shutdown \/ Close \/ Stopped

Spec == Init /\ [][Next]_vars

\* A worker runs until its work is done, the drain thread until it has called
\* shutdown, and shutdown until the registry is closed.  Nobody need send a
\* request, and no sweep or timeout need happen.
Fairness ==
  /\ \A t \in Threads : WF_vars(HandlerStep(t))
  /\ WF_vars(Migration) /\ WF_vars(Close)

FairSpec == Spec /\ Fairness

-----------------------------------------------------------------------------
(* Properties.                                                             *)

\* At most one agent owns a path, whatever the handlers, the sweeps and the
\* migration do between one another's transactions.
SingleWriter == \A p \in Registered : Cardinality(Owners(rec[p])) <= 1

\* pre-read never answers "fresh" to an agent that a peer's commit has
\* overtaken and that no answer has told so: the state it looks up is INVALID
\* until an answer that reports the staleness has re-granted it.
FreshIsHonest ==
  [][\A t \in Threads :
       /\ Running(t, "state") /\ work[t].kind \in Reads
       /\ work'[t] # None /\ work'[t].status = "fresh"
       => <<work[t].agent, work[t].path>> \notin missed]_vars

\* Work that goes on after its degraded answer (run_with_watchdog) commits
\* nothing, acquires nothing and takes no copy from another agent.
AbandonedIsInert ==
  [][\A t \in Threads :
       work[t] # None /\ work[t].abort /\ work'[t] # work[t]
       => \A p \in Registered :
            /\ rec'[p].version = rec[p].version
            /\ Owners(rec'[p]) \subseteq Owners(rec[p])
            /\ valid_holders(rec[p]) \ {work[t].agent} \subseteq valid_holders(rec'[p])]_vars

\* A client may act on an answer: "fresh" is not said of an overtaken copy, and
\* nothing lands after "degraded" (the pre- and post-hooks under the watchdog).
AnswersAreHonest == FreshIsHonest /\ AbandonedIsInert

\* The requests that have claimed the re-grounding of a session.
Rebuilders(s) == {t \in Threads : Running(t, "rebuild") /\ work[t].agent = s}

\* A compaction is answered by at most one re-grounding, however many hooks
\* of the session race for it (_claim_reground_context).
RegroundOnce ==
  \A s \in Sessions : owed[s] = Cardinality(Rebuilders(s)) + IF s \in pending THEN 1 ELSE 0

\* The registry is closed only when no work, abandoned work included, can
\* still touch it (shutdown waits for the watchdog pool).
ClosedIsQuiet == phase = "closed" => \A t \in Threads : work[t] = None

\* Whatever threads do between one another's transactions, a path has one writer,
\* a compaction one re-grounding, and a closed registry no user.
ServerIsSound == TypeOK /\ SingleWriter /\ RegroundOnce /\ ClosedIsQuiet

\* A shutdown, and a migration drain, ends with the registry closed.
ShutdownCompletes == phase = "closing" \/ drain # "no" ~> phase = "closed"

\* What the comment at pre-read's abort token says of work that outlives its
\* answer: the SHARED grant it still makes is harmless, that is, it takes no
\* ownership away.
LateReadIsHarmless ==
  [][\A t \in Threads :
       work[t] # None /\ work[t].abort /\ work[t].kind \in Reads /\ work'[t] # work[t]
       => \A p \in Registered : Owners(rec[p]) \subseteq Owners(rec'[p])]_vars

\* What prepare-for-migration promises: the backend that takes over inherits
\* no grant.
NoInheritedGrant ==
  phase = "closed" /\ drain = "stopping" => \A p \in Registered : Owners(rec[p]) = {}
-----------------------------------------------------------------------------
(* The inductive invariant behind the safety properties.                   *)

\* No two agents own a record.
OneOwner(r) ==
  \A a, b \in Agents : r.state[a] \in M_OR_E_STATES /\ r.state[b] \in M_OR_E_STATES => a = b

\* A path has one writer, and an agent that a commit has overtaken and nobody
\* has told so has an INVALID entry.
RecordsAreSound ==
  /\ \A p \in Registered : OneOwner(rec[p])
  /\ \A a \in Agents, p \in Paths :
       <<a, p>> \in missed => rec[p] # None /\ rec[p].state[a] = "INVALID"

\* The work of a request, when the paths in R are registered: it looks at a
\* path only once it is, has found nothing before it has looked, and rebuilds
\* the re-grounding of a session only.
WorkIsSound(w, R) ==
  /\ w.pc \in {"state", "first", "heal", "strict", "peers", "write"} => w.path \in R
  /\ w.kind = "pre_grep" \/ w.pc = "release" => w.todo \subseteq R
  /\ w.pc = "begin" \/ (w.pc = "state" /\ w.kind \in Reads) => w.status = "none"
  /\ w.pc = "rebuild" => w.agent \in Sessions

HookInv ==
  /\ TypeOK /\ RecordsAreSound
  /\ \A t \in Threads : work[t] # None => WorkIsSound(work[t], Registered)
  /\ left \subseteq Registered
  /\ RegroundOnce /\ ClosedIsQuiet
=============================================================================
