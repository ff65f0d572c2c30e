-------------------------- MODULE HookServerProofs --------------------------
(***************************************************************************)
(* The hook server: one writer per path, one re-grounding per compaction,  *)
(* nothing in a closed registry, and answers a client may act on, for      *)
(* every value of the constants.                                           *)
(***************************************************************************)
EXTENDS HookServer, RecordProofs, FiniteSetTheorems

-----------------------------------------------------------------------------
(* What a step does to the registry's records.                             *)

\* A step keeps the types and the soundness of the records, and forgets no path.
RecordsMove ==
  /\ rec' \in [Paths -> ArtifactRecord \cup {None}]
  /\ row' \in [Paths -> SUBSET Agents]
  /\ missed' \in SUBSET (Agents \X Paths)
  /\ RecordsAreSound'
  /\ Registered \subseteq Registered'

\* The shared argument of every transaction that rewrites one record.
LEMMA RecordRewrite ==
  ASSUME HookInv, NEW p \in Paths, NEW q \in ArtifactRecord, OneOwner(q),
         rec' = [rec EXCEPT ![p] = q],
         row' \in [Paths -> SUBSET Agents],
         missed' \in SUBSET (Agents \X Paths),
         \A a \in Agents : <<a, p>> \in missed' => q.state[a] = "INVALID",
         \A a \in Agents, f \in Paths : f # p /\ <<a, f>> \in missed' => <<a, f>> \in missed
  PROVE  RecordsMove /\ p \in Registered'
<1>1. rec \in [Paths -> ArtifactRecord \cup {None}] /\ RecordsAreSound
  BY DEF HookInv, TypeOK
<1>2. rec'[p] = q /\ \A f \in Paths \ {p} : rec'[f] = rec[f]
  BY <1>1
<1>3. q # None
  BY NoneIsNoRecord
<1>4. rec' \in [Paths -> ArtifactRecord \cup {None}]
  BY <1>1
<1>5. p \in Registered' /\ Registered \subseteq Registered'
  BY <1>2, <1>3 DEF Registered
<1>6. \A f \in Registered' : OneOwner(rec'[f])
  BY <1>1, <1>2 DEF Registered, RecordsAreSound
<1>7. ASSUME NEW a \in Agents, NEW f \in Paths, <<a, f>> \in missed'
      PROVE  rec'[f] # None /\ rec'[f].state[a] = "INVALID"
  <2>1. CASE f = p
    BY <1>2, <1>3, <1>7, <2>1
  <2>2. CASE f # p
    BY <1>1, <1>2, <1>7, <2>2 DEF RecordsAreSound
  <2> QED
    BY <2>1, <2>2
<1>8. RecordsAreSound'
  BY <1>6, <1>7 DEF RecordsAreSound, OneOwner
<1> QED
  BY <1>4, <1>5, <1>8 DEF RecordsMove

\* A transaction that rewrites no record keeps them.
LEMMA RecordsStay ==
  ASSUME HookInv, UNCHANGED <<rec, row, missed>>
  PROVE  RecordsMove
  BY DEF HookInv, TypeOK, RecordsMove, RecordsAreSound, Registered, OneOwner

\* resolve_or_register inserts a record nobody has a copy of, or does nothing.
LEMMA RegisterMoves ==
  ASSUME HookInv, NEW p \in Paths, resolve_or_register(p), UNCHANGED <<row, missed>>
  PROVE  /\ RecordsMove /\ p \in Registered'
         /\ \A f \in Registered : rec'[f] = rec[f]
<1>1. /\ rec \in [Paths -> ArtifactRecord \cup {None}] /\ RecordsAreSound
      /\ row' \in [Paths -> SUBSET Agents] /\ missed' \in SUBSET (Agents \X Paths)
  BY DEF HookInv, TypeOK
<1>2. CASE rec[p] = None
  <2>1. /\ register_artifact \in ArtifactRecord
        /\ \A a \in Agents : register_artifact.state[a] = "INVALID"
    BY RegisterEstablishes DEF RecordInv
  <2>2. OneOwner(register_artifact)
    BY <2>1 DEF OneOwner, M_OR_E_STATES
  <2>3. rec' = [rec EXCEPT ![p] = register_artifact]
    BY <1>2 DEF resolve_or_register
  <2>4. RecordsMove /\ p \in Registered'
    BY ZenonT(60), <1>1, <2>1, <2>2, <2>3, RecordRewrite
  <2> QED
    BY SMTT(60), <1>1, <1>2, <2>3, <2>4 DEF Registered
<1>3. CASE rec[p] # None
  <2>1. rec' = rec
    BY <1>1, <1>3 DEF resolve_or_register
  <2> QED
    BY <1>3, <2>1, RecordsStay DEF Registered
<1> QED
  BY <1>2, <1>3

\* Ending or granting one copy, other than ownership, leaves the owners alone.
LEMMA EntryMoves ==
  ASSUME HookInv, NEW p \in Registered, NEW a \in Agents, NEW s \in {"SHARED", "INVALID"},
         NEW q, Becomes(rec[p], q, a, s),
         rec' = [rec EXCEPT ![p] = q],
         row' \in [Paths -> SUBSET Agents],
         missed' \in SUBSET missed,
         s = "INVALID" \/ <<a, p>> \notin missed'
  PROVE  RecordsMove
<1>1. /\ p \in Paths /\ rec[p] # None /\ OneOwner(rec[p]) /\ missed \in SUBSET (Agents \X Paths)
      /\ \A b \in Agents : <<b, p>> \in missed => rec[p].state[b] = "INVALID"
  BY DEF HookInv, TypeOK, RecordsAreSound, Registered
<1>2. /\ q \in ArtifactRecord /\ q.state[a] = s
      /\ \A b \in Agents \ {a} : q.state[b] = rec[p].state[b]
  BY DEF Becomes
<1>3. OneOwner(q)
  BY <1>1, <1>2 DEF OneOwner, M_OR_E_STATES
<1>4. \A b \in Agents : <<b, p>> \in missed' => q.state[b] = "INVALID"
  BY <1>1, <1>2
<1>5. missed' \in SUBSET (Agents \X Paths)
  BY <1>1
<1>6. \A b \in Agents, f \in Paths : f # p /\ <<b, f>> \in missed' => <<b, f>> \in missed
  OBVIOUS
<1> QED
  BY ZenonT(60), <1>1, <1>2, <1>3, <1>4, <1>5, <1>6, RecordRewrite

\* When one agent takes the record over, whoever is not told of it has lost its
\* copy.
LEMMA TakeoverMoves ==
  ASSUME HookInv, NEW p \in Registered, NEW a \in Agents, NEW s,
         NEW q, TakenOver(q, a, s),
         rec' = [rec EXCEPT ![p] = q],
         row' \in [Paths -> SUBSET Agents],
         Committed(p, a) \/ Told(p, a)
  PROVE  RecordsMove
<1>1. /\ p \in Paths /\ row[p] \in SUBSET Agents /\ missed \in SUBSET (Agents \X Paths)
  BY DEF HookInv, TypeOK, Registered
<1>2. /\ q \in ArtifactRecord
      /\ \A b \in Agents \ {a} : q.state[b] = "INVALID"
  BY DEF TakenOver
<1>3. OneOwner(q)
  BY <1>2 DEF OneOwner, M_OR_E_STATES
<1>4. missed' \in SUBSET (Agents \X Paths) /\ <<a, p>> \notin missed'
  BY <1>1 DEF Committed, Told
<1>5. \A b \in Agents : <<b, p>> \in missed' => q.state[b] = "INVALID"
  BY <1>2, <1>4
<1>6. \A b \in Agents, f \in Paths : f # p /\ <<b, f>> \in missed' => <<b, f>> \in missed
  BY DEF Committed, Told
<1> QED
  BY ZenonT(60), <1>1, <1>2, <1>3, <1>4, <1>5, <1>6, RecordRewrite

\* A handler's SHARED grant, of which its answer tells the agent, rewrites one
\* entry.
LEMMA GrantMoves ==
  ASSUME HookInv, NEW p \in Registered, NEW a \in Agents, GrantShared(p, a), Told(p, a)
  PROVE  /\ RecordsMove
         /\ \A f \in Registered : \/ rec'[f] = rec[f]
                                 \/ Becomes(rec[f], rec'[f], a, "SHARED")
<1>1. /\ p \in Paths /\ rec \in [Paths -> ArtifactRecord \cup {None}] /\ rec[p] \in ArtifactRecord
      /\ row \in [Paths -> SUBSET Agents]
  BY DEF HookInv, TypeOK, Registered
<1>2. PICK q : q = set_agent_state(rec[p], a, "SHARED", "hook", 0)
  BY ZenonT(60)
<1>3. Becomes(rec[p], q, a, "SHARED")
  <2>1. "SHARED" \in MESIState /\ 0 \in Nat
    BY DEF MESIState
  <2> QED
    BY ZenonT(60), <1>1, <1>2, <2>1, SetAgentStateBecomes
<1>4. rec' = [rec EXCEPT ![p] = q] /\ row' = [row EXCEPT ![p] = row[p] \cup {a}]
  BY <1>1, <1>2 DEF GrantShared
<1>5. row' \in [Paths -> SUBSET Agents]
  BY <1>1, <1>4
<1>6. missed' \in SUBSET missed /\ <<a, p>> \notin missed'
  BY DEF Told
<1>7. RecordsMove
  BY ZenonT(60), <1>3, <1>4, <1>5, <1>6, EntryMoves
<1>8. \A f \in Registered : rec'[f] = rec[f] \/ Becomes(rec[f], rec'[f], a, "SHARED")
  BY ZenonT(60), <1>1, <1>3, <1>4 DEF Registered
<1> QED
  BY <1>7, <1>8

\* A revocation of one copy, with or without a new row, rewrites one entry.
LEMMA RevokeMoves ==
  ASSUME HookInv, NEW p \in Registered, NEW a \in Agents, NEW q,
         q \in {InvalidateRecord(rec[p], a, 0), TimeoutRecord(rec[p], a, 0),
                ReclaimRecord(rec[p], a, "reclaim_heartbeat", 0)},
         rec' = [rec EXCEPT ![p] = q],
         row' = row \/ row' = [row EXCEPT ![p] = @ \cup {a}],
         missed' = missed
  PROVE  RecordsMove
<1>1. /\ p \in Paths /\ rec[p] \in ArtifactRecord /\ row \in [Paths -> SUBSET Agents]
      /\ 0 \in Nat /\ "reclaim_heartbeat" \in ReclamationSlot
  BY DEF HookInv, TypeOK, Registered, ReclamationSlot
<1>2. Becomes(rec[p], q, a, "INVALID")
  BY <1>1, RevocationsBecome
<1>3. row' \in [Paths -> SUBSET Agents]
  BY <1>1
<1>4. missed' \in SUBSET missed
  OBVIOUS
<1> QED
  BY ZenonT(60), <1>2, <1>3, <1>4, EntryMoves

-----------------------------------------------------------------------------
(* What a step does to the work of the pool.                               *)

\* The points of a request's work.
PCs == {"begin", "state", "first", "heal", "strict", "peers", "write", "record",
        "why", "release", "scan", "notices", "claim", "rebuild", "arm"}

\* A step of one thread that neither claims nor ends a re-grounding.
LEMMA RebuildersStay ==
  ASSUME HookInv, NEW t \in Threads, NEW c \in Request \cup {None},
         work' = [work EXCEPT ![t] = c],
         ~Running(t, "rebuild"), c # None => c.pc # "rebuild"
  PROVE  \A s \in Sessions : Rebuilders(s)' = Rebuilders(s)
<1>1. work \in [Threads -> Request \cup {None}]
  BY DEF HookInv, TypeOK
<1>2. work'[t] = c /\ \A u \in Threads \ {t} : work'[u] = work[u]
  BY <1>1
<1>3. \A u \in Threads : Running(u, "rebuild")' <=> Running(u, "rebuild")
  BY <1>2 DEF Running
<1>4. \A u \in Threads : Running(u, "rebuild") => work'[u].agent = work[u].agent
  BY <1>2 DEF Running
<1> QED
  BY <1>3, <1>4 DEF Rebuilders

\* It leaves what is owed as it was.
LEMMA RegroundFrame ==
  ASSUME HookInv, NEW t \in Threads, NEW c \in Request \cup {None},
         work' = [work EXCEPT ![t] = c], UNCHANGED <<pending, owed>>,
         ~Running(t, "rebuild"), c # None => c.pc # "rebuild"
  PROVE  RegroundOnce'
<1>1. RegroundOnce
  BY DEF HookInv
<1>2. \A s \in Sessions : Rebuilders(s)' = Rebuilders(s)
  BY ZenonT(60), RebuildersStay
<1> QED
  BY <1>1, <1>2 DEF RegroundOnce

\* The shared argument of every step of a handler's work.
LEMMA WorkStep ==
  ASSUME HookInv, NEW t \in Threads, work[t] # None, NEW c \in Request \cup {None},
         work' = [work EXCEPT ![t] = c], c # None => WorkIsSound(c, Registered'),
         RecordsMove, Quiet, notices' \in [Agents \X Paths -> Notice],
         pending' \in SUBSET Sessions, owed' \in [Sessions -> Int], RegroundOnce'
  PROVE  HookInv'
<1>1. /\ TypeOK /\ left \subseteq Registered /\ ClosedIsQuiet
      /\ \A u \in Threads : work[u] # None => WorkIsSound(work[u], Registered)
  BY DEF HookInv
<1>2. /\ work' \in [Threads -> Request \cup {None}]
      /\ work'[t] = c /\ \A u \in Threads \ {t} : work'[u] = work[u]
  BY <1>1 DEF TypeOK
<1>3. TypeOK'
  BY <1>1, <1>2 DEF TypeOK, RecordsMove, Quiet
<1>4. RecordsAreSound' /\ Registered \subseteq Registered'
  BY DEF RecordsMove
<1>5. \A u \in Threads : work'[u] # None => WorkIsSound(work'[u], Registered')
  <2> SUFFICES ASSUME NEW u \in Threads \ {t}, work'[u] # None
               PROVE  WorkIsSound(work'[u], Registered')
    BY <1>2
  <2>1. work'[u] = work[u] /\ WorkIsSound(work[u], Registered)
    BY <1>1, <1>2
  <2> QED
    BY <1>4, <2>1 DEF WorkIsSound
<1>6. left' \subseteq Registered'
  BY <1>1, <1>4 DEF Quiet
<1>7. ClosedIsQuiet'
  BY <1>1 DEF ClosedIsQuiet, Quiet
<1> QED
  BY SMTT(60), <1>3, <1>4, <1>5, <1>6, <1>7 DEF HookInv

\* A step of a handler's work that has nothing to do with the re-grounding.
LEMMA PlainStep ==
  ASSUME HookInv, NEW t \in Threads, work[t] # None, work[t].pc # "rebuild",
         NEW c \in Request \cup {None},
         work' = [work EXCEPT ![t] = c],
         c # None => c.pc # "rebuild" /\ WorkIsSound(c, Registered'),
         RecordsMove, Quiet, notices' \in [Agents \X Paths -> Notice],
         UNCHANGED <<pending, owed>>
  PROVE  HookInv'
<1>1. RegroundOnce'
  BY ZenonT(60), RegroundFrame DEF Running
<1>2. pending' \in SUBSET Sessions /\ owed' \in [Sessions -> Int]
  BY DEF HookInv, TypeOK
<1> QED
  BY ZenonT(60), <1>1, <1>2, WorkStep

\* The end of a handler's work.
LEMMA FinishStep ==
  ASSUME HookInv, NEW t \in Threads, work[t] # None, work[t].pc # "rebuild", Finish(t),
         RecordsMove, Quiet, notices' \in [Agents \X Paths -> Notice],
         UNCHANGED <<pending, owed>>
  PROVE  HookInv'
<1>1. PICK c : c = None
  BY ZenonT(60)
<1>2. c \in Request \cup {None} /\ work' = [work EXCEPT ![t] = c]
  BY ZenonT(60), <1>1 DEF Finish
<1> QED
  BY ZenonT(60), <1>1, <1>2, PlainStep

\* A step that only moves the point of a handler's work.
LEMMA GotoStep ==
  ASSUME HookInv, NEW t \in Threads, work[t] # None, work[t].pc # "rebuild",
         NEW pc \in PCs \ {"begin", "release", "rebuild"}, Goto(t, pc),
         pc \in {"state", "first", "heal", "strict", "peers", "write"} =>
           work[t].path \in Registered',
         pc = "state" /\ work[t].kind \in Reads => work[t].status = "none",
         RecordsMove, Quiet, notices' \in [Agents \X Paths -> Notice],
         UNCHANGED <<pending, owed>>
  PROVE  HookInv'
<1>1. work[t] \in Request /\ WorkIsSound(work[t], Registered) /\ Registered \subseteq Registered'
  BY DEF HookInv, TypeOK, RecordsMove
<1>2. PICK c : c = [work[t] EXCEPT !.pc = pc]
  BY ZenonT(60)
<1>3. /\ c \in Request /\ c.pc = pc /\ c.path = work[t].path /\ c.todo = work[t].todo
      /\ c.status = work[t].status /\ c.kind = work[t].kind /\ c.agent = work[t].agent
  BY <1>1, <1>2 DEF Request, PCs
<1>4. work' = [work EXCEPT ![t] = c]
  BY ZenonT(60), <1>2 DEF Goto
<1>5. WorkIsSound(c, Registered') /\ c.pc # "rebuild" /\ c \in Request \cup {None}
  BY <1>1, <1>3 DEF WorkIsSound
<1> QED
  BY ZenonT(60), <1>4, <1>5, PlainStep

\* A step that sets the status of an answer and moves on.
LEMMA AnswerStep ==
  ASSUME HookInv, NEW t \in Threads, work[t] # None, work[t].pc # "rebuild",
         NEW s \in {"none", "fresh", "stale", "deny", "ok"},
         NEW pc \in {"claim", "notices", "heal"},
         work' = [work EXCEPT ![t].status = s, ![t].pc = pc],
         pc = "heal" => work[t].path \in Registered,
         RecordsMove, Quiet, notices' \in [Agents \X Paths -> Notice],
         UNCHANGED <<pending, owed>>
  PROVE  HookInv'
<1>1. work[t] \in Request /\ WorkIsSound(work[t], Registered) /\ Registered \subseteq Registered'
  BY DEF HookInv, TypeOK, RecordsMove
<1>2. PICK c : c = [work[t] EXCEPT !.status = s, !.pc = pc]
  BY ZenonT(60)
<1>3. c \in Request
  BY ZenonT(60), <1>1, <1>2 DEF Request
<1>4. /\ c.pc = pc /\ c.path = work[t].path /\ c.todo = work[t].todo
      /\ c.kind = work[t].kind
  BY <1>1, <1>2 DEF Request
<1>5. work' = [work EXCEPT ![t] = c]
  BY ZenonT(60), <1>2
<1>6. WorkIsSound(c, Registered') /\ c.pc # "rebuild" /\ c \in Request \cup {None}
  BY SMTT(60), <1>1, <1>3, <1>4 DEF WorkIsSound
<1> QED
  BY ZenonT(60), <1>5, <1>6, PlainStep

-----------------------------------------------------------------------------
(* The steps of pre-read and verify.                                       *)

\* What a handler finds when it steps: its request, and notices that an answer
\* may leave alone.
LEMMA AtWork ==
  ASSUME HookInv, NEW t \in Threads, work[t] # None
  PROVE  /\ work[t] \in Request /\ WorkIsSound(work[t], Registered)
         /\ work[t].path \in Paths /\ work[t].agent \in Agents /\ work[t].todo \subseteq Paths
         /\ notices \in [Agents \X Paths -> Notice]
  BY DEF HookInv, TypeOK, Request

\* The lookup of a read registers the path.
LEMMA ReadLookupStep ==
  ASSUME HookInv, NEW t \in Threads, ReadLookup(t)
  PROVE  HookInv'
<1>1. work[t] # None /\ work[t].pc = "begin"
  BY DEF ReadLookup, Starts, Running
<1>2. /\ WorkIsSound(work[t], Registered) /\ work[t].path \in Paths
      /\ notices' \in [Agents \X Paths -> Notice]
  BY ZenonT(60), <1>1, AtWork DEF ReadLookup
<1>3. work[t].status = "none"
  BY <1>1, <1>2 DEF WorkIsSound
<1>4. RecordsMove /\ work[t].path \in Registered'
  BY <1>2, RegisterMoves DEF ReadLookup
<1>5. PICK pc \in {"first", "state"} : Goto(t, pc)
  BY DEF ReadLookup
<1>6. pc \in PCs \ {"begin", "release", "rebuild"} /\ Quiet /\ UNCHANGED <<pending, owed>>
  BY <1>5 DEF PCs, ReadLookup
<1> QED
  BY ZenonT(60), <1>1, <1>2, <1>3, <1>4, <1>5, <1>6, GotoStep

\* The first observation grants SHARED and answers "fresh".
LEMMA ReadFirstStep ==
  ASSUME HookInv, NEW t \in Threads, ReadFirst(t)
  PROVE  HookInv'
<1>1. work[t] # None /\ work[t].pc = "first"
  BY DEF ReadFirst, Running
<1>2. /\ work[t] \in Request /\ WorkIsSound(work[t], Registered) /\ work[t].agent \in Agents
      /\ notices' \in [Agents \X Paths -> Notice]
  BY ZenonT(60), <1>1, AtWork DEF ReadFirst
<1>3. work[t].path \in Registered
  BY <1>1, <1>2 DEF WorkIsSound
<1>4. RecordsMove
  BY <1>2, <1>3, GrantMoves DEF ReadFirst
<1>5. PICK pc \in {"claim", "notices"} :
        work' = [work EXCEPT ![t].status = "fresh", ![t].pc = pc]
  BY ZenonT(60) DEF ReadFirst
<1>6. /\ Quiet /\ UNCHANGED <<pending, owed>>
  BY DEF ReadFirst
<1> QED
  BY ZenonT(60), <1>1, <1>2, <1>4, <1>5, <1>6, AnswerStep

\* A read that is denied ends.
LEMMA ReadDeniedStep ==
  ASSUME HookInv, NEW t \in Threads, ReadDenied(t)
  PROVE  HookInv'
<1>1. /\ work[t] # None /\ work[t].pc # "rebuild" /\ Finish(t) /\ Quiet
      /\ UNCHANGED <<rec, row, missed>> /\ UNCHANGED <<pending, owed>> /\ notices' = notices
  BY ZenonT(60) DEF ReadDenied, Running
<1>2. notices' \in [Agents \X Paths -> Notice] /\ RecordsMove
  BY ZenonT(60), <1>1, AtWork, RecordsStay
<1> QED
  BY ZenonT(60), <1>1, <1>2, FinishStep

\* "fresh" is the answer to a valid copy.
LEMMA ReadFreshStep ==
  ASSUME HookInv, NEW t \in Threads, ReadFresh(t)
  PROVE  HookInv'
<1>1. /\ work[t] # None /\ work[t].pc # "rebuild" /\ Quiet
      /\ UNCHANGED <<rec, row, missed>> /\ UNCHANGED <<pending, owed>> /\ notices' = notices
  BY ZenonT(60) DEF ReadFresh, Running
<1>2. notices' \in [Agents \X Paths -> Notice] /\ RecordsMove
  BY ZenonT(60), <1>1, AtWork, RecordsStay
<1>3. PICK pc \in {"claim", "notices"} :
        work' = [work EXCEPT ![t].status = "fresh", ![t].pc = pc]
  BY ZenonT(60) DEF ReadFresh
<1> QED
  BY ZenonT(60), <1>1, <1>2, <1>3, AnswerStep

\* "stale" is the answer to a lost copy of a path that is not strict.
LEMMA ReadStaleStep ==
  ASSUME HookInv, NEW t \in Threads, ReadStale(t)
  PROVE  HookInv'
<1>1. /\ work[t] # None /\ work[t].pc = "state" /\ Quiet
      /\ UNCHANGED <<rec, row, missed>> /\ UNCHANGED <<pending, owed>> /\ notices' = notices
  BY ZenonT(60) DEF ReadStale, Running
<1>2. /\ notices' \in [Agents \X Paths -> Notice] /\ RecordsMove
      /\ WorkIsSound(work[t], Registered)
  BY ZenonT(60), <1>1, AtWork, RecordsStay
<1>3. work[t].path \in Registered /\ work[t].pc # "rebuild"
  BY <1>1, <1>2 DEF WorkIsSound
<1>4. PICK pc \in {"claim", "heal"} :
        work' = [work EXCEPT ![t].status = "stale", ![t].pc = pc]
  BY ZenonT(60) DEF ReadStale
<1> QED
  BY ZenonT(60), <1>1, <1>2, <1>3, <1>4, AnswerStep

\* A stale copy is granted again with the answer that reports it.
LEMMA ReadHealStep ==
  ASSUME HookInv, NEW t \in Threads, ReadHeal(t)
  PROVE  HookInv'
<1>1. /\ work[t] # None /\ work[t].pc = "heal" /\ Quiet /\ Goto(t, "notices")
      /\ UNCHANGED <<pending, owed>> /\ notices' = notices
      /\ GrantShared(work[t].path, work[t].agent) /\ Told(work[t].path, work[t].agent)
  BY ZenonT(60) DEF ReadHeal, Running
<1>2. /\ notices' \in [Agents \X Paths -> Notice] /\ work[t].agent \in Agents
      /\ WorkIsSound(work[t], Registered)
  BY ZenonT(60), <1>1, AtWork
<1>3. work[t].path \in Registered /\ work[t].pc # "rebuild"
  BY <1>1, <1>2 DEF WorkIsSound
<1>4. RecordsMove
  BY ZenonT(60), <1>1, <1>2, <1>3, GrantMoves
<1>5. "notices" \in PCs \ {"begin", "release", "rebuild"}
  BY DEF PCs
<1> QED
  BY ZenonT(60), <1>1, <1>2, <1>3, <1>4, <1>5, GotoStep

-----------------------------------------------------------------------------
(* The steps of pre-edit.                                                  *)

\* The lookup of an edit registers the path.
LEMMA EditLookupStep ==
  ASSUME HookInv, NEW t \in Threads, EditLookup(t)
  PROVE  HookInv'
<1>1. /\ work[t] # None /\ work[t].pc = "begin" /\ Quiet /\ resolve_or_register(work[t].path)
      /\ UNCHANGED <<row, missed>> /\ UNCHANGED <<pending, owed>> /\ notices' = notices
  BY ZenonT(60) DEF EditLookup, Starts, Running
<1>2. notices' \in [Agents \X Paths -> Notice] /\ work[t].path \in Paths /\ work[t].pc # "rebuild"
  BY ZenonT(60), <1>1, AtWork
<1>3. RecordsMove /\ work[t].path \in Registered'
  BY ZenonT(60), <1>1, <1>2, RegisterMoves
<1>4. PICK pc \in {"strict", "peers"} : Goto(t, pc)
  BY ZenonT(60) DEF EditLookup
<1>5. pc \in PCs \ {"begin", "release", "rebuild"} /\ pc # "state"
  BY <1>4 DEF PCs
<1> QED
  BY ZenonT(60), <1>1, <1>2, <1>3, <1>4, <1>5, GotoStep

\* The strict check refuses an INVALID copy or goes on.
LEMMA EditStrictStep ==
  ASSUME HookInv, NEW t \in Threads, EditStrict(t)
  PROVE  HookInv'
<1>1. /\ work[t] # None /\ work[t].pc = "strict" /\ Quiet
      /\ UNCHANGED <<rec, row, missed>> /\ UNCHANGED <<pending, owed>> /\ notices' = notices
      /\ Finish(t) \/ Goto(t, "peers")
  BY ZenonT(60) DEF EditStrict, Running
<1>2. /\ notices' \in [Agents \X Paths -> Notice] /\ RecordsMove
      /\ WorkIsSound(work[t], Registered)
  BY ZenonT(60), <1>1, AtWork, RecordsStay
<1>3. work[t].path \in Registered' /\ work[t].pc # "rebuild"
  BY <1>1, <1>2 DEF WorkIsSound, RecordsMove
<1>4. "peers" \in PCs \ {"begin", "release", "rebuild"} /\ "peers" # "state"
  BY DEF PCs
<1>5. CASE Finish(t)
  BY ZenonT(60), <1>1, <1>2, <1>3, <1>5, FinishStep
<1>6. CASE Goto(t, "peers")
  BY ZenonT(60), <1>1, <1>2, <1>3, <1>4, <1>6, GotoStep
<1> QED
  BY ZenonT(60), <1>1, <1>5, <1>6

\* The snapshot of the owners to be notified.
LEMMA EditPeersStep ==
  ASSUME HookInv, NEW t \in Threads, EditPeers(t)
  PROVE  HookInv'
<1>1. /\ work[t] # None /\ work[t].pc = "peers" /\ Quiet
      /\ UNCHANGED <<rec, row, missed>> /\ UNCHANGED <<pending, owed>> /\ notices' = notices
  BY ZenonT(60) DEF EditPeers, Running
<1>2. /\ notices' \in [Agents \X Paths -> Notice] /\ RecordsMove
      /\ work[t] \in Request /\ WorkIsSound(work[t], Registered)
  BY ZenonT(60), <1>1, AtWork, RecordsStay
<1>3. PICK V \in SUBSET Agents :
        work' = [work EXCEPT ![t].victims = V, ![t].pc = "write"]
  BY ZenonT(60) DEF EditPeers, Owners
<1>4. PICK c : c = [work[t] EXCEPT !.victims = V, !.pc = "write"]
  BY ZenonT(60)
<1>5. c \in Request
  BY ZenonT(60), <1>2, <1>3, <1>4 DEF Request
<1>6. /\ c.pc = "write" /\ c.path = work[t].path /\ c.todo = work[t].todo
      /\ c.kind = work[t].kind
  BY <1>2, <1>4 DEF Request
<1>7. work' = [work EXCEPT ![t] = c]
  BY ZenonT(60), <1>3, <1>4
<1>8. work[t].path \in Registered' /\ Registered \subseteq Registered' /\ work[t].pc # "rebuild"
  BY SMTT(60), <1>1, <1>2 DEF WorkIsSound, RecordsMove
<1>9. WorkIsSound(c, Registered') /\ c.pc # "rebuild" /\ c \in Request \cup {None}
  BY SMTT(60), <1>2, <1>5, <1>6, <1>8 DEF WorkIsSound
<1> QED
  BY ZenonT(60), <1>1, <1>2, <1>7, <1>8, <1>9, PlainStep

\* The acquire takes the record over, unless the request was abandoned.
LEMMA EditWriteStep ==
  ASSUME HookInv, NEW t \in Threads, EditWrite(t)
  PROVE  HookInv'
<1>1. /\ work[t] # None /\ work[t].pc = "write" /\ Quiet
      /\ UNCHANGED <<pending, owed>> /\ notices' = notices
  BY ZenonT(60) DEF EditWrite, Running
<1>2. /\ notices' \in [Agents \X Paths -> Notice] /\ work[t].agent \in Agents
      /\ WorkIsSound(work[t], Registered)
  BY ZenonT(60), <1>1, AtWork
<1>3. work[t].path \in Registered /\ work[t].pc # "rebuild"
  BY <1>1, <1>2 DEF WorkIsSound
<1>4. CASE work[t].abort
  <2>1. Finish(t) /\ UNCHANGED <<rec, row, missed>>
    BY ZenonT(60), <1>4 DEF EditWrite
  <2>2. RecordsMove
    BY ZenonT(60), <2>1, RecordsStay
  <2> QED
    BY ZenonT(60), <1>1, <1>2, <1>3, <2>1, <2>2, FinishStep
<1>5. CASE ~work[t].abort
  <2>1. PICK q : q = WriteRecord(rec[work[t].path], work[t].agent, 0)
    BY ZenonT(60)
  <2>2. /\ rec' = [rec EXCEPT ![work[t].path] = q]
        /\ row' = [row EXCEPT ![work[t].path] = @ \cup {work[t].agent}]
        /\ Told(work[t].path, work[t].agent) /\ Goto(t, "record")
    BY ZenonT(60), <1>5, <2>1 DEF EditWrite
  <2>3. rec[work[t].path] \in ArtifactRecord /\ 0 \in Nat /\ row' \in [Paths -> SUBSET Agents]
    BY SMTT(60), <1>2, <1>3, <2>2 DEF HookInv, TypeOK, Registered
  <2>4. TakenOver(q, work[t].agent, "EXCLUSIVE")
    BY ZenonT(60), <1>2, <2>1, <2>3, Takeovers
  <2>5. RecordsMove
    BY ZenonT(60), <1>2, <1>3, <2>2, <2>3, <2>4, TakeoverMoves
  <2>6. "record" \in PCs \ {"begin", "release", "rebuild"}
    BY DEF PCs
  <2> QED
    BY ZenonT(60), <1>1, <1>2, <1>3, <2>2, <2>5, <2>6, GotoStep
<1> QED
  BY ZenonT(60), <1>4, <1>5

\* The notices of the preempted owners.
LEMMA EditRecordStep ==
  ASSUME HookInv, NEW t \in Threads, EditRecord(t)
  PROVE  HookInv'
<1>1. /\ work[t] # None /\ work[t].pc # "rebuild" /\ Quiet /\ Goto(t, "notices")
      /\ UNCHANGED <<rec, row, missed>> /\ UNCHANGED <<pending, owed>>
  BY ZenonT(60) DEF EditRecord, Running
<1>2. RecordsMove /\ notices \in [Agents \X Paths -> Notice] /\ work[t].agent \in Agents
  BY ZenonT(60), <1>1, AtWork, RecordsStay
<1>3. notices' \in [Agents \X Paths -> Notice]
  BY <1>2 DEF EditRecord, Notice
<1>4. "notices" \in PCs \ {"begin", "release", "rebuild"}
  BY DEF PCs
<1> QED
  BY ZenonT(60), <1>1, <1>2, <1>3, <1>4, GotoStep

-----------------------------------------------------------------------------
(* The steps of post-edit, of its failure and of post-edit-cas.            *)

\* A commit takes the record over, or publishes nothing.
LEMMA PostCommitStep ==
  ASSUME HookInv, NEW t \in Threads, PostCommit(t)
  PROVE  HookInv'
<1>1. /\ work[t] # None /\ work[t].pc = "begin" /\ Quiet /\ row' = row
      /\ UNCHANGED <<pending, owed>> /\ notices' = notices
  BY ZenonT(60) DEF PostCommit, Starts, Running
<1>2. /\ notices' \in [Agents \X Paths -> Notice] /\ work[t].agent \in Agents
      /\ work[t].path \in Paths /\ work[t].pc # "rebuild"
  BY ZenonT(60), <1>1, AtWork
<1>3. CASE UNCHANGED <<rec, missed>>
  <2>1. RecordsMove
    BY ZenonT(60), <1>1, <1>3, RecordsStay
  <2>2. CASE Finish(t)
    BY ZenonT(60), <1>1, <1>2, <2>1, <2>2, FinishStep
  <2>3. CASE Goto(t, "why")
    <3>1. "why" \in PCs \ {"begin", "release", "rebuild"}
      BY DEF PCs
    <3> QED
      BY ZenonT(60), <1>1, <1>2, <2>1, <2>3, <3>1, GotoStep
  <2> QED
    BY ZenonT(60), <2>2, <2>3 DEF PostCommit
<1>4. CASE ~UNCHANGED <<rec, missed>>
  <2>1. PICK q : q = CommitRecord(rec[work[t].path], work[t].agent, 0)
    BY ZenonT(60)
  <2>2. /\ rec[work[t].path] # None /\ rec' = [rec EXCEPT ![work[t].path] = q]
        /\ Committed(work[t].path, work[t].agent) /\ Finish(t)
    BY ZenonT(60), <1>4, <2>1 DEF PostCommit
  <2>3. /\ work[t].path \in Registered /\ rec[work[t].path] \in ArtifactRecord /\ 0 \in Nat
        /\ row' \in [Paths -> SUBSET Agents]
    BY SMTT(60), <1>1, <1>2, <2>2 DEF HookInv, TypeOK, Registered
  <2>4. TakenOver(q, work[t].agent, "MODIFIED")
    BY ZenonT(60), <1>2, <2>1, <2>3, Takeovers
  <2>5. RecordsMove
    BY ZenonT(60), <1>2, <2>2, <2>3, <2>4, TakeoverMoves
  <2> QED
    BY ZenonT(60), <1>1, <1>2, <2>2, <2>5, FinishStep
<1> QED
  BY ZenonT(60), <1>3, <1>4

\* The refusal of a commit consumes the notice that explains it.
LEMMA PostWhyStep ==
  ASSUME HookInv, NEW t \in Threads, PostWhy(t)
  PROVE  HookInv'
<1>1. /\ work[t] # None /\ work[t].pc # "rebuild" /\ Quiet /\ Finish(t)
      /\ UNCHANGED <<rec, row, missed>> /\ UNCHANGED <<pending, owed>>
  BY ZenonT(60) DEF PostWhy, Running
<1>2. RecordsMove /\ notices \in [Agents \X Paths -> Notice]
  BY ZenonT(60), <1>1, AtWork, RecordsStay
<1>3. notices' \in [Agents \X Paths -> Notice]
  BY ZenonT(60), <1>2 DEF PostWhy, Notice
<1> QED
  BY ZenonT(60), <1>1, <1>2, <1>3, FinishStep

\* A failed edit gives the grant back.
LEMMA PostFailStep ==
  ASSUME HookInv, NEW t \in Threads, PostFail(t)
  PROVE  HookInv'
<1>1. /\ work[t] # None /\ work[t].pc = "begin" /\ Quiet /\ Finish(t) /\ missed' = missed
      /\ UNCHANGED <<pending, owed>> /\ notices' = notices
  BY ZenonT(60) DEF PostFail, Starts, Running
<1>2. /\ notices' \in [Agents \X Paths -> Notice] /\ work[t].agent \in Agents
      /\ work[t].path \in Paths /\ work[t].pc # "rebuild"
  BY ZenonT(60), <1>1, AtWork
<1>3. RecordsMove
  <2>1. CASE UNCHANGED <<rec, row>>
    BY ZenonT(60), <1>1, <2>1, RecordsStay
  <2>2. CASE ~UNCHANGED <<rec, row>>
    <3>1. PICK q : q = InvalidateRecord(rec[work[t].path], work[t].agent, 0)
      BY ZenonT(60)
    <3>2. /\ rec[work[t].path] # None /\ rec' = [rec EXCEPT ![work[t].path] = q]
          /\ row' = [row EXCEPT ![work[t].path] = @ \cup {work[t].agent}]
      BY ZenonT(60), <2>2, <3>1 DEF PostFail
    <3>3. work[t].path \in Registered
      BY <1>2, <3>2 DEF Registered
    <3> QED
      BY ZenonT(60), <1>1, <1>2, <3>1, <3>2, <3>3, RevokeMoves
  <2> QED
    BY ZenonT(60), <2>1, <2>2
<1> QED
  BY ZenonT(60), <1>1, <1>2, <1>3, FinishStep

\* A winning compare-and-swap takes the record over.
LEMMA PostCasStep ==
  ASSUME HookInv, NEW t \in Threads, NEW expected, PostCas(t, expected)
  PROVE  HookInv'
<1>1. /\ work[t] # None /\ work[t].pc = "begin" /\ Quiet /\ Finish(t)
      /\ UNCHANGED <<pending, owed>> /\ notices' = notices
  BY ZenonT(60) DEF PostCas, Starts, Running
<1>2. /\ notices' \in [Agents \X Paths -> Notice] /\ work[t].agent \in Agents
      /\ work[t].path \in Paths /\ work[t].pc # "rebuild"
  BY ZenonT(60), <1>1, AtWork
<1>3. RecordsMove
  <2>1. CASE UNCHANGED <<rec, row, missed>>
    BY ZenonT(60), <2>1, RecordsStay
  <2>2. CASE ~UNCHANGED <<rec, row, missed>>
    <3>1. PICK q : q = CasWin(rec[work[t].path], work[t].agent)
      BY ZenonT(60)
    <3>2. /\ rec[work[t].path] # None /\ rec' = [rec EXCEPT ![work[t].path] = q]
          /\ row' = [row EXCEPT ![work[t].path] = @ \cup {work[t].agent}]
          /\ Committed(work[t].path, work[t].agent)
      BY ZenonT(60), <2>2, <3>1 DEF PostCas
    <3>3. /\ work[t].path \in Registered /\ rec[work[t].path] \in ArtifactRecord /\ 0 \in Nat
          /\ row' \in [Paths -> SUBSET Agents]
      BY SMTT(60), <1>2, <3>2 DEF HookInv, TypeOK, Registered
    <3>4. TakenOver(q, work[t].agent, "SHARED")
      BY ZenonT(60), <1>2, <3>1, <3>3, Takeovers
    <3> QED
      BY ZenonT(60), <1>2, <3>2, <3>3, <3>4, TakeoverMoves
  <2> QED
    BY ZenonT(60), <2>1, <2>2
<1> QED
  BY ZenonT(60), <1>1, <1>2, <1>3, FinishStep

-----------------------------------------------------------------------------
(* The steps of session-stop and session-start.                            *)

\* A stop collects what the agent owns.
LEMMA StopHeldStep ==
  ASSUME HookInv, NEW t \in Threads, StopHeld(t)
  PROVE  HookInv'
<1>1. /\ work[t] # None /\ work[t].pc = "begin" /\ work[t].kind = "session_stop" /\ Quiet
      /\ UNCHANGED <<rec, row, missed>> /\ UNCHANGED <<pending, owed>> /\ notices' = notices
  BY ZenonT(60) DEF StopHeld, Starts, Running
<1>2. /\ notices' \in [Agents \X Paths -> Notice] /\ RecordsMove /\ work[t] \in Request
  BY ZenonT(60), <1>1, AtWork, RecordsStay
<1>3. PICK F : F = {p \in Registered : work[t].agent \in Owners(rec[p])}
  BY ZenonT(60)
<1>4. F \subseteq Registered /\ F \in SUBSET Paths /\ Registered \subseteq Registered'
  BY <1>2, <1>3 DEF Registered, RecordsMove
<1>5. PICK c : c = [work[t] EXCEPT !.todo = F, !.pc = "release"]
  BY ZenonT(60)
<1>6. c \in Request
  BY ZenonT(60), <1>2, <1>4, <1>5 DEF Request
<1>7. c.pc = "release" /\ c.todo = F
  BY <1>2, <1>5 DEF Request
<1>8. work' = [work EXCEPT ![t] = c]
  BY ZenonT(60), <1>3, <1>5 DEF StopHeld
<1>9. /\ WorkIsSound(c, Registered') /\ c.pc # "rebuild" /\ c \in Request \cup {None}
      /\ work[t].pc # "rebuild"
  BY SMTT(60), <1>1, <1>4, <1>6, <1>7 DEF WorkIsSound
<1> QED
  BY ZenonT(60), <1>1, <1>2, <1>8, <1>9, PlainStep

\* It gives them back one by one, until it is abandoned.
LEMMA StopReleaseStep ==
  ASSUME HookInv, NEW t \in Threads, StopRelease(t)
  PROVE  HookInv'
<1>1. /\ work[t] # None /\ work[t].pc = "release" /\ Quiet /\ UNCHANGED <<row, missed>>
      /\ UNCHANGED <<pending, owed>> /\ notices' = notices
  BY ZenonT(60) DEF StopRelease, Running
<1>2. /\ notices' \in [Agents \X Paths -> Notice] /\ work[t].agent \in Agents
      /\ work[t] \in Request /\ WorkIsSound(work[t], Registered)
  BY ZenonT(60), <1>1, AtWork
<1>3. work[t].todo \subseteq Registered /\ work[t].pc # "rebuild"
  BY <1>1, <1>2 DEF WorkIsSound
<1>4. CASE UNCHANGED rec /\ (Goto(t, "notices") \/ Finish(t))
  <2>1. RecordsMove
    BY ZenonT(60), <1>1, <1>4, RecordsStay
  <2>2. "notices" \in PCs \ {"begin", "release", "rebuild"}
    BY DEF PCs
  <2>3. CASE Finish(t)
    BY ZenonT(60), <1>1, <1>2, <1>3, <2>1, <2>3, FinishStep
  <2>4. CASE Goto(t, "notices")
    BY ZenonT(60), <1>1, <1>2, <1>3, <2>1, <2>2, <2>4, GotoStep
  <2> QED
    BY ZenonT(60), <1>4, <2>3, <2>4
<1>5. ASSUME NEW p \in work[t].todo,
             rec' = [rec EXCEPT ![p] = InvalidateRecord(@, work[t].agent, 0)],
             work' = [work EXCEPT ![t].todo = @ \ {p}]
      PROVE  HookInv'
  <2>1. PICK q : q = InvalidateRecord(rec[p], work[t].agent, 0)
    BY ZenonT(60)
  <2>2. rec' = [rec EXCEPT ![p] = q] /\ p \in Registered
    BY ZenonT(60), <1>3, <1>5, <2>1
  <2>3. RecordsMove
    BY ZenonT(60), <1>1, <1>2, <2>1, <2>2, RevokeMoves
  <2>4. PICK c : c = [work[t] EXCEPT !.todo = work[t].todo \ {p}]
    BY ZenonT(60)
  <2>5. c \in Request
    BY <1>2, <2>4 DEF Request
  <2>6. /\ c.pc = "release" /\ c.todo \subseteq work[t].todo
    BY <1>1, <1>2, <2>4 DEF Request
  <2>7. work' = [work EXCEPT ![t] = c]
    BY ZenonT(60), <1>5, <2>4
  <2>8. Registered \subseteq Registered'
    BY <2>3 DEF RecordsMove
  <2>9. WorkIsSound(c, Registered') /\ c.pc # "rebuild" /\ c \in Request \cup {None}
    BY SMTT(60), <1>3, <2>5, <2>6, <2>8 DEF WorkIsSound
  <2> QED
    BY ZenonT(60), <1>1, <1>2, <1>3, <2>3, <2>7, <2>9, PlainStep
<1> QED
  BY ZenonT(60), <1>4, <1>5 DEF StopRelease

\* A start that has context goes on to arm the re-grounding.
LEMMA StartContextStep ==
  ASSUME HookInv, NEW t \in Threads, StartContext(t)
  PROVE  HookInv'
<1>1. /\ work[t] # None /\ work[t].pc # "rebuild" /\ Quiet
      /\ UNCHANGED <<rec, row, missed>> /\ UNCHANGED <<pending, owed>> /\ notices' = notices
      /\ Finish(t) \/ Goto(t, "arm")
  BY ZenonT(60) DEF StartContext, Starts, Running
<1>2. notices' \in [Agents \X Paths -> Notice] /\ RecordsMove
  BY ZenonT(60), <1>1, AtWork, RecordsStay
<1>3. "arm" \in PCs \ {"begin", "release", "rebuild"}
  BY DEF PCs
<1>4. CASE Finish(t)
  BY ZenonT(60), <1>1, <1>2, <1>4, FinishStep
<1>5. CASE Goto(t, "arm")
  BY ZenonT(60), <1>1, <1>2, <1>3, <1>5, GotoStep
<1> QED
  BY ZenonT(60), <1>1, <1>4, <1>5

-----------------------------------------------------------------------------
(* The re-grounding: arming, claiming and delivering it.                   *)

\* The claims of a session are finitely many.
LEMMA RebuildersFinite ==
  ASSUME NEW s
  PROVE  IsFiniteSet(Rebuilders(s)) /\ Cardinality(Rebuilders(s)) \in Nat
<1>1. Rebuilders(s) \subseteq Threads
  BY DEF Rebuilders
<1>2. IsFiniteSet(Rebuilders(s))
  BY <1>1, HookAssumption, FS_Subset
<1> QED
  BY <1>2, FS_CardinalityType

\* Arming a session that is not armed owes it one re-grounding.
LEMMA StartArmStep ==
  ASSUME HookInv, NEW t \in Threads, StartArm(t)
  PROVE  HookInv'
<1>1. /\ work[t] # None /\ work[t].pc = "arm" /\ Quiet /\ Finish(t)
      /\ UNCHANGED <<rec, row, missed>> /\ notices' = notices
  BY ZenonT(60) DEF StartArm, Running
<1>2. notices' \in [Agents \X Paths -> Notice] /\ RecordsMove /\ work[t].agent \in Agents
  BY ZenonT(60), <1>1, AtWork, RecordsStay
<1>3. PICK z : z = Parent[work[t].agent]
  BY ZenonT(60)
<1>4. z \in Sessions
  BY <1>2, <1>3, HookAssumption DEF Sessions
<1>5. /\ pending' = pending \cup {z}
      /\ owed' = [owed EXCEPT ![z] = IF z \in pending THEN @ ELSE @ + 1]
  BY ZenonT(60), <1>3 DEF StartArm
<1>6. pending \in SUBSET Sessions /\ owed \in [Sessions -> Int] /\ RegroundOnce
  BY DEF HookInv, TypeOK
<1>7. pending' \in SUBSET Sessions /\ owed' \in [Sessions -> Int]
  BY <1>4, <1>5, <1>6
<1>8. PICK c : c = None
  BY ZenonT(60)
<1>9. c \in Request \cup {None} /\ work' = [work EXCEPT ![t] = c]
  BY ZenonT(60), <1>1, <1>8 DEF Finish
<1>10. ~Running(t, "rebuild")
  BY <1>1 DEF Running
<1>11. \A s \in Sessions : Rebuilders(s)' = Rebuilders(s)
  BY ZenonT(60), <1>8, <1>9, <1>10, RebuildersStay
<1>12. RegroundOnce'
  <2> SUFFICES ASSUME NEW s \in Sessions
               PROVE  owed'[s] = Cardinality(Rebuilders(s)') + IF s \in pending' THEN 1 ELSE 0
    BY DEF RegroundOnce
  <2>1. /\ owed[s] = Cardinality(Rebuilders(s)) + IF s \in pending THEN 1 ELSE 0
        /\ Rebuilders(s)' = Rebuilders(s) /\ Cardinality(Rebuilders(s)) \in Nat
    BY <1>6, <1>11, RebuildersFinite DEF RegroundOnce
  <2> QED
    BY SMTT(60), <1>4, <1>5, <1>6, <2>1
<1> QED
  BY ZenonT(60), <1>1, <1>2, <1>7, <1>8, <1>9, <1>12, WorkStep

\* A claim takes the session's re-grounding for one request.
LEMMA ClaimStep ==
  ASSUME HookInv, NEW t \in Threads, Claim(t)
  PROVE  HookInv'
<1>1. /\ work[t] # None /\ work[t].pc = "claim" /\ Quiet
      /\ UNCHANGED <<rec, row, missed>> /\ notices' = notices /\ owed' = owed
  BY ZenonT(60) DEF Claim, Running
<1>2. /\ notices' \in [Agents \X Paths -> Notice] /\ RecordsMove
      /\ work[t] \in Request /\ WorkIsSound(work[t], Registered)
  BY ZenonT(60), <1>1, AtWork, RecordsStay
<1>3. CASE UNCHANGED pending /\ Finish(t)
  BY ZenonT(60), <1>1, <1>2, <1>3, FinishStep
<1>4. CASE work[t].agent \in pending /\ pending' = pending \ {work[t].agent} /\ Goto(t, "rebuild")
  <2>1. pending \in SUBSET Sessions /\ owed \in [Sessions -> Int] /\ RegroundOnce
        /\ work \in [Threads -> Request \cup {None}]
    BY DEF HookInv, TypeOK
  <2>2. PICK z : z = work[t].agent
    BY ZenonT(60)
  <2>3. z \in Sessions /\ pending' = pending \ {z} /\ z \in pending
    BY SMTT(60), <1>4, <2>1, <2>2
  <2>4. pending' \in SUBSET Sessions /\ owed' \in [Sessions -> Int]
    BY <1>1, <2>1, <2>3
  <2>5. PICK c : c = [work[t] EXCEPT !.pc = "rebuild"]
    BY ZenonT(60)
  <2>6. /\ c \in Request /\ c.pc = "rebuild" /\ c.todo = work[t].todo
        /\ c.kind = work[t].kind /\ c.agent = z
    BY <1>2, <2>2, <2>5 DEF Request
  <2>7. work' = [work EXCEPT ![t] = c]
    BY ZenonT(60), <1>4, <2>5 DEF Goto
  <2>8. Registered \subseteq Registered' /\ c # None
    BY SMTT(60), <1>2, <2>6, NoneIsNoRequest DEF RecordsMove
  <2>9. WorkIsSound(c, Registered') /\ c \in Request \cup {None}
    BY SMTT(60), <1>2, <2>3, <2>6, <2>8 DEF WorkIsSound
  <2>10. work'[t] = c /\ \A u \in Threads \ {t} : work'[u] = work[u]
    BY SMTT(60), <2>1, <2>7
  <2>11. Rebuilders(z)' = Rebuilders(z) \cup {t} /\ t \notin Rebuilders(z)
    BY SMTT(60), <1>1, <2>6, <2>8, <2>10 DEF Rebuilders, Running
  <2>12. \A s \in Sessions \ {z} : Rebuilders(s)' = Rebuilders(s)
    BY SMTT(60), <1>1, <2>6, <2>10 DEF Rebuilders, Running
  <2>13. Cardinality(Rebuilders(z)') = Cardinality(Rebuilders(z)) + 1
    BY SMTT(60), <2>11, RebuildersFinite, FS_AddElement
  <2>14. RegroundOnce'
    <3> SUFFICES ASSUME NEW s \in Sessions
                 PROVE  owed'[s] = Cardinality(Rebuilders(s)') + IF s \in pending' THEN 1 ELSE 0
      BY DEF RegroundOnce
    <3>1. /\ owed[s] = Cardinality(Rebuilders(s)) + IF s \in pending THEN 1 ELSE 0
          /\ Cardinality(Rebuilders(s)) \in Nat
      BY <2>1, RebuildersFinite DEF RegroundOnce
    <3> QED
      BY SMTT(60), <1>1, <2>3, <2>12, <2>13, <3>1
  <2> QED
    BY ZenonT(60), <1>1, <1>2, <2>4, <2>7, <2>9, <2>14, WorkStep
<1> QED
  BY ZenonT(60), <1>3, <1>4 DEF Claim

\* Delivering it, or losing it with an abandoned request, settles what was owed.
LEMMA RebuildStep ==
  ASSUME HookInv, NEW t \in Threads, Rebuild(t)
  PROVE  HookInv'
<1>1. /\ work[t] # None /\ work[t].pc = "rebuild" /\ Quiet /\ Finish(t)
      /\ UNCHANGED <<rec, row, missed>> /\ notices' = notices /\ pending' = pending
      /\ owed' = [owed EXCEPT ![work[t].agent] = @ - 1]
  BY ZenonT(60) DEF Rebuild, Running
<1>2. /\ notices' \in [Agents \X Paths -> Notice] /\ RecordsMove
      /\ WorkIsSound(work[t], Registered)
  BY ZenonT(60), <1>1, AtWork, RecordsStay
<1>3. PICK z : z = work[t].agent
  BY ZenonT(60)
<1>4. z \in Sessions
  BY SMTT(60), <1>1, <1>2, <1>3 DEF WorkIsSound
<1>5. pending \in SUBSET Sessions /\ owed \in [Sessions -> Int] /\ RegroundOnce
      /\ work \in [Threads -> Request \cup {None}]
  BY DEF HookInv, TypeOK
<1>6. pending' \in SUBSET Sessions /\ owed' \in [Sessions -> Int]
  BY SMTT(60), <1>1, <1>3, <1>4, <1>5
<1>7. PICK c : c = None
  BY ZenonT(60)
<1>8. c \in Request \cup {None} /\ work' = [work EXCEPT ![t] = c]
  BY ZenonT(60), <1>1, <1>7 DEF Finish
<1>9. work'[t] = None /\ \A u \in Threads \ {t} : work'[u] = work[u]
  BY SMTT(60), <1>5, <1>7, <1>8
<1>10. Rebuilders(z)' = Rebuilders(z) \ {t} /\ t \in Rebuilders(z)
  BY SMTT(60), <1>1, <1>3, <1>9 DEF Rebuilders, Running
<1>11. \A s \in Sessions \ {z} : Rebuilders(s)' = Rebuilders(s)
  BY SMTT(60), <1>1, <1>3, <1>9 DEF Rebuilders, Running
<1>12. Cardinality(Rebuilders(z)') = Cardinality(Rebuilders(z)) - 1
  BY SMTT(60), <1>10, RebuildersFinite, FS_RemoveElement
<1>13. RegroundOnce'
  <2> SUFFICES ASSUME NEW s \in Sessions
               PROVE  owed'[s] = Cardinality(Rebuilders(s)') + IF s \in pending' THEN 1 ELSE 0
    BY DEF RegroundOnce
  <2>1. /\ owed[s] = Cardinality(Rebuilders(s)) + IF s \in pending THEN 1 ELSE 0
        /\ Cardinality(Rebuilders(s)) \in Nat
    BY <1>5, RebuildersFinite DEF RegroundOnce
  <2> QED
    BY SMTT(60), <1>1, <1>3, <1>4, <1>5, <1>11, <1>12, <2>1
<1> QED
  BY ZenonT(60), <1>1, <1>2, <1>6, <1>7, <1>8, <1>13, WorkStep

-----------------------------------------------------------------------------
(* The steps of pre-bash and pre-grep, and the end of every handler.       *)

\* The next path of a command is registered before it is looked at.
LEMMA BashNextStep ==
  ASSUME HookInv, NEW t \in Threads, BashNext(t)
  PROVE  HookInv'
<1>1. /\ work[t] # None /\ work[t].pc \in {"begin", "scan"} /\ work[t].kind = "pre_bash" /\ Quiet
      /\ UNCHANGED <<row, missed>> /\ UNCHANGED <<pending, owed>> /\ notices' = notices
  BY ZenonT(60) DEF BashNext, Starts, Running
<1>2. /\ notices' \in [Agents \X Paths -> Notice] /\ work[t] \in Request
      /\ work[t].todo \subseteq Paths
  BY ZenonT(60), <1>1, AtWork
<1>3. PICK p \in work[t].todo, pc \in {"first", "state"} :
        /\ resolve_or_register(p)
        /\ work' = [work EXCEPT ![t].path = p, ![t].pc = pc]
  BY ZenonT(60) DEF BashNext
<1>4. p \in Paths
  BY <1>2
<1>5. RecordsMove /\ p \in Registered'
  BY ZenonT(60), <1>1, <1>3, <1>4, RegisterMoves
<1>6. PICK c : c = [work[t] EXCEPT !.path = p, !.pc = pc]
  BY ZenonT(60)
<1>7. c \in Request
  BY ZenonT(60), <1>2, <1>3, <1>4, <1>6 DEF Request
<1>8. c.path = p /\ c.pc = pc /\ c.kind = "pre_bash"
  BY <1>1, <1>2, <1>6 DEF Request
<1>9. work' = [work EXCEPT ![t] = c]
  BY ZenonT(60), <1>3, <1>6
<1>10. /\ WorkIsSound(c, Registered') /\ c.pc # "rebuild" /\ c \in Request \cup {None}
       /\ work[t].pc # "rebuild"
  BY SMTT(60), <1>1, <1>3, <1>5, <1>7, <1>8 DEF WorkIsSound, Reads
<1> QED
  BY ZenonT(60), <1>1, <1>2, <1>5, <1>9, <1>10, PlainStep

\* The next path of a search is a registered one.
LEMMA GrepNextStep ==
  ASSUME HookInv, NEW t \in Threads, GrepNext(t)
  PROVE  HookInv'
<1>1. /\ work[t] # None /\ work[t].pc \in {"begin", "scan"} /\ work[t].kind = "pre_grep" /\ Quiet
      /\ UNCHANGED <<rec, row, missed>> /\ UNCHANGED <<pending, owed>> /\ notices' = notices
  BY ZenonT(60) DEF GrepNext, Starts, Running
<1>2. /\ notices' \in [Agents \X Paths -> Notice] /\ work[t] \in Request /\ RecordsMove
      /\ work[t].todo \subseteq Paths /\ WorkIsSound(work[t], Registered)
  BY ZenonT(60), <1>1, AtWork, RecordsStay
<1>3. PICK p \in work[t].todo : work' = [work EXCEPT ![t].path = p, ![t].pc = "state"]
  BY ZenonT(60) DEF GrepNext
<1>4. /\ p \in Paths /\ work[t].todo \subseteq Registered /\ Registered \subseteq Registered'
  BY <1>1, <1>2 DEF WorkIsSound, RecordsMove
<1>5. PICK c : c = [work[t] EXCEPT !.path = p, !.pc = "state"]
  BY ZenonT(60)
<1>6. c \in Request
  BY ZenonT(60), <1>2, <1>4, <1>5 DEF Request
<1>7. c.path = p /\ c.pc = "state" /\ c.kind = "pre_grep" /\ c.todo = work[t].todo
  BY SMTT(60), <1>1, <1>2, <1>5 DEF Request
<1>8. work' = [work EXCEPT ![t] = c]
  BY ZenonT(60), <1>3, <1>5
<1>9. /\ WorkIsSound(c, Registered') /\ c.pc # "rebuild" /\ c \in Request \cup {None}
      /\ work[t].pc # "rebuild"
  BY SMTT(60), <1>1, <1>4, <1>6, <1>7 DEF WorkIsSound, Reads
<1> QED
  BY ZenonT(60), <1>1, <1>2, <1>8, <1>9, PlainStep

\* A scan with nothing left is denied or goes on to the notices.
LEMMA ScanEndStep ==
  ASSUME HookInv, NEW t \in Threads, ScanEnd(t)
  PROVE  HookInv'
<1>1. /\ work[t] # None /\ work[t].pc # "rebuild" /\ Quiet
      /\ UNCHANGED <<rec, row, missed>> /\ UNCHANGED <<pending, owed>> /\ notices' = notices
      /\ Finish(t) \/ Goto(t, "notices")
  BY ZenonT(60) DEF ScanEnd, Running
<1>2. notices' \in [Agents \X Paths -> Notice] /\ RecordsMove
  BY ZenonT(60), <1>1, AtWork, RecordsStay
<1>3. "notices" \in PCs \ {"begin", "release", "rebuild"}
  BY DEF PCs
<1>4. CASE Finish(t)
  BY ZenonT(60), <1>1, <1>2, <1>4, FinishStep
<1>5. CASE Goto(t, "notices")
  BY ZenonT(60), <1>1, <1>2, <1>3, <1>5, GotoStep
<1> QED
  BY ZenonT(60), <1>1, <1>4, <1>5

\* A valid copy is done with, any other is granted again and reported.
LEMMA ScanStateStep ==
  ASSUME HookInv, NEW t \in Threads, ScanState(t)
  PROVE  HookInv'
<1>1. /\ work[t] # None /\ work[t].pc = "state" /\ Quiet
      /\ UNCHANGED <<rec, row, missed>> /\ UNCHANGED <<pending, owed>> /\ notices' = notices
  BY ZenonT(60) DEF ScanState, Running
<1>2. /\ notices' \in [Agents \X Paths -> Notice] /\ work[t] \in Request /\ RecordsMove
      /\ WorkIsSound(work[t], Registered)
  BY ZenonT(60), <1>1, AtWork, RecordsStay
<1>3. /\ work[t].path \in Registered /\ work[t].pc # "rebuild" /\ Registered \subseteq Registered'
  BY <1>1, <1>2 DEF WorkIsSound, RecordsMove
<1>4. CASE Valid(work[t].path, work[t].agent)
  <2>1. PICK c : c = [work[t] EXCEPT !.todo = work[t].todo \ {work[t].path}, !.pc = "scan"]
    BY ZenonT(60)
  <2>2. c \in Request
    BY ZenonT(60), <1>2, <2>1 DEF Request
  <2>3. c.pc = "scan" /\ c.kind = work[t].kind /\ c.todo \subseteq work[t].todo
    BY <1>2, <2>1 DEF Request
  <2>4. work' = [work EXCEPT ![t] = c]
    BY ZenonT(60), <1>4, <2>1 DEF ScanState
  <2>5. WorkIsSound(c, Registered') /\ c.pc # "rebuild" /\ c \in Request \cup {None}
    BY <1>2, <1>3, <2>2, <2>3 DEF WorkIsSound
  <2> QED
    BY ZenonT(60), <1>1, <1>2, <1>3, <2>4, <2>5, PlainStep
<1>5. CASE ~Valid(work[t].path, work[t].agent)
  <2>1. PICK s : s = IF work[t].path \in strict \/ work[t].status = "deny" THEN "deny" ELSE "stale"
    BY ZenonT(60)
  <2>2. s \in {"deny", "stale"}
    BY <2>1
  <2>3. PICK c : c = [work[t] EXCEPT !.status = s, !.pc = "heal"]
    BY ZenonT(60)
  <2>4. c \in Request
    BY ZenonT(60), <1>2, <2>2, <2>3 DEF Request
  <2>5. c.pc = "heal" /\ c.kind = work[t].kind /\ c.todo = work[t].todo /\ c.path = work[t].path
    BY <1>2, <2>3 DEF Request
  <2>6. work' = [work EXCEPT ![t] = c]
    BY ZenonT(60), <1>5, <2>1, <2>3 DEF ScanState
  <2>7. WorkIsSound(c, Registered') /\ c.pc # "rebuild" /\ c \in Request \cup {None}
    BY SMTT(60), <1>2, <1>3, <2>4, <2>5 DEF WorkIsSound
  <2> QED
    BY ZenonT(60), <1>1, <1>2, <1>3, <2>6, <2>7, PlainStep
<1> QED
  BY ZenonT(60), <1>4, <1>5

\* The grants of a scan.
LEMMA ScanGrantStep ==
  ASSUME HookInv, NEW t \in Threads, ScanGrant(t)
  PROVE  HookInv'
<1>1. /\ work[t] # None /\ work[t].pc \in {"first", "heal"} /\ Quiet
      /\ GrantShared(work[t].path, work[t].agent) /\ Told(work[t].path, work[t].agent)
      /\ UNCHANGED <<pending, owed>> /\ notices' = notices
      /\ work' = [work EXCEPT ![t].todo = @ \ {work[t].path}, ![t].pc = "scan"]
  BY ZenonT(60) DEF ScanGrant, Running
<1>2. /\ notices' \in [Agents \X Paths -> Notice] /\ work[t] \in Request
      /\ work[t].agent \in Agents /\ WorkIsSound(work[t], Registered)
  BY ZenonT(60), <1>1, AtWork
<1>3. work[t].path \in Registered /\ work[t].pc # "rebuild"
  BY <1>1, <1>2 DEF WorkIsSound
<1>4. RecordsMove
  BY ZenonT(60), <1>1, <1>2, <1>3, GrantMoves
<1>5. PICK c : c = [work[t] EXCEPT !.todo = work[t].todo \ {work[t].path}, !.pc = "scan"]
  BY ZenonT(60)
<1>6. c \in Request
  BY ZenonT(60), <1>2, <1>5 DEF Request
<1>7. c.pc = "scan" /\ c.kind = work[t].kind /\ c.todo \subseteq work[t].todo
  BY <1>2, <1>5 DEF Request
<1>8. work' = [work EXCEPT ![t] = c]
  BY ZenonT(60), <1>1, <1>5
<1>9. Registered \subseteq Registered'
  BY <1>4 DEF RecordsMove
<1>10. WorkIsSound(c, Registered') /\ c.pc # "rebuild" /\ c \in Request \cup {None}
  BY <1>2, <1>6, <1>7, <1>9 DEF WorkIsSound
<1> QED
  BY ZenonT(60), <1>1, <1>2, <1>3, <1>4, <1>8, <1>10, PlainStep

\* Surfacing pops the agent's notices.
LEMMA SurfaceStep ==
  ASSUME HookInv, NEW t \in Threads, Surface(t)
  PROVE  HookInv'
<1>1. /\ work[t] # None /\ work[t].pc # "rebuild" /\ Quiet
      /\ UNCHANGED <<rec, row, missed>> /\ UNCHANGED <<pending, owed>>
      /\ pop_pending_notices(work[t].agent)
      /\ Finish(t) \/ Goto(t, "claim")
  BY ZenonT(60) DEF Surface, Running
<1>2. notices \in [Agents \X Paths -> Notice] /\ RecordsMove
  BY ZenonT(60), <1>1, AtWork, RecordsStay
<1>3. notices' \in [Agents \X Paths -> Notice]
  BY <1>1, <1>2 DEF pop_pending_notices, Notice, Surface
<1>4. "claim" \in PCs \ {"begin", "release", "rebuild"}
  BY DEF PCs
<1>5. CASE Finish(t)
  BY ZenonT(60), <1>1, <1>2, <1>3, <1>5, FinishStep
<1>6. CASE Goto(t, "claim")
  BY ZenonT(60), <1>1, <1>2, <1>3, <1>4, <1>6, GotoStep
<1> QED
  BY ZenonT(60), <1>1, <1>5, <1>6

\* A hook on an untracked path may still carry the re-grounding.
LEMMA UntrackedStep ==
  ASSUME HookInv, NEW t \in Threads, UntrackedPath(t)
  PROVE  HookInv'
<1>1. /\ work[t] # None /\ work[t].pc # "rebuild" /\ Quiet /\ Goto(t, "claim")
      /\ UNCHANGED <<rec, row, missed>> /\ UNCHANGED <<pending, owed>> /\ notices' = notices
  BY ZenonT(60) DEF UntrackedPath, Starts, Running
<1>2. notices' \in [Agents \X Paths -> Notice] /\ RecordsMove
  BY ZenonT(60), <1>1, AtWork, RecordsStay
<1>3. "claim" \in PCs \ {"begin", "release", "rebuild"}
  BY DEF PCs
<1> QED
  BY ZenonT(60), <1>1, <1>2, <1>3, GotoStep

-----------------------------------------------------------------------------
(* Dispatch and the watchdog.                                              *)

\* A dispatched request is at its beginning; a parent's stop expires the
\* re-grounding it had not claimed.
LEMMA DispatchStep ==
  ASSUME HookInv, NEW t \in Threads, NEW k \in Kinds, NEW a \in Agents, NEW p \in Paths,
         NEW F \in SUBSET Paths, NEW differs \in BOOLEAN, Dispatch(t, k, a, p, F, differs),
         k = "pre_grep" => F \subseteq Registered
  PROVE  HookInv'
<1>1. /\ work[t] = None /\ phase = "serving" /\ requests < MaxRequests
      /\ requests' = requests + 1
      /\ UNCHANGED <<rec, row, missed>>
      /\ UNCHANGED <<strict, notices, phase, drain, admin, left>>
  BY DEF Dispatch, acquire_handler_slot
<1>2. PICK c : c = [kind |-> k, agent |-> a, path |-> p, todo |-> F, differs |-> differs,
                    pc |-> "begin", status |-> "none", victims |-> {}, abort |-> FALSE]
  BY ZenonT(60)
<1>3. c \in Request
  BY SMTT(60), <1>2 DEF Request
<1>4. c.pc = "begin" /\ c.kind = k /\ c.todo = F /\ c.status = "none"
  BY <1>2
<1>5. work' = [work EXCEPT ![t] = c]
  BY ZenonT(60), <1>2 DEF Dispatch
<1>6. PICK X : X = IF k = "session_stop" THEN {a} \cap pending ELSE {}
  BY ZenonT(60)
<1>7. /\ pending' = pending \ X
      /\ owed' = [s \in Sessions |-> IF s \in X THEN owed[s] - 1 ELSE owed[s]]
  BY ZenonT(60), <1>6 DEF Dispatch
<1>8. X \subseteq pending
  BY <1>6
<1>9. /\ TypeOK /\ RegroundOnce /\ left \subseteq Registered
      /\ \A u \in Threads : work[u] # None => WorkIsSound(work[u], Registered)
  BY DEF HookInv
<1>10. RecordsMove
  BY ZenonT(60), <1>1, RecordsStay
<1>11. c \in Request \cup {None} /\ ~Running(t, "rebuild") /\ c.pc # "rebuild"
  BY SMTT(60), <1>1, <1>3, <1>4 DEF Running
<1>12. \A s \in Sessions : Rebuilders(s)' = Rebuilders(s)
  BY ZenonT(60), <1>5, <1>11, RebuildersStay
<1>13. RegroundOnce'
  <2> SUFFICES ASSUME NEW s \in Sessions
               PROVE  owed'[s] = Cardinality(Rebuilders(s)') + IF s \in pending' THEN 1 ELSE 0
    BY DEF RegroundOnce
  <2>1. /\ owed[s] = Cardinality(Rebuilders(s)) + IF s \in pending THEN 1 ELSE 0
        /\ Cardinality(Rebuilders(s)') = Cardinality(Rebuilders(s))
        /\ Cardinality(Rebuilders(s)) \in Nat
    BY SMTT(60), <1>9, <1>12, RebuildersFinite DEF RegroundOnce
  <2> QED
    BY SMTT(60), <1>7, <1>8, <2>1
<1>14. requests' \in 0 .. MaxRequests
  BY SMTT(60), <1>1, <1>9, HookAssumption DEF TypeOK
<1>15. pending' \in SUBSET Sessions /\ owed' \in [Sessions -> Int]
  BY SMTT(60), <1>7, <1>9 DEF TypeOK
<1>16. /\ work' \in [Threads -> Request \cup {None}]
       /\ work'[t] = c /\ \A u \in Threads \ {t} : work'[u] = work[u]
  BY SMTT(60), <1>3, <1>5, <1>9 DEF TypeOK
<1>17. TypeOK'
  BY SMTT(60), <1>1, <1>9, <1>10, <1>14, <1>15, <1>16 DEF TypeOK, RecordsMove
<1>18. Registered' = Registered
  BY SMTT(60), <1>1 DEF Registered
<1>19. WorkIsSound(c, Registered)
  BY <1>4 DEF WorkIsSound
<1>20. \A u \in Threads : work'[u] # None => WorkIsSound(work'[u], Registered')
  BY ZenonT(60), <1>9, <1>16, <1>18, <1>19
<1>21. ClosedIsQuiet' /\ RecordsAreSound' /\ left' \subseteq Registered'
  BY SMTT(60), <1>1, <1>9, <1>10, <1>18 DEF ClosedIsQuiet, RecordsMove
<1> QED
  BY SMTT(60), <1>13, <1>17, <1>20, <1>21 DEF HookInv

\* The requests a hook may send.
LEMMA ArrivesStep ==
  ASSUME HookInv, NEW t \in Threads, Arrives(t)
  PROVE  HookInv'
<1>1. PICK a \in Agents, p \in Paths :
        \/ \E k \in Kinds \ (Scans \cup Reads) : Dispatch(t, k, a, p, {}, FALSE)
        \/ \E k \in Reads, differs \in BOOLEAN : Dispatch(t, k, a, p, {}, differs)
        \/ \E F \in SUBSET Paths \ {{}} : Dispatch(t, "pre_bash", a, p, F, FALSE)
        \/ \E F \in SUBSET Registered \ {{}} : Dispatch(t, "pre_grep", a, p, F, FALSE)
  BY ZenonT(60) DEF Arrives
<1>2. {} \in SUBSET Paths /\ {} \subseteq Registered /\ FALSE \in BOOLEAN
  OBVIOUS
<1>3. Reads \subseteq Kinds /\ "pre_bash" \in Kinds /\ "pre_grep" \in Kinds /\ "pre_bash" # "pre_grep"
  BY DEF Kinds, Reads, Scans
<1>4. ASSUME NEW k \in Kinds, NEW differs \in BOOLEAN, Dispatch(t, k, a, p, {}, differs)
      PROVE  HookInv'
  BY ZenonT(60), <1>2, <1>4, DispatchStep
<1>5. ASSUME NEW F \in SUBSET Paths, Dispatch(t, "pre_bash", a, p, F, FALSE)
      PROVE  HookInv'
  BY ZenonT(60), <1>2, <1>3, <1>5, DispatchStep
<1>6. ASSUME NEW F \in SUBSET Registered, Dispatch(t, "pre_grep", a, p, F, FALSE)
      PROVE  HookInv'
  <2>1. F \in SUBSET Paths /\ F \subseteq Registered
    BY DEF Registered
  <2> QED
    BY ZenonT(60), <1>2, <1>3, <1>6, <2>1, DispatchStep
<1> QED
  BY ZenonT(60), <1>1, <1>2, <1>3, <1>4, <1>5, <1>6

\* An abandoned request stays where it was.
LEMMA TimeoutStep ==
  ASSUME HookInv, NEW t \in Threads, Timeout(t)
  PROVE  HookInv'
<1>1. /\ work[t] # None /\ UNCHANGED <<rec, row, missed>> /\ UNCHANGED <<pending, owed>>
      /\ Quiet /\ notices' = notices
  BY SMTT(60) DEF Timeout, Quiet
<1>2. /\ notices' \in [Agents \X Paths -> Notice] /\ RecordsMove
      /\ work[t] \in Request /\ WorkIsSound(work[t], Registered)
      /\ RegroundOnce /\ work \in [Threads -> Request \cup {None}]
      /\ pending' \in SUBSET Sessions /\ owed' \in [Sessions -> Int]
  BY SMTT(60), <1>1, AtWork, RecordsStay DEF HookInv, TypeOK
<1>3. PICK c : c = [work[t] EXCEPT !.abort = TRUE]
  BY ZenonT(60)
<1>4. c \in Request
  BY ZenonT(60), <1>2, <1>3 DEF Request
<1>5. /\ c.pc = work[t].pc /\ c.kind = work[t].kind /\ c.todo = work[t].todo
      /\ c.path = work[t].path /\ c.status = work[t].status /\ c.agent = work[t].agent
  BY <1>2, <1>3 DEF Request
<1>6. work' = [work EXCEPT ![t] = c]
  BY ZenonT(60), <1>3 DEF Timeout
<1>7. Registered \subseteq Registered' /\ c \in Request \cup {None} /\ c # None
  BY SMTT(60), <1>2, <1>4, NoneIsNoRequest DEF RecordsMove
<1>8. WorkIsSound(c, Registered')
  BY SMTT(60), <1>2, <1>5, <1>7 DEF WorkIsSound
<1>9. work'[t] = c /\ \A u \in Threads \ {t} : work'[u] = work[u]
  BY SMTT(60), <1>2, <1>6
<1>10. \A s \in Sessions : Rebuilders(s)' = Rebuilders(s)
  BY SMTT(60), <1>1, <1>5, <1>7, <1>9 DEF Rebuilders, Running
<1>11. RegroundOnce'
  BY SMTT(60), <1>1, <1>2, <1>10 DEF RegroundOnce
<1> QED
  BY ZenonT(60), <1>1, <1>2, <1>6, <1>7, <1>8, <1>11, WorkStep

-----------------------------------------------------------------------------
(* Steps of no request: the sweeps, the migration and the shutdown.        *)

\* The shared argument of the steps that leave the pool alone.
LEMMA BesideStep ==
  ASSUME HookInv, RecordsMove, UNCHANGED <<strict, work, pending, owed, requests>>,
         notices' \in [Agents \X Paths -> Notice],
         phase' \in {"serving", "closing", "closed"},
         drain' \in {"no", "waiting", "revoking", "stopping"},
         admin' \in BOOLEAN, left' \subseteq Registered', ClosedIsQuiet'
  PROVE  HookInv'
<1>1. /\ TypeOK /\ RegroundOnce
      /\ \A u \in Threads : work[u] # None => WorkIsSound(work[u], Registered)
  BY DEF HookInv
<1>2. Registered \subseteq Registered' /\ RecordsAreSound' /\ Registered' \subseteq Paths
  BY DEF RecordsMove, Registered
<1>3. TypeOK'
  BY SMTT(60), <1>1, <1>2 DEF TypeOK, RecordsMove
<1>4. RegroundOnce'
  BY SMTT(60), <1>1 DEF RegroundOnce, Rebuilders, Running
<1>5. \A u \in Threads : work'[u] # None => WorkIsSound(work'[u], Registered')
  BY <1>1, <1>2 DEF WorkIsSound
<1> QED
  BY SMTT(60), <1>2, <1>3, <1>4, <1>5 DEF HookInv

\* The sweeps revoke a copy or drop a notice.
LEMMA SweepsStep ==
  ASSUME HookInv, Sweeps
  PROVE  HookInv'
<1>1. PICK a \in Agents, p \in Paths : Reclaim(a, p) \/ TransientTimeout(a, p) \/ EvictNotice(a, p)
  BY SMTT(60) DEF Sweeps
<1>2. TypeOK /\ left \subseteq Registered /\ ClosedIsQuiet /\ notices \in [Agents \X Paths -> Notice]
  BY DEF HookInv, TypeOK
<1>3. UNCHANGED <<strict, work, pending, owed, requests>> /\ UNCHANGED <<row, missed>>
      /\ UNCHANGED <<phase, drain, admin, left>>
  BY SMTT(60), <1>1 DEF Reclaim, TransientTimeout, EvictNotice, Quiet
<1>4. notices' \in [Agents \X Paths -> Notice]
  BY <1>1, <1>2 DEF Reclaim, TransientTimeout, EvictNotice, Notice
<1>5. RecordsMove
  <2>1. CASE Reclaim(a, p)
    <3>1. PICK q : q = ReclaimRecord(rec[p], a, "reclaim_heartbeat", 0)
      BY ZenonT(60)
    <3>2. rec' = [rec EXCEPT ![p] = q] /\ p \in Registered
      BY ZenonT(60), <2>1, <3>1 DEF Reclaim, Registered
    <3> QED
      BY ZenonT(60), <1>3, <3>1, <3>2, RevokeMoves
  <2>2. CASE TransientTimeout(a, p)
    <3>1. PICK q : q = TimeoutRecord(rec[p], a, 0)
      BY ZenonT(60)
    <3>2. rec' = [rec EXCEPT ![p] = q] /\ p \in Registered
      BY ZenonT(60), <2>2, <3>1 DEF TransientTimeout, Registered
    <3> QED
      BY ZenonT(60), <1>3, <3>1, <3>2, RevokeMoves
  <2>3. CASE EvictNotice(a, p)
    BY ZenonT(60), <1>3, <2>3, RecordsStay DEF EvictNotice
  <2> QED
    BY ZenonT(60), <1>1, <2>1, <2>2, <2>3
<1>6. left' \subseteq Registered' /\ ClosedIsQuiet'
  BY SMTT(60), <1>2, <1>3, <1>5 DEF RecordsMove, ClosedIsQuiet
<1>7. /\ phase' \in {"serving", "closing", "closed"} /\ admin' \in BOOLEAN
      /\ drain' \in {"no", "waiting", "revoking", "stopping"}
  BY <1>2, <1>3 DEF TypeOK
<1> QED
  BY ZenonT(60), <1>3, <1>4, <1>5, <1>6, <1>7, BesideStep

\* The pass that releases every grant revokes at most one copy of a path.
LEMMA DrainRevokeStep ==
  ASSUME HookInv, NEW p \in Paths, DrainRevoke(p)
  PROVE  HookInv'
<1>1. /\ p \in left /\ left' = left \ {p} /\ UNCHANGED <<row, missed>> /\ notices' = notices
      /\ UNCHANGED <<strict, work, pending, owed, requests>> /\ UNCHANGED <<phase, drain, admin>>
  BY SMTT(60) DEF DrainRevoke
<1>2. /\ TypeOK /\ left \subseteq Registered /\ ClosedIsQuiet
      /\ rec \in [Paths -> ArtifactRecord \cup {None}]
  BY DEF HookInv, TypeOK
<1>3. RecordsMove
  <2>1. CASE Owners(rec[p]) = {}
    <3>1. rec' = rec
      BY <1>2, <2>1 DEF DrainRevoke
    <3> QED
      BY ZenonT(60), <1>1, <3>1, RecordsStay
  <2>2. CASE Owners(rec[p]) # {}
    <3>1. PICK a : a = CHOOSE b \in Owners(rec[p]) : TRUE
      BY ZenonT(60)
    <3>2. a \in Agents
      BY <2>2, <3>1 DEF Owners
    <3>3. PICK q : q = InvalidateRecord(rec[p], a, 0)
      BY ZenonT(60)
    <3>4. rec' = [rec EXCEPT ![p] = q]
      BY ZenonT(60), <2>2, <3>1, <3>3 DEF DrainRevoke
    <3>5. p \in Registered
      BY SMTT(60), <1>1, <1>2
    <3> QED
      BY ZenonT(60), <1>1, <3>2, <3>3, <3>4, <3>5, RevokeMoves
  <2> QED
    BY <2>1, <2>2
<1>4. left' \subseteq Registered' /\ ClosedIsQuiet'
  BY SMTT(60), <1>1, <1>2, <1>3 DEF RecordsMove, ClosedIsQuiet
<1>5. /\ phase' \in {"serving", "closing", "closed"} /\ admin' \in BOOLEAN
      /\ drain' \in {"no", "waiting", "revoking", "stopping"}
      /\ notices' \in [Agents \X Paths -> Notice]
  BY <1>1, <1>2 DEF TypeOK
<1> QED
  BY ZenonT(60), <1>1, <1>3, <1>4, <1>5, BesideStep

\* The other steps of the migration and of the shutdown touch no record.
LEMMA PhaseStep ==
  ASSUME HookInv,
         \/ PrepareForMigration \/ AdminReturns \/ DrainDone \/ DrainStops
         \/ Shutdown \/ Close
  PROVE  HookInv'
<1>1. UNCHANGED <<strict, work, pending, owed, requests>> /\ UNCHANGED <<rec, row, missed>>
      /\ notices' = notices
  BY DEF PrepareForMigration, AdminReturns, DrainDone, DrainStops, Shutdown, Close
<1>2. TypeOK /\ left \subseteq Registered /\ ClosedIsQuiet
  BY DEF HookInv
<1>3. RecordsMove
  BY ZenonT(60), <1>1, RecordsStay
<1>4. Registered' = Registered /\ notices' \in [Agents \X Paths -> Notice]
  BY SMTT(60), <1>1, <1>2 DEF Registered, TypeOK
<1>5. /\ phase' \in {"serving", "closing", "closed"} /\ admin' \in BOOLEAN
      /\ drain' \in {"no", "waiting", "revoking", "stopping"}
      /\ left' = left \/ left' = Registered
  BY ZenonT(60), <1>2 DEF TypeOK, PrepareForMigration, AdminReturns, DrainDone, DrainStops, Shutdown, Close
<1>6. phase' = "closed" => \A t \in Threads : work[t] = None
  BY <1>2 DEF ClosedIsQuiet, PrepareForMigration, AdminReturns, DrainDone, DrainStops, Shutdown, Close
<1>7. left' \subseteq Registered' /\ ClosedIsQuiet'
  BY <1>1, <1>2, <1>4, <1>5, <1>6 DEF ClosedIsQuiet
<1> QED
  BY ZenonT(60), <1>1, <1>3, <1>4, <1>5, <1>7, BesideStep

-----------------------------------------------------------------------------
(* Theorems.                                                               *)

\* A server that has just started satisfies the invariant.
LEMMA InitHook == Init => HookInv
<1> SUFFICES ASSUME Init PROVE HookInv
  OBVIOUS
<1> USE DEF Init
<1>1. TypeOK
  <2>1. rec \in [Paths -> ArtifactRecord \cup {None}] /\ row \in [Paths -> SUBSET Agents]
    BY ZenonT(60)
  <2>2. notices \in [Agents \X Paths -> Notice] /\ work \in [Threads -> Request \cup {None}]
    BY ZenonT(60) DEF Notice
  <2>3. owed \in [Sessions -> Int] /\ requests \in 0 .. MaxRequests
    BY HookAssumption
  <2>4. /\ strict \in SUBSET Paths /\ pending \in SUBSET Sessions /\ left \in SUBSET Paths
        /\ missed \in SUBSET (Agents \X Paths) /\ admin \in BOOLEAN
        /\ phase = "serving" /\ drain = "no"
    BY ZenonT(60)
  <2> QED
    BY ONLY <2>1, <2>2, <2>3, <2>4 DEF TypeOK
<1>2. Registered = {} /\ RecordsAreSound
  BY DEF Registered, RecordsAreSound
<1>3. \A s \in Sessions : Rebuilders(s) = {}
  BY DEF Rebuilders, Running
<1>4. RegroundOnce
  <2>1. \A s \in Sessions : owed[s] = 0 /\ s \notin pending
    BY ZenonT(60)
  <2>2. Cardinality({}) = 0
    BY FS_EmptySet
  <2> QED
    BY ONLY SMTT(60), <1>3, <2>1, <2>2 DEF RegroundOnce
<1>5. ClosedIsQuiet /\ left \subseteq Registered
  BY DEF ClosedIsQuiet
<1> QED
  BY <1>1, <1>2, <1>4, <1>5 DEF HookInv

\* Every step of a handler's work keeps the invariant.
LEMMA HandlerInv ==
  ASSUME HookInv, NEW t \in Threads, HandlerStep(t)
  PROVE  HookInv'
<1>1. CASE ReadLookup(t) \/ ReadFirst(t) \/ ReadDenied(t) \/ ReadFresh(t) \/ ReadStale(t)
           \/ ReadHeal(t)
  BY ZenonT(60), <1>1, ReadLookupStep, ReadFirstStep, ReadDeniedStep, ReadFreshStep,
     ReadStaleStep, ReadHealStep
<1>2. CASE EditLookup(t) \/ EditStrict(t) \/ EditPeers(t) \/ EditWrite(t) \/ EditRecord(t)
  BY ZenonT(60), <1>2, EditLookupStep, EditStrictStep, EditPeersStep, EditWriteStep,
     EditRecordStep
<1>3. CASE PostCommit(t) \/ PostWhy(t) \/ PostFail(t)
           \/ \E expected \in 1 .. MaxRequests : PostCas(t, expected)
  BY ZenonT(60), <1>3, PostCommitStep, PostWhyStep, PostFailStep, PostCasStep
<1>4. CASE StopHeld(t) \/ StopRelease(t) \/ StartContext(t) \/ StartArm(t)
  BY ZenonT(60), <1>4, StopHeldStep, StopReleaseStep, StartContextStep, StartArmStep
<1>5. CASE BashNext(t) \/ GrepNext(t) \/ ScanEnd(t) \/ ScanState(t) \/ ScanGrant(t)
  BY ZenonT(60), <1>5, BashNextStep, GrepNextStep, ScanEndStep, ScanStateStep, ScanGrantStep
<1>6. CASE Surface(t) \/ UntrackedPath(t) \/ Claim(t) \/ Rebuild(t)
  BY ZenonT(60), <1>6, SurfaceStep, UntrackedStep, ClaimStep, RebuildStep
<1> QED
  BY ZenonT(60), <1>1, <1>2, <1>3, <1>4, <1>5, <1>6 DEF HandlerStep

\* Every step of the server keeps the invariant.
LEMMA NextHook == HookInv /\ [Next]_vars => HookInv'
<1> SUFFICES ASSUME HookInv, [Next]_vars PROVE HookInv'
  OBVIOUS
<1>1. ASSUME NEW t \in Threads, Arrives(t) \/ Timeout(t) \/ HandlerStep(t) PROVE HookInv'
  BY ZenonT(60), <1>1, ArrivesStep, TimeoutStep, HandlerInv
<1>2. CASE Migration
  BY ZenonT(60), <1>2, DrainRevokeStep, PhaseStep DEF Migration
<1>3. CASE Shutdown \/ Close
  BY ZenonT(60), <1>3, PhaseStep
<1>4. CASE UNCHANGED vars
  <2>1. UNCHANGED <<strict, work, pending, owed, requests>> /\ UNCHANGED <<rec, row, missed>>
        /\ UNCHANGED <<notices, phase, drain, admin, left>>
    BY <1>4 DEF vars
  <2>2. RecordsMove
    BY ZenonT(60), <2>1, RecordsStay
  <2>3. left' \subseteq Registered' /\ ClosedIsQuiet'
    BY SMTT(60), <2>1, <2>2 DEF HookInv, RecordsMove, ClosedIsQuiet
  <2>4. /\ phase' \in {"serving", "closing", "closed"} /\ admin' \in BOOLEAN
        /\ drain' \in {"no", "waiting", "revoking", "stopping"}
        /\ notices' \in [Agents \X Paths -> Notice]
    BY SMTT(60), <2>1 DEF HookInv, TypeOK
  <2> QED
    BY ZenonT(60), <2>1, <2>2, <2>3, <2>4, BesideStep
<1> QED
  BY ZenonT(60), <1>1, <1>2, <1>3, <1>4, SweepsStep DEF Next, Stopped

\* The inductive invariant holds of every behaviour of the server.
THEOREM HookInvariance == Spec => []HookInv
<1> QED
  BY InitHook, NextHook, PTL DEF Spec

\* Whatever threads do between one another's transactions, a path has one writer,
\* a compaction one re-grounding, and a closed registry no user.
THEOREM ServerStaysSound == Spec => []ServerIsSound
<1>1. HookInv => ServerIsSound
  <2> SUFFICES ASSUME HookInv PROVE ServerIsSound
    OBVIOUS
  <2>1. ASSUME NEW p \in Registered PROVE Cardinality(Owners(rec[p])) <= 1
    <3>1. \A a, b \in Owners(rec[p]) : a = b
      BY DEF HookInv, RecordsAreSound, OneOwner, Owners
    <3>2. CASE Owners(rec[p]) = {}
      BY SMTT(60), <3>2, FS_EmptySet
    <3>3. CASE Owners(rec[p]) # {}
      <4>1. PICK a : Owners(rec[p]) = {a}
        BY ZenonT(60), <3>1, <3>3
      <4> QED
        BY SMTT(60), <4>1, FS_Singleton
    <3> QED
      BY SMTT(60), <3>2, <3>3
  <2> QED
    BY <2>1 DEF HookInv, ServerIsSound, SingleWriter
<1> QED
  BY <1>1, HookInvariance, PTL

-----------------------------------------------------------------------------
(* What a client may conclude from its answer.                             *)

\* A thread's work is rewritten by its own steps only.
LEMMA OwnWork ==
  ASSUME HookInv, [Next]_vars, NEW t \in Threads, work'[t] # work[t]
  PROVE  Arrives(t) \/ Timeout(t) \/ HandlerStep(t)
<1>1. work \in [Threads -> Request \cup {None}]
  BY DEF HookInv, TypeOK
<1>2. ASSUME NEW u \in Threads, Arrives(u) \/ Timeout(u) \/ HandlerStep(u), u # t
      PROVE  FALSE
  <2>1. CASE Arrives(u)
    BY ZenonT(60), <1>1, <1>2, <2>1 DEF Arrives, Dispatch
  <2>2. CASE Timeout(u)
    BY <1>1, <1>2, <2>2 DEF Timeout
  <2>3. CASE ReadLookup(u) \/ ReadFirst(u) \/ ReadDenied(u) \/ ReadFresh(u) \/ ReadStale(u)
             \/ ReadHeal(u)
    BY <1>1, <1>2, <2>3
       DEF ReadLookup, ReadFirst, ReadDenied, ReadFresh, ReadStale, ReadHeal, Goto, Finish
  <2>4. CASE EditLookup(u) \/ EditStrict(u) \/ EditPeers(u) \/ EditWrite(u) \/ EditRecord(u)
    BY <1>1, <1>2, <2>4
       DEF EditLookup, EditStrict, EditPeers, EditWrite, EditRecord, Goto, Finish
  <2>5. CASE PostCommit(u) \/ PostWhy(u) \/ PostFail(u)
             \/ \E expected \in 1 .. MaxRequests : PostCas(u, expected)
    BY <1>1, <1>2, <2>5 DEF PostCommit, PostWhy, PostFail, PostCas, Goto, Finish
  <2>6. CASE StopHeld(u) \/ StopRelease(u) \/ StartContext(u) \/ StartArm(u)
    BY SMTT(60), <1>1, <1>2, <2>6 DEF StopHeld, StopRelease, StartContext, StartArm, Goto, Finish
  <2>7. CASE BashNext(u) \/ GrepNext(u) \/ ScanEnd(u) \/ ScanState(u) \/ ScanGrant(u)
    BY ZenonT(60), <1>1, <1>2, <2>7 DEF BashNext, GrepNext, ScanEnd, ScanState, ScanGrant, Goto, Finish
  <2>8. CASE Surface(u) \/ UntrackedPath(u) \/ Claim(u) \/ Rebuild(u)
    BY <1>1, <1>2, <2>8 DEF Surface, UntrackedPath, Claim, Rebuild, Goto, Finish
  <2> QED
    BY ZenonT(60), <1>2, <2>1, <2>2, <2>3, <2>4, <2>5, <2>6, <2>7, <2>8 DEF HandlerStep
<1>3. CASE Sweeps \/ Migration \/ Shutdown \/ Close \/ Stopped \/ UNCHANGED vars
  <2>1. work' = work
    BY ZenonT(60), <1>3 DEF Sweeps, Reclaim, TransientTimeout, EvictNotice, Migration, PrepareForMigration,
                AdminReturns, DrainDone, DrainRevoke, DrainStops, Shutdown, Close, Stopped, vars
  <2> QED
    BY <2>1
<1> QED
  BY ZenonT(60), <1>2, <1>3 DEF Next

\* A read that is at its lookup answers "fresh" only for a valid copy, and a
\* valid copy has not been overtaken.
LEMMA FreshStep ==
  ASSUME HookInv, [Next]_vars, NEW t \in Threads, Running(t, "state"), work[t].kind \in Reads,
         work'[t] # None, work'[t].status = "fresh"
  PROVE  <<work[t].agent, work[t].path>> \notin missed
<1>1. /\ work[t] # None /\ work[t].pc = "state" /\ work[t].kind \notin Scans
      /\ work \in [Threads -> Request \cup {None}]
  BY DEF Running, Reads, Scans, HookInv, TypeOK
<1>2. /\ work[t] \in Request /\ WorkIsSound(work[t], Registered)
      /\ work[t].agent \in Agents /\ work[t].path \in Paths
  BY ZenonT(60), <1>1, AtWork
<1>3. work[t].status = "none" /\ work[t].path \in Registered
  BY SMTT(60), <1>1, <1>2 DEF WorkIsSound
<1>4. work'[t] # work[t]
  BY <1>3
<1>5. Arrives(t) \/ Timeout(t) \/ HandlerStep(t)
  BY ZenonT(60), <1>4, OwnWork
<1>6. ~Arrives(t)
  BY <1>1 DEF Arrives, Dispatch
<1>7. ~Timeout(t)
  BY SMTT(60), <1>1, <1>2, <1>3 DEF Timeout, Request
<1>8. ReadDenied(t) \/ ReadFresh(t) \/ ReadStale(t)
  BY SMTT(60), <1>1, <1>5, <1>6, <1>7
     DEF HandlerStep, Starts, Running, ReadLookup, ReadFirst, ReadHeal, EditLookup, EditStrict,
         EditPeers, EditWrite, EditRecord, PostCommit, PostWhy, PostFail, PostCas, StopHeld,
         StopRelease, StartContext, StartArm, BashNext, GrepNext, ScanEnd, ScanState, ScanGrant,
         Surface, UntrackedPath, Claim, Rebuild
<1>9. ~ReadDenied(t)
  BY <1>1 DEF ReadDenied, Finish
<1>10. ~ReadStale(t)
  BY SMTT(60), <1>1, <1>2 DEF ReadStale, Request
<1>11. Valid(work[t].path, work[t].agent)
  BY SMTT(60), <1>8, <1>9, <1>10 DEF ReadFresh
<1>12. rec[work[t].path].state[work[t].agent] # "INVALID"
  BY SMTT(60), <1>11 DEF Valid, get_agent_state
<1> QED
  BY <1>2, <1>12 DEF HookInv, RecordsAreSound

\* What abandoned work may still do to a registered path.
Inert(t, p) ==
  /\ rec'[p].version = rec[p].version
  /\ Owners(rec'[p]) \subseteq Owners(rec[p])
  /\ valid_holders(rec[p]) \ {work[t].agent} \subseteq valid_holders(rec'[p])

\* A SHARED grant takes no copy from another agent.
LEMMA GrantIsInert ==
  ASSUME HookInv, NEW t \in Threads, work[t] # None,
         work[t].pc \in {"first", "heal"},
         GrantShared(work[t].path, work[t].agent), Told(work[t].path, work[t].agent)
  PROVE  \A p \in Registered : Inert(t, p)
<1>1. WorkIsSound(work[t], Registered) /\ work[t].agent \in Agents
  BY ZenonT(60), AtWork
<1>2. work[t].path \in Registered
  BY <1>1 DEF WorkIsSound
<1>3. ASSUME NEW p \in Registered
      PROVE  rec'[p] = rec[p] \/ Becomes(rec[p], rec'[p], work[t].agent, "SHARED")
  BY ZenonT(60), <1>1, <1>2, GrantMoves
<1>4. ASSUME NEW p \in Registered PROVE Inert(t, p)
  <2>1. CASE rec'[p] = rec[p]
    BY SMTT(60), <2>1 DEF Inert
  <2>2. CASE Becomes(rec[p], rec'[p], work[t].agent, "SHARED")
    BY SMTT(60), <1>1, <2>2 DEF Becomes, Inert, Owners, valid_holders, M_OR_E_STATES
  <2> QED
    BY SMTT(60), <1>3, <2>1, <2>2
<1> QED
  BY <1>4

\* Registering a path touches no registered one.
LEMMA LookupIsInert ==
  ASSUME HookInv, NEW t \in Threads, NEW p \in Paths, resolve_or_register(p),
         UNCHANGED <<row, missed>>
  PROVE  \A f \in Registered : Inert(t, f)
<1>1. \A f \in Registered : rec'[f] = rec[f]
  BY ZenonT(60), RegisterMoves
<1> QED
  BY <1>1 DEF Inert

\* No step of abandoned work commits, acquires or revokes.
LEMMA AbandonedStep ==
  ASSUME HookInv, NEW t \in Threads, work[t] # None, work[t].abort, HandlerStep(t)
  PROVE  \A p \in Registered : Inert(t, p)
<1>0. work[t].path \in Paths /\ work[t].todo \subseteq Paths
  BY ZenonT(60), AtWork
<1>1. CASE rec' = rec
  BY <1>1 DEF Inert
<1>2. CASE ReadLookup(t) \/ EditLookup(t)
  BY ZenonT(60), <1>0, <1>2, LookupIsInert DEF ReadLookup, EditLookup
<1>3. CASE BashNext(t)
  <2>1. PICK p \in Paths : resolve_or_register(p)
    BY <1>0, <1>3 DEF BashNext
  <2> QED
    BY ZenonT(60), <1>3, <2>1, LookupIsInert DEF BashNext
<1>4. CASE ReadFirst(t) \/ ReadHeal(t) \/ ScanGrant(t)
  <2>1. /\ work[t].pc \in {"first", "heal"}
        /\ GrantShared(work[t].path, work[t].agent) /\ Told(work[t].path, work[t].agent)
    BY ZenonT(60), <1>4 DEF ReadFirst, ReadHeal, ScanGrant, Running
  <2> QED
    BY ZenonT(60), <2>1, GrantIsInert
<1>5. CASE ReadDenied(t) \/ ReadFresh(t) \/ ReadStale(t) \/ EditStrict(t) \/ EditPeers(t)
           \/ EditRecord(t) \/ PostWhy(t) \/ StopHeld(t) \/ StartContext(t) \/ StartArm(t)
           \/ GrepNext(t) \/ ScanEnd(t) \/ ScanState(t) \/ Surface(t) \/ UntrackedPath(t)
           \/ Claim(t) \/ Rebuild(t)
  <2>1. rec' = rec
    BY ZenonT(60), <1>5 DEF ReadDenied, ReadFresh, ReadStale, EditStrict, EditPeers, EditRecord, PostWhy,
       StopHeld, StartContext, StartArm, GrepNext, ScanEnd, ScanState, Surface, UntrackedPath,
       Claim, Rebuild
  <2> QED
    BY ZenonT(60), <1>1, <2>1
<1>6. CASE EditWrite(t) \/ PostCommit(t) \/ PostFail(t) \/ StopRelease(t)
           \/ \E expected \in 1 .. MaxRequests : PostCas(t, expected)
  <2>1. rec' = rec
    BY ZenonT(60), <1>6 DEF EditWrite, PostCommit, PostFail, StopRelease, PostCas
  <2> QED
    BY ZenonT(60), <1>1, <2>1
<1> QED
  BY ZenonT(60), <1>2, <1>3, <1>4, <1>5, <1>6 DEF HandlerStep

\* Work that outlives its degraded answer commits nothing, acquires nothing and
\* takes no copy from another agent.
LEMMA AbandonedNext ==
  ASSUME HookInv, [Next]_vars, NEW t \in Threads, work[t] # None, work[t].abort,
         work'[t] # work[t]
  PROVE  \A p \in Registered : Inert(t, p)
<1>1. Arrives(t) \/ Timeout(t) \/ HandlerStep(t)
  BY ZenonT(60), OwnWork
<1>2. ~Arrives(t)
  BY ZenonT(60) DEF Arrives, Dispatch
<1>3. ~Timeout(t)
  BY DEF Timeout
<1> QED
  BY ZenonT(60), <1>1, <1>2, <1>3, AbandonedStep

\* A client may act on an answer: "fresh" is not said of an overtaken copy, and
\* nothing lands after "degraded" (the pre- and post-hooks under the watchdog).
THEOREM ServerAnswersHonestly == Spec => AnswersAreHonest
<1>1. HookInv /\ [Next]_vars =>
        [\A t \in Threads :
           /\ Running(t, "state") /\ work[t].kind \in Reads
           /\ work'[t] # None /\ work'[t].status = "fresh"
           => <<work[t].agent, work[t].path>> \notin missed]_vars
  BY ZenonT(60), FreshStep
<1>2. HookInv /\ [Next]_vars =>
        [\A t \in Threads :
           work[t] # None /\ work[t].abort /\ work'[t] # work[t]
           => \A p \in Registered :
                /\ rec'[p].version = rec[p].version
                /\ Owners(rec'[p]) \subseteq Owners(rec[p])
                /\ valid_holders(rec[p]) \ {work[t].agent} \subseteq valid_holders(rec'[p])]_vars
  BY ZenonT(60), AbandonedNext DEF Inert
<1>3. Spec => FreshIsHonest
  BY <1>1, HookInvariance, PTL DEF Spec, FreshIsHonest
<1>4. Spec => AbandonedIsInert
  BY <1>2, HookInvariance, PTL DEF Spec, AbandonedIsInert
<1> QED
  BY <1>3, <1>4 DEF AnswersAreHonest
=============================================================================
