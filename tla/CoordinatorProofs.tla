------------------------- MODULE CoordinatorProofs -------------------------
(***************************************************************************)
(* Proofs about Coordinator.  A service call rewrites one record, so the   *)
(* step argument over the whole state rests on the facts about single      *)
(* records of RecordProofs.  The second half shows that Coordinator        *)
(* implements CoherentStore: what a call does to one record maps to what   *)
(* one step of the store does to one artifact.                             *)
(***************************************************************************)
EXTENDS CoordinatorRefinement, RecordProofs

-----------------------------------------------------------------------------
(* The inductive invariant.                                                *)

\* The shared argument of every action that rewrites the record of one live
\* artifact: it is enough that the new record is well formed and no older,
\* that new signals announce at most its version, and that the claims in the
\* revoked set are behind its epoch.
LEMMA RecordStep ==
  ASSUME IndInv, NEW f \in Live, NEW q, RecordInv(q),
         q.version >= records[f].version,
         records' = [records EXCEPT ![f] = q],
         gone' = gone,
         heartbeat' \in [Agents -> OptNat], now' \in Nat,
         sweep' = None \/ sweep' \in Sweep,
         issued' \in SUBSET Signal,
         \A s \in issued' \ issued : s.artifact = f /\ s.version <= q.version,
         revoked' \in [Artifacts -> SUBSET Agents],
         \A g \in Artifacts \ {f} : revoked'[g] = revoked[g],
         \A a \in revoked'[f] : StaleReadGeneration(q, a)
  PROVE  IndInv'
<1>. f \in Artifacts /\ q \in ArtifactRecord /\ q # None
  BY NoneIsNoRecord DEF Live, RecordInv
<1>1. TypeOK'
  BY ZenonT(60) DEF TypeOK, IndInv
<1>2. Live' = Live
  BY DEF Live, IndInv, TypeOK
<1>3. records'[f] = q /\ \A g \in Artifacts \ {f} : records'[g] = records[g]
  BY DEF IndInv, TypeOK
<1>4. \A g \in Live' : /\ RecordInv(records'[g])
                       /\ \A a \in revoked'[g] : StaleReadGeneration(records'[g], a)
  BY SMTT(60), <1>2, <1>3 DEF IndInv, Live
<1>5. \A s \in issued' : IF s.artifact \in Live'
                          THEN s.version <= records'[s.artifact].version
                          ELSE s.artifact \in gone'
  <2>. TAKE s \in issued'
  <2>1. CASE s \in issued /\ s.artifact = f
    <3>1. s.version <= records[f].version /\ s.version \in Nat
      BY SMTT(60), <2>1 DEF IndInv, TypeOK, Signal
    <3>2. records[f].version \in Nat /\ q.version \in Nat
      BY ZenonT(60) DEF IndInv, RecordInv, ArtifactRecord
    <3>. QED
      BY <1>2, <1>3, <2>1, <3>1, <3>2
  <2>2. CASE s \in issued /\ s.artifact # f
    BY SMTT(60), <1>2, <1>3, <2>2 DEF IndInv, Live
  <2>3. CASE s \notin issued
    BY <1>2, <1>3, <2>3
  <2>. QED
    BY <2>1, <2>2, <2>3
<1>6. \A g \in gone' : records'[g] = None
  BY SMTT(60), <1>3 DEF IndInv, Live, TypeOK
<1>7. \A g \in Artifacts : records'[g] = None /\ g \notin gone' => revoked'[g] = {}
  BY <1>3 DEF IndInv, Live
<1>. QED
  BY SMTT(60), <1>1, <1>4, <1>5, <1>6, <1>7 DEF IndInv

\* Signals minted for an artifact announce the version they were minted with.
LEMMA SignalsForFacts ==
  ASSUME NEW f \in Artifacts, NEW a \in Agents, NEW H, NEW v \in Nat
  PROVE  /\ SignalsFor(f, a, H, v) \subseteq Signal
         /\ \A s \in SignalsFor(f, a, H, v) : s.artifact = f /\ s.version = v
  BY DEF SignalsFor, Signal

\* The initial state satisfies the invariant.
LEMMA InitIndInv == Init => IndInv
  BY DEF Init, IndInv, TypeOK, Live, OptNat

\* Registering an artifact preserves the invariant.
LEMMA RegisterStep ==
  ASSUME IndInv, NEW f \in Artifacts, NEW owner \in Agents \cup {None}, Register(f, owner)
  PROVE  IndInv'
<1>. DEFINE q == IF owner = None THEN register_artifact
                 ELSE set_agent_state(register_artifact, owner, "EXCLUSIVE", "register", 0)
<1>1. RecordInv(q)
  BY RegisterEstablishes
<1>2. /\ records[f] = None /\ f \notin gone /\ revoked[f] = {}
      /\ records' = [records EXCEPT ![f] = q]
      /\ UNCHANGED <<gone, heartbeat, now, issued, sweep, revoked>>
  BY DEF Register, IndInv
<1>. HIDE DEF q
<1>3. q \in ArtifactRecord /\ q # None
  BY <1>1, NoneIsNoRecord DEF RecordInv
<1>4. TypeOK'
  BY <1>2, <1>3 DEF TypeOK, IndInv
<1>5. records'[f] = q /\ \A g \in Artifacts \ {f} : records'[g] = records[g]
  BY <1>2 DEF IndInv, TypeOK
<1>6. Live' = Live \cup {f} /\ f \notin Live
  BY <1>2, <1>3, <1>5 DEF Live
<1>7. \A s \in issued : s.artifact # f
  BY SMTT(60), <1>2, <1>6 DEF IndInv
<1>8. \A s \in issued' : IF s.artifact \in Live'
                          THEN s.version <= records'[s.artifact].version
                          ELSE s.artifact \in gone'
  BY SMTT(60), <1>2, <1>5, <1>6, <1>7 DEF IndInv, Live
<1>9. \A g \in Live' : /\ RecordInv(records'[g])
                       /\ \A a \in revoked'[g] : StaleReadGeneration(records'[g], a)
  BY SMTT(60), <1>1, <1>2, <1>5, <1>6 DEF IndInv, Live
<1>. QED
  BY ZenonT(60), <1>2, <1>3, <1>4, <1>5, <1>8, <1>9 DEF IndInv, TypeOK

\* Fetching preserves the invariant.
LEMMA FetchStep ==
  ASSUME IndInv, NEW a \in Agents, NEW f \in Artifacts, fetch(a, f)
  PROVE  IndInv'
<1>. DEFINE q == FetchRecord(records[f], a, now)
<1>1. f \in Live /\ RecordInv(records[f]) /\ now \in Nat
  BY DEF fetch, IndInv, TypeOK
<1>2. /\ RecordInv(q)
      /\ q.version = records[f].version
      /\ q.owner_generation = records[f].owner_generation
      /\ \A p \in Agents \ {a} : q.read_generation[p] = records[f].read_generation[p]
  BY <1>1, FetchPreserves
<1>3. /\ records' = [records EXCEPT ![f] = q]
      /\ revoked' = [revoked EXCEPT ![f] = @ \ {a}]
      /\ UNCHANGED <<gone, heartbeat, now, issued, sweep>>
  BY DEF fetch, Claimed
<1>. HIDE DEF q
<1>4. /\ revoked' \in [Artifacts -> SUBSET Agents]
      /\ \A g \in Artifacts \ {f} : revoked'[g] = revoked[g]
      /\ revoked'[f] = revoked[f] \ {a} /\ revoked[f] \subseteq Agents
  BY SMTT(60), <1>3 DEF IndInv, TypeOK
<1>5. \A p \in revoked'[f] : StaleReadGeneration(q, p)
  BY SMTT(60), <1>1, <1>2, <1>4 DEF IndInv, StaleReadGeneration
<1>6. q.version >= records[f].version
  BY <1>1, <1>2 DEF RecordInv, ArtifactRecord
<1>. QED
  BY ZenonT(60), <1>1, <1>2, <1>3, <1>4, <1>5, <1>6, RecordStep DEF IndInv, TypeOK

\* Acquiring ownership preserves the invariant.
LEMMA WriteStep ==
  ASSUME IndInv, NEW a \in Agents, NEW f \in Artifacts, write(a, f)
  PROVE  IndInv'
<1>. DEFINE q == WriteRecord(records[f], a, now)
            new == SignalsFor(f, a, OtherHolders(records[f], a), records[f].version)
<1>1. f \in Live /\ RecordInv(records[f]) /\ now \in Nat
  BY DEF write, IndInv, TypeOK
<1>2. /\ RecordInv(q)
      /\ q.version = records[f].version
      /\ q.owner_generation = records[f].owner_generation
      /\ \A p \in Agents \ {a} : q.read_generation[p] = records[f].read_generation[p]
  BY <1>1, WritePreserves
<1>3. /\ records' = [records EXCEPT ![f] = q]
      /\ issued' = issued \cup new
      /\ revoked' = [revoked EXCEPT ![f] = @ \ {a}]
      /\ UNCHANGED <<gone, heartbeat, now, sweep>>
  BY SMTT(60) DEF write, Claimed
<1>4. records[f].version \in Nat
  BY <1>1 DEF RecordInv, ArtifactRecord
<1>5. new \subseteq Signal /\ \A s \in new : s.artifact = f /\ s.version = records[f].version
  BY SMTT(60), <1>4, SignalsForFacts
<1>. HIDE DEF q, new
<1>6. /\ revoked' \in [Artifacts -> SUBSET Agents]
      /\ \A g \in Artifacts \ {f} : revoked'[g] = revoked[g]
      /\ revoked'[f] = revoked[f] \ {a} /\ revoked[f] \subseteq Agents
  BY <1>3 DEF IndInv, TypeOK
<1>7. \A p \in revoked'[f] : StaleReadGeneration(q, p)
  BY <1>1, <1>2, <1>6 DEF IndInv, StaleReadGeneration
<1>8. /\ issued' \in SUBSET Signal
      /\ \A s \in issued' \ issued : s.artifact = f /\ s.version <= q.version
      /\ q.version >= records[f].version
  BY SMTT(60), <1>2, <1>3, <1>4, <1>5 DEF IndInv, TypeOK
<1>. QED
  BY ZenonT(60), <1>1, <1>2, <1>3, <1>6, <1>7, <1>8, RecordStep DEF IndInv, TypeOK

\* Publishing one artifact, pessimistically or optimistically, preserves the
\* invariant: the version moves by one and no claim or epoch changes.
LEMMA PublishStep ==
  ASSUME IndInv, NEW a \in Agents, NEW f \in Live, NEW q,
         RecordInv(q),
         q.version = records[f].version + 1,
         q.owner_generation = records[f].owner_generation,
         \A p \in Agents : q.read_generation[p] = records[f].read_generation[p],
         records' = [records EXCEPT ![f] = q],
         issued' = issued \cup
           SignalsFor(f, a, OtherHolders(records[f], a), records[f].version + 1),
         UNCHANGED <<gone, heartbeat, now, sweep, revoked>>
  PROVE  IndInv'
<1>. DEFINE new == SignalsFor(f, a, OtherHolders(records[f], a), records[f].version + 1)
<1>1. f \in Artifacts /\ RecordInv(records[f]) /\ records[f].version \in Nat
  BY ZenonT(60) DEF IndInv, Live, RecordInv, ArtifactRecord
<1>2. new \subseteq Signal /\ \A s \in new : s.artifact = f /\ s.version = q.version
  BY SMTT(60), <1>1, SignalsForFacts
<1>. HIDE DEF new
<1>3. \A p \in revoked'[f] : StaleReadGeneration(q, p)
  BY SMTT(60), <1>1 DEF IndInv, TypeOK, StaleReadGeneration
<1>4. /\ issued' \in SUBSET Signal
      /\ \A s \in issued' \ issued : s.artifact = f /\ s.version <= q.version
      /\ q.version >= records[f].version
  BY SMTT(60), <1>1, <1>2 DEF IndInv, TypeOK, new
<1>. QED
  BY ZenonT(60), <1>1, <1>3, <1>4, RecordStep DEF IndInv, TypeOK

\* A pessimistic commit preserves the invariant.
LEMMA CommitStep ==
  ASSUME IndInv, NEW a \in Agents, NEW f \in Artifacts, commit(a, f)
  PROVE  IndInv'
<1>. DEFINE q == CommitRecord(records[f], a, now)
<1>1. /\ f \in Live /\ RecordInv(records[f]) /\ now \in Nat
      /\ records[f].state[a] \in M_OR_E_STATES
  BY SMTT(60) DEF commit, IndInv, TypeOK
<1>2. /\ RecordInv(q)
      /\ q.version = records[f].version + 1
      /\ q.owner_generation = records[f].owner_generation
      /\ \A p \in Agents : q.read_generation[p] = records[f].read_generation[p]
  BY <1>1, CommitPreserves
<1>3. /\ records' = [records EXCEPT ![f] = q]
      /\ issued' = issued \cup
           SignalsFor(f, a, OtherHolders(records[f], a), records[f].version + 1)
      /\ UNCHANGED <<gone, heartbeat, now, sweep, revoked>>
  BY DEF commit
<1>. HIDE DEF q
<1>. QED
  BY ZenonT(60), <1>1, <1>2, <1>3, PublishStep

\* An optimistic commit preserves the invariant.
LEMMA CommitCasStep ==
  ASSUME IndInv, NEW a \in Agents, NEW f \in Artifacts, NEW expected,
         commit_cas(a, f, expected)
  PROVE  IndInv'
<1>. DEFINE q == CasWin(records[f], a)
<1>1. f \in Live /\ RecordInv(records[f]) /\ OccAllowed(records[f], a)
  BY SMTT(60) DEF commit_cas, IndInv
<1>2. /\ RecordInv(q)
      /\ q.version = records[f].version + 1
      /\ q.owner_generation = records[f].owner_generation
      /\ \A p \in Agents : q.read_generation[p] = records[f].read_generation[p]
  BY <1>1, CasWinPreserves
<1>3. /\ records' = [records EXCEPT ![f] = q]
      /\ issued' = issued \cup
           SignalsFor(f, a, OtherHolders(records[f], a), records[f].version + 1)
      /\ UNCHANGED <<gone, heartbeat, now, sweep, revoked>>
  BY SMTT(60) DEF commit_cas
<1>. HIDE DEF q
<1>. QED
  BY ZenonT(60), <1>1, <1>2, <1>3, PublishStep

\* An atomic multi-artifact commit preserves the invariant.
LEMMA CommitAllStep ==
  ASSUME IndInv, NEW a \in Agents, NEW F \in SUBSET Artifacts, NEW expected,
         commit_all(a, F, expected)
  PROVE  IndInv'
<1>. DEFINE sig(f) == SignalsFor(f, a, OtherHolders(records[f], a), records[f].version + 1)
<1>1. /\ F \subseteq Live
      /\ \A f \in F : RecordInv(records[f]) /\ OccAllowed(records[f], a)
      /\ records' = [f \in Artifacts |->
                       IF f \in F THEN CasWin(records[f], a) ELSE records[f]]
      /\ issued' = issued \cup UNION {sig(f) : f \in F}
      /\ UNCHANGED <<gone, heartbeat, now, sweep, revoked>>
  BY SMTT(60) DEF commit_all, IndInv
<1>2. \A f \in F : /\ RecordInv(records'[f])
                   /\ records'[f].version = records[f].version + 1
                   /\ records'[f].owner_generation = records[f].owner_generation
                   /\ \A p \in Agents :
                        records'[f].read_generation[p] = records[f].read_generation[p]
  <2>. TAKE f \in F
  <2>1. records'[f] = CasWin(records[f], a)
    BY SMTT(60), <1>1
  <2>. QED
    BY SMTT(60), <1>1, <2>1, CasWinPreserves
<1>3. \A f \in Artifacts \ F : records'[f] = records[f]
  BY SMTT(60), <1>1
<1>4. \A f \in F : records'[f] \in ArtifactRecord /\ records'[f] # None /\ records[f] # None
  BY ZenonT(60), <1>1, <1>2, NoneIsNoRecord DEF RecordInv, Live
<1>5. Live' = Live
  BY <1>3, <1>4 DEF Live
<1>6. \A f \in F : records[f].version \in Nat
  BY ZenonT(60), <1>1 DEF RecordInv, ArtifactRecord
<1>7. \A f \in F : sig(f) \subseteq Signal /\
                    \A s \in sig(f) : s.artifact = f /\ s.version = records[f].version + 1
  BY SMTT(60), <1>6, SignalsForFacts
<1>. HIDE DEF sig
<1>8. TypeOK'
  <2>1. records' \in [Artifacts -> ArtifactRecord \cup {None}]
    BY ZenonT(60), <1>1, <1>3, <1>4 DEF IndInv, TypeOK
  <2>2. issued' \in SUBSET Signal
    BY SMTT(60), <1>1, <1>7 DEF IndInv, TypeOK
  <2>. QED
    BY SMTT(60), <1>1, <2>1, <2>2 DEF IndInv, TypeOK
<1>9. \A f \in Live' : /\ RecordInv(records'[f])
                       /\ \A p \in revoked'[f] : StaleReadGeneration(records'[f], p)
  <2>. TAKE f \in Live'
  <2>1. CASE f \in F
    <3>1. revoked'[f] \subseteq Agents /\ \A p \in revoked'[f] : StaleReadGeneration(records[f], p)
      BY SMTT(60), <1>1, <1>5 DEF IndInv, TypeOK, Live
    <3>. QED
      BY SMTT(60), <1>2, <2>1, <3>1 DEF StaleReadGeneration
  <2>2. CASE f \notin F
    BY <1>1, <1>3, <1>5, <2>2 DEF IndInv, Live
  <2>. QED
    BY <2>1, <2>2
<1>10. \A s \in issued' : IF s.artifact \in Live'
                           THEN s.version <= records'[s.artifact].version
                           ELSE s.artifact \in gone'
  <2>. TAKE s \in issued'
  <2>1. CASE s \in issued
    <3>1. s.version \in Nat /\ s.artifact \in Artifacts
      BY SMTT(60), <2>1 DEF IndInv, TypeOK, Signal
    <3>2. IF s.artifact \in Live THEN s.version <= records[s.artifact].version
                                 ELSE s.artifact \in gone
      BY SMTT(60), <2>1 DEF IndInv
    <3>3. CASE s.artifact \in F
      <4>1. /\ records'[s.artifact].version = records[s.artifact].version + 1
            /\ records[s.artifact].version \in Nat
        BY SMTT(60), <1>2, <1>6, <3>3
      <4>. QED
        BY SMTT(60), <1>1, <1>5, <3>1, <3>2, <3>3, <4>1
    <3>4. CASE s.artifact \notin F
      BY SMTT(60), <1>1, <1>3, <1>5, <3>1, <3>2, <3>4
    <3>. QED
      BY <3>3, <3>4
  <2>2. CASE s \notin issued
    <3>1. PICK f \in F : s \in sig(f)
      BY <1>1, <2>2
    <3>2. /\ s.artifact = f /\ s.version = records[f].version + 1
          /\ records[f].version \in Nat /\ f \in Live'
      BY SMTT(60), <1>1, <1>5, <1>6, <1>7, <3>1
    <3>. QED
      BY <1>2, <3>2
  <2>. QED
    BY <2>1, <2>2
<1>11. (\A f \in gone : records[f] = None)'
  BY SMTT(60), <1>1, <1>3 DEF IndInv, Live, TypeOK
<1>12. (\A f \in Artifacts : records[f] = None /\ f \notin gone => revoked[f] = {})'
  BY SMTT(60), <1>1, <1>3, <1>4 DEF IndInv
<1>. QED
  BY SMTT(60), <1>8, <1>9, <1>10, <1>11, <1>12 DEF IndInv

\* The shared argument of the three ways a claim is revoked: a delivered or
\* self-issued invalidation, a transient timeout, a reclaimed grant.
LEMMA RevokeStep ==
  ASSUME IndInv, NEW f \in Live, NEW a \in Agents, NEW q,
         Revocation(records[f], q, a),
         records' = [records EXCEPT ![f] = q],
         Revoked(f, a),
         sweep' = None \/ sweep' \in Sweep,
         UNCHANGED <<gone, heartbeat, now, issued>>
  PROVE  IndInv'
<1>1. f \in Artifacts /\ RecordInv(records[f])
  BY ZenonT(60) DEF IndInv, Live
<1>2. /\ revoked' \in [Artifacts -> SUBSET Agents]
      /\ \A g \in Artifacts \ {f} : revoked'[g] = revoked[g]
      /\ revoked'[f] = IF records[f].state[a] \in M_OR_E_STATES
                         THEN revoked[f] \cup {a} ELSE revoked[f]
      /\ revoked[f] \subseteq Agents
  BY SMTT(60), <1>1 DEF Revoked, IndInv, TypeOK
<1>3. /\ RecordInv(q)
      /\ q.version = records[f].version
      /\ q.owner_generation \in {records[f].owner_generation, records[f].owner_generation + 1}
      /\ \A p \in Agents : q.read_generation[p] = records[f].read_generation[p]
      /\ records[f].state[a] \in M_OR_E_STATES => StaleReadGeneration(q, a)
  BY SMTT(60) DEF Revocation
<1>4. ASSUME NEW p \in revoked[f] PROVE StaleReadGeneration(q, p)
  <2>1. /\ StaleReadGeneration(records[f], p) /\ p \in Agents
        /\ records[f].read_generation[p] \in OptNat
        /\ records[f].owner_generation \in Nat
    BY ZenonT(60), <1>1, <1>2 DEF IndInv, RecordInv, ArtifactRecord
  <2>. QED
    BY SMTT(60), <1>3, <2>1 DEF StaleReadGeneration, OptNat
<1>5. \A p \in revoked'[f] : StaleReadGeneration(q, p)
  BY SMTT(60), <1>2, <1>3, <1>4
<1>6. q.version >= records[f].version
  BY SMTT(60), <1>1, <1>3 DEF RecordInv, ArtifactRecord
<1>. QED
  BY ZenonT(60), <1>2, <1>3, <1>5, <1>6, RecordStep DEF IndInv, TypeOK

\* An honoured invalidation preserves the invariant, whoever issued it.
LEMMA InvalidateStep ==
  ASSUME IndInv, NEW a \in Agents, NEW f, NEW v, NEW issuer,
         invalidate(a, f, v, issuer)
  PROVE  IndInv'
<1>1. /\ f \in Live /\ RecordInv(records[f]) /\ now \in Nat
      /\ records' = [records EXCEPT ![f] = InvalidateRecord(records[f], a, now)]
      /\ Revoked(f, a)
      /\ UNCHANGED <<gone, heartbeat, now, issued, sweep>>
  BY DEF invalidate, IndInv, TypeOK
<1>2. Revocation(records[f], InvalidateRecord(records[f], a, now), a)
  BY <1>1, InvalidateRevokes
<1>. QED
  BY ZenonT(60), <1>1, <1>2, RevokeStep DEF IndInv, TypeOK

\* Visiting a pair leaves either no sweep or a smaller one.
LEMMA VisitedType ==
  ASSUME TypeOK, sweep # None, NEW p, Visited(p)
  PROVE  sweep' = None \/ sweep' \in Sweep
  BY DEF TypeOK, Visited, Sweep

\* Visiting a pair in the transient sweep preserves the invariant.
LEMMA SweepTransientStep ==
  ASSUME IndInv, NEW f \in Artifacts, NEW a \in Agents, SweepTransient(f, a)
  PROVE  IndInv'
<1>1. /\ sweep' = None \/ sweep' \in Sweep
      /\ sweep.tick \in Nat
      /\ UNCHANGED <<gone, heartbeat, now, issued>>
  BY VisitedType DEF SweepTransient, IndInv, TypeOK, Sweep
<1>2. CASE f \in Live /\ TransientExpired(records[f], a, sweep.tick)
  <2>1. /\ records' = [records EXCEPT ![f] = TimeoutRecord(records[f], a, sweep.tick)]
        /\ Revoked(f, a) /\ RecordInv(records[f])
    BY <1>2 DEF SweepTransient, IndInv
  <2>2. Revocation(records[f], TimeoutRecord(records[f], a, sweep.tick), a)
    BY SMTT(60), <1>1, <2>1, InvalidateRevokes
  <2>. QED
    BY ZenonT(60), <1>1, <1>2, <2>1, <2>2, RevokeStep
<1>3. CASE ~(f \in Live /\ TransientExpired(records[f], a, sweep.tick))
  <2>1. UNCHANGED <<records, revoked>>
    BY <1>3 DEF SweepTransient
  <2>. QED
    BY SMTT(60), <1>1, <2>1 DEF IndInv, TypeOK, Live
<1>. QED
  BY SMTT(60), <1>2, <1>3

\* Visiting a pair in the stable-grant sweep preserves the invariant.
LEMMA SweepGrantStep ==
  ASSUME IndInv, NEW f \in Artifacts, NEW a \in Agents, SweepGrant(f, a)
  PROVE  IndInv'
<1>. DEFINE t == ReclaimTrigger(records[f], a, sweep.tick)
<1>1. /\ sweep' = None \/ sweep' \in Sweep
      /\ sweep.tick \in Nat
      /\ UNCHANGED <<gone, heartbeat, now, issued>>
  BY SMTT(60), VisitedType DEF SweepGrant, IndInv, TypeOK, Sweep
<1>2. CASE f \in Live /\ t # None
  <2>1. /\ records' = [records EXCEPT ![f] = ReclaimRecord(records[f], a, t, sweep.tick)]
        /\ Revoked(f, a) /\ RecordInv(records[f])
    BY SMTT(60), <1>2 DEF SweepGrant, IndInv
  <2>2. t \in ReclamationSlot
    BY <1>2 DEF ReclaimTrigger, ReclamationSlot
  <2>3. Revocation(records[f], ReclaimRecord(records[f], a, t, sweep.tick), a)
    BY SMTT(60), <1>1, <2>1, <2>2, ReclaimRevokes
  <2>. QED
    BY ZenonT(60), <1>1, <1>2, <2>1, <2>3, RevokeStep
<1>3. CASE ~(f \in Live /\ t # None)
  <2>1. UNCHANGED <<records, revoked>>
    BY SMTT(60), <1>3 DEF SweepGrant
  <2>. QED
    BY <1>1, <2>1 DEF IndInv, TypeOK, Live
<1>. QED
  BY SMTT(60), <1>2, <1>3

\* Deleting an artifact preserves the invariant.
LEMMA DeleteStep ==
  ASSUME IndInv, NEW a \in Agents, NEW f \in Artifacts, delete(a, f)
  PROVE  IndInv'
<1>. DEFINE new == SignalsFor(f, a, valid_holders(records[f]), records[f].version)
<1>1. /\ f \in Live /\ records[f].version \in Nat
      /\ records' = [records EXCEPT ![f] = None]
      /\ gone' = gone \cup {f}
      /\ issued' = issued \cup new
      /\ UNCHANGED <<heartbeat, now, sweep, revoked>>
  BY ZenonT(60) DEF delete, IndInv, RecordInv, ArtifactRecord
<1>2. new \subseteq Signal /\ \A s \in new : s.artifact = f
  BY SMTT(60), <1>1, SignalsForFacts
<1>. HIDE DEF new
<1>3. TypeOK'
  BY SMTT(60), <1>1, <1>2 DEF IndInv, TypeOK
<1>4. records'[f] = None /\ \A g \in Artifacts \ {f} : records'[g] = records[g]
  BY SMTT(60), <1>1 DEF IndInv, TypeOK
<1>5. Live' = Live \ {f}
  BY SMTT(60), <1>4 DEF Live
<1>6. \A s \in issued' : IF s.artifact \in Live'
                          THEN s.version <= records'[s.artifact].version
                          ELSE s.artifact \in gone'
  <2>. TAKE s \in issued'
  <2>1. CASE s.artifact = f
    BY <1>1, <1>5, <2>1
  <2>2. CASE s.artifact # f
    <3>1. s \in issued /\ s.artifact \in Artifacts
      BY ZenonT(60), <1>1, <1>2, <2>2 DEF IndInv, TypeOK, Signal
    <3>2. IF s.artifact \in Live THEN s.version <= records[s.artifact].version
                                 ELSE s.artifact \in gone
      BY SMTT(60), <3>1 DEF IndInv
    <3>. QED
      BY SMTT(60), <1>1, <1>4, <1>5, <2>2, <3>1, <3>2
  <2>. QED
    BY SMTT(60), <2>1, <2>2
<1>7. \A g \in Live' : /\ RecordInv(records'[g])
                       /\ \A p \in revoked'[g] : StaleReadGeneration(records'[g], p)
  BY SMTT(60), <1>1, <1>4, <1>5 DEF IndInv, Live
<1>8. (\A g \in gone : records[g] = None)'
  BY SMTT(60), <1>1, <1>4 DEF IndInv, TypeOK
<1>9. (\A g \in Artifacts : records[g] = None /\ g \notin gone => revoked[g] = {})'
  BY SMTT(60), <1>1, <1>4 DEF IndInv
<1>. QED
  BY ZenonT(60), <1>3, <1>6, <1>7, <1>8, <1>9 DEF IndInv

\* Heartbeats, the clock and the start of a sweep touch no record.
LEMMA QuietStep ==
  ASSUME IndInv,
         \/ \E a \in Agents : record_heartbeat(a)
         \/ Tick
         \/ StartTransientSweep
         \/ StartGrantSweep
         \/ UNCHANGED vars
  PROVE  IndInv'
<1>1. UNCHANGED <<records, gone, issued, revoked>>
  BY SMTT(60) DEF record_heartbeat, Tick, StartTransientSweep, StartGrantSweep, StartSweep, vars
<1>2. heartbeat' \in [Agents -> OptNat] /\ now' \in Nat
  BY SMTT(60) DEF record_heartbeat, Tick, StartTransientSweep, StartGrantSweep, StartSweep, vars,
         IndInv, TypeOK, OptNat
<1>3. sweep' = None \/ sweep' \in Sweep
  <2>1. TransientPairs \subseteq Artifacts \X Agents /\ OwnerPairs \subseteq Artifacts \X Agents
    BY SMTT(60) DEF TransientPairs, OwnerPairs, Live
  <2>. QED
    BY SMTT(60), <2>1 DEF record_heartbeat, Tick, StartTransientSweep, StartGrantSweep, StartSweep, vars,
                IndInv, TypeOK, Sweep
<1>. QED
  BY ZenonT(60), <1>1, <1>2, <1>3 DEF IndInv, TypeOK, Live

\* Every step preserves the invariant.
LEMMA NextIndInv == IndInv /\ [Next]_vars => IndInv'
<1>. SUFFICES ASSUME IndInv, [Next]_vars PROVE IndInv'
  OBVIOUS
<1>1. ASSUME NEW f \in Artifacts, NEW owner \in Agents \cup {None}, Register(f, owner)
      PROVE  IndInv'
  BY <1>1, RegisterStep
<1>2. ASSUME NEW a \in Agents, NEW f \in Artifacts, fetch(a, f)
      PROVE  IndInv'
  BY <1>2, FetchStep
<1>3. ASSUME NEW a \in Agents, NEW f \in Artifacts, write(a, f)
      PROVE  IndInv'
  BY <1>3, WriteStep
<1>4. ASSUME NEW a \in Agents, NEW f \in Artifacts, commit(a, f)
      PROVE  IndInv'
  BY <1>4, CommitStep
<1>5. ASSUME NEW a \in Agents, NEW f \in Artifacts, NEW expected \in 1 .. MaxVersion,
             commit_cas(a, f, expected)
      PROVE  IndInv'
  BY <1>5, CommitCasStep
<1>6. ASSUME NEW a \in Agents, NEW F \in SUBSET Artifacts,
             NEW expected \in [F -> 1 .. MaxVersion], commit_all(a, F, expected)
      PROVE  IndInv'
  BY <1>6, CommitAllStep
<1>7. ASSUME NEW a \in Agents, NEW f \in Artifacts, Release(a, f)
      PROVE  IndInv'
  BY <1>7, InvalidateStep DEF Release
<1>8. ASSUME NEW s \in issued, DeliverInvalidation(s)
      PROVE  IndInv'
  <2>1. s.target \in Agents
    BY DEF IndInv, TypeOK, Signal
  <2>. QED
    BY <1>8, <2>1, InvalidateStep DEF DeliverInvalidation
<1>9. ASSUME NEW a \in Agents, NEW f \in Artifacts, delete(a, f)
      PROVE  IndInv'
  BY <1>9, DeleteStep
<1>10. ASSUME NEW f \in Artifacts, NEW a \in Agents, SweepTransient(f, a)
       PROVE  IndInv'
  BY <1>10, SweepTransientStep
<1>11. ASSUME NEW f \in Artifacts, NEW a \in Agents, SweepGrant(f, a)
       PROVE  IndInv'
  BY <1>11, SweepGrantStep
<1>12. ASSUME \/ \E a \in Agents : record_heartbeat(a)
              \/ Tick
              \/ StartTransientSweep
              \/ StartGrantSweep
              \/ UNCHANGED vars
       PROVE  IndInv'
  BY <1>12, QuietStep
<1>. QED
  BY ZenonT(60), <1>1, <1>2, <1>3, <1>4, <1>5, <1>6, <1>7, <1>8, <1>9, <1>10, <1>11, <1>12
     DEF Next, AgentNext, SweepNext

\* The inductive invariant holds in every reachable state.
THEOREM Invariance == Spec => []IndInv
  BY InitIndInv, NextIndInv, PTL DEF Spec

-----------------------------------------------------------------------------
(* The safety properties.                                                  *)

\* The state stays well typed.
THEOREM TypeCorrect == Spec => []TypeOK
<1>1. IndInv => TypeOK
  BY DEF IndInv
<1>. QED
  BY <1>1, Invariance, PTL

\* An owner is the only agent with a valid copy, for any number of agents and
\* artifacts: fetch, write, both commits, releases and sweeps keep it so.
THEOREM ExclusiveOwnership == Spec => []ExclusiveOwner
<1>1. IndInv => ExclusiveOwner
  BY SMTT(60) DEF IndInv, RecordInv, ExclusiveOwner, Owners, valid_holders
<1>. QED
  BY <1>1, Invariance, PTL

\* The fence never stands in the way of an agent that owns the artifact.
THEOREM OwnersAreNotFenced == Spec => []OwnerNotFenced
<1>1. IndInv => OwnerNotFenced
  BY ZenonT(60) DEF IndInv, RecordInv, OwnerNotFenced, Owners
<1>. QED
  BY <1>1, Invariance, PTL

\* A copy marked valid is a copy of the current version.
THEOREM ValidCopiesAreCurrent == Spec => []ValidCopyIsCurrent
<1>1. IndInv => ValidCopyIsCurrent
  BY ZenonT(60) DEF IndInv, RecordInv, ValidCopyIsCurrent, valid_holders
<1>. QED
  BY <1>1, Invariance, PTL

\* The directory is coherent for any number of agents, artifacts, versions and
\* signals.
THEOREM DirectoryIsCoherent == Spec => []Coherent
<1>1. ExclusiveOwner /\ OwnerNotFenced /\ ValidCopyIsCurrent => Coherent
  BY DEF Coherent
<1>. QED
  BY <1>1, ExclusiveOwnership, OwnersAreNotFenced, ValidCopiesAreCurrent, PTL

\* The transient sweep finds transients on INVALID entries only.
THEOREM TransientsAreOnInvalid == Spec => []TransientOnlyOnInvalid
<1>1. IndInv => TransientOnlyOnInvalid
  BY ZenonT(60) DEF IndInv, RecordInv, TransientOnlyOnInvalid
<1>. QED
  BY <1>1, Invariance, PTL

-----------------------------------------------------------------------------
(* The action properties.                                                  *)

\* A step that does not rewrite record f leaves its version alone, and one
\* that rewrites it with the version unmoved publishes nothing.
Publishes(f) ==
  f \in Live /\ records'[f] # None /\ records'[f].version # records[f].version

\* Only a pessimistic commit by the owner, or an optimistic one that passed
\* the arbitration, moves a version: its writer is not fenced and no other
\* agent owns the artifact.
LEMMA Publication ==
  ASSUME IndInv, Next, NEW f \in Artifacts, Publishes(f)
  PROVE  /\ ~StaleReadGeneration(records[f], records'[f].last_writer)
         /\ ~OtherOwner(records[f], records'[f].last_writer)
<1>. DEFINE r == records[f]
            Fair(w) == ~StaleReadGeneration(r, w) /\ ~OtherOwner(r, w)
<1>. USE DEF Publishes
<1>0. RecordInv(r) /\ r \in ArtifactRecord /\ r # None /\ DOMAIN records = Artifacts
  BY ZenonT(60) DEF IndInv, RecordInv, Live, TypeOK
<1>1. ASSUME NEW g \in Artifacts, NEW owner \in Agents \cup {None}, Register(g, owner)
      PROVE  FALSE
  <2>1. g # f
    BY SMTT(60), <1>0, <1>1 DEF Register
  <2>. QED
    BY SMTT(60), <1>0, <1>1, <2>1 DEF Register
<1>2. ASSUME NEW a \in Agents, NEW g \in Artifacts, fetch(a, g)
      PROVE  FALSE
  <2>1. g = f /\ records'[f] = FetchRecord(r, a, now) /\ now \in Nat
    BY ZenonT(60), <1>0, <1>2 DEF fetch, IndInv, TypeOK
  <2>. QED
    BY SMTT(60), <1>0, <2>1, FetchPreserves
<1>3. ASSUME NEW a \in Agents, NEW g \in Artifacts, write(a, g)
      PROVE  FALSE
  <2>1. g = f /\ records'[f] = WriteRecord(r, a, now) /\ now \in Nat
    BY ZenonT(60), <1>0, <1>3 DEF write, IndInv, TypeOK
  <2>. QED
    BY SMTT(60), <1>0, <2>1, WritePreserves
<1>4. ASSUME NEW a \in Agents, NEW g \in Artifacts, commit(a, g)
      PROVE  Fair(records'[f].last_writer)
  <2>1. g = f /\ records'[f] = CommitRecord(r, a, now) /\ now \in Nat
    BY ZenonT(60), <1>0, <1>4 DEF commit, IndInv, TypeOK
  <2>2. r.state[a] \in M_OR_E_STATES /\ ~StaleReadGeneration(r, a)
    BY SMTT(60), <1>4, <2>1 DEF commit
  <2>3. records'[f].last_writer = a
    BY SMTT(60), <1>0, <2>1, <2>2, CommitPreserves
  <2>4. ~OtherOwner(r, a)
    BY SMTT(60), <1>0, <2>2 DEF OtherOwner, RecordInv, M_OR_E_STATES
  <2>. QED
    BY SMTT(60), <2>2, <2>3, <2>4
<1>5. ASSUME NEW a \in Agents, NEW expected \in Nat,
             OccAllowed(r, a), CasOutcome(r, a, expected) = "win", records'[f] = CasWin(r, a)
      PROVE  Fair(records'[f].last_writer)
  <2>1. records'[f].last_writer = a
    BY <1>0, <1>5, CasWinPreserves
  <2>2. ~StaleReadGeneration(r, a) /\ ~OtherOwner(r, a)
    BY SMTT(60), <1>0, <1>5 DEF CasOutcome, ArtifactRecord
  <2>. QED
    BY SMTT(60), <2>1, <2>2
<1>6. ASSUME NEW a \in Agents, NEW g \in Artifacts, NEW expected \in 1 .. MaxVersion,
             commit_cas(a, g, expected)
      PROVE  Fair(records'[f].last_writer)
  <2>1. g = f /\ records'[f] = CasWin(r, a)
    BY SMTT(60), <1>0, <1>6 DEF commit_cas
  <2>2. OccAllowed(r, a) /\ CasOutcome(r, a, expected) = "win" /\ expected \in Nat
    BY SMTT(60), <1>6, <2>1, BoundsAssumption DEF commit_cas
  <2>. QED
    BY SMTT(60), <1>5, <2>1, <2>2
<1>7. ASSUME NEW a \in Agents, NEW F \in SUBSET Artifacts,
             NEW expected \in [F -> 1 .. MaxVersion], commit_all(a, F, expected)
      PROVE  Fair(records'[f].last_writer)
  <2>1. f \in F /\ records'[f] = CasWin(r, a)
    BY SMTT(60), <1>0, <1>7 DEF commit_all
  <2>2. /\ OccAllowed(r, a) /\ CasOutcome(r, a, expected[f]) = "win"
        /\ expected[f] \in Nat
    BY SMTT(60), <1>7, <2>1, BoundsAssumption DEF commit_all
  <2>. QED
    BY SMTT(60), <1>5, <2>1, <2>2
<1>8. ASSUME NEW a \in Agents, NEW g \in Artifacts, NEW v, NEW issuer,
             invalidate(a, g, v, issuer)
      PROVE  FALSE
  <2>1. g = f /\ records'[f] = InvalidateRecord(r, a, now) /\ now \in Nat
    BY ZenonT(60), <1>0, <1>8 DEF invalidate, IndInv, TypeOK
  <2>. QED
    BY SMTT(60), <1>0, <2>1, InvalidateRevokes DEF Revocation
<1>9. ASSUME NEW a \in Agents, NEW g \in Artifacts, delete(a, g)
      PROVE  FALSE
  BY SMTT(60), <1>0, <1>9 DEF delete
<1>10. ASSUME NEW g \in Artifacts, NEW a \in Agents, SweepTransient(g, a)
       PROVE  FALSE
  <2>1. g = f /\ records'[f] = TimeoutRecord(r, a, sweep.tick) /\ sweep.tick \in Nat
    BY SMTT(60), <1>0, <1>10 DEF SweepTransient, IndInv, TypeOK, Sweep
  <2>. QED
    BY SMTT(60), <1>0, <2>1, InvalidateRevokes DEF Revocation
<1>11. ASSUME NEW g \in Artifacts, NEW a \in Agents, SweepGrant(g, a)
       PROVE  FALSE
  <2>. DEFINE t == ReclaimTrigger(r, a, sweep.tick)
  <2>1. /\ g = f /\ t # None /\ records'[f] = ReclaimRecord(r, a, t, sweep.tick)
        /\ sweep.tick \in Nat
    BY SMTT(60), <1>0, <1>11 DEF SweepGrant, IndInv, TypeOK, Sweep
  <2>2. t \in ReclamationSlot
    BY SMTT(60), <2>1 DEF ReclaimTrigger, ReclamationSlot
  <2>. QED
    BY SMTT(60), <1>0, <2>1, <2>2, ReclaimRevokes DEF Revocation
<1>12. ASSUME \/ \E a \in Agents : record_heartbeat(a)
              \/ Tick
              \/ StartTransientSweep
              \/ StartGrantSweep
       PROVE  FALSE
  BY SMTT(60), <1>12 DEF record_heartbeat, Tick, StartTransientSweep, StartGrantSweep, StartSweep
<1>13. ASSUME NEW s \in issued, DeliverInvalidation(s)
       PROVE  FALSE
  BY SMTT(60), <1>8, <1>13 DEF DeliverInvalidation, IndInv, TypeOK, Signal
<1>14. ASSUME NEW a \in Agents, NEW g \in Artifacts, Release(a, g)
       PROVE  FALSE
  BY <1>8, <1>14 DEF Release
<1>. QED
  BY ZenonT(60), <1>1, <1>2, <1>3, <1>4, <1>6, <1>7, <1>9, <1>10, <1>11, <1>12, <1>13, <1>14
     DEF Next, AgentNext, SweepNext

\* A revoked claim publishes nothing until the agent claims again, whichever
\* sweep or release revoked it and whichever commit path it tries.
THEOREM RevokedClaimsPublishNothing == Spec => NoSilentRevoke
<1>1. ASSUME IndInv, [Next]_vars, NEW f \in Live,
             records'[f] # None, records'[f].version # records[f].version
      PROVE  records'[f].last_writer \notin revoked[f]
  <2>1. f \in Artifacts /\ Publishes(f)
    BY <1>1 DEF Live, Publishes
  <2>2. Next
    BY <1>1 DEF vars
  <2>. QED
    BY SMTT(60), <1>1, <2>1, <2>2, Publication DEF IndInv
<1>2. IndInv /\ [Next]_vars =>
        [\A f \in Live : records'[f] # None /\ records'[f].version # records[f].version
           => records'[f].last_writer \notin revoked[f]]_vars
  BY <1>1
<1>. QED
  BY <1>2, Invariance, PTL DEF Spec, NoSilentRevoke

\* No commit path publishes over the head of another agent that owns the
\* artifact.
THEOREM OwnersAreNotOvertaken == Spec => OwnerNotOvertaken
<1>1. ASSUME IndInv, [Next]_vars, NEW f \in Live,
             records'[f] # None, records'[f].version # records[f].version
      PROVE  Owners(records[f]) \subseteq {records'[f].last_writer}
  <2>1. f \in Artifacts /\ Publishes(f)
    BY <1>1 DEF Live, Publishes
  <2>2. Next
    BY <1>1 DEF vars
  <2>. QED
    BY SMTT(60), <1>1, <2>1, <2>2, Publication DEF OtherOwner, Owners
<1>2. IndInv /\ [Next]_vars =>
        [\A f \in Live : records'[f] # None /\ records'[f].version # records[f].version
           => Owners(records[f]) \subseteq {records'[f].last_writer}]_vars
  BY <1>1
<1>. QED
  BY <1>2, Invariance, PTL DEF Spec, OwnerNotOvertaken

\* Commits of any kind move a version only for an agent entitled to it.
THEOREM PublishersAreEntitled == Spec => OnlyEntitledPublish
  BY RevokedClaimsPublishNothing, OwnersAreNotOvertaken, PTL DEF OnlyEntitledPublish

\* A delivered signal finds its target INVALID or newer than the signal, so
\* late, duplicate and reordered deliveries revoke nothing.
THEOREM LateSignalsKeepCopies == Spec => LateSignalKeepsCopies
<1>1. ASSUME IndInv, NEW s \in issued, DeliverInvalidation(s), NEW f \in Live
      PROVE  /\ records'[f].state = records[f].state
             /\ records'[f].owner_generation = records[f].owner_generation
  <2>. DEFINE r == records[f]
              t == s.target
  <2>1. /\ s.artifact \in Live /\ t \in Agents /\ now \in Nat /\ s.version \in Nat
        /\ records' = [records EXCEPT ![s.artifact] = InvalidateRecord(@, t, now)]
        /\ ~RevokeIsSuperseded(records[s.artifact], t, s.version, None)
    BY <1>1 DEF DeliverInvalidation, invalidate, IndInv, TypeOK, Signal
  <2>2. CASE s.artifact # f
    BY <2>1, <2>2
  <2>3. CASE s.artifact = f
    <3>1. RecordInv(r) /\ s.version <= r.version
      BY SMTT(60), <1>1, <2>1, <2>3 DEF IndInv
    <3>2. r.version \in Nat /\ r.state \in [Agents -> MESIState]
      BY SMTT(60), <3>1 DEF RecordInv, ArtifactRecord
    <3>3. r.state[t] = "INVALID"
      <4>1. r.state[t] # "INVALID" => r.last_observed[t] = r.version
        BY ZenonT(60), <2>1, <3>1 DEF RecordInv
      <4>2. ~(None # t /\ r.state[t] # "INVALID" /\ r.last_observed[t] # None
              /\ r.last_observed[t] >= s.version)
        BY SMTT(60), <2>1, <2>3 DEF RevokeIsSuperseded
      <4>. QED
        BY SMTT(60), <2>1, <3>1, <3>2, <4>1, <4>2, NoneAssumption
    <3>. DEFINE q == InvalidateRecord(r, t, now)
    <3>4. Revocation(r, q, t)
      BY SMTT(60), <2>1, <3>1, InvalidateRevokes
    <3>5. records'[f] = q
      BY ZenonT(60), <1>1, <2>1, <2>3 DEF IndInv, TypeOK, Live
    <3>. HIDE DEF q
    <3>6. q.state \in [Agents -> MESIState] /\ q.owner_generation = r.owner_generation
      BY ZenonT(60), <3>3, <3>4 DEF Revocation, RecordInv, ArtifactRecord, M_OR_E_STATES
    <3>7. \A p \in Agents : q.state[p] = r.state[p]
      BY ZenonT(60), <3>3, <3>4 DEF Revocation
    <3>8. q.state = r.state
      BY SMTT(60), <3>2, <3>6, <3>7
    <3>. QED
      BY SMTT(60), <3>5, <3>6, <3>8
  <2>. QED
    BY SMTT(60), <2>2, <2>3
<1>2. IndInv /\ [Next]_vars =>
        [(\E s \in issued : DeliverInvalidation(s))
           => \A f \in Live : /\ records'[f].state = records[f].state
                              /\ records'[f].owner_generation = records[f].owner_generation]_vars
  BY SMTT(60), <1>1
<1>. QED
  BY <1>2, Invariance, PTL DEF Spec, LateSignalKeepsCopies

\* No record operation but the sweep's own fills an empty reclamation slot.
SlotKept(r, q) ==
  \A p \in Agents : r.last_reclamation[p] = None => q.last_reclamation[p] = None

\* fetch, write, both commits, invalidate and the transient timeout fill no
\* reclamation slot.
LEMMA SlotsKept ==
  ASSUME NEW r \in ArtifactRecord, NEW a \in Agents, NEW tick \in Nat
  PROVE  /\ SlotKept(r, FetchRecord(r, a, tick))
         /\ SlotKept(r, WriteRecord(r, a, tick))
         /\ SlotKept(r, CommitRecord(r, a, tick))
         /\ SlotKept(r, InvalidateRecord(r, a, tick))
         /\ SlotKept(r, TimeoutRecord(r, a, tick))
         /\ SlotKept(r, CasWin(r, a))
<1>1. ASSUME NEW d \in ArtifactRecord, NEW s \in MESIState, NEW trigger
      PROVE  SlotKept(d, clear_agent_transient(set_agent_state(d, a, s, trigger, tick), a))
  <2>. DEFINE m == set_agent_state(d, a, s, trigger, tick)
              q == clear_agent_transient(m, a)
  <2>1. SetAgentStateEffect(d, m, a, s, trigger, tick)
    BY SMTT(60), SetAgentStateFields
  <2>. HIDE DEF m
  <2>2. ClearTransientEffect(m, q, a)
    BY SMTT(60), <2>1, ClearTransientFields DEF SetAgentStateEffect
  <2>. HIDE DEF q
  <2>3. SlotKept(d, q)
    BY <2>1, <2>2 DEF SetAgentStateEffect, ClearTransientEffect, SlotKept
  <2>. QED
    BY <2>3 DEF q, m
<1>2. /\ "EXCLUSIVE" \in MESIState /\ "SHARED" \in MESIState
      /\ "MODIFIED" \in MESIState /\ "INVALID" \in MESIState
  BY DEF MESIState
<1>3. SlotKept(r, FetchRecord(r, a, tick))
  <2>. DEFINE d == DowngradePeers(r, a)
              q == FetchRecord(r, a, tick)
  <2>1. DowngradePeersEffect(r, d, a)
    BY SMTT(60), DowngradePeersFields
  <2>2. SlotKept(d, q)
    BY SMTT(60), <1>1, <1>2, <2>1 DEF FetchRecord, FetchGrant, DowngradePeersEffect
  <2>. HIDE DEF d, q
  <2>3. SlotKept(r, q)
    BY <2>1, <2>2 DEF DowngradePeersEffect, SlotKept
  <2>. QED
    BY <2>3 DEF q
<1>4. SlotKept(r, WriteRecord(r, a, tick))
  <2>. DEFINE d == InvalidatePeers(r, a, tick)
              q == WriteRecord(r, a, tick)
  <2>1. InvalidatePeersEffect(r, d, a, tick)
    BY SMTT(60), InvalidatePeersFields
  <2>2. SlotKept(d, q)
    BY SMTT(60), <1>1, <1>2, <2>1 DEF WriteRecord, InvalidatePeersEffect
  <2>. HIDE DEF d, q
  <2>3. SlotKept(r, q)
    BY SMTT(60), <2>1, <2>2 DEF InvalidatePeersEffect, SlotKept
  <2>. QED
    BY <2>3 DEF q
<1>5. SlotKept(r, CommitRecord(r, a, tick))
  <2>. DEFINE v == set_artifact_and_content(r, a)
              d == InvalidatePeers(v, a, tick)
              q == CommitRecord(r, a, tick)
  <2>1. SetArtifactEffect(r, v, a)
    BY SetArtifactFields
  <2>2. InvalidatePeersEffect(v, d, a, tick)
    BY SMTT(60), <2>1, InvalidatePeersFields DEF SetArtifactEffect
  <2>3. SlotKept(d, q)
    BY SMTT(60), <1>1, <1>2, <2>2 DEF CommitRecord, InvalidatePeersEffect
  <2>. HIDE DEF v, d, q
  <2>4. SlotKept(r, q)
    BY <2>1, <2>2, <2>3 DEF SetArtifactEffect, InvalidatePeersEffect, SlotKept
  <2>. QED
    BY <2>4 DEF q
<1>6. SlotKept(r, InvalidateRecord(r, a, tick)) /\ SlotKept(r, TimeoutRecord(r, a, tick))
  BY SMTT(60), <1>1, <1>2 DEF InvalidateRecord, TimeoutRecord
<1>7. SlotKept(r, CasWin(r, a))
  BY CasWinFields DEF CasWinEffect, SlotKept
<1>. QED
  BY <1>3, <1>4, <1>5, <1>6, <1>7

\* A sweep decides by a tick that is not ahead of the clock.
SweepNotAhead == sweep # None => sweep.tick <= now

\* The sweep's tick is fixed when it starts and the clock only advances.
LEMMA SweepNotAheadHolds == Spec => []SweepNotAhead
<1>1. Init => SweepNotAhead
  BY DEF Init, SweepNotAhead
<1>2. ASSUME IndInv, SweepNotAhead, [Next]_vars PROVE SweepNotAhead'
  <2>1. now \in Nat /\ (sweep # None => sweep.tick \in Nat)
    BY <1>2 DEF IndInv, TypeOK, Sweep
  <2>2. CASE AgentNext
    <3>1. now' = now /\ sweep' = sweep
      BY <2>2 DEF AgentNext, Register, fetch, write, commit, commit_cas, commit_all,
         Release, DeliverInvalidation, invalidate, delete, record_heartbeat
    <3>. QED
      BY SMTT(60), <1>2, <3>1 DEF SweepNotAhead
  <2>3. CASE StartTransientSweep \/ StartGrantSweep
    <3>1. PICK tick \in 0 .. now : now' = now /\ sweep'.tick = tick
      <4>1. CASE StartTransientSweep
        <5>1. PICK tick \in 0 .. now : StartSweep("transient", TransientPairs, tick)
          BY <4>1 DEF StartTransientSweep
        <5>. QED
          BY <5>1 DEF StartSweep
      <4>2. CASE StartGrantSweep
        <5>1. PICK tick \in 0 .. now : StartSweep("grant", OwnerPairs, tick)
          BY <4>2 DEF StartGrantSweep
        <5>. QED
          BY <5>1 DEF StartSweep
      <4>. QED
        BY SMTT(60), <2>3, <4>1, <4>2
    <3>. QED
      BY <2>1, <3>1 DEF SweepNotAhead
  <2>4. ASSUME NEW f \in Artifacts, NEW a \in Agents, SweepTransient(f, a) \/ SweepGrant(f, a)
        PROVE  SweepNotAhead'
    <3>1. now' = now /\ sweep # None /\ Visited(<<f, a>>)
      BY SMTT(60), <2>4 DEF SweepTransient, SweepGrant
    <3>2. sweep \in Sweep
      BY <1>2, <3>1 DEF IndInv, TypeOK
    <3>3. sweep' = None \/ sweep'.tick = sweep.tick
      BY <3>1, <3>2 DEF Visited, Sweep
    <3>. QED
      BY SMTT(60), <1>2, <3>1, <3>3 DEF SweepNotAhead
  <2>5. CASE Tick
    BY <1>2, <2>1, <2>5 DEF Tick, SweepNotAhead
  <2>6. CASE UNCHANGED vars
    BY <1>2, <2>6 DEF vars, SweepNotAhead
  <2>. QED
    BY SMTT(60), <1>2, <2>2, <2>3, <2>4, <2>5, <2>6 DEF Next, SweepNext
<1>. QED
  BY <1>1, <1>2, Invariance, PTL DEF Spec

\* The stable-grant sweep reclaims only from an agent that is silent, or holds,
\* for too long when the sweep acts, however old its snapshot of pairs is.
THEOREM ReclaimsAreStale == Spec => ReclaimOnlyStale
<1>1. ASSUME IndInv, SweepNotAhead, Next, NEW f \in Live, NEW a \in Owners(records[f]),
             records'[f] # None, records'[f].last_reclamation[a] # None
      PROVE  HeartbeatStale(a, now) \/ HeldTooLong(records[f], a, now)
  <2>. DEFINE r == records[f]
  <2>0. /\ r \in ArtifactRecord /\ r # None /\ f \in Artifacts /\ a \in Agents
        /\ DOMAIN records = Artifacts /\ now \in Nat
        /\ r.last_reclamation[a] = None
    BY ZenonT(60), <1>1 DEF IndInv, RecordInv, Live, TypeOK, Owners
  <2>1. ASSUME SlotKept(r, records'[f]) PROVE FALSE
    BY SMTT(60), <1>1, <2>0, <2>1 DEF SlotKept
  <2>2. ASSUME records'[f] = r PROVE FALSE
    BY SMTT(60), <1>1, <2>0, <2>2
  <2>3. ASSUME NEW g \in Artifacts, NEW owner \in Agents \cup {None}, Register(g, owner)
        PROVE  FALSE
    <3>1. g # f
      BY SMTT(60), <2>0, <2>3 DEF Register
    <3>. QED
      BY SMTT(60), <2>0, <2>2, <2>3, <3>1 DEF Register
  <2>4. ASSUME NEW p \in Agents, NEW g \in Artifacts,
               fetch(p, g) \/ write(p, g) \/ commit(p, g)
                 \/ (\E expected \in 1 .. MaxVersion : commit_cas(p, g, expected))
        PROVE  FALSE
    <3>1. records'[f] \in {r, FetchRecord(r, p, now), WriteRecord(r, p, now),
                           CommitRecord(r, p, now), CasWin(r, p)}
      BY ZenonT(60), <2>0, <2>4 DEF fetch, write, commit, commit_cas
    <3>. QED
      BY SMTT(60), <2>0, <2>1, <2>2, <3>1, SlotsKept
  <2>5. ASSUME NEW p \in Agents, NEW F \in SUBSET Artifacts,
               NEW expected \in [F -> 1 .. MaxVersion], commit_all(p, F, expected)
        PROVE  FALSE
    <3>1. records'[f] \in {r, CasWin(r, p)}
      BY SMTT(60), <2>0, <2>5 DEF commit_all
    <3>. QED
      BY SMTT(60), <2>0, <2>1, <2>2, <3>1, SlotsKept
  <2>6. ASSUME NEW p \in Agents, NEW g \in Artifacts, NEW v, NEW issuer,
               invalidate(p, g, v, issuer)
        PROVE  FALSE
    <3>1. records'[f] \in {r, InvalidateRecord(r, p, now)}
      BY SMTT(60), <2>0, <2>6 DEF invalidate
    <3>. QED
      BY SMTT(60), <2>0, <2>1, <2>2, <3>1, SlotsKept
  <2>7. ASSUME NEW p \in Agents, NEW g \in Artifacts, delete(p, g)
        PROVE  FALSE
    <3>1. records'[f] \in {r, None}
      BY SMTT(60), <2>0, <2>7 DEF delete
    <3>. QED
      BY SMTT(60), <1>1, <2>2, <3>1
  <2>8. ASSUME NEW g \in Artifacts, NEW p \in Agents, SweepTransient(g, p)
        PROVE  FALSE
    <3>1. /\ records'[f] \in {r, TimeoutRecord(r, p, sweep.tick)}
          /\ sweep.tick \in Nat
      BY SMTT(60), <1>1, <2>0, <2>8 DEF SweepTransient, IndInv, TypeOK, Sweep
    <3>. QED
      BY SMTT(60), <2>0, <2>1, <2>2, <3>1, SlotsKept
  <2>9. ASSUME NEW g \in Artifacts, NEW p \in Agents, SweepGrant(g, p)
        PROVE  HeartbeatStale(a, now) \/ HeldTooLong(r, a, now)
    <3>. DEFINE t == ReclaimTrigger(r, p, sweep.tick)
    <3>1. /\ sweep.tick \in Nat /\ sweep.tick <= now
          /\ \/ records'[f] = r
             \/ t # None /\ records'[f] = ReclaimRecord(r, p, t, sweep.tick)
      BY SMTT(60), <1>1, <2>0, <2>9 DEF SweepGrant, IndInv, TypeOK, Sweep, SweepNotAhead
    <3>2. t # None /\ records'[f] = ReclaimRecord(r, p, t, sweep.tick)
      BY SMTT(60), <2>2, <3>1
    <3>3. t \in ReclamationSlot
      BY SMTT(60), <3>2 DEF ReclaimTrigger, ReclamationSlot
    <3>4. p = a
      <4>. DEFINE m == set_agent_state(r, p, "INVALID", t, sweep.tick)
                  q == record_last_reclamation(m, p, t)
      <4>1. SetAgentStateEffect(r, m, p, "INVALID", t, sweep.tick)
        BY SMTT(60), <2>0, <3>1, SetAgentStateFields DEF MESIState
      <4>. HIDE DEF m
      <4>2. RecordReclamationEffect(m, q, p, t)
        BY ZenonT(60), <3>3, <4>1, RecordReclamationFields DEF SetAgentStateEffect
      <4>3. records'[f] = q
        BY SMTT(60), <3>2 DEF ReclaimRecord, m
      <4>. HIDE DEF q
      <4>. QED
        BY ZenonT(60), <1>1, <2>0, <4>1, <4>2, <4>3 DEF SetAgentStateEffect, RecordReclamationEffect
    <3>5. HeartbeatStale(a, sweep.tick) \/ HeldTooLong(r, a, sweep.tick)
      BY SMTT(60), <3>2, <3>4 DEF ReclaimTrigger
    <3>6. heartbeat[a] \in OptNat /\ r.granted_at[a] \in OptNat
      BY ZenonT(60), <1>1, <2>0 DEF IndInv, TypeOK, ArtifactRecord
    <3>. QED
      BY SMTT(60), <2>0, <3>1, <3>5, <3>6, BoundsAssumption DEF HeartbeatStale, HeldTooLong, OptNat
  <2>10. ASSUME \/ \E p \in Agents : record_heartbeat(p)
                \/ Tick
                \/ StartTransientSweep
                \/ StartGrantSweep
         PROVE  FALSE
    BY SMTT(60), <2>2, <2>10 DEF record_heartbeat, Tick, StartTransientSweep, StartGrantSweep, StartSweep
  <2>11. ASSUME NEW s \in issued, DeliverInvalidation(s)
         PROVE  FALSE
    BY ZenonT(60), <1>1, <2>6, <2>11 DEF DeliverInvalidation, IndInv, TypeOK, Signal
  <2>12. ASSUME NEW p \in Agents, NEW g \in Artifacts, Release(p, g)
         PROVE  FALSE
    BY SMTT(60), <2>6, <2>12 DEF Release
  <2>. QED
    BY ZenonT(60), <1>1, <2>3, <2>4, <2>5, <2>7, <2>8, <2>9, <2>10, <2>11, <2>12
       DEF Next, AgentNext, SweepNext
<1>2. IndInv /\ SweepNotAhead /\ [Next]_vars =>
        [\A f \in Live : \A a \in Owners(records[f]) :
           records'[f] # None /\ records'[f].last_reclamation[a] # None
             => HeartbeatStale(a, now) \/ HeldTooLong(records[f], a, now)]_vars
  BY <1>1
<1>. QED
  BY <1>2, Invariance, SweepNotAheadHolds, PTL DEF Spec, ReclaimOnlyStale

-----------------------------------------------------------------------------
(* The mapping of one record.                                              *)

\* In a well-formed record a valid entry holds the current version.
LEMMA HeldOfRecord ==
  ASSUME NEW r, RecordInv(r)
  PROVE  /\ HeldOf(r) = [a \in Agents |-> IF r.state[a] = "INVALID" THEN 0 ELSE r.version]
         /\ VersionOf(r) = r.version
         /\ r.version \in Nat /\ r.version > 0
         /\ r # None
<1>1. r # None /\ r.version \in Nat
  BY NoneIsNoRecord DEF RecordInv, ArtifactRecord
<1>. QED
  BY <1>1 DEF RecordInv, HeldOf, VersionOf

\* In a well-formed record the owner is the agent in MODIFIED or EXCLUSIVE.
LEMMA OwnerOfRecord ==
  ASSUME NEW r, RecordInv(r)
  PROVE  /\ \A a \in Agents : r.state[a] \in M_OR_E_STATES <=> OwnerOf(r) = a
         /\ OwnerOf(r) \in Agents \cup {None}
<1>1. r # None
  BY HeldOfRecord
<1>2. CASE \E a \in Agents : r.state[a] \in M_OR_E_STATES
  <2>1. OwnerOf(r) = CHOOSE a \in Agents : r.state[a] \in M_OR_E_STATES
    BY <1>1, <1>2 DEF OwnerOf
  <2>2. OwnerOf(r) \in Agents /\ r.state[OwnerOf(r)] \in M_OR_E_STATES
    BY <1>2, <2>1
  <2>3. \A a, b \in Agents :
          r.state[a] \in M_OR_E_STATES /\ r.state[b] \in M_OR_E_STATES => a = b
    BY DEF RecordInv, M_OR_E_STATES
  <2>. QED
    BY <2>2, <2>3
<1>3. CASE ~\E a \in Agents : r.state[a] \in M_OR_E_STATES
  <2>1. OwnerOf(r) = None
    BY <1>3 DEF OwnerOf
  <2>. QED
    BY <1>3, <2>1, NoneAssumption
<1>. QED
  BY <1>2, <1>3

\* A record with one valid entry maps to one holder.
LEMMA OnlyHolder ==
  ASSUME NEW q, RecordInv(q), NEW a \in Agents, q.state[a] # "INVALID",
         \A p \in Agents \ {a} : q.state[p] = "INVALID"
  PROVE  /\ HeldOf(q) = Store!Only(a, q.version)
         /\ OwnerOf(q) = IF q.state[a] \in M_OR_E_STATES THEN a ELSE None
<1>1. HeldOf(q) = [p \in Agents |-> IF p = a THEN q.version ELSE 0]
  BY HeldOfRecord
<1>2. Store!Only(a, q.version) = [p \in Agents |-> IF p = a THEN q.version ELSE 0]
  BY DEF Store!Only, Store!Nothing
<1>3. \A p \in Agents \ {a} : q.state[p] \notin M_OR_E_STATES
  BY ZenonT(60) DEF M_OR_E_STATES
<1>. QED
  BY <1>1, <1>2, <1>3, OwnerOfRecord

\* A fetch gives the requester the current version, and ownership exactly when
\* nobody else holds a copy.
LEMMA FetchMaps ==
  ASSUME NEW r, RecordInv(r), NEW a \in Agents, NEW tick \in Nat
  PROVE  LET q == FetchRecord(r, a, tick) IN
         /\ VersionOf(q) = VersionOf(r)
         /\ HeldOf(q) = [HeldOf(r) EXCEPT ![a] = VersionOf(r)]
         /\ OwnerOf(q) = IF \A p \in Agents \ {a} : HeldOf(r)[p] = 0 THEN a ELSE None
<1>. DEFINE q == FetchRecord(r, a, tick)
<1>1. /\ RecordInv(q) /\ q.version = r.version
      /\ q.state[a] = FetchGrant(r, a)
      /\ \A p \in Agents \ {a} :
           q.state[p] = IF r.state[p] \in M_OR_E_STATES THEN "SHARED" ELSE r.state[p]
  BY FetchPreserves
<1>. HIDE DEF q
<1>2. /\ HeldOf(r) = [p \in Agents |-> IF r.state[p] = "INVALID" THEN 0 ELSE r.version]
      /\ HeldOf(q) = [p \in Agents |-> IF q.state[p] = "INVALID" THEN 0 ELSE q.version]
      /\ VersionOf(r) = r.version /\ VersionOf(q) = q.version
      /\ r.version \in Nat /\ r.version > 0
  BY <1>1, HeldOfRecord
<1>3. FetchGrant(r, a) = IF \A p \in Agents \ {a} : r.state[p] = "INVALID"
                           THEN "EXCLUSIVE" ELSE "SHARED"
  BY DEF FetchGrant, OtherHolders, valid_holders
<1>4. \A p \in Agents \ {a} : q.state[p] = "INVALID" <=> r.state[p] = "INVALID"
  BY ZenonT(60), <1>1 DEF M_OR_E_STATES
<1>5. q.state[a] # "INVALID"
  BY <1>1, <1>3
<1>6. HeldOf(q) = [HeldOf(r) EXCEPT ![a] = VersionOf(r)]
  BY ZenonT(60), <1>1, <1>2, <1>4, <1>5
<1>7. (\A p \in Agents \ {a} : HeldOf(r)[p] = 0)
        <=> \A p \in Agents \ {a} : r.state[p] = "INVALID"
  BY <1>2
<1>8. \A p \in Agents \ {a} : q.state[p] \notin M_OR_E_STATES
  BY ZenonT(60), <1>1 DEF M_OR_E_STATES
<1>9. q.state[a] \in M_OR_E_STATES <=> \A p \in Agents \ {a} : r.state[p] = "INVALID"
  BY <1>1, <1>3 DEF M_OR_E_STATES
<1>10. OwnerOf(q) = IF \A p \in Agents \ {a} : HeldOf(r)[p] = 0 THEN a ELSE None
  BY <1>1, <1>7, <1>8, <1>9, OwnerOfRecord
<1>. QED
  BY ZenonT(60), <1>1, <1>2, <1>6, <1>10 DEF q

\* A revocation takes one agent's copy, and its ownership if it had it.
LEMMA RevocationMaps ==
  ASSUME NEW r, RecordInv(r), NEW a \in Agents, NEW q, Revocation(r, q, a)
  PROVE  /\ VersionOf(q) = VersionOf(r)
         /\ HeldOf(q) = [HeldOf(r) EXCEPT ![a] = 0]
         /\ OwnerOf(q) = IF OwnerOf(r) = a THEN None ELSE OwnerOf(r)
<1>1. /\ RecordInv(q) /\ q.version = r.version
      /\ q.state[a] = "INVALID"
      /\ \A p \in Agents \ {a} : q.state[p] = r.state[p]
  BY DEF Revocation
<1>2. /\ HeldOf(r) = [p \in Agents |-> IF r.state[p] = "INVALID" THEN 0 ELSE r.version]
      /\ HeldOf(q) = [p \in Agents |-> IF q.state[p] = "INVALID" THEN 0 ELSE q.version]
      /\ VersionOf(r) = r.version /\ VersionOf(q) = q.version
  BY <1>1, HeldOfRecord
<1>3. /\ \A p \in Agents : r.state[p] \in M_OR_E_STATES <=> OwnerOf(r) = p
      /\ \A p \in Agents : q.state[p] \in M_OR_E_STATES <=> OwnerOf(q) = p
      /\ OwnerOf(r) \in Agents \cup {None} /\ OwnerOf(q) \in Agents \cup {None}
  BY <1>1, OwnerOfRecord
<1>4. q.state[a] \notin M_OR_E_STATES
  BY <1>1 DEF M_OR_E_STATES
<1>5. OwnerOf(q) = IF OwnerOf(r) = a THEN None ELSE OwnerOf(r)
  <2>1. CASE OwnerOf(r) = a
    <3>1. \A p \in Agents \ {a} : r.state[p] = "INVALID"
      BY ZenonT(60), <1>3, <2>1 DEF RecordInv
    <3>2. \A p \in Agents : q.state[p] \notin M_OR_E_STATES
      BY ZenonT(60), <1>1, <1>4, <3>1 DEF M_OR_E_STATES
    <3>. QED
      BY <1>3, <2>1, <3>2
  <2>2. CASE OwnerOf(r) # a
    <3>1. \A p \in Agents : OwnerOf(q) = p <=> OwnerOf(r) = p
      BY ZenonT(60), <1>1, <1>3, <1>4, <2>2
    <3>. QED
      BY <1>3, <2>2, <3>1, NoneAssumption
  <2>. QED
    BY <2>1, <2>2
<1>6. HeldOf(q) = [HeldOf(r) EXCEPT ![a] = 0]
  BY ZenonT(60), <1>1, <1>2
<1>. QED
  BY ZenonT(60), <1>1, <1>2, <1>5, <1>6

-----------------------------------------------------------------------------
(* Steps.                                                                  *)

\* Rewriting one record rewrites one artifact of the store.
LEMMA OneRecordMaps ==
  ASSUME TypeOK, NEW f \in Artifacts, NEW q, records' = [records EXCEPT ![f] = q]
  PROVE  /\ StoreVersion' = [StoreVersion EXCEPT ![f] = VersionOf(q)]
         /\ StoreHeld' = [StoreHeld EXCEPT ![f] = HeldOf(q)]
         /\ StoreOwner' = [StoreOwner EXCEPT ![f] = OwnerOf(q)]
<1>1. records'[f] = q /\ \A g \in Artifacts \ {f} : records'[g] = records[g]
  BY DEF TypeOK
<1>2. StoreVersion' = [StoreVersion EXCEPT ![f] = VersionOf(q)]
  <2>1. \A g \in Artifacts : VersionOf(records'[g]) = IF g = f THEN VersionOf(q) ELSE VersionOf(records[g])
    BY <1>1
  <2>2. StoreVersion' = [g \in Artifacts |-> VersionOf(records'[g])]
    BY DEF StoreVersion
  <2>3. StoreVersion = [g \in Artifacts |-> VersionOf(records[g])]
    BY DEF StoreVersion
  <2>. QED
    BY <2>1, <2>2, <2>3
<1>3. StoreHeld' = [StoreHeld EXCEPT ![f] = HeldOf(q)]
  <2>1. \A g \in Artifacts : HeldOf(records'[g]) = IF g = f THEN HeldOf(q) ELSE HeldOf(records[g])
    BY <1>1
  <2>2. StoreHeld' = [g \in Artifacts |-> HeldOf(records'[g])]
    BY DEF StoreHeld
  <2>3. StoreHeld = [g \in Artifacts |-> HeldOf(records[g])]
    BY DEF StoreHeld
  <2>. QED
    BY <2>1, <2>2, <2>3
<1>4. StoreOwner' = [StoreOwner EXCEPT ![f] = OwnerOf(q)]
  <2>1. \A g \in Artifacts : OwnerOf(records'[g]) = IF g = f THEN OwnerOf(q) ELSE OwnerOf(records[g])
    BY <1>1
  <2>2. StoreOwner' = [g \in Artifacts |-> OwnerOf(records'[g])]
    BY DEF StoreOwner
  <2>3. StoreOwner = [g \in Artifacts |-> OwnerOf(records[g])]
    BY DEF StoreOwner
  <2>. QED
    BY <2>1, <2>2, <2>3
<1>. QED
  BY <1>2, <1>3, <1>4

\* A registered artifact exists in the store.
LEMMA LiveExists ==
  ASSUME IndInv, NEW f \in Live
  PROVE  /\ Store!Exists(f)
         /\ f \in Artifacts /\ RecordInv(records[f])
         /\ StoreVersion[f] = VersionOf(records[f])
         /\ StoreHeld[f] = HeldOf(records[f])
         /\ StoreOwner[f] = OwnerOf(records[f])
<1>1. f \in Artifacts /\ RecordInv(records[f]) /\ f \notin gone
  BY DEF IndInv, Live
<1>. QED
  BY <1>1, HeldOfRecord DEF Store!Exists, StoreVersion, StoreHeld, StoreOwner

\* A revocation is a Drop, whichever call or sweep performs it.
LEMMA RevokeDrops ==
  ASSUME IndInv, NEW f \in Live, NEW a \in Agents, NEW q, Revocation(records[f], q, a),
         records' = [records EXCEPT ![f] = q], Revoked(f, a), gone' = gone
  PROVE  Store!Drop(a, f)
<1>. DEFINE r == records[f]
<1>1. /\ Store!Exists(f) /\ f \in Artifacts /\ RecordInv(r)
      /\ StoreVersion[f] = VersionOf(r) /\ StoreHeld[f] = HeldOf(r) /\ StoreOwner[f] = OwnerOf(r)
  BY LiveExists
<1>2. /\ VersionOf(q) = VersionOf(r)
      /\ HeldOf(q) = [HeldOf(r) EXCEPT ![a] = 0]
      /\ OwnerOf(q) = IF OwnerOf(r) = a THEN None ELSE OwnerOf(r)
  BY <1>1, RevocationMaps
<1>3. /\ StoreVersion' = [StoreVersion EXCEPT ![f] = VersionOf(q)]
      /\ StoreHeld' = [StoreHeld EXCEPT ![f] = HeldOf(q)]
      /\ StoreOwner' = [StoreOwner EXCEPT ![f] = OwnerOf(q)]
  BY ZenonT(60), <1>1, OneRecordMaps DEF IndInv
<1>4. r.state[a] \in M_OR_E_STATES <=> StoreOwner[f] = a
  BY <1>1, OwnerOfRecord
<1>5. StoreVersion' = StoreVersion
  BY <1>1, <1>2, <1>3 DEF StoreVersion
<1>6. StoreHeld' = [StoreHeld EXCEPT ![f][a] = 0]
  BY <1>1, <1>2, <1>3
<1>7. StoreOwner' = [StoreOwner EXCEPT ![f] = IF @ = a THEN None ELSE @]
  BY <1>1, <1>2, <1>3
<1>8. revoked' = [revoked EXCEPT ![f] = IF StoreOwner[f] = a THEN @ \cup {a} ELSE @]
  BY ZenonT(60), <1>4 DEF Revoked
<1>. QED
  BY <1>1, <1>5, <1>6, <1>7, <1>8 DEF Store!Drop

\* A fetch is an Obtain.
LEMMA FetchObtains ==
  ASSUME IndInv, NEW a \in Agents, NEW f \in Artifacts, fetch(a, f)
  PROVE  Store!Obtain(a, f)
<1>. DEFINE r == records[f]
            q == FetchRecord(r, a, now)
<1>1. /\ f \in Live /\ records' = [records EXCEPT ![f] = q] /\ now \in Nat
      /\ revoked' = [revoked EXCEPT ![f] = @ \ {a}] /\ gone' = gone
  BY DEF fetch, Claimed, IndInv, TypeOK
<1>2. /\ Store!Exists(f) /\ RecordInv(r)
      /\ StoreVersion[f] = VersionOf(r) /\ StoreHeld[f] = HeldOf(r) /\ StoreOwner[f] = OwnerOf(r)
  BY <1>1, LiveExists
<1>3. /\ VersionOf(q) = VersionOf(r)
      /\ HeldOf(q) = [HeldOf(r) EXCEPT ![a] = VersionOf(r)]
      /\ OwnerOf(q) = IF \A p \in Agents \ {a} : HeldOf(r)[p] = 0 THEN a ELSE None
  BY <1>1, <1>2, FetchMaps
<1>. HIDE DEF q
<1>4. /\ StoreVersion' = [StoreVersion EXCEPT ![f] = VersionOf(q)]
      /\ StoreHeld' = [StoreHeld EXCEPT ![f] = HeldOf(q)]
      /\ StoreOwner' = [StoreOwner EXCEPT ![f] = OwnerOf(q)]
  BY ZenonT(60), <1>1, OneRecordMaps DEF IndInv
<1>5. StoreVersion' = StoreVersion
  BY ZenonT(60), <1>2, <1>3, <1>4 DEF StoreVersion
<1>6. StoreHeld' = [StoreHeld EXCEPT ![f][a] = StoreVersion[f]]
  BY <1>2, <1>3, <1>4
<1>7. StoreOwner' = [StoreOwner EXCEPT ![f] =
        IF \A p \in Agents \ {a} : StoreHeld[f][p] = 0 THEN a ELSE None]
  BY <1>2, <1>3, <1>4
<1>. QED
  BY <1>1, <1>2, <1>5, <1>6, <1>7 DEF Store!Obtain

\* A pessimistic write is an Acquire.
LEMMA WriteAcquires ==
  ASSUME IndInv, NEW a \in Agents, NEW f \in Artifacts, write(a, f)
  PROVE  Store!Acquire(a, f)
<1>. DEFINE r == records[f]
            q == WriteRecord(r, a, now)
<1>1. /\ f \in Live /\ records' = [records EXCEPT ![f] = q] /\ now \in Nat
      /\ revoked' = [revoked EXCEPT ![f] = @ \ {a}] /\ gone' = gone
  BY DEF write, Claimed, IndInv, TypeOK
<1>2. /\ Store!Exists(f) /\ RecordInv(r) /\ StoreVersion[f] = VersionOf(r)
  BY <1>1, LiveExists
<1>3. /\ RecordInv(q) /\ q.version = r.version
      /\ q.state[a] = "EXCLUSIVE" /\ \A p \in Agents \ {a} : q.state[p] = "INVALID"
  BY <1>1, <1>2, WritePreserves
<1>. HIDE DEF q
<1>4. /\ HeldOf(q) = Store!Only(a, q.version) /\ OwnerOf(q) = a
  BY <1>3, OnlyHolder DEF M_OR_E_STATES
<1>5. VersionOf(q) = q.version /\ VersionOf(r) = r.version
  BY SMTT(60), <1>2, <1>3, HeldOfRecord
<1>6. /\ StoreVersion' = [StoreVersion EXCEPT ![f] = VersionOf(q)]
      /\ StoreHeld' = [StoreHeld EXCEPT ![f] = HeldOf(q)]
      /\ StoreOwner' = [StoreOwner EXCEPT ![f] = OwnerOf(q)]
  BY ZenonT(60), <1>1, OneRecordMaps DEF IndInv
<1>7. StoreVersion' = StoreVersion
  BY ZenonT(60), <1>2, <1>3, <1>5, <1>6 DEF StoreVersion
<1>. QED
  BY <1>1, <1>2, <1>3, <1>4, <1>5, <1>6, <1>7 DEF Store!Acquire

\* Rewriting a set of records so that each has the publisher as its only
\* holder, one version on, is a Publish.
LEMMA PublishMaps ==
  ASSUME IndInv, NEW a \in Agents, NEW F \in SUBSET Live, F # {},
         \A f \in F :
           /\ RecordInv(records'[f]) /\ records'[f].version = records[f].version + 1
           /\ records'[f].state[a] # "INVALID"
           /\ \A p \in Agents \ {a} : records'[f].state[p] = "INVALID"
           /\ records'[f].state[a] \in M_OR_E_STATES <=> records[f].state[a] \in M_OR_E_STATES
           /\ ~StaleReadGeneration(records[f], a) /\ ~OtherOwner(records[f], a),
         \A f \in Artifacts \ F : records'[f] = records[f],
         gone' = gone, revoked' = revoked
  PROVE  Store!Publish(a, F)
<1>1. ASSUME NEW f \in F
      PROVE  /\ Store!Exists(f) /\ StoreOwner[f] \in {a, None} /\ a \notin revoked[f]
             /\ VersionOf(records'[f]) = StoreVersion[f] + 1
             /\ HeldOf(records'[f]) = Store!Only(a, StoreVersion[f] + 1)
             /\ OwnerOf(records'[f]) = StoreOwner[f]
  <2>. DEFINE r == records[f]
              q == records'[f]
  <2>1. /\ RecordInv(q) /\ q.version = r.version + 1 /\ q.state[a] # "INVALID"
        /\ \A p \in Agents \ {a} : q.state[p] = "INVALID"
        /\ q.state[a] \in M_OR_E_STATES <=> r.state[a] \in M_OR_E_STATES
        /\ ~StaleReadGeneration(r, a) /\ ~OtherOwner(r, a)
    OBVIOUS
  <2>. HIDE DEF q
  <2>2. /\ Store!Exists(f) /\ f \in Live /\ RecordInv(r)
        /\ StoreVersion[f] = VersionOf(r) /\ StoreOwner[f] = OwnerOf(r)
    BY LiveExists
  <2>3. VersionOf(q) = q.version /\ VersionOf(r) = r.version
    BY <2>1, <2>2, HeldOfRecord
  <2>4. /\ HeldOf(q) = Store!Only(a, q.version)
        /\ OwnerOf(q) = IF q.state[a] \in M_OR_E_STATES THEN a ELSE None
    BY <2>1, OnlyHolder
  <2>5. /\ \A p \in Agents : r.state[p] \in M_OR_E_STATES <=> OwnerOf(r) = p
        /\ OwnerOf(r) \in Agents \cup {None}
    BY <2>2, OwnerOfRecord
  <2>6. OwnerOf(r) = IF r.state[a] \in M_OR_E_STATES THEN a ELSE None
    BY <2>1, <2>5 DEF OtherOwner
  <2>7. a \notin revoked[f]
    BY <2>1, <2>2 DEF IndInv
  <2>. QED
    BY <2>1, <2>2, <2>3, <2>4, <2>6, <2>7 DEF q
<1>2. F \in SUBSET Artifacts
  BY DEF Live
<1>3. StoreVersion' = [f \in Artifacts |-> IF f \in F THEN StoreVersion[f] + 1 ELSE StoreVersion[f]]
  BY ZenonT(60), <1>1 DEF StoreVersion
<1>4. StoreHeld' = [f \in Artifacts |->
        IF f \in F THEN Store!Only(a, StoreVersion[f] + 1) ELSE StoreHeld[f]]
  BY <1>1 DEF StoreHeld
<1>5. StoreOwner' = StoreOwner
  BY ZenonT(60), <1>1 DEF StoreOwner
<1>. QED
  BY <1>1, <1>2, <1>3, <1>4, <1>5 DEF Store!Publish

\* A pessimistic commit by the owner is a Publish of one artifact.
LEMMA CommitPublishes ==
  ASSUME IndInv, NEW a \in Agents, NEW f \in Artifacts, commit(a, f)
  PROVE  Store!Publish(a, {f})
<1>. DEFINE r == records[f]
            q == CommitRecord(r, a, now)
<1>1. /\ f \in Live /\ records' = [records EXCEPT ![f] = q] /\ now \in Nat
      /\ DOMAIN records = Artifacts
      /\ r.state[a] \in M_OR_E_STATES /\ ~StaleReadGeneration(r, a)
      /\ gone' = gone /\ revoked' = revoked /\ RecordInv(r)
  BY DEF commit, IndInv, TypeOK
<1>2. /\ RecordInv(q) /\ q.version = r.version + 1
      /\ q.state[a] = "MODIFIED" /\ \A p \in Agents \ {a} : q.state[p] = "INVALID"
  BY <1>1, CommitPreserves
<1>3. ~OtherOwner(r, a)
  BY <1>1 DEF OtherOwner, RecordInv, M_OR_E_STATES
<1>. HIDE DEF q
<1>4. records'[f] = q /\ \A g \in Artifacts \ {f} : records'[g] = records[g]
  BY <1>1
<1>5. q.state[a] # "INVALID" /\ q.state[a] \in M_OR_E_STATES
  BY <1>2 DEF M_OR_E_STATES
<1>6. /\ {f} \in SUBSET Live /\ {f} # {}
      /\ \A g \in {f} :
           /\ RecordInv(records'[g]) /\ records'[g].version = records[g].version + 1
           /\ records'[g].state[a] # "INVALID"
           /\ \A p \in Agents \ {a} : records'[g].state[p] = "INVALID"
           /\ records'[g].state[a] \in M_OR_E_STATES <=> records[g].state[a] \in M_OR_E_STATES
           /\ ~StaleReadGeneration(records[g], a) /\ ~OtherOwner(records[g], a)
      /\ \A g \in Artifacts \ {f} : records'[g] = records[g]
  BY <1>1, <1>2, <1>3, <1>4, <1>5
<1>. QED
  BY <1>1, <1>6, PublishMaps

\* What a winning optimistic commit does to one member is what Publish asks.
LEMMA WinPublishes ==
  ASSUME NEW r, RecordInv(r), NEW a \in Agents, OccAllowed(r, a),
         NEW expected \in Nat, CasOutcome(r, a, expected) = "win",
         NEW q, q = CasWin(r, a)
  PROVE  /\ RecordInv(q) /\ q.version = r.version + 1
         /\ q.state[a] # "INVALID"
         /\ \A p \in Agents \ {a} : q.state[p] = "INVALID"
         /\ q.state[a] \in M_OR_E_STATES <=> r.state[a] \in M_OR_E_STATES
         /\ ~StaleReadGeneration(r, a) /\ ~OtherOwner(r, a)
<1>1. /\ RecordInv(q) /\ q.version = r.version + 1
      /\ q.state[a] = "SHARED" /\ \A p \in Agents \ {a} : q.state[p] = "INVALID"
  BY CasWinPreserves
<1>2. r.state[a] \notin M_OR_E_STATES /\ q.state[a] \notin M_OR_E_STATES
  BY <1>1 DEF OccAllowed, M_OR_E_STATES
<1>3. ~StaleReadGeneration(r, a) /\ ~OtherOwner(r, a)
  BY DEF CasOutcome, RecordInv, ArtifactRecord
<1>. QED
  BY <1>1, <1>2, <1>3

\* commit_cas is a Publish of one artifact, commit_all of its whole batch.
LEMMA CasPublishes ==
  ASSUME IndInv, NEW a \in Agents
  PROVE  /\ \A f \in Artifacts, expected \in 1 .. MaxVersion :
              commit_cas(a, f, expected) => Store!Publish(a, {f})
         /\ \A F \in SUBSET Artifacts : \A expected \in [F -> 1 .. MaxVersion] :
              commit_all(a, F, expected) => Store!Publish(a, F)
<1>0. DOMAIN records = Artifacts /\ \A v \in 1 .. MaxVersion : v \in Nat
  BY SMTT(60), BoundsAssumption DEF IndInv, TypeOK
<1>1. ASSUME NEW f \in Artifacts, NEW expected \in 1 .. MaxVersion, commit_cas(a, f, expected)
      PROVE  Store!Publish(a, {f})
  <2>1. /\ f \in Live /\ RecordInv(records[f])
        /\ OccAllowed(records[f], a) /\ CasOutcome(records[f], a, expected) = "win"
        /\ records' = [records EXCEPT ![f] = CasWin(records[f], a)]
        /\ gone' = gone /\ revoked' = revoked
    BY <1>1 DEF commit_cas, IndInv
  <2>2. records'[f] = CasWin(records[f], a) /\ \A g \in Artifacts \ {f} : records'[g] = records[g]
    BY <1>0, <2>1
  <2>3. \A g \in {f} :
          /\ RecordInv(records'[g]) /\ records'[g].version = records[g].version + 1
          /\ records'[g].state[a] # "INVALID"
          /\ \A p \in Agents \ {a} : records'[g].state[p] = "INVALID"
          /\ records'[g].state[a] \in M_OR_E_STATES <=> records[g].state[a] \in M_OR_E_STATES
          /\ ~StaleReadGeneration(records[g], a) /\ ~OtherOwner(records[g], a)
    BY SMTT(60), <1>0, <2>1, <2>2, WinPublishes
  <2>. QED
    BY SMTT(60), <2>1, <2>2, <2>3, PublishMaps
<1>2. ASSUME NEW F \in SUBSET Artifacts, NEW expected \in [F -> 1 .. MaxVersion],
             commit_all(a, F, expected)
      PROVE  Store!Publish(a, F)
  <2>1. /\ F # {} /\ F \in SUBSET Live /\ gone' = gone /\ revoked' = revoked
        /\ \A g \in Artifacts \ F : records'[g] = records[g]
    BY <1>2 DEF commit_all
  <2>2. ASSUME NEW g \in F
        PROVE  /\ RecordInv(records'[g]) /\ records'[g].version = records[g].version + 1
               /\ records'[g].state[a] # "INVALID"
               /\ \A p \in Agents \ {a} : records'[g].state[p] = "INVALID"
               /\ records'[g].state[a] \in M_OR_E_STATES
                    <=> records[g].state[a] \in M_OR_E_STATES
               /\ ~StaleReadGeneration(records[g], a) /\ ~OtherOwner(records[g], a)
    <3>1. /\ OccAllowed(records[g], a) /\ CasOutcome(records[g], a, expected[g]) = "win"
          /\ records'[g] = CasWin(records[g], a) /\ expected[g] \in Nat
      BY SMTT(60), <1>0, <1>2 DEF commit_all
    <3>2. RecordInv(records[g])
      BY <2>1 DEF IndInv
    <3>. QED
      BY <3>1, <3>2, WinPublishes
  <2>. QED
    BY <2>1, <2>2, PublishMaps
<1>. QED
  BY <1>1, <1>2

\* Registering is a Create.
LEMMA RegisterCreates ==
  ASSUME IndInv, NEW f \in Artifacts, NEW o \in Agents \cup {None}, Register(f, o)
  PROVE  Store!Create(f, o)
<1>. DEFINE q == IF o = None THEN register_artifact
                 ELSE set_agent_state(register_artifact, o, "EXCLUSIVE", "register", 0)
<1>1. /\ records[f] = None /\ f \notin gone /\ records' = [records EXCEPT ![f] = q]
      /\ gone' = gone /\ revoked' = revoked
  BY DEF Register
<1>2. RecordInv(q) /\ q.version = 1
  BY RegisterEstablishes
<1>3. /\ HeldOf(q) = IF o = None THEN Store!Nothing ELSE Store!Only(o, 1)
      /\ OwnerOf(q) = o
  <2>1. CASE o = None
    <3>1. \A p \in Agents : q.state[p] = "INVALID"
      BY <2>1, RegisterEstablishes
    <3>. HIDE DEF q
    <3>2. HeldOf(q) = [p \in Agents |-> 0]
      BY <1>2, <3>1, HeldOfRecord
    <3>3. OwnerOf(q) = None
      BY <3>1 DEF OwnerOf, M_OR_E_STATES
    <3>. QED
      BY <2>1, <3>2, <3>3 DEF Store!Nothing
  <2>2. CASE o # None
    <3>1. o \in Agents /\ q.state[o] = "EXCLUSIVE" /\ \A p \in Agents \ {o} : q.state[p] = "INVALID"
      BY <2>2, RegisterEstablishes
    <3>. HIDE DEF q
    <3>2. HeldOf(q) = Store!Only(o, 1) /\ OwnerOf(q) = o
      BY <1>2, <3>1, OnlyHolder DEF M_OR_E_STATES
    <3>. QED
      BY <2>2, <3>2
  <2>. QED
    BY <2>1, <2>2
<1>. HIDE DEF q
<1>4. VersionOf(q) = 1
  BY SMTT(60), <1>2, HeldOfRecord
<1>5. /\ StoreVersion' = [StoreVersion EXCEPT ![f] = VersionOf(q)]
      /\ StoreHeld' = [StoreHeld EXCEPT ![f] = HeldOf(q)]
      /\ StoreOwner' = [StoreOwner EXCEPT ![f] = OwnerOf(q)]
  BY ZenonT(60), <1>1, OneRecordMaps DEF IndInv
<1>6. StoreVersion[f] = 0
  BY <1>1 DEF StoreVersion, VersionOf
<1>. QED
  BY <1>1, <1>3, <1>4, <1>5, <1>6 DEF Store!Create

\* Deleting is a Remove.
LEMMA DeleteRemoves ==
  ASSUME IndInv, NEW a \in Agents, NEW f \in Artifacts, delete(a, f)
  PROVE  Store!Remove(f)
<1>1. /\ f \in Live /\ records' = [records EXCEPT ![f] = None]
      /\ gone' = gone \cup {f} /\ revoked' = revoked
  BY DEF delete
<1>2. Store!Exists(f)
  BY <1>1, LiveExists
<1>3. /\ StoreVersion' = [StoreVersion EXCEPT ![f] = VersionOf(None)]
      /\ StoreHeld' = [StoreHeld EXCEPT ![f] = HeldOf(None)]
      /\ StoreOwner' = [StoreOwner EXCEPT ![f] = OwnerOf(None)]
  BY ZenonT(60), <1>1, OneRecordMaps DEF IndInv
<1>4. VersionOf(None) = 0 /\ HeldOf(None) = Store!Nothing /\ OwnerOf(None) = None
  BY DEF VersionOf, HeldOf, OwnerOf, Store!Nothing
<1>. QED
  BY <1>1, <1>2, <1>3, <1>4 DEF Store!Remove

\* The initial states map to the initial state of the store.
LEMMA InitRefines == Init => Store!Init
  BY DEF Init, Store!Init, StoreVersion, StoreHeld, StoreOwner, Store!Nothing,
         VersionOf, HeldOf, OwnerOf

\* Every step maps to a step of the store or to a stutter.
LEMMA NextRefines == IndInv /\ [Next]_vars => [Store!Next]_Store!vars
<1>. SUFFICES ASSUME IndInv, [Next]_vars PROVE [Store!Next]_Store!vars
  OBVIOUS
<1>0. ASSUME UNCHANGED <<records, gone, revoked>> PROVE UNCHANGED Store!vars
  BY <1>0 DEF Store!vars, StoreVersion, StoreHeld, StoreOwner
<1>1. ASSUME NEW f \in Artifacts, NEW o \in Agents \cup {None}, Register(f, o)
      PROVE  Store!Next
  BY <1>1, RegisterCreates DEF Store!Next
<1>2. ASSUME NEW a \in Agents, NEW f \in Artifacts, fetch(a, f)
      PROVE  Store!Next
  BY <1>2, FetchObtains DEF Store!Next
<1>3. ASSUME NEW a \in Agents, NEW f \in Artifacts, write(a, f)
      PROVE  Store!Next
  BY <1>3, WriteAcquires DEF Store!Next
<1>4. ASSUME NEW a \in Agents, NEW f \in Artifacts, commit(a, f)
      PROVE  Store!Next
  <2>1. {f} \in SUBSET Artifacts
    OBVIOUS
  <2>. QED
    BY ZenonT(60), <1>4, <2>1, CommitPublishes DEF Store!Next
<1>5. ASSUME NEW a \in Agents, NEW f \in Artifacts, NEW expected \in 1 .. MaxVersion,
             commit_cas(a, f, expected)
      PROVE  Store!Next
  <2>1. {f} \in SUBSET Artifacts
    OBVIOUS
  <2>. QED
    BY ZenonT(60), <1>5, <2>1, CasPublishes DEF Store!Next
<1>6. ASSUME NEW a \in Agents, NEW F \in SUBSET Artifacts,
             NEW expected \in [F -> 1 .. MaxVersion], commit_all(a, F, expected)
      PROVE  Store!Next
  BY <1>6, CasPublishes DEF Store!Next
<1>7. ASSUME NEW a \in Agents, NEW f \in Artifacts, NEW v, NEW issuer,
             invalidate(a, f, v, issuer)
      PROVE  Store!Next
  <2>. DEFINE q == InvalidateRecord(records[f], a, now)
  <2>1. /\ f \in Live /\ records' = [records EXCEPT ![f] = q] /\ now \in Nat
        /\ Revoked(f, a) /\ gone' = gone /\ RecordInv(records[f])
    BY <1>7 DEF invalidate, IndInv, TypeOK
  <2>2. Revocation(records[f], q, a)
    BY <2>1, InvalidateRevokes
  <2>. HIDE DEF q
  <2>3. Store!Drop(a, f)
    BY ZenonT(60), <2>1, <2>2, RevokeDrops
  <2>. QED
    BY <2>3 DEF Store!Next
<1>8. ASSUME NEW a \in Agents, NEW f \in Artifacts, delete(a, f)
      PROVE  Store!Next
  BY <1>8, DeleteRemoves DEF Store!Next
<1>9. ASSUME NEW f \in Artifacts, NEW a \in Agents, SweepTransient(f, a)
      PROVE  Store!Next \/ UNCHANGED Store!vars
  <2>1. CASE f \in Live /\ TransientExpired(records[f], a, sweep.tick)
    <3>. DEFINE q == TimeoutRecord(records[f], a, sweep.tick)
    <3>1. /\ records' = [records EXCEPT ![f] = q] /\ sweep.tick \in Nat
          /\ Revoked(f, a) /\ gone' = gone /\ RecordInv(records[f])
      BY <1>9, <2>1 DEF SweepTransient, IndInv, TypeOK, Sweep
    <3>2. Revocation(records[f], q, a)
      BY <3>1, InvalidateRevokes
    <3>. HIDE DEF q
    <3>3. Store!Drop(a, f)
      BY ZenonT(60), <2>1, <3>1, <3>2, RevokeDrops
    <3>. QED
      BY <3>3 DEF Store!Next
  <2>2. CASE ~(f \in Live /\ TransientExpired(records[f], a, sweep.tick))
    BY <1>0, <1>9, <2>2 DEF SweepTransient
  <2>. QED
    BY <2>1, <2>2
<1>10. ASSUME NEW f \in Artifacts, NEW a \in Agents, SweepGrant(f, a)
       PROVE  Store!Next \/ UNCHANGED Store!vars
  <2>. DEFINE t == ReclaimTrigger(records[f], a, sweep.tick)
  <2>1. CASE f \in Live /\ t # None
    <3>. DEFINE q == ReclaimRecord(records[f], a, t, sweep.tick)
    <3>1. /\ records' = [records EXCEPT ![f] = q] /\ sweep.tick \in Nat
          /\ Revoked(f, a) /\ gone' = gone /\ RecordInv(records[f])
      BY <1>10, <2>1 DEF SweepGrant, IndInv, TypeOK, Sweep
    <3>2. t \in ReclamationSlot
      BY <2>1 DEF ReclaimTrigger, ReclamationSlot
    <3>3. Revocation(records[f], q, a)
      BY <3>1, <3>2, ReclaimRevokes
    <3>. HIDE DEF q
    <3>4. Store!Drop(a, f)
      BY ZenonT(60), <2>1, <3>1, <3>3, RevokeDrops
    <3>. QED
      BY <3>4 DEF Store!Next
  <2>2. CASE ~(f \in Live /\ t # None)
    BY <1>0, <1>10, <2>2 DEF SweepGrant
  <2>. QED
    BY <2>1, <2>2
<1>11. ASSUME \/ \E a \in Agents : record_heartbeat(a)
              \/ Tick
              \/ StartTransientSweep
              \/ StartGrantSweep
              \/ UNCHANGED vars
       PROVE  UNCHANGED Store!vars
  BY <1>0, <1>11 DEF record_heartbeat, Tick, StartTransientSweep, StartGrantSweep, StartSweep, vars
<1>12. ASSUME NEW s \in issued, DeliverInvalidation(s)
       PROVE  Store!Next
  BY <1>7, <1>12 DEF DeliverInvalidation, IndInv, TypeOK, Signal
<1>13. ASSUME NEW a \in Agents, NEW f \in Artifacts, Release(a, f)
       PROVE  Store!Next
  BY <1>7, <1>13 DEF Release
<1>. QED
  BY <1>1, <1>2, <1>3, <1>4, <1>5, <1>6, <1>8, <1>9, <1>10, <1>11, <1>12, <1>13
     DEF Next, AgentNext, SweepNext

\* For any agents and artifacts, the service calls, the transport and the
\* sweeps together behave as the coherent store.
THEOREM Refinement == Spec => ImplementsStore
  BY InitRefines, NextRefines, Invariance, PTL DEF Spec, ImplementsStore, Store!Spec
=============================================================================
