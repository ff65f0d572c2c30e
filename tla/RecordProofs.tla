---------------------------- MODULE RecordProofs ----------------------------
(***************************************************************************)
(* Facts about single registry records: what each registry operation       *)
(* leaves in each field, and that each service call of the coordinator     *)
(* preserves RecordInv.                                                    *)
(***************************************************************************)
EXTENDS ServiceRecords, TLAPS

-----------------------------------------------------------------------------
(* Fields after each registry operation.                                   *)

\* set_agent_state rewrites the six per-agent and epoch fields below and
\* nothing else, and keeps the record well typed.
SetAgentStateEffect(r, q, a, s, trigger, tick) ==
  /\ q \in ArtifactRecord
  /\ q.version = r.version
  /\ q.last_writer = r.last_writer
  /\ q.owner_generation = EpochAfter(r, a, s, trigger)
  /\ \A p \in Agents \ {a} :
       /\ q.state[p] = r.state[p]
       /\ q.granted_at[p] = r.granted_at[p]
       /\ q.last_reclamation[p] = r.last_reclamation[p]
       /\ q.read_generation[p] = r.read_generation[p]
       /\ q.last_observed[p] = r.last_observed[p]
  /\ \A p \in Agents : q.transient[p] = r.transient[p]
  /\ q.state[a] = s
  /\ q.granted_at[a] = IF EntersOwnership(r, a, s) THEN tick
                       ELSE IF LeavesOwnership(r, a, s) THEN None ELSE r.granted_at[a]
  /\ q.last_reclamation[a] = IF EntersOwnership(r, a, s) THEN None ELSE r.last_reclamation[a]
  /\ q.read_generation[a] = IF ClaimsGeneration(r, a, s, trigger)
                              THEN EpochAfter(r, a, s, trigger) ELSE r.read_generation[a]
  /\ q.last_observed[a] = IF s # "INVALID" THEN r.version ELSE r.last_observed[a]

\* set_agent_state has the effect stated above on a well-typed record.
LEMMA SetAgentStateFields ==
  ASSUME NEW r \in ArtifactRecord, NEW a \in Agents, NEW s \in MESIState,
         NEW trigger, NEW tick \in Nat
  PROVE  SetAgentStateEffect(r, set_agent_state(r, a, s, trigger, tick), a, s, trigger, tick)
<1>. DEFINE q == set_agent_state(r, a, s, trigger, tick)
<1>1. EpochAfter(r, a, s, trigger) \in Nat
  BY DEF EpochAfter, ArtifactRecord
<1>2. /\ q.version = r.version
      /\ q.last_writer = r.last_writer
      /\ q.transient = r.transient
  BY DEF set_agent_state, ArtifactRecord
<1>3. q.state = [r.state EXCEPT ![a] = s]
  BY DEF set_agent_state, ArtifactRecord
<1>4. q.granted_at = [r.granted_at EXCEPT ![a] =
              IF EntersOwnership(r, a, s) THEN tick
              ELSE IF LeavesOwnership(r, a, s) THEN None ELSE @]
  BY DEF set_agent_state, ArtifactRecord
<1>5. q.last_reclamation = [r.last_reclamation EXCEPT ![a] =
              IF EntersOwnership(r, a, s) THEN None ELSE @]
  BY DEF set_agent_state, ArtifactRecord
<1>6. q.owner_generation = EpochAfter(r, a, s, trigger)
  BY DEF set_agent_state, ArtifactRecord
<1>7. q.read_generation = [r.read_generation EXCEPT ![a] =
              IF ClaimsGeneration(r, a, s, trigger) THEN EpochAfter(r, a, s, trigger) ELSE @]
  BY DEF set_agent_state, ArtifactRecord
<1>8. q.last_observed = [r.last_observed EXCEPT ![a] =
              IF s # "INVALID" THEN r.version ELSE @]
  BY DEF set_agent_state, ArtifactRecord
<1>9. q \in ArtifactRecord
  <2>1. q.granted_at \in [Agents -> OptNat]
    BY <1>4 DEF ArtifactRecord, OptNat
  <2>2. q.last_reclamation \in [Agents -> ReclamationSlot \cup {None}]
    BY <1>5 DEF ArtifactRecord
  <2>3. q.read_generation \in [Agents -> OptNat]
    BY <1>7, <1>1 DEF ArtifactRecord, OptNat
  <2>4. q.last_observed \in [Agents -> OptNat]
    BY <1>8 DEF ArtifactRecord, OptNat
  <2>5. /\ q.state \in [Agents -> MESIState]
        /\ q.owner_generation \in Nat
    BY <1>1, <1>3, <1>6 DEF ArtifactRecord
  <2>. DEFINE q1 == [r EXCEPT !.state[a] = s]
              q2 == [q1 EXCEPT !.granted_at = q.granted_at]
              q3 == [q2 EXCEPT !.last_reclamation = q.last_reclamation]
              q4 == [q3 EXCEPT !.owner_generation = q.owner_generation]
              q5 == [q4 EXCEPT !.read_generation = q.read_generation]
              q6 == [q5 EXCEPT !.last_observed = q.last_observed]
  <2>6. q = q6
    BY ZenonT(60), <1>3, <1>4, <1>5, <1>6, <1>7, <1>8 DEF set_agent_state, ArtifactRecord
  <2>. HIDE DEF q
  <2>7. q1 \in ArtifactRecord  BY <2>5 DEF ArtifactRecord
  <2>. HIDE DEF q1
  <2>8. q2 \in ArtifactRecord  BY <2>1, <2>7 DEF ArtifactRecord
  <2>. HIDE DEF q2
  <2>9. q3 \in ArtifactRecord  BY <2>2, <2>8 DEF ArtifactRecord
  <2>. HIDE DEF q3
  <2>10. q4 \in ArtifactRecord  BY <2>5, <2>9 DEF ArtifactRecord
  <2>. HIDE DEF q4
  <2>11. q5 \in ArtifactRecord  BY <2>3, <2>10 DEF ArtifactRecord
  <2>. HIDE DEF q5
  <2>12. q6 \in ArtifactRecord  BY SMTT(60), <2>4, <2>11 DEF ArtifactRecord
  <2>. QED
    BY <2>6, <2>12
<1>. HIDE DEF q
<1>10. SetAgentStateEffect(r, q, a, s, trigger, tick)
  BY <1>2, <1>3, <1>4, <1>5, <1>6, <1>7, <1>8, <1>9 DEF SetAgentStateEffect, ArtifactRecord
<1>. QED
  BY <1>10 DEF q

\* clear_agent_transient touches one transient and nothing else.
ClearTransientEffect(r, q, a) ==
  /\ q \in ArtifactRecord
  /\ q.version = r.version
  /\ q.last_writer = r.last_writer
  /\ q.owner_generation = r.owner_generation
  /\ \A p \in Agents :
       /\ q.state[p] = r.state[p]
       /\ q.transient[p] = IF p = a THEN None ELSE r.transient[p]
       /\ q.granted_at[p] = r.granted_at[p]
       /\ q.last_reclamation[p] = r.last_reclamation[p]
       /\ q.read_generation[p] = r.read_generation[p]
       /\ q.last_observed[p] = r.last_observed[p]

\* clear_agent_transient has the effect stated above on a well-typed record.
LEMMA ClearTransientFields ==
  ASSUME NEW r \in ArtifactRecord, NEW a \in Agents
  PROVE  ClearTransientEffect(r, clear_agent_transient(r, a), a)
  BY ZenonT(60) DEF clear_agent_transient, ArtifactRecord, OptNat, ClearTransientEffect

\* The downgrade loop of fetch turns the owners among the peers into SHARED
\* holders of the current version.
DowngradePeersEffect(r, q, a) ==
  /\ q \in ArtifactRecord
  /\ q.version = r.version
  /\ q.last_writer = r.last_writer
  /\ q.owner_generation = r.owner_generation
  /\ \A p \in Agents :
       LET down == p # a /\ r.state[p] \in M_OR_E_STATES IN
       /\ q.state[p] = IF down THEN "SHARED" ELSE r.state[p]
       /\ q.transient[p] = r.transient[p]
       /\ q.granted_at[p] = IF down THEN None ELSE r.granted_at[p]
       /\ q.last_reclamation[p] = r.last_reclamation[p]
       /\ q.read_generation[p] = r.read_generation[p]
       /\ q.last_observed[p] = IF down THEN r.version ELSE r.last_observed[p]

\* DowngradePeers has the effect stated above on a well-typed record.
LEMMA DowngradePeersFields ==
  ASSUME NEW r \in ArtifactRecord, NEW a \in Agents
  PROVE  DowngradePeersEffect(r, DowngradePeers(r, a), a)
<1>. DEFINE D == Owners(r) \ {a}
            q1 == [r EXCEPT !.state = [p \in Agents |-> IF p \in D THEN "SHARED" ELSE r.state[p]]]
            q2 == [q1 EXCEPT !.granted_at =
                     [p \in Agents |-> IF p \in D THEN None ELSE r.granted_at[p]]]
            q3 == [q2 EXCEPT !.last_observed =
                     [p \in Agents |-> IF p \in D THEN r.version ELSE r.last_observed[p]]]
<1>1. DowngradePeers(r, a) = q3
  BY DEF DowngradePeers, ArtifactRecord
<1>. HIDE DEF D
<1>2. q1 \in ArtifactRecord
  BY ZenonT(60) DEF ArtifactRecord, MESIState
<1>3. q2 \in ArtifactRecord
  <2>. HIDE DEF q1
  <2>. QED  BY ZenonT(60), <1>2 DEF ArtifactRecord, OptNat
<1>4. q3 \in ArtifactRecord
  <2>. HIDE DEF q2
  <2>. QED  BY ZenonT(60), <1>3 DEF ArtifactRecord, OptNat
<1>5. /\ q3.version = r.version
      /\ q3.last_writer = r.last_writer
      /\ q3.transient = r.transient
      /\ q3.last_reclamation = r.last_reclamation
      /\ q3.owner_generation = r.owner_generation
      /\ q3.read_generation = r.read_generation
  BY DEF ArtifactRecord
<1>6. /\ q3.state = [p \in Agents |-> IF p \in D THEN "SHARED" ELSE r.state[p]]
      /\ q3.granted_at = [p \in Agents |-> IF p \in D THEN None ELSE r.granted_at[p]]
      /\ q3.last_observed = [p \in Agents |-> IF p \in D THEN r.version ELSE r.last_observed[p]]
  BY DEF ArtifactRecord
<1>. HIDE DEF q3
<1>7. DowngradePeersEffect(r, q3, a)
  BY <1>4, <1>5, <1>6 DEF D, Owners, DowngradePeersEffect, ArtifactRecord
<1>. QED
  BY <1>1, <1>7

\* The peer loop of write and commit leaves every peer INVALID and marks with
\* a transient the ones that held a copy.
InvalidatePeersEffect(r, q, a, tick) ==
  /\ q \in ArtifactRecord
  /\ q.version = r.version
  /\ q.last_writer = r.last_writer
  /\ q.owner_generation = r.owner_generation
  /\ \A p \in Agents :
       /\ q.state[p] = IF p = a THEN r.state[p] ELSE "INVALID"
       /\ q.transient[p] = IF p # a /\ r.state[p] # "INVALID" THEN tick ELSE r.transient[p]
       /\ q.granted_at[p] = IF p # a /\ r.state[p] \in M_OR_E_STATES
                              THEN None ELSE r.granted_at[p]
       /\ q.last_reclamation[p] = r.last_reclamation[p]
       /\ q.read_generation[p] = r.read_generation[p]
       /\ q.last_observed[p] = r.last_observed[p]

\* InvalidatePeers has the effect stated above on a well-typed record.
LEMMA InvalidatePeersFields ==
  ASSUME NEW r \in ArtifactRecord, NEW a \in Agents, NEW tick \in Nat
  PROVE  InvalidatePeersEffect(r, InvalidatePeers(r, a, tick), a, tick)
<1>. DEFINE H == OtherHolders(r, a)
            q1 == [r EXCEPT !.state = [p \in Agents |-> IF p = a THEN r.state[p] ELSE "INVALID"]]
            q2 == [q1 EXCEPT !.transient =
                     [p \in Agents |-> IF p \in H THEN tick ELSE r.transient[p]]]
            q3 == [q2 EXCEPT !.granted_at = [p \in Agents |->
                     IF p # a /\ r.state[p] \in M_OR_E_STATES THEN None ELSE r.granted_at[p]]]
<1>1. InvalidatePeers(r, a, tick) = q3
  BY DEF InvalidatePeers, ArtifactRecord
<1>. HIDE DEF H
<1>2. q1 \in ArtifactRecord
  BY ZenonT(60) DEF ArtifactRecord, MESIState
<1>3. q2 \in ArtifactRecord
  <2>. HIDE DEF q1
  <2>. QED  BY ZenonT(60), <1>2 DEF ArtifactRecord, OptNat
<1>4. q3 \in ArtifactRecord
  <2>. HIDE DEF q2
  <2>. QED  BY ZenonT(60), <1>3 DEF ArtifactRecord, OptNat
<1>5. /\ q3.version = r.version
      /\ q3.last_writer = r.last_writer
      /\ q3.last_reclamation = r.last_reclamation
      /\ q3.owner_generation = r.owner_generation
      /\ q3.read_generation = r.read_generation
      /\ q3.last_observed = r.last_observed
  BY DEF ArtifactRecord
<1>6. /\ q3.state = [p \in Agents |-> IF p = a THEN r.state[p] ELSE "INVALID"]
      /\ q3.transient = [p \in Agents |-> IF p \in H THEN tick ELSE r.transient[p]]
      /\ q3.granted_at = [p \in Agents |->
           IF p # a /\ r.state[p] \in M_OR_E_STATES THEN None ELSE r.granted_at[p]]
  BY DEF ArtifactRecord
<1>. HIDE DEF q3
<1>7. InvalidatePeersEffect(r, q3, a, tick)
  BY <1>4, <1>5, <1>6 DEF H, OtherHolders, valid_holders, InvalidatePeersEffect, ArtifactRecord
<1>. QED
  BY <1>1, <1>7

\* The version move of a pessimistic commit.
SetArtifactEffect(r, q, a) ==
  /\ q \in ArtifactRecord
  /\ q.version = r.version + 1
  /\ q.last_writer = a
  /\ q.owner_generation = r.owner_generation
  /\ \A p \in Agents :
       /\ q.state[p] = r.state[p]
       /\ q.transient[p] = r.transient[p]
       /\ q.granted_at[p] = r.granted_at[p]
       /\ q.last_reclamation[p] = r.last_reclamation[p]
       /\ q.read_generation[p] = r.read_generation[p]
       /\ q.last_observed[p] = r.last_observed[p]

\* set_artifact_and_content has the effect stated above on a well-typed record.
LEMMA SetArtifactFields ==
  ASSUME NEW r \in ArtifactRecord, NEW a \in Agents
  PROVE  SetArtifactEffect(r, set_artifact_and_content(r, a), a)
<1>. DEFINE q1 == [r EXCEPT !.version = r.version + 1]
            q2 == [q1 EXCEPT !.last_writer = a]
<1>1. set_artifact_and_content(r, a) = q2
  BY DEF set_artifact_and_content, ArtifactRecord
<1>2. q1 \in ArtifactRecord
  BY DEF ArtifactRecord
<1>3. q2 \in ArtifactRecord
  <2>. HIDE DEF q1
  <2>. QED  BY <1>2 DEF ArtifactRecord
<1>. QED
  BY <1>1, <1>3 DEF ArtifactRecord, SetArtifactEffect

\* The reclamation slot is written by the sweep after the grant is gone.
RecordReclamationEffect(r, q, a, t) ==
  /\ q \in ArtifactRecord
  /\ q.version = r.version
  /\ q.last_writer = r.last_writer
  /\ q.owner_generation = r.owner_generation
  /\ \A p \in Agents :
       /\ q.state[p] = r.state[p]
       /\ q.transient[p] = r.transient[p]
       /\ q.granted_at[p] = r.granted_at[p]
       /\ q.last_reclamation[p] = IF p = a THEN t ELSE r.last_reclamation[p]
       /\ q.read_generation[p] = r.read_generation[p]
       /\ q.last_observed[p] = r.last_observed[p]

\* record_last_reclamation has the effect stated above on a well-typed record.
LEMMA RecordReclamationFields ==
  ASSUME NEW r \in ArtifactRecord, NEW a \in Agents, NEW t \in ReclamationSlot
  PROVE  RecordReclamationEffect(r, record_last_reclamation(r, a, t), a, t)
  BY ZenonT(60) DEF record_last_reclamation, ArtifactRecord, RecordReclamationEffect

\* The winning rewrite of an optimistic commit.
CasWinEffect(r, q, a) ==
  /\ q \in ArtifactRecord
  /\ q.version = r.version + 1
  /\ q.last_writer = a
  /\ q.owner_generation = r.owner_generation
  /\ \A p \in Agents :
       /\ q.state[p] = IF p = a THEN "SHARED" ELSE "INVALID"
       /\ q.transient[p] = r.transient[p]
       /\ q.granted_at[p] = IF p # a /\ r.state[p] \in M_OR_E_STATES
                              THEN None ELSE r.granted_at[p]
       /\ q.last_reclamation[p] = r.last_reclamation[p]
       /\ q.read_generation[p] = r.read_generation[p]
       /\ q.last_observed[p] = IF p = a THEN r.version + 1 ELSE r.last_observed[p]

\* CasWin has the effect stated above on a well-typed record.
LEMMA CasWinFields ==
  ASSUME NEW r \in ArtifactRecord, NEW a \in Agents
  PROVE  CasWinEffect(r, CasWin(r, a), a)
<1>. DEFINE q1 == [r EXCEPT !.version = r.version + 1]
            q2 == [q1 EXCEPT !.last_writer = a]
            q3 == [q2 EXCEPT !.state = [p \in Agents |-> IF p = a THEN "SHARED" ELSE "INVALID"]]
            q4 == [q3 EXCEPT !.granted_at = [p \in Agents |->
                     IF p # a /\ r.state[p] \in M_OR_E_STATES THEN None ELSE r.granted_at[p]]]
            q5 == [q4 EXCEPT !.last_observed = [r.last_observed EXCEPT ![a] = r.version + 1]]
<1>1. CasWin(r, a) = q5
  BY DEF CasWin, ArtifactRecord
<1>2. q1 \in ArtifactRecord
  BY DEF ArtifactRecord
<1>3. q2 \in ArtifactRecord
  <2>. HIDE DEF q1
  <2>. QED  BY <1>2 DEF ArtifactRecord
<1>4. q3 \in ArtifactRecord
  <2>. HIDE DEF q2
  <2>. QED  BY ZenonT(60), <1>3 DEF ArtifactRecord, MESIState
<1>5. q4 \in ArtifactRecord
  <2>. HIDE DEF q3
  <2>. QED  BY ZenonT(60), <1>4 DEF ArtifactRecord, OptNat
<1>6. q5 \in ArtifactRecord
  <2>. HIDE DEF q4
  <2>. QED  BY SMTT(60), <1>5 DEF ArtifactRecord, OptNat
<1>7. /\ q5.version = r.version + 1
      /\ q5.last_writer = a
      /\ q5.transient = r.transient
      /\ q5.last_reclamation = r.last_reclamation
      /\ q5.owner_generation = r.owner_generation
      /\ q5.read_generation = r.read_generation
  BY DEF ArtifactRecord
<1>8. /\ q5.state = [p \in Agents |-> IF p = a THEN "SHARED" ELSE "INVALID"]
      /\ q5.granted_at = [p \in Agents |->
           IF p # a /\ r.state[p] \in M_OR_E_STATES THEN None ELSE r.granted_at[p]]
      /\ q5.last_observed = [r.last_observed EXCEPT ![a] = r.version + 1]
  BY DEF ArtifactRecord
<1>. HIDE DEF q5
<1>9. CasWinEffect(r, q5, a)
  BY <1>6, <1>7, <1>8 DEF CasWinEffect, ArtifactRecord
<1>. QED
  BY <1>1, <1>9

-----------------------------------------------------------------------------
(* Each service call preserves RecordInv.                                  *)

\* A fetch keeps the record invariant, moves neither version nor epoch, and
\* changes no claim but the requester's.
LEMMA FetchPreserves ==
  ASSUME NEW r, RecordInv(r), NEW a \in Agents, NEW tick \in Nat
  PROVE  LET q == FetchRecord(r, a, tick) IN
         /\ RecordInv(q)
         /\ q.version = r.version
         /\ q.owner_generation = r.owner_generation
         /\ \A p \in Agents \ {a} : q.read_generation[p] = r.read_generation[p]
         /\ q.state[a] = FetchGrant(r, a)
         /\ \A p \in Agents \ {a} :
              q.state[p] = IF r.state[p] \in M_OR_E_STATES THEN "SHARED" ELSE r.state[p]
<1>. DEFINE d == DowngradePeers(r, a)
            g == FetchGrant(r, a)
            m == set_agent_state(d, a, g, "fetch", tick)
            q == FetchRecord(r, a, tick)
<1>1. r \in ArtifactRecord /\ g \in {"EXCLUSIVE", "SHARED"} /\ g \in MESIState
  BY DEF RecordInv, FetchGrant, MESIState
<1>2. g = "EXCLUSIVE" => \A p \in Agents \ {a} : r.state[p] = "INVALID"
  BY DEF FetchGrant, OtherHolders, valid_holders
<1>3. DowngradePeersEffect(r, d, a)
  BY <1>1, DowngradePeersFields
<1>. HIDE DEF d, g
<1>4. d \in ArtifactRecord
  BY <1>3 DEF DowngradePeersEffect
<1>5. SetAgentStateEffect(d, m, a, g, "fetch", tick)
  BY <1>1, <1>4, SetAgentStateFields
<1>6. m \in ArtifactRecord
  BY <1>5 DEF SetAgentStateEffect
<1>7. ClearTransientEffect(m, q, a)
  BY <1>6, ClearTransientFields DEF FetchRecord, d, g
<1>. HIDE DEF m, q
<1>8. EpochAfter(d, a, g, "fetch") = r.owner_generation
  BY <1>3 DEF DowngradePeersEffect, EpochAfter, EPOCH_BUMP_TRIGGERS, RECLAIM_TRIGGERS
<1>9. /\ q \in ArtifactRecord
      /\ q.version = r.version
      /\ q.owner_generation = r.owner_generation
  BY <1>3, <1>5, <1>7, <1>8 DEF DowngradePeersEffect, SetAgentStateEffect, ClearTransientEffect
<1>10. \A p \in Agents \ {a} : q.read_generation[p] = r.read_generation[p]
  BY ZenonT(60), <1>3, <1>5, <1>7 DEF DowngradePeersEffect, SetAgentStateEffect, ClearTransientEffect
<1>11. \A p \in Agents \ {a} :
         LET down == r.state[p] \in M_OR_E_STATES IN
         /\ q.state[p] = IF down THEN "SHARED" ELSE r.state[p]
         /\ q.granted_at[p] = IF down THEN None ELSE r.granted_at[p]
         /\ q.last_observed[p] = IF down THEN r.version ELSE r.last_observed[p]
         /\ q.transient[p] = r.transient[p]
         /\ q.last_reclamation[p] = r.last_reclamation[p]
  <2>. TAKE p \in Agents \ {a}
  <2>1. /\ q.state[p] = d.state[p]
        /\ q.granted_at[p] = d.granted_at[p]
        /\ q.last_observed[p] = d.last_observed[p]
        /\ q.transient[p] = d.transient[p]
        /\ q.last_reclamation[p] = d.last_reclamation[p]
    BY <1>5, <1>7 DEF SetAgentStateEffect, ClearTransientEffect
  <2>. QED
    BY <2>1, <1>3 DEF DowngradePeersEffect
<1>12. /\ q.state[a] = g
       /\ q.transient[a] = None
       /\ q.last_observed[a] = r.version
  BY <1>1, <1>3, <1>5, <1>7 DEF DowngradePeersEffect, SetAgentStateEffect, ClearTransientEffect
<1>13. /\ d.state[a] = r.state[a]
       /\ q.granted_at[a] = IF EntersOwnership(d, a, g) THEN tick
                            ELSE IF LeavesOwnership(d, a, g) THEN None ELSE r.granted_at[a]
       /\ q.last_reclamation[a] =
            IF EntersOwnership(d, a, g) THEN None ELSE r.last_reclamation[a]
       /\ q.read_generation[a] =
            IF ClaimsGeneration(d, a, g, "fetch") THEN r.owner_generation ELSE r.read_generation[a]
  BY <1>3, <1>5, <1>7, <1>8 DEF DowngradePeersEffect, SetAgentStateEffect, ClearTransientEffect
<1>14. q.read_generation[a] = r.owner_generation
  BY <1>1, <1>13 DEF RecordInv, ClaimsGeneration, EntersOwnership, CLAIM_CAPTURE_TRIGGERS
<1>15. /\ q.granted_at[a] # None <=> g \in M_OR_E_STATES
       /\ q.last_reclamation[a] # None => g \notin M_OR_E_STATES
  BY <1>13, NoneAssumption DEF RecordInv, EntersOwnership, LeavesOwnership
<1>16. \A p, b \in Agents :
         q.state[p] \in M_OR_E_STATES /\ p # b => q.state[b] = "INVALID"
  BY <1>1, <1>2, <1>11, <1>12 DEF M_OR_E_STATES, RecordInv
<1>17. RecordInv(q)
  BY SMTT(60), <1>9, <1>10, <1>11, <1>12, <1>14, <1>15, <1>16
     DEF RecordInv, M_OR_E_STATES, ArtifactRecord
<1>. QED
  BY <1>9, <1>10, <1>11, <1>12, <1>17 DEF q, g

\* Granting ownership over a record whose other entries are all INVALID, as
\* write and commit do, establishes RecordInv whatever the grantee's own
\* observation and transient were.
LEMMA AcquireEstablishes ==
  ASSUME NEW r \in ArtifactRecord, r.version > 0, NEW a \in Agents,
         NEW s \in M_OR_E_STATES, NEW trigger, NEW tick \in Nat,
         \A p \in Agents \ {a} :
           /\ r.state[p] = "INVALID"
           /\ r.read_generation[p] # None => r.read_generation[p] <= r.owner_generation
           /\ r.granted_at[p] = None,
         r.state[a] \in M_OR_E_STATES =>
           /\ r.read_generation[a] = r.owner_generation
           /\ r.granted_at[a] # None
           /\ r.last_reclamation[a] = None
  PROVE  LET q == clear_agent_transient(set_agent_state(r, a, s, trigger, tick), a) IN
         /\ RecordInv(q)
         /\ q.version = r.version
         /\ q.last_writer = r.last_writer
         /\ q.owner_generation = r.owner_generation
         /\ \A p \in Agents \ {a} : q.read_generation[p] = r.read_generation[p]
         /\ q.read_generation[a] = r.owner_generation
         /\ q.state[a] = s
         /\ \A p \in Agents \ {a} : q.state[p] = "INVALID"
<1>. DEFINE m == set_agent_state(r, a, s, trigger, tick)
            q == clear_agent_transient(m, a)
<1>1. s \in MESIState /\ s # "INVALID"
  BY DEF MESIState, M_OR_E_STATES
<1>2. SetAgentStateEffect(r, m, a, s, trigger, tick)
  BY ZenonT(60), <1>1, SetAgentStateFields
<1>. HIDE DEF m
<1>3. ClearTransientEffect(m, q, a)
  BY <1>2, ClearTransientFields DEF SetAgentStateEffect
<1>. HIDE DEF q
<1>4. EpochAfter(r, a, s, trigger) = r.owner_generation
  BY DEF EpochAfter, LeavesOwnership
<1>5. /\ q \in ArtifactRecord
      /\ q.version = r.version
      /\ q.last_writer = r.last_writer
      /\ q.owner_generation = r.owner_generation
      /\ \A p \in Agents \ {a} : q.read_generation[p] = r.read_generation[p]
  BY <1>2, <1>3, <1>4 DEF SetAgentStateEffect, ClearTransientEffect
<1>6. /\ q.state[a] = s
      /\ q.transient[a] = None
      /\ q.last_observed[a] = q.version
      /\ q.read_generation[a] = r.owner_generation
      /\ q.granted_at[a] # None
      /\ q.last_reclamation[a] = None
  BY <1>1, <1>2, <1>3, <1>4, NoneAssumption
     DEF SetAgentStateEffect, ClearTransientEffect, ClaimsGeneration, EntersOwnership, LeavesOwnership
<1>7. \A p \in Agents \ {a} : q.state[p] = "INVALID" /\ q.granted_at[p] = None
  BY ZenonT(60), <1>2, <1>3 DEF SetAgentStateEffect, ClearTransientEffect
<1>8. RecordInv(q)
  BY <1>5, <1>6, <1>7 DEF RecordInv, ArtifactRecord, M_OR_E_STATES
<1>. QED
  BY ZenonT(60), <1>5, <1>6, <1>7, <1>8 DEF q, m

\* A pessimistic acquire keeps the record invariant, moves neither version nor
\* epoch, and changes no claim but the caller's.
LEMMA WritePreserves ==
  ASSUME NEW r, RecordInv(r), NEW a \in Agents, NEW tick \in Nat
  PROVE  LET q == WriteRecord(r, a, tick) IN
         /\ RecordInv(q)
         /\ q.version = r.version
         /\ q.owner_generation = r.owner_generation
         /\ \A p \in Agents \ {a} : q.read_generation[p] = r.read_generation[p]
         /\ q.state[a] = "EXCLUSIVE"
         /\ \A p \in Agents \ {a} : q.state[p] = "INVALID"
<1>. DEFINE d == InvalidatePeers(r, a, tick)
<1>1. InvalidatePeersEffect(r, d, a, tick)
  BY InvalidatePeersFields DEF RecordInv
<1>. HIDE DEF d
<1>2. d \in ArtifactRecord /\ d.version > 0
  BY <1>1 DEF InvalidatePeersEffect, RecordInv
<1>3. \A p \in Agents \ {a} :
        /\ d.state[p] = "INVALID"
        /\ d.read_generation[p] # None => d.read_generation[p] <= d.owner_generation
        /\ d.granted_at[p] = None
  BY ZenonT(60), <1>1 DEF InvalidatePeersEffect, RecordInv
<1>4. d.state[a] \in M_OR_E_STATES =>
        /\ d.read_generation[a] = d.owner_generation
        /\ d.granted_at[a] # None
        /\ d.last_reclamation[a] = None
  BY <1>1 DEF InvalidatePeersEffect, RecordInv
<1>5. "EXCLUSIVE" \in M_OR_E_STATES
  BY DEF M_OR_E_STATES
<1>6. LET q == clear_agent_transient(set_agent_state(d, a, "EXCLUSIVE", "write", tick), a) IN
      /\ RecordInv(q)
      /\ q.version = d.version
      /\ q.owner_generation = d.owner_generation
      /\ \A p \in Agents \ {a} : q.read_generation[p] = d.read_generation[p]
      /\ q.state[a] = "EXCLUSIVE"
      /\ \A p \in Agents \ {a} : q.state[p] = "INVALID"
  BY <1>2, <1>3, <1>4, <1>5, AcquireEstablishes
<1>7. WriteRecord(r, a, tick) =
        clear_agent_transient(set_agent_state(d, a, "EXCLUSIVE", "write", tick), a)
  BY DEF WriteRecord, d
<1>. DEFINE q == WriteRecord(r, a, tick)
<1>. HIDE DEF q
<1>8. /\ RecordInv(q)
      /\ q.version = d.version
      /\ q.owner_generation = d.owner_generation
      /\ \A p \in Agents \ {a} : q.read_generation[p] = d.read_generation[p]
      /\ q.state[a] = "EXCLUSIVE"
      /\ \A p \in Agents \ {a} : q.state[p] = "INVALID"
  BY <1>6, <1>7 DEF q
<1>. QED
  BY <1>1, <1>8 DEF InvalidatePeersEffect, q

\* A pessimistic commit by an owner moves the version by one, makes the caller
\* its writer, and changes neither the epoch nor any claim.
LEMMA CommitPreserves ==
  ASSUME NEW r, RecordInv(r), NEW a \in Agents, NEW tick \in Nat,
         r.state[a] \in M_OR_E_STATES
  PROVE  LET q == CommitRecord(r, a, tick) IN
         /\ RecordInv(q)
         /\ q.version = r.version + 1
         /\ q.last_writer = a
         /\ q.owner_generation = r.owner_generation
         /\ \A p \in Agents : q.read_generation[p] = r.read_generation[p]
         /\ q.state[a] = "MODIFIED"
         /\ \A p \in Agents \ {a} : q.state[p] = "INVALID"
<1>. DEFINE v == set_artifact_and_content(r, a)
            d == InvalidatePeers(v, a, tick)
<1>1. SetArtifactEffect(r, v, a)
  BY SetArtifactFields DEF RecordInv
<1>. HIDE DEF v
<1>2. InvalidatePeersEffect(v, d, a, tick)
  BY <1>1, InvalidatePeersFields DEF SetArtifactEffect
<1>. HIDE DEF d
<1>3. d \in ArtifactRecord /\ d.version > 0
  BY <1>1, <1>2 DEF SetArtifactEffect, InvalidatePeersEffect, RecordInv, ArtifactRecord
<1>4. \A p \in Agents \ {a} :
        /\ d.state[p] = "INVALID"
        /\ d.read_generation[p] # None => d.read_generation[p] <= d.owner_generation
        /\ d.granted_at[p] = None
  <2>. TAKE p \in Agents \ {a}
  <2>1. /\ d.state[p] = "INVALID"
        /\ d.read_generation[p] = r.read_generation[p]
        /\ d.owner_generation = r.owner_generation
        /\ d.granted_at[p] = IF r.state[p] \in M_OR_E_STATES THEN None ELSE r.granted_at[p]
    BY <1>1, <1>2 DEF SetArtifactEffect, InvalidatePeersEffect
  <2>. QED
    BY <2>1 DEF RecordInv
<1>5. /\ d.read_generation[a] = d.owner_generation
      /\ d.granted_at[a] # None
      /\ d.last_reclamation[a] = None
  BY <1>1, <1>2 DEF SetArtifactEffect, InvalidatePeersEffect, RecordInv
<1>6. "MODIFIED" \in M_OR_E_STATES
  BY DEF M_OR_E_STATES
<1>7. LET q == clear_agent_transient(set_agent_state(d, a, "MODIFIED", "commit", tick), a) IN
      /\ RecordInv(q)
      /\ q.version = d.version
      /\ q.last_writer = d.last_writer
      /\ q.owner_generation = d.owner_generation
      /\ \A p \in Agents \ {a} : q.read_generation[p] = d.read_generation[p]
      /\ q.read_generation[a] = d.owner_generation
      /\ q.state[a] = "MODIFIED"
      /\ \A p \in Agents \ {a} : q.state[p] = "INVALID"
  BY <1>3, <1>4, <1>5, <1>6, AcquireEstablishes
<1>8. CommitRecord(r, a, tick) =
        clear_agent_transient(set_agent_state(d, a, "MODIFIED", "commit", tick), a)
  BY DEF CommitRecord, d, v
<1>. DEFINE q == CommitRecord(r, a, tick)
<1>. HIDE DEF q
<1>9. /\ RecordInv(q)
      /\ q.version = d.version
      /\ q.last_writer = d.last_writer
      /\ q.owner_generation = d.owner_generation
      /\ \A p \in Agents \ {a} : q.read_generation[p] = d.read_generation[p]
      /\ q.read_generation[a] = d.owner_generation
      /\ q.state[a] = "MODIFIED"
      /\ \A p \in Agents \ {a} : q.state[p] = "INVALID"
  BY <1>7, <1>8 DEF q
<1>10. /\ d.version = r.version + 1
       /\ d.last_writer = a
       /\ d.owner_generation = r.owner_generation
       /\ \A p \in Agents : d.read_generation[p] = r.read_generation[p]
  BY <1>1, <1>2 DEF SetArtifactEffect, InvalidatePeersEffect
<1>. QED
  BY <1>5, <1>9, <1>10 DEF q

\* Ending an agent's copy under an epoch-moving trigger (release, timeout,
\* reclaim) keeps the record invariant and every claim, and puts an owner's
\* claim behind the epoch.
LEMMA RevokePreserves ==
  ASSUME NEW r, RecordInv(r), NEW a \in Agents, NEW tick \in Nat,
         NEW trigger \in EPOCH_BUMP_TRIGGERS
  PROVE  LET q == set_agent_state(r, a, "INVALID", trigger, tick) IN
         /\ RecordInv(q)
         /\ q.state[a] = "INVALID"
         /\ \A p \in Agents \ {a} : q.state[p] = r.state[p]
         /\ q.version = r.version
         /\ q.owner_generation = IF r.state[a] \in M_OR_E_STATES
                                   THEN r.owner_generation + 1 ELSE r.owner_generation
         /\ \A p \in Agents : q.read_generation[p] = r.read_generation[p]
         /\ r.state[a] \in M_OR_E_STATES => StaleReadGeneration(q, a)
<1>. DEFINE q == set_agent_state(r, a, "INVALID", trigger, tick)
<1>1. SetAgentStateEffect(r, q, a, "INVALID", trigger, tick)
  BY SetAgentStateFields DEF RecordInv, MESIState
<1>. HIDE DEF q
<1>2. EpochAfter(r, a, "INVALID", trigger) =
        IF r.state[a] \in M_OR_E_STATES THEN r.owner_generation + 1 ELSE r.owner_generation
  BY DEF EpochAfter, LeavesOwnership, M_OR_E_STATES
<1>3. \A p \in Agents : q.read_generation[p] = r.read_generation[p]
  <2>1. ~ClaimsGeneration(r, a, "INVALID", trigger)
    BY DEF ClaimsGeneration, EntersOwnership, M_OR_E_STATES
  <2>. QED
    BY ZenonT(60), <1>1, <2>1 DEF SetAgentStateEffect
<1>4. /\ q \in ArtifactRecord
      /\ q.version = r.version
      /\ q.state[a] = "INVALID"
      /\ \A p \in Agents \ {a} : q.state[p] = r.state[p]
      /\ \A p \in Agents : q.transient[p] = r.transient[p]
      /\ \A p \in Agents \ {a} : /\ q.granted_at[p] = r.granted_at[p]
                                 /\ q.last_reclamation[p] = r.last_reclamation[p]
                                 /\ q.last_observed[p] = r.last_observed[p]
      /\ q.owner_generation = IF r.state[a] \in M_OR_E_STATES
                                THEN r.owner_generation + 1 ELSE r.owner_generation
  BY <1>1, <1>2 DEF SetAgentStateEffect
<1>5. q.granted_at[a] = None
  BY <1>1 DEF SetAgentStateEffect, EntersOwnership, LeavesOwnership, RecordInv, M_OR_E_STATES
<1>6. \A p \in Agents : q.state[p] \in M_OR_E_STATES => p # a /\ r.state[a] = "INVALID"
  BY <1>4 DEF RecordInv, M_OR_E_STATES
<1>7. RecordInv(q)
  <2>1. \A p, b \in Agents :
          q.state[p] \in M_OR_E_STATES /\ p # b => q.state[b] = "INVALID"
    BY <1>4 DEF RecordInv, M_OR_E_STATES
  <2>2. \A p \in Agents : q.state[p] \in M_OR_E_STATES =>
          q.read_generation[p] = q.owner_generation
    BY <1>3, <1>4, <1>6 DEF RecordInv, M_OR_E_STATES
  <2>3. \A p \in Agents : q.read_generation[p] # None =>
          q.read_generation[p] <= q.owner_generation
    BY <1>3, <1>4, NoneAssumption DEF RecordInv, ArtifactRecord, OptNat
  <2>. QED
    BY <1>4, <1>5, <2>1, <2>2, <2>3 DEF RecordInv, M_OR_E_STATES
<1>8. ASSUME r.state[a] \in M_OR_E_STATES PROVE StaleReadGeneration(q, a)
  BY <1>3, <1>4, <1>8, NoneAssumption DEF StaleReadGeneration, RecordInv, ArtifactRecord
<1>. QED
  BY <1>3, <1>4, <1>7, <1>8 DEF q

\* Clearing the transient of an entry keeps the record invariant and every
\* other field.
LEMMA ClearTransientPreserves ==
  ASSUME NEW r, RecordInv(r), NEW a \in Agents
  PROVE  LET q == clear_agent_transient(r, a) IN
         /\ RecordInv(q)
         /\ q.version = r.version
         /\ q.owner_generation = r.owner_generation
         /\ \A p \in Agents : /\ q.state[p] = r.state[p]
                             /\ q.read_generation[p] = r.read_generation[p]
<1>. DEFINE q == clear_agent_transient(r, a)
<1>1. ClearTransientEffect(r, q, a)
  BY ClearTransientFields DEF RecordInv
<1>. HIDE DEF q
<1>2. RecordInv(q)
  BY <1>1 DEF ClearTransientEffect, RecordInv
<1>. QED
  BY <1>1, <1>2 DEF ClearTransientEffect, q

\* What a revocation of agent a's copy guarantees of the record it leaves.
Revocation(r, q, a) ==
  /\ RecordInv(q)
  /\ q.state[a] = "INVALID"
  /\ \A p \in Agents \ {a} : q.state[p] = r.state[p]
  /\ q.version = r.version
  /\ q.owner_generation = IF r.state[a] \in M_OR_E_STATES
                            THEN r.owner_generation + 1 ELSE r.owner_generation
  /\ \A p \in Agents : q.read_generation[p] = r.read_generation[p]
  /\ r.state[a] \in M_OR_E_STATES => StaleReadGeneration(q, a)

\* invalidate and the transient-timeout sweep revoke.
LEMMA InvalidateRevokes ==
  ASSUME NEW r, RecordInv(r), NEW a \in Agents, NEW tick \in Nat
  PROVE  /\ Revocation(r, InvalidateRecord(r, a, tick), a)
         /\ Revocation(r, TimeoutRecord(r, a, tick), a)
<1>1. ASSUME NEW trigger \in EPOCH_BUMP_TRIGGERS
      PROVE  Revocation(r, clear_agent_transient(
                             set_agent_state(r, a, "INVALID", trigger, tick), a), a)
  <2>. DEFINE m == set_agent_state(r, a, "INVALID", trigger, tick)
              q == clear_agent_transient(m, a)
  <2>1. Revocation(r, m, a)
    BY RevokePreserves DEF Revocation
  <2>. HIDE DEF m
  <2>2. /\ RecordInv(q)
        /\ q.version = m.version
        /\ q.owner_generation = m.owner_generation
        /\ \A p \in Agents : /\ q.state[p] = m.state[p]
                            /\ q.read_generation[p] = m.read_generation[p]
    BY <2>1, ClearTransientPreserves DEF Revocation
  <2>. HIDE DEF q
  <2>3. Revocation(r, q, a)
    BY <2>1, <2>2 DEF Revocation, StaleReadGeneration
  <2>. QED
    BY <2>3 DEF q, m
<1>2. "invalidate" \in EPOCH_BUMP_TRIGGERS /\ "timeout" \in EPOCH_BUMP_TRIGGERS
  BY DEF EPOCH_BUMP_TRIGGERS, RECLAIM_TRIGGERS
<1>. QED
  BY <1>1, <1>2 DEF InvalidateRecord, TimeoutRecord

\* The stable-grant sweep revokes.
LEMMA ReclaimRevokes ==
  ASSUME NEW r, RecordInv(r), NEW a \in Agents, NEW tick \in Nat,
         NEW t \in ReclamationSlot
  PROVE  Revocation(r, ReclaimRecord(r, a, t, tick), a)
<1>. DEFINE m == set_agent_state(r, a, "INVALID", t, tick)
            q == record_last_reclamation(m, a, t)
<1>1. t \in EPOCH_BUMP_TRIGGERS
  BY DEF ReclamationSlot, EPOCH_BUMP_TRIGGERS, RECLAIM_TRIGGERS
<1>2. Revocation(r, m, a)
  BY <1>1, RevokePreserves DEF Revocation
<1>. HIDE DEF m
<1>3. RecordReclamationEffect(m, q, a, t)
  BY <1>2, RecordReclamationFields DEF Revocation, RecordInv
<1>. HIDE DEF q
<1>4. RecordInv(q)
  BY <1>2, <1>3 DEF RecordReclamationEffect, Revocation, RecordInv, M_OR_E_STATES
<1>5. Revocation(r, q, a)
  BY <1>2, <1>3, <1>4 DEF RecordReclamationEffect, Revocation, StaleReadGeneration
<1>. QED
  BY <1>5 DEF ReclaimRecord, q, m

\* A winning optimistic commit moves the version by one, makes the caller its
\* writer and only copy, and changes neither the epoch nor any claim.
LEMMA CasWinPreserves ==
  ASSUME NEW r, RecordInv(r), NEW a \in Agents, OccAllowed(r, a)
  PROVE  LET q == CasWin(r, a) IN
         /\ RecordInv(q)
         /\ q.version = r.version + 1
         /\ q.last_writer = a
         /\ q.owner_generation = r.owner_generation
         /\ \A p \in Agents : q.read_generation[p] = r.read_generation[p]
         /\ q.state[a] = "SHARED"
         /\ \A p \in Agents \ {a} : q.state[p] = "INVALID"
<1>. DEFINE q == CasWin(r, a)
<1>1. CasWinEffect(r, q, a)
  BY CasWinFields DEF RecordInv
<1>. HIDE DEF q
<1>2. q.version > 0
  BY <1>1 DEF CasWinEffect, RecordInv, ArtifactRecord
<1>3. RecordInv(q)
  BY <1>1, <1>2 DEF CasWinEffect, RecordInv, OccAllowed, M_OR_E_STATES
<1>. QED
  BY <1>1, <1>3 DEF CasWinEffect, q

\* A registered artifact starts well formed, with or without an owner.
LEMMA RegisterEstablishes ==
  /\ RecordInv(register_artifact)
  /\ register_artifact.version = 1
  /\ \A a \in Agents : register_artifact.state[a] = "INVALID"
  /\ \A a \in Agents :
       LET q == set_agent_state(register_artifact, a, "EXCLUSIVE", "register", 0) IN
       /\ RecordInv(q)
       /\ q.version = 1
       /\ q.state[a] = "EXCLUSIVE"
       /\ \A p \in Agents \ {a} : q.state[p] = "INVALID"
<1>1. /\ RecordInv(register_artifact)
      /\ register_artifact.version = 1
      /\ \A a \in Agents : register_artifact.state[a] = "INVALID"
  BY DEF register_artifact, RecordInv, ArtifactRecord, MESIState, OptNat, M_OR_E_STATES
<1>2. ASSUME NEW a \in Agents
      PROVE  LET q == set_agent_state(register_artifact, a, "EXCLUSIVE", "register", 0) IN
             /\ RecordInv(q)
             /\ q.version = 1
             /\ q.state[a] = "EXCLUSIVE"
             /\ \A p \in Agents \ {a} : q.state[p] = "INVALID"
  <2>. DEFINE r == register_artifact
              m == set_agent_state(r, a, "EXCLUSIVE", "register", 0)
  <2>1. /\ r \in ArtifactRecord /\ r.version = 1 /\ r.owner_generation = 0
        /\ \A p \in Agents : /\ r.state[p] = "INVALID" /\ r.transient[p] = None
                            /\ r.granted_at[p] = None /\ r.read_generation[p] = None
    BY ZenonT(60), <1>1 DEF register_artifact, RecordInv
  <2>. HIDE DEF r
  <2>2. SetAgentStateEffect(r, m, a, "EXCLUSIVE", "register", 0)
    BY <2>1, SetAgentStateFields DEF MESIState
  <2>. HIDE DEF m
  <2>3. /\ EntersOwnership(r, a, "EXCLUSIVE")
        /\ ClaimsGeneration(r, a, "EXCLUSIVE", "register")
        /\ EpochAfter(r, a, "EXCLUSIVE", "register") = 0
    BY SMTT(60), <2>1 DEF EntersOwnership, ClaimsGeneration, EpochAfter, LeavesOwnership, M_OR_E_STATES
  <2>4. /\ RecordInv(m)
        /\ m.version = 1
        /\ m.state[a] = "EXCLUSIVE"
        /\ \A p \in Agents \ {a} : m.state[p] = "INVALID"
    BY SMTT(60), <2>1, <2>2, <2>3, NoneAssumption DEF SetAgentStateEffect, RecordInv, M_OR_E_STATES
  <2>. QED
    BY SMTT(60), <2>4 DEF m, r
<1>. QED
  BY SMTT(60), <1>1, <1>2

-----------------------------------------------------------------------------
(* What the calls do to the states of a record, whether or not it has an   *)
(* owner beside a SHARED copy.                                             *)

\* The entry of a becomes s and every other state stays.
Becomes(r, q, a, s) ==
  /\ q \in ArtifactRecord /\ q.version = r.version
  /\ q.state[a] = s /\ \A b \in Agents \ {a} : q.state[b] = r.state[b]

\* The entry of a becomes s and nobody else keeps a copy.
TakenOver(q, a, s) ==
  /\ q \in ArtifactRecord
  /\ q.state[a] = s /\ \A b \in Agents \ {a} : q.state[b] = "INVALID"

\* set_agent_state alone rewrites the state of one entry.
LEMMA SetAgentStateBecomes ==
  ASSUME NEW r \in ArtifactRecord, NEW a \in Agents, NEW s \in MESIState,
         NEW trigger, NEW tick \in Nat
  PROVE  Becomes(r, set_agent_state(r, a, s, trigger, tick), a, s)
<1> DEFINE q == set_agent_state(r, a, s, trigger, tick)
<1>1. SetAgentStateEffect(r, q, a, s, trigger, tick)
  BY SetAgentStateFields
<1> HIDE DEF q
<1>2. Becomes(r, q, a, s)
  BY <1>1 DEF SetAgentStateEffect, Becomes
<1> QED
  BY <1>2 DEF q

\* Clearing a transient rewrites no state.
LEMMA ClearTransientBecomes ==
  ASSUME NEW r, NEW q, NEW a \in Agents, NEW s, Becomes(r, q, a, s)
  PROVE  Becomes(r, clear_agent_transient(q, a), a, s)
<1> DEFINE c == clear_agent_transient(q, a)
<1>1. ClearTransientEffect(q, c, a)
  BY ClearTransientFields DEF Becomes
<1> HIDE DEF c
<1>2. Becomes(r, c, a, s)
  BY <1>1 DEF ClearTransientEffect, Becomes
<1> QED
  BY <1>2 DEF c

\* invalidate and both sweeps end the copy of one agent and no other.
LEMMA RevocationsBecome ==
  ASSUME NEW r \in ArtifactRecord, NEW a \in Agents, NEW tick \in Nat
  PROVE  /\ Becomes(r, InvalidateRecord(r, a, tick), a, "INVALID")
         /\ Becomes(r, TimeoutRecord(r, a, tick), a, "INVALID")
         /\ \A t \in ReclamationSlot : Becomes(r, ReclaimRecord(r, a, t, tick), a, "INVALID")
<1>1. "INVALID" \in MESIState
  BY DEF MESIState
<1>2. Becomes(r, InvalidateRecord(r, a, tick), a, "INVALID")
  BY <1>1, SetAgentStateBecomes, ClearTransientBecomes DEF InvalidateRecord
<1>3. Becomes(r, TimeoutRecord(r, a, tick), a, "INVALID")
  BY <1>1, SetAgentStateBecomes, ClearTransientBecomes DEF TimeoutRecord
<1>4. ASSUME NEW t \in ReclamationSlot
      PROVE  Becomes(r, ReclaimRecord(r, a, t, tick), a, "INVALID")
  <2> DEFINE m == set_agent_state(r, a, "INVALID", t, tick)
             q == record_last_reclamation(m, a, t)
  <2>1. Becomes(r, m, a, "INVALID")
    BY <1>1, SetAgentStateBecomes
  <2> HIDE DEF m
  <2>2. RecordReclamationEffect(m, q, a, t)
    BY <2>1, RecordReclamationFields DEF Becomes
  <2> HIDE DEF q
  <2>3. Becomes(r, q, a, "INVALID")
    BY <2>1, <2>2 DEF RecordReclamationEffect, Becomes
  <2> QED
    BY <2>3 DEF q, m, ReclaimRecord
<1> QED
  BY <1>2, <1>3, <1>4

\* write, commit and a winning commit_cas leave the caller the only holder; only
\* the commits move the version.
LEMMA Takeovers ==
  ASSUME NEW r \in ArtifactRecord, NEW a \in Agents, NEW tick \in Nat
  PROVE  /\ TakenOver(WriteRecord(r, a, tick), a, "EXCLUSIVE")
         /\ TakenOver(CommitRecord(r, a, tick), a, "MODIFIED")
         /\ TakenOver(CasWin(r, a), a, "SHARED")
<1>1. ASSUME NEW x \in ArtifactRecord, NEW s \in MESIState, NEW trigger
      PROVE  TakenOver(clear_agent_transient(
                         set_agent_state(InvalidatePeers(x, a, tick), a, s, trigger, tick), a),
                       a, s)
  <2> DEFINE d == InvalidatePeers(x, a, tick)
             m == set_agent_state(d, a, s, trigger, tick)
             q == clear_agent_transient(m, a)
  <2>1. InvalidatePeersEffect(x, d, a, tick)
    BY InvalidatePeersFields
  <2> HIDE DEF d
  <2>2. d \in ArtifactRecord /\ \A b \in Agents \ {a} : d.state[b] = "INVALID"
    BY <2>1 DEF InvalidatePeersEffect
  <2>3. Becomes(d, m, a, s)
    BY <2>2, SetAgentStateBecomes
  <2> HIDE DEF m
  <2>4. Becomes(d, q, a, s)
    BY <2>3, ClearTransientBecomes
  <2> HIDE DEF q
  <2>5. TakenOver(q, a, s)
    BY <2>2, <2>4 DEF Becomes, TakenOver
  <2> QED
    BY <2>5 DEF q, m, d
<1>2. "EXCLUSIVE" \in MESIState /\ "MODIFIED" \in MESIState
  BY DEF MESIState
<1>3. set_artifact_and_content(r, a) \in ArtifactRecord
  BY SetArtifactFields DEF SetArtifactEffect
<1>4. TakenOver(CasWin(r, a), a, "SHARED")
  BY CasWinFields DEF CasWinEffect, TakenOver
<1> QED
  BY <1>1, <1>2, <1>3, <1>4 DEF WriteRecord, CommitRecord
=============================================================================
