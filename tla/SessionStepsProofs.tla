-------------------------- MODULE SessionStepsProofs -------------------------
(***************************************************************************)
(* Sessions: what retention keeps, what a step leaves alone, and the steps *)
(* of agents, of begin_session, of the heartbeat and of the sweep, for     *)
(* every value of the constants.                                           *)
(***************************************************************************)
EXTENDS Sessions, FiniteSetTheorems, WellFoundedInduction, TLAPS

-----------------------------------------------------------------------------
(* Retention: what a capture with its inline collection keeps, how much of *)
(* it, and what a publication therefore does.                              *)

\* A capture stores the new version and keeps every exempt version it had:
\* collectible_versions subtracts the exemptions and the current version last.
LEMMA CaptureKeeps ==
  ASSUME NEW R \in SUBSET Row, NEW v \in Nat, NEW tick \in Nat, NEW X
  PROVE  /\ capture_version(R, v, tick, X) \in SUBSET Row
         /\ v \in Versions(capture_version(R, v, tick, X))
         /\ \A w \in X : w \in Versions(R) => w \in Versions(capture_version(R, v, tick, X))
<1> DEFINE new == [version |-> v, at |-> tick]
           kept == {r \in R : r.version # v} \cup {new}
           drop == collectible_versions(kept, v, tick, X)
<1>1. capture_version(R, v, tick, X) = {r \in kept : r.version \notin drop}
  BY DEF capture_version
<1>2. v \notin drop /\ \A w \in X : w \notin drop
  BY DEF collectible_versions
<1>3. new \in Row /\ new.version = v
  BY DEF Row
<1>4. kept \in SUBSET Row
  BY <1>3
<1>5. new \in capture_version(R, v, tick, X)
  BY <1>1, <1>2, <1>3
<1>6. ASSUME NEW w \in X, w \in Versions(R)
      PROVE  w \in Versions(capture_version(R, v, tick, X))
  <2>1. PICK r \in R : r.version = w
    BY <1>6 DEF Versions
  <2>2. CASE w = v
    BY <2>2, <1>5, <1>3 DEF Versions
  <2>3. CASE w # v
    <3>1. r \in kept
      BY <2>1, <2>3
    <3>2. r \in capture_version(R, v, tick, X)
      BY <1>1, <1>2, <2>1, <3>1
    <3> QED
      BY <2>1, <3>2 DEF Versions
  <2> QED
    BY <2>2, <2>3
<1> QED
  BY <1>1, <1>3, <1>4, <1>5, <1>6 DEF Versions

\* A capture keeps one row per version, of the versions it had and the new one.
LEMMA CaptureRows ==
  ASSUME NEW R \in SUBSET Row, NEW v \in Nat, NEW tick \in Nat, NEW X, IsFiniteSet(R),
         \A q, r \in R : q.version = r.version => q = r
  PROVE  /\ IsFiniteSet(capture_version(R, v, tick, X))
         /\ \A r \in capture_version(R, v, tick, X) : r.version = v \/ r \in R
         /\ \A q, r \in capture_version(R, v, tick, X) : q.version = r.version => q = r
<1> DEFINE new == [version |-> v, at |-> tick]
           old == {r \in R : r.version # v}
           kept == old \cup {new}
           drop == collectible_versions(kept, v, tick, X)
           S == capture_version(R, v, tick, X)
<1>1. S = {r \in kept : r.version \notin drop}
  BY DEF capture_version
<1>2. IsFiniteSet(old)
  BY FS_Subset, old \in SUBSET R
<1>3. new.version = v
  OBVIOUS
<1> HIDE DEF old, new
<1>4. IsFiniteSet(kept)
  BY <1>2, FS_AddElement
<1> HIDE DEF kept, drop, S
<1>5. IsFiniteSet(S)
  BY <1>1, <1>4, FS_Subset, S \in SUBSET kept
<1>6. \A r \in S : r = new \/ (r \in R /\ r.version # v)
  BY <1>1 DEF kept, old
<1> QED
  BY <1>3, <1>5, <1>6 DEF S

\* The order of the natural numbers, as a set of pairs.
LEMMA LessIsWellFounded ==
  \E R : IsWellFoundedOn(R, Nat) /\ \A x, y \in Nat : <<x, y>> \in R <=> x < y
<1>1. IsWellFoundedOn(OpToRel(<, Nat), Nat)
  BY ZenonT(60), NatLessThanWellFounded
<1>2. \A x, y \in Nat : <<x, y>> \in OpToRel(<, Nat) <=> x < y
  BY Zenon DEF OpToRel
<1> QED
  BY <1>1, <1>2, Zenon

\* A set of versions has a smallest one.
LEMMA LeastNatural ==
  ASSUME NEW S \in SUBSET Nat, S # {}
  PROVE  \E m \in S : \A k \in S : m <= k
<1>1. PICK R : IsWellFoundedOn(R, Nat) /\ \A x, y \in Nat : <<x, y>> \in R <=> x < y
  BY LessIsWellFounded, Zenon
<1>2. S \subseteq Nat /\ S # {}
  OBVIOUS
<1>3. IsWellFoundedOn(R, Nat)
  BY <1>1, Zenon
<1>4. PICK m \in S : \A k \in S : ~(<<k, m>> \in R)
  BY ONLY ZenonT(60), <1>2, <1>3, WFMin
<1>5. ASSUME NEW k \in S PROVE m <= k
  <2>1. ~(k < m)
    BY <1>1, <1>2, <1>4, Zenon
  <2> QED
    BY <2>1
<1> QED
  BY <1>5

\* KeptByCount keeps at most max_versions versions: all but the smallest it keeps
\* are above that one, and fewer than max_versions are.
LEMMA KeptAreFew ==
  ASSUME NEW V \in SUBSET Nat, IsFiniteSet(V), MaxVersions # None
  PROVE  /\ IsFiniteSet(KeptByCount(V))
         /\ Cardinality(KeptByCount(V)) <= MaxVersions
<1> DEFINE K == KeptByCount(V)
<1>1. K \in SUBSET V /\ \A v \in K : Cardinality({w \in V : w > v}) < MaxVersions
  BY DEF KeptByCount
<1>2. MaxVersions \in Nat /\ MaxVersions > 0
  BY PolicyAssumption
<1> HIDE DEF K
<1>3. IsFiniteSet(K)
  BY ZenonT(60), <1>1, FS_Subset
<1>4. CASE K = {}
  BY <1>2, <1>3, <1>4, FS_EmptySet DEF K
<1>5. CASE K # {}
  <2>1. PICK m \in K : \A k \in K : m <= k
    BY <1>1, <1>5, LeastNatural
  <2> DEFINE A == {w \in V : w > m}
  <2>2. IsFiniteSet(A) /\ Cardinality(A) < MaxVersions
    <3>1. A \in SUBSET V
      OBVIOUS
    <3>2. Cardinality(A) < MaxVersions
      BY <1>1, <2>1
    <3> HIDE DEF A
    <3> QED
      BY ZenonT(60), <3>1, <3>2, FS_Subset
  <2>3. Cardinality(A) \in Nat
    BY <2>2, FS_CardinalityType
  <2>4. K \in SUBSET (A \cup {m})
    BY <1>1, <2>1
  <2> HIDE DEF A
  <2>5. IsFiniteSet(A \cup {m}) /\ Cardinality(A \cup {m}) <= Cardinality(A) + 1
    <3>1. /\ IsFiniteSet(A \cup {m})
          /\ \/ Cardinality(A \cup {m}) = Cardinality(A)
             \/ Cardinality(A \cup {m}) = Cardinality(A) + 1
      BY ONLY <2>2, FS_AddElement
    <3> QED
      BY <2>3, <3>1
  <2>6. Cardinality(K) <= Cardinality(A \cup {m})
    BY <2>4, <2>5, FS_Subset
  <2>7. Cardinality(K) \in Nat /\ Cardinality(A \cup {m}) \in Nat
    BY <1>3, <2>5, FS_CardinalityType
  <2> QED
    BY <1>2, <1>3, <2>2, <2>3, <2>5, <2>6, <2>7 DEF K
<1> QED
  BY <1>4, <1>5

\* A capture of a version newer than all others leaves max_versions rows and the
\* exempt ones.
LEMMA CaptureBound ==
  ASSUME NEW R \in SUBSET Row, NEW v \in Nat, NEW tick \in Nat, NEW X,
         IsFiniteSet(R), IsFiniteSet(X), MaxVersions # None,
         \A q, r \in R : q.version = r.version => q = r,
         \A r \in R : r.version < v
  PROVE  Cardinality(capture_version(R, v, tick, X)) <= MaxVersions + Cardinality(X)
<1> DEFINE new == [version |-> v, at |-> tick]
           kept == {r \in R : r.version # v} \cup {new}
           V == Versions(kept)
           S == capture_version(R, v, tick, X)
           T == KeptByCount(V) \cup X
           f == [r \in S |-> r.version]
<1>1. S = {r \in kept : r.version \notin collectible_versions(kept, v, tick, X)}
  BY DEF capture_version
<1>2. IsFiniteSet(S) /\ \A q, r \in S : q.version = r.version => q = r
  BY CaptureRows
<1>3. new.version = v /\ kept \in SUBSET Row /\ \A r \in kept : r.version <= v
  BY DEF Row
<1>4. V \in SUBSET Nat /\ v \in V /\ \A w \in V : w <= v
  BY ZenonT(60), <1>3 DEF Versions, Row
<1>5. IsFiniteSet(V)
  BY <1>4, FS_BoundedSetOfNaturals
<1>6. MaxVersions \in Nat /\ MaxVersions > 0
  BY PolicyAssumption
<1> HIDE DEF new, V
<1>7. v \in KeptByCount(V)
  <2>1. \A w \in V : ~(w > v)
    BY <1>4
  <2>2. {w \in V : w > v} = {}
    BY <2>1
  <2> QED
    BY <1>4, <1>6, <2>2, FS_EmptySet DEF KeptByCount
<1>8. \A r \in S : r.version \in T
  <2>1. ASSUME NEW r \in S, r.version \notin X, r.version # v
        PROVE  r.version \in KeptByCount(V)
    <3>1. r \in kept /\ r.version \notin BeyondCount(kept)
      BY <1>1, <2>1 DEF collectible_versions
    <3>2. r.version \in V
      BY <3>1 DEF V, Versions
    <3> QED
      BY <3>1, <3>2 DEF BeyondCount, V
  <2> QED
    BY <1>7, <2>1
<1>9. IsFiniteSet(KeptByCount(V)) /\ Cardinality(KeptByCount(V)) <= MaxVersions
  BY <1>4, <1>5, KeptAreFew
<1> HIDE DEF S
<1>10. f \in Injection(S, T)
  BY <1>2, <1>8 DEF Injection, IsInjective
<1> DEFINE K == KeptByCount(V)
<1>11. IsFiniteSet(K) /\ Cardinality(K) <= MaxVersions
  BY <1>9
<1> HIDE DEF f, K
<1>12. /\ IsFiniteSet(K \cup X)
       /\ Cardinality(K \cup X) = Cardinality(K) + Cardinality(X) - Cardinality(K \cap X)
  BY ONLY <1>11, IsFiniteSet(X), FS_Union
<1>13. IsFiniteSet(K \cap X)
  BY <1>11, FS_Subset, K \cap X \in SUBSET K
<1>14. /\ Cardinality(K) \in Nat /\ Cardinality(X) \in Nat /\ Cardinality(K \cap X) \in Nat
       /\ Cardinality(S) \in Nat /\ Cardinality(K \cup X) \in Nat
  BY <1>2, <1>11, <1>12, <1>13, FS_CardinalityType
<1>15. Cardinality(S) <= Cardinality(K \cup X)
  BY <1>10, <1>12, FS_Injection DEF K
<1> QED
  BY <1>6, <1>11, <1>12, <1>14, <1>15 DEF S

\* The collection inside a capture takes none of the recent versions.
LEMMA CaptureKeepsRecent ==
  ASSUME NEW R \in SUBSET Row, NEW v \in Nat, NEW tick \in Nat, NEW X, NEW C \in SUBSET Nat,
         IsFiniteSet(C), \A r \in R : r.version \in C, v \in C,
         MaxVersions # None, MaxAge = None \/ tick <= MaxAge,
         NEW w \in Versions(R), Cardinality({u \in C : u > w}) < MaxVersions
  PROVE  w \in Versions(capture_version(R, v, tick, X))
<1> DEFINE new == [version |-> v, at |-> tick]
           kept == {r \in R : r.version # v} \cup {new}
           V == Versions(kept)
<1>0. /\ MaxVersions \in Nat /\ (MaxAge # None => MaxAge \in Nat)
      /\ new \in Row /\ new.version = v /\ kept \in SUBSET Row
  BY PolicyAssumption DEF Row
<1>1. capture_version(R, v, tick, X) =
        {r \in kept : r.version \notin collectible_versions(kept, v, tick, X)}
  BY DEF capture_version
<1>2. V \in SUBSET C
  BY <1>0 DEF Versions
<1>3. PICK r \in kept : r.version = w
  <2>1. PICK q \in R : q.version = w
    BY DEF Versions
  <2>2. CASE w = v
    BY <2>2, <1>0
  <2>3. CASE w # v
    BY <2>1, <2>3
  <2> QED
    BY <2>2, <2>3
<1>4. w \in V
  BY <1>3 DEF Versions
<1> HIDE DEF V, kept, new
<1>5. w \in KeptByCount(V)
  <2> DEFINE A == {u \in V : u > w}
             D == {u \in C : u > w}
  <2>1. A \in SUBSET D /\ D \in SUBSET C
    BY ZenonT(60), <1>2
  <2>2. Cardinality(D) < MaxVersions
    OBVIOUS
  <2> HIDE DEF A, D
  <2>3. IsFiniteSet(D)
    BY ZenonT(60), <2>1, FS_Subset
  <2>4. IsFiniteSet(A) /\ Cardinality(A) <= Cardinality(D)
    BY ZenonT(60), <2>1, <2>3, FS_Subset
  <2>5. Cardinality(A) \in Nat /\ Cardinality(D) \in Nat
    BY <2>3, <2>4, FS_CardinalityType
  <2>6. Cardinality(A) < MaxVersions
    BY <1>0, <2>2, <2>4, <2>5
  <2> QED
    BY <1>4, <2>6 DEF KeptByCount, A
<1>6. w \notin BeyondCount(kept)
  BY <1>5 DEF BeyondCount, V
<1>7. BeyondAge(kept, tick) = {}
  <2>1. CASE MaxAge = None
    BY <2>1 DEF BeyondAge
  <2>2. CASE MaxAge # None
    <3>1. \A q \in kept : ~(q.at < tick - MaxAge)
      BY <1>0, <2>2 DEF Row
    <3> QED
      BY <2>2, <3>1 DEF BeyondAge
  <2> QED
    BY <2>1, <2>2
<1>8. w \notin collectible_versions(kept, v, tick, X)
  BY <1>6, <1>7 DEF collectible_versions
<1> QED
  BY <1>1, <1>3, <1>8 DEF Versions

-----------------------------------------------------------------------------
(* Publishing.                                                             *)

\* What a publication does to one artifact.
LEMMA PublishEffect ==
  ASSUME TypeOK, NEW F \in SUBSET Artifacts, NEW B, PublishAll(F, B), NEW f \in Artifacts
  PROVE  /\ version'[f] = IF f \in F THEN version[f] + 1 ELSE version[f]
         /\ rows'[f] = IF f \in F \cap B
                         THEN capture_version(rows[f], version[f] + 1, now,
                                              live_pins_for_artifact(f))
                         ELSE rows[f]
         /\ captured'[f] = IF f \in F \cap B THEN captured[f] \cup {version[f] + 1}
                           ELSE captured[f]
BY DEF PublishAll, TypeOK

\* A publication keeps the types of what it changes.
LEMMA PublishType ==
  ASSUME TypeOK, NEW F \in SUBSET Artifacts, NEW B, PublishAll(F, B)
  PROVE  /\ version' \in [Artifacts -> Nat]
         /\ rows' \in [Artifacts -> SUBSET Row]
         /\ captured' \in [Artifacts -> SUBSET Nat]
<1>1. ASSUME NEW f \in Artifacts
      PROVE  capture_version(rows[f], version[f] + 1, now, live_pins_for_artifact(f)) \in SUBSET Row
  BY SMTT(60), <1>1, CaptureKeeps DEF TypeOK
<1> HIDE DEF capture_version
<1> QED
  BY <1>1 DEF PublishAll, TypeOK

\* A publication with its inline collection keeps the history facts and every
\* pinned body, provided the published ids are live or were never used.
LEMMA PublishKeeps ==
  ASSUME SessionsInv, NEW F \in SUBSET Artifacts, NEW B, PublishAll(F, B),
         \A f \in F : f \in Live \/ f \notin gone,
         UNCHANGED <<gone, pins>>
  PROVE  (\A f \in Artifacts : HistoryInv(f)') /\ PinnedBodyKept'
<1> USE DEF TypeOK
<1>0. TypeOK /\ PinnedBodyKept /\ \A f \in Artifacts : HistoryInv(f)
  BY DEF SessionsInv
<1>1. ASSUME NEW f \in Artifacts, f \notin F
      PROVE  /\ version'[f] = version[f] /\ rows'[f] = rows[f] /\ captured'[f] = captured[f]
             /\ f \in Live' <=> f \in Live
  BY ZenonT(60), <1>0, <1>1, PublishEffect DEF Live
<1>2. ASSUME NEW f \in F
      PROVE  /\ version'[f] = version[f] + 1 /\ version[f] \in Nat
             /\ f \in Live'
  <2>1. f \in Artifacts /\ version[f] \in Nat
    BY <1>0, <1>2
  <2>2. version'[f] = version[f] + 1
    BY ZenonT(60), <1>0, <1>2, <2>1, PublishEffect
  <2> QED
    BY <2>1, <2>2 DEF Live
<1>3. ASSUME NEW f \in F, f \notin B
      PROVE  rows'[f] = rows[f] /\ captured'[f] = captured[f]
  BY ZenonT(60), <1>0, <1>3, PublishEffect
<1>4. ASSUME NEW f \in F, f \in B
      PROVE  /\ captured'[f] = captured[f] \cup {version[f] + 1}
             /\ version[f] + 1 \in Versions(rows'[f])
             /\ \A w \in live_pins_for_artifact(f) :
                  w \in Versions(rows[f]) => w \in Versions(rows'[f])
             /\ IsFiniteSet(rows'[f])
             /\ \A r \in rows'[f] : r.version = version[f] + 1 \/ r \in rows[f]
             /\ \A q, r \in rows'[f] : q.version = r.version => q = r
  <2>1. rows'[f] = capture_version(rows[f], version[f] + 1, now, live_pins_for_artifact(f))
    BY ZenonT(60), <1>0, <1>4, PublishEffect
  <2>2. captured'[f] = captured[f] \cup {version[f] + 1}
    BY ZenonT(60), <1>0, <1>4, PublishEffect
  <2> DEFINE R == rows[f]
             X == live_pins_for_artifact(f)
             w1 == version[f] + 1
  <2>3. R \in SUBSET Row /\ w1 \in Nat /\ now \in Nat
    BY <1>0, <1>4
  <2>4. rows'[f] = capture_version(R, w1, now, X)
    BY <2>1
  <2> HIDE DEF R, X, w1
  <2>5. /\ w1 \in Versions(rows'[f])
        /\ \A w \in X : w \in Versions(R) => w \in Versions(rows'[f])
    BY ZenonT(60), <2>3, <2>4, CaptureKeeps
  <2>6. IsFiniteSet(R) /\ \A q, r \in R : q.version = r.version => q = r
    BY <1>0, <1>4 DEF HistoryInv, R
  <2>7. /\ IsFiniteSet(rows'[f])
        /\ \A r \in rows'[f] : r.version = w1 \/ r \in R
        /\ \A q, r \in rows'[f] : q.version = r.version => q = r
    BY ONLY <2>3, <2>4, <2>6, CaptureRows
  <2> QED
    BY <2>2, <2>5, <2>7 DEF R, X, w1
<1>5. ASSUME NEW f \in F
      PROVE  \A v \in captured[f] : v \in Nat /\ 0 < v /\ v <= version[f]
  <2>1. f \in Live \/ captured[f] = {}
    BY <1>0, <1>5 DEF HistoryInv
  <2> QED
    BY <2>1, <1>0, <1>5 DEF HistoryInv
<1>6. ASSUME NEW f \in Artifacts
      PROVE  HistoryInv(f)'
  <2>1. CASE f \notin F
    BY SMTT(60), <2>1, <1>0, <1>1 DEF HistoryInv
  <2>2. CASE f \in F /\ f \notin B
    <3>1. version'[f] \notin captured'[f]
      BY <2>2, <1>2, <1>3, <1>5
    <3> QED
      BY SMTT(60), <2>2, <3>1, <1>0, <1>2, <1>3, <1>5 DEF HistoryInv
  <2>3. CASE f \in F /\ f \in B
    <3>1. \A v \in captured'[f] : 0 < v /\ v <= version'[f]
      BY <2>3, <1>2, <1>4, <1>5
    <3>2. IsFiniteSet(captured'[f])
      <4>1. IsFiniteSet(captured[f])
        BY <1>0 DEF HistoryInv
      <4>2. captured'[f] = captured[f] \cup {version[f] + 1}
        BY SMTT(60), <2>3, <1>4
      <4> QED
        BY ONLY SMTT(60), <4>1, <4>2, FS_AddElement
    <3>3. \A r \in rows'[f] : r.version \in captured'[f]
      BY <2>3, <1>0, <1>4 DEF HistoryInv
    <3> QED
      BY SMTT(60), <2>3, <3>1, <3>2, <3>3, <1>2, <1>4 DEF HistoryInv
  <2> QED
    BY SMTT(60), <2>1, <2>2, <2>3
<1>7. ASSUME NEW t \in Tokens, NEW f \in Artifacts,
             pins'[t] # None, f \in Live', pins'[t][f] \in captured'[f]
      PROVE  pins'[t][f] \in Versions(rows'[f])
  <2>0. pins' = pins
    OBVIOUS
  <2>1. CASE f \notin F
    BY <2>0, <2>1, <1>0, <1>1, <1>7 DEF PinnedBodyKept
  <2>2. CASE f \in F /\ f \notin Live
    <3>1. captured[f] = {}
      BY <2>2, <1>0 DEF HistoryInv
    <3> QED
      BY SMTT(60), <2>0, <2>2, <3>1, <1>3, <1>4, <1>7
  <2>3. CASE f \in F /\ f \in Live /\ f \notin B
    BY SMTT(60), <2>0, <2>3, <1>0, <1>3, <1>7 DEF PinnedBodyKept
  <2>4. CASE f \in F /\ f \in Live /\ f \in B
    <3>1. CASE pins[t][f] = version[f] + 1
      BY SMTT(60), <2>0, <2>4, <3>1, <1>4
    <3>2. CASE pins[t][f] \in captured[f]
      <4>1. pins[t][f] \in Versions(rows[f])
        BY <2>0, <2>4, <3>2, <1>0, <1>7 DEF PinnedBodyKept
      <4>2. pins[t][f] \in live_pins_for_artifact(f)
        BY SMTT(60), <2>0, <2>4, <3>2, <1>5, <1>7 DEF live_pins_for_artifact
      <4> QED
        BY SMTT(60), <2>0, <2>4, <4>1, <4>2, <1>4
    <3> QED
      BY SMTT(60), <2>0, <2>4, <3>1, <3>2, <1>4, <1>7
  <2> QED
    BY <2>1, <2>2, <2>3, <2>4
<1> QED
  BY <1>6, <1>7 DEF PinnedBodyKept

-----------------------------------------------------------------------------
(* Frames: what a step leaves alone.                                       *)

\* A token none of whose entries change keeps its part of the invariant.
LEMMA SessionFrame ==
  ASSUME TypeOK, NEW t \in Tokens, SessionInv(t), now' \in Nat, now <= now',
         pins'[t] = pins[t], meta'[t] = meta[t], owners'[t] = owners[t],
         lease'[t] = lease[t], created'[t] = created[t], call'[t] = call[t],
         opened'[t] = opened[t], beat'[t] = beat[t]
  PROVE  SessionInv(t)'
<1>1. beat[t] # None => beat[t] \in Nat
  BY DEF TypeOK, OptNat
<1>2. beat'[t] # None => beat'[t] <= now'
  BY <1>1 DEF SessionInv, TypeOK
<1> QED
  BY <1>2 DEF SessionInv

\* A step that publishes and deletes nothing, and pins nothing new, keeps the
\* history facts and the pinned bodies.
LEMMA HistoryFrame ==
  ASSUME SessionsInv, UNCHANGED <<version, gone, rows, captured>>,
         \A t \in Tokens : pins'[t] = pins[t] \/ pins'[t] = None
  PROVE  (\A f \in Artifacts : HistoryInv(f)') /\ PinnedBodyKept'
<1>1. Live' = Live
  BY DEF Live
<1>2. \A f \in Artifacts : HistoryInv(f)'
  BY <1>1 DEF SessionsInv, HistoryInv
<1>3. PinnedBodyKept'
  BY <1>1 DEF SessionsInv, PinnedBodyKept
<1> QED
  BY <1>2, <1>3

\* No commit and no opening: the commits are as they were.
LEMMA CommitFrame ==
  ASSUME SessionsInv, UNCHANGED <<commits, opened>>
  PROVE  (\A c \in commits' : opened'[c[1]] # None) /\ OneCommitPerPin'
BY DEF SessionsInv, OneCommitPerPin

-----------------------------------------------------------------------------
(* The steps.                                                              *)

\* Registration and the agents' commits touch no session.
LEMMA AgentPublishStep ==
  ASSUME SessionsInv, NEW F \in SUBSET Artifacts, NEW B, PublishAll(F, B),
         \A f \in F : f \in Live \/ f \notin gone,
         UNCHANGED <<gone, owned, pins, meta, service, call, now, opened, beat, commits>>
  PROVE  SessionsInv'
<1> USE DEF service
<1>1. TypeOK'
  BY ZenonT(60), PublishType DEF SessionsInv, TypeOK
<1>2. \A t \in Tokens : SessionInv(t)'
  BY SessionFrame DEF SessionsInv, TypeOK
<1>3. (\A f \in Artifacts : HistoryInv(f)') /\ PinnedBodyKept'
  BY PublishKeeps
<1> QED
  BY <1>1, <1>2, <1>3, CommitFrame DEF SessionsInv

\* Ownership and deletion touch no session; a deleted artifact takes its
\* history with it and is not live.
LEMMA AgentOtherStep ==
  ASSUME SessionsInv, NEW f \in Artifacts, AgentOwnership(f) \/ remove_artifact(f)
  PROVE  SessionsInv'
<1> USE DEF service, ghosts
<1>1. CASE AgentOwnership(f)
  <2> USE <1>1 DEF AgentOwnership
  <2>1. TypeOK'
    BY DEF SessionsInv, TypeOK
  <2>2. \A t \in Tokens : SessionInv(t)'
    <3>1. now' \in Nat /\ now <= now'
      BY DEF SessionsInv, TypeOK
    <3> QED
      BY ZenonT(60), <3>1, SessionFrame DEF SessionsInv
  <2> QED
    BY <2>1, <2>2, HistoryFrame, CommitFrame DEF SessionsInv
<1>2. CASE remove_artifact(f)
  <2> USE <1>2 DEF remove_artifact
  <2>1. TypeOK'
    BY DEF SessionsInv, TypeOK
  <2>2. \A t \in Tokens : SessionInv(t)'
    BY SessionFrame DEF SessionsInv, TypeOK
  <2>3. \A g \in Artifacts : g \in Live' => g \in Live /\ g # f
    BY DEF SessionsInv, TypeOK, Live
  <2>4. \A g \in Artifacts : g # f => version'[g] = version[g] /\ rows'[g] = rows[g]
    BY DEF SessionsInv, TypeOK
  <2>5. \A g \in Artifacts : g \notin Live' /\ g \notin gone' => g \notin Live /\ g \notin gone
    BY <2>4 DEF Live
  <2>6. \A g \in Artifacts : HistoryInv(g)'
    <3>1. rows'[f] = {} /\ IsFiniteSet({}) /\ UNCHANGED captured
      BY FS_EmptySet DEF SessionsInv, TypeOK
    <3>2. \A g \in Artifacts : g # f => (g \in Live' <=> g \in Live)
      BY <2>4 DEF Live
    <3> SUFFICES ASSUME NEW g \in Artifacts PROVE HistoryInv(g)'
      OBVIOUS
    <3>3. HistoryInv(g)
      BY DEF SessionsInv
    <3>4. CASE g = f
      BY SMTT(60), <2>3, <2>5, <3>1, <3>3, <3>4 DEF HistoryInv
    <3>5. CASE g # f
      BY SMTT(60), <2>4, <2>5, <3>1, <3>2, <3>3, <3>5 DEF HistoryInv
    <3> QED
      BY <3>4, <3>5
  <2>7. PinnedBodyKept'
    BY SMTT(60), <2>3, <2>4 DEF SessionsInv, PinnedBodyKept
  <2> QED
    BY ZenonT(60), <2>1, <2>2, <2>6, <2>7, CommitFrame DEF SessionsInv
<1> QED
  BY <1>1, <1>2

\* A new session pins current versions, whose bodies are retained if captured.
LEMMA BeginStep ==
  ASSUME SessionsInv, NEW t \in Tokens, NEW caller \in Callers,
         NEW F \in SUBSET Artifacts, NEW at \in Nat, at <= now,
         begin_session(t, caller, F, at)
  PROVE  SessionsInv'
<1> DEFINE cut == CutOf(F)
           m == [owner |-> caller, created |-> at]
           o == [owner |-> caller, created |-> at, cut |-> cut]
<1>0. TypeOK
  BY DEF SessionsInv
<1>1. /\ pins' = [pins EXCEPT ![t] = cut] /\ meta' = [meta EXCEPT ![t] = m]
      /\ opened' = [opened EXCEPT ![t] = o] /\ owners' = [owners EXCEPT ![t] = caller]
      /\ lease' = [lease EXCEPT ![t] = at] /\ created' = [created EXCEPT ![t] = at]
      /\ beat' = [beat EXCEPT ![t] = at]
      /\ UNCHANGED <<version, gone, owned, rows, call, now, captured, commits>>
      /\ opened[t] = None /\ F \subseteq Live
  BY SMTT(60) DEF begin_session, CapsAllow, capture_version_vector
<1>2. /\ cut \in Cut /\ m \in Meta /\ o \in Opening
      /\ cut # None /\ m # None /\ o # None /\ now \in Nat /\ at # None
      /\ m.owner = caller /\ m.created = at
      /\ o.owner = caller /\ o.created = at /\ o.cut = cut
  BY SMTT(60), <1>0, NoneIsNoValue, PolicyAssumption DEF TypeOK, Cut, CutOf, Meta, Opening
<1>3. \A f \in Artifacts : cut[f] = IF f \in F THEN version[f] ELSE 0
  BY SMTT(60) DEF CutOf
<1> HIDE DEF cut, m, o
<1>4. TypeOK'
  BY <1>0, <1>1, <1>2 DEF TypeOK, OptNat
<1>5. /\ pins'[t] = cut /\ meta'[t] = m /\ opened'[t] = o /\ owners'[t] = caller
      /\ lease'[t] = at /\ created'[t] = at /\ beat'[t] = at /\ call'[t] = call[t]
  BY <1>0, <1>1 DEF TypeOK
<1>6. \A u \in Tokens : u # t =>
        /\ pins'[u] = pins[u] /\ meta'[u] = meta[u] /\ opened'[u] = opened[u]
        /\ owners'[u] = owners[u] /\ lease'[u] = lease[u] /\ created'[u] = created[u]
        /\ beat'[u] = beat[u] /\ call'[u] = call[u]
  BY SMTT(60), <1>0, <1>1 DEF TypeOK
<1>7. call[t] = None /\ pins[t] = None
  BY <1>1 DEF SessionsInv, SessionInv
<1>8. caller # None
  BY SessionAssumption
<1>9. ASSUME NEW u \in Tokens PROVE SessionInv(u)'
  <2>1. CASE u = t
    BY SMTT(60), <2>1, <1>1, <1>2, <1>5, <1>7, <1>8 DEF SessionInv
  <2>2. CASE u # t
    <3>1. now <= now
      BY SMTT(60), <1>2
    <3> QED
      BY <2>2, <3>1, <1>0, <1>1, <1>2, <1>6, SessionFrame DEF SessionsInv
  <2> QED
    BY SMTT(60), <2>1, <2>2
<1>10. Live' = Live
  BY SMTT(60), <1>1 DEF Live
<1>11. \A f \in Artifacts : HistoryInv(f)'
  BY <1>1, <1>10 DEF SessionsInv, HistoryInv
<1>12. ASSUME NEW u \in Tokens, NEW f \in Artifacts,
              pins'[u] # None, f \in Live', pins'[u][f] \in captured'[f]
       PROVE  pins'[u][f] \in Versions(rows'[f])
  <2>1. CASE u # t
    BY SMTT(60), <2>1, <1>1, <1>6, <1>10, <1>12 DEF SessionsInv, PinnedBodyKept
  <2>2. CASE u = t /\ f \in F
    BY SMTT(60), <2>2, <1>1, <1>3, <1>5, <1>10, <1>12 DEF SessionsInv, HistoryInv
  <2>3. CASE u = t /\ f \notin F
    <3>1. 0 \notin captured[f]
      BY DEF SessionsInv, HistoryInv
    <3> QED
      BY SMTT(60), <2>3, <3>1, <1>1, <1>3, <1>5, <1>12
  <2> QED
    BY SMTT(60), <2>1, <2>2, <2>3
<1>13. PinnedBodyKept'
  BY SMTT(60), <1>12 DEF PinnedBodyKept
<1>14. ASSUME NEW c \in commits'
       PROVE  opened'[c[1]] # None /\ c[3] = opened'[c[1]].cut[c[2]]
  <2>1. c \in commits /\ c[1] \in Tokens
    BY SMTT(60), <1>0, <1>1 DEF TypeOK
  <2>2. opened[c[1]] # None /\ c[3] = opened[c[1]].cut[c[2]]
    BY SMTT(60), <2>1 DEF SessionsInv, OneCommitPerPin
  <2>3. c[1] # t
    BY SMTT(60), <2>2, <1>1
  <2> QED
    BY ZenonT(60), <2>1, <2>2, <2>3, <1>6
<1> QED
  BY <1>4, <1>9, <1>11, <1>13, <1>14 DEF SessionsInv, OneCommitPerPin

\* A heartbeat makes the service's entries those of the opening and of the newest
\* heartbeat: when the service knew nothing of the session, no heartbeat newer
\* than this one was recorded before.
LEMMA HeartbeatStep ==
  ASSUME SessionsInv, NEW t \in Tokens, NEW caller \in Callers, NEW at \in Nat, at <= now,
         owners[t] = None => beat[t] = None \/ beat[t] <= at,
         record_session_heartbeat(t, caller, at)
  PROVE  SessionsInv'
<1> DEFINE cr == IF owners[t] = None THEN AdoptedCreation(t) ELSE created[t]
           be == IF beat[t] = None \/ beat[t] < at THEN at ELSE beat[t]
<1>0. TypeOK /\ SessionInv(t)
  BY DEF SessionsInv
<1>1. /\ owners' = [owners EXCEPT ![t] = caller] /\ created' = [created EXCEPT ![t] = cr]
      /\ lease' = [lease EXCEPT ![t] = Later(lease[t], at)]
      /\ beat' = [beat EXCEPT ![t] = be]
      /\ UNCHANGED <<registry, call, now, opened, captured, commits>>
      /\ BoundOwner(t) = caller
  BY SMTT(60) DEF record_session_heartbeat
<1>2. caller # None /\ now \in Nat
  BY SMTT(60), <1>0, SessionAssumption DEF TypeOK
<1>3. opened[t] # None /\ opened[t] \in Opening /\ caller = opened[t].owner
  <2>1. CASE owners[t] # None
    BY SMTT(60), <2>1, <1>0, <1>1 DEF BoundOwner, SessionInv, TypeOK
  <2>2. CASE owners[t] = None
    BY SMTT(60), <2>2, <1>0, <1>1, <1>2 DEF BoundOwner, SessionInv, TypeOK
  <2> QED
    BY SMTT(60), <2>1, <2>2
<1>4. cr = opened[t].created /\ cr \in Nat
  <2>1. cr = opened[t].created
    <3>1. CASE owners[t] # None
      BY ZenonT(60), <3>1, <1>0 DEF SessionInv
    <3>2. CASE owners[t] = None
      <4>1. meta[t] # None
        BY SMTT(60), <3>2, <1>1, <1>2 DEF BoundOwner
      <4> QED
        BY ZenonT(60), <3>2, <4>1, <1>0 DEF SessionInv, AdoptedCreation
    <3> QED
      BY <3>1, <3>2
  <2> QED
    BY SMTT(60), <2>1, <1>3 DEF Opening
<1>5. be \in Nat /\ be # None /\ be <= now /\ Later(lease[t], at) = be
  <2>1. beat[t] # None => beat[t] \in Nat /\ beat[t] <= now
    BY SMTT(60), <1>0 DEF TypeOK, OptNat, SessionInv
  <2>2. be \in Nat /\ be <= now
    BY SMTT(60), <2>1, <1>2
  <2>3. be # None
    BY SMTT(60), <2>2, PolicyAssumption
  <2>4. CASE owners[t] = None
    <3>1. lease[t] = None
      BY <2>4, <1>0 DEF SessionInv
    <3>2. be = at
      BY SMTT(60), <2>1, <2>4
    <3> QED
      BY SMTT(60), <3>1, <3>2, <2>2, <2>3 DEF Later
  <2>5. CASE owners[t] # None
    <3>1. lease[t] = beat[t]
      BY SMTT(60), <2>5, <1>0 DEF SessionInv
    <3> QED
      BY SMTT(60), <3>1, <2>2, <2>3 DEF Later
  <2> QED
    BY SMTT(60), <2>4, <2>5
<1> HIDE DEF cr, be
<1>6. TypeOK'
  BY SMTT(60), <1>0, <1>1, <1>4, <1>5 DEF TypeOK, OptNat, registry
<1>7. /\ owners'[t] = caller /\ created'[t] = cr /\ lease'[t] = be /\ beat'[t] = be
      /\ pins'[t] = pins[t] /\ meta'[t] = meta[t] /\ call'[t] = call[t]
      /\ opened'[t] = opened[t] /\ now' = now
  BY SMTT(60), <1>0, <1>1, <1>5 DEF TypeOK, registry
<1>8. ASSUME NEW u \in Tokens PROVE SessionInv(u)'
  <2>1. CASE u = t
    BY ZenonT(60), <2>1, <1>0, <1>2, <1>3, <1>4, <1>5, <1>7 DEF SessionInv
  <2>2. CASE u # t
    <3>1. /\ owners'[u] = owners[u] /\ created'[u] = created[u] /\ lease'[u] = lease[u]
          /\ beat'[u] = beat[u] /\ now <= now' /\ now' \in Nat
      BY <2>2, <1>0, <1>1, <1>2 DEF TypeOK
    <3> QED
      BY ZenonT(60), <3>1, <1>0, <1>1, SessionFrame DEF SessionsInv, registry
  <2> QED
    BY SMTT(60), <2>1, <2>2
<1>9. UNCHANGED <<version, gone, rows, captured, pins, commits, opened>>
  BY SMTT(60), <1>1 DEF registry
<1> QED
  BY ZenonT(60), <1>6, <1>8, <1>9, HistoryFrame, CommitFrame DEF SessionsInv

\* Reaping removes the registry's and the service's entries together.
LEMMA ReapStep ==
  ASSUME SessionsInv, NEW t \in Tokens, Reap(t)
  PROVE  SessionsInv'
<1> USE DEF ghosts
<1>0. TypeOK
  BY DEF SessionsInv
<1>1. /\ pins' = [pins EXCEPT ![t] = None] /\ meta' = [meta EXCEPT ![t] = None]
      /\ owners' = [owners EXCEPT ![t] = None] /\ lease' = [lease EXCEPT ![t] = None]
      /\ created' = [created EXCEPT ![t] = None]
      /\ UNCHANGED <<version, gone, owned, rows, call, now, ghosts>>
  BY DEF Reap, release_session, drop_service_state
<1>2. TypeOK'
  BY <1>0, <1>1 DEF TypeOK, OptNat
<1>3. /\ pins'[t] = None /\ meta'[t] = None /\ owners'[t] = None /\ lease'[t] = None
      /\ \A u \in Tokens : u # t =>
           /\ pins'[u] = pins[u] /\ meta'[u] = meta[u] /\ owners'[u] = owners[u]
           /\ lease'[u] = lease[u] /\ created'[u] = created[u]
  BY <1>0, <1>1 DEF TypeOK
<1>4. ASSUME NEW u \in Tokens PROVE SessionInv(u)'
  <2>0. SessionInv(u) /\ now' \in Nat /\ now <= now' /\ UNCHANGED <<call, opened, beat, now>>
    BY SMTT(60), <1>0, <1>1 DEF SessionsInv, TypeOK
  <2>1. CASE u = t
    BY SMTT(60), <2>0, <2>1, <1>3 DEF SessionInv
  <2>2. CASE u # t
    <3>1. /\ pins'[u] = pins[u] /\ meta'[u] = meta[u] /\ owners'[u] = owners[u]
          /\ lease'[u] = lease[u] /\ created'[u] = created[u]
      BY ZenonT(60), <2>2, <1>3
    <3>2. call'[u] = call[u] /\ opened'[u] = opened[u] /\ beat'[u] = beat[u]
      BY ZenonT(60), <2>0
    <3> QED
      BY ZenonT(60), <2>0, <3>1, <3>2, <1>0, SessionFrame
  <2> QED
    BY SMTT(60), <2>1, <2>2
<1>5. \A u \in Tokens : pins'[u] = pins[u] \/ pins'[u] = None
  BY SMTT(60), <1>3
<1> QED
  BY <1>1, <1>2, <1>4, <1>5, HistoryFrame, CommitFrame DEF SessionsInv
=============================================================================
