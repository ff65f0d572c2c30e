----------------------------- MODULE Retention -----------------------------
(***************************************************************************)
(* Bounded version retention (coordinator/retention.py) and the capture    *)
(* path that applies it (registry.py, _capture_version).  A retained body  *)
(* is a row: the version and the time at which it was captured.  The code  *)
(* collects only inside a capture, so collection is part of capture.       *)
(***************************************************************************)
EXTENDS Integers, FiniteSets

CONSTANTS
  None,
  MaxVersions,  \* RetentionPolicy.max_versions, None when that axis is off
  MaxAge        \* RetentionPolicy.max_age_seconds, None when that axis is off

ASSUME PolicyAssumption ==
  /\ None \notin Int
  /\ MaxVersions \in (Nat \ {0}) \cup {None}
  /\ MaxAge \in (Nat \ {0}) \cup {None}

Row == [version : Nat, at : Nat]

Versions(rows) == {r.version : r \in rows}

\* Mutant: one version too many is kept.
KeptByCount_OffByOne(V) == {v \in V : Cardinality({w \in V : w > v}) <= MaxVersions}

\* The newest MaxVersions of the versions V.
KeptByCount(V) == {v \in V : Cardinality({w \in V : w > v}) < MaxVersions}

BeyondCount(rows) ==
  IF MaxVersions = None THEN {} ELSE Versions(rows) \ KeptByCount(Versions(rows))

BeyondAge(rows, now) ==
  IF MaxAge = None THEN {} ELSE {r.version : r \in {q \in rows : q.at < now - MaxAge}}

\* Mutant: a pinned version is collected like any other.
collectible_versions_NoExemptions(rows, current, now, exemptions) ==
  (BeyondCount(rows) \cup BeyondAge(rows, now)) \ {current}

collectible_versions(rows, current, now, exemptions) ==
  (BeyondCount(rows) \cup BeyondAge(rows, now)) \ (exemptions \cup {current})

\* Store the body of a version, then drop what the policy no longer keeps.
capture_version(rows, version, now, exemptions) ==
  LET kept == {r \in rows : r.version # version} \cup {[version |-> version, at |-> now]}
      drop == collectible_versions(kept, version, now, exemptions)
  IN  {r \in kept : r.version \notin drop}
=============================================================================
