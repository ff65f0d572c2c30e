--------------------------- MODULE CoherentStore ---------------------------
(***************************************************************************)
(* What the coordinator promises its callers, with none of its mechanism:  *)
(* no MESI states, epochs, claims, transients, signals, sweeps or clock.   *)
(* A store of versioned artifacts; each agent holds the current version of *)
(* an artifact or holds nothing; at most one agent owns an artifact, and   *)
(* then it is the only holder; a set of artifacts is published as one      *)
(* step, by an agent no owner stands in the way of and whose claim has not *)
(* been taken back since it last obtained one.                             *)
(***************************************************************************)
EXTENDS Naturals

CONSTANTS Agents, Artifacts, None

VARIABLES
  version,  \* artifact -> published version, 0 before creation
  held,     \* artifact -> agent -> the version the agent holds, 0 for none
  owner,    \* artifact -> its owner, or None
  barred,   \* artifact -> agents that must obtain a claim before publishing
  removed   \* artifacts that are gone for good

vars == <<version, held, owner, barred, removed>>

Nothing == [a \in Agents |-> 0]

Only(a, v) == [Nothing EXCEPT ![a] = v]

Exists(f) == version[f] > 0 /\ f \notin removed

Init ==
  /\ version = [f \in Artifacts |-> 0]
  /\ held = [f \in Artifacts |-> Nothing]
  /\ owner = [f \in Artifacts |-> None]
  /\ barred = [f \in Artifacts |-> {}]
  /\ removed = {}

Create(f, o) ==
  /\ version[f] = 0 /\ f \notin removed
  /\ version' = [version EXCEPT ![f] = 1]
  /\ held' = [held EXCEPT ![f] = IF o = None THEN Nothing ELSE Only(o, 1)]
  /\ owner' = [owner EXCEPT ![f] = o]
  /\ UNCHANGED <<barred, removed>>

\* A reader with no other holder beside it becomes the owner; otherwise
\* everybody keeps the copy they have and nobody owns the artifact.
Obtain(a, f) ==
  /\ Exists(f)
  /\ held' = [held EXCEPT ![f][a] = version[f]]
  /\ owner' = [owner EXCEPT ![f] = IF \A p \in Agents \ {a} : held[f][p] = 0
                                     THEN a ELSE None]
  /\ barred' = [barred EXCEPT ![f] = @ \ {a}]
  /\ UNCHANGED <<version, removed>>

Acquire(a, f) ==
  /\ Exists(f)
  /\ held' = [held EXCEPT ![f] = Only(a, version[f])]
  /\ owner' = [owner EXCEPT ![f] = a]
  /\ barred' = [barred EXCEPT ![f] = @ \ {a}]
  /\ UNCHANGED <<version, removed>>

Publish(a, F) ==
  /\ F # {}
  /\ \A f \in F : Exists(f) /\ owner[f] \in {a, None} /\ a \notin barred[f]
  /\ version' = [f \in Artifacts |-> IF f \in F THEN version[f] + 1 ELSE version[f]]
  /\ held' = [f \in Artifacts |-> IF f \in F THEN Only(a, version[f] + 1) ELSE held[f]]
  /\ UNCHANGED <<owner, barred, removed>>

\* An agent loses its copy; an owner loses its claim with it.
Drop(a, f) ==
  /\ Exists(f)
  /\ held' = [held EXCEPT ![f][a] = 0]
  /\ owner' = [owner EXCEPT ![f] = IF @ = a THEN None ELSE @]
  /\ barred' = [barred EXCEPT ![f] = IF owner[f] = a THEN @ \cup {a} ELSE @]
  /\ UNCHANGED <<version, removed>>

Remove(f) ==
  /\ Exists(f)
  /\ version' = [version EXCEPT ![f] = 0]
  /\ held' = [held EXCEPT ![f] = Nothing]
  /\ owner' = [owner EXCEPT ![f] = None]
  /\ removed' = removed \cup {f}
  /\ UNCHANGED barred

Next ==
  \/ \E f \in Artifacts, o \in Agents \cup {None} : Create(f, o)
  \/ \E a \in Agents, f \in Artifacts : Obtain(a, f) \/ Acquire(a, f) \/ Drop(a, f)
  \/ \E a \in Agents, F \in SUBSET Artifacts : Publish(a, F)
  \/ \E f \in Artifacts : Remove(f)

Spec == Init /\ [][Next]_vars
=============================================================================
