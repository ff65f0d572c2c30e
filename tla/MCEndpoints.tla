---------------------------- MODULE MCEndpoints ----------------------------
(***************************************************************************)
(* A TLC instance of what the coordinator server does beyond the hooks, in *)
(* three parts that share nothing but the worker threads.  "sessions": one *)
(* session over HTTP.  "workspace": one checkpoint of one member over      *)
(* HTTP.  "policy": a volume and two requests on the policy lists.      *)
(***************************************************************************)
EXTENDS SessionEndpoints

LOCAL INSTANCE TLC

CONSTANTS w1, w2, a, b, k1, m1, m, p, q, v1, Absent, Lost

VARIABLES part,
  status, refcount, manifest, http, waiting, artifact, held, restarts, confirmed, bumps,
  yaml, lock, req, up, boot, policy, vol, boots, sent, answered, dropped

Http == INSTANCE CheckpointEndpoints WITH
  Contents <- {a, b}, Checkpoints <- {k1}, Members <- {m1}, rows <- manifest,
  MaxVersion <- 3, MaxRestarts <- 1

Lists == INSTANCE Policy WITH
  Patterns <- {m, p, q}, Managed <- {m}, Volumes <- {v1},
  MaxYaml <- 2, MaxBoots <- 2, MaxRequests <- 2

httpVars == <<status, refcount, manifest, http, waiting, artifact, held, restarts, confirmed, bumps>>
policyVars == <<yaml, lock, req, up, boot, policy, vol, boots, sent, answered, dropped>>
mcVars == <<part, endpointVars, httpVars, policyVars>>

MCInit ==
  /\ part \in {"sessions", "workspace", "policy"}
  /\ EndpointInit /\ Http!HttpInit /\ Lists!PolicyInit

MCNext ==
  \/ /\ part = "sessions" /\ EndpointNext
     /\ UNCHANGED <<part, httpVars, policyVars>>
  \/ /\ part = "workspace" /\ Http!HttpNext
     /\ UNCHANGED <<part, endpointVars, policyVars>>
  \/ /\ part = "policy" /\ Lists!PolicyNext
     /\ UNCHANGED <<part, endpointVars, httpVars>>

MCSpec == MCInit /\ [][MCNext]_mcVars

\* Workers, contents and unmanaged patterns are interchangeable.
MCSymmetry ==
  Permutations({w1, w2}) \cup Permutations({a, b})
    \cup Permutations({p, q})

\* What the server confirmed to the controller of a restore stays on record, and a
\* registration that is sent again moves no artifact twice (CheckpointEndpoints:
\* the abort guard on the workspace writes, register_workspace_restore).
RestoreIsRecorded == Http!ConfirmedIsDurable /\ Http!RegisteredOnce

\* A policy addition that was answered stays on its list, and the globs of an
\* attached volume stay strict for the next coordinator (Policy:
\* _append_policy_yaml under its lock, _attach_with_strict).
PolicyIsKept == Lists!AdditionsKept /\ Lists!RestartEnforces
=============================================================================
