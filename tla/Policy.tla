------------------------------- MODULE Policy -------------------------------
(***************************************************************************)
(* The tracked-artifact policy of a workspace: the three YAML lists under  *)
(* .coherence/, the policy object a coordinator holds in memory, the       *)
(* /policy/track and /policy/untrack requests that append to a list and    *)
(* swap the object, and the CoherentVolume processes that write their      *)
(* managed globs into the lists just before they spawn or join a           *)
(* coordinator (claude_code/policy.py, coordinator_server.py,              *)
(* coherent_volume.py).                                                    *)
(*                                                                         *)
(* A pattern stands for the paths it matches; a list is the set of its     *)
(* patterns.  An append runs under a lock on a sidecar file, but write_text*)
(* first truncates the list and then writes it, TrackedArtifactPolicy.load *)
(* reads the lists without the lock, and a volume's merge replaces a list  *)
(* by rename without it: an append that has already opened the list then   *)
(* writes to the file the rename has unlinked.                             *)
(***************************************************************************)
EXTENDS Naturals, FiniteSets

CONSTANTS Patterns, \* paths, each its own pattern
          Managed,  \* the globs every volume of the fleet declares
          Workers,  \* request threads of the coordinator
          Volumes,  \* CoherentVolume processes
          MaxYaml,  \* patterns that fit in MAX_POLICY_YAML_BYTES
          MaxBoots, \* bound: coordinators started
          MaxRequests, \* bound: requests received
          None

VARIABLES yaml,     \* the lists on disk
          lock,     \* holder of each list's sidecar lock
          req,      \* what each request thread is doing
          up,       \* the coordinator: "down", "starting" or "up"
          boot,     \* what a starting coordinator has loaded
          policy,   \* the live policy
          vol,      \* what each volume is doing
          boots,    \* coordinators started
          sent,     \* requests received
          answered, \* additions answered with 200
          dropped   \* patterns a rename or a crash took off a list

policyVars == <<yaml, lock, req, up, boot, policy, vol, boots, sent, answered, dropped>>

Files == {"tracked", "ignored", "strict"}
Appended == {"tracked", "ignored"}
Empty == [f \in Files |-> {}]
Idle == [stage |-> "idle", file |-> None, path |-> None, text |-> {},
         orphan |-> FALSE, got |-> Empty]

PolicyInit ==
    /\ yaml = Empty
    /\ lock = [f \in Appended |-> None]
    /\ req = [w \in Workers |-> Idle]
    /\ up = "down" /\ boot = Empty /\ policy = Empty /\ boots = 0 /\ sent = 0
    /\ vol = [v \in Volumes |-> [stage |-> "new", text |-> {}]]
    /\ answered = {} /\ dropped = {}

-----------------------------------------------------------------------------
(* What a policy decides.                                                  *)

is_tracked(pol, p) == p \in pol["tracked"] /\ p \notin pol["ignored"]

is_strict_mode(pol, p) == is_tracked(pol, p) /\ p \in pol["strict"]

\* The policy `load` builds from lists that nobody is writing.
load(lists) == [f \in Files |-> lists[f]]

\* The lists as they stand once the append in flight has landed.
Settled(f) ==
    LET W == {w \in Workers : /\ req[w].stage = "write" /\ req[w].file = f
                              /\ ~req[w].orphan}
    IN  IF W = {} THEN yaml[f]
        ELSE UNION {req[w].text \cup {req[w].path} : w \in W}

-----------------------------------------------------------------------------
(* The coordinator starts: it loads the lists one after the other.         *)

Spawn ==
    /\ up = "down" /\ boots < MaxBoots
    /\ up' = "starting" /\ boots' = boots + 1
    /\ boot' = [Empty EXCEPT !["tracked"] = yaml["tracked"]]
    /\ UNCHANGED <<yaml, lock, req, policy, vol, sent, answered, dropped>>

Boot ==
    /\ up = "starting"
    /\ up' = "up"
    /\ policy' = [boot EXCEPT !["ignored"] = yaml["ignored"],
                              !["strict"] = yaml["strict"]]
    /\ boot' = Empty
    /\ UNCHANGED <<yaml, lock, req, vol, boots, sent, answered, dropped>>

\* The process dies: its threads and its locks go with it, and a list that was
\* truncated and not yet written stays empty.
Crash ==
    /\ up = "up"
    /\ up' = "down" /\ policy' = Empty
    /\ dropped' = dropped \cup
          UNION {{req[w].file} \X (req[w].text \cup {req[w].path}) :
                    w \in {u \in Workers : req[u].stage = "write"}}
    /\ req' = [w \in Workers |-> Idle]
    /\ lock' = [f \in Appended |-> None]
    /\ UNCHANGED <<yaml, boot, vol, boots, sent, answered>>

-----------------------------------------------------------------------------
(* POST /policy/track and /policy/untrack.                                 *)

Receive(w, f, p) ==
    /\ up = "up" /\ req[w].stage = "idle" /\ sent < MaxRequests
    /\ sent' = sent + 1
    /\ req' = [req EXCEPT ![w] = [Idle EXCEPT !.stage = "lock", !.file = f, !.path = p]]
    /\ UNCHANGED <<yaml, lock, up, boot, policy, vol, boots, answered, dropped>>

\* Mutant: the append does not wait for the lock.
Locked_Never(f) == FALSE
Locked(f) == lock[f] # None

\* _append_policy_yaml up to write_text: a pattern already there is not written
\* again, one that does not fit is refused with 400.
Append(w) ==
    LET f == req[w].file
        text == yaml[f]
    IN  /\ req[w].stage = "lock" /\ ~Locked(f)
        /\ \/ /\ req[w].path \in text
              /\ req' = [req EXCEPT ![w].stage = "load"]
              /\ UNCHANGED <<yaml, lock>>
           \/ /\ req[w].path \notin text /\ Cardinality(text) >= MaxYaml
              /\ req' = [req EXCEPT ![w] = Idle]
              /\ UNCHANGED <<yaml, lock>>
           \/ /\ req[w].path \notin text /\ Cardinality(text) < MaxYaml
              /\ lock' = [lock EXCEPT ![f] = w]
              /\ req' = [req EXCEPT ![w].stage = "truncate", ![w].text = text]
              /\ UNCHANGED yaml
        /\ UNCHANGED <<up, boot, policy, vol, boots, sent, answered, dropped>>

\* A rename between the read and this open is overwritten by what was read.
Truncate(w) ==
    LET f == req[w].file
    IN  /\ req[w].stage = "truncate"
        /\ yaml' = [yaml EXCEPT ![f] = {}]
        /\ dropped' = dropped \cup ({f} \X (yaml[f] \ req[w].text))
        /\ req' = [req EXCEPT ![w].stage = "write"]
        /\ UNCHANGED <<lock, up, boot, policy, vol, boots, sent, answered>>

Write(w) ==
    LET f == req[w].file
    IN  /\ req[w].stage = "write"
        /\ yaml' = IF req[w].orphan THEN yaml
                   ELSE [yaml EXCEPT ![f] = req[w].text \cup {req[w].path}]
        /\ lock' = [lock EXCEPT ![f] = None]
        /\ req' = [req EXCEPT ![w].stage = "load", ![w].text = {}]
        /\ UNCHANGED <<up, boot, policy, vol, boots, sent, answered, dropped>>

\* TrackedArtifactPolicy.load in a request thread, outside the lock.
Load(w) ==
    /\ req[w].stage = "load"
    /\ req' = [req EXCEPT ![w].stage = "reload", ![w].got["tracked"] = yaml["tracked"]]
    /\ UNCHANGED <<yaml, lock, up, boot, policy, vol, boots, sent, answered, dropped>>

Reload(w) ==
    /\ req[w].stage = "reload"
    /\ req' = [req EXCEPT ![w].stage = "swap", ![w].got["ignored"] = yaml["ignored"],
                          ![w].got["strict"] = yaml["strict"]]
    /\ UNCHANGED <<yaml, lock, up, boot, policy, vol, boots, sent, answered, dropped>>

\* coordinator.policy = new_policy, and the answer.
Swap(w) ==
    /\ req[w].stage = "swap"
    /\ policy' = req[w].got
    /\ answered' = answered \cup {<<req[w].file, req[w].path>>}
    /\ req' = [req EXCEPT ![w] = Idle]
    /\ UNCHANGED <<yaml, lock, up, boot, vol, boots, sent, dropped>>

-----------------------------------------------------------------------------
(* CoherentVolume._attach_with_strict.                                     *)

At(v, stage) == vol[v].stage = stage
Become(v, stage, text) == vol' = [vol EXCEPT ![v] = [stage |-> stage, text |-> text]]

\* A coordinator that answers the probe keeps its lists: only the volume that
\* is about to spawn one writes them.
Probe(v) ==
    /\ At(v, "new")
    /\ Become(v, IF up = "up" THEN "connect" ELSE "tracked", {})
    /\ UNCHANGED <<yaml, lock, req, up, boot, policy, boots, sent, answered, dropped>>

\* _merge_yaml_list reads a list ...
MergeRead(v, f) ==
    /\ At(v, f)
    /\ Become(v, IF f = "tracked" THEN "mergeTracked" ELSE "mergeStrict", yaml[f])
    /\ UNCHANGED <<yaml, lock, req, up, boot, policy, boots, sent, answered, dropped>>

\* ... and renames the merged one over it, unless nothing is new.  What the
\* list lost to the rename is an addition made since the read, or all of an
\* append that holds the old file open.
Merge(v, f) ==
    LET merged == vol[v].text \cup Managed
        next == IF f = "tracked" THEN "strict" ELSE "connect"
    IN  /\ At(v, IF f = "tracked" THEN "mergeTracked" ELSE "mergeStrict")
        /\ Become(v, next, {})
        /\ IF merged = vol[v].text
           THEN UNCHANGED <<yaml, req, dropped>>
           ELSE /\ yaml' = [yaml EXCEPT ![f] = merged]
                /\ dropped' = dropped \cup ({f} \X ((yaml[f] \cup Settled(f)) \ merged))
                /\ req' = [w \in Workers |->
                             IF req[w].stage = "write" /\ req[w].file = f
                             THEN [req[w] EXCEPT !.orphan = TRUE] ELSE req[w]]
        /\ UNCHANGED <<lock, up, boot, policy, boots, sent, answered>>

strict_mode_active == policy["strict"] # {}

\* The coordinator is up (spawned by this volume or by somebody else): the
\* check of the strict pattern count decides.
Connect(v) ==
    /\ At(v, "connect") /\ up = "up"
    /\ Become(v, IF strict_mode_active THEN "attached" ELSE "refused", {})
    /\ UNCHANGED <<yaml, lock, req, up, boot, policy, boots, sent, answered, dropped>>

\* Neither a spawn nor an attach worked: fail closed.
Unavailable(v) ==
    /\ At(v, "connect") /\ up = "down"
    /\ Become(v, "refused", {})
    /\ UNCHANGED <<yaml, lock, req, up, boot, policy, boots, sent, answered, dropped>>

-----------------------------------------------------------------------------
RequestStep(w) == Append(w) \/ Truncate(w) \/ Write(w) \/ Load(w) \/ Reload(w) \/ Swap(w)

VolumeStep(v) ==
    \/ Probe(v) \/ Connect(v) \/ Unavailable(v)
    \/ \E f \in {"tracked", "strict"} : MergeRead(v, f) \/ Merge(v, f)

PolicyNext ==
    \/ Spawn \/ Boot \/ Crash
    \/ \E w \in Workers, f \in Appended, p \in Patterns : Receive(w, f, p)
    \/ \E w \in Workers : RequestStep(w)
    \/ \E v \in Volumes : VolumeStep(v)

PolicySpec == PolicyInit /\ [][PolicyNext]_policyVars

-----------------------------------------------------------------------------
(* Properties.                                                             *)

\* An addition that was answered with 200 stays on its list, whatever appends
\* run next to it (_append_policy_yaml's read-modify-write under the lock).
\* Only a volume's rename over a list it did not see change, an append that
\* overwrites such a rename, or a crash inside write_text takes a pattern off.
AdditionsKept ==
    \A a \in answered : a[2] \in Settled(a[1]) \/ a \in dropped

\* A volume that reports itself attached is enforced by any coordinator that
\* loads the lists later: its managed globs are strict in the policy a restart
\* builds, unless they were ignored by /policy/untrack or were lost from
\* tracked.yaml as above (_attach_with_strict's check after the attach).
RestartEnforces ==
    \A v \in Volumes : At(v, "attached") =>
        \A m \in Managed : \/ is_strict_mode(load([f \in Files |-> Settled(f)]), m)
                           \/ m \in Settled("ignored")
                           \/ <<"tracked", m>> \in dropped

\* What the comment in _handle_policy_track says of the reload: hook calls made
\* after the answer see the addition.  Stated for a coordinator with no request
\* in progress.
AdditionsSeen ==
    (up = "up" /\ \A w \in Workers : req[w].stage = "idle") =>
        \A a \in answered : a[2] \in policy[a[1]]
=============================================================================
