---------------------------- MODULE MCHookServer ----------------------------
(***************************************************************************)
(* Instance of HookServer.  A behaviour's clients send one of the mixes of  *)
(* hooks below, at most so many of them, while the sweeps or a migration    *)
(* do or do not run beside them: a mix holds what can disturb one another,  *)
(* and its limit lets the longest of the interesting exchanges happen.     *)
(***************************************************************************)
EXTENDS HookServer

CONSTANTS a1, a2, p1

VARIABLE mix

\* a2 is a subagent of the session a1.
Subagent == [a \in Agents |-> a1]

Mix(kinds, beside, limit) == [kinds |-> kinds, beside |-> beside, limit |-> limit]

Mixes ==
  {Mix({"pre_read", "pre_edit", "post_edit"}, {}, 4),
   Mix({"verify", "pre_read", "post_edit_cas"}, {"sweeps"}, 3),
   Mix({"pre_edit", "post_edit", "post_fail"}, {"sweeps"}, 3),
   Mix({"pre_bash", "pre_grep", "post_edit_cas"}, {}, 4),
   Mix({"session_start", "session_stop", "untracked", "pre_read"}, {"shutdown"}, 4),
   Mix({"session_stop", "pre_edit"}, {"migration"}, 2)}

MCInit == Init /\ mix \in Mixes

\* Every hook of the mix has been answered.
Served ==
  /\ requests = mix.limit /\ \A t \in Threads : work[t] = None
  /\ UNCHANGED vars

MCNext ==
  /\ UNCHANGED mix
  /\ \/ \E t \in Threads : Arrives(t) \/ Timeout(t) \/ HandlerStep(t)
     \/ "sweeps" \in mix.beside /\ Sweeps
     \/ "migration" \in mix.beside /\ Migration
     \/ "shutdown" \in mix.beside /\ Shutdown
     \/ Close \/ Stopped
     \/ Served
  /\ requests' <= mix.limit
  /\ \A t \in Threads : work'[t] # None => work'[t].kind \in mix.kinds

MCSpec == MCInit /\ [][MCNext]_<<vars, mix>> /\ Fairness
=============================================================================
