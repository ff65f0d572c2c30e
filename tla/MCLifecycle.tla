---------------------------- MODULE MCLifecycle -----------------------------
(***************************************************************************)
(* Two processes find, start, stop and lose the coordinator of a           *)
(* workspace.                                                              *)
(***************************************************************************)
EXTENDS Lifecycle
=============================================================================
