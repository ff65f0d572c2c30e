----------------------------- MODULE MCRestore -----------------------------
(***************************************************************************)
(* One checkpoint over an object and a file, restored to the end.  A body  *)
(* is only ever compared, so both members may start with the same one.     *)
(***************************************************************************)
EXTENDS WorkspaceRestore

CONSTANTS f1, o1, s1, a, b

ObjectThenFile == <<o1, f1>>
OneFile == <<f1>>

StartBodies ==
  /\ \A f \in Files : disk[f] \in {a, Absent} /\ HeadHash(coord[f]) \in {b, None}
  /\ \A o \in Objects : Latest(bucket[o]) \in {a, Absent}
  /\ bucketCfg # "unversioned"

\* Torn captures and later pins are the subject of MCStorage: here the
\* workspace is quiet until the manifest is there, and the restore is next.
MCNext ==
  /\ RestoreNext
  /\ "unused" \in Range(status) => UNCHANGED <<moves, crashes>>
  /\ At("idle") => run'.op \notin {"pins", "release"}
  /\ "concluded" \notin Range(status)

MCInit == RestoreInit /\ StartBodies

MCSpec == MCInit /\ [][MCNext]_restoreVars /\ Fairness
=============================================================================
