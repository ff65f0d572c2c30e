---------------------------- MODULE ObjectStore ----------------------------
(***************************************************************************)
(* One S3 key as CoherentObject drives it.  A key is the sequence of its   *)
(* versions, oldest first; a version pointer is a position in it.  The     *)
(* ETag is the comparand of a conditional put and is modelled by the body, *)
(* the weakest token S3 mints: a body that comes back brings its ETag back.*)
(* Absent as a comparand stands for CREATE_IF_ABSENT.                      *)
(***************************************************************************)
EXTENDS Integers, Sequences

CONSTANTS
  Contents,   \* object and file bodies; a fingerprint identifies its body
  Absent,     \* no live object: never written, or a delete marker
  Lost        \* a version whose body expired or was deleted

Version == [body : Contents \cup {Absent, Lost}, pointer : BOOLEAN, held : BOOLEAN]

Latest(key) == IF key = <<>> THEN Absent ELSE key[Len(key)].body

\* An unversioned (or suspended) bucket keeps one version without a pointer and
\* overwrites it.
Store(key, body, versioned) ==
  LET v == [body |-> body, pointer |-> versioned, held |-> FALSE]
  IN  IF ~versioned /\ key # <<>> /\ ~key[Len(key)].pointer
        THEN [key EXCEPT ![Len(key)] = v] ELSE Append(key, v)

\* The versionId of a response: the "null" sentinel is no pointer.
Confirmed(key) == key # <<>> /\ key[Len(key)].pointer

\* A pinned GET; Lost when the version no longer resolves (KeyError).
read_pinned(key, v) == IF v \in 1..Len(key) THEN key[v].body ELSE Lost

\* If-Match (or If-None-Match "*"): the put lands on the comparand it names.
PutWins(key, token) == Latest(key) = token

\* The one read that decides what an unconfirmed put did.
reconcile_after_unknown(key, token, intended) ==
  CASE Latest(key) = Absent -> "hold"
    [] Latest(key) = token -> "re_drive"
    [] Latest(key) = intended -> "converge"
    [] OTHER -> "conflict"

\* A lifecycle rule or a version-targeted delete removes a version that is
\* neither current nor held.
Expirable(key) == {v \in 1..Len(key) : v < Len(key) /\ ~key[v].held /\ key[v].body # Lost}

Expire(key, v) == [key EXCEPT ![v].body = Lost]
=============================================================================
