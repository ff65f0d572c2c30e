------------------------------ MODULE Runtime ------------------------------
(***************************************************************************)
(* One artifact as its coordinator and its agents' runtimes see it:        *)
(* AgentRuntime (agent/runtime.py), its ArtifactCache (agent/cache.py) and *)
(* the synchronisation strategies (strategies/).  Every operator maps a    *)
(* view to a view; the modules that extend this one decide who calls what  *)
(* and when.                                                               *)
(*                                                                         *)
(* A view holds the registry record (None while the artifact is not        *)
(* registered), the body at the coordinator, and for every agent its cache *)
(* entry (None while absent) and the body its runtime remembers.  A body   *)
(* is the number of the commit that wrote it.                              *)
(*                                                                         *)
(* Abstractions.  The token counts and the audit stream are left out.  The *)
(* access count is kept only under the strategy that reads it, and so is   *)
(* the expiry of a lease.                                                  *)
(***************************************************************************)
EXTENDS ServiceRecords

CONSTANTS
  ttl_ticks,     \* LeaseStrategy: how long a fetched copy may be served
  max_accesses   \* AccessCountStrategy: how often

ASSUME StrategyAssumption == ttl_ticks \in Nat \ {0} /\ max_accesses \in Nat \ {0}

\* build_strategy's names.
StrategyNames == {"lazy", "eager", "broadcast", "lease", "access_count", "blind"}

ArtifactCacheEntry ==
  [state : MESIState, local_version : Nat, access_count : Nat, expires_at : OptNat]

View ==
  [rec     : ArtifactRecord \cup {None},
   body    : Nat,
   entry   : [Agents -> ArtifactCacheEntry \cup {None}],
   content : [Agents -> OptNat]]

-----------------------------------------------------------------------------
(* The strategies.                                                         *)

broadcasts_every_tick(strategy) == strategy = "broadcast"

broadcasts_content_on_commit(strategy) == strategy \in {"eager", "broadcast"}

invalidates_peers_on_commit(strategy) == strategy \notin {"eager", "broadcast"}

\* How many stale reads in a row a strategy tolerates, None when unbounded.
staleness_bound(strategy) ==
  CASE strategy \in {"eager", "broadcast"} -> 0
    [] strategy = "lease"                  -> ttl_ticks
    [] strategy = "access_count"           -> max_accesses
    [] OTHER                               -> None

\* Mutant: the access count is compared one late.
requires_refresh_OneLate(strategy, e, now) ==
  /\ strategy # "blind"
  /\ \/ e.state = "INVALID"
     \/ strategy = "lease" /\ (e.expires_at = None \/ now >= e.expires_at)
     \/ strategy = "access_count" /\ e.access_count > max_accesses

requires_refresh(strategy, e, now) ==
  /\ strategy # "blind"
  /\ \/ e.state = "INVALID"
     \/ strategy = "lease" /\ (e.expires_at = None \/ now >= e.expires_at)
     \/ strategy = "access_count" /\ e.access_count >= max_accesses

on_read(strategy, e, now) ==
  [e EXCEPT !.access_count = IF strategy = "access_count" THEN @ + 1 ELSE @,
            !.expires_at = IF strategy = "lease" /\ @ = None THEN now + ttl_ticks ELSE @]

on_fetch(strategy, version, state, now) ==
  [state         |-> state,
   local_version |-> version,
   access_count  |-> 0,
   expires_at    |-> IF strategy = "lease" THEN now + ttl_ticks ELSE None]

-----------------------------------------------------------------------------
(* The cache.                                                              *)

Smaller(m, n) == IF m < n THEN m ELSE n

\* ArtifactCache.invalidate: an absent entry is created INVALID, a present one
\* keeps the smaller version.
cache_invalidate(e, version) ==
  IF e = None
    THEN [state |-> "INVALID", local_version |-> version, access_count |-> 0,
          expires_at |-> None]
    ELSE [e EXCEPT !.state = "INVALID", !.local_version = Smaller(@, version)]

\* ArtifactCache.invalidate_all, as recover calls it: no version is given.
cache_invalidate_all(e) == IF e = None THEN None ELSE [e EXCEPT !.state = "INVALID"]

has_valid(e) == e # None /\ e.state # "INVALID"

-----------------------------------------------------------------------------
(* The runtime of agent a.                                                 *)

NewView == [rec     |-> register_artifact,
            body    |-> 0,
            entry   |-> [a \in Agents |-> None],
            content |-> [a \in Agents |-> None]]

NeedsRefresh(strategy, v, a, now) ==
  v.entry[a] = None \/ requires_refresh(strategy, v.entry[a], now)

_fetch(strategy, v, a, now) ==
  [v EXCEPT !.rec = FetchRecord(@, a, now),
            !.entry[a] = on_fetch(strategy, v.rec.version, FetchGrant(v.rec, a), now),
            !.content[a] = v.body]

Refreshed(strategy, v, a, now) ==
  IF NeedsRefresh(strategy, v, a, now) THEN _fetch(strategy, v, a, now) ELSE v

\* What read leaves behind; the answer is the entry's version and the body.
read(strategy, v, a, now) ==
  IF NeedsRefresh(strategy, v, a, now) THEN _fetch(strategy, v, a, now)
  ELSE [v EXCEPT !.entry[a] = on_read(strategy, @, now)]

\* write: acquire, then commit; the writer ends MODIFIED in both places.
write(strategy, v, a, body, now) ==
  LET fresh == Refreshed(strategy, v, a, now) IN
  [fresh EXCEPT !.rec = CommitRecord(WriteRecord(@, a, now), a, now),
                !.body = body,
                !.entry[a] = on_fetch(strategy, fresh.rec.version + 1, "MODIFIED", now),
                !.content[a] = body]

\* The signals write returns are one per peer it took a copy from, and all
\* announce the version that was current before the commit.
WriteSignalled(strategy, v, a, now) == OtherHolders(Refreshed(strategy, v, a, now).rec, a) # {}

WriteAnnounces(v) == v.rec.version

\* write_cas when no other call intervenes.  The first attempt uses the cached
\* version; a conflict refetches, and the second attempt uses what it fetched.
CasAttempt(strategy, v, a, now) ==
  LET fresh == Refreshed(strategy, v, a, now)
      known == fresh.entry[a].local_version IN
  IF OccAllowed(fresh.rec, a) /\ CasOutcome(fresh.rec, a, known) \in
       {"version_mismatch", "other_holder", "stale_read_generation"}
    THEN _fetch(strategy, fresh, a, now)
    ELSE fresh

\* What write_cas holds when it makes its last attempt.
CasReady(strategy, v, a, now) ==
  /\ OccAllowed(v.rec, a)
  /\ CasOutcome(v.rec, a, v.entry[a].local_version) = "win"

write_cas(strategy, v, a, body, now) ==
  [v EXCEPT !.rec = CasWin(@, a),
            !.body = body,
            !.entry[a] = on_fetch(strategy, v.rec.version + 1, "SHARED", now),
            !.content[a] = body]

\* A peer's signal: the cache follows the coordinator's decision, and is
\* cleared as well when the artifact is gone.
handle_invalidation(v, a, version, issuer, now) ==
  IF v.rec # None /\ RevokeIsSuperseded(v.rec, a, version, issuer) THEN v
  ELSE [v EXCEPT !.rec = IF @ = None THEN None ELSE InvalidateRecord(@, a, now),
                 !.entry[a] = cache_invalidate(@, version - 1)]

UpdateRejected(v, a, version) ==
  version < v.rec.version \/ v.rec.state[a] \in M_OR_E_STATES

ClearTransients(r, agents) ==
  [r EXCEPT !.transient = [p \in Agents |-> IF p \in agents THEN None ELSE @[p]]]

\* A pushed update (writer is None for the per-tick broadcast): the recipient,
\* and the writer with it, end SHARED; both transients are cleared either way.
handle_update(strategy, v, a, version, body, writer, now) ==
  LET parties == {a, writer} \ {None} IN
  IF v.rec = None THEN v
  ELSE IF UpdateRejected(v, a, version)
    THEN [v EXCEPT !.rec = ClearTransients(@, parties)]
  ELSE LET mine   == set_agent_state(v.rec, a, "SHARED", "update", now)
           shared == IF writer = None THEN mine
                     ELSE set_agent_state(mine, writer, "SHARED", "update", now) IN
       [v EXCEPT !.rec = ClearTransients(shared, parties),
                 !.entry[a] = on_fetch(strategy, version, "SHARED", now),
                 !.content[a] = body]
=============================================================================
