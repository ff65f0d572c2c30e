------------------------------ MODULE Diagnose ------------------------------
(***************************************************************************)
(* ccs-diagnose: the callback that watches a LangGraph run                 *)
(* (diagnose/callback.py, diagnose/checkpointer.py), the classifier of its *)
(* write pattern (diagnose/classifier/langgraph_v0_preview.py), the        *)
(* detection of divergent reads (diagnose/detection.py), the ownership map *)
(* (diagnose/ownership.py) and the summary (diagnose/summary.py).          *)
(*                                                                         *)
(* The graph itself is external: super-steps in which nodes run side by    *)
(* side, are handed the merged state when they start, and have their       *)
(* writes merged when all of them have ended.  The report is a function of *)
(* the callback's buffer and is examined after every event.                *)
(*                                                                         *)
(* Abstractions.  A value is a small number and its own content hash; a    *)
(* channel version counts the writes to the key.  A key is framework       *)
(* state, ephemera or an append-only candidate by constant, not by its     *)
(* spelling.  Token estimates and costs are left out: an event's rework    *)
(* tokens are 0, as they are when no estimates are given.                  *)
(***************************************************************************)
EXTENDS Integers, FiniteSets, SequencesExt

CONSTANTS
  Nodes, Keys, None,
  FrameworkKeys, EphemeraKeys, AppendOnlyNames,  \* which of the keys these are
  Overrides,            \* the --track and --ignore lists
  MinTicks, MinReads,   \* _confidence_from_coverage's bounds (10 and 10 in the code)
  Values, Steps,        \* bounds: what a node may write; the super-steps
  MaxRuns, MaxOddities  \* bounds: node runs; what the callback cannot follow

\* What an instance has to satisfy.
DiagnoseAssumption ==
  /\ FrameworkKeys \subseteq Keys /\ EphemeraKeys \subseteq Keys
  /\ AppendOnlyNames \subseteq Keys
  /\ Overrides \subseteq [track : SUBSET Keys, ignore : SUBSET Keys]
  /\ MinTicks \in Nat /\ MinReads \in Nat /\ MaxRuns \in Nat /\ MaxOddities \in Nat
  /\ Values \subseteq Nat \ {0} /\ Steps \subseteq Nat /\ 0 \in Steps

Unknown == "unknown"
DEFAULT_NODE_NAME == Unknown

VARIABLES
  channels,      \* the graph: merged state, None for an absent key
  stamps,        \* the graph: channel versions
  step,          \* the graph: the super-step
  running,       \* the graph: runs that have started and not ended
  merging,       \* the graph: what the step's nodes have written so far
  invocation,    \* the graph: how often it was invoked with this callback
  buffer,        \* DiagnoseCallback._buffer
  last_step,     \* _last_step_by_ns
  broken, subgraph,  \* _monotonicity_broken, _subgraph_observed
  overlay,       \* _channel_versions
  checkpointer,  \* a DiagnoseCheckpointer is attached
  overrides,
  authors,       \* history: who really wrote each key
  hidden,        \* history: a write the callback was not shown
  oddities       \* bound's counter

diagnoseVars == <<channels, stamps, step, running, merging, invocation, buffer,
                  last_step, broken, subgraph, overlay, checkpointer, overrides, authors,
                  hidden, oddities>>

Initial == {[k \in Keys |-> v] : v \in {None, 1}}

DiagnoseInit ==
  /\ channels \in Initial
  /\ stamps = [k \in Keys |-> 1]
  /\ step = 0 /\ running = {} /\ merging = [k \in Keys |-> None]
  /\ invocation = 1 /\ buffer = <<>>
  /\ last_step = <<>>
  /\ broken = FALSE /\ subgraph = FALSE
  /\ overlay = [k \in Keys |-> None]
  /\ checkpointer \in BOOLEAN
  /\ overrides \in Overrides
  /\ authors = [k \in Keys |-> {}] /\ hidden = FALSE
  /\ oddities = IF checkpointer THEN MaxOddities ELSE 0

-----------------------------------------------------------------------------
(* The callback.                                                           *)

\* _snapshot_state: the key's version is the channel's when one is known.
Snapshot(state) ==
  [k \in {j \in Keys : state[j] # None} |->
     [version |-> IF overlay[k] = None THEN <<"hash", state[k]>> ELSE <<"stamp", overlay[k]>>,
      hash    |-> state[k]]]

NodeEvent(type, node, tick, run, state) ==
  [type |-> type, node |-> node, tick |-> tick, run |-> run, seen |-> Snapshot(state),
   signal |-> None]

VerdictSignal(signal) ==
  [type |-> "verdict_signal", node |-> None, tick |-> -1, run |-> None, seen |-> <<>>,
   signal |-> signal]

\* LangGraph's run_id of the node in this step.
RunOf(n) == <<n, invocation, step>>

\* langgraph_checkpoint_ns: "<node>:<uuid>", and below a sub-graph
\* "sub:<uuid>|<node>:<uuid>"; the uuid is the task's.
Namespace(n, in_subgraph) == <<in_subgraph, RunOf(n)>>
_is_subgraph_namespace(ns) == ns[1]

Regresses(ns) == ns \in DOMAIN last_step /\ step < last_step[ns]

\* _track_namespace_step: each signal is given once.
Signals(ns) ==
  (IF _is_subgraph_namespace(ns) /\ ~subgraph THEN <<VerdictSignal("subgraph_observed")>>
   ELSE <<>>)
    \o (IF Regresses(ns) /\ ~broken THEN <<VerdictSignal("unsupported_execution_model")>>
        ELSE <<>>)

_track_namespace_step(ns) ==
  /\ last_step' = [m \in DOMAIN last_step \cup {ns} |->
                     IF m # ns THEN last_step[m]
                     ELSE IF m \in DOMAIN last_step /\ last_step[m] > step THEN last_step[m]
                     ELSE step]
  /\ broken' = (broken \/ Regresses(ns))
  /\ subgraph' = (subgraph \/ _is_subgraph_namespace(ns))

Starts == {i \in DOMAIN buffer : buffer[i].type = "node_start"}
Ends   == {i \in DOMAIN buffer : buffer[i].type = "node_end"}

HasRun(n) == \E i \in Starts : buffer[i].run = RunOf(n)

\* Bound: how much of what the callback cannot follow happens in one run; all of
\* it is independent of the channel versions and is left out with a checkpointer.
Odd(amount) == oddities' = oddities + amount /\ oddities' <= MaxOddities

\* on_chain_start of a node the metadata names.
on_chain_start(n, in_subgraph) ==
  LET ns == Namespace(n, in_subgraph) IN
  /\ Cardinality(Starts) < MaxRuns /\ ~HasRun(n)
  /\ running' = running \cup {RunOf(n)}
  /\ buffer' = buffer \o Signals(ns)
                 \o <<NodeEvent("node_start", n, step, RunOf(n), channels)>>
  /\ _track_namespace_step(ns)
  /\ Odd(IF in_subgraph THEN 1 ELSE 0)
  /\ UNCHANGED <<channels, stamps, step, merging, invocation, overlay, checkpointer,
                 overrides, authors, hidden>>

\* ... and of one it does not: the node is unknown, the step may be missing and
\* is not tracked.  (The warning it also records is read by nobody.)
UnlabelledStart(n, tick) ==
  /\ Cardinality(Starts) < MaxRuns /\ ~HasRun(n)
  /\ running' = running \cup {RunOf(n)}
  /\ buffer' = Append(buffer, NodeEvent("node_start", DEFAULT_NODE_NAME, tick,
                                        RunOf(n), channels))
  /\ Odd(1)
  /\ UNCHANGED <<channels, stamps, step, merging, invocation, last_step, broken, subgraph,
                 overlay, checkpointer, overrides, authors, hidden>>

\* attach: the graph turns out to be a remote one.
attach ==
  /\ buffer = <<>>
  /\ buffer' = <<VerdictSignal("remote_graph_attached")>>
  /\ Odd(1)
  /\ UNCHANGED <<channels, stamps, step, running, merging, invocation, last_step, broken,
                 subgraph, overlay, checkpointer, overrides, authors, hidden>>

\* _resolve_end_attribution: the start of the same run.
StartOf(run) == SelectSeq(buffer, LAMBDA e : e.type = "node_start" /\ e.run = run)[1]

\* on_chain_end: a node returns a dict of its writes, or something else the
\* runtime understands and the callback does not.
on_chain_end(r, outputs, dict) ==
  LET start == StartOf(r)
      wrote == {k \in Keys : outputs[k] # None} IN
  /\ r \in running
  /\ running' = running \ {r}
  /\ buffer' = Append(buffer, NodeEvent("node_end", start.node, start.tick, r,
                                        IF dict THEN outputs ELSE [k \in Keys |-> None]))
  /\ merging' = [k \in Keys |-> IF k \in wrote THEN outputs[k] ELSE merging[k]]
  /\ authors' = [k \in Keys |-> IF k \in wrote THEN authors[k] \cup {r[1]} ELSE authors[k]]
  /\ hidden' = (hidden \/ ~dict)
  /\ Odd(IF dict THEN 0 ELSE 1)
  /\ UNCHANGED <<channels, stamps, step, invocation, last_step, broken, subgraph,
                 overlay, checkpointer, overrides>>

\* A node raises: the callback has no handler for it.
NodeRaises(r) ==
  /\ r \in running
  /\ Odd(1)
  /\ running' = running \ {r}
  /\ UNCHANGED <<channels, stamps, step, merging, invocation, buffer, last_step, broken,
                 subgraph, overlay, checkpointer, overrides, authors, hidden>>

\* The step ends and its writes are merged.
SuperStepOver ==
  /\ running = {} /\ step + 1 \in Steps
  /\ \E n \in Nodes : HasRun(n)
  /\ step' = step + 1
  /\ channels' = [k \in Keys |-> IF merging[k] = None THEN channels[k] ELSE merging[k]]
  /\ stamps' = [k \in Keys |-> IF merging[k] = None THEN stamps[k] ELSE stamps[k] + 1]
  /\ merging' = [k \in Keys |-> None]
  /\ UNCHANGED <<running, invocation, buffer, last_step, broken, subgraph, overlay,
                 checkpointer, overrides, authors, hidden, oddities>>

\* DiagnoseCheckpointer.put: some time after the step, the runtime saves the
\* checkpoint and the callback learns the channels' versions.
_ingest_channel_versions ==
  /\ checkpointer /\ overlay # stamps
  /\ overlay' = stamps
  /\ UNCHANGED <<channels, stamps, step, running, merging, invocation, buffer,
                 last_step, broken, subgraph, checkpointer, overrides, authors, hidden, oddities>>

\* The graph is invoked once more with the same callback.
InvokeAgain ==
  /\ running = {} /\ invocation = 1 /\ Starts # {}
  /\ invocation' = 2
  /\ Odd(1)
  /\ step' = 0
  /\ merging' = [k \in Keys |-> None]
  /\ UNCHANGED <<channels, stamps, running, buffer, last_step, broken, subgraph,
                 overlay, checkpointer, overrides, authors, hidden>>

-----------------------------------------------------------------------------
(* The classifier.                                                         *)

\* _resolve_key_index: the keys some event mentions.
observed == UNION {DOMAIN buffer[i].seen : i \in Starts \cup Ends}

\* _partition_keys: a key on both lists is tracked.
tracked ==
  {k \in observed : \/ k \in overrides.track
                    \/ k \notin overrides.ignore \cup FrameworkKeys \cup EphemeraKeys}

\* _is_monotonic_distinct over _value_hash_timeline: repeated values in a row
\* are one; a value that comes back is a rewrite.
Timeline(k) ==
  LET ends == SelectSeq(buffer, LAMBDA e : e.type = "node_end" /\ k \in DOMAIN e.seen) IN
  [i \in DOMAIN ends |-> ends[i].seen[k].hash]

_is_monotonic_distinct(hashes) ==
  \A i, j \in DOMAIN hashes :
    i < j /\ hashes[i] = hashes[j] => \A m \in i .. j : hashes[m] = hashes[i]

append_only ==
  {k \in tracked \cap AppendOnlyNames : Timeline(k) # <<>> /\ _is_monotonic_distinct(Timeline(k))}

\* _coverage and _confidence_from_coverage.
Mentions(i) == DOMAIN buffer[i].seen \cap tracked # {}
tick_count  == Cardinality({buffer[i].tick : i \in Starts \cup Ends} \ {-1})
read_count  == Cardinality({i \in Starts : Mentions(i)})
write_count == Cardinality({i \in Ends : Mentions(i)})

sufficient == tick_count >= MinTicks /\ read_count >= MinReads /\ write_count > 0

_writers_by_key(k) == {buffer[i].node : i \in {j \in Ends : k \in DOMAIN buffer[j].seen}}

multi_writer_keys  == {k \in tracked : Cardinality(_writers_by_key(k)) >= 2}
single_writer_keys == {k \in tracked : Cardinality(_writers_by_key(k)) = 1}

\* Some tick in which every writer of the key wrote it.
WrittenTogether(k) ==
  \E t \in {buffer[i].tick : i \in Ends} :
    \A n \in _writers_by_key(k) :
      \E i \in Ends : buffer[i].node = n /\ buffer[i].tick = t /\ k \in DOMAIN buffer[i].seen

_looks_like_parallel_branch ==
  /\ \A k \in multi_writer_keys : WrittenTogether(k)
  /\ \E i \in Starts : Cardinality(DOMAIN buffer[i].seen \cap multi_writer_keys) >= 2

_first_unsupported_execution_signal ==
  \E i \in DOMAIN buffer : buffer[i].type = "verdict_signal"

_pick_bucket ==
  CASE multi_writer_keys = {} -> "single_writer"
    [] multi_writer_keys # {} /\ single_writer_keys # {} -> "mixed"
    [] OTHER -> IF _looks_like_parallel_branch THEN "parallel_branch" ELSE "shared_artifact"

\* It never finds anything: _pick_bucket has looked at the same writers.
_enforce_single_writer_consistency(chosen) ==
  IF chosen = "single_writer" /\ multi_writer_keys # {} THEN "mixed" ELSE chosen

\* classify
bucket ==
  IF _first_unsupported_execution_signal \/ ~sufficient THEN "insufficient"
  ELSE _enforce_single_writer_consistency(_pick_bucket)

-----------------------------------------------------------------------------
(* The detection.                                                          *)

ByTick(s) == SortSeq(s, LAMBDA x, y : x.tick < y.tick \/ (x.tick = y.tick /\ x.at < y.at))

\* _collect_reads and _collect_writes: the events of the key, by tick.
Observations(type, k) ==
  LET events == SelectSeq(buffer, LAMBDA e : e.type = type /\ k \in DOMAIN e.seen) IN
  ByTick([i \in DOMAIN events |->
    [node |-> events[i].node, tick |-> events[i].tick, version |-> events[i].seen[k].version,
     hash |-> events[i].seen[k].hash, at |-> i, run |-> events[i].run]])

_collect_reads(k)  == Observations("node_start", k)
_collect_writes(k) == Observations("node_end", k)

_and_clause_satisfied(earlier, later) ==
  earlier.version # later.version /\ earlier.hash # later.hash

\* Mutant: a gap of one tick is enough.
_is_sequential_staleness_OneTick(writes, later_tick) ==
  LET ticks == {t \in {writes[i].tick : i \in DOMAIN writes} : t <= later_tick} IN
  \E prior \in ticks :
    /\ Cardinality({t \in ticks : t > prior}) = 1
    /\ later_tick - prior >= 1

_is_sequential_staleness(writes, later_tick) ==
  LET ticks == {t \in {writes[i].tick : i \in DOMAIN writes} : t <= later_tick} IN
  \E prior \in ticks :
    /\ Cardinality({t \in ticks : t > prior}) = 1
    /\ later_tick - prior >= 2

_is_cold_start(writes, later_tick) == \A i \in DOMAIN writes : writes[i].tick > later_tick

Kind(writes, later_tick) ==
  IF _is_sequential_staleness(writes, later_tick) THEN "sequential"
  ELSE IF _is_cold_start(writes, later_tick) THEN "cold_start"
  ELSE "plain"

\* _canonical_writer: of the last write up to the later read's tick.
_canonical_writer(writes, later_tick) ==
  LET candidates == SelectSeq(writes, LAMBDA w : w.tick <= later_tick) IN
  IF candidates = <<>> THEN None ELSE Last(candidates).node

_ordered_pairs(reads) ==
  {<<reads[i], reads[j]>> : <<i, j>> \in {<<m, n>> \in (DOMAIN reads) \X (DOMAIN reads) : m < n}}

_build_event(k, writes, pair) ==
  [key |-> k, earlier |-> pair[1], later |-> pair[2],
   kind |-> Kind(writes, pair[2].tick), canonical |-> _canonical_writer(writes, pair[2].tick)]

\* _classify_pairs_for_artifact: every pair that diverges.
Divergent(k) ==
  LET writes == _collect_writes(k) IN
  {_build_event(k, writes, p) :
     p \in {q \in _ordered_pairs(_collect_reads(k)) : _and_clause_satisfied(q[1], q[2])}}

\* detect: nothing without a verdict, and no append-only key.
walk == IF bucket = "insufficient" THEN {} ELSE UNION {Divergent(k) : k \in tracked \ append_only}

headline(strict) == {e \in walk : e.kind = "plain" \/ (strict /\ e.kind = "sequential")}

excluded(strict) == walk \ headline(strict)

\* _build_heatmap: the later reads of the key's events, and all its reads.
divergent_reads(events, k) == Cardinality({e.later : e \in {f \in events : f.key = k}})

heatmap(events) ==
  {[key |-> k, divergent |-> divergent_reads(events, k), total |-> Len(_collect_reads(k))] :
     k \in {e.key : e \in events}}

\* _build_reader_pair_matrix.
reader_pair_matrix(events) ==
  [p \in {<<e.earlier.node, e.later.node>> : e \in events} |->
     Cardinality({e \in events : <<e.earlier.node, e.later.node>> = p})]

\* _pick_top_event: of the hottest key, the event that is first by tick.
_pick_top_event(events) ==
  LET hot  == {e \in events : \A f \in events :
                 divergent_reads(events, f.key) <= divergent_reads(events, e.key)}
      soon == {e \in hot : \A f \in hot : e.later.tick <= f.later.tick} IN
  IF events = {} THEN None
  ELSE CHOOSE e \in soon : \A f \in soon : e.earlier.tick <= f.earlier.tick

agent_pain_count(events) == Cardinality({e.later.node : e \in events})

\* terminal_summary: which of its three texts.
terminal_summary ==
  IF bucket = "insufficient" THEN "insufficient"
  ELSE IF headline(FALSE) # {} THEN "divergence" ELSE "zero events"

\* compute_ownership_map: who wrote and who was handed each tracked key.
ownership(k) ==
  [writers |-> [n \in _writers_by_key(k) |->
                  Cardinality({i \in Ends : buffer[i].node = n /\ k \in DOMAIN buffer[i].seen})],
   readers |-> [n \in {buffer[i].node : i \in {j \in Starts : k \in DOMAIN buffer[j].seen}} |->
                  Cardinality({i \in Starts : buffer[i].node = n /\ k \in DOMAIN buffer[i].seen})]]

-----------------------------------------------------------------------------

Outputs == {[k \in Keys |-> None]} \cup
           {[k \in Keys |-> IF k = j THEN v ELSE None] : j \in Keys, v \in Values}

DiagnoseNext ==
  \/ \E n \in Nodes : \E in_subgraph \in BOOLEAN : on_chain_start(n, in_subgraph)
  \/ \E n \in Nodes : \E t \in {step, -1} : UnlabelledStart(n, t)
  \/ \E r \in running : NodeRaises(r) \/ \E o \in Outputs, d \in BOOLEAN : on_chain_end(r, o, d)
  \/ attach \/ SuperStepOver \/ _ingest_channel_versions \/ InvokeAgain

DiagnoseSpec == DiagnoseInit /\ [][DiagnoseNext]_diagnoseVars

-----------------------------------------------------------------------------
(* Properties.                                                             *)

AllLabelled == \A i \in Starts : buffer[i].node # DEFAULT_NODE_NAME

\* The pairs of nodes that the run handed different values of a key, once it
\* was written: unless it was written in several steps, and not in both of the
\* last two.
HandedDifferent(k) ==
  LET wrote == {buffer[i].run[3] : i \in {j \in Ends : k \in DOMAIN buffer[j].seen}} IN
  {<<k, buffer[p[1]].run, buffer[p[2]].run>> : p \in
     {<<a, b>> \in Starts \X Starts :
        LET now == buffer[b].run[3] IN
        /\ k \in DOMAIN buffer[a].seen \cap DOMAIN buffer[b].seen
        /\ buffer[a].run[3] < now
        /\ buffer[a].seen[k].hash # buffer[b].seen[k].hash
        /\ \/ Cardinality({s \in wrote : s <= now}) = 1
           \/ {now - 1, now} \subseteq wrote}}

\* The detection finds what the run did, in whatever order the callbacks of a
\* step arrived: no event without two nodes handed different values, and when
\* versions are hashes none is missed.  (A channel version that arrives late
\* may hide an event, and never makes one.)
HeadlineMatchesRun ==
  AllLabelled /\ invocation = 1 /\ bucket # "insufficient" =>
    LET reported == {<<e.key, e.earlier.run, e.later.run>> : e \in headline(FALSE)}
        expected == UNION {HandedDifferent(k) : k \in tracked \ append_only} IN
    /\ reported \subseteq expected
    /\ ~checkpointer => reported = expected

\* A single-writer verdict is right: no tracked key was written by two nodes,
\* unless the callback was not shown a write or did not know a node.
SingleWriterMeansOne ==
  bucket = "single_writer" /\ AllLabelled /\ ~hidden =>
    \A k \in tracked : Cardinality(authors[k]) <= 1

\* --strict loses no event and makes none: what it adds to the headline is the
\* sequential staleness that was excluded, and nothing else.
StrictOnlyPromotes ==
  LET plain == headline(FALSE)  strictly == headline(TRUE) IN
  /\ plain \subseteq strictly
  /\ strictly \ plain = {e \in excluded(FALSE) : e.kind = "sequential"}

\* The parts of the report agree: a key's first read is never divergent, the
\* matrix has a row for every pair and no fewer columns than there are agents
\* in pain, an event names a writer of its key, and the top event is of the
\* hottest row.
ReportAddsUp ==
  \A strict \in BOOLEAN :
    LET events == headline(strict)
        heat   == heatmap(events)
        top    == _pick_top_event(events) IN
    /\ \A row \in heat : 0 < row.divergent /\ row.divergent < row.total
    /\ Cardinality({p[2] : p \in DOMAIN reader_pair_matrix(events)}) = agent_pain_count(events)
    /\ \A e \in events : e.canonical \in DOMAIN ownership(e.key).writers
    /\ events # {} => \E row \in heat : /\ row.key = top.key
                                       /\ \A r \in heat : r.divergent <= row.divergent

\* callback.py: "On any monotonicity break we record a verdict signal so the
\* classifier can downgrade": once a node has started in a step below one that
\* was seen, there is no verdict.
RegressedRunHasNoVerdict ==
  (\E i, j \in Starts : i < j /\ buffer[j].tick < buffer[i].tick /\ AllLabelled)
    => terminal_summary = "insufficient"

=============================================================================
