------------------------------ MODULE MCTools -------------------------------
(***************************************************************************)
(* A TLC instance of the two tools that run agents themselves, in two      *)
(* parts.  "simulation": three agents over the simulated network.          *)
(* "diagnose": two nodes of a graph under the callback, and the report on  *)
(* them.                                                                   *)
(***************************************************************************)
EXTENDS Simulation

CONSTANTS n1, n2

VARIABLES
  part,
  \* the graph and the callback
  channels, stamps, step, running, merging, invocation, buffer, last_step, broken,
  subgraph, overlay, checkpointer, overrides, authors, hidden, oddities

diagnoseVars == <<channels, stamps, step, running, merging, invocation, buffer, last_step,
                  broken, subgraph, overlay, checkpointer, overrides, authors, hidden, oddities>>
mcVars == <<part, simVars, diagnoseVars>>

Report == INSTANCE Diagnose WITH
  Nodes <- {n1, n2}, Keys <- {"doc", "messages"}, FrameworkKeys <- {}, EphemeraKeys <- {},
  AppendOnlyNames <- {"messages"}, Overrides <- {[track |-> {}, ignore |-> {}]},
  MinTicks <- 2, MinReads <- 2, Values <- {1, 2}, Steps <- {0, 1, 2}, MaxRuns <- 3,
  MaxOddities <- 1

ASSUME ReportAssumption == Report!DiagnoseAssumption

\* The part that is not checked stays in one of its initial states.
AtRest ==
  /\ part # "simulation" => tactic = "lazy"
  /\ part # "diagnose" => channels = [k \in {"doc", "messages"} |-> None] /\ ~checkpointer

MCInit ==
  /\ part \in {"simulation", "diagnose"}
  /\ SimInit /\ Report!DiagnoseInit
  /\ AtRest

MCNext ==
  \/ part = "simulation" /\ SimNext /\ UNCHANGED <<part, diagnoseVars>>
  \/ part = "diagnose" /\ Report!DiagnoseNext /\ UNCHANGED <<part, simVars>>

MCSpec == MCInit /\ [][MCNext]_mcVars

\* The graph's nodes are interchangeable.
NodeSymmetry == Permutations({n1, n2})

\* A report says what the run did: its headline names the pairs of runs that were
\* handed different values, a single-writer verdict is right, --strict adds the
\* excluded sequential staleness and nothing else, and its counts agree (Diagnose:
\* the callback's buffer, detection.py and the report).
ReportIsRight ==
  part = "diagnose" => /\ Report!HeadlineMatchesRun /\ Report!SingleWriterMeansOne
                       /\ Report!StrictOnlyPromotes /\ Report!ReportAddsUp
=============================================================================
