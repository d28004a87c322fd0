------------------------- MODULE MCAnalysisPipeline -------------------------
(* Small instances of AnalysisPipeline.                                    *)
EXTENDS AnalysisPipeline, TLC

MCRequests ==
    {[key |-> "workspace", reasons |-> {"reload"}, force |-> TRUE],
     [key |-> "index", reasons |-> {"library"}, force |-> TRUE],
     [key |-> "symbols", reasons |-> {"edit"}, force |-> FALSE]}

(* Nothing reads the history of results back: no guard, no fairness        *)
(* condition and neither liveness property depends on it.                  *)
AllButResults ==
    <<schedulerVars, refreshRunning, threadRunning, forceNext, jobGlobals,
      cancelRequested, worker, history>>

Symmetry == Permutations(Files) \cup Permutations(Workers)

=============================================================================
