----------------------- MODULE MCIncrementalAnalysis -----------------------
(* A source and two headers it includes, one of them from outside.         *)
EXTENDS IncrementalAnalysis

CONSTANTS a, h, stdio

MCIncludes == [f \in Files |-> IF f = a THEN {h, stdio} ELSE {}]

=============================================================================
