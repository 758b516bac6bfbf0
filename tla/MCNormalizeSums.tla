--------------------------- MODULE MCNormalizeSums ---------------------------
(***************************************************************************)
(* Instances of NormalizeSums for TLC.                                     *)
(***************************************************************************)
EXTENDS NormalizeSums

CONSTANTS a, b

\* a alone, a and b in one metric in both orders, and a metric without points
MCLayouts == {<<>>, <<a>>, <<a, b>>, <<b, a>>}
\* a counts and restarts; b, whose source sets start times, stays at zero
MCTotals == [s \in {a, b} |-> IF s = a THEN 2 ELSE 0]
\* every stream is always normalised, or none
MCRawSets == {{}, {a, b}}
=============================================================================
