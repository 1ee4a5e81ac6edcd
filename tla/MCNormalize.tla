----------------------------- MODULE MCNormalize -----------------------------
(***************************************************************************)
(* Small constants for Normalize: five symbols into four slots, so that    *)
(* counts round to zero, one symbol takes everything, the drift has either *)
(* sign and goes round more than once, and there may be as many symbols as *)
(* slots, or one more.  The total is the sum of the counts, or above it    *)
(* (a context table of the PPM-split mode replaces a count by its escape   *)
(* mass and keeps the total).                                              *)
(***************************************************************************)
EXTENDS Normalize, Folds

CONSTANTS CountValues, Excess

MCRawCounts == [Symbols -> CountValues]
SumOf(r) == MapThenFoldSet(+, 0, LAMBDA s : r[s], LAMBDA S : CHOOSE s \in S : TRUE, Symbols)
MCTotals(r) == IF SumOf(r) = 0 THEN {0} ELSE {SumOf(r), SumOf(r) + Excess}
=============================================================================
