------------------------------- MODULE MCRans -------------------------------
(***************************************************************************)
(* Small constants for Rans: tables that sum to 8 over three symbols,      *)
(* words in base 8, and a mask with no room to spare (Width is exactly     *)
(* RANS_L * Word), so that any excursion of the state wraps.               *)
(***************************************************************************)
EXTENDS Rans

MCSymbols == 1 .. 3

TableOf(a, b, c) == [freq |-> <<a, b, c>>, cum |-> <<0, a, a + b>>]

MCTables == {TableOf(8, 0, 0), TableOf(1, 7, 0), TableOf(3, 0, 5), TableOf(1, 2, 5)}
=============================================================================
