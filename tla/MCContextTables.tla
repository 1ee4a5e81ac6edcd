--------------------------- MODULE MCContextTables ---------------------------
(***************************************************************************)
(* Small constants for ContextTables: a table is a record of the counts it *)
(* was built from, so that any stale table shows.  Two contexts need two   *)
(* transitions each; the generation counter goes through every value below *)
(* the initial stamp, Wrap - 1.                                            *)
(***************************************************************************)
EXTENDS ContextTables

MCBuild(counts, total) == [counts |-> counts, total |-> total]
=============================================================================
