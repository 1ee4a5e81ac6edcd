------------------------------ MODULE MCTokenLZ ------------------------------
(***************************************************************************)
(* Small constants for TokenLZ.  A distance is split in base 5, matches    *)
(* are of 3 or 4 tokens (4 is the cap), and the window is 7: distances 5   *)
(* and 6 use the high digit, and older positions are out of reach.  The    *)
(* hash of two tokens is their sum modulo 3, so different pairs collide.   *)
(***************************************************************************)
EXTENDS TokenLZ

CONSTANTS InputTokens, MaxInput, DamagedTokens, MaxDamaged

MCSymbols == 0 .. MatchFlag
MCHash(s, t) == (s + t) % 3
MCSlots == 0 .. 2

SeqsUpTo(S, n) == UNION {[1 .. m -> S] : m \in 0 .. n}

MCInputs == SeqsUpTo(InputTokens, MaxInput)
MCDamageable == SeqsUpTo(DamagedTokens, MaxDamaged)
MCDictionaries == {<<>>, <<0, 1, 0, 1>>, <<0, 0, MatchFlag>>}
=============================================================================
