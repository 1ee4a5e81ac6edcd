------------------------------- MODULE MCModes -------------------------------
(***************************************************************************)
(* Small instances of the modes of a stream.  The lists have literals,     *)
(* more of them than a table has symbols, and matches, alone and in a row. *)
(***************************************************************************)
EXTENDS Modes, SequencesExt

CONSTANTS
  StaticItems, AdaptiveItems, PpmItems,   \* the most items of a list
  TrainingLength, RecordLength, RawLength

\* Lists of items: literals, and the given matches.
Lists(matches, from, to) ==
  {FlattenSeq(items) : items \in UNION {[1 .. n -> {<<l>> : l \in 0 .. (MatchFlag - 1)} \cup matches] :
                                          n \in from .. to}}

OneMatch == {<<MatchFlag, 0, 1, 0>>}
TwoMatches == OneMatch \cup {<<MatchFlag, 1, 0, 0>>}

\* Three tokens; for the raw mode 0, ones in the lower bits, and the flag.
TokenLists(n) == [1 .. n -> 0 .. 2]
RawLists == UNION {[1 .. n -> {0, MatchFlag - 1, MatchFlag}] : n \in 0 .. RawLength}
MCTrailers == {<<>>, <<9, 6>>}

MCTrainings ==
  {<<t>> : t \in TokenLists(TrainingLength)} \cup
  {<<SubSeq(t, 1, 2), SubSeq(t, 3, TrainingLength)>> : t \in {u \in TokenLists(TrainingLength) : u[1] = 0}}

MCTheirs(t) ==
  {t, <<Reverse(FlattenSeq(t))>>, <<[n \in 1 .. TrainingLength |-> n % 2]>>}

MCEscapeShare(total) == 1

\* The table of raw counts: at most RANS_M to a symbol, and at least 1.
MCFreq(raw, total) ==
  [s \in DOMAIN raw |->
     IF raw[s] = 0 THEN 0 ELSE IF raw[s] = total THEN RANS_M ELSE ((raw[s] - 1) % RANS_M) + 1]

\* The tables of this Freq are as those of Normalize, which the proofs take
\* of every one of them.
ASSUME MCNormalizes ==
  \A raw \in UNION {[0 .. n -> 0 .. 4] : n \in 0 .. 3} : \A total \in 0 .. 9 :
    Normalizes(raw, total)

MCStaticInputs == Lists(TwoMatches, 1, StaticItems)
MCAdaptiveInputs == Lists(TwoMatches, 1, AdaptiveItems)
MCPpmInputs == Lists(OneMatch, 1, PpmItems)
MCDictInputs == UNION {TokenLists(n) : n \in 0 .. RecordLength}
=============================================================================
