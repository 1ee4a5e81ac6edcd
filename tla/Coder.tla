-------------------------------- MODULE Coder --------------------------------
(***************************************************************************)
(* What the modes of codec/encoder.py and codec/decoder.py share: counting *)
(* symbols, capping an alphabet, splitting LZ tokens into events, and the  *)
(* entropy coder, which they see as the stack Rans is shown to be.  A      *)
(* table is the function from its symbols to their frequencies; an entry   *)
(* of the stack is a symbol and the table it was encoded under.            *)
(***************************************************************************)
EXTENDS Integers, Sequences, FiniteSets

CONSTANTS
  MatchFlag,   \* the id that announces a match
  RANS_M,      \* a table has at most this many symbols
  Freq(_, _)   \* SymbolStats.normalize: the table of raw counts and a total

ASSUME CoderAssumption == MatchFlag \in Nat /\ RANS_M \in Nat \ {0}

Active(table) == {s \in DOMAIN table : table[s] > 0}

Top(stack) == stack[Len(stack)]
Below(stack) == SubSeq(stack, 1, Len(stack) - 1)

\* decode_symbol: under the table the symbol was encoded with, it is that
\* symbol; under any other, or on an empty stack, any symbol of that table.
Popped(stack, table) ==
  IF stack # <<>> /\ Top(stack).table = table THEN {Top(stack).sym} ELSE Active(table)

Call(s, table) == [sym |-> s, table |-> table]

\* The calls the coder accepts: a symbol with a frequency, a table that fits.
Encodable(stack) ==
  \A n \in DOMAIN stack :
    /\ stack[n].sym \in Active(stack[n].table)
    /\ Cardinality(Active(stack[n].table)) <= RANS_M

ValuesOf(seq) == {seq[n] : n \in DOMAIN seq}
CountOf(seq, s) == Cardinality({n \in DOMAIN seq : seq[n] = s})
Tally(seq, S) == [s \in S |-> CountOf(seq, s)]
Table(seq, S) == Freq(Tally(seq, S), Len(seq))

\* The symbols kept when an alphabet is capped: the most frequent, of equals
\* the lower id.
Capped(seq, cap) ==
  LET all == ValuesOf(seq)
      Before(a, b) == \/ CountOf(seq, a) > CountOf(seq, b)
                      \/ CountOf(seq, a) = CountOf(seq, b) /\ a < b
  IN  IF Cardinality(all) <= cap THEN all
      ELSE CHOOSE kept \in SUBSET all :
             /\ Cardinality(kept) = cap
             /\ \A a \in kept, b \in all \ kept : Before(a, b)

\* The numbers of a set in order, and what seq holds at the indices I.
Ascending(I) ==
  [n \in 1 .. Cardinality(I) |-> CHOOSE i \in I : Cardinality({j \in I : j < i}) = n - 1]
Selected(seq, I) == [n \in 1 .. Cardinality(I) |-> seq[Ascending(I)[n]]]

\* An escape list as list.reverse leaves it.
Reversed(s) == [i \in 1 .. Len(s) |-> s[(Len(s) - i) + 1]]

\* A table goes into the stream as its active symbols, each with freq - 1 in
\* RANS_M_BITS bits, and comes out with 1 added.
Received(table) ==
  [s \in DOMAIN table |-> IF table[s] > 0 THEN ((table[s] - 1) % RANS_M) + 1 ELSE 0]

-----------------------------------------------------------------------------
(***************************************************************************)
(* _split_lz_events: a match is the flag and three values, all within the  *)
(* list; anything else is a literal.                                       *)
(***************************************************************************)
Span(lz, p) == IF lz[p] = MatchFlag /\ p + 3 <= Len(lz) THEN 4 ELSE 1

\* Where the events start.
Positions(lz) ==
  LET from[p \in 1 .. (Len(lz) + 4)] ==
        IF p > Len(lz) THEN <<>> ELSE <<p>> \o from[p + Span(lz, p)]
  IN  from[1]

\* The events of a width, and what lz holds at their starts ps, o further.
Events(lz, ps, width) == {e \in DOMAIN ps : Span(lz, ps[e]) = width}
Values(lz, ps, width, o) == Selected([e \in DOMAIN ps |-> lz[ps[e] + o]], Events(lz, ps, width))

Literals(lz, ps) == Values(lz, ps, 1, 0)
Field(lz, ps, o) == Values(lz, ps, 4, o)
Roles(lz, ps) == [e \in DOMAIN ps |-> IF Span(lz, ps[e]) = 4 THEN 1 ELSE 0]

\* _split_metadata_stats, over the ids below Byte (256).
MetaTables(lz, ps, Byte) ==
  [role |-> Table(Roles(lz, ps), {0, 1}),
   hi |-> Table(Field(lz, ps, 1), 0 .. (Byte - 1)),
   lo |-> Table(Field(lz, ps, 2), 0 .. (Byte - 1)),
   len |-> Table(Field(lz, ps, 3), 0 .. (Byte - 1))]

\* The calls for a match: the decoder wants the role first, so it comes last.
MatchCalls(lz, p, meta) ==
  <<Call(lz[p + 3], meta.len), Call(lz[p + 2], meta.lo),
    Call(lz[p + 1], meta.hi), Call(1, meta.role)>>
=============================================================================
