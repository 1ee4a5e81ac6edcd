------------------------------ MODULE Normalize ------------------------------
(***************************************************************************)
(* SymbolStats.normalize and finalize_cum_freq (entropy/frequency.py), and *)
(* their port scale_freq (rust/stats.rs): raw counts are scaled to sum to  *)
(* RANS_M, the rounding drift is handed out round-robin, and the intervals *)
(* of the symbols and the decode table are laid out.  A behaviour is one   *)
(* call; an action is one turn of a loop.                                  *)
(***************************************************************************)
EXTENDS Integers, Sequences, FiniteSets

CONSTANTS
  Alphabet,   \* alphabet_size: symbols are 0 .. Alphabet - 1
  RANS_M,     \* what the frequencies must sum to: 65536
  RawCounts,  \* the count arrays a call may get
  Totals(_)   \* the total_symbols that may come with one

Symbols == 0 .. (Alphabet - 1)

ASSUME NormalizeAssumption ==
  /\ Alphabet \in Nat /\ RANS_M \in Nat /\ RANS_M >= 2
  /\ RawCounts \subseteq [Symbols -> Nat]
  /\ \A r \in RawCounts : /\ Totals(r) \subseteq Nat
                          /\ (\E s \in Symbols : r[s] > 0) \/ Totals(r) = {0}

VARIABLES
  raw, total,    \* raw_counts and total_symbols
  phase,         \* "start", "scale", "fixup", "layout", "done", "error"
  freq,          \* the frequencies
  current_sum,   \* their running sum in the scaling loop
  diff, cursor,  \* the drift left, and the round-robin cursor % distinct
  n,             \* the loop counter of the scaling and layout loops
  cum,           \* cum_freq
  end,           \* total_freq
  slots          \* slot_to_symbol

vars == <<raw, total, phase, freq, current_sum, diff, cursor, n, cum, end, slots>>

Init ==
  /\ raw \in RawCounts /\ total \in Totals(raw)
  /\ phase = "start"
  /\ freq = [s \in Symbols |-> 0]
  /\ current_sum = 0 /\ diff = 0 /\ cursor = 0 /\ n = 0
  /\ cum = [s \in Symbols |-> 0] /\ end = 0
  /\ slots = <<>>

Active == {s \in Symbols : raw[s] > 0}
distinct == Cardinality(Active)
\* The position of an active symbol in the ascending list active.
Rank(s) == Cardinality({r \in Active : r < s})

\* No symbols: the table stays empty.
ReturnEmpty ==
  /\ phase = "start" /\ total = 0
  /\ phase' = "done"
  /\ UNCHANGED <<raw, total, freq, current_sum, diff, cursor, n, cum, end, slots>>

\* More symbols than slots: ValueError.
Reject ==
  /\ phase = "start" /\ total # 0 /\ distinct > RANS_M
  /\ phase' = "error"
  /\ UNCHANGED <<raw, total, freq, current_sum, diff, cursor, n, cum, end, slots>>

Start ==
  /\ phase = "start" /\ total # 0 /\ distinct <= RANS_M
  /\ phase' = "scale"
  /\ UNCHANGED <<raw, total, freq, current_sum, diff, cursor, n, cum, end, slots>>

Scaled(c) ==
  LET f == (c * RANS_M) \div total
  IN  IF f = 0 THEN 1 ELSE IF f > RANS_M - 1 THEN RANS_M - 1 ELSE f

ScaleOne ==
  /\ phase = "scale" /\ n < distinct
  /\ \E s \in Active :
        /\ Rank(s) = n
        /\ freq' = [freq EXCEPT ![s] = Scaled(raw[s])]
        /\ current_sum' = current_sum + Scaled(raw[s])
  /\ n' = n + 1
  /\ UNCHANGED <<raw, total, phase, diff, cursor, cum, end, slots>>

EndScale ==
  /\ phase = "scale" /\ n = distinct
  /\ phase' = "fixup"
  /\ diff' = RANS_M - current_sum
  /\ UNCHANGED <<raw, total, freq, current_sum, cursor, n, cum, end, slots>>

true_ceiling == RANS_M - (distinct - 1)

\* Mutant: an even share as the ceiling.
CanRaise_EvenShare(s) == freq[s] < RANS_M \div distinct
CanRaise(s) == freq[s] < true_ceiling

\* Mutant: takes the last slot of a symbol away.
CanLower_ToZero(s) == freq[s] > 0
CanLower(s) == freq[s] > 1

\* One turn of the round-robin loop: the symbol under the cursor gains a slot,
\* loses one, or is passed over.
FixupTurn ==
  /\ phase = "fixup" /\ diff # 0
  /\ \E s \in Active :
        /\ Rank(s) = cursor
        /\ \/ /\ diff > 0 /\ CanRaise(s)
              /\ freq' = [freq EXCEPT ![s] = @ + 1] /\ diff' = diff - 1
           \/ /\ diff < 0 /\ CanLower(s)
              /\ freq' = [freq EXCEPT ![s] = @ - 1] /\ diff' = diff + 1
           \/ /\ (diff > 0 => ~CanRaise(s)) /\ (diff < 0 => ~CanLower(s))
              /\ UNCHANGED <<freq, diff>>
  /\ cursor' = (cursor + 1) % distinct
  /\ UNCHANGED <<raw, total, phase, current_sum, n, cum, end, slots>>

\* Mutant: stops once there is nothing to hand out.
EndFixup_KeepsExcess ==
  /\ phase = "fixup" /\ diff <= 0
  /\ phase' = "layout"
  /\ n' = 0
  /\ UNCHANGED <<raw, total, freq, current_sum, diff, cursor, cum, end, slots>>

EndFixup ==
  /\ phase = "fixup" /\ diff = 0
  /\ phase' = "layout"
  /\ n' = 0
  /\ UNCHANGED <<raw, total, freq, current_sum, diff, cursor, cum, end, slots>>

\* finalize_cum_freq: the encoder's cum_freq and the decoder's slot_to_symbol,
\* which the two sides build in loops of their own.
LayoutOne ==
  /\ phase = "layout" /\ n < distinct
  /\ \E s \in Active :
        /\ Rank(s) = n
        /\ cum' = [cum EXCEPT ![s] = end]
        /\ end' = end + freq[s]
        /\ slots' = slots \o [p \in 1 .. freq[s] |-> s]
  /\ n' = n + 1
  /\ UNCHANGED <<raw, total, phase, freq, current_sum, diff, cursor>>

EndLayout ==
  /\ phase = "layout" /\ n = distinct
  /\ phase' = "done"
  /\ UNCHANGED <<raw, total, freq, current_sum, diff, cursor, n, cum, end, slots>>

Next == \/ ReturnEmpty \/ Reject \/ Start \/ ScaleOne \/ EndScale
        \/ FixupTurn \/ EndFixup \/ LayoutOne \/ EndLayout

Spec == Init /\ [][Next]_vars
FairSpec == Spec /\ WF_vars(Next)

-----------------------------------------------------------------------------
TypeOK ==
  /\ raw \in RawCounts /\ total \in Totals(raw)
  /\ phase \in {"start", "scale", "fixup", "layout", "done", "error"}
  /\ freq \in [Symbols -> 0 .. RANS_M]
  /\ current_sum \in Nat /\ diff \in Int /\ cursor \in Nat
  /\ n \in 0 .. distinct
  /\ cum \in [Symbols -> Nat] /\ end \in Nat
  /\ slots \in Seq(Symbols)

(***************************************************************************)
(* Once scaled, a symbol has a frequency exactly if it was counted, at     *)
(* every turn of the fixup: a symbol the record holds cannot be encoded    *)
(* with frequency 0, and no other symbol may take slots.                   *)
(***************************************************************************)
Represented ==
  phase \in {"fixup", "layout", "done"} /\ total # 0 =>
    \A s \in Symbols : freq[s] > 0 <=> raw[s] > 0

(***************************************************************************)
(* The finished table is what the rANS coder assumes (TablesAssumption of  *)
(* Rans): the intervals fit below RANS_M, are disjoint, and leave no gap;  *)
(* and the decoder's slot table maps a slot to the symbol whose interval   *)
(* the encoder placed there.                                               *)
(***************************************************************************)
Tiles ==
  phase = "done" /\ Active # {} /\ total # 0 =>
    /\ \A s \in Active : cum[s] + freq[s] <= RANS_M
    /\ \A r, s \in Active :
         r # s => cum[r] + freq[r] <= cum[s] \/ cum[s] + freq[s] <= cum[r]
    /\ Len(slots) = RANS_M
    /\ \A slot \in 0 .. (RANS_M - 1) :
         LET s == slots[slot + 1] IN cum[s] <= slot /\ slot < cum[s] + freq[s]

(***************************************************************************)
(* The round-robin loop ends: some symbol can always take or give a slot.  *)
(***************************************************************************)
Terminates == <>(phase \in {"done", "error"})
=============================================================================
