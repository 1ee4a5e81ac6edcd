---------------------------- MODULE EntropyStack ----------------------------
(***************************************************************************)
(* What the modes of the codec rely on: the entropy coder is a stack.  The *)
(* encoder pushes symbols, each under a frequency table; the decoder, if   *)
(* it presents for every pop the table the symbol was pushed under, gets   *)
(* the symbols back in the opposite order, and ends with nothing left.     *)
(***************************************************************************)
EXTENDS Naturals, Sequences

CONSTANTS Tables, Symbols

VARIABLES
  stack,   \* what has been pushed and not popped: [table, sym] records
  popped,  \* the symbols the decoder has produced
  reading  \* has the encoder finished?

vars == <<stack, popped, reading>>

Init == stack = <<>> /\ popped = <<>> /\ reading = FALSE

Push ==
  /\ ~reading
  /\ \E t \in Tables, s \in Symbols : stack' = Append(stack, [table |-> t, sym |-> s])
  /\ UNCHANGED <<popped, reading>>

Finish == ~reading /\ reading' = TRUE /\ UNCHANGED <<stack, popped>>

Pop ==
  /\ reading /\ stack # <<>>
  /\ popped' = Append(popped, stack[Len(stack)].sym)
  /\ stack' = SubSeq(stack, 1, Len(stack) - 1)
  /\ UNCHANGED reading

Next == Push \/ Finish \/ Pop
Spec == Init /\ [][Next]_vars
=============================================================================
