----------------------------- MODULE FullRebuild -----------------------------
(***************************************************************************)
(* The context tables of the PPM modes as the reference has them           *)
(* (codec/encoder.py, codec/decoder.py): the transitions are counted per   *)
(* context, and at each chunk boundary the table of every context with     *)
(* enough of them is built anew from its counts.                           *)
(***************************************************************************)
EXTENDS Naturals

CONSTANTS
  Contexts,                 \* the symbols that may precede another
  Locals,                   \* the symbols that may follow
  MIN_CONTEXT_TRANSITIONS,  \* a context with fewer has no table
  Build(_, _),              \* the table made of a context's counts and total
  MaxChunks                 \* how many chunks a record can have

VARIABLES
  ctx_counts,  \* per context, how often each symbol followed
  ctx_totals,  \* per context, their sum
  tables,      \* ctx_tables: the tables of the current chunk
  chunks       \* how many chunks have begun

vars == <<ctx_counts, ctx_totals, tables, chunks>>

Init ==
  /\ ctx_counts = [c \in Contexts |-> [s \in Locals |-> 0]]
  /\ ctx_totals = [c \in Contexts |-> 0]
  /\ tables = [c \in {} |-> 0]
  /\ chunks = 0

CountTransition(c, s) ==
  /\ ctx_counts' = [ctx_counts EXCEPT ![c][s] = @ + 1]
  /\ ctx_totals' = [ctx_totals EXCEPT ![c] = @ + 1]

Count ==
  /\ \E c \in Contexts, s \in Locals : CountTransition(c, s)
  /\ UNCHANGED <<tables, chunks>>

Eligible == {c \in Contexts : ctx_totals[c] >= MIN_CONTEXT_TRANSITIONS}

BeginChunk ==
  /\ chunks < MaxChunks
  /\ tables' = [c \in Eligible |-> Build(ctx_counts[c], ctx_totals[c])]
  /\ chunks' = chunks + 1
  /\ UNCHANGED <<ctx_counts, ctx_totals>>

Next == Count \/ BeginChunk
Spec == Init /\ [][Next]_vars
=============================================================================
