---------------------------- MODULE ContextTables ----------------------------
(***************************************************************************)
(* The context tables of the PPM modes as the Rust core keeps them         *)
(* (struct ContextTables, rust/encode.rs): only the contexts counted since *)
(* the last chunk boundary are rebuilt.  A context is marked by stamping   *)
(* it with the number of the chunk, a 32-bit counter that wraps.           *)
(***************************************************************************)
EXTENDS Naturals

CONSTANTS
  Contexts,                 \* context keys, from 0
  MaxKey,                   \* the key the stamp array was sized for
  Locals, MIN_CONTEXT_TRANSITIONS, Build(_, _), MaxChunks,  \* as in FullRebuild
  Wrap,                     \* 2^32, the size of the generation counter
  MaxCount                  \* bound of the model: transitions per context

\* A context counted never is none; a record of 2^32 tokens in chunks of
\* ADAPTIVE_MIN_CHUNK or more stays far below Wrap chunks.
ASSUME ContextsAssumption ==
  /\ MIN_CONTEXT_TRANSITIONS \in Nat /\ MIN_CONTEXT_TRANSITIONS > 0
  /\ MaxKey \in Nat /\ Contexts \subseteq 0 .. MaxKey
  /\ MaxChunks \in Nat /\ Wrap \in Nat /\ MaxChunks + 2 <= Wrap
  /\ MaxCount \in Nat

VARIABLES
  ctx_counts, ctx_totals,  \* kept by the caller, per context
  tables,      \* what the last advance returned
  chunks,      \* history: how often advance was called
  current,     \* the tables kept: context -> table
  dirty,       \* the contexts marked since the last advance
  stamp,       \* per key, the generation it was marked in
  generation   \* the number of the chunk, modulo Wrap

contextVars == <<ctx_counts, ctx_totals, tables, chunks, current, dirty, stamp, generation>>

ContextInit ==
  /\ ctx_counts = [c \in Contexts |-> [s \in Locals |-> 0]]
  /\ ctx_totals = [c \in Contexts |-> 0]
  /\ tables = [c \in {} |-> 0]
  /\ chunks = 0
  /\ current = [c \in {} |-> 0]
  /\ dirty = {}
  /\ stamp = [key \in 0 .. MaxKey |-> Wrap - 1]
  /\ generation = 0

mark(c) ==
  IF c <= MaxKey /\ stamp[c] # generation
    THEN /\ stamp' = [stamp EXCEPT ![c] = generation]
         /\ dirty' = dirty \cup {c}
    ELSE UNCHANGED <<stamp, dirty>>

\* The callers' body of the counting loop: a transition from c to s.
Count ==
  /\ \E c \in Contexts, s \in Locals :
        /\ ctx_totals[c] < MaxCount
        /\ ctx_counts' = [ctx_counts EXCEPT ![c][s] = @ + 1]
        /\ ctx_totals' = [ctx_totals EXCEPT ![c] = @ + 1]
        /\ mark(c)
  /\ UNCHANGED <<tables, chunks, current, generation>>

\* Mutant: a context is rebuilt only when it first has enough transitions.
Rebuilt_OnlyNew ==
  {c \in dirty : ctx_totals[c] >= MIN_CONTEXT_TRANSITIONS /\ c \notin DOMAIN current}

\* The contexts advance rebuilds.
Rebuilt == {c \in dirty : ctx_totals[c] >= MIN_CONTEXT_TRANSITIONS}

\* Mutant: the counter is not advanced.
NextGeneration_Stuck == generation
NextGeneration == (generation + 1) % Wrap

advance ==
  /\ chunks < MaxChunks
  /\ current' = [c \in DOMAIN current \cup Rebuilt |->
                   IF c \in Rebuilt THEN Build(ctx_counts[c], ctx_totals[c]) ELSE current[c]]
  /\ tables' = current'
  /\ dirty' = {}
  /\ generation' = NextGeneration
  /\ chunks' = chunks + 1
  /\ UNCHANGED <<ctx_counts, ctx_totals, stamp>>

ContextNext == Count \/ advance
ContextSpec == ContextInit /\ [][ContextNext]_contextVars

-----------------------------------------------------------------------------
ContextTypeOK ==
  /\ ctx_counts \in [Contexts -> [Locals -> Nat]]
  /\ ctx_totals \in [Contexts -> Nat]
  /\ chunks \in 0 .. MaxChunks
  /\ DOMAIN current \subseteq Contexts
  /\ dirty \subseteq Contexts
  /\ stamp \in [0 .. MaxKey -> 0 .. (Wrap - 1)]
  /\ generation \in 0 .. (Wrap - 1)

(***************************************************************************)
(* A kept table may differ from what its counts give only while its        *)
(* context is marked dirty: no count is ever lost to a stale stamp, neither *)
(* the initial one nor one of an earlier generation.                       *)
(***************************************************************************)
StaleIsDirty ==
  \A c \in Contexts \ dirty :
    /\ c \in DOMAIN current <=> ctx_totals[c] >= MIN_CONTEXT_TRANSITIONS
    /\ c \in DOMAIN current => current[c] = Build(ctx_counts[c], ctx_totals[c])

(***************************************************************************)
(* The incremental tables are those of the reference: encoder and decoder, *)
(* in either language, see the same table in every chunk.                  *)
(***************************************************************************)
Reference == INSTANCE FullRebuild

MatchesReference == Reference!Spec
=============================================================================
