---------------------------- MODULE DecoderProofs ----------------------------
(***************************************************************************)
(* Two things the decoders rest on whatever a stream holds.  The context   *)
(* tables that are rebuilt only where something was counted are those of a *)
(* full rebuild, for every set of contexts and every table builder.  And   *)
(* for every declared size and every value of the other fields of a header *)
(* the list a decoder builds stays within four tokens for each the size    *)
(* admits, and a literal always has its table.                             *)
(***************************************************************************)
EXTENDS ContextTables, DamagedBody, TLAPS

-----------------------------------------------------------------------------
(***************************************************************************)
(* The context tables.                                                     *)
(***************************************************************************)

(***************************************************************************)
(* A key stamped with the current generation is exactly a dirty one.  The  *)
(* generation is the number of advances, and stays below the initial       *)
(* stamp, so that neither that one nor an old one is mistaken for it.      *)
(***************************************************************************)
ContextInv ==
  /\ ContextTypeOK
  /\ generation = chunks
  /\ \A key \in 0 .. MaxKey : stamp[key] <= generation \/ stamp[key] = Wrap - 1
  /\ \A c \in Contexts : c \in dirty <=> stamp[c] = generation
  /\ \A c \in DOMAIN current : ctx_totals[c] >= MIN_CONTEXT_TRANSITIONS
  /\ StaleIsDirty

LEMMA ContextInitInv == ContextInit => ContextInv
<1> SUFFICES ASSUME ContextInit PROVE ContextInv
  OBVIOUS
<1>1. Wrap - 1 \in 0 .. (Wrap - 1) /\ Wrap - 1 # 0
  BY ContextsAssumption
<1>2. ContextTypeOK
  BY <1>1, ContextsAssumption DEF ContextInit, ContextTypeOK
<1>3. StaleIsDirty
  <2> SUFFICES ASSUME NEW c \in Contexts
               PROVE  c \notin DOMAIN current /\ ~(ctx_totals[c] >= MIN_CONTEXT_TRANSITIONS)
    BY DEF StaleIsDirty
  <2>1. DOMAIN current = {} /\ ctx_totals[c] = 0
    BY DEF ContextInit
  <2> QED
    BY <2>1, ContextsAssumption
<1> QED
  BY <1>1, <1>2, <1>3, ContextsAssumption DEF ContextInit, ContextInv

\* The step of the counting loop.
LEMMA CountKeepsInv ==
  ASSUME ContextInv, Count
  PROVE  ContextInv' /\ Reference!Count
<1>1. PICK c \in Contexts, s \in Locals :
        /\ ctx_counts' = [ctx_counts EXCEPT ![c][s] = @ + 1]
        /\ ctx_totals' = [ctx_totals EXCEPT ![c] = @ + 1]
        /\ mark(c)
  BY DEF Count
<1>2. UNCHANGED <<tables, chunks, current, generation>>
  BY DEF Count
<1>3. /\ c \in 0 .. MaxKey /\ c <= MaxKey /\ MIN_CONTEXT_TRANSITIONS \in Nat
      /\ Wrap \in Nat /\ MaxChunks \in Nat /\ MaxChunks + 2 <= Wrap
  BY ContextsAssumption
<1>4. /\ stamp' = [stamp EXCEPT ![c] = generation]
      /\ dirty' = dirty \cup {c}
  <2>1. CASE stamp[c] # generation
    BY <1>1, <1>3, <2>1 DEF mark
  <2>2. CASE stamp[c] = generation
    BY <1>1, <1>3, <2>2 DEF mark, ContextInv, ContextTypeOK
  <2> QED
    BY <2>1, <2>2
<1>5. /\ ctx_counts' \in [Contexts -> [Locals -> Nat]] /\ ctx_totals' \in [Contexts -> Nat]
      /\ ctx_totals'[c] = ctx_totals[c] + 1
      /\ \A d \in Contexts : d # c => ctx_counts'[d] = ctx_counts[d] /\ ctx_totals'[d] = ctx_totals[d]
  BY <1>1 DEF ContextInv, ContextTypeOK
<1>6. ContextTypeOK'
  BY <1>2, <1>3, <1>4, <1>5 DEF ContextInv, ContextTypeOK
<1>7. StaleIsDirty'
  BY <1>2, <1>4, <1>5 DEF ContextInv, StaleIsDirty
<1>8. \A d \in Contexts : d \in dirty' <=> stamp'[d] = generation
  BY <1>3, <1>4, ContextsAssumption DEF ContextInv, ContextTypeOK
<1>9. \A d \in DOMAIN current : ctx_totals'[d] >= MIN_CONTEXT_TRANSITIONS
  <2> SUFFICES ASSUME NEW d \in DOMAIN current
               PROVE  ctx_totals'[d] >= MIN_CONTEXT_TRANSITIONS
    OBVIOUS
  <2>1. d \in Contexts /\ ctx_totals[d] \in Nat /\ ctx_totals[d] >= MIN_CONTEXT_TRANSITIONS
    BY DEF ContextInv, ContextTypeOK
  <2>2. ctx_totals'[d] = ctx_totals[d] \/ ctx_totals'[d] = ctx_totals[d] + 1
    BY <1>5, <2>1
  <2> QED
    BY <1>3, <2>1, <2>2
<1>10. \A key \in 0 .. MaxKey : stamp'[key] <= generation \/ stamp'[key] = Wrap - 1
  BY <1>3, <1>4 DEF ContextInv, ContextTypeOK
<1> QED
  BY <1>1, <1>2, <1>6, <1>7, <1>8, <1>9, <1>10
     DEF ContextInv, Reference!Count, Reference!CountTransition

\* A chunk boundary: what is kept becomes the reference's rebuild.
LEMMA AdvanceKeepsInv ==
  ASSUME ContextInv, advance
  PROVE  ContextInv' /\ Reference!BeginChunk
<1> DEFINE F == [c \in Reference!Eligible |-> Build(ctx_counts[c], ctx_totals[c])]
<1>1. /\ chunks < MaxChunks /\ chunks' = chunks + 1 /\ dirty' = {}
      /\ tables' = current' /\ generation' = (generation + 1) % Wrap
      /\ current' = [c \in DOMAIN current \cup Rebuilt |->
                       IF c \in Rebuilt THEN Build(ctx_counts[c], ctx_totals[c]) ELSE current[c]]
      /\ ctx_counts' = ctx_counts /\ ctx_totals' = ctx_totals /\ stamp' = stamp
  BY DEF advance, NextGeneration
<1>2. /\ Wrap \in Nat /\ MaxChunks \in Nat /\ MaxChunks + 2 <= Wrap
      /\ chunks \in 0 .. MaxChunks /\ generation = chunks
  BY ContextsAssumption DEF ContextInv, ContextTypeOK
<1>3. generation' = generation + 1 /\ generation' = chunks' /\ generation' \in 0 .. (Wrap - 1)
      /\ generation' # Wrap - 1
  <2>1. generation + 1 \in 0 .. (Wrap - 1)
    BY <1>1, <1>2
  <2>2. (generation + 1) % Wrap = generation + 1
    BY <1>2, <2>1
  <2> QED
    BY <1>1, <1>2, <2>1, <2>2
<1>4. DOMAIN current \cup Rebuilt = Reference!Eligible
  <2>1. ASSUME NEW c \in Contexts
        PROVE  c \in DOMAIN current \cup Rebuilt <=> ctx_totals[c] >= MIN_CONTEXT_TRANSITIONS
    BY DEF ContextInv, StaleIsDirty, Rebuilt, ContextTypeOK
  <2>2. DOMAIN current \subseteq Contexts /\ Rebuilt \subseteq Contexts
    BY DEF ContextInv, ContextTypeOK, Rebuilt
  <2> QED
    BY <2>1, <2>2 DEF Reference!Eligible
<1>5. ASSUME NEW c \in Reference!Eligible
      PROVE  current'[c] = Build(ctx_counts[c], ctx_totals[c])
  <2>1. c \in Contexts /\ ctx_totals[c] >= MIN_CONTEXT_TRANSITIONS
    BY DEF Reference!Eligible
  <2>2. CASE c \in Rebuilt
    BY <1>1, <1>4, <2>2
  <2>3. CASE c \notin Rebuilt
    <3>1. c \notin dirty
      BY <2>1, <2>3 DEF Rebuilt
    <3>2. current[c] = Build(ctx_counts[c], ctx_totals[c])
      BY <2>1, <3>1 DEF ContextInv, StaleIsDirty
    <3> QED
      BY <1>1, <1>4, <2>3, <3>2
  <2> QED
    BY <2>2, <2>3
<1>6. current' = F
  <2>1. DOMAIN current' = Reference!Eligible
    BY <1>1, <1>4
  <2>2. current' = [c \in DOMAIN current' |-> current'[c]]
    BY <1>1
  <2> QED
    BY <1>5, <2>1, <2>2
<1>7. Reference!BeginChunk
  BY <1>1, <1>6 DEF Reference!BeginChunk
<1>8. ContextTypeOK'
  <2>1. DOMAIN current' \subseteq Contexts
    BY <1>6 DEF Reference!Eligible
  <2>2. chunks' \in 0 .. MaxChunks
    BY <1>1, <1>2
  <2> QED
    BY <1>1, <1>3, <2>1, <2>2 DEF ContextInv, ContextTypeOK
<1>9. StaleIsDirty' /\ \A c \in DOMAIN current' : ctx_totals'[c] >= MIN_CONTEXT_TRANSITIONS
  BY <1>1, <1>5, <1>6 DEF StaleIsDirty, Reference!Eligible
<1>10. /\ \A key \in 0 .. MaxKey : stamp'[key] <= generation' \/ stamp'[key] = Wrap - 1
       /\ \A key \in 0 .. MaxKey : stamp'[key] # generation'
  <2> SUFFICES ASSUME NEW key \in 0 .. MaxKey
               PROVE  /\ stamp[key] <= generation + 1 \/ stamp[key] = Wrap - 1
                      /\ stamp[key] # generation + 1
    BY <1>1, <1>3
  <2>1. stamp[key] \in Nat /\ (stamp[key] <= generation \/ stamp[key] = Wrap - 1)
    BY <1>2 DEF ContextInv, ContextTypeOK
  <2> QED
    BY <1>2, <1>3, <2>1
<1>11. \A c \in Contexts : c \in dirty' <=> stamp'[c] = generation'
  BY <1>1, <1>10, ContextsAssumption
<1> QED
  BY <1>3, <1>7, <1>8, <1>9, <1>10, <1>11 DEF ContextInv

LEMMA ContextStutters ==
  ASSUME ContextInv, UNCHANGED contextVars
  PROVE  ContextInv'
BY DEF ContextInv, ContextTypeOK, StaleIsDirty, contextVars

LEMMA ContextInductive == ContextSpec => []ContextInv
<1>1. ContextInv /\ [ContextNext]_contextVars => ContextInv'
  BY CountKeepsInv, AdvanceKeepsInv, ContextStutters DEF ContextNext
<1> QED
  BY <1>1, ContextInitInv, PTL DEF ContextSpec

THEOREM TypeCorrect == ContextSpec => []ContextTypeOK
<1>1. ContextInv => ContextTypeOK
  BY DEF ContextInv
<1> QED
  BY <1>1, ContextInductive, PTL

\* No table goes stale unmarked, as long as the chunks are fewer than the values
\* of the generation counter.
THEOREM NoStaleTable == ContextSpec => []StaleIsDirty
<1>1. ContextInv => StaleIsDirty
  BY DEF ContextInv
<1> QED
  BY <1>1, ContextInductive, PTL

\* The Rust core's incremental tables implement the reference's rebuild.
THEOREM Refines == ContextSpec => MatchesReference
<1>1. ContextInit => Reference!Init
  BY DEF ContextInit, Reference!Init
<1>2. ContextInv /\ [ContextNext]_contextVars => [Reference!Next]_(Reference!vars)
  <2> SUFFICES ASSUME ContextInv, [ContextNext]_contextVars PROVE [Reference!Next]_(Reference!vars)
    OBVIOUS
  <2>1. CASE Count
    BY <2>1, CountKeepsInv DEF Reference!Next
  <2>2. CASE advance
    BY <2>2, AdvanceKeepsInv DEF Reference!Next
  <2>3. CASE UNCHANGED contextVars
    BY <2>3 DEF contextVars, Reference!vars
  <2> QED
    BY <2>1, <2>2, <2>3 DEF ContextNext
<1> QED
  BY <1>1, <1>2, ContextInductive, PTL DEF ContextSpec, MatchesReference, Reference!Spec

-----------------------------------------------------------------------------
(***************************************************************************)
(* The loops over a damaged body.                                          *)
(***************************************************************************)
\* What has been decoded passed the header, and the list grows with the rounds.
LoopInv ==
  /\ phase = "body" \/ pos > 0 => ~Refused
  /\ pos <= Rounds /\ end <= Rounds
  /\ length <= 4 * pos

\* The literals decoded since the table was built have not passed the boundary.
TableInv ==
  /\ lit_pos = 0 => table = NoTable /\ next_chunk_boundary = 0
  /\ lit_pos > 0 =>
       /\ table # NoTable /\ table < lit_pos
       /\ next_chunk_boundary = NextBoundary(table)
       /\ 0 < header.chunk_size /\ lit_pos <= header.n_lit => lit_pos <= next_chunk_boundary

IInv == TypeOK /\ LoopInv /\ TableInv

-----------------------------------------------------------------------------
LEMMA HeaderNumbers ==
  ASSUME header \in Headers
  PROVE  /\ Rounds \in Nat /\ MaxTokens \in Nat
         /\ header.chunk_size \in Nat /\ header.n_lit \in Nat
         /\ header.num_events \in Nat /\ header.num_lz_tokens \in Nat
<1>1. /\ header.uncompressed_size \in Nat /\ header.num_lz_tokens \in Nat
      /\ header.num_events \in Nat /\ header.n_lit \in Nat /\ header.chunk_size \in Nat
  BY DamagedAssumption DEF Headers
<1> QED BY <1>1, DamagedAssumption DEF Rounds, MaxTokens

LEMMA BoundaryType ==
  ASSUME header \in Headers, NEW at \in Nat
  PROVE  /\ NextBoundary(at) \in Nat
         /\ NextBoundary(at) <= at + header.chunk_size
         /\ 0 < header.chunk_size /\ at < header.n_lit => at < NextBoundary(at)
BY HeaderNumbers DEF NextBoundary, Smaller

LEMMA InitIInv == Init => IInv
<1> SUFFICES ASSUME Init PROVE IInv OBVIOUS
<1>1. header \in Headers BY DEF Init
<1>2. TypeOK BY <1>1 DEF Init, TypeOK, NoTable
<1>3. LoopInv BY <1>1, HeaderNumbers DEF Init, LoopInv
<1>4. TableInv BY DEF Init, TableInv
<1> QED BY <1>2, <1>3, <1>4 DEF IInv

\* A round of the loop: the list grows by one token or by four.
LEMMA RoundKeepsLoop ==
  ASSUME IInv, UNCHANGED <<core, header, phase, end>>,
         Decoding, pos' = pos + 1, length' = length + 1 \/ length' = length + 4
  PROVE  LoopInv'
<1>1. header \in Headers /\ pos \in Nat /\ length \in Nat /\ end \in Nat BY DEF IInv, TypeOK
<1>2. pos' <= Rounds
  <2>1. Limit <= Rounds BY <1>1, HeaderNumbers DEF IInv, LoopInv, Limit
  <2> QED BY <2>1, <1>1, HeaderNumbers DEF Decoding, Limit
<1>3. Rounds' = Rounds /\ Refused' = Refused
  BY DEF Rounds, Refused, ChunkRefused, EventsRefused, SplitRefused, MaxTokens
<1>4. ~Refused BY DEF Decoding, IInv, LoopInv
<1>5. length' <= 4 * pos' BY <1>1 DEF IInv, LoopInv
<1> QED BY <1>2, <1>3, <1>4, <1>5 DEF IInv, LoopInv

LEMMA NextIInv == IInv /\ [Next]_vars => IInv'
<1> SUFFICES ASSUME IInv, [Next]_vars PROVE IInv' OBVIOUS
<1> USE DEF IInv
<1>h. /\ header \in Headers /\ pos \in Nat /\ length \in Nat /\ end \in Nat
      /\ lit_pos \in Nat /\ next_chunk_boundary \in Nat /\ table \in Nat \cup {NoTable}
  BY DEF TypeOK
<1>f. ASSUME UNCHANGED <<core, header>>
      PROVE  Rounds' = Rounds /\ Refused' = Refused
  BY <1>f DEF Rounds, Refused, ChunkRefused, EventsRefused, SplitRefused, MaxTokens
<1>t. ASSUME UNCHANGED <<header, lit_pos, next_chunk_boundary, table>> PROVE TableInv'
  BY <1>t DEF TableInv, NextBoundary
<1>1. CASE RefuseHeader
  <2>1. TypeOK' BY <1>1 DEF RefuseHeader, TypeOK, literalVars
  <2>2. LoopInv' BY <1>1, <1>f DEF RefuseHeader, LoopInv, literalVars
  <2> QED BY <2>1, <2>2, <1>1, <1>t DEF RefuseHeader, literalVars
<1>2. CASE ReadHeader
  <2>1. TypeOK' BY <1>2 DEF ReadHeader, TypeOK, literalVars
  <2>2. LoopInv' BY <1>2, <1>f DEF ReadHeader, LoopInv, literalVars
  <2> QED BY <2>1, <2>2, <1>2, <1>t DEF ReadHeader, literalVars
<1>3. CASE BeginChunk
  <2>1. end' \in Nat /\ end' <= Rounds
    BY <1>3, <1>h, HeaderNumbers DEF BeginChunk, Smaller
  <2>2. TypeOK' BY <2>1, <1>3 DEF BeginChunk, TypeOK, literalVars
  <2>3. LoopInv' BY <2>1, <1>3, <1>f DEF BeginChunk, LoopInv, literalVars
  <2> QED BY <2>2, <2>3, <1>3, <1>t DEF BeginChunk, literalVars
<1>4. CASE DecodeToken
  <2>1. TypeOK' BY <1>4, <1>h DEF DecodeToken, TypeOK, literalVars
  <2>2. LoopInv' BY <1>4, RoundKeepsLoop DEF DecodeToken, literalVars
  <2> QED BY <2>1, <2>2, <1>4, <1>t DEF DecodeToken, literalVars
<1>5. CASE DecodeMatch
  <2>1. TypeOK' BY <1>5, <1>h DEF DecodeMatch, TypeOK, literalVars
  <2>2. LoopInv' BY <1>5, RoundKeepsLoop DEF DecodeMatch, literalVars
  <2> QED BY <2>1, <2>2, <1>5, <1>t DEF DecodeMatch, literalVars
<1>6. CASE DecodeLiteral
  <2>1. TypeOK' BY <1>6, <1>h DEF DecodeLiteral, TypeOK, literalVars
  <2>2. LoopInv' BY <1>6, RoundKeepsLoop DEF DecodeLiteral, literalVars
  <2> QED BY <2>1, <2>2, <1>6, <1>t DEF DecodeLiteral, literalVars
<1>7. CASE DecodeLiteralOfChunk
  <2>0. /\ UNCHANGED <<core, header, phase, end>> /\ lit_pos' = lit_pos + 1
        /\ pos' = pos + 1 /\ length' = length + 1 /\ Decoding
    BY <1>7 DEF DecodeLiteralOfChunk
  <2>1. LoopInv' BY <2>0, RoundKeepsLoop
  <2>2. CASE lit_pos = next_chunk_boundary
    <3>1. table' = lit_pos /\ next_chunk_boundary' = NextBoundary(lit_pos)
      BY <1>7, <2>2 DEF DecodeLiteralOfChunk
    <3>2. TypeOK' BY <2>0, <3>1, <1>h, BoundaryType DEF TypeOK
    <3>3. next_chunk_boundary' = NextBoundary(table)' BY <2>0, <3>1 DEF NextBoundary
    <3>4. 0 < header.chunk_size /\ lit_pos + 1 <= header.n_lit =>
            lit_pos + 1 <= NextBoundary(lit_pos)
      BY <1>h, BoundaryType, HeaderNumbers
    <3>5. lit_pos + 1 > 0 /\ lit_pos + 1 # 0 /\ lit_pos # NoTable /\ lit_pos < lit_pos + 1
      BY <1>h DEF NoTable
    <3>6. TableInv' BY <2>0, <3>1, <3>3, <3>4, <3>5 DEF TableInv
    <3> QED BY <2>1, <3>2, <3>6
  <2>3. CASE lit_pos # next_chunk_boundary
    <3>1. table' = table /\ next_chunk_boundary' = next_chunk_boundary
      BY <1>7, <2>3 DEF DecodeLiteralOfChunk
    <3>2. TypeOK' BY <2>0, <3>1, <1>h DEF TypeOK
    <3>3. lit_pos > 0 BY <2>3, <1>h DEF TableInv
    <3>4. NextBoundary(table)' = NextBoundary(table) BY <2>0, <3>1 DEF NextBoundary
    <3>5. TableInv'
      BY <2>0, <2>3, <3>1, <3>3, <3>4, <1>h, HeaderNumbers DEF TableInv, NoTable
    <3> QED BY <2>1, <3>2, <3>5
  <2> QED BY <2>2, <2>3
<1>8. CASE RaiseInBody
  <2>1. TypeOK' BY <1>8 DEF RaiseInBody, TypeOK, literalVars
  <2>2. LoopInv' BY <1>8, <1>f DEF RaiseInBody, Decoding, LoopInv, literalVars
  <2> QED BY <2>1, <2>2, <1>8, <1>t DEF RaiseInBody, literalVars
<1>9. CASE EndBody
  <2>1. TypeOK' BY <1>9 DEF EndBody, TypeOK, literalVars
  <2>2. LoopInv' BY <1>9, <1>f DEF EndBody, LoopInv, literalVars
  <2> QED BY <2>1, <2>2, <1>9, <1>t DEF EndBody, literalVars
<1>10. CASE UNCHANGED vars
  <2>1. TypeOK' BY <1>10 DEF vars, literalVars, TypeOK
  <2>2. LoopInv' BY <1>10, <1>f DEF vars, literalVars, LoopInv
  <2> QED BY <2>1, <2>2, <1>10, <1>t DEF vars, literalVars
<1> QED
  BY <1>1, <1>2, <1>3, <1>4, <1>5, <1>6, <1>7, <1>8, <1>9, <1>10 DEF Next

LEMMA Invariant == Spec => []IInv
BY InitIInv, NextIInv, PTL DEF Spec

-----------------------------------------------------------------------------
LEMMA WorkFromIInv == IInv => WorkBounded
<1> SUFFICES ASSUME IInv, core = "rust" \/ header.mode \notin Split PROVE WorkFollowsSize
  BY DEF WorkBounded
<1>1. header \in Headers /\ pos \in Nat /\ length \in Nat /\ core \in {"python", "rust"}
  BY DEF IInv, TypeOK
<1>2. pos <= Rounds /\ length <= 4 * pos BY DEF IInv, LoopInv
<1>3. CASE pos = 0 BY <1>1, <1>2, <1>3, HeaderNumbers DEF WorkFollowsSize
<1>4. CASE pos > 0
  <2>1. ~Refused BY <1>4 DEF IInv, LoopInv
  <2>2. header.num_lz_tokens <= MaxTokens BY <2>1, <1>1, HeaderNumbers DEF Refused
  <2>3. Rounds <= MaxTokens
    <3>1. CASE header.mode \notin Split BY <2>2, <3>1 DEF Rounds
    <3>2. CASE header.mode \in Split
      <4>1. ~EventsRefused BY <2>1, <3>2 DEF Refused
      <4>2. header.num_events <= header.num_lz_tokens
        BY <4>1, <3>2, <1>1, HeaderNumbers DEF EventsRefused
      <4> QED BY <4>2, <2>2, <3>2, <1>1, HeaderNumbers DEF Rounds
    <3> QED BY <3>1, <3>2
  <2> QED BY <2>3, <1>1, <1>2, HeaderNumbers DEF WorkFollowsSize
<1> QED BY <1>1, <1>3, <1>4

LEMMA TableFromIInv == IInv => LiteralHasTable
<1> SUFFICES ASSUME IInv, lit_pos > 0
             PROVE  /\ table # NoTable
                    /\ 0 < header.chunk_size /\ lit_pos <= header.n_lit =>
                         lit_pos - table <= header.chunk_size
  BY DEF LiteralHasTable
<1>1. header \in Headers /\ lit_pos \in Nat /\ table \in Nat
  BY DEF IInv, TypeOK, TableInv
<1>2. /\ next_chunk_boundary = NextBoundary(table) /\ table # NoTable
      /\ 0 < header.chunk_size /\ lit_pos <= header.n_lit => lit_pos <= next_chunk_boundary
  BY DEF IInv, TableInv
<1> QED BY <1>1, <1>2, BoundaryType, HeaderNumbers

(***************************************************************************)
(* Whatever the fields of a header say, the Rust core, and the Python one  *)
(* in the modes that loop over num_lz_tokens, build no list longer than    *)
(* four tokens for each the declared size admits.                          *)
(***************************************************************************)
THEOREM DecodeWorkBounded == Spec => []WorkBounded
BY Invariant, WorkFromIInv, PTL

(***************************************************************************)
(* For every chunk_size and n_lit, 0 included, a literal of the chunked    *)
(* split modes has its table, and one no older than a chunk.               *)
(***************************************************************************)
THEOREM LiteralsHaveTables == Spec => []LiteralHasTable
BY Invariant, TableFromIInv, PTL
=============================================================================
