----------------------------- MODULE DamagedBody -----------------------------
(***************************************************************************)
(* The two decoders, codec/decoder.py and rust/decode.rs, over a body of   *)
(* one of the rANS modes of which any header field may be damaged: how far *)
(* their loops run.  What a damaged table or word decodes to is any        *)
(* symbol, or an error (an exhausted escape list, an empty table, an index *)
(* out of range); what matters here of the decoded list is its length.     *)
(* The modules of the modes treat undamaged bodies.                        *)
(***************************************************************************)
EXTENDS Integers

CONSTANTS
  CountSlack,   \* 64: a record of n bytes has up to 2 * n + 64 LZ tokens
  Sizes,        \* the values of uncompressed_size, 0 apart
  Counts        \* the values of the other fields

ASSUME DamagedAssumption == CountSlack \in Nat /\ Sizes \subseteq Nat \ {0} /\ Counts \subseteq Nat

VARIABLES
  core,         \* "python" or "rust"
  header,       \* the fields as they arrived
  phase,        \* "header", "body", "done", "raised"
  pos,          \* the rounds of the loop that are over: tokens or events
  length,       \* the length of lz_tokens
  end,          \* the end of the chunk in the modes of Chunked
  lit_pos, next_chunk_boundary,   \* the modes of SplitChunked
  table         \* where in them the table was built, NoTable at first

vars == <<core, header, phase, pos, length, end, lit_pos, next_chunk_boundary, table>>
literalVars == <<lit_pos, next_chunk_boundary, table>>

NoTable == -1

Whole == {"sparse", "dict"}
Chunked == {"adaptive", "ppm"}
SplitChunked == {"adaptive_split", "ppm_split"}
Split == {"split"} \cup SplitChunked

Headers == [mode : Whole \cup Chunked \cup Split, uncompressed_size : Sizes,
            num_lz_tokens : Counts, num_events : Counts, n_lit : Counts, chunk_size : Counts]

Init ==
  /\ core \in {"python", "rust"} /\ header \in Headers
  /\ phase = "header"
  /\ pos = 0 /\ length = 0 /\ end = 0
  /\ lit_pos = 0 /\ next_chunk_boundary = 0 /\ table = NoTable

Smaller(a, b) == IF a < b THEN a ELSE b

(***************************************************************************)
(* The header.  Both cores bound num_lz_tokens; the others are bounded by  *)
(* the Rust core only.                                                     *)
(***************************************************************************)
MaxTokens == (2 * header.uncompressed_size) + CountSlack

\* Mutant: a chunk of size 0 is let through, as in Python.
ChunkRefused_Never == FALSE
ChunkRefused == header.mode \in Chunked /\ header.chunk_size = 0

\* Mutant: the events are not bounded, as in Python.
EventsRefused_Never == FALSE
EventsRefused == header.mode \in Split /\ header.num_events > header.num_lz_tokens

SplitRefused ==
  header.mode \in SplitChunked /\ (header.n_lit > header.num_events \/ header.chunk_size = 0)

Refused ==
  \/ header.num_lz_tokens > MaxTokens
  \/ core = "rust" /\ (ChunkRefused \/ EventsRefused \/ SplitRefused)

RefuseHeader ==
  /\ phase = "header" /\ Refused
  /\ phase' = "raised"
  /\ UNCHANGED <<core, header, pos, length, end, literalVars>>

ReadHeader ==
  /\ phase = "header" /\ ~Refused
  /\ phase' = "body"
  /\ UNCHANGED <<core, header, pos, length, end, literalVars>>

(***************************************************************************)
(* The loops: over the tokens at once, over them chunk by chunk, or over   *)
(* the events, of which a match adds four tokens and a literal one.        *)
(***************************************************************************)
Rounds == IF header.mode \in Split THEN header.num_events ELSE header.num_lz_tokens

\* while pos < num_lz_tokens: a chunk of size 0 ends where it begins.
BeginChunk ==
  /\ phase = "body" /\ header.mode \in Chunked /\ pos = end /\ pos < Rounds
  /\ end' = Smaller(pos + header.chunk_size, Rounds)
  /\ UNCHANGED <<core, header, phase, pos, length, literalVars>>

Limit == IF header.mode \in Chunked THEN end ELSE Rounds
Decoding == phase = "body" /\ pos < Limit

DecodeToken ==
  /\ Decoding /\ header.mode \notin Split
  /\ pos' = pos + 1 /\ length' = length + 1
  /\ UNCHANGED <<core, header, phase, end, literalVars>>

\* match_flag, the two bytes of the distance, the length
DecodeMatch ==
  /\ Decoding /\ header.mode \in Split
  /\ pos' = pos + 1 /\ length' = length + 4
  /\ UNCHANGED <<core, header, phase, end, literalVars>>

DecodeLiteral ==
  /\ Decoding /\ header.mode = "split"
  /\ pos' = pos + 1 /\ length' = length + 1
  /\ UNCHANGED <<core, header, phase, end, literalVars>>

NextBoundary(at) == Smaller(at + header.chunk_size, header.n_lit)

DecodeLiteralOfChunk ==
  /\ Decoding /\ header.mode \in SplitChunked
  /\ IF lit_pos = next_chunk_boundary
       THEN table' = lit_pos /\ next_chunk_boundary' = NextBoundary(lit_pos)
       ELSE UNCHANGED <<table, next_chunk_boundary>>
  /\ lit_pos' = lit_pos + 1
  /\ pos' = pos + 1 /\ length' = length + 1
  /\ UNCHANGED <<core, header, phase, end>>

RaiseInBody ==
  /\ Decoding
  /\ phase' = "raised"
  /\ UNCHANGED <<core, header, pos, length, end, literalVars>>

EndBody ==
  /\ phase = "body" /\ pos >= Rounds
  /\ phase' = "done"
  /\ UNCHANGED <<core, header, pos, length, end, literalVars>>

Next ==
  \/ RefuseHeader \/ ReadHeader
  \/ BeginChunk \/ DecodeToken \/ DecodeMatch \/ DecodeLiteral \/ DecodeLiteralOfChunk
  \/ RaiseInBody \/ EndBody

\* decompress is one call of one thread: it goes on while it can.
Spec == Init /\ [][Next]_vars /\ WF_vars(Next)

-----------------------------------------------------------------------------
\* The types of the state.
TypeOK ==
  /\ core \in {"python", "rust"} /\ header \in Headers
  /\ phase \in {"header", "body", "done", "raised"}
  /\ pos \in Nat /\ length \in Nat /\ end \in Nat
  /\ lit_pos \in Nat /\ next_chunk_boundary \in Nat /\ table \in Nat \cup {NoTable}

\* Four tokens for each LZ token that the declared size admits, at most.
WorkFollowsSize == length <= 4 * MaxTokens

(***************************************************************************)
(* The list that a decoder builds stays within a multiple of the declared  *)
(* size, whatever the other fields say: in the Rust core, and in the       *)
(* Python one in the modes whose loop runs over num_lz_tokens.             *)
(***************************************************************************)
WorkBounded == core = "rust" \/ header.mode \notin Split => WorkFollowsSize

(***************************************************************************)
(* A literal of the chunked split modes always has a table, built at most  *)
(* chunk_size literals ago, for every chunk_size and n_lit that both cores *)
(* may meet: neither ever decodes with the None it starts with.  Beyond    *)
(* the announced n_lit literals a table may get older.                     *)
(***************************************************************************)
LiteralHasTable ==
  lit_pos > 0 =>
    /\ table # NoTable
    /\ 0 < header.chunk_size /\ lit_pos <= header.n_lit => lit_pos - table <= header.chunk_size

Ended == phase \in {"done", "raised"}

(***************************************************************************)
(* A call of the Rust core ends whatever the header says, and one of the   *)
(* Python core unless the chunk size is 0.                                 *)
(***************************************************************************)
Terminates == (core = "rust" \/ header.chunk_size # 0) ~> Ended
=============================================================================
