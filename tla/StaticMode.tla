----------------------------- MODULE StaticMode -----------------------------
(***************************************************************************)
(* The modes with transmitted tables, MODE_RANS_SPARSE and MODE_RANS_SPLIT *)
(* (_encode_rans_sparse and _encode_rans_split in codec/encoder.py, their  *)
(* branches in codec/decoder.py, and the ports in rust/).  A behaviour     *)
(* encodes one list of LZ tokens and decodes it: an action is one turn of  *)
(* the encoder's loop, or one decode_symbol call.                          *)
(***************************************************************************)
EXTENDS Coder

CONSTANTS
  Byte,     \* 256: the size of a metadata table
  Inputs    \* the LZ token lists that are encoded

StaticAssumption ==
  Byte \in Nat \ {0} /\ Inputs \subseteq Seq(0 .. MatchFlag)

VARIABLES
  lz, split,      \* lz_tokens, and which of the two modes it is
  phase,          \* "count", "encode", "decode", "done"
  positions,      \* where the events start
  stats,          \* the tables: literal, and role, hi, lo, len for the split
  at,             \* the encoder's position, counted down
  stack,          \* the entropy coder
  escapes,        \* the escape list under construction
  stream,         \* what is transmitted besides the coder's words
  step,           \* which decode_symbol call is next
  left,           \* the decoder's events to go
  escape_pos,     \* its place in the escape list
  out             \* its lz_tokens

vars == <<lz, split, phase, positions, stats, at, stack, escapes, stream, step, left,
          escape_pos, out>>
decoderVars == <<stream, step, left, escape_pos, out>>

escape_symbol == MatchFlag + 1

Kept(literals) == Capped(literals, RANS_M - 1)

LiteralTable(literals, kept) ==
  Table([n \in DOMAIN literals |-> IF literals[n] \in kept THEN literals[n] ELSE escape_symbol],
        0 .. escape_symbol)

HasSlot(s) == stats.literal[s] > 0
Coded(s) == IF HasSlot(s) THEN s ELSE escape_symbol

Init ==
  /\ lz \in Inputs /\ split \in BOOLEAN
  /\ phase = "count"
  /\ positions = <<>> /\ stats = <<>>
  /\ at = 0 /\ stack = <<>> /\ escapes = <<>>
  /\ stream = <<>>
  /\ step = "event" /\ left = 0 /\ escape_pos = 0 /\ out = <<>>

(***************************************************************************)
(* Encoding.  The sparse mode collects the escapes on the way forward, the *)
(* split mode on the way back.                                             *)
(***************************************************************************)
CountSparse ==
  /\ phase = "count" /\ ~split
  /\ phase' = "encode"
  /\ positions' = [n \in DOMAIN lz |-> n]
  /\ at' = Len(lz)
  /\ \E kept \in {Kept(lz)} :
        /\ stats' = [literal |-> LiteralTable(lz, kept)]
        /\ escapes' = Selected(lz, {n \in DOMAIN lz : lz[n] \notin kept})
  /\ UNCHANGED <<lz, split, stack, decoderVars>>

CountSplit ==
  /\ phase = "count" /\ split
  /\ phase' = "encode"
  /\ positions' = Positions(lz)
  /\ at' = Len(positions')
  /\ \E literals \in {Literals(lz, positions')} : \E kept \in {Kept(literals)} :
     \E meta \in {MetaTables(lz, positions', Byte)} :
        stats' = [literal |-> LiteralTable(literals, kept),
                  role |-> meta.role, hi |-> meta.hi, lo |-> meta.lo, len |-> meta.len]
  /\ UNCHANGED <<lz, split, stack, escapes, decoderVars>>

EncodeMatch ==
  /\ phase = "encode" /\ at > 0
  /\ split /\ Span(lz, positions[at]) = 4
  /\ stack' = stack \o MatchCalls(lz, positions[at], stats)
  /\ at' = at - 1
  /\ UNCHANGED <<lz, split, phase, positions, stats, escapes, decoderVars>>

EncodeLiteral ==
  /\ phase = "encode" /\ at > 0
  /\ split => Span(lz, positions[at]) = 1
  /\ LET s == lz[positions[at]]
     IN  /\ stack' = stack \o <<Call(Coded(s), stats.literal)>>
                           \o (IF split THEN <<Call(0, stats.role)>> ELSE <<>>)
         /\ escapes' = IF split /\ ~HasSlot(s) THEN Append(escapes, s) ELSE escapes
  /\ at' = at - 1
  /\ UNCHANGED <<lz, split, phase, positions, stats, decoderVars>>

WrittenEscapes == IF split THEN Reversed(escapes) ELSE escapes

\* The turns of the decoder's loop: num_lz_tokens or num_events.
\* Mutant: a turn for each LZ token, not for each event.
Turns_Tokens == Len(lz)
Turns == IF split THEN Len(positions) ELSE Len(lz)

WriteStream ==
  /\ phase = "encode" /\ at = 0
  /\ phase' = "decode"
  /\ stream' = [f \in DOMAIN stats \cup {"escapes"} |->
                  IF f = "escapes" THEN WrittenEscapes ELSE Received(stats[f])]
  /\ left' = Turns
  /\ step' = IF split THEN "event" ELSE "literal"
  /\ UNCHANGED <<lz, split, positions, stats, at, stack, escapes, escape_pos, out>>

(***************************************************************************)
(* Decoding.                                                               *)
(***************************************************************************)
encoderVars == <<lz, split, positions, stats, at, escapes, stream>>

DecodeRole ==
  /\ phase = "decode" /\ left > 0 /\ step = "event"
  /\ \E role \in Popped(stack, stream.role) :
        /\ step' = IF role = 0 THEN "literal" ELSE "hi"
        /\ out' = IF role = 0 THEN out ELSE Append(out, MatchFlag)
  /\ stack' = Below(stack)
  /\ UNCHANGED <<encoderVars, phase, left, escape_pos>>

DecodeMeta(this, table, next) ==
  /\ phase = "decode" /\ left > 0 /\ step = this
  /\ \E v \in Popped(stack, table) : out' = Append(out, v)
  /\ stack' = Below(stack)
  /\ step' = next
  /\ left' = IF next = "event" THEN left - 1 ELSE left
  /\ UNCHANGED <<encoderVars, phase, escape_pos>>

DecodeHi == DecodeMeta("hi", stream.hi, "lo")
DecodeLo == DecodeMeta("lo", stream.lo, "len")
DecodeLen == DecodeMeta("len", stream.len, "event")

DecodeLiteral ==
  /\ phase = "decode" /\ left > 0 /\ step = "literal"
  /\ \E s \in Popped(stack, stream.literal) :
        \/ /\ s # escape_symbol
           /\ out' = Append(out, s) /\ UNCHANGED escape_pos
        \/ /\ s = escape_symbol /\ escape_pos < Len(stream.escapes)
           /\ out' = Append(out, stream.escapes[escape_pos + 1])
           /\ escape_pos' = escape_pos + 1
  /\ stack' = Below(stack)
  /\ left' = left - 1
  /\ step' = IF split THEN "event" ELSE "literal"
  /\ UNCHANGED <<encoderVars, phase>>

EndDecode ==
  /\ phase = "decode" /\ left = 0
  /\ phase' = "done"
  /\ UNCHANGED <<encoderVars, stack, step, left, escape_pos, out>>

EncodeNext == CountSparse \/ CountSplit \/ EncodeMatch \/ EncodeLiteral \/ WriteStream
DecodeNext == DecodeRole \/ DecodeHi \/ DecodeLo \/ DecodeLen \/ DecodeLiteral \/ EndDecode
Next == EncodeNext \/ DecodeNext

Spec == Init /\ [][Next]_vars

-----------------------------------------------------------------------------
\* The types of the state, and that neither side runs past its list.
TypeOK ==
  /\ phase \in {"count", "encode", "decode", "done"}
  /\ at \in 0 .. Len(lz) /\ left \in 0 .. Len(lz)
  /\ step \in {"event", "hi", "lo", "len", "literal"}
  /\ \A n \in DOMAIN stack : stack[n].sym \in 0 .. escape_symbol
  /\ escapes \in Seq(0 .. MatchFlag) /\ out \in Seq(0 .. MatchFlag)
  /\ Len(out) <= Len(lz)
  /\ escape_pos \in 0 .. Len(escapes)

(***************************************************************************)
(* The decoder presents for each decode_symbol the table the symbol was    *)
(* encoded under, after the table's trip through the stream.  It is what   *)
(* EntropyStack asks of its caller.                                        *)
(***************************************************************************)
NextTable ==
  CASE step = "event" -> stream.role
    [] step = "hi" -> stream.hi
    [] step = "lo" -> stream.lo
    [] step = "len" -> stream.len
    [] step = "literal" -> stream.literal

TablesAgree ==
  phase = "decode" /\ left > 0 => stack # <<>> /\ Top(stack).table = NextTable

(***************************************************************************)
(* When the decoder is done it has taken everything the stream holds.      *)
(***************************************************************************)
Consumed ==
  phase = "done" => stack = <<>> /\ escape_pos = Len(stream.escapes)

(***************************************************************************)
(* Encoder and decoder are in step: at each call, and at the end.          *)
(***************************************************************************)
InSync == TablesAgree /\ Consumed
=============================================================================
