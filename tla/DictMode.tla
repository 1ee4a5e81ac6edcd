------------------------------ MODULE DictMode ------------------------------
(***************************************************************************)
(* MODE_RANS_DICT (_encode_rans_dict in codec/encoder.py, its branch in    *)
(* codec/decoder.py, encode_dict in rust/encode.rs): coding against the    *)
(* tables of a trained TokDict, the context's first, then order 0, then a  *)
(* list of escapes.  The tables are those TokDict.train builds; encoder    *)
(* and decoder may hold different dictionaries.                            *)
(***************************************************************************)
EXTENDS Coder, SequencesExt

CONSTANTS
  MIN_CONTEXT_TRANSITIONS,
  MAX_CONTEXT_TABLES,
  EscapeShare(_),   \* max(1, round(total * _ORDER0_ESCAPE_SHARE))
  Trainings,        \* the samples' LZ token lists a dictionary is trained on
  Theirs(_),        \* those the decoder's may be trained on, given the encoder's
  Inputs            \* the LZ token lists that are encoded

DictAssumption ==
  /\ MIN_CONTEXT_TRANSITIONS \in Nat \ {0} /\ MAX_CONTEXT_TABLES \in Nat
  /\ Trainings \subseteq Seq(Seq(0 .. MatchFlag)) /\ Inputs \subseteq Seq(0 .. MatchFlag)
  /\ \A t \in Trainings : Theirs(t) \subseteq Trainings

VARIABLES
  lz,                \* lz_tokens
  ours, theirs,      \* the dictionaries of the encoder and of the decoder
  phase,             \* "encode", "check", "decode", "done", "rejected"
  at,                \* the encoder's position, counted down
  stack,             \* the entropy coder
  escapes,           \* the escape list
  sent,              \* the fingerprint in the stream
  fell,              \* has the decoder escaped from the context's table
  left, escape_pos,  \* its tokens to go, and place in the escape list
  out                \* its lz_tokens

vars == <<lz, ours, theirs, phase, at, stack, escapes, sent, fell, left, escape_pos, out>>
givenVars == <<lz, ours, theirs>>
decoderVars == <<fell, left, escape_pos, out>>

escape_symbol == MatchFlag + 1
Alphabet == 0 .. escape_symbol

(***************************************************************************)
(* TokDict.train.  _build_table caps a table to RANS_M - 1 symbols and the *)
(* escape, whose mass is given: a share of the total at order 0, and the   *)
(* number of distinct symbols in a context.                                *)
(***************************************************************************)
Total(counts) == FoldFunction(+, 0, counts)

\* Of counts, those that keep a place: the highest, of equals the lower id.
Highest(counts, cap) ==
  LET Before(a, b) == counts[a] > counts[b] \/ (counts[a] = counts[b] /\ a < b)
  IN  {s \in Active(counts) : Cardinality({t \in Active(counts) : Before(t, s)}) < cap}

\* Mutant: room for the escape symbol is forgotten.
_build_table_Full(counts, mass) ==
  LET kept == Highest(counts, RANS_M)
      raw == [s \in Alphabet |-> IF s = escape_symbol THEN mass
                                 ELSE IF s \in kept THEN counts[s] ELSE 0]
  IN  Freq(raw, Total(raw))
_build_table(counts, mass) ==
  LET kept == Highest(counts, RANS_M - 1)
      raw == [s \in Alphabet |-> IF s = escape_symbol THEN mass
                                 ELSE IF s \in kept THEN counts[s] ELSE 0]
  IN  Freq(raw, Total(raw))

\* How often each symbol follows ctx in the samples.
Followers(samples, ctx) ==
  [s \in 0 .. MatchFlag |->
     Cardinality({p \in UNION {{<<r, j>> : j \in 2 .. Len(samples[r])} : r \in DOMAIN samples} :
                    samples[p[1]][p[2] - 1] = ctx /\ samples[p[1]][p[2]] = s})]

\* Where ctx is first followed by something: the order of equals in a stable sort.
FirstSeen(samples, ctx) ==
  LET all == FlattenSeq([r \in DOMAIN samples |-> SubSeq(samples[r], 1, Len(samples[r]) - 1)])
  IN  CHOOSE n \in DOMAIN all : all[n] = ctx /\ \A m \in 1 .. (n - 1) : all[m] # ctx

Contexts(samples) ==
  LET Support(c) == Total(Followers(samples, c))
      eligible == {c \in 0 .. MatchFlag : Support(c) >= MIN_CONTEXT_TRANSITIONS}
      Before(a, b) == \/ Support(a) > Support(b)
                      \/ Support(a) = Support(b) /\ FirstSeen(samples, a) < FirstSeen(samples, b)
  IN  {c \in eligible : Cardinality({b \in eligible : Before(b, c)}) < MAX_CONTEXT_TABLES}

\* What the fingerprint is a hash of: the raw counts and the context tables.
_fingerprint(raw_counts, ctx) == <<raw_counts, ctx>>

train(samples) ==
  LET raw_counts == Tally(FlattenSeq(samples), 0 .. MatchFlag)
      ctx == [c \in Contexts(samples) |->
                LET seen == Followers(samples, c)
                IN  _build_table(seen, Cardinality(Active(seen)))]
  IN  [order |-> _build_table(raw_counts, EscapeShare(Total(raw_counts))),
       ctx |-> ctx,
       fingerprint |-> _fingerprint(raw_counts, ctx)]

Init ==
  /\ lz \in Inputs
  /\ \E t \in Trainings :
        /\ ours = train(t)
        /\ \E u \in Theirs(t) : theirs = train(u)
  /\ phase = "encode"
  /\ at = Len(lz) /\ stack = <<>> /\ escapes = <<>> /\ sent = <<>>
  /\ fell = FALSE /\ left = 0 /\ escape_pos = 0 /\ out = <<>>

(***************************************************************************)
(* Encoding.                                                               *)
(***************************************************************************)
HasContext(dict, tokens) == tokens # <<>> /\ Last(tokens) \in DOMAIN dict.ctx

Falls(s, before) == HasContext(ours, before) => ours.ctx[Last(before)][s] = 0
InOrder(s) == ours.order[s] > 0
OrderCall(s) == Call(IF InOrder(s) THEN s ELSE escape_symbol, ours.order)

Cascade(s, before) ==
  IF ~Falls(s, before) THEN <<Call(s, ours.ctx[Last(before)])>>
  ELSE IF HasContext(ours, before)
    THEN <<OrderCall(s), Call(escape_symbol, ours.ctx[Last(before)])>>
    ELSE <<OrderCall(s)>>

EncodeToken ==
  /\ phase = "encode" /\ at > 0
  /\ LET s == lz[at]
         before == SubSeq(lz, 1, at - 1)
     IN  /\ stack' = stack \o Cascade(s, before)
         /\ escapes' = IF Falls(s, before) /\ ~InOrder(s) THEN Append(escapes, s) ELSE escapes
  /\ at' = at - 1
  /\ UNCHANGED <<givenVars, phase, sent, decoderVars>>

WrittenEscapes == Reverse(escapes)

WriteStream ==
  /\ phase = "encode" /\ at = 0
  /\ phase' = "check"
  /\ escapes' = WrittenEscapes
  /\ sent' = ours.fingerprint
  /\ left' = Len(lz)
  /\ UNCHANGED <<givenVars, at, stack, fell, escape_pos, out>>

(***************************************************************************)
(* Decoding.                                                               *)
(***************************************************************************)
Reject ==
  /\ phase = "check" /\ sent # theirs.fingerprint
  /\ phase' = "rejected"
  /\ UNCHANGED <<givenVars, at, stack, escapes, sent, decoderVars>>

Accept ==
  /\ phase = "check" /\ sent = theirs.fingerprint
  /\ phase' = "decode"
  /\ UNCHANGED <<givenVars, at, stack, escapes, sent, decoderVars>>

TriesContext == ~fell /\ HasContext(theirs, out)

DecodeContext ==
  /\ phase = "decode" /\ left > 0 /\ TriesContext
  /\ \E s \in Popped(stack, theirs.ctx[Last(out)]) :
        /\ fell' = (s = escape_symbol)
        /\ out' = IF s = escape_symbol THEN out ELSE Append(out, s)
        /\ left' = IF s = escape_symbol THEN left ELSE left - 1
  /\ stack' = Below(stack)
  /\ UNCHANGED <<givenVars, phase, at, escapes, sent, escape_pos>>

StillFell == FALSE

DecodeOrder ==
  /\ phase = "decode" /\ left > 0 /\ ~TriesContext
  /\ \E s \in Popped(stack, theirs.order) :
        \/ /\ s # escape_symbol
           /\ out' = Append(out, s) /\ UNCHANGED escape_pos
        \/ /\ s = escape_symbol /\ escape_pos < Len(escapes)
           /\ out' = Append(out, escapes[escape_pos + 1])
           /\ escape_pos' = escape_pos + 1
  /\ fell' = StillFell
  /\ left' = left - 1
  /\ stack' = Below(stack)
  /\ UNCHANGED <<givenVars, phase, at, escapes, sent>>

EndDecode ==
  /\ phase = "decode" /\ left = 0
  /\ phase' = "done"
  /\ UNCHANGED <<givenVars, at, stack, escapes, sent, decoderVars>>

EncodeNext == EncodeToken \/ WriteStream
DecodeNext == Reject \/ Accept \/ DecodeContext \/ DecodeOrder \/ EndDecode
Next == EncodeNext \/ DecodeNext

Spec == Init /\ [][Next]_vars

-----------------------------------------------------------------------------
\* The types of the state, and that neither side runs past its list.
TypeOK ==
  /\ phase \in {"encode", "check", "decode", "done", "rejected"}
  /\ at \in 0 .. Len(lz) /\ left \in 0 .. Len(lz)
  /\ phase \in {"decode", "done"} => left + Len(out) = Len(lz)
  /\ fell \in BOOLEAN /\ (fell => left > 0)
  /\ escape_pos \in 0 .. Len(escapes)
  /\ escapes \in Seq(0 .. MatchFlag) /\ out \in Seq(0 .. MatchFlag)

(***************************************************************************)
(* At every call the decoder tries the table the encoder used, from its    *)
(* own dictionary: equal fingerprints make equal tables.                   *)
(***************************************************************************)
TablesAgree ==
  phase = "decode" /\ left > 0 =>
    /\ stack # <<>>
    /\ Top(stack).table = IF TriesContext THEN theirs.ctx[Last(out)] ELSE theirs.order

\* When the decoder is done it has taken everything the stream holds.
Consumed ==
  phase = "done" => stack = <<>> /\ escape_pos = Len(escapes)

(***************************************************************************)
(* Encoder and decoder are in step: at each call, and at the end.          *)
(***************************************************************************)
InSync == TablesAgree /\ Consumed
=============================================================================
