-------------------------------- MODULE Rans --------------------------------
(***************************************************************************)
(* The rANS coder: entropy/rans.py and its port rust/rans.rs.  The encoder *)
(* takes any sequence of encode_symbol calls, each with its own table; the *)
(* state and the words then go through the stream, and the decoder is      *)
(* called with the same tables from the last to the first.  An action is a *)
(* turn of a renormalisation loop or one update of the state.              *)
(***************************************************************************)
EXTENDS Integers, Sequences

CONSTANTS
  Symbols,   \* the alphabet
  Tables,    \* normalised tables: [freq |-> ..., cum |-> ...] over Symbols
  RANS_M,    \* what a table sums to: 65536
  Scale,     \* RANS_L is RANS_M << 4: 16
  Word,      \* a word is 16 bits: 65536
  Width,     \* the state is masked to 64 bits: 2^64
  MaxPush    \* bound of the model: symbols per stream

RANS_L == Scale * RANS_M

ASSUME RansAssumption ==
  /\ RANS_M \in Nat \ {0} /\ Scale \in Nat \ {0}
  /\ Word \in Nat /\ RANS_M <= Word /\ Word >= 2
  /\ Width \in Nat /\ RANS_L * Word <= Width
  /\ MaxPush \in Nat

\* What SymbolStats.normalize and finalize_cum_freq promise of a table: the
\* intervals [cum, cum + freq) of the active symbols tile 0 .. RANS_M - 1.
ASSUME TablesAssumption ==
  \A t \in Tables :
    /\ t.freq \in [Symbols -> Nat] /\ t.cum \in [Symbols -> Nat]
    /\ \A s \in Symbols : t.freq[s] > 0 => t.cum[s] + t.freq[s] <= RANS_M
    /\ \A slot \in 0 .. (RANS_M - 1) :
         \E s \in Symbols : t.cum[s] <= slot /\ slot < t.cum[s] + t.freq[s]
    /\ \A r, s \in Symbols :
         r # s /\ t.freq[r] > 0 /\ t.freq[s] > 0 =>
           t.cum[r] + t.freq[r] <= t.cum[s] \/ t.cum[s] + t.freq[s] <= t.cum[r]

VARIABLES
  state,   \* the 64-bit state: the encoder's, then the decoder's
  words,   \* out_words; the decoder's words[0 .. word_pos]
  phase,   \* "encode", "renorm" (inside encode_symbol), "decode",
           \* "refill" (inside decode_symbol)
  call,    \* the encode_symbol call in progress: [table, sym]
  log,     \* history: the calls not undone yet, with state and word count after
  popped   \* the symbols decode_symbol has returned

vars == <<state, words, phase, call, log, popped>>

Active(t, s) == t.freq[s] > 0
Calls == {c \in [table : Tables, sym : Symbols] : Active(c.table, c.sym)}

Init ==
  /\ state = RANS_L
  /\ words = <<>>
  /\ phase = "encode"
  /\ call \in Calls
  /\ log = <<>>
  /\ popped = <<>>

(***************************************************************************)
(* RansEncoder.encode_symbol                                               *)
(***************************************************************************)

\* The caller never encodes a symbol its table gives no frequency.
BeginEncode ==
  /\ phase = "encode" /\ Len(log) < MaxPush
  /\ call' \in Calls
  /\ phase' = "renorm"
  /\ UNCHANGED <<state, words, log, popped>>

\* Mutant: the bound of the next smaller frequency.
MaxState_TooSmall(f) == Scale * Word * (f - 1)

\* RANS_L >> RANS_M_BITS is Scale.
MaxState(f) == Scale * Word * f

CallFreq == call.table.freq[call.sym]
CallCum == call.table.cum[call.sym]

EmitWord ==
  /\ phase = "renorm" /\ state >= MaxState(CallFreq)
  /\ words' = Append(words, state % Word)
  /\ state' = state \div Word
  /\ UNCHANGED <<phase, call, log, popped>>

\* Mutant: the remainder is lost.
Encoded_NoRemainder(x, f, c) == ((x \div f) * RANS_M + c) % Width

Encoded(x, f, c) == ((x \div f) * RANS_M + (x % f) + c) % Width

EndEncode ==
  /\ phase = "renorm" /\ state < MaxState(CallFreq)
  /\ state' = Encoded(state, CallFreq, CallCum)
  /\ log' = Append(log, [table |-> call.table, sym |-> call.sym,
                         state |-> state', words |-> Len(words)])
  /\ phase' = "encode"
  /\ UNCHANGED <<words, call, popped>>

\* The state and the words are written; a decoder is built from them.
BeginDecode ==
  /\ phase = "encode"
  /\ phase' = "decode"
  /\ UNCHANGED <<state, words, call, log, popped>>

(***************************************************************************)
(* RansDecoder.decode_symbol                                               *)
(***************************************************************************)

FindSymbol(t, slot) ==
  CHOOSE s \in Symbols : t.cum[s] <= slot /\ slot < t.cum[s] + t.freq[s]

Decoded(x, f, c) == (f * (x \div RANS_M) + ((x % RANS_M) - c)) % Width

\* The decoder's table is the one the symbol was encoded under.
DecodeSymbol ==
  /\ phase = "decode" /\ log # <<>>
  /\ LET t == log[Len(log)].table
         s == FindSymbol(t, state % RANS_M)
     IN  /\ popped' = Append(popped, s)
         /\ state' = Decoded(state, t.freq[s], t.cum[s])
  /\ log' = SubSeq(log, 1, Len(log) - 1)
  /\ phase' = "refill"
  /\ UNCHANGED <<words, call>>

\* Mutant: refills a state that is not short of a word.
NeedsWord_AtBound == state <= RANS_L /\ words # <<>>

NeedsWord == state < RANS_L /\ words # <<>>

ReadWord ==
  /\ phase = "refill" /\ NeedsWord
  /\ state' = (state * Word + words[Len(words)]) % Width
  /\ words' = SubSeq(words, 1, Len(words) - 1)
  /\ UNCHANGED <<phase, call, log, popped>>

EndDecode ==
  /\ phase = "refill" /\ ~NeedsWord
  /\ phase' = "decode"
  /\ UNCHANGED <<state, words, call, log, popped>>

Next == \/ BeginEncode \/ EmitWord \/ EndEncode \/ BeginDecode
        \/ DecodeSymbol \/ ReadWord \/ EndDecode

Spec == Init /\ [][Next]_vars

-----------------------------------------------------------------------------
LogEntry == [table : Tables, sym : Symbols, state : Nat, words : Nat]

\* The state never outgrows RANS_L * Word, not even inside a renorm loop.
TypeOK ==
  /\ state \in 0 .. (RANS_L * Word - 1)
  /\ words \in Seq(0 .. (Word - 1))
  /\ phase \in {"encode", "renorm", "decode", "refill"}
  /\ call \in Calls
  /\ log \in Seq(LogEntry)
  /\ popped \in Seq(Symbols)

(***************************************************************************)
(* The headroom the module's docstring claims: between two symbols the     *)
(* state is in RANS_L .. RANS_L * Word - 1 (below 2^36), for the encoder   *)
(* and for the decoder.  The mask then never bites, and the renorm loops   *)
(* of the two sides run the same number of times.                          *)
(***************************************************************************)
StateBound ==
  phase \in {"encode", "decode"} => RANS_L <= state /\ state < RANS_L * Word

(***************************************************************************)
(* The decoder is back in the encoder's state, word for word, at each      *)
(* depth of the stack; when nothing is left it has the initial state and   *)
(* no words.  A renorm loop that runs once too often on either side breaks *)
(* it some symbols later.                                                  *)
(***************************************************************************)
Retraces ==
  phase \in {"encode", "decode"} =>
    IF log = <<>> THEN state = RANS_L /\ words = <<>>
                  ELSE /\ state = log[Len(log)].state
                       /\ Len(words) = log[Len(log)].words

(***************************************************************************)
(* The coder implements the stack: symbols come back in reverse order, the *)
(* push taking effect when encode_symbol returns.                          *)
(***************************************************************************)
Stack == INSTANCE EntropyStack WITH
  stack <- [n \in DOMAIN log |-> [table |-> log[n].table, sym |-> log[n].sym]],
  popped <- popped,
  reading <- phase \in {"decode", "refill"}

IsStack == Stack!Spec
=============================================================================
