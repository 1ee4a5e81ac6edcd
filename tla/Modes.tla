-------------------------------- MODULE Modes --------------------------------
(***************************************************************************)
(* The modes of a stream, one of which the encoder has chosen for a record *)
(* and put into the header: static (sparse, split), adaptive, ppm, dict or *)
(* raw.  A behaviour is one record in one of them; they share the names of *)
(* the variables that play the same part.                                  *)
(***************************************************************************)
EXTENDS Coder

CONSTANTS
  Byte, ADAPTIVE_MIN_CHUNK, ADAPTIVE_WORK_BUDGET, MIN_CONTEXT_TRANSITIONS,
  MAX_CONTEXT_TABLES, BYTE_BITS, WORD_BITS, REFILL, Trailers, Trainings, Theirs(_),
  EscapeShare(_),   \* as in the modules of the modes
  DictFlag,         \* MatchFlag where a dictionary is used: its instances are smaller
  StaticInputs, AdaptiveInputs, PpmInputs, DictInputs, RawInputs   \* the LZ token lists

VARIABLES
  mode,
  \* of several modes
  lz, split, phase, positions, stack, escapes, step, left, escape_pos, out, at,
  \* of the static modes
  stats, stream,
  \* of the adaptive and the ppm modes
  meta, distinct, ext, coded, chunk_size, chunk_stats, lit_idx, lit_pos, boundary,
  cum_counts, table, counts, counted, sent_escapes, tables, recounted, prev,
  \* of the dictionary mode
  ours, theirs, sent, fell,
  \* of the raw mode
  trailer, fields, bit_buf, data, lost, byte_pos, num_lz_tokens, bits_per_symbol, stamp

shared_vars == <<split, positions, stack, escapes, step, left, escape_pos, at>>
static_vars == <<stats, stream>>
chunk_vars == <<meta, distinct, ext, coded, chunk_size, chunk_stats, lit_idx, lit_pos, boundary>>
adaptive_vars == <<cum_counts, table, counts>>
ppm_vars == <<counted, sent_escapes, tables, recounted, prev>>
dict_vars == <<ours, theirs, sent, fell>>
raw_vars == <<trailer, fields, bit_buf, data, lost, byte_pos, num_lz_tokens, bits_per_symbol, stamp>>
vars == <<mode, lz, phase, out, shared_vars, static_vars, chunk_vars, adaptive_vars, ppm_vars,
          dict_vars, raw_vars>>

Static == INSTANCE StaticMode WITH Inputs <- StaticInputs
Adaptive == INSTANCE AdaptiveMode WITH Inputs <- AdaptiveInputs
Ppm == INSTANCE PpmMode WITH Inputs <- PpmInputs
Dict == INSTANCE DictMode WITH MatchFlag <- DictFlag, Inputs <- DictInputs
Raw == INSTANCE RawMode WITH Inputs <- RawInputs

ASSUME ModesAssumption ==
  /\ DictFlag \in Nat
  /\ Static!StaticAssumption /\ Adaptive!AdaptiveAssumption /\ Ppm!PpmAssumption
  /\ Dict!DictAssumption /\ Raw!RawAssumption

\* What a match carries is bytes, and a table has room for all of them.
BytesOnly(seq) ==
  \A e \in Events(seq, Positions(seq), 4) : \A o \in 1 .. 3 :
    seq[Positions(seq)[e] + o] \in 0 .. (Byte - 1)

ASSUME BytesAssumption ==
  /\ {2, Byte} \subseteq 1 .. RANS_M
  /\ \A seq \in StaticInputs \cup AdaptiveInputs \cup PpmInputs : BytesOnly(seq)

\* What Normalize shows of a table (TypeCorrect and KeepsSymbols of
\* NormalizeProofs): what has been counted, and nothing else, has a frequency.
Normalizes(raw, total) ==
  (total = 0 <=> Active(raw) = {}) /\ Cardinality(Active(raw)) <= RANS_M =>
    /\ Freq(raw, total) \in [DOMAIN raw -> 0 .. RANS_M]
    /\ Active(Freq(raw, total)) = Active(raw)

\* What a mode does not use.
NoShared == split = <<>> /\ positions = <<>> /\ step = <<>>
NoStatic == stats = <<>> /\ stream = <<>>
NoChunks == /\ meta = <<>> /\ distinct = <<>> /\ ext = <<>> /\ coded = <<>> /\ chunk_size = <<>>
            /\ chunk_stats = <<>> /\ lit_idx = <<>> /\ lit_pos = <<>> /\ boundary = <<>>
NoAdaptive == cum_counts = <<>> /\ table = <<>> /\ counts = <<>>
NoPpm == counted = <<>> /\ sent_escapes = <<>> /\ tables = <<>> /\ recounted = <<>> /\ prev = <<>>
NoDict == ours = <<>> /\ theirs = <<>> /\ sent = <<>> /\ fell = <<>>
NoRaw == /\ trailer = <<>> /\ fields = <<>> /\ bit_buf = <<>> /\ data = <<>> /\ lost = <<>>
         /\ byte_pos = <<>> /\ num_lz_tokens = <<>> /\ bits_per_symbol = <<>> /\ stamp = <<>>

Init ==
  \/ mode = "static" /\ Static!Init /\ NoChunks /\ NoAdaptive /\ NoPpm /\ NoDict /\ NoRaw
  \/ mode = "adaptive" /\ Adaptive!Init /\ NoStatic /\ NoPpm /\ NoDict /\ NoRaw
  \/ mode = "ppm" /\ Ppm!Init /\ NoStatic /\ NoAdaptive /\ NoDict /\ NoRaw
  \/ /\ mode = "dict" /\ Dict!Init
     /\ NoShared /\ NoStatic /\ NoChunks /\ NoAdaptive /\ NoPpm /\ NoRaw
  \/ /\ mode = "raw" /\ Raw!Init
     /\ NoShared /\ stack = <<>> /\ escapes = <<>> /\ left = <<>> /\ escape_pos = <<>> /\ at = <<>>
     /\ NoStatic /\ NoChunks /\ NoAdaptive /\ NoPpm /\ NoDict

Next ==
  \/ /\ mode = "static" /\ Static!Next
     /\ UNCHANGED <<mode, chunk_vars, adaptive_vars, ppm_vars, dict_vars, raw_vars>>
  \/ /\ mode = "adaptive" /\ Adaptive!Next
     /\ UNCHANGED <<mode, static_vars, ppm_vars, dict_vars, raw_vars>>
  \/ /\ mode = "ppm" /\ Ppm!Next
     /\ UNCHANGED <<mode, static_vars, adaptive_vars, dict_vars, raw_vars>>
  \/ /\ mode = "dict" /\ Dict!Next
     /\ UNCHANGED <<mode, split, positions, step, static_vars, chunk_vars, adaptive_vars,
                    ppm_vars, raw_vars>>
  \/ /\ mode = "raw" /\ Raw!Next
     /\ UNCHANGED <<mode, shared_vars, static_vars, chunk_vars, adaptive_vars, ppm_vars, dict_vars>>

Spec == Init /\ [][Next]_vars /\ WF_vars(Next)

\* The types of the state of the mode, and that nothing runs past its list.
TypeOK ==
  CASE mode = "static" -> Static!TypeOK
    [] mode = "adaptive" -> Adaptive!TypeOK
    [] mode = "ppm" -> Ppm!TypeOK
    [] mode = "dict" -> Dict!TypeOK
    [] mode = "raw" -> Raw!TypeOK

(***************************************************************************)
(* In every mode, every call to the entropy coder is one it accepts: a     *)
(* symbol with a frequency, under a table that fits, whatever the alphabet *)
(* of the record and whatever a dictionary was trained on.                 *)
(***************************************************************************)
CallsAccepted == mode # "raw" => Encodable(stack)

(***************************************************************************)
(* In every mode encoder and decoder are in step: at each call the decoder *)
(* presents the table the symbol was encoded under, and at the end it has  *)
(* taken everything the stream holds.                                      *)
(***************************************************************************)
InSync ==
  CASE mode = "static" -> Static!InSync
    [] mode = "adaptive" -> Adaptive!InSync
    [] mode = "ppm" -> Ppm!InSync
    [] mode = "dict" -> Dict!InSync
    [] mode = "raw" -> Raw!InSync

(***************************************************************************)
(* In every mode the LZ tokens come out in order, and all of them do,      *)
(* unless the decoder refuses a dictionary that is not the encoder's or a  *)
(* stream that has lost its end.                                           *)
(***************************************************************************)
Delivery == INSTANCE InOrderDelivery WITH source <- lz, delivered <- out

DeliversTokens ==
  /\ Delivery!Spec
  /\ <>(\/ out = lz
        \/ mode = "dict" /\ phase = "rejected" /\ ours # theirs
        \/ mode = "raw" /\ Raw!Refused)
=============================================================================
