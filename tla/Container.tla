------------------------------ MODULE Container ------------------------------
(***************************************************************************)
(* One TOKZ stream from compress to decompress (TokPressEncoder.compress,  *)
(* _encode_forced_mode and _finish; TokPressDecoder.decompress and         *)
(* _check_trailer; compress_tokens and decode_stream in rust/): the choice *)
(* of a mode, the header with its flag bits, the trailers, and the checks  *)
(* of the decoder in their order.  Between the two sides a field of the    *)
(* stream may be damaged, and the decoder may have been given another      *)
(* vocabulary or dictionary.                                               *)
(*                                                                         *)
(* What a mode writes of the tokens is one value here, the body: the       *)
(* modules of the modes show that it comes back.                           *)
(***************************************************************************)
EXTENDS Integers, Sequences, FiniteSets

CONSTANTS
  Texts,            \* the records, sequences of bytes
  Vocabularies, DefaultVocabulary,
  Dictionaries, NoDictionary,
  Size(_, _),       \* the length of a mode's stream for a record
  Tokens(_, _),     \* the number of LZ tokens of a record, primed or not
  Overflows(_),     \* the record has more distinct symbols than a table holds
  ForcedModes,      \* what force_mode may name, NotForced for None
  ADAPTIVE_MIN_SYMBOLS,
  CountSlack,       \* 64: the decoder takes up to 2 * size + 64 LZ tokens
  MaxFaults         \* bound of the model: damaged fields

MODE_RAW_TOKENS == 0
MODE_RANS_SPARSE == 1
MODE_RAW_FALLBACK == 2
MODE_RANS_DICT == 3
MODE_RANS_ADAPTIVE == 4
MODE_RANS_SPLIT == 5
MODE_RANS_ADAPTIVE_SPLIT == 6
MODE_RANS_PPM == 7
MODE_RANS_PPM_SPLIT == 8
MODE_FLAG_EXT == 32
MODE_FLAG_IDENTITY == 64
MODE_FLAG_INTEGRITY == 128

ASSUME ContainerAssumption ==
  /\ Texts \subseteq Seq(Nat) /\ DefaultVocabulary \in Vocabularies
  /\ NoDictionary \notin Dictionaries
  /\ ADAPTIVE_MIN_SYMBOLS \in Nat /\ CountSlack \in Nat /\ MaxFaults \in Nat
  /\ \A t \in Texts : Overflows(t) \in BOOLEAN
  \* The bound on LZ tokens admits every record: TokenLZ's ExpansionBound.
  /\ \A t \in Texts, primed \in BOOLEAN :
        Tokens(primed, t) \in 0 .. ((2 * Len(t)) + CountSlack)

VARIABLES
  raw_bytes, integrity, force_mode,   \* the arguments of compress
  ours,                               \* the encoder's vocabulary and dictionary
  theirs,                             \* the decoder's
  phase,     \* "compress", "finish", "transit", "header", "body", "stamp", "crc",
             \* "length", "done", "error"; "refused" when compress raises
  mode,      \* the winning candidate
  stream,    \* the stream as a record of its fields
  faults,    \* history: the fields damaged
  plain      \* the decoder's result

givenVars == <<raw_bytes, integrity, force_mode, ours, theirs>>
vars == <<givenVars, phase, mode, stream, faults, plain>>

NotForced == 9999
Models == [vocab : Vocabularies, dict : Dictionaries \cup {NoDictionary}]

Init ==
  /\ raw_bytes \in Texts /\ integrity \in BOOLEAN
  /\ force_mode \in ForcedModes
  /\ ours \in Models /\ theirs \in Models
  /\ phase = "compress" /\ mode = MODE_RAW_FALLBACK
  /\ stream = <<>> /\ faults = {} /\ plain = <<>>

(***************************************************************************)
(* Encoding.                                                               *)
(***************************************************************************)

\* The candidates in their order, which decides between equals.
Candidates ==
  <<MODE_RAW_TOKENS, MODE_RANS_SPARSE, MODE_RANS_SPLIT, MODE_RANS_ADAPTIVE_SPLIT>>
    \o (IF Tokens(FALSE, raw_bytes) >= ADAPTIVE_MIN_SYMBOLS
          THEN <<MODE_RANS_ADAPTIVE, MODE_RANS_PPM, MODE_RANS_PPM_SPLIT>> ELSE <<>>)
    \o (IF ours.dict # NoDictionary THEN <<MODE_RANS_DICT>> ELSE <<>>)

\* An empty record is a header alone, whatever was asked for.
CompressEmpty ==
  /\ phase = "compress" /\ raw_bytes = <<>>
  /\ stream' = [magic |-> TRUE, version |-> TRUE, byte |-> MODE_RAW_FALLBACK, size |-> 0,
                count |-> 0, body |-> [mode |-> MODE_RAW_FALLBACK, intact |-> TRUE],
                trailer |-> <<>>]
  /\ phase' = "transit"
  /\ UNCHANGED <<givenVars, mode, faults, plain>>

CompressSmallest ==
  /\ phase = "compress" /\ raw_bytes # <<>> /\ force_mode = NotForced
  /\ \E n \in DOMAIN Candidates :
        /\ \A m \in DOMAIN Candidates :
              IF m < n THEN Size(Candidates[n], raw_bytes) < Size(Candidates[m], raw_bytes)
                       ELSE Size(Candidates[n], raw_bytes) <= Size(Candidates[m], raw_bytes)
        /\ mode' = Candidates[n]
  /\ phase' = "finish"
  /\ UNCHANGED <<givenVars, stream, faults, plain>>

CompressForced ==
  /\ phase = "compress" /\ raw_bytes # <<>> /\ force_mode # NotForced
  /\ \E n \in DOMAIN Candidates : Candidates[n] = force_mode
  /\ mode' = force_mode
  /\ phase' = "finish"
  /\ UNCHANGED <<givenVars, stream, faults, plain>>

RefuseForced ==
  /\ phase = "compress" /\ raw_bytes # <<>> /\ force_mode # NotForced
  /\ \A n \in DOMAIN Candidates : Candidates[n] # force_mode
  /\ phase' = "refused"
  /\ UNCHANGED <<givenVars, mode, stream, faults, plain>>

wants_identity_stamp(vocab) == vocab # DefaultVocabulary

Has(byte, flag) == (byte \div flag) % 2 = 1

WithFlag(byte, flag) == IF Has(byte, flag) THEN byte ELSE byte + flag

\* The adaptive and the PPM mode have a second layout, for large alphabets.
TwoLayouts == {MODE_RANS_ADAPTIVE, MODE_RANS_PPM}
PlainByte == IF mode \in TwoLayouts /\ Overflows(raw_bytes) THEN WithFlag(mode, MODE_FLAG_EXT)
                                                         ELSE mode
LZCount == Tokens(mode = MODE_RANS_DICT, raw_bytes)

\* A vocabulary's fingerprint, and a crc32 of bytes: hashes taken as injective.
Stamp(vocab) == <<"stamp", vocab>>
Crc(bytes) == <<"crc", bytes>>

\* Mutant: the crc first, the fingerprint behind it.
Trailer_CrcFirst(stamped) ==
  (IF integrity THEN <<Crc(raw_bytes)>> ELSE <<>>)
    \o (IF stamped THEN <<Stamp(ours.vocab)>> ELSE <<>>)
Trailer(stamped) ==
  (IF stamped THEN <<Stamp(ours.vocab)>> ELSE <<>>)
    \o (IF integrity THEN <<Crc(raw_bytes)>> ELSE <<>>)

Finish ==
  /\ phase = "finish"
  /\ LET stamped == wants_identity_stamp(ours.vocab)
         b1 == IF stamped THEN WithFlag(PlainByte, MODE_FLAG_IDENTITY) ELSE PlainByte
         b2 == IF integrity THEN WithFlag(b1, MODE_FLAG_INTEGRITY) ELSE b1
     IN  stream' = [magic |-> TRUE, version |-> TRUE, byte |-> b2, size |-> Len(raw_bytes),
                    count |-> LZCount, body |-> [mode |-> mode, intact |-> TRUE],
                    trailer |-> Trailer(stamped)]
  /\ phase' = "transit"
  /\ UNCHANGED <<givenVars, mode, faults, plain>>

(***************************************************************************)
(* Transit: one field gets another value, a bit of the mode byte flips, or *)
(* the stream is cut, in the body or in the trailer.                       *)
(***************************************************************************)
Flipped(byte, n) == IF Has(byte, 2 ^ n) THEN byte - 2 ^ n ELSE byte + 2 ^ n
Sizes == {Len(t) : t \in Texts}
Damages ==
  {<<"magic", [stream EXCEPT !.magic = FALSE]>>, <<"version", [stream EXCEPT !.version = FALSE]>>,
   <<"body", [stream EXCEPT !.body.intact = FALSE]>>,
   <<"body", [stream EXCEPT !.body.intact = FALSE, !.trailer = <<>>]>>,
   <<"trailer", [stream EXCEPT !.trailer = <<>>]>>}
  \cup {<<"byte", [stream EXCEPT !.byte = Flipped(@, n)]>> : n \in 0 .. 7}
  \cup {<<"size", [stream EXCEPT !.size = n]>> : n \in Sizes \ {stream.size}}
  \cup {<<"count", [stream EXCEPT !.count = n]>> :
          n \in {0, stream.count + 1, (2 * stream.size) + CountSlack + 1} \ {stream.count}}
  \cup {<<"trailer", [stream EXCEPT !.trailer[n] = <<"damaged">>]>> : n \in DOMAIN stream.trailer}

Damage ==
  /\ phase = "transit" /\ Cardinality(faults) < MaxFaults
  /\ \E d \in Damages : /\ d[1] \notin faults
                        /\ faults' = faults \cup {d[1]}
                        /\ stream' = d[2]
  /\ UNCHANGED <<givenVars, phase, mode, plain>>

Arrive ==
  /\ phase = "transit"
  /\ phase' = "header"
  /\ UNCHANGED <<givenVars, mode, stream, faults, plain>>

(***************************************************************************)
(* Decoding.                                                               *)
(***************************************************************************)
header_mode == stream.byte % 32
decoderGiven == <<givenVars, mode, stream, faults>>

Raise ==
  /\ phase' = "error"
  /\ UNCHANGED <<decoderGiven, plain>>

HeaderOK == stream.magic /\ stream.version

RejectHeader == phase = "header" /\ ~HeaderOK /\ Raise

IsEmpty == stream.size = 0 \/ header_mode = MODE_RAW_FALLBACK

ReturnEmpty ==
  /\ phase = "header" /\ HeaderOK /\ IsEmpty
  /\ phase' = "done"
  /\ plain' = <<>>
  /\ UNCHANGED decoderGiven

CountFits == stream.count <= (2 * stream.size) + CountSlack

RejectCount == phase = "header" /\ HeaderOK /\ ~IsEmpty /\ ~CountFits /\ Raise

ReadHeader ==
  /\ phase = "header" /\ HeaderOK /\ ~IsEmpty /\ CountFits
  /\ phase' = "body"
  /\ UNCHANGED <<decoderGiven, plain>>

\* The body is read as it was written.
Understood ==
  /\ stream.body = [mode |-> header_mode, intact |-> TRUE]
  /\ stream.count = LZCount
  /\ header_mode \in TwoLayouts => Has(stream.byte, MODE_FLAG_EXT) = Overflows(raw_bytes)
  /\ theirs.vocab = ours.vocab

WrongDictionary == header_mode = MODE_RANS_DICT /\ theirs.dict # ours.dict

\* The tokens of the body, then the bytes they stand for: the record, or, if
\* something is wrong and nothing raises, any bytes.
DecodeBody ==
  /\ phase = "body"
  /\ header_mode = MODE_RANS_DICT => theirs.dict # NoDictionary
  /\ IF Understood THEN ~WrongDictionary /\ plain' = raw_bytes
                   ELSE plain' \in Texts
  /\ phase' = "stamp"
  /\ UNCHANGED decoderGiven

\* An unknown mode, no dictionary or another one, or a body that makes no sense.
RejectBody == phase = "body" /\ (WrongDictionary \/ ~Understood) /\ Raise

Stamped == Has(stream.byte, MODE_FLAG_IDENTITY)
Checked == Has(stream.byte, MODE_FLAG_INTEGRITY)

\* Mutant: a fingerprint is skipped, not compared.
StampMatches_Skipped == stream.trailer # <<>>
StampMatches == stream.trailer # <<>> /\ stream.trailer[1] = Stamp(theirs.vocab)

CheckStamp ==
  /\ phase = "stamp" /\ (Stamped => StampMatches)
  /\ phase' = "crc"
  /\ UNCHANGED <<decoderGiven, plain>>

RejectStamp == phase = "stamp" /\ Stamped /\ ~StampMatches /\ Raise

CrcPlace == IF Stamped THEN 2 ELSE 1

\* Mutant: the crc is compared with that of what went into compress.
CrcMatches_AnyCrc == CrcPlace <= Len(stream.trailer) /\ stream.trailer[CrcPlace] = Crc(raw_bytes)
CrcMatches == CrcPlace <= Len(stream.trailer) /\ stream.trailer[CrcPlace] = Crc(plain)

CheckIntegrity ==
  /\ phase = "crc" /\ (Checked => CrcMatches)
  /\ phase' = "length"
  /\ UNCHANGED <<decoderGiven, plain>>

RejectIntegrity == phase = "crc" /\ Checked /\ ~CrcMatches /\ Raise

LengthMatches == Len(plain) = stream.size

CheckLength ==
  /\ phase = "length" /\ LengthMatches
  /\ phase' = "done"
  /\ UNCHANGED <<decoderGiven, plain>>

RejectLength == phase = "length" /\ ~LengthMatches /\ Raise

EncodeNext == CompressEmpty \/ CompressSmallest \/ CompressForced \/ RefuseForced \/ Finish
Transit == Damage \/ Arrive
DecodeNext ==
  \/ RejectHeader \/ ReturnEmpty \/ RejectCount \/ ReadHeader
  \/ DecodeBody \/ RejectBody \/ CheckStamp \/ RejectStamp
  \/ CheckIntegrity \/ RejectIntegrity \/ CheckLength \/ RejectLength
Next == EncodeNext \/ Transit \/ DecodeNext

Spec == Init /\ [][Next]_vars

-----------------------------------------------------------------------------
(***************************************************************************)
(* An undamaged stream, read with the vocabulary it was written with and,  *)
(* if the dictionary mode won, with its dictionary, gives the record back: *)
(* no check of the decoder refuses what the encoder writes.                *)
(***************************************************************************)
RoundTrip ==
  faults = {} /\ theirs.vocab = ours.vocab /\ (mode = MODE_RANS_DICT => theirs.dict = ours.dict) =>
    phase # "error" /\ (phase = "done" => plain = raw_bytes)

(***************************************************************************)
(* Nothing but an empty record comes out of a stream that says it is       *)
(* stamped when the vocabulary is another one, whatever else is damaged.   *)
(***************************************************************************)
StampProtects ==
  phase = "done" /\ Stamped /\ theirs.vocab # ours.vocab => plain = <<>>

(***************************************************************************)
(* As long as the integrity bit itself survives, the crc32 lets the record *)
(* through or nothing: no other bytes.                                     *)
(***************************************************************************)
CorruptionCaught ==
  phase = "done" /\ Checked => plain \in {raw_bytes, <<>>}

(***************************************************************************)
(* What the README and compress say of integrity=True: decompression       *)
(* detects any corruption instead of returning wrong bytes.                *)
(***************************************************************************)
IntegrityDetects ==
  phase = "done" /\ integrity => plain = raw_bytes
=============================================================================
