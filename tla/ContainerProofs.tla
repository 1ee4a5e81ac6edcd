--------------------------- MODULE ContainerProofs ---------------------------
(***************************************************************************)
(* Proofs about one TOKZ stream: an undamaged one gives the record back,   *)
(* the stamp and the crc32 let nothing through that they are there to      *)
(* stop, for every record, vocabulary and dictionary and for any number of *)
(* damaged fields.                                                         *)
(***************************************************************************)
EXTENDS Container, TLAPS

\* The modes a record can win with: the candidates are among them.
CodedModes == {MODE_RAW_TOKENS, MODE_RANS_SPARSE, MODE_RANS_DICT, MODE_RANS_ADAPTIVE,
               MODE_RANS_SPLIT, MODE_RANS_ADAPTIVE_SPLIT, MODE_RANS_PPM, MODE_RANS_PPM_SPLIT}

\* There is a stream, on the way or at the decoder.
Written == phase \notin {"compress", "finish", "refused"}

TypeOK ==
  /\ raw_bytes \in Texts /\ integrity \in BOOLEAN
  /\ ours \in Models /\ theirs \in Models
  /\ phase \in {"compress", "finish", "transit", "header", "body", "stamp", "crc",
                "length", "done", "error", "refused"}
  /\ plain \in Texts \cup {<<>>}

\* What the steps of the encoder leave to the next ones.
Chosen ==
  /\ phase = "compress" => mode = MODE_RAW_FALLBACK
  /\ phase = "finish" => raw_bytes # <<>>
  /\ (phase = "finish" \/ (Written /\ raw_bytes # <<>>)) => mode \in CodedModes

(***************************************************************************)
(* Damage may cut a trailer off or make garbage of it, but it does not     *)
(* forge the fingerprint of another vocabulary or the crc32 of other bytes *)
(* (hashes are taken as injective).                                        *)
(***************************************************************************)
TrailerItems == {Stamp(ours.vocab), Crc(raw_bytes), <<"damaged">>}
Fields == {"magic", "version", "byte", "size", "count", "body", "trailer"}
NoForgery ==
  Written => DOMAIN stream = Fields /\ stream.trailer \in Seq(TrailerItems)

(***************************************************************************)
(* What the encoder writes: the fields a decoder depends on, in terms of   *)
(* what went into compress.                                                *)
(***************************************************************************)
Bit(b) == IF b THEN 1 ELSE 0
ByteOf(m, ext, identity, checked) == m + (32 * ext) + (64 * identity) + (128 * checked)
TwoLayered == mode \in TwoLayouts /\ Overflows(raw_bytes)

WrittenEmpty == stream.magic /\ stream.version /\ stream.size = 0
WrittenCoded ==
  /\ stream.magic /\ stream.version
  /\ stream.byte = ByteOf(mode, Bit(TwoLayered), Bit(wants_identity_stamp(ours.vocab)),
                         Bit(integrity))
  /\ stream.size = Len(raw_bytes) /\ stream.count = LZCount
  /\ stream.body = [mode |-> mode, intact |-> TRUE]
  /\ stream.trailer = Trailer(wants_identity_stamp(ours.vocab))

Intact ==
  Written /\ faults = {} =>
    IF raw_bytes = <<>> THEN WrittenEmpty ELSE WrittenCoded

\* What the checks that are behind the decoder have established.
StampPassed == Stamped => StampMatches
CrcPassed == Checked => CrcMatches
Passed ==
  /\ phase \in {"body", "stamp", "crc", "length"} => ~IsEmpty
  /\ phase \in {"crc", "length"} => StampPassed
  /\ phase = "length" => CrcPassed
  /\ phase = "done" => plain = <<>> \/ (StampPassed /\ CrcPassed)

(***************************************************************************)
(* The decoder was given what it needs, and the stream came through.  Then *)
(* it has not raised, and what it has is the record.                       *)
(***************************************************************************)
Served ==
  faults = {} /\ theirs.vocab = ours.vocab /\ (mode = MODE_RANS_DICT => theirs.dict = ours.dict)

Delivered ==
  Served => /\ phase # "error"
            /\ phase \in {"stamp", "crc", "length", "done"} => plain = raw_bytes

IInv == TypeOK /\ Chosen /\ NoForgery /\ Intact /\ Passed /\ Delivered

-----------------------------------------------------------------------------
(***************************************************************************)
(* The mode byte.                                                          *)
(***************************************************************************)

\* What the decoder reads out of a byte made of a mode and three flags.
LEMMA ByteRead ==
  ASSUME NEW m \in 0 .. 31, NEW e \in {0, 1}, NEW s \in {0, 1}, NEW i \in {0, 1}
  PROVE  /\ ByteOf(m, e, s, i) % 32 = m
         /\ Has(ByteOf(m, e, s, i), MODE_FLAG_EXT) <=> e = 1
         /\ Has(ByteOf(m, e, s, i), MODE_FLAG_IDENTITY) <=> s = 1
         /\ Has(ByteOf(m, e, s, i), MODE_FLAG_INTEGRITY) <=> i = 1
BY SMTT(60) DEF ByteOf, Has, MODE_FLAG_EXT, MODE_FLAG_IDENTITY, MODE_FLAG_INTEGRITY

\* A flag set on a byte that does not have it is added to it.
LEMMA ByteWritten ==
  ASSUME NEW m \in 0 .. 31, NEW e \in {0, 1}, NEW s \in {0, 1}
  PROVE  /\ WithFlag(m, MODE_FLAG_EXT) = m + 32
         /\ WithFlag(m + (32 * e), MODE_FLAG_IDENTITY) = m + (32 * e) + 64
         /\ WithFlag(m + (32 * e) + (64 * s), MODE_FLAG_INTEGRITY) = m + (32 * e) + (64 * s) + 128
<1>1. ~Has(m, MODE_FLAG_EXT)
  BY DEF Has, MODE_FLAG_EXT
<1>2. ~Has(m + (32 * e), MODE_FLAG_IDENTITY)
  BY DEF Has, MODE_FLAG_IDENTITY
<1>3. ~Has(m + (32 * e) + (64 * s), MODE_FLAG_INTEGRITY)
  BY DEF Has, MODE_FLAG_INTEGRITY
<1> QED
  BY <1>1, <1>2, <1>3 DEF WithFlag, MODE_FLAG_EXT, MODE_FLAG_IDENTITY, MODE_FLAG_INTEGRITY

LEMMA CodedModeRange ==
  /\ CodedModes \subseteq 0 .. 8
  /\ MODE_RAW_FALLBACK \notin CodedModes
  /\ TwoLayouts \subseteq CodedModes
BY DEF CodedModes, TwoLayouts, MODE_RAW_TOKENS, MODE_RANS_SPARSE, MODE_RANS_DICT,
       MODE_RANS_ADAPTIVE, MODE_RANS_SPLIT, MODE_RANS_ADAPTIVE_SPLIT, MODE_RANS_PPM,
       MODE_RANS_PPM_SPLIT, MODE_RAW_FALLBACK

\* A record is coded with one of the candidates, and none is the fallback.
LEMMA CandidatesCode ==
  ASSUME NEW n \in DOMAIN Candidates
  PROVE  Candidates[n] \in CodedModes
<1> DEFINE first == <<MODE_RAW_TOKENS, MODE_RANS_SPARSE, MODE_RANS_SPLIT,
                      MODE_RANS_ADAPTIVE_SPLIT>>
           longer == IF Tokens(FALSE, raw_bytes) >= ADAPTIVE_MIN_SYMBOLS
                       THEN <<MODE_RANS_ADAPTIVE, MODE_RANS_PPM, MODE_RANS_PPM_SPLIT>> ELSE <<>>
           primed == IF ours.dict # NoDictionary THEN <<MODE_RANS_DICT>> ELSE <<>>
<1>1. first \in Seq(CodedModes) /\ longer \in Seq(CodedModes) /\ primed \in Seq(CodedModes)
  <2>1. <<>> \in Seq(CodedModes) /\ <<MODE_RANS_DICT>> \in Seq(CodedModes)
    BY DEF CodedModes
  <2>2. <<MODE_RANS_ADAPTIVE, MODE_RANS_PPM, MODE_RANS_PPM_SPLIT>> \in Seq(CodedModes)
    BY DEF CodedModes
  <2>3. first \in Seq(CodedModes)
    BY DEF CodedModes
  <2>4. longer \in Seq(CodedModes)
    BY <2>1, <2>2, Zenon
  <2>5. primed \in Seq(CodedModes)
    BY <2>1, Zenon
  <2> QED
    BY <2>3, <2>4, <2>5
<1>2. Candidates = first \o longer \o primed
  BY DEF Candidates
<1> HIDE DEF first, longer, primed
<1>3. Candidates \in Seq(CodedModes)
  BY <1>1, <1>2
<1> QED
  BY <1>3

-----------------------------------------------------------------------------
LEMMA IInit == Init => IInv
<1> SUFFICES ASSUME Init PROVE IInv
  OBVIOUS
<1>1. TypeOK /\ Chosen
  BY DEF Init, TypeOK, Chosen, Written
<1>2. NoForgery /\ Intact /\ Passed /\ Delivered
  BY DEF Init, NoForgery, Intact, Passed, Delivered, Written
<1> QED
  BY <1>1, <1>2 DEF IInv

(***************************************************************************)
(* The encoder.                                                            *)
(***************************************************************************)
LEMMA CompressEmptyStep ==
  ASSUME IInv, CompressEmpty
  PROVE  IInv'
<1> USE DEF IInv
<1>1. /\ phase = "compress" /\ raw_bytes = <<>> /\ phase' = "transit"
      /\ stream' = [magic |-> TRUE, version |-> TRUE, byte |-> MODE_RAW_FALLBACK, size |-> 0,
                    count |-> 0, body |-> [mode |-> MODE_RAW_FALLBACK, intact |-> TRUE],
                    trailer |-> <<>>]
      /\ UNCHANGED <<raw_bytes, integrity, ours, theirs, mode, faults, plain>>
  BY DEF CompressEmpty, givenVars
<1>2. TypeOK' /\ Chosen'
  BY <1>1 DEF TypeOK, Chosen, Written
<1>3. NoForgery'
  BY <1>1 DEF NoForgery, TrailerItems, Fields
<1>4. Intact'
  BY <1>1 DEF Intact, WrittenEmpty
<1>5. Passed' /\ Delivered'
  BY <1>1 DEF Passed, Delivered
<1> QED
  BY <1>2, <1>3, <1>4, <1>5

LEMMA ChooseStep ==
  ASSUME IInv, CompressSmallest \/ CompressForced \/ RefuseForced
  PROVE  IInv'
<1> USE DEF IInv
<1>1. /\ phase = "compress" /\ raw_bytes # <<>>
      /\ UNCHANGED <<raw_bytes, integrity, ours, theirs, stream, faults, plain>>
  BY DEF CompressSmallest, CompressForced, RefuseForced, givenVars
<1>2. \/ phase' = "finish" /\ \E n \in DOMAIN Candidates : mode' = Candidates[n]
      \/ phase' = "refused"
  BY DEF CompressSmallest, CompressForced, RefuseForced
<1>3. phase' = "finish" => mode' \in CodedModes
  BY <1>2, CandidatesCode
<1>4. TypeOK' /\ Chosen'
  BY <1>1, <1>2, <1>3 DEF TypeOK, Chosen, Written
<1>5. NoForgery' /\ Intact' /\ Passed' /\ Delivered'
  BY <1>1, <1>2 DEF NoForgery, Intact, Passed, Delivered, Written
<1> QED
  BY <1>4, <1>5

LEMMA FinishStep ==
  ASSUME IInv, Finish
  PROVE  IInv'
<1> USE DEF IInv
<1> DEFINE stamped == wants_identity_stamp(ours.vocab)
           b1 == IF stamped THEN WithFlag(PlainByte, MODE_FLAG_IDENTITY) ELSE PlainByte
           b2 == IF integrity THEN WithFlag(b1, MODE_FLAG_INTEGRITY) ELSE b1
<1>1. /\ phase = "finish" /\ phase' = "transit" /\ raw_bytes # <<>> /\ mode \in CodedModes
      /\ stream' = [magic |-> TRUE, version |-> TRUE, byte |-> b2, size |-> Len(raw_bytes),
                    count |-> LZCount, body |-> [mode |-> mode, intact |-> TRUE],
                    trailer |-> Trailer(stamped)]
      /\ UNCHANGED <<raw_bytes, integrity, ours, theirs, mode, faults, plain>>
  BY DEF Finish, givenVars, Chosen
<1>2. TypeOK' /\ Chosen'
  BY <1>1 DEF TypeOK, Chosen, Written
<1>3. Trailer(stamped) \in Seq(TrailerItems)
  <2>1. <<>> \in Seq(TrailerItems) /\ <<Stamp(ours.vocab)>> \in Seq(TrailerItems)
        /\ <<Crc(raw_bytes)>> \in Seq(TrailerItems)
    BY DEF TrailerItems
  <2> QED
    BY <2>1 DEF Trailer
<1>4. TrailerItems' = TrailerItems
  BY <1>1 DEF TrailerItems, Stamp, Crc
<1>5. NoForgery'
  BY <1>1, <1>3, <1>4 DEF NoForgery, Fields
<1>6. b2 = ByteOf(mode, Bit(TwoLayered), Bit(stamped), Bit(integrity))
  <2>1. mode \in 0 .. 31
    BY <1>1, CodedModeRange
  <2>2. Bit(TwoLayered) \in {0, 1} /\ Bit(stamped) \in {0, 1}
    BY DEF Bit
  <2>3. PlainByte = mode + (32 * Bit(TwoLayered))
    BY <2>1, ByteWritten DEF PlainByte, TwoLayered, Bit
  <2>4. b1 = mode + (32 * Bit(TwoLayered)) + (64 * Bit(stamped))
    BY <2>1, <2>2, <2>3, ByteWritten DEF Bit
  <2> QED
    BY <2>1, <2>2, <2>4, ByteWritten DEF Bit, ByteOf
<1> HIDE DEF b2
<1>7. WrittenCoded'
  <2>1. /\ TwoLayered' = TwoLayered /\ LZCount' = LZCount
        /\ (wants_identity_stamp(ours.vocab))' = stamped /\ Trailer(stamped)' = Trailer(stamped)
    BY <1>1 DEF TwoLayered, TwoLayouts, LZCount, wants_identity_stamp, Trailer, Stamp, Crc
  <2> QED
    BY <1>1, <1>6, <2>1 DEF WrittenCoded
<1>8. Intact'
  BY <1>1, <1>7 DEF Intact
<1>9. Passed' /\ Delivered'
  BY <1>1 DEF Passed, Delivered
<1> QED
  BY <1>2, <1>5, <1>8, <1>9

(***************************************************************************)
(* Transit.                                                                *)
(***************************************************************************)
LEMMA DamageStep ==
  ASSUME IInv, Damage
  PROVE  IInv'
<1> USE DEF IInv
<1>1. /\ phase = "transit" /\ \E d \in Damages : stream' = d[2]
      /\ faults' # {}
      /\ UNCHANGED <<raw_bytes, integrity, ours, theirs, phase, mode, plain>>
  BY DEF Damage, givenVars
<1>2. TypeOK' /\ Chosen'
  BY <1>1 DEF TypeOK, Chosen, Written
<1>3. DOMAIN stream = Fields /\ stream.trailer \in Seq(TrailerItems)
  BY <1>1 DEF NoForgery, Written
<1>4. <<>> \in Seq(TrailerItems) /\ <<"damaged">> \in TrailerItems
  BY DEF TrailerItems
<1> DEFINE Unforged(sent) == DOMAIN sent = Fields /\ sent.trailer \in Seq(TrailerItems)
<1>5. ASSUME NEW d \in Damages
      PROVE  Unforged(d[2])
  <2>1. /\ Unforged([stream EXCEPT !.magic = FALSE]) /\ Unforged([stream EXCEPT !.version = FALSE])
        /\ \A n : /\ Unforged([stream EXCEPT !.byte = Flipped(@, n)])
                  /\ Unforged([stream EXCEPT !.size = n]) /\ Unforged([stream EXCEPT !.count = n])
    BY <1>3 DEF Fields
  <2>2. /\ Unforged([stream EXCEPT !.body.intact = FALSE])
        /\ Unforged([stream EXCEPT !.body.intact = FALSE, !.trailer = <<>>])
        /\ Unforged([stream EXCEPT !.trailer = <<>>])
    BY <1>3, <1>4 DEF Fields
  <2>3. ASSUME NEW n \in DOMAIN stream.trailer
        PROVE  Unforged([stream EXCEPT !.trailer[n] = <<"damaged">>])
    <3>1. ASSUME NEW items, NEW item \in items, NEW t \in Seq(items), NEW m \in DOMAIN t
          PROVE  [t EXCEPT ![m] = item] \in Seq(items)
      OBVIOUS
    <3>2. [stream.trailer EXCEPT ![n] = <<"damaged">>] \in Seq(TrailerItems)
      BY <1>3, <1>4, <3>1
    <3> QED
      BY <1>3, <3>2 DEF Fields
  <2> HIDE DEF Unforged
  <2>4. \E field, sent : d = <<field, sent>> /\ Unforged(sent)
    BY <2>1, <2>2, <2>3, Zenon DEF Damages
  <2> QED
    BY <2>4
<1>6. NoForgery'
  <2>1. TrailerItems' = TrailerItems
    BY <1>1 DEF TrailerItems, Stamp, Crc
  <2> QED
    BY <1>1, <1>5, <2>1 DEF NoForgery, Fields
<1>7. Intact' /\ Passed' /\ Delivered'
  BY <1>1 DEF Intact, Passed, Delivered, Served
<1> QED
  BY <1>2, <1>6, <1>7

LEMMA ArriveStep ==
  ASSUME IInv, Arrive
  PROVE  IInv'
<1>1. /\ phase = "transit" /\ phase' = "header"
      /\ UNCHANGED <<raw_bytes, integrity, ours, theirs, mode, stream, faults, plain>>
  BY DEF Arrive, givenVars
<1> QED
  BY <1>1 DEF IInv, TypeOK, Chosen, NoForgery, TrailerItems, Fields, Stamp, Crc,
              Intact, Written, WrittenEmpty, WrittenCoded, TwoLayered, TwoLayouts, Trailer,
              LZCount, wants_identity_stamp, Passed, Delivered, Served

(***************************************************************************)
(* The decoder.  First what it finds in a stream that came through.        *)
(***************************************************************************)
LEMMA IntactReads ==
  ASSUME TypeOK, Chosen, Intact, Written, Served, raw_bytes # <<>>
  PROVE  /\ HeaderOK /\ CountFits /\ Understood /\ ~WrongDictionary /\ ~IsEmpty
         /\ StampPassed /\ (plain = raw_bytes => CrcPassed /\ LengthMatches)
<1>1. WrittenCoded /\ mode \in CodedModes /\ mode \in 0 .. 8
  BY CodedModeRange DEF Intact, Chosen, Served
<1>2. raw_bytes \in Seq(Nat) /\ Len(raw_bytes) \in Nat \ {0}
  BY ContainerAssumption DEF TypeOK
<1>3. LZCount \in 0 .. ((2 * Len(raw_bytes)) + CountSlack)
  BY ContainerAssumption DEF TypeOK, LZCount
<1>4. HeaderOK /\ CountFits
  BY <1>1, <1>2, <1>3 DEF WrittenCoded, HeaderOK, CountFits
<1>5. /\ header_mode = mode
      /\ Has(stream.byte, MODE_FLAG_EXT) <=> TwoLayered
      /\ Stamped <=> wants_identity_stamp(ours.vocab)
      /\ Checked <=> integrity
  <2> DEFINE e == Bit(TwoLayered)  s == Bit(wants_identity_stamp(ours.vocab))
             i == Bit(integrity)
  <2>1. /\ e \in {0, 1} /\ (e = 1 <=> TwoLayered)
        /\ s \in {0, 1} /\ (s = 1 <=> wants_identity_stamp(ours.vocab))
        /\ i \in {0, 1} /\ (i = 1 <=> integrity)
    BY DEF Bit
  <2>2. mode \in 0 .. 31 /\ stream.byte = ByteOf(mode, e, s, i)
    BY <1>1 DEF WrittenCoded
  <2> HIDE DEF e, s, i
  <2>3. /\ stream.byte % 32 = mode
        /\ Has(stream.byte, MODE_FLAG_EXT) <=> e = 1
        /\ Has(stream.byte, MODE_FLAG_IDENTITY) <=> s = 1
        /\ Has(stream.byte, MODE_FLAG_INTEGRITY) <=> i = 1
    <3>1. \A m \in 0 .. 31 :
             /\ ByteOf(m, e, s, i) % 32 = m
             /\ Has(ByteOf(m, e, s, i), MODE_FLAG_EXT) <=> e = 1
             /\ Has(ByteOf(m, e, s, i), MODE_FLAG_IDENTITY) <=> s = 1
             /\ Has(ByteOf(m, e, s, i), MODE_FLAG_INTEGRITY) <=> i = 1
      BY <2>1, ByteRead
    <3> QED
      BY <2>2, <3>1
  <2> QED
    BY <2>1, <2>3 DEF header_mode, Stamped, Checked
<1>6. ~IsEmpty
  BY <1>1, <1>2, <1>5, CodedModeRange DEF WrittenCoded, IsEmpty
<1>7. Understood
  <2>1. header_mode \in TwoLayouts => Has(stream.byte, MODE_FLAG_EXT) = Overflows(raw_bytes)
    <3>1. Overflows(raw_bytes) \in BOOLEAN
      BY ContainerAssumption DEF TypeOK
    <3>2. mode \in TwoLayouts => (Has(stream.byte, MODE_FLAG_EXT) <=> Overflows(raw_bytes))
      BY <1>5 DEF TwoLayered
    <3> QED
      BY <1>5, <3>1, <3>2 DEF Has
  <2> QED
    BY <1>1, <1>5, <2>1 DEF Understood, WrittenCoded, Served
<1>8. ~WrongDictionary
  BY <1>5 DEF WrongDictionary, Served
<1>9. StampPassed
  BY <1>1, <1>5 DEF StampPassed, StampMatches, WrittenCoded, Trailer, Stamp, Served
<1>10. plain = raw_bytes => CrcPassed
  BY <1>1, <1>5 DEF CrcPassed, CrcMatches, CrcPlace, WrittenCoded, Trailer
<1>11. plain = raw_bytes => LengthMatches
  BY <1>1 DEF LengthMatches, WrittenCoded
<1> QED
  BY <1>4, <1>6, <1>7, <1>8, <1>9, <1>10, <1>11

\* An empty record leaves the decoder at the header.
LEMMA EmptyReads ==
  ASSUME Intact, Written, Served, raw_bytes = <<>>
  PROVE  HeaderOK /\ IsEmpty
BY DEF Intact, WrittenEmpty, HeaderOK, IsEmpty, Served

\* The decoder changes no part of the stream, nor what both sides were given.
LEMMA DecoderLeaves ==
  ASSUME IInv, UNCHANGED decoderGiven, Written, Written'
  PROVE  /\ NoForgery' /\ Intact' /\ (Chosen')
         /\ IsEmpty' = IsEmpty /\ StampPassed' = StampPassed /\ Served' = Served
         /\ UNCHANGED <<raw_bytes, integrity, ours, theirs, mode, stream, faults>>
<1> USE DEF IInv
<1>1. UNCHANGED <<raw_bytes, integrity, ours, theirs, mode, stream, faults>>
  BY DEF decoderGiven, givenVars
<1>2. NoForgery'
  BY <1>1 DEF NoForgery, TrailerItems, Stamp, Crc, Fields
<1>3. Intact'
  BY <1>1 DEF Intact, WrittenEmpty, WrittenCoded, TwoLayered, TwoLayouts, LZCount,
              wants_identity_stamp, Trailer, Stamp, Crc
<1>4. Chosen'
  BY <1>1 DEF Chosen, Written
<1>5. IsEmpty' = IsEmpty /\ Served' = Served
  BY <1>1 DEF IsEmpty, header_mode, Served
<1>6. StampPassed' = StampPassed
  BY <1>1 DEF StampPassed, Stamped, StampMatches, Stamp
<1> QED
  BY <1>1, <1>2, <1>3, <1>4, <1>5, <1>6

\* It raises only when something is wrong.
LEMMA RaiseStep ==
  ASSUME IInv, \/ RejectHeader \/ RejectCount \/ RejectBody \/ RejectStamp
               \/ RejectIntegrity \/ RejectLength
  PROVE  IInv'
<1> USE DEF IInv
<1>1. Raise /\ phase \in {"header", "body", "stamp", "crc", "length"}
  BY DEF RejectHeader, RejectCount, RejectBody, RejectStamp, RejectIntegrity, RejectLength
<1>2. phase' = "error" /\ plain' = plain /\ UNCHANGED decoderGiven /\ Written /\ Written'
  BY <1>1 DEF Raise, Written
<1>3. NoForgery' /\ Intact' /\ Chosen' /\ Served' = Served
      /\ UNCHANGED <<raw_bytes, integrity, ours, theirs>>
  BY <1>2, DecoderLeaves
<1>4. TypeOK' /\ Passed'
  BY <1>2, <1>3 DEF TypeOK, Passed
<1>5. ~Served
  <2> SUFFICES ASSUME Served PROVE FALSE
    OBVIOUS
  <2>1. CASE raw_bytes = <<>>
    BY <1>2, <2>1, EmptyReads
       DEF RejectHeader, RejectCount, RejectBody, RejectStamp, RejectIntegrity, RejectLength, Passed
  <2>2. CASE raw_bytes # <<>>
    <3>1. /\ HeaderOK /\ CountFits /\ Understood /\ ~WrongDictionary /\ StampPassed
          /\ plain = raw_bytes => CrcPassed /\ LengthMatches
      BY <1>2, <2>2, IntactReads
    <3>2. phase \in {"crc", "length"} => plain = raw_bytes
      BY DEF Delivered
    <3> QED
      BY <3>1, <3>2 DEF RejectHeader, RejectCount, RejectBody, RejectStamp, RejectIntegrity,
                        RejectLength, StampPassed, CrcPassed
  <2> QED
    BY <2>1, <2>2
<1>6. Delivered'
  BY <1>3, <1>5 DEF Delivered
<1> QED
  BY <1>3, <1>4, <1>6

LEMMA HeaderStep ==
  ASSUME IInv, ReturnEmpty \/ ReadHeader
  PROVE  IInv'
<1> USE DEF IInv
<1>1. /\ phase = "header" /\ UNCHANGED decoderGiven /\ Written /\ Written'
      /\ \/ IsEmpty /\ phase' = "done" /\ plain' = <<>>
         \/ ~IsEmpty /\ phase' = "body" /\ plain' = plain
  BY DEF ReturnEmpty, ReadHeader, Written, decoderGiven
<1>2. /\ NoForgery' /\ Intact' /\ Chosen' /\ Served' = Served /\ IsEmpty' = IsEmpty
      /\ UNCHANGED <<raw_bytes, integrity, ours, theirs>>
  BY <1>1, DecoderLeaves
<1>3. TypeOK' /\ Passed'
  BY <1>1, <1>2 DEF TypeOK, Passed
<1>4. Served /\ IsEmpty => raw_bytes = <<>>
  BY <1>1, IntactReads
<1>5. Delivered'
  BY <1>1, <1>2, <1>4 DEF Delivered
<1> QED
  BY <1>2, <1>3, <1>5

LEMMA DecodeBodyStep ==
  ASSUME IInv, DecodeBody
  PROVE  IInv'
<1> USE DEF IInv
<1>1. /\ phase = "body" /\ phase' = "stamp" /\ UNCHANGED decoderGiven /\ Written /\ Written'
      /\ IF Understood THEN plain' = raw_bytes ELSE plain' \in Texts
  BY DEF DecodeBody, Written
<1>2. /\ NoForgery' /\ Intact' /\ Chosen' /\ Served' = Served /\ IsEmpty' = IsEmpty
      /\ UNCHANGED <<raw_bytes, integrity, ours, theirs>>
  BY <1>1, DecoderLeaves
<1>3. TypeOK' /\ Passed'
  BY <1>1, <1>2 DEF TypeOK, Passed
<1>4. Served => plain' = raw_bytes
  <2>1. Served => raw_bytes # <<>>
    BY <1>1, EmptyReads DEF Passed
  <2> QED
    BY <1>1, <2>1, IntactReads
<1>5. Delivered'
  BY <1>1, <1>2, <1>4 DEF Delivered
<1> QED
  BY <1>2, <1>3, <1>5

LEMMA CheckStep ==
  ASSUME IInv, CheckStamp \/ CheckIntegrity \/ CheckLength
  PROVE  IInv'
<1> USE DEF IInv
<1>1. /\ UNCHANGED decoderGiven /\ plain' = plain /\ Written /\ Written'
      /\ \/ phase = "stamp" /\ phase' = "crc" /\ StampPassed
         \/ phase = "crc" /\ phase' = "length" /\ CrcPassed
         \/ phase = "length" /\ phase' = "done"
  BY DEF CheckStamp, CheckIntegrity, CheckLength, Written, StampPassed, CrcPassed
<1>2. /\ NoForgery' /\ Intact' /\ Chosen' /\ Served' = Served
      /\ IsEmpty' = IsEmpty /\ StampPassed' = StampPassed
      /\ UNCHANGED <<raw_bytes, integrity, ours, theirs, stream>>
  BY <1>1, DecoderLeaves
<1>3. CrcPassed' = CrcPassed
  BY <1>1, <1>2 DEF CrcPassed, Checked, CrcMatches, CrcPlace, Stamped, Crc
<1>4. TypeOK' /\ Passed'
  BY <1>1, <1>2, <1>3 DEF TypeOK, Passed
<1>5. Delivered'
  BY <1>1, <1>2 DEF Delivered
<1> QED
  BY <1>2, <1>4, <1>5

-----------------------------------------------------------------------------
LEMMA Inductive == Spec => []IInv
<1>1. IInv /\ [Next]_vars => IInv'
  <2> SUFFICES ASSUME IInv, [Next]_vars PROVE IInv'
    OBVIOUS
  <2>1. CASE EncodeNext
    BY <2>1, CompressEmptyStep, ChooseStep, FinishStep DEF EncodeNext
  <2>2. CASE Transit
    BY <2>2, DamageStep, ArriveStep DEF Transit
  <2>3. CASE DecodeNext
    BY <2>3, RaiseStep, HeaderStep, DecodeBodyStep, CheckStep DEF DecodeNext
  <2>4. CASE UNCHANGED vars
    BY <2>4 DEF vars, givenVars, IInv, TypeOK, Chosen, NoForgery, TrailerItems, Fields, Stamp,
                Crc, Intact, Written, WrittenEmpty, WrittenCoded, TwoLayered, TwoLayouts,
                Trailer, LZCount, wants_identity_stamp, Passed, IsEmpty, header_mode,
                StampPassed, Stamped, StampMatches, CrcPassed, Checked, CrcMatches, CrcPlace,
                Delivered, Served
  <2> QED
    BY <2>1, <2>2, <2>3, <2>4 DEF Next
<1> QED
  BY <1>1, IInit, PTL DEF Spec

(***************************************************************************)
(* What the encoder writes, no check of the decoder refuses, and it gives  *)
(* the record back: whatever the mode, the flags and the trailers.         *)
(***************************************************************************)
THEOREM RoundTripTheorem == Spec => []RoundTrip
<1>1. IInv => RoundTrip
  BY DEF IInv, Delivered, Served, RoundTrip
<1> QED
  BY <1>1, Inductive, PTL

(***************************************************************************)
(* A stamped stream, however damaged besides, yields no byte under another *)
(* vocabulary: the fingerprint it would need is in no trailer.             *)
(***************************************************************************)
THEOREM StampTheorem == Spec => []StampProtects
<1>1. IInv => StampProtects
  <2> SUFFICES ASSUME IInv, phase = "done", Stamped, theirs.vocab # ours.vocab, plain # <<>>
               PROVE  FALSE
    BY DEF StampProtects
  <2>1. stream.trailer # <<>> /\ stream.trailer[1] = Stamp(theirs.vocab)
    BY DEF IInv, Passed, StampPassed, StampMatches
  <2>2. stream.trailer[1] \in TrailerItems
    BY <2>1 DEF IInv, NoForgery, Written
  <2> QED
    BY <2>1, <2>2 DEF TrailerItems, Stamp, Crc
<1> QED
  BY <1>1, Inductive, PTL

(***************************************************************************)
(* As long as the stream says that it carries a crc32, the record comes    *)
(* out or nothing: the only crc32 in a trailer is that of the record.      *)
(***************************************************************************)
THEOREM CorruptionTheorem == Spec => []CorruptionCaught
<1>1. IInv => CorruptionCaught
  <2> SUFFICES ASSUME IInv, phase = "done", Checked, plain # <<>>
               PROVE  plain = raw_bytes
    BY DEF CorruptionCaught
  <2>1. CrcPlace \in 1 .. Len(stream.trailer) /\ stream.trailer[CrcPlace] = Crc(plain)
    BY DEF IInv, Passed, CrcPassed, CrcMatches, CrcPlace
  <2>2. stream.trailer[CrcPlace] \in TrailerItems
    BY <2>1 DEF IInv, NoForgery, Written
  <2> QED
    BY <2>1, <2>2 DEF TrailerItems, Stamp, Crc
<1> QED
  BY <1>1, Inductive, PTL
=============================================================================
