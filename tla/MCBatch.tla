------------------------------- MODULE MCBatch -------------------------------
(***************************************************************************)
(* Small constants for Batch: bytes of two bits and words of two bytes, so *)
(* that the streams of four records may or may not fit a word, the number  *)
(* of records has two digits, and lengths are of one or two bytes, one of  *)
(* them with the bytes of a magic. A stream is a magic one byte away from  *)
(* that of a batch, a version, a mode (EmptyMode stands for                *)
(* MODE_RAW_FALLBACK), the size of the record and the record; like the     *)
(* decoder, MCDecompress returns the empty record for the empty mode and   *)
(* for a size of 0 before it reads on.                                     *)
(***************************************************************************)
EXTENDS Batch

MCRecords == {<<>>, <<0>>, <<1, 0, 1>>}
MCBatchMagic == <<2>>
MCIndexedMagic == <<2, 2>>
TOKZ == <<3, VERSION>>
CodedMode == 0
EmptyMode == 2
SizeAt == Len(TOKZ) + 1
MCCompress(r) == TOKZ \o <<IF r = <<>> THEN EmptyMode ELSE CodedMode>> \o Uint32(Len(r)) \o r
MCDecompress(s) ==
  LET size == FromBytes(Slice(s, SizeAt, SizeAt + WORD))
      body == SizeAt + WORD
  IN  IF ~IsPrefix(TOKZ, s) \/ Len(s) < body THEN Broken
      ELSE IF s[SizeAt] = EmptyMode \/ size = 0 THEN <<>>
      ELSE IF s[SizeAt] = CodedMode /\ Len(s) >= body + size THEN Slice(s, body, body + size)
      ELSE Broken
=============================================================================
