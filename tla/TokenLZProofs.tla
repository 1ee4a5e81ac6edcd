---------------------------- MODULE TokenLZProofs ----------------------------
(***************************************************************************)
(* Proofs about TokenLZ, for every alphabet, hash, window, dictionary and  *)
(* token list.                                                             *)
(***************************************************************************)
EXTENDS TokenLZ, SequenceTheorems, TLAPS

-----------------------------------------------------------------------------
\* Facts about the data that no action changes.

LEMMA ByteDigit ==
  ASSUME NEW x \in Nat
  PROVE  x % Byte \in 0 .. (Byte - 1) /\ x % Byte \in Symbols
BY SizesAssumption, SymbolsAssumption

\* Two digits are enough for a distance inside the window.
LEMMA DistanceSplit ==
  ASSUME NEW x \in Nat, x < MATCH_WINDOW
  PROVE  ((x \div Byte) % Byte) * Byte + (x % Byte) = x
<1>1. Byte \in Nat /\ Byte > 0
  BY SizesAssumption
<1>2. x = Byte * (x \div Byte) + (x % Byte)
  BY <1>1
<1>3. x \div Byte \in Nat /\ x % Byte \in Nat
  BY <1>1
<1>4. x \div Byte < Byte
  BY <1>1, <1>2, <1>3, SizesAssumption
<1>5. (x \div Byte) % Byte = x \div Byte
  BY <1>1, <1>3, <1>4
<1> QED
  BY <1>1, <1>2, <1>3, <1>5

LEMMA CombinedFacts ==
  ASSUME TypeOK
  PROVE  /\ Combined \in Seq(Symbols)
         /\ D \in Nat /\ N \in Nat /\ D <= N
         /\ N = D + Len(tokens)
         /\ \A p \in 0 .. (N - 1) : At(Combined, p) \in Symbols
         /\ \A p \in 0 .. (D - 1) : At(Combined, p) = At(dictionary, p)
<1>1. dictionary \in Seq(Symbols) /\ tokens \in Seq(Symbols)
  BY SymbolsAssumption DEF TypeOK
<1> QED
  BY <1>1 DEF Combined, D, N, At

LEMMA SlotTyped ==
  ASSUME TypeOK, NEW p \in Nat, p + 1 < N
  PROVE  SlotAt(p) \in Slots
BY CombinedFacts, HashAssumption DEF SlotAt

\* The inputs are fixed, so what is computed from them is.
LEMMA InputsFixed ==
  ASSUME [Next]_vars
  PROVE  /\ dictionary' = dictionary /\ tokens' = tokens
         /\ Combined' = Combined /\ D' = D /\ N' = N
         /\ \A p : SlotAt(p)' = SlotAt(p)
<1>1. dictionary' = dictionary /\ tokens' = tokens
  BY DEF Next, EncodeNext, DecodeNext, PrimeHead, EmitMatch, EmitFlag, EmitLiteral,
         BeginDecode, BeginDecodeDamaged, DecodeLiteral, DecodeFlag, DecodeMatch,
         CopyToken, EndCopy, RejectGroup, EndDecode, vars, inputVars
<1> QED
  BY <1>1 DEF Combined, D, N, SlotAt, At

-----------------------------------------------------------------------------
\* Type correctness.  A copy is pending only at a group that is all there.

PhaseOK ==
  /\ phase \in {"prime", "encode"} => j = 0
  /\ phase = "copy" => j + 3 < Len(lz) /\ start + k < Len(output)

TypeInv == TypeOK /\ PhaseOK

LEMMA IndexTyped ==
  ASSUME TypeOK, IndexPosition
  PROVE  head' \in [Slots -> -1 .. N]
<1>1. i \in 0 .. N /\ N \in Nat
  BY CombinedFacts DEF TypeOK
<1>2. CASE i + 2 < N
  <2>1. SlotAt(i) \in Slots
    BY <1>1, <1>2, SlotTyped
  <2> QED
    BY <1>1, <1>2, <2>1 DEF IndexPosition, TypeOK
<1>3. CASE ~(i + 2 < N)
  BY <1>3 DEF IndexPosition, TypeOK
<1> QED
  BY <1>2, <1>3

LEMMA EmitTyped ==
  ASSUME TypeOK, NEW group \in Seq(Symbols), NEW m \in Nat, i + m <= N, Emit(group, m)
  PROVE  /\ lz' \in Seq(Symbols) /\ Len(lz') = Len(lz) + Len(group)
         /\ i' \in 0 .. N
         /\ marks' \in Seq([at : Nat, pos : Nat])
<1>1. lz' \in Seq(Symbols) /\ Len(lz') = Len(lz) + Len(group)
  BY DEF Emit, TypeOK
<1>2. i' \in 0 .. N
  BY CombinedFacts DEF Emit, TypeOK
<1>3. [at |-> Len(lz'), pos |-> i'] \in [at : Nat, pos : Nat]
  BY <1>1, <1>2, CombinedFacts
<1> QED
  BY <1>1, <1>2, <1>3 DEF Emit, TypeOK

LEMMA DamagedTyped ==
  ASSUME NEW s \in Seq(Symbols), NEW t \in Damaged(s)
  PROVE  t \in Seq(Symbols)
<1>1. CASE t \in {SubSeq(s, 1, n) : n \in 0 .. (Len(s) - 1)}
  BY <1>1
<1>2. CASE t \in {[s EXCEPT ![p] = c] : p \in DOMAIN s, c \in Symbols}
  BY <1>2
<1> QED
  BY <1>1, <1>2 DEF Damaged

LEMMA GroupTyped ==
  ASSUME TypeOK, AtGroup
  PROVE  GroupDist \in Nat /\ GroupLen \in Nat /\ j + 4 \in 0 .. Len(lz)
<1>1. j \in Nat /\ lz \in Seq(Symbols) /\ j + 3 < Len(lz)
  BY DEF TypeOK, AtGroup
<1>2. At(lz, j + 1) \in Nat /\ At(lz, j + 2) \in Nat /\ At(lz, j + 3) \in Nat
  <2>1. ASSUME NEW p \in Nat, p < Len(lz) PROVE At(lz, p) \in Nat
    <3>1. At(lz, p) \in Symbols
      BY <1>1, <2>1 DEF At
    <3> QED
      BY <3>1, SymbolsAssumption
  <2>2. /\ j + 1 \in Nat /\ j + 2 \in Nat /\ j + 3 \in Nat
        /\ j + 1 < Len(lz) /\ j + 2 < Len(lz) /\ j + 3 < Len(lz)
    BY <1>1
  <2>3. At(lz, j + 1) \in Nat
    BY <2>1, <2>2
  <2>4. At(lz, j + 2) \in Nat
    BY <2>1, <2>2
  <2>5. At(lz, j + 3) \in Nat
    BY <2>1, <2>2
  <2> QED
    BY <2>3, <2>4, <2>5
<1>3. Byte \in Nat
  BY SizesAssumption
<1>4. At(lz, j + 1) * Byte \in Nat
  BY <1>2, <1>3
<1> QED
  BY <1>1, <1>2, <1>4 DEF GroupDist, GroupLen

LEMMA TypeInit == Init => TypeInv
<1> SUFFICES ASSUME Init PROVE TypeInv
  OBVIOUS
<1>1. dictionary \in Seq(Symbols) /\ tokens \in Seq(Symbols)
  BY SymbolsAssumption DEF Init
<1>2. N \in Nat
  BY <1>1 DEF N, Combined
<1>3. /\ head \in [Slots -> -1 .. N] /\ i \in 0 .. N
      /\ marks \in Seq([at : Nat, pos : Nat])
      /\ lz \in Seq(Symbols) /\ Len(lz) = 0 /\ output \in Seq(Symbols)
  BY <1>2 DEF Init
<1>4. j \in 0 .. Len(lz) /\ k \in 0 .. length /\ start \in Nat /\ length \in Nat
  BY <1>3 DEF Init
<1> QED
  BY <1>3, <1>4 DEF Init, TypeInv, TypeOK, PhaseOK

LEMMA TypeStep == TypeInv /\ [Next]_vars => TypeInv'
<1> SUFFICES ASSUME TypeInv, [Next]_vars PROVE TypeInv'
  OBVIOUS
<1>1. TypeOK
  BY DEF TypeInv
<1>2. /\ dictionary' = dictionary /\ tokens' = tokens /\ N' = N /\ N \in Nat
      /\ D \in Nat /\ D <= N
  BY <1>1, CombinedFacts, InputsFixed
<1>3. CASE PrimeHead
  <2>1. CASE i + 2 < D
    <3>1. SlotAt(i) \in Slots
      BY <1>1, <1>2, <2>1, SlotTyped DEF TypeOK
    <3>2. /\ i' = i + 1 /\ i' \in 0 .. N /\ phase' = phase /\ lz' = lz
          /\ marks' = <<[at |-> 0, pos |-> i + 1]>>
          /\ head' \in [Slots -> -1 .. N]
      BY <1>1, <1>2, <1>3, <2>1, <3>1 DEF PrimeHead, TypeOK
    <3> QED
      BY <1>1, <1>2, <1>3, <3>2
      DEF PrimeHead, TypeInv, TypeOK, PhaseOK, inputVars, decoderVars
  <2>2. CASE ~(i + 2 < D)
    BY <1>1, <1>2, <1>3, <2>2 DEF PrimeHead, TypeInv, TypeOK, PhaseOK, inputVars, decoderVars
  <2> QED
    BY <2>1, <2>2
<1>4. CASE EmitMatch
  <2>1. PICK p \in 0 .. (i - 1), m \in 1 .. MAX_MATCH_LEN :
          /\ IsMatch(p, m)
          /\ Emit(<<MatchFlag, ((i - p) \div Byte) % Byte, (i - p) % Byte, m % Byte>>, m)
    BY <1>4 DEF EmitMatch
  <2>2. i - p \in Nat /\ (i - p) \div Byte \in Nat /\ m \in Nat /\ i + m <= N
    <3>1. i \in Nat /\ i - p \in Nat /\ m \in Nat
      BY <1>1, <1>2, SizesAssumption DEF TypeOK
    <3>3. i + m <= N
      BY <2>1 DEF IsMatch, IsMatchLen
    <3>2. Byte \in Nat /\ Byte > 0
      BY SizesAssumption
    <3> QED
      BY <3>1, <3>2, <3>3
  <2>3. <<MatchFlag, ((i - p) \div Byte) % Byte, (i - p) % Byte, m % Byte>> \in Seq(Symbols)
    BY <2>2, ByteDigit, SymbolsAssumption
  <2>4. /\ lz' \in Seq(Symbols) /\ i' \in 0 .. N
        /\ marks' \in Seq([at : Nat, pos : Nat])
    BY <1>1, <2>1, <2>2, <2>3, EmitTyped
  <2>5. head' \in [Slots -> -1 .. N]
    BY <1>1, <1>4, IndexTyped DEF EmitMatch
  <2> QED
    BY <1>1, <1>2, <1>4, <2>4, <2>5
    DEF EmitMatch, TypeInv, TypeOK, PhaseOK, inputVars, decoderVars
<1>5. CASE EmitFlag
  <2>1. <<MatchFlag, 0, 0, 0>> \in Seq(Symbols) /\ i + 1 <= N
    BY <1>1, <1>2, <1>5, SymbolsAssumption, SizesAssumption DEF EmitFlag, TypeOK
  <2>2. /\ lz' \in Seq(Symbols) /\ Len(lz') = Len(lz) + 4 /\ i' \in 0 .. N
        /\ marks' \in Seq([at : Nat, pos : Nat])
    BY <1>1, <1>5, <2>1, EmitTyped DEF EmitFlag
  <2>3. head' \in [Slots -> -1 .. N]
    BY <1>1, <1>5, IndexTyped DEF EmitFlag
  <2> QED
    BY <1>1, <1>2, <1>5, <2>2, <2>3
    DEF EmitFlag, TypeInv, TypeOK, PhaseOK, inputVars, decoderVars
<1>6. CASE EmitLiteral
  <2>1. <<At(Combined, i)>> \in Seq(Symbols) /\ i + 1 <= N
    BY <1>1, <1>2, <1>6, CombinedFacts DEF EmitLiteral, TypeOK
  <2>2. /\ lz' \in Seq(Symbols) /\ Len(lz') = Len(lz) + 1 /\ i' \in 0 .. N
        /\ marks' \in Seq([at : Nat, pos : Nat])
    BY <1>1, <1>6, <2>1, EmitTyped DEF EmitLiteral
  <2>3. head' \in [Slots -> -1 .. N]
    BY <1>1, <1>6, IndexTyped DEF EmitLiteral
  <2> QED
    BY <1>1, <1>2, <1>6, <2>2, <2>3
    DEF EmitLiteral, TypeInv, TypeOK, PhaseOK, inputVars, decoderVars
<1>7. CASE BeginDecode
  BY <1>1, <1>2, <1>7, SymbolsAssumption
  DEF BeginDecode, TypeInv, TypeOK, PhaseOK, inputVars, encoderVars
<1>8. CASE BeginDecodeDamaged
  <2>1. lz' \in Seq(Symbols)
    BY <1>1, <1>8, DamagedTyped DEF BeginDecodeDamaged, TypeOK
  <2> QED
    BY <1>1, <1>2, <1>8, <2>1, SymbolsAssumption
    DEF BeginDecodeDamaged, TypeInv, TypeOK, PhaseOK, inputVars
<1>9. CASE DecodeLiteral
  <2>1. At(lz, j) \in Symbols
    BY <1>1, <1>9 DEF DecodeLiteral, TypeOK, At
  <2> QED
    BY <1>1, <1>2, <1>9, <2>1
    DEF DecodeLiteral, TypeInv, TypeOK, PhaseOK, inputVars, encoderVars
<1>10. CASE DecodeFlag
  BY <1>1, <1>2, <1>10, GroupTyped, SymbolsAssumption
  DEF DecodeFlag, TypeInv, TypeOK, PhaseOK, inputVars, encoderVars
<1>11. CASE DecodeMatch
  <2>1. /\ GroupDist \in Nat /\ GroupLen \in Nat /\ j + 3 < Len(lz)
        /\ 0 < GroupDist /\ GroupDist <= Len(output)
    BY <1>1, <1>11, GroupTyped DEF DecodeMatch, AtGroup, IsCopyGroup
  <2> QED
    BY <1>1, <1>2, <1>11, <2>1
    DEF DecodeMatch, TypeInv, TypeOK, PhaseOK, inputVars, encoderVars
<1>12. CASE CopyToken
  <2>1. At(output, start + k) \in Symbols
    BY <1>1, <1>12 DEF CopyToken, TypeInv, TypeOK, PhaseOK, At
  <2> QED
    BY <1>1, <1>2, <1>12, <2>1
    DEF CopyToken, TypeInv, TypeOK, PhaseOK, inputVars, encoderVars
<1>13. CASE EndCopy
  BY <1>1, <1>2, <1>13 DEF EndCopy, TypeInv, TypeOK, PhaseOK, inputVars, encoderVars
<1>14. CASE RejectGroup
  BY <1>1, <1>2, <1>14
  DEF RejectGroup, TypeInv, TypeOK, PhaseOK, inputVars, encoderVars, decoderVars
<1>15. CASE EndDecode
  BY <1>1, <1>2, <1>15
  DEF EndDecode, TypeInv, TypeOK, PhaseOK, inputVars, encoderVars, decoderVars
<1>16. CASE UNCHANGED vars
  BY <1>1, <1>2, <1>16
  DEF vars, TypeInv, TypeOK, PhaseOK, inputVars, encoderVars, decoderVars
<1> QED
  BY <1>3, <1>4, <1>5, <1>6, <1>7, <1>8, <1>9, <1>10, <1>11, <1>12, <1>13, <1>14,
     <1>15, <1>16 DEF Next, EncodeNext, DecodeNext

\* The types of TypeOK hold for every dictionary, token list and hash.
THEOREM TypeCorrect == Spec => []TypeOK
<1>1. TypeInv => TypeOK
  BY DEF TypeInv
<1> QED
  BY <1>1, TypeInit, TypeStep, PTL DEF Spec

LEMMA TypeInvariant == Spec => []TypeInv
BY TypeInit, TypeStep, PTL DEF Spec

\* The decoder's copy loop reads inside its output, for any stream and any
\* damage: the guard on the distance is enough.
THEOREM CopyStaysInBounds == Spec => []CopyInBounds
<1>1. TypeInv => CopyInBounds
  BY DEF TypeInv, TypeOK, PhaseOK, CopyInBounds
<1> QED
  BY <1>1, TypeInvariant, PTL

-----------------------------------------------------------------------------
\* The encoder's position, and what the index may hold.

PositionOK ==
  /\ phase = "prime" => i <= D
  /\ phase # "prime" => D <= i

IndexInv == PositionOK /\ HeadSound

LEMMA IndexKept ==
  ASSUME TypeOK, HeadSound, IndexPosition, [Next]_vars,
         i' \in Nat, i < i'
  PROVE  HeadSound'
<1>1. /\ N' = N /\ N \in Nat /\ i \in Nat
      /\ \A p : SlotAt(p)' = SlotAt(p)
  BY InputsFixed, CombinedFacts DEF TypeOK
<1>2. CASE i + 2 < N
  <2>1. SlotAt(i) \in Slots /\ head \in [Slots -> -1 .. N]
    BY <1>1, <1>2, SlotTyped DEF TypeOK
  <2>2. head' = [head EXCEPT ![SlotAt(i)] = i]
    BY <1>2 DEF IndexPosition
  <2>3. ASSUME NEW h \in Slots, head'[h] # -1
        PROVE  head'[h] < i' /\ head'[h] + 1 < N /\ SlotAt(head'[h]) = h
    <3>1. CASE h = SlotAt(i)
      BY <1>1, <1>2, <2>1, <2>2, <3>1
    <3>2. CASE h # SlotAt(i)
      <4>1. head'[h] = head[h] /\ head[h] \in -1 .. N
        BY <2>1, <2>2, <3>2
      <4> QED
        BY <1>1, <2>3, <4>1 DEF HeadSound
    <3> QED
      BY <3>1, <3>2
  <2> QED
    BY <1>1, <2>3 DEF HeadSound
<1>3. CASE ~(i + 2 < N)
  <2>1. head' = head /\ head \in [Slots -> -1 .. N]
    BY <1>3 DEF IndexPosition, TypeOK
  <2> QED
    BY <1>1, <2>1 DEF HeadSound
<1> QED
  BY <1>2, <1>3

LEMMA IndexStep == TypeInv /\ IndexInv /\ [Next]_vars => IndexInv'
<1> SUFFICES ASSUME TypeInv, IndexInv, [Next]_vars PROVE IndexInv'
  OBVIOUS
<1>1. TypeOK /\ HeadSound /\ PositionOK
  BY DEF TypeInv, IndexInv
<1>2. /\ D' = D /\ N' = N /\ D \in Nat /\ N \in Nat /\ D <= N /\ i \in 0 .. N
      /\ \A p : SlotAt(p)' = SlotAt(p)
  BY <1>1, InputsFixed, CombinedFacts DEF TypeOK
<1>3. CASE PrimeHead
  <2>1. CASE i + 2 < D
    <3>1. SlotAt(i) \in Slots /\ head \in [Slots -> -1 .. N]
      BY <1>1, <1>2, <2>1, SlotTyped DEF TypeOK
    <3>2. /\ head' = [head EXCEPT ![SlotAt(i)] = i] /\ i' = i + 1
          /\ phase = "prime" /\ phase' = "prime"
      BY <1>3, <2>1 DEF PrimeHead
    <3>3. ASSUME NEW h \in Slots, head'[h] # -1
          PROVE  head'[h] < i' /\ head'[h] + 1 < N /\ SlotAt(head'[h]) = h
      <4>1. CASE h = SlotAt(i)
        BY <1>2, <2>1, <3>1, <3>2, <4>1
      <4>2. CASE h # SlotAt(i)
        <5>1. head'[h] = head[h] /\ head[h] \in -1 .. N
          BY <3>1, <3>2, <4>2
        <5> QED
          BY <1>1, <1>2, <3>2, <3>3, <5>1 DEF HeadSound
      <4> QED
        BY <4>1, <4>2
    <3> QED
      BY <1>2, <2>1, <3>2, <3>3 DEF IndexInv, PositionOK, HeadSound
  <2>2. CASE ~(i + 2 < D)
    <3>1. head' = head /\ i' = D /\ i <= D /\ phase' = "encode"
      BY <1>1, <1>3, <2>2 DEF PrimeHead, PositionOK
    <3>2. head \in [Slots -> -1 .. N]
      BY <1>1 DEF TypeOK
    <3> QED
      BY <1>1, <1>2, <3>1, <3>2 DEF IndexInv, PositionOK, HeadSound
  <2> QED
    BY <2>1, <2>2
<1>4. CASE EmitMatch \/ EmitFlag \/ EmitLiteral
  <2>1. i < i' /\ i' \in Nat
    <3>1. CASE EmitMatch
      <4>1. PICK m \in 1 .. MAX_MATCH_LEN : i' = i + m
        BY <3>1 DEF EmitMatch, Emit
      <4> QED
        BY <1>2, <4>1, SizesAssumption
    <3>2. CASE EmitFlag \/ EmitLiteral
      BY <1>2, <3>2 DEF EmitFlag, EmitLiteral, Emit
    <3> QED
      BY <1>4, <3>1, <3>2
  <2>2. IndexPosition /\ phase = "encode" /\ phase' = "encode"
    BY <1>4 DEF EmitMatch, EmitFlag, EmitLiteral
  <2>3. HeadSound'
    BY <1>1, <2>1, <2>2, IndexKept
  <2> QED
    BY <1>1, <1>2, <2>1, <2>2, <2>3 DEF IndexInv, PositionOK
<1>5. CASE \/ BeginDecode \/ BeginDecodeDamaged \/ DecodeNext \/ UNCHANGED vars
  <2>1. /\ head' = head /\ i' = i
        /\ phase' = "prime" <=> phase = "prime"
    BY <1>5 DEF BeginDecode, BeginDecodeDamaged, DecodeNext, DecodeLiteral, DecodeFlag,
       DecodeMatch, CopyToken, EndCopy, RejectGroup, EndDecode, vars, encoderVars
  <2> QED
    BY <1>1, <1>2, <2>1 DEF IndexInv, PositionOK, HeadSound
<1> QED
  BY <1>3, <1>4, <1>5 DEF Next, EncodeNext

LEMMA IndexInit == Init => IndexInv
<1> SUFFICES ASSUME Init PROVE IndexInv
  OBVIOUS
<1>1. TypeOK
  BY TypeInit DEF TypeInv
<1> QED
  BY <1>1, CombinedFacts DEF Init, IndexInv, PositionOK, HeadSound

\* Every entry of the hash index is a position the encoder has passed, filed
\* under the hash of the two tokens there.
THEOREM IndexSound == Spec => []HeadSound
<1>1. IndexInv => HeadSound
  BY DEF IndexInv
<1> QED
  BY <1>1, IndexInit, IndexStep, TypeInvariant, PTL DEF Spec

-----------------------------------------------------------------------------
(***************************************************************************)
(* Round trip.  The encoder's invariant says of every group it has         *)
(* written which tokens of Combined the group stands for; the decoder's    *)
(* says that it is between two groups, or inside a copy, with exactly the  *)
(* tokens before that place in its output.                                 *)
(***************************************************************************)

DistAt(l, p) == At(l, p + 1) * Byte + At(l, p + 2)
LenAt(l, p) == At(l, p + 3)

\* What the group of l between the marks a and b says about c.
LiteralGroup(l, c, a, b) ==
  /\ b.at = a.at + 1 /\ b.pos = a.pos + 1
  /\ At(l, a.at) = At(c, a.pos) /\ At(l, a.at) # MatchFlag

FlagGroup(l, c, a, b) ==
  /\ b.at = a.at + 4 /\ b.pos = a.pos + 1
  /\ At(l, a.at) = MatchFlag /\ DistAt(l, a.at) = 0 /\ LenAt(l, a.at) = 0
  /\ At(c, a.pos) = MatchFlag

MatchGroup(l, c, a, b) ==
  /\ b.at = a.at + 4 /\ b.pos = a.pos + LenAt(l, a.at)
  /\ At(l, a.at) = MatchFlag
  /\ 0 < DistAt(l, a.at) /\ DistAt(l, a.at) <= a.pos /\ 0 < LenAt(l, a.at)
  /\ \A o \in 0 .. (LenAt(l, a.at) - 1) :
        At(c, (a.pos - DistAt(l, a.at)) + o) = At(c, a.pos + o)

GroupOK(l, c, a, b) ==
  /\ b.at <= Len(l) /\ b.pos <= Len(c)
  /\ LiteralGroup(l, c, a, b) \/ FlagGroup(l, c, a, b) \/ MatchGroup(l, c, a, b)

Mark == [at : Nat, pos : Nat]
Last == Len(marks)

EncoderInv ==
  /\ phase = "prime" => lz = <<>> /\ Last = 1
  /\ phase \in {"prime", "encode"} => ~damaged
  /\ phase \notin {"prime", "encode"} => i = N
  /\ Last >= 1
  /\ marks[1].at = 0
  /\ phase # "prime" => marks[1].pos = D
  /\ ~damaged =>
       /\ marks[Last] = [at |-> Len(lz), pos |-> i]
       /\ \A m \in 1 .. (Last - 1) : GroupOK(lz, Combined, marks[m], marks[m + 1])

BetweenGroups(m) ==
  j = marks[m].at /\ Len(output) = marks[m].pos

InsideCopy(m) ==
  /\ m < Last /\ MatchGroup(lz, Combined, marks[m], marks[m + 1])
  /\ j = marks[m].at
  /\ length = LenAt(lz, j) /\ start = marks[m].pos - DistAt(lz, j)
  /\ Len(output) = marks[m].pos + k

DecoderInv ==
  ~damaged =>
    /\ phase # "error"
    /\ phase \in {"decode", "copy", "done"} =>
         /\ Len(output) <= N
         /\ \A p \in 0 .. (Len(output) - 1) : At(output, p) = At(Combined, p)
    /\ phase = "decode" => \E m \in 1 .. Last : BetweenGroups(m)
    /\ phase = "copy" => \E m \in 1 .. Last : InsideCopy(m)
    /\ phase = "done" => Len(output) = N

\* What follows a group does not change what it says.
LEMMA GroupKept ==
  ASSUME NEW l \in Seq(Symbols), NEW group \in Seq(Symbols), NEW c,
         NEW a \in Mark, NEW b \in Mark, GroupOK(l, c, a, b)
  PROVE  GroupOK(l \o group, c, a, b)
<1> DEFINE r == l \o group
<1>2. Len(r) = Len(l) + Len(group) /\ Len(group) \in Nat /\ Len(l) \in Nat
  OBVIOUS
<1>3. ASSUME NEW p \in Nat, p < Len(l) PROVE At(r, p) = At(l, p)
  BY <1>3 DEF At
<1>4. a.at \in Nat /\ b.at \in Nat /\ b.at <= Len(l)
  BY DEF GroupOK, Mark
<1>5. b.at <= Len(r) /\ b.pos <= Len(c)
  BY <1>2, <1>4 DEF GroupOK
<1> HIDE DEF r
<1>6. CASE LiteralGroup(l, c, a, b)
  <2>1. At(r, a.at) = At(l, a.at)
    BY <1>2, <1>3, <1>4, <1>6 DEF LiteralGroup
  <2>2. LiteralGroup(r, c, a, b)
    BY <1>6, <2>1 DEF LiteralGroup
  <2> QED
    BY <1>5, <2>2 DEF GroupOK, r
<1>7. CASE FlagGroup(l, c, a, b) \/ MatchGroup(l, c, a, b)
  <2>1. b.at = a.at + 4
    BY <1>7 DEF FlagGroup, MatchGroup
  <2>2. /\ a.at < Len(l) /\ a.at + 1 < Len(l) /\ a.at + 2 < Len(l) /\ a.at + 3 < Len(l)
        /\ a.at + 1 \in Nat /\ a.at + 2 \in Nat /\ a.at + 3 \in Nat
    BY <1>2, <1>4, <2>1
  <2>3. At(r, a.at) = At(l, a.at)
    BY <1>3, <1>4, <2>2
  <2>4. DistAt(r, a.at) = DistAt(l, a.at)
    <3>1. At(r, a.at + 1) = At(l, a.at + 1)
      BY <1>3, <2>2
    <3>2. At(r, a.at + 2) = At(l, a.at + 2)
      BY <1>3, <2>2
    <3> QED
      BY <3>1, <3>2 DEF DistAt
  <2>5. LenAt(r, a.at) = LenAt(l, a.at)
    BY <1>3, <2>2 DEF LenAt
  <2>6. FlagGroup(r, c, a, b) \/ MatchGroup(r, c, a, b)
    BY <1>7, <2>3, <2>4, <2>5 DEF FlagGroup, MatchGroup
  <2> QED
    BY <1>5, <2>6 DEF GroupOK, r
<1> QED
  BY <1>6, <1>7 DEF GroupOK

\* Writing one more good group keeps the encoder's invariant.
LEMMA EmitKept ==
  ASSUME TypeOK, EncoderInv, [Next]_vars,
         phase = "encode", phase' = "encode", damaged' = damaged,
         NEW group \in Seq(Symbols), NEW m \in Nat, i + m <= N, Emit(group, m),
         GroupOK(lz \o group, Combined, [at |-> Len(lz), pos |-> i],
                 [at |-> Len(lz) + Len(group), pos |-> i + m])
  PROVE  EncoderInv'
<1>1. /\ ~damaged /\ Last \in Nat /\ Last >= 1 /\ marks \in Seq(Mark)
      /\ marks[Last] = [at |-> Len(lz), pos |-> i]
  BY DEF EncoderInv, TypeOK, Last, Mark
<1>2. D' = D /\ Combined' = Combined
  BY InputsFixed
<1>3. lz' = lz \o group /\ Len(lz') = Len(lz) + Len(group) /\ i' = i + m
      /\ lz \in Seq(Symbols)
  BY DEF Emit, TypeOK
<1>4. marks' = Append(marks, [at |-> Len(lz) + Len(group), pos |-> i + m])
  BY <1>3 DEF Emit
<1>5. /\ Last' = Last + 1
      /\ marks'[Last'] = [at |-> Len(lz) + Len(group), pos |-> i + m]
      /\ \A q \in 1 .. Last : marks'[q] = marks[q]
  BY <1>1, <1>4 DEF Last
<1>6. ASSUME NEW q \in 1 .. (Last' - 1)
      PROVE  GroupOK(lz', Combined', marks'[q], marks'[q + 1])
  <2>1. CASE q = Last
    BY <1>1, <1>2, <1>3, <1>5, <2>1
  <2>2. CASE q # Last
    <3>1. q \in 1 .. (Last - 1) /\ q + 1 \in 1 .. Last /\ q \in 1 .. Last
      BY <1>1, <1>5, <2>2
    <3>2. marks'[q] = marks[q] /\ marks'[q + 1] = marks[q + 1]
      BY <1>5, <3>1
    <3>3. marks[q] \in Mark /\ marks[q + 1] \in Mark
      BY <1>1, <3>1 DEF Last
    <3>4. GroupOK(lz, Combined, marks[q], marks[q + 1])
      BY <1>1, <3>1 DEF EncoderInv
    <3> QED
      BY <1>2, <1>3, <3>2, <3>3, <3>4, GroupKept
  <2> QED
    BY <2>1, <2>2
<1>7. marks'[1] = marks[1]
  BY <1>1, <1>5
<1>8. marks'[Last'] = [at |-> Len(lz'), pos |-> i']
  BY <1>3, <1>5
<1>9. Last' >= 1
  BY <1>1, <1>5
<1> QED
  BY <1>1, <1>2, <1>6, <1>7, <1>8, <1>9 DEF EncoderInv

LEMMA ReadGroup ==
  ASSUME NEW l \in Seq(Symbols), NEW w \in Symbols, NEW x \in Symbols,
         NEW y \in Symbols, NEW z \in Symbols
  PROVE  LET r == l \o <<w, x, y, z>>
         IN  /\ r \in Seq(Symbols) /\ Len(r) = Len(l) + 4
             /\ At(r, Len(l)) = w
             /\ DistAt(r, Len(l)) = x * Byte + y
             /\ LenAt(r, Len(l)) = z
<1> DEFINE g == <<w, x, y, z>>
           r == l \o g
<1>1. g \in Seq(Symbols) /\ Len(g) = 4 /\ Len(l) \in Nat
  OBVIOUS
<1>2. r \in Seq(Symbols) /\ Len(r) = Len(l) + 4
  BY <1>1
<1>3. /\ r[Len(l) + 1] = g[1] /\ r[Len(l) + 2] = g[2]
      /\ r[Len(l) + 3] = g[3] /\ r[Len(l) + 4] = g[4]
  BY <1>1
<1>4. At(r, Len(l)) = w /\ At(r, Len(l) + 1) = x /\ At(r, Len(l) + 2) = y
      /\ At(r, Len(l) + 3) = z
  BY <1>1, <1>3 DEF At
<1> QED
  BY <1>2, <1>4 DEF DistAt, LenAt

LEMMA EncoderInit == Init => EncoderInv
<1> SUFFICES ASSUME Init PROVE EncoderInv
  OBVIOUS
<1> QED
  BY DEF Init, EncoderInv, Last

LEMMA EncoderStep == TypeInv /\ IndexInv /\ EncoderInv /\ [Next]_vars => EncoderInv'
<1> SUFFICES ASSUME TypeInv, IndexInv, EncoderInv, [Next]_vars PROVE EncoderInv'
  OBVIOUS
<1>1. /\ TypeOK /\ lz \in Seq(Symbols) /\ i \in 0 .. N /\ Len(lz) \in Nat
      /\ N \in Nat /\ Len(Combined) = N
  BY CombinedFacts DEF TypeInv, TypeOK, N
<1>2. D' = D /\ N' = N /\ Combined' = Combined /\ D \in Nat
  BY <1>1, InputsFixed, CombinedFacts
<1>3. CASE PrimeHead
  <2>1. /\ lz = <<>> /\ lz' = lz /\ damaged' = damaged /\ ~damaged
        /\ marks' = <<[at |-> 0, pos |-> i']>>
        /\ phase' = "prime" \/ (phase' = "encode" /\ i' = D)
    BY <1>3 DEF PrimeHead, EncoderInv, inputVars
  <2> QED
    BY <2>1, <1>2 DEF EncoderInv, Last
<1>4. CASE EmitMatch
  <2>1. PICK p \in 0 .. (i - 1), m \in 1 .. MAX_MATCH_LEN :
          /\ IsMatch(p, m)
          /\ Emit(<<MatchFlag, ((i - p) \div Byte) % Byte, (i - p) % Byte, m % Byte>>, m)
    BY <1>4 DEF EmitMatch
  <2> DEFINE x == ((i - p) \div Byte) % Byte
             y == (i - p) % Byte
             group == <<MatchFlag, x, y, m % Byte>>
             a == [at |-> Len(lz), pos |-> i]
             b == [at |-> Len(lz) + 4, pos |-> i + m]
             r == lz \o group
  <2>2. i - p \in Nat /\ i - p > 0 /\ i - p <= i /\ m \in Nat /\ m > 0 /\ m < Byte
    BY <1>1, SizesAssumption
  <2>3. i + m <= N /\ i - p < MATCH_WINDOW
        /\ \A o \in 0 .. (m - 1) : At(Combined, p + o) = At(Combined, i + o)
    BY <2>1 DEF IsMatch, IsMatchLen
  <2>4. (i - p) \div Byte \in Nat
    BY <2>2, SizesAssumption
  <2>5. x \in Symbols /\ y \in Symbols /\ m % Byte \in Symbols /\ MatchFlag \in Symbols
    BY <2>2, <2>4, ByteDigit, SymbolsAssumption
  <2>6. m % Byte = m
    BY <2>2, SizesAssumption
  <2>7. x * Byte + y = i - p
    BY <2>2, <2>3, DistanceSplit
  <2> HIDE DEF x, y
  <2>8. /\ r \in Seq(Symbols) /\ Len(r) = Len(lz) + 4 /\ At(r, Len(lz)) = MatchFlag
        /\ DistAt(r, Len(lz)) = i - p /\ LenAt(r, Len(lz)) = m
    BY <1>1, <2>5, <2>6, <2>7, ReadGroup
  <2> HIDE DEF r
  <2>9. MatchGroup(r, Combined, a, b)
    <3>1. ASSUME NEW o \in 0 .. (m - 1)
          PROVE  At(Combined, (i - (i - p)) + o) = At(Combined, i + o)
      <4>1. (i - (i - p)) + o = p + o
        BY <1>1, <2>2
      <4> QED
        BY <2>3, <4>1
    <3> QED
      BY <2>2, <2>8, <3>1 DEF MatchGroup
  <2>10. GroupOK(r, Combined, a, b)
    BY <1>1, <2>3, <2>8, <2>9 DEF GroupOK
  <2>11. group \in Seq(Symbols) /\ Len(group) = 4
    BY <2>5
  <2>12. phase = "encode" /\ phase' = "encode" /\ damaged' = damaged /\ Emit(group, m)
    BY <1>4, <2>1 DEF EmitMatch, inputVars, x, y
  <2> QED
    BY <1>1, <2>2, <2>3, <2>10, <2>11, <2>12, EmitKept DEF r
<1>5. CASE EmitFlag
  <2> DEFINE group == <<MatchFlag, 0, 0, 0>>
             a == [at |-> Len(lz), pos |-> i]
             b == [at |-> Len(lz) + 4, pos |-> i + 1]
             r == lz \o group
  <2>1. /\ phase = "encode" /\ phase' = "encode" /\ damaged' = damaged /\ Emit(group, 1)
        /\ i + 1 <= N /\ At(Combined, i) = MatchFlag
    BY <1>1, <1>5 DEF EmitFlag, inputVars
  <2>2. 0 \in Symbols /\ MatchFlag \in Symbols
    BY SizesAssumption, SymbolsAssumption
  <2>3. 0 * Byte + 0 = 0
    BY SizesAssumption
  <2>4. /\ r \in Seq(Symbols) /\ Len(r) = Len(lz) + 4 /\ At(r, Len(lz)) = MatchFlag
        /\ DistAt(r, Len(lz)) = 0 /\ LenAt(r, Len(lz)) = 0
    BY <1>1, <2>2, <2>3, ReadGroup
  <2> HIDE DEF r
  <2>5. GroupOK(r, Combined, a, b)
    BY <1>1, <2>1, <2>4 DEF GroupOK, FlagGroup
  <2>6. group \in Seq(Symbols) /\ Len(group) = 4
    BY <2>2
  <2> QED
    BY <1>1, <2>1, <2>5, <2>6, EmitKept DEF r
<1>6. CASE EmitLiteral
  <2> DEFINE group == <<At(Combined, i)>>
             a == [at |-> Len(lz), pos |-> i]
             b == [at |-> Len(lz) + 1, pos |-> i + 1]
             r == lz \o group
  <2>1. /\ phase = "encode" /\ phase' = "encode" /\ damaged' = damaged /\ Emit(group, 1)
        /\ i + 1 <= N /\ At(Combined, i) # MatchFlag /\ At(Combined, i) \in Symbols
    BY <1>1, <1>6, CombinedFacts DEF EmitLiteral, inputVars
  <2>2. group \in Seq(Symbols) /\ Len(group) = 1
    BY <2>1
  <2>3. Len(r) = Len(lz) + 1 /\ At(r, Len(lz)) = At(Combined, i)
    BY <1>1, <2>1, <2>2 DEF At
  <2> HIDE DEF r
  <2>4. GroupOK(r, Combined, a, b)
    BY <1>1, <2>1, <2>3 DEF GroupOK, LiteralGroup
  <2> QED
    BY <1>1, <2>1, <2>2, <2>4, EmitKept DEF r
<1>7. CASE BeginDecode
  <2>1. /\ phase = "encode" /\ phase' = "decode" /\ i = N /\ i' = i /\ lz' = lz
        /\ marks' = marks /\ damaged' = damaged
    BY <1>1, <1>7 DEF BeginDecode, inputVars, encoderVars
  <2> QED
    BY <1>2, <2>1 DEF EncoderInv, Last
<1>8. CASE BeginDecodeDamaged
  <2>1. /\ phase = "encode" /\ phase' = "decode" /\ i = N /\ i' = i
        /\ marks' = marks /\ damaged'
    BY <1>1, <1>8 DEF BeginDecodeDamaged
  <2> QED
    BY <1>2, <2>1 DEF EncoderInv, Last
<1>9. CASE DecodeNext \/ UNCHANGED vars
  <2>1. /\ i' = i /\ lz' = lz /\ marks' = marks /\ damaged' = damaged
        /\ phase' = phase \/ (phase \notin {"prime", "encode"} /\ phase' \notin {"prime", "encode"})
    BY <1>9 DEF DecodeNext, DecodeLiteral, DecodeFlag, DecodeMatch, CopyToken, EndCopy,
       RejectGroup, EndDecode, vars, inputVars, encoderVars
  <2> QED
    BY <1>2, <2>1 DEF EncoderInv, Last
<1> QED
  BY <1>3, <1>4, <1>5, <1>6, <1>7, <1>8, <1>9 DEF Next, EncodeNext

\* Where the decoder is between two groups: at the end, or at a good group.
LEMMA MarkFacts ==
  ASSUME TypeOK, EncoderInv, ~damaged, NEW m \in 1 .. Last
  PROVE  /\ Last \in Nat /\ marks[m].at \in Nat /\ marks[m].pos \in Nat
         /\ m = Last => marks[m] = [at |-> Len(lz), pos |-> i]
         /\ m # Last => /\ GroupOK(lz, Combined, marks[m], marks[m + 1])
                        /\ m + 1 \in 1 .. Last
                        /\ marks[m + 1].at \in Nat /\ marks[m + 1].pos \in Nat
<1>1. marks \in Seq(Mark) /\ Last = Len(marks) /\ Last \in Nat
  BY DEF TypeOK, Mark, Last
<1>2. marks[m] \in Mark
  BY <1>1
<1>3. CASE m # Last
  <2>1. m \in 1 .. (Last - 1) /\ m + 1 \in 1 .. Last
    BY <1>1, <1>3
  <2>2. marks[m + 1] \in Mark
    BY <1>1, <2>1
  <2> QED
    BY <1>1, <1>2, <1>3, <2>1, <2>2 DEF EncoderInv, Mark
<1>4. CASE m = Last
  BY <1>1, <1>2, <1>4 DEF EncoderInv, Mark
<1> QED
  BY <1>3, <1>4

LEMMA AppendPrefix ==
  ASSUME NEW s \in Seq(Symbols), NEW t \in Symbols, NEW c,
         \A p \in 0 .. (Len(s) - 1) : At(s, p) = At(c, p),
         t = At(c, Len(s))
  PROVE  /\ Len(Append(s, t)) = Len(s) + 1
         /\ \A p \in 0 .. Len(s) : At(Append(s, t), p) = At(c, p)
<1>1. Len(Append(s, t)) = Len(s) + 1 /\ Len(s) \in Nat
  OBVIOUS
<1>2. ASSUME NEW p \in 0 .. Len(s) PROVE At(Append(s, t), p) = At(c, p)
  <2>1. CASE p = Len(s)
    BY <1>1, <2>1 DEF At
  <2>2. CASE p # Len(s)
    <3>1. p \in 0 .. (Len(s) - 1)
      BY <1>1, <2>2
    <3>2. At(Append(s, t), p) = At(s, p)
      BY <3>1 DEF At
    <3> QED
      BY <3>1, <3>2
  <2> QED
    BY <2>1, <2>2
<1> QED
  BY <1>1, <1>2

LEMMA DecoderInit == Init => DecoderInv
BY DEF Init, DecoderInv

LEMMA DecoderStep ==
  TypeInv /\ IndexInv /\ EncoderInv /\ DecoderInv /\ [Next]_vars => DecoderInv'
<1> SUFFICES ASSUME TypeInv, IndexInv, EncoderInv, DecoderInv, [Next]_vars, ~damaged'
             PROVE  DecoderInv'
  BY DEF DecoderInv
<1>1. /\ TypeOK /\ PhaseOK /\ lz \in Seq(Symbols) /\ Len(lz) \in Nat /\ j \in Nat
      /\ output \in Seq(Symbols) /\ Len(output) \in Nat
      /\ N \in Nat /\ D \in Nat /\ D <= N
      /\ \A p \in 0 .. (D - 1) : At(Combined, p) = At(dictionary, p)
  BY CombinedFacts DEF TypeInv, TypeOK
<1>2. Combined' = Combined /\ N' = N /\ dictionary' = dictionary
  BY InputsFixed
<1>3. CASE PrimeHead \/ EmitMatch \/ EmitFlag \/ EmitLiteral
  BY <1>3 DEF PrimeHead, EmitMatch, EmitFlag, EmitLiteral, DecoderInv
<1>4. CASE BeginDecode
  <2>1. /\ output' = dictionary /\ phase = "encode" /\ phase' = "decode" /\ j' = j
        /\ marks' = marks
    BY <1>4 DEF BeginDecode, encoderVars
  <2>2. j = 0 /\ marks[1].at = 0 /\ marks[1].pos = D /\ Last >= 1
    <3>1. j = 0
      BY <1>1, <2>1 DEF PhaseOK
    <3>2. marks[1].at = 0 /\ marks[1].pos = D /\ Last >= 1
      BY <2>1 DEF EncoderInv
    <3> QED
      BY <3>1, <3>2
  <2>3. BetweenGroups(1)'
    BY <2>1, <2>2 DEF BetweenGroups, D
  <2>4. 1 \in 1 .. Last'
    BY <2>1, <2>2 DEF Last, EncoderInv, TypeOK
  <2>5. Len(output') = D
    BY <2>1 DEF D
  <2> QED
    BY <1>1, <1>2, <2>1, <2>3, <2>4, <2>5 DEF DecoderInv
<1>5. CASE BeginDecodeDamaged
  BY <1>5 DEF BeginDecodeDamaged
<1>6. CASE DecodeNext
  <2>1. /\ ~damaged /\ lz' = lz /\ i' = i /\ marks' = marks /\ Last' = Last
    BY <1>6 DEF DecodeNext, DecodeLiteral, DecodeFlag, DecodeMatch, CopyToken, EndCopy,
       RejectGroup, EndDecode, inputVars, encoderVars, Last
  <2>2. CASE phase = "decode"
    <3>1. /\ Len(output) <= N
          /\ \A p \in 0 .. (Len(output) - 1) : At(output, p) = At(Combined, p)
          /\ i = N
      BY <2>1, <2>2 DEF DecoderInv, EncoderInv
    <3>2. PICK m \in 1 .. Last : BetweenGroups(m)
      BY <2>1, <2>2 DEF DecoderInv
    <3> DEFINE a == marks[m]
               b == marks[m + 1]
    <3>3. j = a.at /\ Len(output) = a.pos
      BY <3>2 DEF BetweenGroups
    <3>4. CASE m = Last
      <4>1. j = Len(lz) /\ Len(output) = N
        BY <1>1, <2>1, <3>1, <3>3, <3>4, MarkFacts
      <4>2. EndDecode
        BY <1>1, <1>6, <2>2, <4>1 DEF DecodeNext, DecodeLiteral, DecodeFlag, DecodeMatch,
           CopyToken, EndCopy, RejectGroup, AtGroup
      <4>3. output' = output /\ phase' = "done"
        BY <4>2 DEF EndDecode, decoderVars
      <4> QED
        BY <1>2, <3>1, <4>1, <4>3 DEF DecoderInv
    <3>5. CASE m # Last
      <4>1. /\ GroupOK(lz, Combined, a, b) /\ m + 1 \in 1 .. Last
            /\ a.at \in Nat /\ a.pos \in Nat /\ b.at \in Nat /\ b.pos \in Nat
            /\ b.at <= Len(lz) /\ b.pos <= N
        BY <1>1, <2>1, <3>5, MarkFacts DEF GroupOK, N
      <4>2. ASSUME BetweenGroups(m + 1)', phase' = "decode",
                   Len(output') <= N,
                   \A p \in 0 .. (Len(output') - 1) : At(output', p) = At(Combined, p)
            PROVE  DecoderInv'
        BY <1>2, <2>1, <4>1, <4>2 DEF DecoderInv
      <4>3. CASE LiteralGroup(lz, Combined, a, b)
        <5>1. j < Len(lz) /\ ~AtGroup /\ At(lz, j) = At(Combined, Len(output))
              /\ b.at = j + 1 /\ b.pos = Len(output) + 1
          BY <1>1, <3>3, <4>1, <4>3 DEF LiteralGroup, AtGroup
        <5>2. DecodeLiteral
          BY <1>1, <1>6, <2>2, <5>1 DEF DecodeNext, DecodeFlag, DecodeMatch, CopyToken,
             EndCopy, RejectGroup, EndDecode
        <5>3. /\ output' = Append(output, At(lz, j)) /\ j' = j + 1 /\ phase' = "decode"
              /\ At(lz, j) \in Symbols
          BY <1>1, <2>2, <5>1, <5>2 DEF DecodeLiteral, At
        <5>4. /\ Len(output') = Len(output) + 1
              /\ \A p \in 0 .. Len(output) : At(output', p) = At(Combined, p)
          BY <1>1, <3>1, <5>1, <5>3, AppendPrefix
        <5>5. BetweenGroups(m + 1)'
          BY <2>1, <5>1, <5>3, <5>4 DEF BetweenGroups
        <5> QED
          BY <1>1, <4>1, <4>2, <5>1, <5>3, <5>4, <5>5
      <4>4. CASE FlagGroup(lz, Combined, a, b)
        <5>1. AtGroup /\ IsFlagGroup /\ MatchFlag = At(Combined, Len(output))
              /\ b.at = j + 4 /\ b.pos = Len(output) + 1
          <6>1. GroupDist = DistAt(lz, j) /\ GroupLen = LenAt(lz, j)
            BY DEF GroupDist, GroupLen, DistAt, LenAt
          <6>2. b.at = j + 4 /\ b.pos = Len(output) + 1 /\ At(lz, j) = MatchFlag
                /\ DistAt(lz, j) = 0 /\ LenAt(lz, j) = 0
                /\ At(Combined, Len(output)) = MatchFlag
            BY <3>3, <4>4 DEF FlagGroup
          <6>3. AtGroup
            BY <1>1, <4>1, <6>2 DEF AtGroup
          <6> QED
            BY <6>1, <6>2, <6>3 DEF IsFlagGroup
        <5>2. DecodeFlag
          BY <1>1, <1>6, <2>2, <5>1 DEF DecodeNext, DecodeLiteral, DecodeMatch, CopyToken,
             EndCopy, RejectGroup, EndDecode, AtGroup
        <5>3. output' = Append(output, MatchFlag) /\ j' = j + 4 /\ phase' = "decode"
          BY <2>2, <5>2 DEF DecodeFlag
        <5>4. /\ Len(output') = Len(output) + 1
              /\ \A p \in 0 .. Len(output) : At(output', p) = At(Combined, p)
          BY <1>1, <3>1, <5>1, <5>3, AppendPrefix, SymbolsAssumption
        <5>5. BetweenGroups(m + 1)'
          BY <2>1, <5>1, <5>3, <5>4 DEF BetweenGroups
        <5> QED
          BY <1>1, <4>1, <4>2, <5>1, <5>3, <5>4, <5>5
      <4>5. CASE MatchGroup(lz, Combined, a, b)
        <5>1. /\ AtGroup /\ ~IsFlagGroup /\ IsCopyGroup
              /\ GroupDist = DistAt(lz, j) /\ GroupLen = LenAt(lz, j)
          <6>1. GroupDist = DistAt(lz, j) /\ GroupLen = LenAt(lz, j)
            BY DEF GroupDist, GroupLen, DistAt, LenAt
          <6>2. b.at = j + 4 /\ At(lz, j) = MatchFlag
                /\ 0 < DistAt(lz, j) /\ DistAt(lz, j) <= Len(output) /\ 0 < LenAt(lz, j)
            BY <3>3, <4>5 DEF MatchGroup
          <6>3. AtGroup
            BY <1>1, <4>1, <6>2 DEF AtGroup
          <6>4. GroupDist # 0
            BY <6>1, <6>2
          <6> QED
            BY <6>1, <6>2, <6>3, <6>4 DEF IsFlagGroup, IsCopyGroup
        <5>2. DecodeMatch
          BY <1>1, <1>6, <2>2, <5>1 DEF DecodeNext, DecodeLiteral, DecodeFlag, CopyToken,
             EndCopy, RejectGroup, EndDecode, AtGroup
        <5>3. /\ output' = output /\ j' = j /\ phase' = "copy" /\ k' = 0
              /\ length' = LenAt(lz, j) /\ start' = a.pos - DistAt(lz, j)
          BY <3>3, <5>1, <5>2 DEF DecodeMatch
        <5>4. m < Last
          BY <1>1, <3>5, <4>1, MarkFacts, <2>1
        <5>5. InsideCopy(m)'
          BY <1>1, <1>2, <2>1, <3>3, <4>1, <4>5, <5>3, <5>4 DEF InsideCopy
        <5> QED
          BY <1>2, <2>1, <3>1, <5>3, <5>5 DEF DecoderInv
      <4> QED
        BY <4>1, <4>3, <4>4, <4>5 DEF GroupOK
    <3> QED
      BY <3>4, <3>5
  <2>3. CASE phase = "copy"
    <3>1. /\ Len(output) <= N
          /\ \A p \in 0 .. (Len(output) - 1) : At(output, p) = At(Combined, p)
      BY <2>1, <2>3 DEF DecoderInv
    <3>2. PICK m \in 1 .. Last : InsideCopy(m)
      BY <2>1, <2>3 DEF DecoderInv
    <3> DEFINE a == marks[m]
               b == marks[m + 1]
    <3>3. /\ m # Last /\ MatchGroup(lz, Combined, a, b) /\ j = a.at
          /\ length = LenAt(lz, j) /\ start = a.pos - DistAt(lz, j)
          /\ Len(output) = a.pos + k
      BY <1>1, <2>1, <3>2, MarkFacts DEF InsideCopy
    <3>4. /\ m + 1 \in 1 .. Last /\ a.at \in Nat /\ a.pos \in Nat
          /\ b.at \in Nat /\ b.pos \in Nat /\ b.at <= Len(lz) /\ b.pos <= N
      BY <1>1, <2>1, <3>3, MarkFacts DEF GroupOK, N
    <3>5. k \in 0 .. length /\ length \in Nat /\ start \in Nat
      BY <1>1 DEF TypeOK
    <3>6. CASE CopyToken
      <4>1. /\ k < length /\ output' = Append(output, At(output, start + k)) /\ k' = k + 1
            /\ phase' = "copy" /\ j' = j /\ start' = start /\ length' = length
        BY <2>3, <3>6 DEF CopyToken
      <4>2. start + k \in 0 .. (Len(output) - 1)
        BY <1>1, <2>3, <3>5 DEF PhaseOK
      <4>3. At(output, start + k) = At(Combined, start + k)
        BY <3>1, <4>2
      <4>4. At(Combined, start + k) = At(Combined, a.pos + k)
        <5>1. k \in 0 .. (LenAt(lz, j) - 1)
          BY <3>3, <3>5, <4>1
        <5>2. At(Combined, (a.pos - DistAt(lz, j)) + k) = At(Combined, a.pos + k)
          BY <3>3, <5>1 DEF MatchGroup
        <5> QED
          BY <3>3, <5>2
      <4>5. At(output, start + k) \in Symbols
        BY <1>1, <4>2 DEF At
      <4>6. /\ Len(output') = Len(output) + 1
            /\ \A p \in 0 .. Len(output) : At(output', p) = At(Combined, p)
        <5> DEFINE t == At(output, start + k)
        <5>1. t = At(Combined, Len(output))
          BY <3>3, <4>3, <4>4
        <5>2. output \in Seq(Symbols) /\ t \in Symbols /\ output' = Append(output, t)
          BY <1>1, <4>1, <4>5
        <5> HIDE DEF t
        <5> QED
          BY <3>1, <5>1, <5>2, AppendPrefix
      <4>7. InsideCopy(m)'
        <5>1. Len(output') = a.pos + k'
          <6>1. Len(output') = Len(output) + 1 /\ k' = k + 1 /\ Len(output) = a.pos + k
            BY <3>3, <4>1, <4>6
          <6>2. a.pos \in Nat /\ k \in Nat
            BY <3>4, <3>5
          <6> HIDE DEF a
          <6> QED
            BY <6>1, <6>2
        <5>2. m < Last
          BY <3>2 DEF InsideCopy
        <5> QED
          BY <1>2, <2>1, <3>3, <4>1, <5>1, <5>2 DEF InsideCopy
      <4>8. Len(output') <= N
        <5>1. b.pos = a.pos + length
          BY <3>3 DEF MatchGroup
        <5>2. Len(output') = Len(output) + 1 /\ Len(output) = a.pos + k /\ b.pos <= N
          BY <3>3, <3>4, <4>6
        <5>3. a.pos \in Nat /\ k \in Nat /\ length \in Nat /\ k < length /\ b.pos \in Nat
          BY <3>4, <3>5, <4>1
        <5> HIDE DEF a, b
        <5> QED
          BY <1>1, <5>1, <5>2, <5>3
      <4> QED
        BY <1>1, <1>2, <2>1, <4>1, <4>6, <4>7, <4>8 DEF DecoderInv
    <3>7. CASE EndCopy
      <4>1. k = length /\ output' = output /\ j' = j + 4 /\ phase' = "decode"
        BY <3>7 DEF EndCopy
      <4>2. b.at = j + 4 /\ b.pos = a.pos + length
        BY <3>3 DEF MatchGroup
      <4>3. BetweenGroups(m + 1)'
        BY <2>1, <3>3, <4>1, <4>2 DEF BetweenGroups
      <4> QED
        BY <1>2, <2>1, <3>1, <3>4, <4>1, <4>3 DEF DecoderInv
    <3> QED
      BY <1>6, <2>3, <3>6, <3>7 DEF DecodeNext, DecodeLiteral, DecodeFlag, DecodeMatch,
         RejectGroup, EndDecode
  <2> QED
    BY <1>6, <2>2, <2>3 DEF DecodeNext, DecodeLiteral, DecodeFlag, DecodeMatch,
       CopyToken, EndCopy, RejectGroup, EndDecode
<1>7. CASE UNCHANGED vars
  BY <1>2, <1>7 DEF vars, inputVars, encoderVars, decoderVars, DecoderInv, BetweenGroups,
     InsideCopy, Last
<1> QED
  BY <1>3, <1>4, <1>5, <1>6, <1>7 DEF Next, EncodeNext

IInv == TypeInv /\ IndexInv /\ EncoderInv /\ DecoderInv

LEMMA Inductive == Spec => []IInv
<1>1. Init => IInv
  BY TypeInit, IndexInit, EncoderInit, DecoderInit DEF IInv
<1>2. IInv /\ [Next]_vars => IInv'
  BY TypeStep, IndexStep, EncoderStep, DecoderStep DEF IInv
<1> QED
  BY <1>1, <1>2, PTL DEF Spec

LEMMA PrefixIsSubSeq ==
  ASSUME NEW s \in Seq(Symbols), NEW c \in Seq(Symbols), Len(s) <= Len(c),
         \A p \in 0 .. (Len(s) - 1) : At(s, p) = At(c, p)
  PROVE  s = SubSeq(c, 1, Len(s)) /\ (Len(s) = Len(c) => s = c)
<1>1. Len(s) \in Nat /\ Len(c) \in Nat
  OBVIOUS
<1>2. ASSUME NEW q \in 1 .. Len(s) PROVE s[q] = c[q]
  <2>1. q - 1 \in 0 .. (Len(s) - 1) /\ (q - 1) + 1 = q
    BY <1>1
  <2>2. At(s, q - 1) = At(c, q - 1)
    BY <2>1
  <2> QED
    BY <2>1, <2>2 DEF At
<1>3. SubSeq(c, 1, Len(s)) \in Seq(Symbols) /\ Len(SubSeq(c, 1, Len(s))) = Len(s)
      /\ \A q \in 1 .. Len(s) : SubSeq(c, 1, Len(s))[q] = c[q]
  BY <1>1
<1>4. s = SubSeq(c, 1, Len(s))
  BY <1>2, <1>3, SeqEqual
<1>5. Len(s) = Len(c) => s = c
  BY <1>2, SeqEqual
<1> QED
  BY <1>4, <1>5

\* Lossless: whatever the tokens, the dictionary and the hash, what decode has
\* written is a prefix of dictionary and tokens, and all of it when it returns.
THEOREM LZRoundTrip == Spec => []RoundTrip
<1>1. IInv => RoundTrip
  <2> SUFFICES ASSUME IInv, ~damaged, phase \in {"decode", "copy", "done"}
               PROVE  /\ Len(output) <= N
                      /\ output = SubSeq(Combined, 1, Len(output))
                      /\ phase = "done" => output = Combined
    BY DEF RoundTrip
  <2>1. /\ Len(output) <= N
        /\ \A p \in 0 .. (Len(output) - 1) : At(output, p) = At(Combined, p)
        /\ phase = "done" => Len(output) = N
    BY DEF IInv, DecoderInv
  <2>2. output \in Seq(Symbols) /\ Combined \in Seq(Symbols)
    BY CombinedFacts DEF IInv, TypeInv, TypeOK
  <2> QED
    BY <2>1, <2>2, PrefixIsSubSeq DEF N
<1> QED
  BY <1>1, Inductive, PTL

\* decode raises "corrupt LZ stream" only on a stream encode did not write.
THEOREM LZAccepts == Spec => []OwnStreamAccepted
<1>1. IInv => OwnStreamAccepted
  BY DEF IInv, DecoderInv, OwnStreamAccepted
<1> QED
  BY <1>1, Inductive, PTL

-----------------------------------------------------------------------------
\* The list grows by a third at most: one step of the loop spends 4 on 3 tokens
\* or more, or 1 on 1; only an escaped flag spends 4 on 1.

LEMMA ExpansionStep ==
  IInv /\ ExpansionBound /\ [Next]_vars => ExpansionBound'
<1> SUFFICES ASSUME IInv, ExpansionBound, [Next]_vars, phase' = "encode",
                    \A p \in 0 .. (N - 1) : At(Combined, p) # MatchFlag
             PROVE  3 * Len(lz') <= 4 * (i' - D)
  BY InputsFixed DEF ExpansionBound, At
<1>1. /\ TypeOK /\ i \in 0 .. N /\ D \in Nat /\ N \in Nat /\ lz \in Seq(Symbols)
      /\ Len(lz) \in Nat
  BY CombinedFacts DEF IInv, TypeInv, TypeOK
<1>2. CASE PrimeHead
  BY <1>1, <1>2 DEF PrimeHead, IInv, EncoderInv
<1>3. CASE EmitMatch
  <2>1. PICK p \in 0 .. (i - 1), m \in 1 .. MAX_MATCH_LEN :
          /\ IsMatch(p, m)
          /\ Emit(<<MatchFlag, ((i - p) \div Byte) % Byte, (i - p) % Byte, m % Byte>>, m)
    BY <1>3 DEF EmitMatch
  <2>2. m >= 3 /\ i' = i + m /\ m \in Nat
    BY <2>1, SizesAssumption DEF IsMatch, Emit
  <2>3. Len(lz') = Len(lz) + 4
    <3>1. i - p \in Nat /\ (i - p) \div Byte \in Nat
      BY <1>1, SizesAssumption
    <3>2. <<MatchFlag, ((i - p) \div Byte) % Byte, (i - p) % Byte, m % Byte>> \in Seq(Symbols)
      BY <2>2, <3>1, ByteDigit, SymbolsAssumption
    <3> QED
      BY <1>1, <2>1, <3>2 DEF Emit
  <2>4. 3 * Len(lz) <= 4 * (i - D)
    BY <1>3 DEF EmitMatch, ExpansionBound
  <2> QED
    BY <1>1, <2>2, <2>3, <2>4
<1>4. CASE EmitFlag
  BY <1>1, <1>4 DEF EmitFlag
<1>5. CASE EmitLiteral
  <2>1. i' = i + 1 /\ Len(lz') = Len(lz) + 1 /\ 3 * Len(lz) <= 4 * (i - D)
    BY <1>1, <1>5 DEF EmitLiteral, Emit, ExpansionBound
  <2> QED
    BY <1>1, <2>1
<1>6. CASE BeginDecode \/ BeginDecodeDamaged \/ DecodeNext \/ UNCHANGED vars
  <2>1. phase = "encode" /\ lz' = lz /\ i' = i
    BY <1>6 DEF BeginDecode, BeginDecodeDamaged, DecodeNext, DecodeLiteral, DecodeFlag,
       DecodeMatch, CopyToken, EndCopy, RejectGroup, EndDecode, vars, encoderVars
  <2> QED
    BY <2>1 DEF ExpansionBound
<1> QED
  BY <1>2, <1>3, <1>4, <1>5, <1>6 DEF Next, EncodeNext

\* The encoder never writes a list longer than four thirds of its input.
THEOREM LZExpansion == Spec => []ExpansionBound
<1>1. Init => ExpansionBound
  BY DEF Init, ExpansionBound
<1> QED
  BY <1>1, ExpansionStep, Inductive, PTL DEF Spec

=============================================================================
