--------------------------- MODULE NormalizeProofs ---------------------------
(***************************************************************************)
(* Proofs about Normalize, for every alphabet, table size and count array: *)
(* its types, that the scaling and the fixup never take a counted symbol   *)
(* out of the table nor put another one in, and that the finished table is *)
(* a partition of the RANS_M slots into one interval per counted symbol.   *)
(***************************************************************************)
EXTENDS Normalize, FiniteSetTheorems, TLAPS

LEMMA RawTyped ==
  ASSUME TypeOK
  PROVE  raw \in [Symbols -> Nat] /\ total \in Nat
BY NormalizeAssumption DEF TypeOK

LEMMA ActiveFacts ==
  ASSUME TypeOK
  PROVE  IsFiniteSet(Active) /\ distinct \in Nat /\ (Active # {} => distinct > 0)
<1>1. IsFiniteSet(Symbols)
  BY FS_Interval, NormalizeAssumption DEF Symbols
<1>2. IsFiniteSet(Active)
  BY <1>1, FS_Subset DEF Active
<1> QED
  BY <1>2, FS_CardinalityType, FS_EmptySet DEF distinct

\* The ranks are the positions 0 .. distinct - 1, one for each active symbol.
LEMMA RankRange ==
  ASSUME TypeOK, NEW s \in Active
  PROVE  Rank(s) \in Nat /\ Rank(s) < distinct
<1> DEFINE B == {r \in Active : r < s}
<1>1. B \in SUBSET Active /\ B # Active
  <2>1. s \in Int
    BY NormalizeAssumption DEF Active, Symbols
  <2>2. s \notin B
    BY <2>1
  <2> QED
    BY <2>2
<1> HIDE DEF B
<1>2. IsFiniteSet(B) /\ Cardinality(B) <= Cardinality(Active)
      /\ Cardinality(B) # Cardinality(Active)
  BY <1>1, ActiveFacts, FS_Subset
<1>3. Cardinality(B) \in Nat
  BY <1>2, FS_CardinalityType
<1> QED
  BY <1>2, <1>3, ActiveFacts DEF Rank, B, distinct

LEMMA RankIncreases ==
  ASSUME TypeOK, NEW r \in Active, NEW s \in Active, r < s
  PROVE  Rank(r) < Rank(s)
<1> DEFINE A == {q \in Active : q < r}
           B == {q \in Active : q < s}
<1>1. r \in Int /\ s \in Int /\ \A q \in Active : q \in Int
  BY NormalizeAssumption DEF Active, Symbols
<1>2. A \in SUBSET B /\ A # B
  <2>1. \A q \in Active : q < r => q < s
    <3> SUFFICES ASSUME NEW q \in Active, q < r PROVE q < s
      OBVIOUS
    <3>1. q \in Int
      BY <1>1
    <3> HIDE DEF A, B
    <3> QED
      BY <1>1, <3>1
  <2>2. r \in B /\ r \notin A
    BY <1>1
  <2> QED
    BY <2>1, <2>2
<1>3. B \in SUBSET Active
  OBVIOUS
<1> HIDE DEF A, B
<1>4. IsFiniteSet(B)
  BY <1>3, ActiveFacts, FS_Subset
<1>5. IsFiniteSet(A) /\ Cardinality(A) <= Cardinality(B) /\ Cardinality(A) # Cardinality(B)
  BY <1>2, <1>4, FS_Subset
<1>6. Cardinality(A) \in Nat /\ Cardinality(B) \in Nat
  BY <1>4, <1>5, FS_CardinalityType
<1> QED
  BY <1>5, <1>6 DEF Rank, A, B

LEMMA RankInjective ==
  ASSUME TypeOK, NEW r \in Active, NEW s \in Active, Rank(r) = Rank(s)
  PROVE  r = s
<1>1. r \in Int /\ s \in Int /\ Rank(r) \in Nat
  BY NormalizeAssumption, RankRange DEF Active, Symbols
<1>2. CASE r < s
  BY <1>1, <1>2, RankIncreases
<1>3. CASE s < r
  BY <1>1, <1>3, RankIncreases
<1> QED
  BY <1>1, <1>2, <1>3

LEMMA ScaledFacts ==
  ASSUME TypeOK, total # 0, NEW s \in Symbols
  PROVE  Scaled(raw[s]) \in 1 .. RANS_M
<1>1. raw[s] \in Nat /\ total \in Nat /\ RANS_M \in Nat /\ RANS_M >= 2
  BY RawTyped, NormalizeAssumption
<1> DEFINE p == raw[s] * RANS_M
           f == p \div total
<1>2. p \in Nat
  BY <1>1
<1> HIDE DEF p
<1>3. f \in Nat
  BY <1>1, <1>2
<1> HIDE DEF f
<1>4. Scaled(raw[s]) = IF f = 0 THEN 1 ELSE IF f > RANS_M - 1 THEN RANS_M - 1 ELSE f
  BY DEF Scaled, f, p
<1> QED
  BY <1>1, <1>3, <1>4

-----------------------------------------------------------------------------
(***************************************************************************)
(* What the frequencies f of the m symbols of lowest rank sum to, rank by  *)
(* rank.  No step of the code computes this function; the invariant says   *)
(* that there is one, and each step makes the next out of it.              *)
(***************************************************************************)
PartialSums(P, m, f) ==
  /\ P \in [0 .. m -> Nat] /\ P[0] = 0
  /\ \A s \in Active : Rank(s) < m => P[Rank(s) + 1] = P[Rank(s)] + f[s]
  /\ \A i, j \in 0 .. m : i <= j => P[i] <= P[j]

\* One more symbol, the next in rank.
LEMMA ExtendSums ==
  ASSUME TypeOK, NEW s \in Active, NEW m \in Nat, Rank(s) = m,
         NEW f, NEW g \in [Symbols -> Nat], \A r \in Active \ {s} : g[r] = f[r],
         NEW P, PartialSums(P, m, f)
  PROVE  \E Q : PartialSums(Q, m + 1, g) /\ Q[m + 1] = P[m] + g[s]
<1> DEFINE Q == [i \in 0 .. (m + 1) |-> IF i <= m THEN P[i] ELSE P[m] + g[s]]
<1>1. g[s] \in Nat /\ m \in 0 .. m /\ P[m] \in Nat /\ \A i \in 0 .. m : P[i] \in Nat
  BY DEF Active, PartialSums
<1>2. /\ Q \in [0 .. (m + 1) -> Nat] /\ Q[m + 1] = P[m] + g[s]
      /\ \A i \in 0 .. m : Q[i] = P[i]
  BY <1>1
<1> HIDE DEF Q
<1>3. ASSUME NEW r \in Active, Rank(r) < m + 1
      PROVE  Q[Rank(r) + 1] = Q[Rank(r)] + g[r]
  <2>1. Rank(r) \in Nat
    BY RankRange
  <2>2. CASE r = s
    BY <1>1, <1>2, <2>2
  <2>3. CASE r # s
    <3>1. Rank(r) # m
      BY <2>3, RankInjective
    <3>2. Rank(r) \in 0 .. m /\ Rank(r) + 1 \in 0 .. m /\ Rank(r) < m
      BY <1>3, <2>1, <3>1
    <3>3. P[Rank(r) + 1] = P[Rank(r)] + f[r]
      BY <3>2 DEF PartialSums
    <3> QED
      BY <1>2, <2>3, <3>2, <3>3
  <2> QED
    BY <2>2, <2>3
<1>4. ASSUME NEW i \in 0 .. (m + 1), NEW j \in 0 .. (m + 1), i <= j
      PROVE  Q[i] <= Q[j]
  <2>1. CASE j <= m
    <3>1. i \in 0 .. m /\ j \in 0 .. m
      BY <1>4, <2>1
    <3> QED
      BY <1>2, <1>4, <3>1 DEF PartialSums
  <2>2. CASE j = m + 1 /\ i = m + 1
    BY <1>1, <1>2, <2>2
  <2>3. CASE j = m + 1 /\ i <= m
    <3>1. i \in 0 .. m /\ P[i] <= P[m]
      BY <1>1, <2>3 DEF PartialSums
    <3> QED
      BY <1>1, <1>2, <2>3, <3>1
  <2> QED
    BY <1>4, <2>1, <2>2, <2>3
<1>5. Q[0] = 0
  BY <1>2 DEF PartialSums
<1> QED
  BY <1>2, <1>3, <1>4, <1>5 DEF PartialSums

\* A turn of the fixup moves all that lies above its symbol by one.
LEMMA ShiftSums ==
  ASSUME TypeOK, NEW s \in Active, NEW d \in {0 - 1, 1}, NEW m \in Nat, Rank(s) < m,
         NEW f \in [Symbols -> Nat], NEW g \in [Symbols -> Nat], g[s] = f[s] + d,
         \A r \in Active \ {s} : g[r] = f[r],
         NEW P, PartialSums(P, m, f)
  PROVE  \E Q : PartialSums(Q, m, g) /\ Q[m] = P[m] + d
<1> DEFINE k == Rank(s)
           Q == [i \in 0 .. m |-> IF i <= k THEN P[i] ELSE P[i] + d]
<1>1. k \in Nat /\ k \in 0 .. m /\ k + 1 \in 0 .. m /\ m \in 0 .. m
  BY RankRange
<1>2. f[s] \in Nat /\ f[s] + d \in Nat /\ \A i \in 0 .. m : P[i] \in Nat
  BY DEF Active, PartialSums
<1>3. P[k + 1] = P[k] + f[s]
  BY DEF PartialSums
<1>4. \A i \in 0 .. m : i > k => P[k] + f[s] <= P[i]
  BY <1>1, <1>3 DEF PartialSums
<1> HIDE DEF k
<1>5. /\ Q \in [0 .. m -> Nat] /\ Q[m] = P[m] + d
      /\ \A i \in 0 .. m : Q[i] = IF i <= k THEN P[i] ELSE P[i] + d
  <2>1. ASSUME NEW i \in 0 .. m, i > k
        PROVE  P[i] + d \in Nat
    BY <1>1, <1>2, <1>4, <2>1
  <2>2. k < m
    BY DEF k
  <2> QED
    BY <1>1, <1>2, <2>1, <2>2
<1> HIDE DEF Q
<1>6. ASSUME NEW r \in Active, Rank(r) < m
      PROVE  Q[Rank(r) + 1] = Q[Rank(r)] + g[r]
  <2>1. Rank(r) \in 0 .. m /\ Rank(r) + 1 \in 0 .. m /\ P[Rank(r) + 1] = P[Rank(r)] + f[r]
    BY <1>6, RankRange DEF PartialSums
  <2>2. f[r] \in Nat /\ g[r] \in Nat
    BY DEF Active
  <2>3. CASE r = s
    <3>1. Rank(r) = k /\ g[r] = f[r] + d
      BY <2>3 DEF k
    <3>2. Q[k] = P[k] /\ Q[k + 1] = P[k + 1] + d
      BY <1>1, <1>5
    <3>3. P[k] \in Nat /\ P[k + 1] = P[k] + f[r]
      BY <1>1, <1>2, <2>1, <3>1
    <3> QED
      BY <2>2, <3>1, <3>2, <3>3
  <2>4. CASE r # s
    <3>1. Rank(r) # k /\ Rank(r) \in Nat
      BY <2>4, RankInjective, RankRange DEF k
    <3>2. /\ P[Rank(r)] \in Nat /\ P[Rank(r) + 1] \in Nat /\ g[r] = f[r]
          /\ P[Rank(r) + 1] = P[Rank(r)] + g[r]
      BY <1>2, <2>1, <2>4
    <3>3. CASE Rank(r) < k
      <4>1. Q[Rank(r)] = P[Rank(r)] /\ Q[Rank(r) + 1] = P[Rank(r) + 1]
        BY <1>1, <1>5, <2>1, <3>1, <3>3
      <4> QED
        BY <3>2, <4>1
    <3>4. CASE Rank(r) > k
      <4>1. Q[Rank(r)] = P[Rank(r)] + d /\ Q[Rank(r) + 1] = P[Rank(r) + 1] + d
        BY <1>1, <1>5, <2>1, <3>1, <3>4
      <4> QED
        BY <2>2, <3>2, <4>1
    <3> QED
      BY <1>1, <3>1, <3>3, <3>4
  <2> QED
    BY <2>3, <2>4
<1>7. ASSUME NEW i \in 0 .. m, NEW j \in 0 .. m, i <= j
      PROVE  Q[i] <= Q[j]
  <2>1. P[i] <= P[j] /\ P[i] \in Nat /\ P[j] \in Nat
    BY <1>2, <1>7 DEF PartialSums
  <2>2. CASE i <= k /\ j > k
    <3>1. P[i] <= P[k] /\ P[k] + f[s] <= P[j] /\ P[k] \in Nat
      BY <1>1, <1>2, <1>4, <2>2 DEF PartialSums
    <3>2. Q[i] = P[i] /\ Q[j] = P[j] + d
      BY <1>1, <1>5, <2>2
    <3> QED
      BY <1>2, <2>1, <3>1, <3>2
  <2>3. CASE ~(i <= k /\ j > k)
    <3>1. (Q[i] = P[i] /\ Q[j] = P[j]) \/ (Q[i] = P[i] + d /\ Q[j] = P[j] + d)
      BY <1>1, <1>5, <1>7, <2>3
    <3> QED
      BY <2>1, <3>1
  <2> QED
    BY <2>2, <2>3
<1>8. Q[0] = 0
  BY <1>1, <1>5 DEF PartialSums
<1> QED
  BY <1>5, <1>6, <1>7, <1>8 DEF PartialSums

-----------------------------------------------------------------------------
(***************************************************************************)
(* The scaling loop has given a frequency to the symbols before its        *)
(* counter; after it, every counted symbol has one.                        *)
(***************************************************************************)
IInv ==
  /\ TypeOK
  /\ \A s \in Symbols : freq[s] > 0 => raw[s] > 0
  /\ phase = "start" => n = 0
  /\ phase \in {"scale", "fixup", "layout"} => total # 0
  /\ phase = "scale" => \A s \in Active : Rank(s) < n => freq[s] > 0
  /\ phase \in {"fixup", "layout"} \/ (phase = "done" /\ total # 0) =>
       \A s \in Active : freq[s] > 0

LEMMA IInit == Init => IInv
<1> SUFFICES ASSUME Init PROVE IInv
  OBVIOUS
<1>1. raw \in [Symbols -> Nat]
  BY NormalizeAssumption DEF Init
<1>2. distinct \in Nat
  <2>1. IsFiniteSet(Symbols)
    BY FS_Interval, NormalizeAssumption DEF Symbols
  <2>2. IsFiniteSet(Active)
    BY <2>1, FS_Subset DEF Active
  <2> QED
    BY <2>2, FS_CardinalityType DEF distinct
<1>3. TypeOK
  BY <1>2, NormalizeAssumption DEF Init, TypeOK
<1> QED
  BY <1>3 DEF Init, IInv

LEMMA IStep == IInv /\ [Next]_vars => IInv'
<1> SUFFICES ASSUME IInv, [Next]_vars PROVE IInv'
  OBVIOUS
<1>1. /\ TypeOK /\ distinct \in Nat /\ (Active # {} => distinct > 0)
      /\ raw \in [Symbols -> Nat] /\ total \in Nat /\ RANS_M \in Nat /\ RANS_M >= 2
  BY ActiveFacts, RawTyped, NormalizeAssumption DEF IInv
<1>2. raw' = raw /\ total' = total
  BY DEF Next, vars, ReturnEmpty, Reject, Start, ScaleOne, EndScale, FixupTurn, EndFixup,
         LayoutOne, EndLayout
<1>3. Active' = Active /\ distinct' = distinct /\ \A s : Rank(s)' = Rank(s)
  BY <1>2 DEF Active, distinct, Rank
<1>4. CASE ReturnEmpty \/ Reject \/ Start
  <2>1. /\ phase = "start" /\ phase' \in {"done", "error", "scale"}
        /\ phase' = "done" => total = 0
        /\ phase' = "scale" => total # 0
        /\ UNCHANGED <<freq, current_sum, diff, cursor, n, cum, end, slots>>
    BY <1>4 DEF ReturnEmpty, Reject, Start
  <2>2. TypeOK'
    BY <1>1, <1>2, <1>3, <2>1 DEF TypeOK
  <2>3. \A s \in Active : Rank(s) \in Nat
    BY <1>1, RankRange
  <2> QED
    BY <1>1, <1>2, <1>3, <2>1, <2>2, <2>3 DEF IInv
<1>5. CASE ScaleOne
  <2>1. PICK s \in Active :
          /\ Rank(s) = n
          /\ freq' = [freq EXCEPT ![s] = Scaled(raw[s])]
          /\ current_sum' = current_sum + Scaled(raw[s])
    BY <1>5 DEF ScaleOne
  <2>2. /\ phase = "scale" /\ phase' = "scale" /\ n < distinct /\ n' = n + 1 /\ total # 0
        /\ UNCHANGED <<diff, cursor, cum, end, slots>>
    BY <1>5 DEF ScaleOne, IInv
  <2>3. s \in Symbols /\ raw[s] > 0 /\ Scaled(raw[s]) \in 1 .. RANS_M
    BY <1>1, <2>2, ScaledFacts DEF Active
  <2>4. /\ freq' \in [Symbols -> 0 .. RANS_M] /\ freq'[s] > 0
        /\ \A r \in Symbols : r # s => freq'[r] = freq[r]
    BY <1>1, <2>1, <2>3 DEF TypeOK
  <2>5. TypeOK'
    BY <1>1, <1>2, <1>3, <2>1, <2>2, <2>3, <2>4 DEF TypeOK
  <2>6. ASSUME NEW r \in Active, Rank(r) < n + 1 PROVE freq'[r] > 0
    <3>1. Rank(r) \in Nat /\ n \in Nat /\ r \in Symbols
      BY <1>1, RankRange DEF TypeOK, Active
    <3>2. CASE Rank(r) = n
      BY <1>1, <2>1, <2>4, <3>2, RankInjective
    <3>3. CASE Rank(r) < n
      BY <2>2, <2>4, <3>1, <3>3 DEF IInv
    <3> QED
      BY <2>6, <3>1, <3>2, <3>3
  <2> QED
    BY <1>1, <1>2, <1>3, <2>2, <2>3, <2>4, <2>5, <2>6 DEF IInv
<1>6. CASE EndScale
  <2>1. /\ phase = "scale" /\ phase' = "fixup" /\ n = distinct /\ total # 0
        /\ diff' = RANS_M - current_sum
        /\ UNCHANGED <<freq, current_sum, cursor, n, cum, end, slots>>
    BY <1>6 DEF EndScale, IInv
  <2>2. TypeOK'
    BY <1>1, <1>2, <1>3, <2>1 DEF TypeOK
  <2>3. \A s \in Active : freq[s] > 0
    BY <1>1, <2>1, RankRange DEF IInv
  <2> QED
    BY <1>1, <1>2, <1>3, <2>1, <2>2, <2>3 DEF IInv
<1>7. CASE FixupTurn
  <2>1. PICK s \in Active :
          \/ CanRaise(s) /\ freq' = [freq EXCEPT ![s] = @ + 1] /\ diff' = diff - 1
          \/ CanLower(s) /\ freq' = [freq EXCEPT ![s] = @ - 1] /\ diff' = diff + 1
          \/ freq' = freq /\ diff' = diff
    BY <1>7 DEF FixupTurn
  <2>2. /\ phase = "fixup" /\ phase' = "fixup" /\ total # 0
        /\ cursor' = (cursor + 1) % distinct
        /\ UNCHANGED <<current_sum, n, cum, end, slots>>
    BY <1>7 DEF FixupTurn, IInv
  <2>3. distinct > 0 /\ cursor' \in Nat
    BY <1>1, <2>2 DEF TypeOK
  <2>4. s \in Symbols /\ raw[s] > 0 /\ freq[s] \in 0 .. RANS_M
    BY <1>1 DEF Active, TypeOK
  <2>5. /\ freq' \in [Symbols -> 0 .. RANS_M] /\ diff' \in Int
        /\ \A r \in Symbols : freq[r] > 0 => freq'[r] > 0
        /\ \A r \in Symbols : freq'[r] > 0 => raw[r] > 0
    <3>1. CASE CanRaise(s) /\ freq' = [freq EXCEPT ![s] = @ + 1] /\ diff' = diff - 1
      <4>1. freq[s] + 1 \in 0 .. RANS_M /\ freq[s] + 1 > 0
        BY <1>1, <2>3, <2>4, <3>1 DEF CanRaise, true_ceiling
      <4> QED
        BY <1>1, <2>4, <3>1, <4>1 DEF TypeOK, IInv
    <3>2. CASE CanLower(s) /\ freq' = [freq EXCEPT ![s] = @ - 1] /\ diff' = diff + 1
      <4>1. freq[s] - 1 \in 0 .. RANS_M /\ freq[s] - 1 > 0
        BY <1>1, <2>4, <3>2 DEF CanLower
      <4> QED
        BY <1>1, <2>4, <3>2, <4>1 DEF TypeOK, IInv
    <3>3. CASE freq' = freq /\ diff' = diff
      BY <1>1, <3>3 DEF TypeOK, IInv
    <3> QED
      BY <2>1, <3>1, <3>2, <3>3
  <2>6. TypeOK'
    BY <1>1, <1>2, <1>3, <2>2, <2>3, <2>5 DEF TypeOK
  <2>7. \A r \in Active : freq'[r] > 0
    BY <2>2, <2>5 DEF IInv, Active
  <2> QED
    BY <1>1, <1>2, <1>3, <2>2, <2>5, <2>6, <2>7 DEF IInv
<1>8. CASE EndFixup
  <2>1. /\ phase = "fixup" /\ phase' = "layout" /\ n' = 0 /\ total # 0
        /\ UNCHANGED <<freq, current_sum, diff, cursor, cum, end, slots>>
    BY <1>8 DEF EndFixup, IInv
  <2>2. TypeOK'
    BY <1>1, <1>2, <1>3, <2>1 DEF TypeOK
  <2> QED
    BY <1>1, <1>2, <1>3, <2>1, <2>2 DEF IInv
<1>9. CASE LayoutOne
  <2>1. PICK s \in Active :
          /\ cum' = [cum EXCEPT ![s] = end]
          /\ end' = end + freq[s]
          /\ slots' = slots \o [p \in 1 .. freq[s] |-> s]
    BY <1>9 DEF LayoutOne
  <2>2. /\ phase = "layout" /\ phase' = "layout" /\ n < distinct /\ n' = n + 1 /\ total # 0
        /\ UNCHANGED <<freq, current_sum, diff, cursor>>
    BY <1>9 DEF LayoutOne, IInv
  <2>3. s \in Symbols /\ freq[s] \in Nat
    BY <1>1 DEF Active, TypeOK
  <2>4. [p \in 1 .. freq[s] |-> s] \in Seq(Symbols)
    BY <2>3
  <2>5. TypeOK'
    BY <1>1, <1>2, <1>3, <2>1, <2>2, <2>3, <2>4 DEF TypeOK
  <2> QED
    BY <1>1, <1>2, <1>3, <2>2, <2>5 DEF IInv
<1>10. CASE EndLayout
  <2>1. /\ phase = "layout" /\ phase' = "done" /\ total # 0
        /\ UNCHANGED <<freq, current_sum, diff, cursor, n, cum, end, slots>>
    BY <1>10 DEF EndLayout, IInv
  <2>2. TypeOK'
    BY <1>1, <1>2, <1>3, <2>1 DEF TypeOK
  <2> QED
    BY <1>1, <1>2, <1>3, <2>1, <2>2 DEF IInv
<1>11. CASE UNCHANGED vars
  <2>1. TypeOK'
    BY <1>1, <1>3, <1>11 DEF TypeOK, vars
  <2> QED
    BY <1>1, <1>3, <1>11, <2>1 DEF IInv, vars
<1> QED
  BY <1>4, <1>5, <1>6, <1>7, <1>8, <1>9, <1>10, <1>11 DEF Next

LEMMA Inductive == Spec => []IInv
BY IInit, IStep, PTL DEF Spec

\* Type correctness of normalize: no frequency leaves 0 .. RANS_M.
THEOREM TypeCorrect == Spec => []TypeOK
<1>1. IInv => TypeOK
  BY DEF IInv
<1> QED
  BY <1>1, Inductive, PTL

\* Every counted symbol keeps a slot of the table, and no other symbol gets one.
THEOREM KeepsSymbols == Spec => []Represented
<1>1. IInv => Represented
  <2> SUFFICES ASSUME IInv, phase \in {"fixup", "layout", "done"}, total # 0, NEW s \in Symbols
               PROVE  freq[s] > 0 <=> raw[s] > 0
    BY DEF Represented
  <2>1. raw[s] > 0 => s \in Active
    BY DEF Active
  <2> QED
    BY <2>1 DEF IInv
<1> QED
  BY <1>1, Inductive, PTL

-----------------------------------------------------------------------------
(***************************************************************************)
(* The sums, phase by phase: current_sum in the scaling loop, RANS_M less  *)
(* the drift in the fixup, and in the layout loop the interval of each     *)
(* symbol it has passed, in the encoder's cum and in the decoder's slots.  *)
(***************************************************************************)
LaidOut(P) ==
  /\ end = P[n] /\ Len(slots) = P[n]
  /\ \A s \in Active : Rank(s) < n => cum[s] = P[Rank(s)]
  /\ \A slot \in 1 .. Len(slots) :
        /\ slots[slot] \in Active /\ Rank(slots[slot]) < n
        /\ P[Rank(slots[slot])] < slot /\ slot <= P[Rank(slots[slot]) + 1]

Sums ==
  /\ phase \in {"start", "scale", "fixup"} => end = 0 /\ slots = <<>>
  /\ phase = "start" => current_sum = 0
  /\ phase = "scale" => \E P : PartialSums(P, n, freq) /\ current_sum = P[n]
  /\ phase = "fixup" => \E P : PartialSums(P, distinct, freq) /\ P[distinct] + diff = RANS_M
  /\ phase = "layout" \/ (phase = "done" /\ total # 0) =>
       \E P : PartialSums(P, distinct, freq) /\ P[distinct] = RANS_M /\ LaidOut(P)
  /\ phase = "done" /\ total # 0 => n = distinct

LEMMA SumsInit == Init => Sums
BY DEF Init, Sums

\* The counts never change, nor with them what the sums are taken over.
LEMMA CountsKept ==
  ASSUME [Next]_vars
  PROVE  /\ UNCHANGED <<raw, total>> /\ Active' = Active /\ distinct' = distinct
         /\ \A s : Rank(s)' = Rank(s)
         /\ \A P, m, f : PartialSums(P, m, f)' <=> PartialSums(P, m, f)
<1>1. UNCHANGED <<raw, total>>
  BY DEF Next, vars, ReturnEmpty, Reject, Start, ScaleOne, EndScale, FixupTurn, EndFixup,
         LayoutOne, EndLayout
<1>2. Active' = Active /\ distinct' = distinct /\ \A s : Rank(s)' = Rank(s)
  BY <1>1 DEF Active, distinct, Rank
<1>3. ASSUME NEW P, NEW m, NEW f
      PROVE  PartialSums(P, m, f)' <=> PartialSums(P, m, f)
  BY <1>2 DEF PartialSums
<1> QED
  BY <1>1, <1>2, <1>3

LEMMA ScaleSums ==
  ASSUME IInv, IInv', Sums, ScaleOne \/ EndScale \/ FixupTurn
  PROVE  Sums'
<1>1. [Next]_vars /\ TypeOK /\ TypeOK'
  BY DEF Next, IInv
<1>2. /\ raw' = raw /\ distinct' = distinct
      /\ \A P, m, f : PartialSums(P, m, f)' <=> PartialSums(P, m, f)
  BY <1>1, CountsKept
<1>3. /\ freq \in [Symbols -> Nat] /\ freq' \in [Symbols -> Nat]
      /\ n \in Nat /\ distinct \in Nat /\ diff \in Int /\ RANS_M \in Nat
  BY <1>1, ActiveFacts, NormalizeAssumption DEF TypeOK
<1>4. end' = end /\ slots' = slots /\ end = 0 /\ slots = <<>>
  BY DEF ScaleOne, EndScale, FixupTurn, Sums
<1>5. CASE ScaleOne
  <2>1. PICK s \in Active :
          /\ Rank(s) = n
          /\ freq' = [freq EXCEPT ![s] = Scaled(raw[s])]
          /\ current_sum' = current_sum + Scaled(raw[s])
    BY <1>5 DEF ScaleOne
  <2>2. phase = "scale" /\ phase' = "scale" /\ n' = n + 1
    BY <1>5 DEF ScaleOne
  <2>3. PICK P : PartialSums(P, n, freq) /\ current_sum = P[n]
    BY <2>2 DEF Sums
  <2>4. freq'[s] = Scaled(raw[s]) /\ \A r \in Active \ {s} : freq'[r] = freq[r]
    BY <1>3, <2>1 DEF Active
  <2>5. PICK Q : PartialSums(Q, n + 1, freq') /\ Q[n + 1] = P[n] + freq'[s]
    <3> DEFINE g == freq'
    <3>1. /\ g \in [Symbols -> Nat] /\ n \in Nat /\ Rank(s) = n
          /\ \A r \in Active \ {s} : g[r] = freq[r]
      BY <1>3, <2>1, <2>4
    <3> HIDE DEF g
    <3>2. \E Q : PartialSums(Q, n + 1, g) /\ Q[n + 1] = P[n] + g[s]
      BY <1>1, <2>3, <3>1, ExtendSums
    <3> QED
      BY <3>2 DEF g
  <2>6. PartialSums(Q, n, freq)' /\ current_sum' = Q[n']
    BY <1>2, <2>1, <2>2, <2>3, <2>4, <2>5
  <2> QED
    BY <1>4, <2>2, <2>6 DEF Sums
<1>6. CASE EndScale
  <2>1. phase = "scale" /\ phase' = "fixup" /\ n = distinct /\ diff' = RANS_M - current_sum
        /\ freq' = freq
    BY <1>6 DEF EndScale
  <2>2. PICK P : PartialSums(P, n, freq) /\ current_sum = P[n]
    BY <2>1 DEF Sums
  <2>3. P[distinct] \in Nat
    BY <1>3, <2>1, <2>2 DEF PartialSums
  <2>4. PartialSums(P, distinct, freq)' /\ P[distinct'] + diff' = RANS_M
    BY <1>2, <1>3, <2>1, <2>2, <2>3
  <2> QED
    BY <1>4, <2>1, <2>4 DEF Sums
<1>7. CASE FixupTurn
  <2>1. phase = "fixup" /\ phase' = "fixup"
    BY <1>7 DEF FixupTurn
  <2>2. PICK s \in Active :
          \/ freq' = [freq EXCEPT ![s] = @ + 1] /\ diff' = diff - 1
          \/ freq' = [freq EXCEPT ![s] = @ - 1] /\ diff' = diff + 1
          \/ freq' = freq /\ diff' = diff
    BY <1>7 DEF FixupTurn
  <2>3. PICK P : PartialSums(P, distinct, freq) /\ P[distinct] + diff = RANS_M
    BY <2>1 DEF Sums
  <2>4. P[distinct] \in Nat /\ Rank(s) < distinct /\ s \in Symbols
    BY <1>1, <1>3, <2>3, RankRange DEF PartialSums, Active
  <2>5. \E Q : PartialSums(Q, distinct, freq') /\ Q[distinct] + diff' = RANS_M
    <3>1. CASE freq' = freq /\ diff' = diff
      BY <2>3, <3>1
    <3>2. ASSUME NEW d \in {0 - 1, 1}, freq' = [freq EXCEPT ![s] = @ + d], diff' = diff - d
          PROVE  \E Q : PartialSums(Q, distinct, freq') /\ Q[distinct] + diff' = RANS_M
      <4>1. freq'[s] = freq[s] + d /\ \A r \in Active \ {s} : freq'[r] = freq[r]
        BY <1>3, <2>4, <3>2 DEF Active
      <4>2. PICK Q : PartialSums(Q, distinct, freq') /\ Q[distinct] = P[distinct] + d
        BY <1>1, <1>3, <2>3, <2>4, <4>1, ShiftSums
      <4> QED
        BY <1>3, <2>3, <2>4, <3>2, <4>2
    <3>3. freq[s] \in Nat
      BY <1>3, <2>4
    <3> QED
      BY <1>3, <2>2, <3>1, <3>2, <3>3
  <2>6. \E Q : PartialSums(Q, distinct, freq)' /\ Q[distinct'] + diff' = RANS_M
    BY <1>2, <2>5
  <2> QED
    BY <1>4, <2>1, <2>6 DEF Sums
<1> QED
  BY <1>5, <1>6, <1>7

LEMMA LayoutSums ==
  ASSUME IInv, IInv', Sums, EndFixup \/ LayoutOne \/ EndLayout
  PROVE  Sums'
<1>1. [Next]_vars /\ TypeOK /\ TypeOK'
  BY DEF Next, IInv
<1>2. /\ raw' = raw /\ total' = total /\ Active' = Active /\ distinct' = distinct
      /\ \A s : Rank(s)' = Rank(s)
      /\ \A P, m, f : PartialSums(P, m, f)' <=> PartialSums(P, m, f)
  BY <1>1, CountsKept
<1>3. /\ freq \in [Symbols -> Nat] /\ freq' = freq /\ cum \in [Symbols -> Nat]
      /\ n \in Nat /\ distinct \in Nat /\ RANS_M \in Nat /\ slots \in Seq(Symbols)
  <2>1. freq' = freq
    BY DEF EndFixup, LayoutOne, EndLayout
  <2>2. /\ freq \in [Symbols -> Nat] /\ cum \in [Symbols -> Nat] /\ n \in Nat
        /\ slots \in Seq(Symbols)
    BY <1>1, ActiveFacts, NormalizeAssumption DEF TypeOK
  <2> QED
    BY <1>1, <2>1, <2>2, ActiveFacts, NormalizeAssumption
<1>4. CASE EndFixup
  <2>1. /\ phase = "fixup" /\ phase' = "layout" /\ diff = 0 /\ n' = 0
        /\ end' = 0 /\ slots' = <<>> /\ cum' = cum
    BY <1>4 DEF EndFixup, Sums
  <2>2. PICK P : PartialSums(P, distinct, freq) /\ P[distinct] + diff = RANS_M
    BY <2>1 DEF Sums
  <2>3. P[0] = 0 /\ P[distinct] = RANS_M
    BY <1>3, <2>1, <2>2 DEF PartialSums
  <2>4. \A s \in Active : ~(Rank(s) < 0)
    BY <1>1, RankRange
  <2>5. LaidOut(P)'
    BY <1>2, <2>1, <2>3, <2>4 DEF LaidOut
  <2>6. PartialSums(P, distinct, freq)' /\ P[distinct'] = RANS_M
    BY <1>2, <1>3, <2>2, <2>3
  <2> QED
    BY <2>1, <2>5, <2>6 DEF Sums
<1>5. CASE LayoutOne
  <2>1. PICK s \in Active :
          /\ Rank(s) = n
          /\ cum' = [cum EXCEPT ![s] = end]
          /\ end' = end + freq[s]
          /\ slots' = slots \o [p \in 1 .. freq[s] |-> s]
    BY <1>5 DEF LayoutOne
  <2>2. phase = "layout" /\ phase' = "layout" /\ n < distinct /\ n' = n + 1
    BY <1>5 DEF LayoutOne
  <2>3. PICK P : PartialSums(P, distinct, freq) /\ P[distinct] = RANS_M /\ LaidOut(P)
    BY <2>2 DEF Sums
  <2>4. /\ s \in Symbols /\ freq[s] \in Nat
        /\ P[n + 1] = P[n] + freq[s] /\ P[n] \in Nat /\ P[n + 1] \in Nat
    <3>1. P[Rank(s) + 1] = P[Rank(s)] + freq[s] /\ P \in [0 .. distinct -> Nat]
      BY <2>1, <2>2, <2>3 DEF PartialSums
    <3>2. n \in 0 .. distinct /\ n + 1 \in 0 .. distinct
      BY <1>3, <2>2
    <3> QED
      BY <1>3, <2>1, <3>1, <3>2 DEF Active
  <2> DEFINE run == [p \in 1 .. freq[s] |-> s]
  <2>5. run \in Seq(Symbols) /\ Len(run) = freq[s] /\ \A p \in 1 .. freq[s] : run[p] = s
    BY <2>4
  <2> HIDE DEF run
  <2>6. /\ Len(slots') = P[n + 1] /\ end' = P[n + 1] /\ Len(slots) = P[n]
        /\ \A slot \in 1 .. Len(slots) : slots'[slot] = slots[slot]
        /\ \A slot \in 1 .. Len(slots') : slot > P[n] => slots'[slot] = s
    <3>1. slots' = slots \o run /\ Len(slots) = P[n] /\ end = P[n]
      BY <2>1, <2>3 DEF run, LaidOut
    <3>2. Len(slots') = Len(slots) + Len(run)
      <4>1. \A t, u \in Seq(Symbols) : Len(t \o u) = Len(t) + Len(u)
        OBVIOUS
      <4> QED
        BY <1>3, <2>5, <3>1, <4>1
    <3>3. ASSUME NEW slot \in 1 .. Len(slots'), slot > P[n] PROVE slots'[slot] = s
      <4>1. slot - Len(slots) \in 1 .. Len(run) /\ slot > Len(slots)
        <5>1. Len(slots) \in Nat /\ Len(run) \in Nat
          BY <1>3, <2>4, <2>5, <3>1
        <5> QED
          BY <3>1, <3>2, <3>3, <5>1
      <4>2. slots'[slot] = run[slot - Len(slots)]
        <5>1. \A t, u \in Seq(Symbols) : \A i \in 1 .. Len(t \o u) :
                i > Len(t) => (t \o u)[i] = u[i - Len(t)]
          OBVIOUS
        <5>2. slots \in Seq(Symbols) /\ run \in Seq(Symbols)
          BY <1>3, <2>5
        <5> QED
          BY <3>1, <3>3, <4>1, <5>1, <5>2
      <4> QED
        BY <2>5, <4>1, <4>2
    <3>4. \A slot \in 1 .. Len(slots) : slots'[slot] = slots[slot]
      BY <1>3, <2>5, <3>1
    <3> QED
      BY <2>1, <2>4, <2>5, <3>1, <3>2, <3>3, <3>4
  <2>7. ASSUME NEW r \in Active, Rank(r) < n + 1 PROVE cum'[r] = P[Rank(r)]
    <3>1. Rank(r) \in Nat /\ r \in Symbols
      BY <1>1, RankRange DEF Active
    <3>2. CASE r = s
      BY <1>3, <2>1, <2>3, <3>1, <3>2 DEF LaidOut
    <3>3. CASE r # s
      <4>1. Rank(r) < n
        BY <1>1, <1>3, <2>1, <2>7, <3>1, <3>3, RankInjective
      <4> QED
        BY <1>3, <2>1, <2>3, <3>1, <3>3, <4>1 DEF LaidOut
    <3> QED
      BY <3>2, <3>3
  <2>8. ASSUME NEW slot \in 1 .. Len(slots')
        PROVE  /\ slots'[slot] \in Active /\ Rank(slots'[slot]) < n + 1
               /\ P[Rank(slots'[slot])] < slot /\ slot <= P[Rank(slots'[slot]) + 1]
    <3>1. CASE slot <= P[n]
      <4>1. slot \in 1 .. Len(slots) /\ slots'[slot] = slots[slot]
        BY <2>4, <2>6, <3>1
      <4>2. /\ slots[slot] \in Active /\ Rank(slots[slot]) < n
            /\ P[Rank(slots[slot])] < slot /\ slot <= P[Rank(slots[slot]) + 1]
        BY <2>3, <4>1 DEF LaidOut
      <4>3. Rank(slots[slot]) \in Nat
        BY <1>1, <4>2, RankRange
      <4> QED
        BY <1>3, <4>1, <4>2, <4>3
    <3>2. CASE slot > P[n]
      BY <1>3, <2>1, <2>4, <2>6, <2>8, <3>2
    <3> QED
      BY <2>4, <3>1, <3>2
  <2>9. LaidOut(P)'
    BY <1>2, <2>2, <2>6, <2>7, <2>8 DEF LaidOut
  <2>10. PartialSums(P, distinct, freq)' /\ P[distinct'] = RANS_M
    BY <1>2, <1>3, <2>3
  <2> QED
    BY <2>2, <2>9, <2>10 DEF Sums
<1>6. CASE EndLayout
  <2>1. /\ phase = "layout" /\ phase' = "done" /\ n = distinct
        /\ UNCHANGED <<cum, end, slots, n>>
    BY <1>6 DEF EndLayout
  <2>2. PICK P : PartialSums(P, distinct, freq) /\ P[distinct] = RANS_M /\ LaidOut(P)
    BY <2>1 DEF Sums
  <2>3. LaidOut(P)'
    BY <1>2, <2>1, <2>2 DEF LaidOut
  <2>4. PartialSums(P, distinct, freq)' /\ P[distinct'] = RANS_M
    BY <1>2, <1>3, <2>2
  <2> QED
    BY <1>2, <2>1, <2>3, <2>4 DEF Sums
<1> QED
  BY <1>4, <1>5, <1>6

LEMMA SumsStep == IInv /\ IInv' /\ Sums /\ [Next]_vars => Sums'
<1> SUFFICES ASSUME IInv, IInv', Sums, [Next]_vars PROVE Sums'
  OBVIOUS
<1>1. /\ total' = total /\ Active' = Active /\ distinct' = distinct
      /\ \A s : Rank(s)' = Rank(s)
      /\ \A P, m, f : PartialSums(P, m, f)' <=> PartialSums(P, m, f)
  BY CountsKept
<1>2. CASE ReturnEmpty \/ Reject \/ Start
  <2>1. /\ phase = "start" /\ n = 0 /\ total \in Nat
        /\ (phase' = "done" /\ total = 0) \/ phase' = "error" \/ phase' = "scale"
        /\ UNCHANGED <<freq, current_sum, diff, cursor, n, cum, end, slots>>
    BY <1>2, RawTyped DEF ReturnEmpty, Reject, Start, IInv
  <2>2. PartialSums([i \in 0 .. 0 |-> 0], 0, freq)
    BY RankRange DEF PartialSums, IInv
  <2>3. phase' = "scale" => \E P : PartialSums(P, n, freq)' /\ current_sum' = P[n']
    <3>1. [i \in 0 .. 0 |-> 0][0] = 0
      OBVIOUS
    <3> QED
      BY <1>1, <2>1, <2>2, <3>1 DEF Sums
  <2> QED
    BY <1>1, <2>1, <2>3 DEF Sums
<1>3. CASE UNCHANGED vars
  <2>1. \A P : LaidOut(P)' <=> LaidOut(P)
    BY <1>1, <1>3 DEF vars, LaidOut
  <2>2. /\ (\E P : PartialSums(P, n, freq) /\ current_sum = P[n])' <=>
             (\E P : PartialSums(P, n, freq) /\ current_sum = P[n])
        /\ (\E P : PartialSums(P, distinct, freq) /\ P[distinct] + diff = RANS_M)' <=>
             (\E P : PartialSums(P, distinct, freq) /\ P[distinct] + diff = RANS_M)
        /\ (\E P : PartialSums(P, distinct, freq) /\ P[distinct] = RANS_M /\ LaidOut(P))' <=>
             (\E P : PartialSums(P, distinct, freq) /\ P[distinct] = RANS_M /\ LaidOut(P))
    BY <1>1, <1>3, <2>1 DEF vars
  <2> QED
    BY <1>1, <1>3, <2>2 DEF vars, Sums
<1> QED
  BY <1>2, <1>3, ScaleSums, LayoutSums DEF Next

(***************************************************************************)
(* The finished table is what the coder assumes: disjoint intervals that   *)
(* fill the RANS_M slots, and the decoder's slot table agrees with the     *)
(* encoder's intervals, although the two are built in loops of their own.  *)
(***************************************************************************)
THEOREM TableTiles == Spec => []Tiles
<1>1. IInv /\ Sums => Tiles
  <2> SUFFICES ASSUME IInv, Sums, phase = "done", Active # {}, total # 0
               PROVE  /\ \A s \in Active : cum[s] + freq[s] <= RANS_M
                      /\ \A r, s \in Active :
                           r # s => cum[r] + freq[r] <= cum[s] \/ cum[s] + freq[s] <= cum[r]
                      /\ Len(slots) = RANS_M
                      /\ \A slot \in 0 .. (RANS_M - 1) :
                           LET s == slots[slot + 1] IN cum[s] <= slot /\ slot < cum[s] + freq[s]
    BY DEF Tiles
  <2>1. PICK P : PartialSums(P, distinct, freq) /\ P[distinct] = RANS_M /\ LaidOut(P)
    BY DEF Sums
  <2>2. n = distinct /\ TypeOK /\ distinct \in Nat
    BY ActiveFacts DEF Sums, IInv
  <2>3. ASSUME NEW s \in Active
        PROVE  /\ Rank(s) \in 0 .. distinct /\ Rank(s) + 1 \in 0 .. distinct
               /\ cum[s] = P[Rank(s)] /\ cum[s] + freq[s] = P[Rank(s) + 1]
    BY <2>1, <2>2, RankRange DEF PartialSums, LaidOut
  <2>4. \A i, j \in 0 .. distinct : i <= j => P[i] <= P[j]
    BY <2>1 DEF PartialSums
  <2>5. \A s \in Active : cum[s] + freq[s] <= RANS_M
    BY <2>1, <2>2, <2>3, <2>4
  <2>6. ASSUME NEW r \in Active, NEW s \in Active, r # s
        PROVE  cum[r] + freq[r] <= cum[s] \/ cum[s] + freq[s] <= cum[r]
    <3>1. Rank(r) + 1 <= Rank(s) \/ Rank(s) + 1 <= Rank(r)
      BY <2>2, <2>3, <2>6, RankInjective, RankRange
    <3> QED
      BY <2>3, <2>4, <3>1
  <2>7. Len(slots) = RANS_M
    BY <2>1, <2>2 DEF LaidOut
  <2>8. ASSUME NEW slot \in 0 .. (RANS_M - 1)
        PROVE  cum[slots[slot + 1]] <= slot /\ slot < cum[slots[slot + 1]] + freq[slots[slot + 1]]
    <3>1. slot + 1 \in 1 .. Len(slots)
      BY <2>7, NormalizeAssumption
    <3>2. /\ slots[slot + 1] \in Active
          /\ P[Rank(slots[slot + 1])] < slot + 1 /\ slot + 1 <= P[Rank(slots[slot + 1]) + 1]
      BY <2>1, <3>1 DEF LaidOut
    <3>3. P[Rank(slots[slot + 1])] \in Nat /\ P[Rank(slots[slot + 1]) + 1] \in Nat
      BY <2>1, <2>3, <3>2 DEF PartialSums
    <3> QED
      BY <2>3, <3>2, <3>3
  <2> QED
    BY <2>5, <2>6, <2>7, <2>8
<1> QED
  BY <1>1, Inductive, SumsInit, SumsStep, PTL DEF Spec
=============================================================================
