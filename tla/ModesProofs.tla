---------------------------- MODULE ModesProofs ----------------------------
(***************************************************************************)
(* Proofs about the modes of a stream, for every list of LZ tokens, every  *)
(* alphabet and cap, and every training of a dictionary.  Where a table is *)
(* made by SymbolStats.normalize, what NormalizeProofs shows of that is a  *)
(* hypothesis, NormalizeKeeps.                                             *)
(***************************************************************************)
EXTENDS Modes, FiniteSetTheorems, SequenceTheorems, TLAPS

-----------------------------------------------------------------------------
\* Lists of entries laid on a stack from the last part to the first, and
\* taken from it in the order of the parts.

\* parts are laid on a stack from the last to the first; those up to e are
\* gone from it or not on it yet, and so are the c topmost entries of e + 1.
Heights(H, parts, e) ==
  /\ H \in [e .. Len(parts) -> Nat] /\ H[Len(parts)] = 0
  /\ \A i, k \in e .. Len(parts) : i <= k => H[k] <= H[i]
  /\ \A i \in (e + 1) .. Len(parts) : H[i - 1] = H[i] + Len(parts[i])

\* What of each part is on the stack is in its place.
Entries(seq, H, parts, e) ==
  \A i \in (e + 1) .. Len(parts) : \A j \in 1 .. Len(parts[i]) :
    H[i] + j <= Len(seq) => seq[H[i] + j] = parts[i][j]

Stacked(seq, parts, e, c) ==
  \E S, H : /\ seq \in Seq(S) /\ parts \in Seq(Seq(S))
            /\ Heights(H, parts, e) /\ H[e] = Len(seq) + c
            /\ Entries(seq, H, parts, e)

\* The first n entries.
LEMMA PrefixEntries ==
  ASSUME NEW S, NEW s \in Seq(S), NEW n \in 0 .. Len(s)
  PROVE  /\ SubSeq(s, 1, n) \in Seq(S) /\ Len(SubSeq(s, 1, n)) = n
         /\ \A p \in 1 .. n : SubSeq(s, 1, n)[p] = s[p]
<1>1. Len(s) \in Nat OBVIOUS
<1>2. n \in Int /\ \A p \in 1 .. n : s[p] \in S /\ p \in 1 .. Len(s) BY <1>1
<1> QED BY <1>2, SMT

\* A function on 1 .. n is a sequence of n entries.
LEMMA FunctionIsSequence ==
  ASSUME NEW S, NEW n \in Nat, NEW f \in [1 .. n -> S]
  PROVE  f \in Seq(S) /\ Len(f) = n
OBVIOUS

\* Before the first push.
LEMMA NothingStacked ==
  ASSUME NEW S, NEW parts \in Seq(Seq(S))
  PROVE  Stacked(<<>>, parts, Len(parts), 0)
<1> DEFINE H == [i \in Len(parts) .. Len(parts) |-> 0]
<1>0. Len(parts) \in Nat OBVIOUS
<1>1. H \in [Len(parts) .. Len(parts) -> Nat] /\ \A i \in Len(parts) .. Len(parts) : H[i] = 0
  OBVIOUS
<1>2. <<>> \in Seq(S) /\ Len(<<>>) = 0 OBVIOUS
<1>3. (Len(parts) + 1) .. Len(parts) = {} BY <1>0
<1> HIDE DEF H
<1>4. Heights(H, parts, Len(parts)) BY <1>0, <1>1, <1>3 DEF Heights
<1>5. Entries(<<>>, H, parts, Len(parts)) BY <1>3 DEF Entries
<1> QED BY <1>0, <1>1, <1>2, <1>4, <1>5 DEF Stacked

\* A push of the next part.
LEMMA PushPart ==
  ASSUME NEW seq, NEW parts, NEW e \in 1 .. Len(parts), Stacked(seq, parts, e, 0)
  PROVE  Stacked(seq \o parts[e], parts, e - 1, 0)
<1>1. PICK S, H : /\ seq \in Seq(S) /\ parts \in Seq(Seq(S))
                  /\ Heights(H, parts, e) /\ H[e] = Len(seq) + 0
                  /\ Entries(seq, H, parts, e)
  BY DEF Stacked
<1>2. /\ parts[e] \in Seq(S)
      /\ Len(parts) \in Nat /\ Len(seq) \in Nat /\ Len(parts[e]) \in Nat
  BY <1>1
<1> DEFINE longer == seq \o parts[e]
           G == [i \in (e - 1) .. Len(parts) |-> IF i = e - 1 THEN H[e] + Len(parts[e]) ELSE H[i]]
<1>3. /\ longer \in Seq(S) /\ Len(longer) = Len(seq) + Len(parts[e])
      /\ \A j \in 1 .. Len(seq) : longer[j] = seq[j]
      /\ \A j \in 1 .. Len(parts[e]) : longer[Len(seq) + j] = parts[e][j]
  BY <1>1, <1>2
<1>4. /\ G \in [(e - 1) .. Len(parts) -> Nat] /\ G[e - 1] = H[e] + Len(parts[e])
      /\ \A i \in e .. Len(parts) : G[i] = H[i]
  BY <1>1, <1>2 DEF Heights
<1> HIDE DEF G, longer
<1>5. Heights(G, parts, e - 1)
  <2>1. G[Len(parts)] = 0 BY <1>1, <1>2, <1>4 DEF Heights
  <2>0. /\ \A i, k \in e .. Len(parts) : i <= k => H[k] <= H[i]
        /\ \A i \in (e + 1) .. Len(parts) : H[i - 1] = H[i] + Len(parts[i])
        /\ \A i \in e .. Len(parts) : H[i] \in Nat
    BY <1>1 DEF Heights
  <2>2. ASSUME NEW i \in (e - 1) .. Len(parts), NEW k \in (e - 1) .. Len(parts), i <= k
        PROVE  G[k] <= G[i]
    <3>1. e \in e .. Len(parts) /\ H[e] <= G[e - 1] BY <2>0, <1>2, <1>4
    <3>2. CASE k = e - 1 BY <3>1, <3>2, <2>2, <1>2, <1>4, <2>0
    <3>3. CASE k # e - 1
      <4>1. k \in e .. Len(parts) /\ G[k] = H[k] /\ H[k] <= H[e]
        BY <3>1, <3>3, <1>2, <1>4, <2>0
      <4>2. CASE i = e - 1 BY <4>1, <4>2, <3>1, <1>2, <2>0, <1>4
      <4>3. CASE i # e - 1
        <5>1. i \in e .. Len(parts) /\ G[i] = H[i] BY <4>3, <1>2, <1>4
        <5> QED BY <5>1, <4>1, <2>0, <2>2
      <4> QED BY <4>2, <4>3
    <3> QED BY <3>2, <3>3
  <2>3. ASSUME NEW i \in e .. Len(parts) PROVE G[i - 1] = G[i] + Len(parts[i])
    <3>1. G[i] = H[i] BY <1>4
    <3>2. CASE i = e BY <3>1, <3>2, <1>4
    <3>3. CASE i # e
      <4>1. i \in (e + 1) .. Len(parts) /\ i - 1 \in e .. Len(parts) BY <3>3, <1>2
      <4> QED BY <4>1, <3>1, <2>0, <1>4
    <3> QED BY <3>2, <3>3
  <2> QED BY <1>4, <2>1, <2>2, <2>3, <1>2 DEF Heights
<1>6. Entries(longer, G, parts, e - 1)
  <2> SUFFICES ASSUME NEW i \in e .. Len(parts), NEW j \in 1 .. Len(parts[i])
               PROVE  longer[G[i] + j] = parts[i][j]
    BY <1>2 DEF Entries
  <2>1. parts[i] \in Seq(S) /\ Len(parts[i]) \in Nat BY <1>1, <1>2
  <2>2. CASE i = e
    <3>1. G[i] = Len(seq) BY <2>2, <1>1, <1>2, <1>4
    <3> QED BY <3>1, <2>2, <1>3
  <2>3. CASE i # e
    <3>1. i \in (e + 1) .. Len(parts) /\ i - 1 \in e .. Len(parts) BY <2>3, <1>2
    <3>2. G[i] = H[i] /\ H[i] \in Nat BY <3>1, <1>1, <1>4 DEF Heights
    <3>3. H[i] + Len(parts[i]) <= Len(seq)
      BY <3>1, <1>1, <1>2 DEF Heights
    <3>4. H[i] + j \in 1 .. Len(seq) BY <3>2, <3>3, <2>1, <1>2
    <3>5. seq[H[i] + j] = parts[i][j] BY <3>1, <3>4, <1>1, <1>2 DEF Entries
    <3> QED BY <3>2, <3>4, <3>5, <1>3
  <2> QED BY <2>2, <2>3
<1>7. G[e - 1] = Len(longer) + 0 BY <1>1, <1>2, <1>3, <1>4
<1> QED BY <1>1, <1>3, <1>5, <1>6, <1>7 DEF Stacked, longer

\* The topmost entry, and what is left without it.
LEMMA PopEntry ==
  ASSUME NEW seq, NEW parts, NEW e \in Nat, e < Len(parts),
         NEW c \in Nat, c < Len(parts[e + 1]), Stacked(seq, parts, e, c)
  PROVE  /\ seq # <<>> /\ Len(seq) \in Nat \ {0}
         /\ seq[Len(seq)] = parts[e + 1][Len(parts[e + 1]) - c]
         /\ c + 1 < Len(parts[e + 1]) =>
              Stacked(SubSeq(seq, 1, Len(seq) - 1), parts, e, c + 1)
         /\ c + 1 = Len(parts[e + 1]) =>
              Stacked(SubSeq(seq, 1, Len(seq) - 1), parts, e + 1, 0)
<1>1. PICK S, H : /\ seq \in Seq(S) /\ parts \in Seq(Seq(S))
                  /\ Heights(H, parts, e) /\ H[e] = Len(seq) + c
                  /\ Entries(seq, H, parts, e)
  BY DEF Stacked
<1>2. /\ e + 1 \in 1 .. Len(parts) /\ parts[e + 1] \in Seq(S)
      /\ Len(parts) \in Nat /\ Len(seq) \in Nat /\ Len(parts[e + 1]) \in Nat
  BY <1>1
<1> DEFINE part == parts[e + 1]
           rest == SubSeq(seq, 1, Len(seq) - 1)
<1>3. /\ e \in e .. Len(parts) /\ e + 1 \in e .. Len(parts) /\ e + 1 \in (e + 1) .. Len(parts)
      /\ (e + 1) - 1 = e
  BY <1>2
<1>4. H[e + 1] \in Nat /\ H[e] = H[e + 1] + Len(part)
  BY <1>1, <1>3 DEF Heights
<1>5. Len(seq) = H[e + 1] + (Len(part) - c) /\ Len(part) - c \in 1 .. Len(part)
  BY <1>1, <1>2, <1>4
<1>6. seq # <<>> /\ Len(seq) \in Nat \ {0} BY <1>1, <1>4, <1>5
<1>7. seq[Len(seq)] = part[Len(part) - c]
  <2>1. \A j \in 1 .. Len(part) : H[e + 1] + j <= Len(seq) => seq[H[e + 1] + j] = part[j]
    BY <1>1, <1>3 DEF Entries
  <2> QED BY <2>1, <1>5, <1>2
<1>8. /\ rest \in Seq(S) /\ Len(rest) = Len(seq) - 1
      /\ \A j \in 1 .. (Len(seq) - 1) : rest[j] = seq[j]
  <2>1. seq \in Seq(S) /\ Len(seq) - 1 \in 0 .. Len(seq) BY <1>1, <1>6
  <2> QED BY <2>1, PrefixEntries
<1> HIDE DEF rest
<1>9. Entries(rest, H, parts, e)
  <2> SUFFICES ASSUME NEW i \in (e + 1) .. Len(parts), NEW j \in 1 .. Len(parts[i]),
                      H[i] + j <= Len(rest)
               PROVE  rest[H[i] + j] = parts[i][j]
    BY DEF Entries
  <2>0. i \in e .. Len(parts) /\ i \in 1 .. Len(parts) BY <1>2
  <2>1. H[i] \in Nat BY <2>0, <1>1 DEF Heights
  <2>2. H[i] + j \in 1 .. (Len(seq) - 1) /\ H[i] + j <= Len(seq) BY <2>1, <1>8, <1>2
  <2> QED BY <2>2, <1>1, <1>8 DEF Entries
<1>10. ASSUME c + 1 < Len(part) PROVE Stacked(rest, parts, e, c + 1)
  <2>1. H[e] = Len(rest) + (c + 1) BY <1>1, <1>2, <1>8
  <2> QED BY <2>1, <1>1, <1>8, <1>9 DEF Stacked
<1>11. ASSUME c + 1 = Len(part) PROVE Stacked(rest, parts, e + 1, 0)
  <2> DEFINE G == [i \in (e + 1) .. Len(parts) |-> H[i]]
  <2>1. /\ G \in [(e + 1) .. Len(parts) -> Nat]
        /\ \A i \in (e + 1) .. Len(parts) : G[i] = H[i]
    BY <1>1, <1>2 DEF Heights
  <2> HIDE DEF G
  <2>2. Heights(G, parts, e + 1)
    <3>1. G[Len(parts)] = 0 BY <1>1, <1>2, <2>1 DEF Heights
    <3>2. \A i, k \in (e + 1) .. Len(parts) : i <= k => G[k] <= G[i]
      BY <1>1, <1>2, <2>1 DEF Heights
    <3>3. \A i \in ((e + 1) + 1) .. Len(parts) : G[i - 1] = G[i] + Len(parts[i])
      BY <1>1, <1>2, <2>1 DEF Heights
    <3> QED BY <2>1, <3>1, <3>2, <3>3 DEF Heights
  <2>3. Entries(rest, G, parts, e + 1)
    <3> SUFFICES ASSUME NEW i \in ((e + 1) + 1) .. Len(parts), NEW j \in 1 .. Len(parts[i]),
                        G[i] + j <= Len(rest)
                 PROVE  rest[G[i] + j] = parts[i][j]
      BY DEF Entries
    <3>1. i \in (e + 1) .. Len(parts) BY <1>2
    <3>2. G[i] = H[i] BY <3>1, <2>1
    <3> QED BY <3>1, <3>2, <1>9 DEF Entries
  <2>4. G[e + 1] = Len(rest) + 0 BY <1>11, <1>3, <1>5, <1>8, <2>1, <1>2, <1>4
  <2> QED BY <1>1, <1>8, <2>2, <2>3, <2>4 DEF Stacked
<1> QED BY <1>6, <1>7, <1>10, <1>11 DEF rest

\* A part that is empty is passed as it is.
LEMMA PassPart ==
  ASSUME NEW seq, NEW parts, NEW e \in Nat, e < Len(parts), Len(parts[e + 1]) = 0,
         Stacked(seq, parts, e, 0)
  PROVE  Stacked(seq, parts, e + 1, 0)
<1>1. PICK S, H : /\ seq \in Seq(S) /\ parts \in Seq(Seq(S))
                  /\ Heights(H, parts, e) /\ H[e] = Len(seq) + 0
                  /\ Entries(seq, H, parts, e)
  BY DEF Stacked
<1>2. Len(parts) \in Nat /\ Len(seq) \in Nat /\ e + 1 \in 1 .. Len(parts) BY <1>1
<1> DEFINE G == [i \in (e + 1) .. Len(parts) |-> H[i]]
<1>3. /\ G \in [(e + 1) .. Len(parts) -> Nat]
      /\ \A i \in (e + 1) .. Len(parts) : G[i] = H[i]
  BY <1>1, <1>2 DEF Heights
<1> HIDE DEF G
<1>4. Heights(G, parts, e + 1)
  <2>1. G[Len(parts)] = 0 BY <1>1, <1>2, <1>3 DEF Heights
  <2>2. \A i, k \in (e + 1) .. Len(parts) : i <= k => G[k] <= G[i]
    BY <1>1, <1>2, <1>3 DEF Heights
  <2>3. \A i \in ((e + 1) + 1) .. Len(parts) : G[i - 1] = G[i] + Len(parts[i])
    BY <1>1, <1>2, <1>3 DEF Heights
  <2> QED BY <1>3, <2>1, <2>2, <2>3 DEF Heights
<1>5. Entries(seq, G, parts, e + 1)
  <2> SUFFICES ASSUME NEW i \in ((e + 1) + 1) .. Len(parts), NEW j \in 1 .. Len(parts[i]),
                      G[i] + j <= Len(seq)
               PROVE  seq[G[i] + j] = parts[i][j]
    BY DEF Entries
  <2>1. i \in (e + 1) .. Len(parts) /\ G[i] = H[i] BY <1>2, <1>3
  <2> QED BY <2>1, <1>1 DEF Entries
<1>6. G[e + 1] = Len(seq) + 0
  <2>0. e + 1 \in (e + 1) .. Len(parts) /\ e + 1 \in e .. Len(parts) BY <1>2
  <2>1. H[(e + 1) - 1] = H[e + 1] + Len(parts[e + 1]) /\ H[e + 1] \in Nat
    BY <2>0, <1>1 DEF Heights
  <2>2. (e + 1) - 1 = e /\ G[e + 1] = H[e + 1] BY <1>3, <1>2
  <2> QED BY <1>1, <2>1, <2>2
<1> QED BY <1>1, <1>4, <1>5, <1>6 DEF Stacked

\* When all parts are behind, the stack is empty.
LEMMA AllPopped ==
  ASSUME NEW seq, NEW parts, Stacked(seq, parts, Len(parts), 0)
  PROVE  seq = <<>>
<1>1. PICK S, H : seq \in Seq(S) /\ Heights(H, parts, Len(parts)) /\ H[Len(parts)] = Len(seq) + 0
  BY DEF Stacked
<1> QED BY <1>1 DEF Heights

\* A list turned around twice is the list.
LEMMA ReversedTwice ==
  ASSUME NEW S, NEW s \in Seq(S)
  PROVE  /\ Reversed(s) \in Seq(S) /\ Len(Reversed(s)) = Len(s)
         /\ \A i \in 1 .. Len(s) : Reversed(s)[i] = s[(Len(s) - i) + 1]
         /\ Reversed(Reversed(s)) = s
<1>1. Len(s) \in Nat OBVIOUS
<1>2. \A i \in 1 .. Len(s) : (Len(s) - i) + 1 \in 1 .. Len(s) /\ s[(Len(s) - i) + 1] \in S
  BY <1>1
<1>3. Reversed(s) \in [1 .. Len(s) -> S] /\ \A i \in 1 .. Len(s) : Reversed(s)[i] = s[(Len(s) - i) + 1]
  BY <1>2 DEF Reversed
<1>4. Reversed(s) \in Seq(S) /\ Len(Reversed(s)) = Len(s) BY <1>1, <1>3, FunctionIsSequence
<1> DEFINE r == Reversed(s)
<1> HIDE DEF r
<1>5. Reversed(r) = [i \in 1 .. Len(s) |-> r[(Len(s) - i) + 1]] BY <1>4 DEF Reversed, r
<1>6. \A i \in 1 .. Len(s) : Reversed(r)[i] = s[i]
  <2> TAKE i \in 1 .. Len(s)
  <2>1. (Len(s) - i) + 1 \in 1 .. Len(s) BY <1>1
  <2>2. r[(Len(s) - i) + 1] = s[(Len(s) - ((Len(s) - i) + 1)) + 1] BY <2>1, <1>3 DEF r
  <2>3. (Len(s) - ((Len(s) - i) + 1)) + 1 = i BY <1>1
  <2> QED BY <1>5, <2>2, <2>3
<1>7. s = [i \in 1 .. Len(s) |-> s[i]] OBVIOUS
<1>8. Reversed(r) = s BY <1>5, <1>6, <1>7
<1> QED BY <1>3, <1>4, <1>8 DEF r

-----------------------------------------------------------------------------
\* The numbers of a set in order, and what a sequence holds at them.

\* The numbers from 0, or 1, on are as many as one counts.
LEMMA RangeFinite ==
  ASSUME NEW n \in Nat
  PROVE  /\ IsFiniteSet(0 .. n) /\ Cardinality(0 .. n) = n + 1
         /\ IsFiniteSet(1 .. n) /\ Cardinality(1 .. n) = n
         /\ IsFiniteSet(0 .. (n - 1)) /\ Cardinality(0 .. (n - 1)) = n
<1>1. \A a, b \in Int : /\ IsFiniteSet(a .. b)
                        /\ Cardinality(a .. b) = IF a > b THEN 0 ELSE b - a + 1
  BY FS_Interval
<1>2. 0 \in Int /\ 1 \in Int /\ n \in Int /\ n - 1 \in Int OBVIOUS
<1> QED BY <1>1, <1>2

\* Induction over the naturals for a set, by the least element outside of it.
LEMMA NatInd ==
  ASSUME NEW S, 0 \in S, \A n \in Nat : n \in S => n + 1 \in S
  PROVE  Nat \subseteq S
<1> SUFFICES ASSUME NEW n \in Nat, n \notin S PROVE FALSE OBVIOUS
<1> DEFINE T == {k \in 0 .. n : k \in S}
           f == [k \in T |-> k + 1]
<1>1. IsFiniteSet(T) BY RangeFinite, FS_Subset
<1>2. f \in [T -> T \ {0}]
  <2> SUFFICES ASSUME NEW k \in T PROVE k + 1 \in T \ {0} OBVIOUS
  <2>1. k \in Nat /\ k <= n /\ k \in S /\ k # n OBVIOUS
  <2>2. k + 1 \in S BY <2>1
  <2> QED BY <2>1, <2>2
<1>3. 0 \in T OBVIOUS
<1>4. IsFiniteSet(T \ {0}) /\ Cardinality(T \ {0}) = Cardinality(T) - 1 /\ Cardinality(T) \in Nat
  <2> HIDE DEF T
  <2> QED BY <1>1, <1>3, FS_RemoveElement, FS_CardinalityType
<1>5. \E x, y \in T : x # y /\ f[x] = f[y]
  <2> HIDE DEF T, f
  <2>1. Cardinality(T \ {0}) < Cardinality(T) BY <1>4
  <2> QED BY <1>1, <1>2, <1>4, <2>1, FS_PigeonHole
<1> QED BY <1>5

\* How many numbers of I are below i.
Rank(I, i) == Cardinality({j \in I : j < i})

\* Rank counts: it grows by one at every number of the set, and only there.
LEMMA RanksGrow ==
  ASSUME NEW I \in SUBSET Nat, IsFiniteSet(I)
  PROVE  /\ Cardinality(I) \in Nat
         /\ \A i \in Nat : Rank(I, i) \in 0 .. Cardinality(I)
         /\ \A i \in I : Rank(I, i) \in 0 .. (Cardinality(I) - 1)
         /\ \A i, k \in Nat : i <= k => Rank(I, i) <= Rank(I, k)
         /\ \A i \in I : Rank(I, i + 1) = Rank(I, i) + 1
         /\ \A i \in Nat \ I : Rank(I, i + 1) = Rank(I, i)
         /\ \A i, k \in I : i < k => Rank(I, i) < Rank(I, k)
<1> DEFINE Under(i) == {j \in I : j < i}
<1>1. \A i : IsFiniteSet(Under(i)) /\ Cardinality(Under(i)) \in Nat /\ Rank(I, i) = Cardinality(Under(i))
  <2> TAKE i
  <2>1. Under(i) \in SUBSET I OBVIOUS
  <2>2. Rank(I, i) = Cardinality(Under(i)) BY DEF Rank
  <2> HIDE DEF Under
  <2> QED BY <2>1, <2>2, FS_Subset, FS_CardinalityType
<1>2. Cardinality(I) \in Nat BY FS_CardinalityType
<1>3. \A i \in Nat : Rank(I, i) \in 0 .. Cardinality(I)
  <2> TAKE i \in Nat
  <2>1. Under(i) \in SUBSET I OBVIOUS
  <2>2. Cardinality(Under(i)) <= Cardinality(I) BY <2>1, FS_Subset
  <2> QED BY <1>1, <1>2, <2>2
<1>4. \A i, k \in Nat : i <= k => Rank(I, i) <= Rank(I, k)
  <2> SUFFICES ASSUME NEW i \in Nat, NEW k \in Nat, i <= k PROVE Rank(I, i) <= Rank(I, k) OBVIOUS
  <2>1. Under(i) \in SUBSET Under(k)
    <3> SUFFICES ASSUME NEW j \in I, j < i PROVE j < k OBVIOUS
    <3>1. j \in Nat OBVIOUS
    <3> QED BY <3>1
  <2> HIDE DEF Under
  <2>2. Cardinality(Under(i)) <= Cardinality(Under(k)) BY <1>1, <2>1, FS_Subset
  <2> QED BY <1>1, <2>2
<1>5. \A i \in I : Rank(I, i + 1) = Rank(I, i) + 1
  <2> TAKE i \in I
  <2>1. Under(i + 1) = Under(i) \cup {i} /\ i \notin Under(i)
    <3>1. i \in Nat /\ \A j \in I : j \in Nat /\ (j < i + 1 <=> j < i \/ j = i) /\ ~(i < i) OBVIOUS
    <3>2. \A j : j \in Under(i + 1) <=> j \in Under(i) \cup {i} BY <3>1
    <3>3. i \notin Under(i) BY <3>1
    <3> QED BY <3>2, <3>3
  <2> HIDE DEF Under
  <2>2. Cardinality(Under(i) \cup {i}) = Cardinality(Under(i)) + 1 BY <1>1, <2>1, FS_AddElement
  <2> QED BY <1>1, <2>1, <2>2
<1>6. \A i \in Nat \ I : Rank(I, i + 1) = Rank(I, i)
  <2> TAKE i \in Nat \ I
  <2>1. Under(i + 1) = Under(i)
    <3>1. \A j \in I : j \in Nat /\ j # i /\ (j < i + 1 <=> j < i) OBVIOUS
    <3> QED BY <3>1
  <2> QED BY <1>1, <2>1
<1>7. \A i \in I : Rank(I, i) \in 0 .. (Cardinality(I) - 1)
  <2> TAKE i \in I
  <2>1. i + 1 \in Nat /\ i \in Nat OBVIOUS
  <2>2. Rank(I, i + 1) \in 0 .. Cardinality(I) /\ Rank(I, i) \in 0 .. Cardinality(I) BY <2>1, <1>3
  <2>3. Rank(I, i + 1) = Rank(I, i) + 1 BY <1>5
  <2> QED BY <2>2, <2>3, <1>2
<1>8. \A i, k \in I : i < k => Rank(I, i) < Rank(I, k)
  <2> SUFFICES ASSUME NEW i \in I, NEW k \in I, i < k PROVE Rank(I, i) < Rank(I, k) OBVIOUS
  <2>1. i + 1 \in Nat /\ i \in Nat /\ k \in Nat /\ i + 1 <= k OBVIOUS
  <2>2. Rank(I, i + 1) <= Rank(I, k) BY <2>1, <1>4
  <2>3. Rank(I, i + 1) = Rank(I, i) + 1 BY <1>5
  <2>4. Rank(I, i) \in 0 .. Cardinality(I) /\ Rank(I, k) \in 0 .. Cardinality(I) BY <2>1, <1>3
  <2> QED BY <2>2, <2>3, <2>4
<1> QED BY <1>2, <1>3, <1>4, <1>5, <1>6, <1>7, <1>8

\* Ascending is the inverse of Rank.
LEMMA InOrder ==
  ASSUME NEW I \in SUBSET Nat, IsFiniteSet(I)
  PROVE  /\ Ascending(I) \in [1 .. Cardinality(I) -> I]
         /\ \A n \in 1 .. Cardinality(I) : Rank(I, Ascending(I)[n]) = n - 1
         /\ \A i \in I : /\ Rank(I, i) + 1 \in 1 .. Cardinality(I)
                         /\ Ascending(I)[Rank(I, i) + 1] = i
<1> DEFINE C == Cardinality(I)
           R == [i \in I |-> Rank(I, i)]
<1>1. /\ C \in Nat /\ \A i \in I : Rank(I, i) \in 0 .. (C - 1)
      /\ \A i, k \in I : i < k => Rank(I, i) < Rank(I, k)
  BY RanksGrow
<1> HIDE DEF C
<1>2. \A i, k \in I : Rank(I, i) = Rank(I, k) => i = k
  <2> SUFFICES ASSUME NEW i \in I, NEW k \in I, Rank(I, i) = Rank(I, k) PROVE i = k OBVIOUS
  <2>1. i \in Nat /\ k \in Nat OBVIOUS
  <2>2. ~(i < k) /\ ~(k < i) BY <1>1
  <2> QED BY <2>1, <2>2
<1>3. R \in Injection(I, 0 .. (C - 1)) BY <1>1, <1>2 DEF Injection, IsInjective
<1>4. R \in Surjection(I, 0 .. (C - 1))
  <2>2. IsFiniteSet(0 .. (C - 1)) /\ Cardinality(0 .. (C - 1)) = C BY <1>1, RangeFinite
  <2> HIDE DEF R
  <2> QED BY <2>2, <1>3, FS_Injection DEF C
<1>5. \A n \in 1 .. C : \E i \in I : Rank(I, i) = n - 1
  <2> TAKE n \in 1 .. C
  <2>1. n - 1 \in 0 .. (C - 1) BY <1>1
  <2> QED BY <2>1, <1>4 DEF Surjection
<1>6. ASSUME NEW n \in 1 .. C PROVE Ascending(I)[n] \in I /\ Rank(I, Ascending(I)[n]) = n - 1
  <2>1. Ascending(I)[n] = CHOOSE i \in I : Rank(I, i) = n - 1 BY DEF Ascending, Rank, C
  <2> QED BY <2>1, <1>5
<1>7. Ascending(I) \in [1 .. C -> I] BY <1>6 DEF Ascending, C
<1>8. ASSUME NEW i \in I PROVE Rank(I, i) + 1 \in 1 .. C /\ Ascending(I)[Rank(I, i) + 1] = i
  <2>1. Rank(I, i) + 1 \in 1 .. C /\ (Rank(I, i) + 1) - 1 = Rank(I, i) BY <1>1
  <2>2. /\ Ascending(I)[Rank(I, i) + 1] \in I
        /\ Rank(I, Ascending(I)[Rank(I, i) + 1]) = Rank(I, i)
    BY <2>1, <1>6
  <2> QED BY <2>1, <2>2, <1>2
<1> QED BY <1>6, <1>7, <1>8 DEF C

\* A selection has the entry of each index at its rank.
LEMMA SelectedEntries ==
  ASSUME NEW S, NEW seq \in Seq(S), NEW I \in SUBSET (1 .. Len(seq))
  PROVE  /\ IsFiniteSet(I) /\ I \in SUBSET Nat
         /\ Selected(seq, I) \in Seq(S) /\ Len(Selected(seq, I)) = Cardinality(I)
         /\ \A i \in I : /\ Rank(I, i) + 1 \in 1 .. Cardinality(I)
                         /\ Selected(seq, I)[Rank(I, i) + 1] = seq[i]
<1>0. Len(seq) \in Nat /\ \A i \in 1 .. Len(seq) : seq[i] \in S OBVIOUS
<1>1. IsFiniteSet(I) /\ I \in SUBSET Nat /\ Cardinality(I) \in Nat
  <2>1. IsFiniteSet(1 .. Len(seq)) BY <1>0, RangeFinite
  <2>2. IsFiniteSet(I) BY <2>1, FS_Subset
  <2>3. I \in SUBSET Nat BY <1>0
  <2> QED BY <2>2, <2>3, FS_CardinalityType
<1>2. /\ Ascending(I) \in [1 .. Cardinality(I) -> I]
      /\ \A i \in I : Rank(I, i) + 1 \in 1 .. Cardinality(I) /\ Ascending(I)[Rank(I, i) + 1] = i
  BY <1>1, InOrder
<1>3. Selected(seq, I) \in [1 .. Cardinality(I) -> S]
  BY <1>0, <1>2 DEF Selected
<1>4. \A i \in I : Selected(seq, I)[Rank(I, i) + 1] = seq[i] BY <1>2 DEF Selected
<1> QED BY <1>1, <1>2, <1>3, <1>4, FunctionIsSequence

\* A list of what is selected, its end first, is a stack of a part for each
\* index.
LEMMA SelectedStacked ==
  ASSUME NEW S, NEW seq \in Seq(S), NEW I \in SUBSET (1 .. Len(seq)),
         NEW parts \in Seq(Seq(S)), Len(parts) = Len(seq),
         \A i \in 1 .. Len(seq) : parts[i] = IF i \in I THEN <<seq[i]>> ELSE <<>>
  PROVE  Stacked(Reversed(Selected(seq, I)), parts, 0, 0)
<1> DEFINE list == Selected(seq, I)
           C == Cardinality(I)
           N == Len(seq)
           H == [e \in 0 .. N |-> C - Rank(I, e + 1)]
<1>1. /\ IsFiniteSet(I) /\ I \in SUBSET Nat /\ list \in Seq(S) /\ Len(list) = C
      /\ \A i \in I : Rank(I, i) + 1 \in 1 .. C /\ list[Rank(I, i) + 1] = seq[i]
  BY SelectedEntries
<1>2. /\ C \in Nat
      /\ \A i \in Nat : Rank(I, i) \in 0 .. C
      /\ \A i, k \in Nat : i <= k => Rank(I, i) <= Rank(I, k)
      /\ \A i \in I : Rank(I, i + 1) = Rank(I, i) + 1
      /\ \A i \in Nat \ I : Rank(I, i + 1) = Rank(I, i)
  BY <1>1, RanksGrow
<1>3. N \in Nat OBVIOUS
<1>11. \A i \in 1 .. N : IF i \in I THEN Len(parts[i]) = 1 /\ parts[i][1] = seq[i]
                                    ELSE Len(parts[i]) = 0
  <2> TAKE i \in 1 .. N
  <2>1. CASE i \in I
    <3>1. parts[i] = <<seq[i]>> BY <2>1
    <3> QED BY <2>1, <3>1
  <2>2. CASE i \notin I
    <3>1. parts[i] = <<>> BY <2>2
    <3> QED BY <2>2, <3>1
  <2> QED BY <2>1, <2>2
<1> HIDE DEF C, list, N
<1>4. Rank(I, N + 1) = C /\ Rank(I, 1) = 0
  <2>1. {j \in I : j < N + 1} = I
    <3>1. \A j \in I : j \in 1 .. N BY DEF N
    <3>2. \A j \in I : j < N + 1 BY <3>1, <1>3
    <3> QED BY <3>2
  <2>2. {j \in I : j < 1} = {}
    <3>1. \A j \in I : j \in 1 .. N BY DEF N
    <3>2. \A j \in I : ~(j < 1) BY <3>1, <1>3
    <3> QED BY <3>2
  <2> QED BY <2>1, <2>2, FS_EmptySet DEF Rank, C
<1>5. /\ H \in [0 .. N -> Nat]
      /\ \A e \in 0 .. N : e + 1 \in Nat /\ H[e] = C - Rank(I, e + 1)
  <2>1. \A e \in 0 .. N : C - Rank(I, e + 1) \in Nat
    <3> TAKE e \in 0 .. N
    <3>1. e + 1 \in Nat BY <1>3
    <3>2. Rank(I, e + 1) \in 0 .. C BY <3>1, <1>2
    <3>3. \A r \in 0 .. C : C - r \in Nat BY <1>2
    <3> QED BY <3>2, <3>3
  <2> QED BY <2>1, <1>3
<1> HIDE DEF H
<1>6. \A i \in 1 .. N : /\ i \in Nat /\ i - 1 \in 0 .. N /\ (i - 1) + 1 = i
                        /\ H[i - 1] = C - Rank(I, i) /\ H[i] = C - Rank(I, i + 1)
                        /\ Rank(I, i) \in 0 .. C /\ Rank(I, i + 1) \in 0 .. C
  <2> TAKE i \in 1 .. N
  <2>1. i \in Nat /\ i + 1 \in Nat /\ i - 1 \in 0 .. N /\ i \in 0 .. N /\ (i - 1) + 1 = i BY <1>3
  <2> QED BY <2>1, <1>2, <1>5
<1>7. Heights(H, parts, 0)
  <2>1. H[N] = 0 BY <1>2, <1>3, <1>4, <1>5
  <2>2. ASSUME NEW i \in 0 .. N, NEW k \in 0 .. N, i <= k PROVE H[k] <= H[i]
    <3>1. i + 1 \in Nat /\ k + 1 \in Nat /\ i + 1 <= k + 1 BY <2>2, <1>3
    <3>2. Rank(I, i + 1) <= Rank(I, k + 1) /\ Rank(I, i + 1) \in 0 .. C /\ Rank(I, k + 1) \in 0 .. C
      BY <3>1, <1>2
    <3> QED BY <3>2, <1>2, <1>5
  <2>3. ASSUME NEW i \in 1 .. N PROVE H[i - 1] = H[i] + Len(parts[i])
    <3>0. /\ H[i - 1] = C - Rank(I, i) /\ H[i] = C - Rank(I, i + 1) /\ i \in Nat
          /\ Rank(I, i) \in Int /\ Rank(I, i + 1) \in Int
      BY <1>2, <1>6
    <3>1. CASE i \in I
      <4>1. Len(parts[i]) = 1 BY <3>1, <1>11
      <4>2. Rank(I, i + 1) = Rank(I, i) + 1 BY <3>1, <1>2
      <4> QED BY <4>1, <4>2, <3>0, <1>2
    <3>2. CASE i \notin I
      <4>1. Len(parts[i]) = 0 BY <3>2, <1>11
      <4>2. Rank(I, i + 1) = Rank(I, i) BY <3>0, <3>2, <1>2
      <4> QED BY <4>1, <4>2, <3>0, <1>2
    <3> QED BY <3>1, <3>2
  <2> QED BY <2>1, <2>2, <2>3, <1>5 DEF Heights, N
<1>8. /\ Reversed(list) \in Seq(S) /\ Len(Reversed(list)) = C
      /\ \A j \in 1 .. C : Reversed(list)[j] = list[(C - j) + 1]
  BY <1>1, ReversedTwice
<1>9. Entries(Reversed(list), H, parts, 0)
  <2> SUFFICES ASSUME NEW i \in 1 .. N, NEW j \in 1 .. Len(parts[i])
               PROVE  Reversed(list)[H[i] + j] = parts[i][j]
    BY DEF Entries, N
  <2>1. i \in I
    <3>1. CASE i \notin I
      <4>1. Len(parts[i]) = 0 BY <3>1, <1>11
      <4> QED BY <4>1
    <3> QED BY <3>1
  <2>2. Len(parts[i]) = 1 /\ parts[i][1] = seq[i] BY <2>1, <1>11
  <2>3. j = 1 BY <2>2
  <2>4. Rank(I, i) + 1 \in 1 .. C /\ list[Rank(I, i) + 1] = seq[i] BY <2>1, <1>1
  <2>5. H[i] = C - (Rank(I, i) + 1) BY <2>1, <1>2, <1>6
  <2>6. H[i] + 1 \in 1 .. C /\ (C - (H[i] + 1)) + 1 = Rank(I, i) + 1
    <3>1. Rank(I, i) \in Int BY <1>6
    <3> DEFINE k == Rank(I, i)
    <3>2. k \in Int /\ k + 1 \in 1 .. C /\ H[i] = C - (k + 1) BY <2>4, <2>5, <3>1
    <3> HIDE DEF k
    <3>3. H[i] + 1 = C - k /\ C - k \in 1 .. C /\ (C - (C - k)) + 1 = k + 1 BY <3>2, <1>2
    <3> QED BY <3>3 DEF k
  <2> QED BY <2>2, <2>3, <2>4, <2>6, <1>8
<1>10. H[0] = Len(Reversed(list)) + 0
  <2>1. 0 \in 0 .. N /\ 0 + 1 = 1 BY <1>3
  <2> QED BY <2>1, <1>2, <1>4, <1>5, <1>8
<1> QED BY <1>7, <1>8, <1>9, <1>10 DEF Stacked, list

-----------------------------------------------------------------------------
\* Sums of a function over a finite set.

\* What the folds that add up a function unfold to.
SumsTo(g, f, U) ==
  g = [s \in SUBSET U |-> IF s = {} THEN 0
                          ELSE LET x == CHOOSE x \in s : TRUE IN f[x] + g[s \ {x}]]
SumOf(f) == (CHOOSE g : SumsTo(g, f, DOMAIN f))[DOMAIN f]

\* Both modes add up this way.
LEMMA SumsAreSums ==
  /\ \A f : Ppm!SumOver(f) = SumOf(f)
  /\ \A f : Dict!Total(f) = SumOf(f)
<1>1. \A f : Ppm!SumOver(f) = SumOf(f)
  BY DEF Ppm!SumOver, Ppm!FoldFunction, Ppm!FoldFunctionOnSet, Ppm!MapThenFoldSet, SumOf, SumsTo
<1>2. \A f : Dict!Total(f) = SumOf(f)
  BY Zenon DEF Dict!Total, Dict!FoldFunction, Dict!FoldFunctionOnSet, Dict!MapThenFoldSet, SumOf, SumsTo
<1> QED BY <1>1, <1>2

\* The recursion of the sum has a solution.
LEMMA SumsExist ==
  ASSUME NEW U, IsFiniteSet(U), NEW f
  PROVE  \E g : SumsTo(g, f, U)
<1> DEFINE Up(k) == {s \in SUBSET U : Cardinality(s) <= k}
           Next1(g, s) == IF s = {} THEN 0 ELSE LET x == CHOOSE x \in s : TRUE IN f[x] + g[s \ {x}]
           A == {k \in Nat : \E g : g = [s \in Up(k) |-> Next1(g, s)]}
<1>0. \A s \in SUBSET U : IsFiniteSet(s) /\ Cardinality(s) \in Nat /\ Cardinality(s) <= Cardinality(U)
  BY FS_Subset, FS_CardinalityType
<1>1. \A s \in SUBSET U : s # {} =>
        LET x == CHOOSE x \in s : TRUE IN x \in s /\ s \ {x} \in SUBSET U /\ Cardinality(s \ {x}) = Cardinality(s) - 1
  BY <1>0, FS_RemoveElement
<1>2. 0 \in A
  <2> DEFINE g == [s \in Up(0) |-> 0]
  <2>1. \A s \in Up(0) : s = {} BY <1>0, FS_EmptySet
  <2>2. g = [s \in Up(0) |-> Next1(g, s)] BY <2>1
  <2> QED BY <2>2
<1>3. ASSUME NEW k \in Nat, k \in A PROVE k + 1 \in A
  <2>1. PICK g : g = [s \in Up(k) |-> Next1(g, s)] BY <1>3
  <2> DEFINE h == [s \in Up(k + 1) |-> Next1(g, s)]
  <2>2. ASSUME NEW s \in Up(k + 1) PROVE Next1(h, s) = Next1(g, s)
    <3> DEFINE x == CHOOSE x \in s : TRUE
               r == s \ {x}
    <3>1. CASE s = {} BY <3>1
    <3>2. CASE s # {}
      <4>1. r \in Up(k) /\ r \in Up(k + 1) BY <3>2, <1>0, <1>1
      <4>2. h[r] = Next1(g, r) BY <4>1
      <4>3. g[r] = Next1(g, r) BY <4>1, <2>1
      <4> HIDE DEF h
      <4>4. h[r] = g[r] BY <4>2, <4>3
      <4>5. Next1(h, s) = f[x] + h[r] /\ Next1(g, s) = f[x] + g[r] BY <3>2
      <4> QED BY <4>4, <4>5
    <3> QED BY <3>1, <3>2
  <2> HIDE DEF Next1, Up
  <2>3. h = [s \in Up(k + 1) |-> Next1(h, s)] BY <2>2
  <2> HIDE DEF h
  <2>4. \E e : e = [s \in Up(k + 1) |-> Next1(e, s)] BY <2>3
  <2> QED BY <2>4
<1> HIDE DEF A
<1>4. Cardinality(U) \in A
  <2>1. Cardinality(U) \in Nat BY FS_CardinalityType
  <2> QED BY <2>1, <1>2, <1>3, NatInd
<1>5. Up(Cardinality(U)) = SUBSET U BY <1>0
<1> QED BY <1>4, <1>5 DEF A, SumsTo

\* A sum of naturals is at least each of them, and 0 only if all are.
LEMMA SumBounds ==
  ASSUME NEW U, IsFiniteSet(U), NEW f \in [U -> Nat]
  PROVE  /\ SumOf(f) \in Nat /\ \A x \in U : f[x] <= SumOf(f)
         /\ SumOf(f) > 0 => \E x \in U : f[x] > 0
<1> DEFINE g == CHOOSE g : SumsTo(g, f, U)
           Bounds(s) == /\ g[s] \in Nat /\ \A y \in s : f[y] <= g[s]
                        /\ g[s] > 0 => \E y \in s : f[y] > 0
           A == {k \in Nat : \A s \in SUBSET U : Cardinality(s) <= k => Bounds(s)}
<1>0. \A s \in SUBSET U : IsFiniteSet(s) /\ Cardinality(s) \in Nat /\ Cardinality(s) <= Cardinality(U)
  BY FS_Subset, FS_CardinalityType
<1>1. SumsTo(g, f, U) BY SumsExist
<1>2. SumOf(f) = g[U] BY DEF SumOf
<1> HIDE DEF g
<1>3. \A s \in SUBSET U :
        g[s] = IF s = {} THEN 0 ELSE LET x == CHOOSE x \in s : TRUE IN f[x] + g[s \ {x}]
  BY <1>1 DEF SumsTo
<1>4. 0 \in A
  <2>1. \A s \in SUBSET U : Cardinality(s) <= 0 => s = {} BY <1>0, FS_EmptySet
  <2>2. {} \in SUBSET U OBVIOUS
  <2>3. g[{}] = 0 BY <2>2, <1>3
  <2>4. \A s \in SUBSET U : Cardinality(s) <= 0 => Bounds(s) BY <2>1, <2>3
  <2> HIDE DEF Bounds
  <2> QED BY <2>4
<1>5. ASSUME NEW k \in Nat, k \in A PROVE k + 1 \in A
  <2>0. ASSUME NEW s \in SUBSET U, Cardinality(s) <= k + 1, s # {} PROVE Bounds(s)
    <3> DEFINE x == CHOOSE x \in s : TRUE
               r == s \ {x}
    <3>1. x \in s BY <2>0
    <3>2. g[s] = f[x] + g[r] BY <2>0, <1>3
    <3> HIDE DEF x
    <3>3. r \in SUBSET U /\ Cardinality(r) <= k
      <4>1. Cardinality(r) = Cardinality(s) - 1 BY <3>1, <1>0, FS_RemoveElement
      <4> QED BY <4>1, <1>0, <2>0
    <3>4. Bounds(r) BY <3>3, <1>5
    <3>5. f[x] \in Nat /\ \A y \in s : f[y] \in Nat BY <3>1
    <3>6. \A y \in s : y = x \/ y \in r OBVIOUS
    <3>7. r \subseteq s OBVIOUS
    <3> HIDE DEF r
    <3>8. g[s] > 0 => f[x] > 0 \/ g[r] > 0 BY <3>2, <3>4, <3>5
    <3>9. g[s] > 0 => \E y \in s : f[y] > 0 BY <3>1, <3>4, <3>7, <3>8
    <3> QED BY <3>2, <3>4, <3>5, <3>6, <3>9
  <2>1. Bounds({}) BY <1>4, FS_EmptySet
  <2> HIDE DEF Bounds
  <2> QED BY <2>0, <2>1
<1> HIDE DEF A
<1>6. Cardinality(U) \in A
  <2>1. Cardinality(U) \in Nat BY FS_CardinalityType
  <2> QED BY <2>1, <1>4, <1>5, NatInd
<1>7. Bounds(U) BY <1>0, <1>6 DEF A
<1> QED BY <1>2, <1>7

-----------------------------------------------------------------------------
\* The positions of the events: they follow each other without a gap.

\* g has the rest of the positions from each place from lo on.
RestsFrom(g, seq, lo) ==
  g = [p \in lo .. (Len(seq) + 4) |->
         IF p > Len(seq) THEN <<>> ELSE <<p>> \o g[p + Span(seq, p)]]

\* Where event e of those at ps begins, or what follows all of them.
Start(seq, ps, e) == IF e <= Len(ps) THEN ps[e] ELSE Len(seq) + 1

\* Events that follow each other without a gap from p to the end.
Chain(seq, ps, p) ==
  /\ ps \in Seq(1 .. Len(seq)) /\ Start(seq, ps, 1) = p
  /\ \A e \in 1 .. Len(ps) : Start(seq, ps, e + 1) = ps[e] + Span(seq, ps[e])

\* An event ends within the list.
LEMMA SpanFits ==
  ASSUME NEW S, NEW seq \in Seq(S), NEW p \in 1 .. Len(seq)
  PROVE  /\ Span(seq, p) \in {1, 4} /\ p + Span(seq, p) \in 2 .. (Len(seq) + 1)
         /\ p + Span(seq, p) > p
<1>1. Len(seq) \in Nat OBVIOUS
<1> QED BY <1>1 DEF Span

\* The recursion of Positions has a solution.
LEMMA RestsExist ==
  ASSUME NEW S, NEW seq \in Seq(S)
  PROVE  \E g : RestsFrom(g, seq, 1)
<1> DEFINE N == Len(seq)
           A == {n \in Nat : n <= N + 4 => \E g : RestsFrom(g, seq, (N + 5) - n)}
<1>0. N \in Nat OBVIOUS
<1>1. 0 \in A
  <2> DEFINE g == [p \in (N + 5) .. (N + 4) |-> <<>>]
  <2>1. (N + 5) .. (N + 4) = {} /\ (N + 5) - 0 = N + 5 BY <1>0
  <2>2. RestsFrom(g, seq, (N + 5) - 0) BY <2>1 DEF RestsFrom
  <2> QED BY <2>2
<1>2. ASSUME NEW n \in Nat, n \in A PROVE n + 1 \in A
  <2> SUFFICES ASSUME n + 1 <= N + 4 PROVE \E h : RestsFrom(h, seq, (N + 5) - (n + 1))
    BY <1>0
  <2> DEFINE lo == (N + 5) - n
             Rest(g, p) == IF p > N THEN <<>> ELSE <<p>> \o g[p + Span(seq, p)]
  <2>1. lo \in 2 .. (N + 5) /\ (N + 5) - (n + 1) = lo - 1 BY <1>0
  <2>2. PICK g : RestsFrom(g, seq, lo) BY <1>2, <1>0
  <2> HIDE DEF lo
  <2> DEFINE h == [p \in (lo - 1) .. (N + 4) |-> IF p = lo - 1 THEN Rest(g, p) ELSE g[p]]
  <2>3. \A p \in (lo - 1) .. (N + 4) : h[p] = Rest(h, p)
    <3> TAKE p \in (lo - 1) .. (N + 4)
    <3>1. p <= N => /\ p + Span(seq, p) \in lo .. (N + 4)
                    /\ p + Span(seq, p) \in (lo - 1) .. (N + 4) /\ p + Span(seq, p) # lo - 1
      BY <1>0, <2>1, SpanFits
    <3>2. p <= N => h[p + Span(seq, p)] = g[p + Span(seq, p)] BY <3>1
    <3>3. Rest(h, p) = Rest(g, p) BY <3>2, <2>1, <1>0
    <3>4. CASE p = lo - 1 BY <3>3, <3>4
    <3>5. CASE p # lo - 1
      <4>1. p \in lo .. (N + 4) BY <3>5, <2>1, <1>0
      <4>2. g[p] = Rest(g, p) BY <4>1, <2>2 DEF RestsFrom
      <4> QED BY <4>2, <3>3, <3>5
    <3> QED BY <3>4, <3>5
  <2>4. h = [p \in (lo - 1) .. (N + 4) |-> Rest(h, p)] BY <2>3
  <2> HIDE DEF h
  <2>5. RestsFrom(h, seq, lo - 1) BY <2>4 DEF RestsFrom
  <2> QED BY <2>1, <2>5
<1> HIDE DEF A
<1>3. N + 4 \in A BY <1>0, <1>1, <1>2, NatInd
<1>4. (N + 5) - (N + 4) = 1 BY <1>0
<1> QED BY <1>0, <1>3, <1>4 DEF A

\* Positions is a chain of events from 1 to the end.
LEMMA PositionsChain ==
  ASSUME NEW S, NEW seq \in Seq(S)
  PROVE  Chain(seq, Positions(seq), 1)
<1> DEFINE N == Len(seq)
           from == CHOOSE g : RestsFrom(g, seq, 1)
<1>0. N \in Nat OBVIOUS
<1>1. RestsFrom(from, seq, 1) BY RestsExist
<1>2. Positions(seq) = from[1] BY DEF Positions, RestsFrom
<1> HIDE DEF from
<1>3. \A p \in 1 .. (N + 4) : from[p] = IF p > N THEN <<>> ELSE <<p>> \o from[p + Span(seq, p)]
  BY <1>1 DEF RestsFrom
<1> DEFINE A == {n \in Nat : \A p \in 1 .. (N + 1) : p + n >= N + 1 => Chain(seq, from[p], p)}
<1>4. 0 \in A
  <2> SUFFICES ASSUME NEW p \in 1 .. (N + 1), p + 0 >= N + 1 PROVE Chain(seq, from[p], p)
    OBVIOUS
  <2>1. p = N + 1 /\ p \in 1 .. (N + 4) /\ p > N BY <1>0
  <2>2. from[p] = <<>> BY <2>1, <1>3
  <2>3. <<>> \in Seq(1 .. N) /\ Len(<<>>) = 0 OBVIOUS
  <2>4. 1 .. 0 = {} /\ ~(1 <= 0) OBVIOUS
  <2> QED BY <2>1, <2>2, <2>3, <2>4 DEF Chain, Start
<1>5. ASSUME NEW n \in Nat, n \in A PROVE n + 1 \in A
  <2> SUFFICES ASSUME NEW p \in 1 .. (N + 1), p + (n + 1) >= N + 1 PROVE Chain(seq, from[p], p)
    OBVIOUS
  <2>1. CASE p = N + 1 BY <2>1, <1>4, <1>0
  <2>2. CASE p # N + 1
    <3> DEFINE q == p + Span(seq, p)
               rest == from[q]
               ps == from[p]
    <3>1. p \in 1 .. N /\ p \in 1 .. (N + 4) /\ ~(p > N) BY <2>2, <1>0
    <3>2. q \in 1 .. (N + 1) /\ q + n >= N + 1 BY <3>1, <1>0, SpanFits
    <3>3. Chain(seq, rest, q) BY <3>2, <1>5
    <3>4. ps = <<p>> \o rest BY <3>1, <1>3
    <3> HIDE DEF ps, rest
    <3>5. rest \in Seq(1 .. N) /\ Len(rest) \in Nat BY <3>3 DEF Chain
    <3>6. /\ ps \in Seq(1 .. N) /\ Len(ps) = Len(rest) + 1 /\ ps[1] = p
          /\ \A e \in 1 .. Len(rest) : ps[e + 1] = rest[e]
      BY <3>1, <3>4, <3>5
    <3> HIDE DEF q
    <3>7. ASSUME NEW e \in 0 .. Len(rest) PROVE Start(seq, ps, (e + 1) + 1) = Start(seq, rest, e + 1)
      <4>1. CASE e + 1 <= Len(rest)
        <5>1. e + 1 \in 1 .. Len(rest) /\ (e + 1) + 1 <= Len(ps) BY <4>1, <3>5, <3>6
        <5> QED BY <5>1, <4>1, <3>6 DEF Start
      <4>2. CASE ~(e + 1 <= Len(rest))
        <5>1. ~((e + 1) + 1 <= Len(ps)) BY <4>2, <3>5, <3>6
        <5> QED BY <5>1, <4>2 DEF Start
      <4> QED BY <4>1, <4>2
    <3>8. ASSUME NEW e \in 1 .. Len(ps) PROVE Start(seq, ps, e + 1) = ps[e] + Span(seq, ps[e])
      <4>1. CASE e = 1
        <5>1. Start(seq, ps, (0 + 1) + 1) = Start(seq, rest, 0 + 1) BY <3>5, <3>7
        <5>2. Start(seq, ps, 2) = Start(seq, rest, 1) BY <5>1
        <5> QED BY <4>1, <5>2, <3>3, <3>6 DEF Chain, q
      <4>2. CASE e # 1
        <5> DEFINE d == e - 1
        <5>1. d \in 1 .. Len(rest) /\ d \in 0 .. Len(rest) /\ d + 1 = e BY <4>2, <3>5, <3>6
        <5> HIDE DEF d
        <5>2. Start(seq, ps, (d + 1) + 1) = Start(seq, rest, d + 1) BY <5>1, <3>7
        <5>3. Start(seq, rest, d + 1) = rest[d] + Span(seq, rest[d]) BY <5>1, <3>3 DEF Chain
        <5>4. ps[e] = rest[d] BY <5>1, <3>6
        <5> QED BY <5>1, <5>2, <5>3, <5>4
      <4> QED BY <4>1, <4>2
    <3>9. Start(seq, ps, 1) = p BY <3>5, <3>6 DEF Start
    <3> QED BY <3>6, <3>8, <3>9 DEF Chain, ps
  <2> QED BY <2>1, <2>2
<1> HIDE DEF A
<1>6. N \in A BY <1>0, <1>4, <1>5, NatInd
<1>7. 1 \in 1 .. (N + 1) /\ 1 + N >= N + 1 BY <1>0
<1>8. Chain(seq, from[1], 1) BY <1>6, <1>7 DEF A
<1> QED BY <1>2, <1>8

-----------------------------------------------------------------------------
\* The capped alphabet.

\* A prefix and the entry after it.
LEMMA GrowPrefix ==
  ASSUME NEW S, NEW seq \in Seq(S), NEW b \in 0 .. (Len(seq) - 1)
  PROVE  /\ Append(SubSeq(seq, 1, b), seq[b + 1]) = SubSeq(seq, 1, b + 1)
         /\ b + 1 \in 1 .. Len(seq) /\ seq[b + 1] \in S
<1>0. Len(seq) \in Nat OBVIOUS
<1>1. b \in 0 .. Len(seq) /\ b + 1 \in 0 .. Len(seq) /\ b + 1 \in 1 .. Len(seq) BY <1>0
<1>2. seq[b + 1] \in S BY <1>1, ElementOfSeq
<1> DEFINE s == SubSeq(seq, 1, b)
           t == SubSeq(seq, 1, b + 1)
<1>3. s \in Seq(S) /\ Len(s) = b /\ \A p \in 1 .. b : s[p] = seq[p] BY <1>1, PrefixEntries
<1>4. t \in Seq(S) /\ Len(t) = b + 1 /\ \A p \in 1 .. (b + 1) : t[p] = seq[p] BY <1>1, PrefixEntries
<1> HIDE DEF s, t
<1> DEFINE more == Append(s, seq[b + 1])
<1>5. more \in Seq(S) /\ Len(more) = b + 1 /\ \A p \in 1 .. (b + 1) : more[p] = seq[p]
  BY <1>1, <1>2, <1>3
<1> HIDE DEF more
<1>6. more = t BY <1>1, <1>4, <1>5, SeqEqual
<1> QED BY <1>1, <1>2, <1>6 DEF more, s, t

\* A strict total order on a set, as its pairs.
Orders(B, all) ==
  /\ \A a \in all : <<a, a>> \notin B
  /\ \A a, b \in all : a # b => <<a, b>> \in B \/ <<b, a>> \in B
  /\ \A a, b, c \in all : <<a, b>> \in B /\ <<b, c>> \in B => <<a, c>> \in B

\* kept is the first cap of all, in the order B.
FirstOf(kept, all, B, cap) ==
  /\ kept \in SUBSET all /\ Cardinality(kept) = cap
  /\ \A a \in kept, b \in all \ kept : <<a, b>> \in B

\* Those that fewer than cap come before.
Leading(all, B, cap) == {a \in all : Cardinality({b \in all : <<b, a>> \in B}) < cap}

\* Of a finite set in a strict total order, the first cap.
LEMMA FirstOnes ==
  ASSUME NEW all, IsFiniteSet(all), NEW B \in SUBSET (all \X all),
         Orders(B, all),
         NEW cap \in Nat, cap <= Cardinality(all)
  PROVE  FirstOf(Leading(all, B, cap), all, B, cap)
<1> DEFINE C == Cardinality(all)
           First(a) == {b \in all : <<b, a>> \in B}
           R == [a \in all |-> Cardinality(First(a))]
           kept == {a \in all : R[a] < cap}
<1>0. /\ C \in Nat
      /\ \A a \in all : <<a, a>> \notin B
      /\ \A a, b \in all : a # b => <<a, b>> \in B \/ <<b, a>> \in B
      /\ \A a, b, c \in all : <<a, b>> \in B /\ <<b, c>> \in B => <<a, c>> \in B
  BY FS_CardinalityType DEF Orders
<1>1. \A a \in all : /\ First(a) \in SUBSET all /\ IsFiniteSet(First(a))
                     /\ R[a] = Cardinality(First(a)) /\ R[a] \in 0 .. (C - 1)
  <2> TAKE a \in all
  <2>1. First(a) \in SUBSET (all \ {a}) /\ First(a) \in SUBSET all BY <1>0
  <2>2. IsFiniteSet(all \ {a}) /\ Cardinality(all \ {a}) = C - 1 BY FS_RemoveElement
  <2> HIDE DEF First
  <2>3. IsFiniteSet(First(a)) /\ Cardinality(First(a)) <= C - 1 BY <2>1, <2>2, FS_Subset
  <2>4. Cardinality(First(a)) \in Nat BY <2>3, FS_CardinalityType
  <2> QED BY <2>1, <2>3, <2>4, <1>0
<1>2. \A a, b \in all : <<b, a>> \in B => R[b] < R[a]
  <2> SUFFICES ASSUME NEW a \in all, NEW b \in all, <<b, a>> \in B PROVE R[b] < R[a] OBVIOUS
  <2>1. First(b) \cup {b} \in SUBSET First(a) /\ b \notin First(b)
    BY <1>0
  <2>2. Cardinality(First(b) \cup {b}) = Cardinality(First(b)) + 1
    <3>1. b \notin First(b) /\ IsFiniteSet(First(b)) BY <2>1, <1>1
    <3> HIDE DEF First
    <3> QED BY <3>1, FS_AddElement
  <2>3. Cardinality(First(b) \cup {b}) <= Cardinality(First(a))
    <3>1. IsFiniteSet(First(a)) BY <1>1
    <3> HIDE DEF First
    <3> QED BY <3>1, <2>1, FS_Subset
  <2> HIDE DEF First, R
  <2>4. R[a] \in 0 .. (C - 1) /\ R[b] \in 0 .. (C - 1) BY <1>1
  <2>5. R[a] = Cardinality(First(a)) /\ R[b] = Cardinality(First(b)) BY <1>1
  <2> HIDE DEF C
  <2> QED BY <2>2, <2>3, <2>4, <2>5, <1>0
<1>3. R \in [all -> 0 .. (C - 1)] BY <1>1
<1>4. \A a, b \in all : R[a] = R[b] => a = b
  <2> SUFFICES ASSUME NEW a \in all, NEW b \in all, R[a] = R[b], a # b PROVE FALSE OBVIOUS
  <2>1. R[a] < R[b] \/ R[b] < R[a] BY <1>0, <1>2
  <2> HIDE DEF R
  <2>2. R[a] \in 0 .. (C - 1) /\ R[b] \in 0 .. (C - 1) BY <1>1
  <2> HIDE DEF C
  <2> QED BY <2>1, <2>2, <1>0
<1> HIDE DEF R, C, First
<1>5. R \in Surjection(all, 0 .. (C - 1))
  <2>1. R \in Injection(all, 0 .. (C - 1)) BY <1>3, <1>4 DEF Injection, IsInjective
  <2>2. IsFiniteSet(0 .. (C - 1)) /\ Cardinality(0 .. (C - 1)) = C BY <1>0, RangeFinite
  <2> QED BY <2>1, <2>2, FS_Injection DEF C
<1>6. Cardinality(kept) = cap
  <2> DEFINE Q == [a \in kept |-> R[a]]
  <2>1. Q \in [kept -> 0 .. (cap - 1)] BY <1>0, <1>3
  <2>2. \A a, b \in kept : Q[a] = Q[b] => a = b BY <1>4
  <2>3. \A k \in 0 .. (cap - 1) : \E a \in kept : Q[a] = k
    <3> TAKE k \in 0 .. (cap - 1)
    <3>1. k \in 0 .. (C - 1) /\ k < cap BY <1>0 DEF C
    <3>2. PICK a \in all : R[a] = k BY <3>1, <1>5 DEF Surjection
    <3> QED BY <3>1, <3>2
  <2>4. IsFiniteSet(0 .. (cap - 1)) /\ Cardinality(0 .. (cap - 1)) = cap BY RangeFinite
  <2> HIDE DEF kept, Q
  <2>5. Q \in Injection(kept, 0 .. (cap - 1)) /\ Q \in Surjection(kept, 0 .. (cap - 1))
    BY <2>1, <2>2, <2>3 DEF Injection, IsInjective, Surjection
  <2> QED BY <2>4, <2>5, FS_Injection
<1>7. \A a \in kept, b \in all \ kept : <<a, b>> \in B
  <2> SUFFICES ASSUME NEW a \in kept, NEW b \in all \ kept PROVE <<a, b>> \in B OBVIOUS
  <2>1. a \in all /\ b \in all /\ R[a] < cap /\ ~(R[b] < cap) /\ a # b OBVIOUS
  <2>2. R[a] \in Int /\ R[b] \in Int BY <2>1, <1>0, <1>3
  <2>3. ~(R[b] < R[a]) BY <2>1, <2>2
  <2> QED BY <2>1, <2>3, <1>0, <1>2
<1>8. kept \in SUBSET all OBVIOUS
<1>9. kept = Leading(all, B, cap) BY DEF Leading, R, First
<1> HIDE DEF kept
<1> QED BY <1>6, <1>7, <1>8, <1>9 DEF FirstOf

\* The numbers of a set by what is counted of them, equals by themselves.
CountOrder(all, f) ==
  {p \in all \X all : f[p[1]] > f[p[2]] \/ (f[p[1]] = f[p[2]] /\ p[1] < p[2])}

\* That is a strict total order.
LEMMA CountsOrder ==
  ASSUME NEW all \in SUBSET Nat, NEW f, \A a \in all : f[a] \in Nat
  PROVE  Orders(CountOrder(all, f), all) /\ CountOrder(all, f) \in SUBSET (all \X all)
<1> DEFINE B == CountOrder(all, f)
<1>1. \A a, b \in all : <<a, b>> \in B <=> f[a] > f[b] \/ (f[a] = f[b] /\ a < b) BY DEF CountOrder
<1>2. \A a \in all : a \in Nat OBVIOUS
<1> HIDE DEF B
<1>3. \A a \in all : <<a, a>> \notin B BY <1>1, <1>2
<1>4. \A a, b \in all : a # b => <<a, b>> \in B \/ <<b, a>> \in B BY <1>1, <1>2
<1>5. ASSUME NEW a \in all, NEW b \in all, NEW c \in all, <<a, b>> \in B, <<b, c>> \in B
      PROVE  <<a, c>> \in B
  <2>1. a \in Nat /\ b \in Nat /\ c \in Nat /\ f[a] \in Nat /\ f[b] \in Nat /\ f[c] \in Nat OBVIOUS
  <2> QED BY <2>1, <1>1, <1>5
<1> QED BY <1>3, <1>4, <1>5 DEF Orders, B, CountOrder

\* A sequence has finitely many values, each a number of times.
LEMMA ValuesFinite ==
  ASSUME NEW seq \in Seq(Nat)
  PROVE  /\ IsFiniteSet(ValuesOf(seq)) /\ ValuesOf(seq) \in SUBSET Nat
         /\ Cardinality(ValuesOf(seq)) \in Nat
         /\ \A s : CountOf(seq, s) \in Nat
<1>0. DOMAIN seq = 1 .. Len(seq) /\ Len(seq) \in Nat /\ \A n \in 1 .. Len(seq) : seq[n] \in Nat
  OBVIOUS
<1>1. IsFiniteSet(1 .. Len(seq)) BY <1>0, RangeFinite
<1> DEFINE f == [n \in 1 .. Len(seq) |-> seq[n]]
<1>2. f \in Surjection(1 .. Len(seq), ValuesOf(seq)) BY <1>0 DEF Surjection, ValuesOf
<1>3. IsFiniteSet(ValuesOf(seq))
  <2> HIDE DEF f
  <2> QED BY <1>1, <1>2, FS_Surjection
<1>4. ValuesOf(seq) \in SUBSET Nat BY <1>0 DEF ValuesOf
<1>5. \A s : CountOf(seq, s) \in Nat
  <2> TAKE s
  <2>1. {n \in DOMAIN seq : seq[n] = s} \in SUBSET (1 .. Len(seq)) BY <1>0
  <2>2. IsFiniteSet({n \in DOMAIN seq : seq[n] = s}) BY <1>1, <2>1, FS_Subset
  <2> QED BY <2>2, FS_CardinalityType DEF CountOf
<1> QED BY <1>3, <1>4, <1>5, FS_CardinalityType

\* A capped alphabet is no larger than the cap.
LEMMA CappedFits ==
  ASSUME NEW seq \in Seq(Nat), NEW cap \in Nat
  PROVE  /\ Capped(seq, cap) \in SUBSET ValuesOf(seq)
         /\ IsFiniteSet(Capped(seq, cap))
         /\ Cardinality(Capped(seq, cap)) \in Nat /\ Cardinality(Capped(seq, cap)) <= cap
<1> DEFINE all == ValuesOf(seq)
           f == [s \in all |-> CountOf(seq, s)]
           B == CountOrder(all, f)
           kept == Leading(all, B, cap)
           Best(k) == /\ Cardinality(k) = cap
                      /\ \A a \in k, b \in all \ k :
                           \/ CountOf(seq, a) > CountOf(seq, b)
                           \/ CountOf(seq, a) = CountOf(seq, b) /\ a < b
<1>1. /\ IsFiniteSet(all) /\ all \in SUBSET Nat /\ Cardinality(all) \in Nat
      /\ \A s : CountOf(seq, s) \in Nat
  BY ValuesFinite
<1>2. Capped(seq, cap) = IF Cardinality(all) <= cap THEN all ELSE CHOOSE k \in SUBSET all : Best(k)
  BY DEF Capped
<1>3. \A a, b \in all : <<a, b>> \in B <=> \/ CountOf(seq, a) > CountOf(seq, b)
                                           \/ CountOf(seq, a) = CountOf(seq, b) /\ a < b
  BY DEF CountOrder
<1>4. Orders(B, all) /\ B \in SUBSET (all \X all)
  <2>1. \A a \in all : f[a] \in Nat BY <1>1
  <2> HIDE DEF f, all
  <2> QED BY <2>1, <1>1, CountsOrder
<1> HIDE DEF all, B
<1>5. CASE Cardinality(all) <= cap BY <1>1, <1>2, <1>5 DEF all
<1>6. CASE ~(Cardinality(all) <= cap)
  <2>1. FirstOf(kept, all, B, cap) BY <1>1, <1>4, <1>6, FirstOnes
  <2>2. kept \in SUBSET all /\ Best(kept) BY <2>1, <1>3 DEF FirstOf
  <2> HIDE DEF Best, kept
  <2>3. Capped(seq, cap) \in SUBSET all /\ Best(Capped(seq, cap)) BY <2>2, <1>2, <1>6
  <2>4. IsFiniteSet(Capped(seq, cap)) BY <2>3, <1>1, FS_Subset
  <2> QED BY <2>3, <2>4 DEF Best, all
<1> QED BY <1>5, <1>6

-----------------------------------------------------------------------------
\* One event after another: what the encoder pushes for an event, and what
\* the decoder, at any of its calls, finds on top of the stack.

\* The events of the record: those of the split modes, or single tokens.
Width(p) == IF split THEN Span(lz, p) ELSE 1
Begin(e) == Start(lz, positions, e)

\* The events of lz are known.
Planned ==
  /\ lz \in Seq(0 .. MatchFlag) /\ split \in BOOLEAN
  /\ positions \in Seq(1 .. Len(lz)) /\ Begin(1) = 1
  /\ \A e \in 1 .. Len(positions) : Begin(e + 1) = positions[e] + Width(positions[e])

\* The calls for event e, whose literal, if it is one, takes the calls given.
Role(m) == IF split THEN <<Call(0, m.role)>> ELSE <<>>
Part(e, literal, m) ==
  IF Width(positions[e]) = 4 THEN MatchCalls(lz, positions[e], m) ELSE literal \o Role(m)
Parts(lits, m) == [e \in 1 .. Len(positions) |-> Part(e, lits[e], m)]

\* The decoder has the calls of `Done` events and some of the next behind it.
Done(lf) == Len(positions) - lf
\* How many calls of the event it is at the decoder has behind it.
Taken(st, more) ==
  IF st = "event" THEN 0 ELSE IF st = "hi" THEN 1 ELSE IF st = "lo" THEN 2
  ELSE IF st = "len" THEN 3 ELSE IF split THEN more + 1 ELSE more
\* How many tokens of the event it is at the decoder has delivered.
Given(st) == IF st = "hi" THEN 1 ELSE IF st = "lo" THEN 2 ELSE IF st = "len" THEN 3 ELSE 0
LiteralSteps == {"literal", "context", "order"}
FirstStep == IF split THEN "event" ELSE "literal"

\* Where the decoder is: the calls to come are on the stack, the tokens of
\* what is behind are delivered, and its step fits the event.
At(stk, st, lf, o, parts, more) ==
  /\ lf \in 0 .. Len(positions) /\ more \in Nat
  /\ Stacked(stk, parts, Done(lf), Taken(st, more))
  /\ o = SubSeq(lz, 1, (Begin(Done(lf) + 1) - 1) + Given(st))
  /\ \/ st = "event" /\ split
     \/ st \in {"hi", "lo", "len"} /\ lf > 0 /\ Width(positions[Done(lf) + 1]) = 4
     \/ /\ st \in LiteralSteps /\ (lf = 0 => ~split /\ more = 0)
        /\ lf > 0 => Width(positions[Done(lf) + 1]) = 1

\* Each literal takes at least one call.
Typed(lits) ==
  /\ \E S : lits \in [1 .. Len(positions) -> Seq(S)]
  /\ \A e \in 1 .. Len(positions) : lits[e] # <<>>

\* What the events are does not change after the counting.
LEMMA EventsFixed ==
  ASSUME UNCHANGED <<lz, split, positions>>
  PROVE  /\ \A p : Width(p)' = Width(p)
         /\ \A e : Begin(e)' = Begin(e)
         /\ \A e, l, m : Part(e, l, m)' = Part(e, l, m)
         /\ Planned' = Planned
         /\ \A lf : Done(lf)' = Done(lf)
         /\ \A stk, st, lf, o, parts, more :
              At(stk, st, lf, o, parts, more)' <=> At(stk, st, lf, o, parts, more)
<1>1. \A p : Width(p)' = Width(p) BY DEF Width, Span
<1>3. \A e : Begin(e)' = Begin(e) BY DEF Begin, Start
<1>6. \A e, l, m : Part(e, l, m)' = Part(e, l, m) BY <1>1 DEF Part, Role
<1>7. Planned' = Planned BY <1>1, <1>3 DEF Planned
<1>8. \A lf : Done(lf)' = Done(lf) BY DEF Done
<1>9. \A st, more : Taken(st, more)' = Taken(st, more) BY DEF Taken
<1>10. \A stk, st, lf, o, parts, more : At(stk, st, lf, o, parts, more)' <=> At(stk, st, lf, o, parts, more)
  BY <1>1, <1>3, <1>8, <1>9 DEF At
<1> QED BY <1>1, <1>3, <1>6, <1>7, <1>8, <1>10

\* An event lies within the list and is followed by the next.
LEMMA EventFits ==
  ASSUME Planned
  PROVE  /\ Len(lz) \in Nat /\ Len(positions) \in Nat
         /\ Begin(Len(positions) + 1) = Len(lz) + 1
         /\ \A e \in 1 .. Len(positions) :
              /\ positions[e] \in 1 .. Len(lz) /\ Begin(e) = positions[e]
              /\ Width(positions[e]) \in {1, 4}
              /\ Begin(e + 1) = positions[e] + Width(positions[e])
              /\ positions[e] + Width(positions[e]) \in 2 .. (Len(lz) + 1)
              /\ Width(positions[e]) = 4 => split /\ lz[positions[e]] = MatchFlag
              /\ split => Width(positions[e]) = Span(lz, positions[e])
<1>1. Len(lz) \in Nat /\ Len(positions) \in Nat BY DEF Planned
<1>2. ~(Len(positions) + 1 <= Len(positions)) BY <1>1
<1>3. Begin(Len(positions) + 1) = Len(lz) + 1 BY <1>2 DEF Begin, Start
<1>4. ASSUME NEW e \in 1 .. Len(positions)
      PROVE  /\ positions[e] \in 1 .. Len(lz) /\ Begin(e) = positions[e]
             /\ Width(positions[e]) \in {1, 4}
             /\ Begin(e + 1) = positions[e] + Width(positions[e])
             /\ positions[e] + Width(positions[e]) \in 2 .. (Len(lz) + 1)
             /\ Width(positions[e]) = 4 => split /\ lz[positions[e]] = MatchFlag
             /\ split => Width(positions[e]) = Span(lz, positions[e])
  <2>1. positions[e] \in 1 .. Len(lz) BY DEF Planned
  <2>2. Begin(e) = positions[e] BY <1>1 DEF Begin, Start
  <2>3. Span(lz, positions[e]) \in {1, 4} /\ positions[e] + Span(lz, positions[e]) \in 2 .. (Len(lz) + 1)
    BY <2>1, SpanFits DEF Planned
  <2>4. Width(positions[e]) \in {1, 4} /\ positions[e] + Width(positions[e]) \in 2 .. (Len(lz) + 1)
    <3>1. CASE split BY <3>1, <2>3 DEF Width
    <3>2. CASE ~split BY <3>2, <2>1, <1>1 DEF Width
    <3> QED BY <3>1, <3>2
  <2>5. Width(positions[e]) = 4 => split /\ lz[positions[e]] = MatchFlag
    BY DEF Width, Span
  <2> QED BY <2>1, <2>2, <2>4, <2>5 DEF Planned, Width
<1> QED BY <1>1, <1>3, <1>4

\* The calls of an event, one by one.
LEMMA PartCalls ==
  ASSUME Planned, NEW lits, Typed(lits), NEW m, NEW e \in 1 .. Len(positions), NEW p, p = positions[e]
  PROVE  /\ Parts(lits, m)[e] = Part(e, lits[e], m)
         /\ Width(p) = 4 =>
              /\ Len(Part(e, lits[e], m)) = 4 /\ Part(e, lits[e], m)[1] = Call(lz[p + 3], m.len)
              /\ Part(e, lits[e], m)[2] = Call(lz[p + 2], m.lo)
              /\ Part(e, lits[e], m)[3] = Call(lz[p + 1], m.hi)
              /\ Part(e, lits[e], m)[4] = Call(1, m.role)
         /\ Width(p) # 4 =>
              /\ Len(lits[e]) \in Nat \ {0}
              /\ \A j \in 1 .. Len(lits[e]) : Part(e, lits[e], m)[j] = lits[e][j]
              /\ split => /\ Len(Part(e, lits[e], m)) = Len(lits[e]) + 1
                          /\ Part(e, lits[e], m)[Len(lits[e]) + 1] = Call(0, m.role)
              /\ ~split => Len(Part(e, lits[e], m)) = Len(lits[e])
<1>1. Parts(lits, m)[e] = Part(e, lits[e], m) BY DEF Parts
<1>2. ASSUME Width(p) = 4
      PROVE  /\ Len(Part(e, lits[e], m)) = 4 /\ Part(e, lits[e], m)[1] = Call(lz[p + 3], m.len)
             /\ Part(e, lits[e], m)[2] = Call(lz[p + 2], m.lo)
             /\ Part(e, lits[e], m)[3] = Call(lz[p + 1], m.hi)
             /\ Part(e, lits[e], m)[4] = Call(1, m.role)
  <2>1. Part(e, lits[e], m) = <<Call(lz[p + 3], m.len), Call(lz[p + 2], m.lo),
                                Call(lz[p + 1], m.hi), Call(1, m.role)>>
    BY <1>2 DEF Part, MatchCalls
  <2> QED BY <2>1
<1>3. ASSUME Width(p) # 4
      PROVE  /\ Len(lits[e]) \in Nat \ {0}
             /\ \A j \in 1 .. Len(lits[e]) : Part(e, lits[e], m)[j] = lits[e][j]
             /\ split => /\ Len(Part(e, lits[e], m)) = Len(lits[e]) + 1
                         /\ Part(e, lits[e], m)[Len(lits[e]) + 1] = Call(0, m.role)
             /\ ~split => Len(Part(e, lits[e], m)) = Len(lits[e])
  <2>1. PICK S : lits \in [1 .. Len(positions) -> Seq(S)] BY DEF Typed
  <2> DEFINE s == lits[e]
             c == Call(0, m.role)
  <2>2. s \in Seq(S) /\ s # <<>> BY <2>1 DEF Typed
  <2>3. Part(e, lits[e], m) = s \o (IF split THEN <<c>> ELSE <<>>) BY <1>3 DEF Part, Role
  <2> HIDE DEF s, c
  <2>4. s \in Seq(S \cup {c}) /\ Len(s) \in Nat \ {0} BY <2>2
  <2>5. <<c>> \in Seq(S \cup {c}) /\ <<>> \in Seq(S \cup {c}) OBVIOUS
  <2>6. CASE split
    <3>1. Part(e, lits[e], m) = s \o <<c>> BY <2>3, <2>6
    <3>2. /\ Len(s \o <<c>>) = Len(s) + 1 /\ (s \o <<c>>)[Len(s) + 1] = c
          /\ \A j \in 1 .. Len(s) : (s \o <<c>>)[j] = s[j]
      BY <2>4, <2>5
    <3> QED BY <2>4, <2>6, <3>1, <3>2 DEF s, c
  <2>7. CASE ~split
    <3>1. Part(e, lits[e], m) = s \o <<>> BY <2>3, <2>7
    <3>2. s \o <<>> = s BY <2>4
    <3> QED BY <2>4, <2>7, <3>1, <3>2 DEF s
  <2> QED BY <2>6, <2>7
<1> QED BY <1>1, <1>2, <1>3

\* There are calls for each event.
LEMMA PartsTyped ==
  ASSUME Planned, NEW lits, Typed(lits), NEW m
  PROVE  (\E S : Parts(lits, m) \in Seq(Seq(S))) /\ Len(Parts(lits, m)) = Len(positions)
<1>1. PICK S : lits \in [1 .. Len(positions) -> Seq(S)] BY DEF Typed
<1> DEFINE T == S \cup {Call(0, m.role), Call(1, m.role)}
                \cup {Call(lz[p], m.len) : p \in Int} \cup {Call(lz[p], m.lo) : p \in Int}
                \cup {Call(lz[p], m.hi) : p \in Int}
<1>2. ASSUME NEW e \in 1 .. Len(positions) PROVE Part(e, lits[e], m) \in Seq(T)
  <2> DEFINE p == positions[e]
  <2>1. p \in 1 .. Len(lz) /\ Len(lz) \in Nat BY EventFits
  <2>2. /\ Call(0, m.role) \in T /\ Call(1, m.role) \in T /\ S \in SUBSET T
        /\ Call(lz[p + 3], m.len) \in T /\ Call(lz[p + 2], m.lo) \in T /\ Call(lz[p + 1], m.hi) \in T
    BY <2>1
  <2> HIDE DEF T
  <2>3. CASE Width(p) = 4
    <3>1. Part(e, lits[e], m) = <<Call(lz[p + 3], m.len), Call(lz[p + 2], m.lo),
                                  Call(lz[p + 1], m.hi), Call(1, m.role)>>
      BY <2>3 DEF Part, MatchCalls
    <3> QED BY <3>1, <2>2
  <2>4. CASE Width(p) # 4
    <3>1. Part(e, lits[e], m) = lits[e] \o Role(m) BY <2>4 DEF Part
    <3>2. lits[e] \in Seq(S) BY <1>1
    <3>3. lits[e] \in Seq(T) BY <3>2, <2>2
    <3>4. Role(m) \in Seq(T) BY <2>2 DEF Role
    <3> QED BY <3>1, <3>3, <3>4
  <2> QED BY <2>3, <2>4
<1> HIDE DEF T
<1>3. Parts(lits, m) \in [1 .. Len(positions) -> Seq(T)] BY <1>2 DEF Parts
<1> QED BY <1>3, EventFits, FunctionIsSequence

\* Of event e + 1, of which the decoder has g tokens, the next one.
LEMMA OutGrows ==
  ASSUME Planned, NEW e \in Nat, e + 1 \in 1 .. Len(positions), NEW g \in Nat,
         g < Width(positions[e + 1])
  PROVE  /\ Append(SubSeq(lz, 1, (Begin(e + 1) - 1) + g), lz[positions[e + 1] + g])
              = SubSeq(lz, 1, (Begin(e + 1) - 1) + (g + 1))
         /\ lz[positions[e + 1] + g] \in 0 .. MatchFlag
         /\ g + 1 = Width(positions[e + 1]) =>
              (Begin(e + 1) - 1) + (g + 1) = (Begin((e + 1) + 1) - 1) + 0
<1> DEFINE p == positions[e + 1]
           w == Width(p)
           b == (p - 1) + g
<1>1. /\ p \in 1 .. Len(lz) /\ Begin(e + 1) = p /\ w \in {1, 4} /\ Begin((e + 1) + 1) = p + w
      /\ p + w \in 2 .. (Len(lz) + 1) /\ Len(lz) \in Nat
  BY EventFits
<1> HIDE DEF w
<1>2. b \in 0 .. (Len(lz) - 1) /\ b + 1 = p + g /\ b + 1 = (p - 1) + (g + 1) BY <1>1 DEF w
<1>3. Append(SubSeq(lz, 1, b), lz[b + 1]) = SubSeq(lz, 1, b + 1) /\ lz[b + 1] \in 0 .. MatchFlag
  BY <1>2, GrowPrefix DEF Planned
<1>4. g + 1 = w => (p - 1) + (g + 1) = (Begin((e + 1) + 1) - 1) + 0 BY <1>1
<1> QED BY <1>1, <1>2, <1>3, <1>4 DEF w

\* Under the table of the topmost entry only its symbol comes out.
LEMMA OnlyPopped ==
  ASSUME NEW stk, stk # <<>>, NEW s, NEW t, stk[Len(stk)] = Call(s, t)
  PROVE  Top(stk).table = t /\ Popped(stk, t) = {s}
BY DEF Top, Popped, Call

\* The event the decoder is at.
LEMMA AtEvent ==
  ASSUME Planned, NEW stk, NEW st, NEW lf, NEW o, NEW parts, NEW more,
         At(stk, st, lf, o, parts, more), lf > 0
  PROVE  /\ Done(lf) \in Nat /\ Done(lf) < Len(positions) /\ Done(lf) + 1 \in 1 .. Len(positions)
         /\ lf - 1 \in 0 .. Len(positions) /\ Done(lf - 1) = Done(lf) + 1 /\ lf \in 0 .. Len(positions)
         /\ lf = 1 <=> Done(lf) + 1 = Len(positions)
BY EventFits DEF At, Done

\* The decoder at the role of an event.
LEMMA ReadsRole ==
  ASSUME Planned, NEW lits, Typed(lits), NEW m, NEW stk, NEW lf, NEW o,
         At(stk, "event", lf, o, Parts(lits, m), 0), lf > 0
  PROVE  /\ stk # <<>> /\ Top(stk).table = m.role
         /\ \A r \in Popped(stk, m.role) :
              /\ r \in {0, 1}
              /\ r = 1 => At(Below(stk), "hi", lf, Append(o, MatchFlag), Parts(lits, m), 0)
              /\ r = 0 => At(Below(stk), "literal", lf, o, Parts(lits, m), 0)
<1> DEFINE e == Done(lf)
           p == positions[e + 1]
           parts == Parts(lits, m)
           part == Part(e + 1, lits[e + 1], m)
<1>1. /\ e \in Nat /\ e < Len(positions) /\ e + 1 \in 1 .. Len(positions)
      /\ lf \in 0 .. Len(positions)
  BY AtEvent
<1> HIDE DEF e
<1>2. /\ split /\ Stacked(stk, parts, e, 0)
      /\ o = SubSeq(lz, 1, (Begin(e + 1) - 1) + 0)
  BY DEF At, e, Taken, Given, LiteralSteps
<1>3. Width(p) \in {1, 4} /\ (Width(p) = 4 => lz[p] = MatchFlag) /\ p \in Int BY <1>1, EventFits
<1>4. /\ parts[e + 1] = part
      /\ Width(p) = 4 => Len(part) = 4 /\ part[4] = Call(1, m.role)
      /\ Width(p) = 1 => /\ Len(lits[e + 1]) \in Nat \ {0} /\ Len(part) = Len(lits[e + 1]) + 1
                         /\ part[Len(lits[e + 1]) + 1] = Call(0, m.role)
  BY <1>1, <1>2, <1>3, PartCalls
<1>5. Len(parts) = Len(positions) BY PartsTyped
<1> HIDE DEF parts, part, p
<1>6. Len(part) \in Nat /\ 0 + 1 < Len(part) /\ part[Len(part)] = Call(IF Width(p) = 4 THEN 1 ELSE 0, m.role)
  BY <1>3, <1>4
<1>7. /\ stk # <<>> /\ stk[Len(stk)] = part[Len(part) - 0]
      /\ Stacked(Below(stk), parts, e, 0 + 1)
  BY <1>1, <1>2, <1>4, <1>5, <1>6, 0 \in Nat, PopEntry DEF Below
<1>8. stk[Len(stk)] = Call(IF Width(p) = 4 THEN 1 ELSE 0, m.role) BY <1>6, <1>7
<1>9. Top(stk).table = m.role /\ Popped(stk, m.role) = {IF Width(p) = 4 THEN 1 ELSE 0}
  BY <1>7, <1>8, OnlyPopped
<1>10. ASSUME Width(p) = 4 PROVE At(Below(stk), "hi", lf, Append(o, MatchFlag), parts, 0)
  <2>1. Append(o, MatchFlag) = SubSeq(lz, 1, (Begin(e + 1) - 1) + 1)
    <3>1. 0 \in Nat /\ 0 < Width(positions[e + 1]) BY <1>10 DEF p
    <3>2. Append(SubSeq(lz, 1, (Begin(e + 1) - 1) + 0), lz[p + 0]) = SubSeq(lz, 1, (Begin(e + 1) - 1) + (0 + 1))
      BY <3>1, <1>1, OutGrows DEF p
    <3>3. p + 0 = p /\ 0 + 1 = 1 BY <1>3
    <3>4. lz[p + 0] = MatchFlag BY <3>3, <1>3, <1>10
    <3> QED BY <3>2, <3>3, <3>4, <1>2
  <2>2. Taken("hi", 0) = 0 + 1 /\ Given("hi") = 1 BY DEF Taken, Given
  <2> QED BY <2>1, <2>2, <1>1, <1>7, <1>10 DEF At, e, p
<1>11. ASSUME Width(p) = 1 PROVE At(Below(stk), "literal", lf, o, parts, 0)
  <2>1. Taken("literal", 0) = 0 + 1 /\ Given("literal") = 0 BY <1>2 DEF Taken, Given
  <2>2. "literal" \in LiteralSteps /\ ~(lf = 0) /\ 0 \in Nat BY DEF LiteralSteps
  <2>3. Stacked(Below(stk), parts, Done(lf), Taken("literal", 0)) BY <2>1, <1>7 DEF e
  <2>4. o = SubSeq(lz, 1, (Begin(Done(lf) + 1) - 1) + Given("literal")) BY <2>1, <1>2 DEF e
  <2>5. Width(positions[Done(lf) + 1]) = 1 BY <1>11 DEF p, e
  <2> QED BY <2>2, <2>3, <2>4, <2>5, <1>1 DEF At
<1> QED BY <1>3, <1>7, <1>9, <1>10, <1>11 DEF parts

\* The steps of a match after its role.
Meta(m, st) == IF st = "hi" THEN m.hi ELSE IF st = "lo" THEN m.lo ELSE m.len
NextStep(st) == IF st = "hi" THEN "lo" ELSE IF st = "lo" THEN "len" ELSE "event"

\* The decoder at a field of a match.
LEMMA ReadsMeta ==
  ASSUME Planned, NEW lits, Typed(lits), NEW m, NEW stk, NEW st \in {"hi", "lo", "len"}, NEW lf, NEW o,
         At(stk, st, lf, o, Parts(lits, m), 0)
  PROVE  /\ stk # <<>> /\ Top(stk).table = Meta(m, st)
         /\ \A v \in Popped(stk, Meta(m, st)) :
              At(Below(stk), NextStep(st), IF st = "len" THEN lf - 1 ELSE lf, Append(o, v), Parts(lits, m), 0)
<1> DEFINE e == Done(lf)
           p == positions[e + 1]
           parts == Parts(lits, m)
           part == Part(e + 1, lits[e + 1], m)
           g == Given(st)
<1>0. lf > 0 BY DEF At, LiteralSteps
<1>1. /\ e \in Nat /\ e < Len(positions) /\ e + 1 \in 1 .. Len(positions)
      /\ lf \in 0 .. Len(positions) /\ lf - 1 \in 0 .. Len(positions) /\ Done(lf - 1) = e + 1
  BY <1>0, AtEvent
<1> HIDE DEF e
<1>2. /\ Stacked(stk, parts, e, Taken(st, 0)) /\ Width(p) = 4
      /\ o = SubSeq(lz, 1, (Begin(e + 1) - 1) + g)
  BY DEF At, e, LiteralSteps
<1>3. split BY <1>1, <1>2, EventFits
<1>4. /\ parts[e + 1] = part /\ Len(part) = 4 /\ part[1] = Call(lz[p + 3], m.len)
      /\ part[2] = Call(lz[p + 2], m.lo) /\ part[3] = Call(lz[p + 1], m.hi)
  BY <1>1, <1>2, PartCalls
<1>5. Len(parts) = Len(positions) BY PartsTyped
<1> HIDE DEF parts, part, p
<1>6. /\ g \in {1, 2, 3} /\ Taken(st, 0) = g
      /\ NextStep(st) # "event" => Taken(NextStep(st), 0) = g + 1 /\ Given(NextStep(st)) = g + 1
      /\ NextStep(st) = "event" => g = 3 /\ Taken(NextStep(st), 0) = 0 /\ Given(NextStep(st)) = 0
      /\ NextStep(st) # "event" => st # "len" /\ NextStep(st) \in {"lo", "len"} /\ g < 3
      /\ NextStep(st) = "event" => st = "len"
      /\ part[Len(part) - g] = Call(lz[p + g], Meta(m, st))
  <2>1. CASE st = "hi" BY <2>1, <1>4 DEF Given, Taken, NextStep, Meta
  <2>2. CASE st = "lo" BY <2>2, <1>4 DEF Given, Taken, NextStep, Meta
  <2>3. CASE st = "len" BY <2>3, <1>4 DEF Given, Taken, NextStep, Meta
  <2> QED BY <2>1, <2>2, <2>3
<1> HIDE DEF g
<1>7. /\ stk # <<>> /\ stk[Len(stk)] = Call(lz[p + g], Meta(m, st))
      /\ g + 1 < 4 => Stacked(Below(stk), parts, e, g + 1)
      /\ g + 1 = 4 => Stacked(Below(stk), parts, e + 1, 0)
  <2>1. g \in Nat /\ g < Len(parts[e + 1]) /\ Stacked(stk, parts, e, g) BY <1>2, <1>4, <1>6
  <2>2. /\ stk # <<>> /\ stk[Len(stk)] = parts[e + 1][Len(parts[e + 1]) - g]
        /\ g + 1 < Len(parts[e + 1]) => Stacked(SubSeq(stk, 1, Len(stk) - 1), parts, e, g + 1)
        /\ g + 1 = Len(parts[e + 1]) => Stacked(SubSeq(stk, 1, Len(stk) - 1), parts, e + 1, 0)
    BY <2>1, <1>1, <1>5, PopEntry
  <2> QED BY <2>2, <1>4, <1>6 DEF Below
<1>8. Top(stk).table = Meta(m, st) /\ Popped(stk, Meta(m, st)) = {lz[p + g]}
  BY <1>7, OnlyPopped
<1>9. /\ Append(o, lz[p + g]) = SubSeq(lz, 1, (Begin(e + 1) - 1) + (g + 1))
      /\ g + 1 = 4 => (Begin(e + 1) - 1) + (g + 1) = (Begin((e + 1) + 1) - 1) + 0
  <2>1. g \in Nat /\ g < Width(positions[e + 1]) BY <1>2, <1>6 DEF p
  <2> QED BY <2>1, <1>1, <1>2, OutGrows DEF p
<1>10. CASE NextStep(st) # "event"
  <2>1. At(Below(stk), NextStep(st), lf, Append(o, lz[p + g]), parts, 0)
    <3>1. g + 1 < 4 /\ 0 \in Nat BY <1>6, <1>10
    <3>2. Stacked(Below(stk), parts, Done(lf), Taken(NextStep(st), 0)) BY <3>1, <1>6, <1>7, <1>10 DEF e
    <3>3. Append(o, lz[p + g]) = SubSeq(lz, 1, (Begin(Done(lf) + 1) - 1) + Given(NextStep(st)))
      BY <1>6, <1>9, <1>10 DEF e
    <3>4. NextStep(st) \in {"hi", "lo", "len"} /\ Width(positions[Done(lf) + 1]) = 4
      BY <1>2, <1>6, <1>10 DEF p, e
    <3> QED BY <3>1, <3>2, <3>3, <3>4, <1>0, <1>1 DEF At
  <2> QED BY <2>1, <1>6, <1>7, <1>8, <1>10 DEF parts
<1>11. CASE NextStep(st) = "event"
  <2>1. At(Below(stk), "event", lf - 1, Append(o, lz[p + g]), parts, 0)
    <3>1. g + 1 = 4 /\ 0 \in Nat BY <1>6, <1>11
    <3>2. Stacked(Below(stk), parts, Done(lf - 1), Taken("event", 0)) BY <3>1, <1>1, <1>6, <1>7, <1>11
    <3>3. Append(o, lz[p + g]) = SubSeq(lz, 1, (Begin(Done(lf - 1) + 1) - 1) + Given("event"))
      BY <3>1, <1>1, <1>6, <1>9, <1>11
    <3> QED BY <3>1, <3>2, <3>3, <1>1, <1>3 DEF At
  <2> QED BY <2>1, <1>6, <1>7, <1>8, <1>11 DEF parts
<1> QED BY <1>10, <1>11

\* After a call of a literal: there are others, or it was the last of them.
GoesOn(stk, lf, o, parts, more, lit) ==
  more + 1 < Len(lit) => At(Below(stk), "order", lf, o, parts, more + 1)
Ends(stk, lf, o, parts, more, lit) ==
  more + 1 = Len(lit) =>
    At(Below(stk), FirstStep, lf - 1, Append(o, lz[positions[Done(lf) + 1]]), parts, 0)

\* The decoder at a call of a literal, of which `more` are behind it.
LEMMA ReadsLiteral ==
  ASSUME Planned, NEW lits, Typed(lits), NEW m, NEW stk, NEW st \in LiteralSteps, NEW lf, NEW o,
         NEW more, At(stk, st, lf, o, Parts(lits, m), more), lf > 0,
         NEW lit, lit = lits[Done(lf) + 1], more < Len(lit)
  PROVE  /\ stk # <<>> /\ Len(lit) - more \in 1 .. Len(lit) /\ more \in Nat /\ Len(lit) \in Nat
         /\ stk[Len(stk)] = lit[Len(lit) - more]
         /\ GoesOn(stk, lf, o, Parts(lits, m), more, lit) /\ Ends(stk, lf, o, Parts(lits, m), more, lit)
<1> DEFINE e == Done(lf)
           p == positions[e + 1]
           parts == Parts(lits, m)
           part == Part(e + 1, lit, m)
           n == Taken(st, more)
<1>1. /\ e \in Nat /\ e < Len(positions) /\ e + 1 \in 1 .. Len(positions)
      /\ lf \in 0 .. Len(positions) /\ lf - 1 \in 0 .. Len(positions) /\ Done(lf - 1) = e + 1
      /\ lf = 1 <=> e + 1 = Len(positions)
  BY AtEvent
<1> HIDE DEF e
<1>2. /\ Stacked(stk, parts, e, n) /\ Width(p) = 1 /\ more \in Nat
      /\ o = SubSeq(lz, 1, (Begin(e + 1) - 1) + 0)
  BY DEF At, e, LiteralSteps, Given
<1>4. /\ parts[e + 1] = part /\ Len(lit) \in Nat \ {0}
      /\ \A j \in 1 .. Len(lit) : part[j] = lit[j]
      /\ Len(part) = IF split THEN Len(lit) + 1 ELSE Len(lit)
  BY <1>1, <1>2, PartCalls DEF e
<1>5. Len(parts) = Len(positions) BY PartsTyped
<1> HIDE DEF parts, part, p
<1>6. /\ n \in Nat /\ n < Len(part) /\ Len(part) - n = Len(lit) - more
      /\ n + 1 = Len(part) <=> more + 1 = Len(lit)
      /\ n + 1 < Len(part) <=> more + 1 < Len(lit)
      /\ Len(lit) - more \in 1 .. Len(lit)
      /\ Taken("order", more + 1) = n + 1 /\ Given("order") = 0
  <2>0. Given("order") = 0 BY DEF Given
  <2> DEFINE l == Len(lit)
             r == IF split THEN 1 ELSE 0
  <2>1. n = more + r /\ Taken("order", more + 1) = (more + 1) + r /\ Len(part) = l + r
    <3>1. CASE split BY <3>1, <1>2, <1>4 DEF Taken, LiteralSteps
    <3>2. CASE ~split BY <3>2, <1>2, <1>4 DEF Taken, LiteralSteps
    <3> QED BY <3>1, <3>2
  <2>2. l \in Nat /\ more \in Nat /\ more < l /\ r \in Nat BY <1>2, <1>4
  <2> HIDE DEF n, l, r
  <2> QED BY <2>0, <2>1, <2>2 DEF l
<1> HIDE DEF n
<1>7. /\ stk # <<>> /\ stk[Len(stk)] = part[Len(part) - n]
      /\ n + 1 < Len(part) => Stacked(Below(stk), parts, e, n + 1)
      /\ n + 1 = Len(part) => Stacked(Below(stk), parts, e + 1, 0)
  <2> HIDE DEF parts, part, p
  <2>0. e < Len(parts) /\ Stacked(stk, parts, e, n) BY <1>1, <1>2, <1>5
  <2>1. n \in Nat /\ n < Len(parts[e + 1]) BY <1>4, <1>6
  <2>2. /\ stk # <<>> /\ stk[Len(stk)] = parts[e + 1][Len(parts[e + 1]) - n]
        /\ n + 1 < Len(parts[e + 1]) => Stacked(SubSeq(stk, 1, Len(stk) - 1), parts, e, n + 1)
        /\ n + 1 = Len(parts[e + 1]) => Stacked(SubSeq(stk, 1, Len(stk) - 1), parts, e + 1, 0)
    BY <2>0, <2>1, <1>1, PopEntry
  <2> QED BY <2>2, <1>4 DEF Below
<1>8. stk[Len(stk)] = lit[Len(lit) - more] BY <1>4, <1>6, <1>7
<1>9. ASSUME more + 1 < Len(lit) PROVE At(Below(stk), "order", lf, o, parts, more + 1)
  <2>1. more + 1 \in Nat /\ n + 1 < Len(part) BY <1>2, <1>6, <1>9
  <2>2. Stacked(Below(stk), parts, Done(lf), Taken("order", more + 1)) BY <2>1, <1>6, <1>7 DEF e
  <2>3. o = SubSeq(lz, 1, (Begin(Done(lf) + 1) - 1) + Given("order")) BY <1>2, <1>6 DEF e
  <2>4. "order" \in LiteralSteps /\ ~(lf = 0) /\ Width(positions[Done(lf) + 1]) = 1
    BY <1>2 DEF LiteralSteps, p, e
  <2> QED BY <2>1, <2>2, <2>3, <2>4, <1>1 DEF At
<1>10. ASSUME more + 1 = Len(lit)
       PROVE  At(Below(stk), FirstStep, lf - 1, Append(o, lz[p]), parts, 0)
  <2>1. n + 1 = Len(part) BY <1>6, <1>10
  <2>2. Append(o, lz[p]) = SubSeq(lz, 1, (Begin((e + 1) + 1) - 1) + 0)
    <3>0. p \in Int BY <1>1, EventFits DEF p
    <3>1. /\ Append(SubSeq(lz, 1, (Begin(e + 1) - 1) + 0), lz[p + 0]) = SubSeq(lz, 1, (Begin(e + 1) - 1) + (0 + 1))
          /\ (Begin(e + 1) - 1) + (0 + 1) = (Begin((e + 1) + 1) - 1) + 0
      <4>1. 0 \in Nat /\ 0 < Width(positions[e + 1]) /\ 0 + 1 = Width(positions[e + 1]) BY <1>2 DEF p
      <4> QED BY <4>1, <1>1, OutGrows DEF p
    <3>2. p + 0 = p BY <3>0
    <3> QED BY <3>1, <3>2, <1>2
  <2>3. Taken(FirstStep, 0) = 0 /\ Given(FirstStep) = 0 BY DEF Taken, Given, FirstStep
  <2>4. (FirstStep = "event" /\ split) \/ (FirstStep = "literal" /\ ~split)
    <3>1. CASE split BY <3>1 DEF FirstStep
    <3>2. CASE ~split BY <3>2 DEF FirstStep
    <3> QED BY <3>1, <3>2
  <2>5. ~split => \A d \in 1 .. Len(positions) : Width(positions[d]) = 1 BY DEF Width
  <2>6. lf - 1 > 0 => Done(lf - 1) + 1 \in 1 .. Len(positions)
    <3>1. Len(positions) \in Nat BY EventFits
    <3> QED BY <3>1, <1>1 DEF Done
  <2> QED BY <2>1, <2>2, <2>3, <2>4, <2>5, <2>6, <1>1, <1>7 DEF At, LiteralSteps
<1>11. GoesOn(stk, lf, o, parts, more, lit) BY <1>9 DEF GoesOn
<1>12. Ends(stk, lf, o, parts, more, lit) BY <1>10 DEF Ends, p, e
<1> QED BY <1>2, <1>4, <1>6, <1>7, <1>8, <1>11, <1>12 DEF parts

\* At the end the decoder has everything.
LEMMA ReadsAll ==
  ASSUME Planned, NEW lits, Typed(lits), NEW m, NEW stk, NEW st, NEW o, NEW more,
         At(stk, st, 0, o, Parts(lits, m), more)
  PROVE  stk = <<>> /\ o = lz
<1>1. Len(lz) \in Nat /\ Len(positions) \in Nat /\ Begin(Len(positions) + 1) = Len(lz) + 1
  BY EventFits
<1>2. Done(0) = Len(positions) /\ ~(0 > 0) BY <1>1 DEF Done
<1>3. /\ Stacked(stk, Parts(lits, m), Len(positions), Taken(st, more)) /\ Taken(st, more) = 0
      /\ Given(st) = 0 /\ o = SubSeq(lz, 1, (Begin(Len(positions) + 1) - 1) + Given(st))
  BY <1>2 DEF At, LiteralSteps, Taken, Given
<1>4. Len(Parts(lits, m)) = Len(positions) BY PartsTyped
<1>5. stk = <<>> BY <1>3, <1>4, AllPopped
<1>6. o = SubSeq(lz, 1, Len(lz))
  <2>1. (Begin(Len(positions) + 1) - 1) + 0 = Len(lz) BY <1>1
  <2> QED BY <2>1, <1>3
<1> QED BY <1>5, <1>6, SubSeqFull DEF Planned

\* The encoder's pushes, from the last event to the first.
LEMMA Starts ==
  ASSUME Planned, NEW lits, Typed(lits), NEW m, NEW stk, Stacked(stk, Parts(lits, m), 0, 0)
  PROVE  At(stk, FirstStep, Len(positions), <<>>, Parts(lits, m), 0)
<1>1. Len(positions) \in Nat /\ Done(Len(positions)) = 0 /\ Begin(0 + 1) = 1 BY EventFits DEF Done, Planned
<1>2. SubSeq(lz, 1, (Begin(0 + 1) - 1) + 0) = <<>> BY <1>1 DEF Planned
<1>3. Taken(FirstStep, 0) = 0 /\ Given(FirstStep) = 0 BY DEF Taken, Given, FirstStep
<1>4. (FirstStep = "event" /\ split) \/ (FirstStep = "literal" /\ ~split)
  <2>1. CASE split BY <2>1 DEF FirstStep
  <2>2. CASE ~split BY <2>2 DEF FirstStep
  <2> QED BY <2>1, <2>2
<1>5. ~split => \A d \in 1 .. Len(positions) : Width(positions[d]) = 1 BY DEF Width
<1>6. Len(positions) > 0 => 0 + 1 \in 1 .. Len(positions) BY <1>1
<1> QED BY <1>1, <1>2, <1>3, <1>4, <1>5, <1>6 DEF At, LiteralSteps

-----------------------------------------------------------------------------
\* The tables, given what Normalize promises of them.

\* What Normalize promises, for any alphabet and counts.
NormalizeKeeps ==
  \A n \in Nat : \A raw \in [0 .. n -> Nat] : \A total \in Nat : Normalizes(raw, total)

\* A frequency minus one fits RANS_M_BITS bits and comes back.
LEMMA FromOne ==
  ASSUME NEW m \in Nat \ {0}, NEW x \in 1 .. m
  PROVE  ((x - 1) % m) + 1 = x
<1>1. x - 1 \in 0 .. (m - 1) BY SMT
<1> DEFINE y == x - 1
<1> HIDE DEF y
<1>2. y \in 0 .. (m - 1) => y % m = y BY SMT
<1>3. y % m = y BY <1>1, <1>2 DEF y
<1> QED BY <1>3 DEF y

\* A table survives its trip through the stream.
LEMMA ReceivedIsSent ==
  ASSUME NEW S, NEW t \in [S -> 0 .. RANS_M]
  PROVE  Received(t) = t
<1>0. RANS_M \in Nat \ {0} BY CoderAssumption
<1>1. ASSUME NEW s \in S PROVE (IF t[s] > 0 THEN ((t[s] - 1) % RANS_M) + 1 ELSE 0) = t[s]
  <2>1. t[s] \in 0 .. RANS_M OBVIOUS
  <2>2. CASE t[s] > 0
    <3>1. t[s] \in 1 .. RANS_M BY <2>1, <2>2, <1>0
    <3>2. ((t[s] - 1) % RANS_M) + 1 = t[s] BY <3>1, <1>0, FromOne
    <3> QED BY <2>2, <3>2
  <2>3. CASE ~(t[s] > 0)
    <3>1. t[s] = 0 BY <2>1, <2>3, <1>0
    <3> QED BY <2>3, <3>1
  <2> QED BY <2>2, <2>3
<1>2. Received(t) = [s \in S |-> IF t[s] > 0 THEN ((t[s] - 1) % RANS_M) + 1 ELSE 0]
  BY DEF Received
<1>3. Received(t) = [s \in S |-> t[s]] BY <1>1, <1>2
<1> QED BY <1>3

\* The table of a list that has at most RANS_M symbols.
LEMMA TableFits ==
  ASSUME NormalizeKeeps, NEW n \in Nat, NEW seq \in Seq(0 .. n), Cardinality(ValuesOf(seq)) <= RANS_M
  PROVE  /\ Table(seq, 0 .. n) \in [0 .. n -> 0 .. RANS_M]
         /\ Active(Table(seq, 0 .. n)) = ValuesOf(seq)
         /\ Received(Table(seq, 0 .. n)) = Table(seq, 0 .. n)
<1> DEFINE raw == Tally(seq, 0 .. n)
           total == Len(seq)
<1>0. seq \in Seq(Nat) /\ DOMAIN seq = 1 .. Len(seq) /\ total \in Nat
      /\ \A i \in 1 .. Len(seq) : seq[i] \in 0 .. n
  OBVIOUS
<1>1. \A s : CountOf(seq, s) \in Nat BY <1>0, ValuesFinite
<1>2. raw \in [0 .. n -> Nat] /\ \A s \in 0 .. n : raw[s] = CountOf(seq, s)
  BY <1>1 DEF Tally
<1>3. \A s : CountOf(seq, s) > 0 <=> s \in ValuesOf(seq)
  <2> TAKE s
  <2> DEFINE I == {i \in DOMAIN seq : seq[i] = s}
  <2>1. IsFiniteSet(I)
    <3>1. IsFiniteSet(1 .. Len(seq)) BY <1>0, RangeFinite
    <3>2. I \in SUBSET (1 .. Len(seq)) BY <1>0
    <3> QED BY <3>1, <3>2, FS_Subset
  <2>2. Cardinality(I) \in Nat /\ (Cardinality(I) = 0 <=> I = {})
    <3> HIDE DEF I
    <3> QED BY <2>1, FS_CardinalityType, FS_EmptySet
  <2>3. CountOf(seq, s) = Cardinality(I) BY DEF CountOf
  <2>4. I # {} <=> s \in ValuesOf(seq) BY DEF ValuesOf
  <2> HIDE DEF I
  <2> QED BY <2>2, <2>3, <2>4
<1>4. Active(raw) = ValuesOf(seq)
  <2>1. ValuesOf(seq) \in SUBSET (0 .. n) BY <1>0 DEF ValuesOf
  <2>2. \A s : s \in Active(raw) <=> s \in 0 .. n /\ CountOf(seq, s) > 0
    <3> HIDE DEF raw
    <3> QED BY <1>2 DEF Active
  <2> QED BY <2>1, <2>2, <1>3
<1>5. total = 0 <=> ValuesOf(seq) = {}
  <2>1. total = 0 => ValuesOf(seq) = {}
    <3> SUFFICES ASSUME total = 0 PROVE ValuesOf(seq) = {} OBVIOUS
    <3>1. DOMAIN seq = {} BY <1>0
    <3> QED BY <3>1 DEF ValuesOf
  <2>2. total # 0 => seq[1] \in ValuesOf(seq)
    <3> SUFFICES ASSUME total # 0 PROVE seq[1] \in ValuesOf(seq) OBVIOUS
    <3>1. 1 \in DOMAIN seq BY <1>0
    <3> QED BY <3>1 DEF ValuesOf
  <2> QED BY <2>1, <2>2
<1> HIDE DEF raw, total
<1>6. Normalizes(raw, total) BY <1>0, <1>2 DEF NormalizeKeeps
<1>7. Freq(raw, total) \in [0 .. n -> 0 .. RANS_M] /\ Active(Freq(raw, total)) = ValuesOf(seq)
  BY <1>2, <1>4, <1>5, <1>6 DEF Normalizes
<1>8. Table(seq, 0 .. n) = Freq(raw, total) BY DEF Table, raw, total
<1> QED BY <1>7, <1>8, ReceivedIsSent

\* A list of few values.
LEMMA FewValues ==
  ASSUME NEW n \in Nat, NEW seq \in Seq(0 .. n), n + 1 <= RANS_M
  PROVE  Cardinality(ValuesOf(seq)) <= RANS_M
<1>0. seq \in Seq(Nat) /\ \A i \in DOMAIN seq : seq[i] \in 0 .. n OBVIOUS
<1>1. ValuesOf(seq) \in SUBSET (0 .. n) BY <1>0 DEF ValuesOf
<1>2. IsFiniteSet(0 .. n) /\ Cardinality(0 .. n) = n + 1 BY RangeFinite
<1>3. Cardinality(ValuesOf(seq)) <= n + 1 BY <1>1, <1>2, FS_Subset
<1>4. Cardinality(ValuesOf(seq)) \in Nat BY <1>0, ValuesFinite
<1> QED BY <1>3, <1>4, CoderAssumption

\* A selection has the type of what is selected.
LEMMA SelectedTyped ==
  ASSUME NEW seq, NEW I \in SUBSET Nat, IsFiniteSet(I), NEW T, \A i \in I : seq[i] \in T
  PROVE  Selected(seq, I) \in Seq(T) /\ Len(Selected(seq, I)) = Cardinality(I)
         /\ \A i \in I : Rank(I, i) + 1 \in 1 .. Cardinality(I) /\ Selected(seq, I)[Rank(I, i) + 1] = seq[i]
<1>1. /\ Ascending(I) \in [1 .. Cardinality(I) -> I]
      /\ \A i \in I : Rank(I, i) + 1 \in 1 .. Cardinality(I) /\ Ascending(I)[Rank(I, i) + 1] = i
  BY InOrder
<1>2. Selected(seq, I) \in [1 .. Cardinality(I) -> T] BY <1>1 DEF Selected
<1>3. Cardinality(I) \in Nat BY FS_CardinalityType
<1>4. \A i \in I : Selected(seq, I)[Rank(I, i) + 1] = seq[i] BY <1>1 DEF Selected
<1> QED BY <1>1, <1>2, <1>3, <1>4, FunctionIsSequence

\* The literals and the fields of a record that is split into events.
LEMMA SplitTyped ==
  ASSUME NEW n \in Nat, NEW seq \in Seq(0 .. n), BytesOnly(seq), NEW ps, ps = Positions(seq)
  PROVE  /\ ps \in Seq(1 .. Len(seq)) /\ Len(ps) \in Nat /\ DOMAIN ps = 1 .. Len(ps)
         /\ Literals(seq, ps) \in Seq(0 .. n)
         /\ Events(seq, ps, 1) \in SUBSET (1 .. Len(ps))
         /\ \A e \in Events(seq, ps, 1) : seq[ps[e]] \in ValuesOf(Literals(seq, ps))
         /\ \A o \in 1 .. 3 : Field(seq, ps, o) \in Seq(0 .. (Byte - 1))
         /\ \A e \in Events(seq, ps, 4) : \A o \in 1 .. 3 : seq[ps[e] + o] \in ValuesOf(Field(seq, ps, o))
         /\ Roles(seq, ps) \in Seq(0 .. 1)
         /\ \A e \in 1 .. Len(ps) : (IF Span(seq, ps[e]) = 4 THEN 1 ELSE 0) \in ValuesOf(Roles(seq, ps))
<1>1. ps \in Seq(1 .. Len(seq)) BY PositionsChain DEF Chain
<1>2. Len(ps) \in Nat /\ DOMAIN ps = 1 .. Len(ps) BY <1>1
<1>3. \A e \in 1 .. Len(ps) : ps[e] \in 1 .. Len(seq) /\ ps[e] \in Int BY <1>1
<1>4. \A w : Events(seq, ps, w) \in SUBSET (1 .. Len(ps)) /\ IsFiniteSet(Events(seq, ps, w))
             /\ Events(seq, ps, w) \in SUBSET Nat
  <2> TAKE w
  <2>1. Events(seq, ps, w) \in SUBSET (1 .. Len(ps)) BY <1>2 DEF Events
  <2>2. IsFiniteSet(1 .. Len(ps)) /\ (1 .. Len(ps)) \in SUBSET Nat
    BY <1>2, RangeFinite
  <2> QED BY <2>1, <2>2, FS_Subset
<1>5. ASSUME NEW w, NEW o \in Int, NEW T, \A e \in Events(seq, ps, w) : seq[ps[e] + o] \in T
      PROVE  /\ Values(seq, ps, w, o) \in Seq(T)
             /\ \A e \in Events(seq, ps, w) : seq[ps[e] + o] \in ValuesOf(Values(seq, ps, w, o))
  <2> DEFINE I == Events(seq, ps, w)
             f == [e \in DOMAIN ps |-> seq[ps[e] + o]]
             v == Values(seq, ps, w, o)
  <2>1. \A e \in I : e \in DOMAIN ps /\ f[e] = seq[ps[e] + o] BY <1>2, <1>4
  <2>2. v = Selected(f, I) BY DEF Values
  <2>3. \A e \in I : f[e] \in T BY <2>1, <1>5
  <2>7. I \in SUBSET Nat /\ IsFiniteSet(I) BY <1>4
  <2> HIDE DEF I, f, v
  <2>4. /\ v \in Seq(T) /\ Len(v) = Cardinality(I)
        /\ \A e \in I : Rank(I, e) + 1 \in 1 .. Cardinality(I) /\ v[Rank(I, e) + 1] = f[e]
    BY <2>2, <2>3, <2>7, SelectedTyped
  <2>5. \A e \in I : f[e] \in ValuesOf(v)
    <3> TAKE e \in I
    <3>1. Rank(I, e) + 1 \in DOMAIN v BY <2>4
    <3> QED BY <3>1, <2>4 DEF ValuesOf
  <2> QED BY <2>1, <2>4, <2>5 DEF I, v
<1>6. Literals(seq, ps) \in Seq(0 .. n)
      /\ \A e \in Events(seq, ps, 1) : seq[ps[e]] \in ValuesOf(Literals(seq, ps))
  <2>1. \A e \in Events(seq, ps, 1) : ps[e] + 0 = ps[e] /\ seq[ps[e]] \in 0 .. n
    BY <1>3, <1>4
  <2>2. \A e \in Events(seq, ps, 1) : seq[ps[e] + 0] \in 0 .. n BY <2>1
  <2>3. /\ Values(seq, ps, 1, 0) \in Seq(0 .. n)
        /\ \A e \in Events(seq, ps, 1) : seq[ps[e] + 0] \in ValuesOf(Values(seq, ps, 1, 0))
    BY <2>2, <1>5, 0 \in Int
  <2> QED BY <2>1, <2>3 DEF Literals
<1>7. ASSUME NEW o \in 1 .. 3
      PROVE  /\ Field(seq, ps, o) \in Seq(0 .. (Byte - 1))
             /\ \A e \in Events(seq, ps, 4) : seq[ps[e] + o] \in ValuesOf(Field(seq, ps, o))
  <2>1. \A e \in Events(seq, ps, 4) : seq[ps[e] + o] \in 0 .. (Byte - 1) BY DEF BytesOnly
  <2>2. o \in Int OBVIOUS
  <2> QED BY <2>1, <2>2, <1>5 DEF Field
<1>8. Roles(seq, ps) \in Seq(0 .. 1)
  <2>1. Roles(seq, ps) \in [1 .. Len(ps) -> 0 .. 1] BY <1>2 DEF Roles
  <2> QED BY <2>1, <1>2, FunctionIsSequence
<1>9. \A e \in 1 .. Len(ps) : (IF Span(seq, ps[e]) = 4 THEN 1 ELSE 0) \in ValuesOf(Roles(seq, ps))
  BY <1>2 DEF Roles, ValuesOf
<1> QED BY <1>1, <1>2, <1>4, <1>6, <1>7, <1>8, <1>9

\* The tables of the fields of a match.
LEMMA MetaFits ==
  ASSUME NormalizeKeeps, NEW n \in Nat, NEW seq \in Seq(0 .. n), BytesOnly(seq),
         NEW ps, ps = Positions(seq), NEW m, m = MetaTables(seq, ps, Byte)
  PROVE  /\ Received(m.role) = m.role /\ Received(m.hi) = m.hi
         /\ Received(m.lo) = m.lo /\ Received(m.len) = m.len
         /\ \A t \in {m.role, m.hi, m.lo, m.len} :
              Cardinality(Active(t)) <= RANS_M
         /\ \A e \in 1 .. Len(ps) : (IF Span(seq, ps[e]) = 4 THEN 1 ELSE 0) \in Active(m.role)
         /\ \A e \in Events(seq, ps, 4) :
              /\ seq[ps[e] + 1] \in Active(m.hi) /\ seq[ps[e] + 2] \in Active(m.lo)
              /\ seq[ps[e] + 3] \in Active(m.len)
<1>1. /\ Byte - 1 \in Nat /\ (Byte - 1) + 1 <= RANS_M /\ 1 \in Nat /\ 1 + 1 <= RANS_M
  BY BytesAssumption, CoderAssumption
<1>2. \A o \in 1 .. 3 : Cardinality(ValuesOf(Field(seq, ps, o))) <= RANS_M
  BY <1>1, SplitTyped, FewValues
<1>3. \A o \in 1 .. 3 :
        LET t == Table(Field(seq, ps, o), 0 .. (Byte - 1))
        IN  Received(t) = t /\ Active(t) = ValuesOf(Field(seq, ps, o))
  BY <1>1, <1>2, SplitTyped, TableFits
<1>4. Cardinality(ValuesOf(Roles(seq, ps))) <= RANS_M
  BY <1>1, SplitTyped, FewValues
<1>5. LET t == Table(Roles(seq, ps), 0 .. 1)
      IN  Received(t) = t /\ Active(t) = ValuesOf(Roles(seq, ps))
  BY <1>1, <1>4, SplitTyped, TableFits
<1>6. {0, 1} = 0 .. 1 OBVIOUS
<1>7. /\ m.role = Table(Roles(seq, ps), 0 .. 1) /\ m.hi = Table(Field(seq, ps, 1), 0 .. (Byte - 1))
      /\ m.lo = Table(Field(seq, ps, 2), 0 .. (Byte - 1))
      /\ m.len = Table(Field(seq, ps, 3), 0 .. (Byte - 1))
  BY <1>6 DEF MetaTables
<1>8. /\ Received(m.role) = m.role /\ Active(m.role) = ValuesOf(Roles(seq, ps))
      /\ Received(m.hi) = m.hi /\ Active(m.hi) = ValuesOf(Field(seq, ps, 1))
      /\ Received(m.lo) = m.lo /\ Active(m.lo) = ValuesOf(Field(seq, ps, 2))
      /\ Received(m.len) = m.len /\ Active(m.len) = ValuesOf(Field(seq, ps, 3))
  BY <1>3, <1>5, <1>7
<1>9. /\ \A e \in Events(seq, ps, 4) : \A o \in 1 .. 3 : seq[ps[e] + o] \in ValuesOf(Field(seq, ps, o))
      /\ \A e \in 1 .. Len(ps) : (IF Span(seq, ps[e]) = 4 THEN 1 ELSE 0) \in ValuesOf(Roles(seq, ps))
  BY SplitTyped
<1>10. 1 \in 1 .. 3 /\ 2 \in 1 .. 3 /\ 3 \in 1 .. 3 OBVIOUS
<1> QED BY <1>2, <1>4, <1>8, <1>9, <1>10

\* A capped literal table: a literal that keeps its place has a frequency, and
\* if one does not, the symbol above all of them stands for it.
LEMMA LiteralTableFits ==
  ASSUME NormalizeKeeps, NEW literals \in Seq(0 .. MatchFlag), NEW kept,
         kept = Capped(literals, RANS_M - 1),
         NEW esc, esc = MatchFlag + 1,
         NEW t, t = Table([n \in DOMAIN literals |-> IF literals[n] \in kept THEN literals[n] ELSE esc],
                          0 .. esc)
  PROVE  /\ Received(t) = t /\ Cardinality(Active(t)) <= RANS_M
         /\ \A s \in ValuesOf(literals) : /\ t[s] > 0 <=> s \in kept
                                          /\ (IF t[s] > 0 THEN s ELSE esc) \in Active(t)
<1> DEFINE seq == [n \in DOMAIN literals |-> IF literals[n] \in kept THEN literals[n] ELSE esc]
<1>0. /\ MatchFlag \in Nat /\ esc \in Nat /\ RANS_M \in Nat \ {0} /\ RANS_M - 1 \in Nat
      /\ literals \in Seq(Nat) /\ DOMAIN literals = 1 .. Len(literals) /\ Len(literals) \in Nat
      /\ \A n \in 1 .. Len(literals) : literals[n] \in 0 .. MatchFlag /\ literals[n] \in 0 .. esc
  BY CoderAssumption
<1>1. esc \notin ValuesOf(literals) /\ ValuesOf(literals) \in SUBSET (0 .. esc)
  BY <1>0 DEF ValuesOf
<1>2. seq \in [1 .. Len(literals) -> 0 .. esc] BY <1>0
<1>3. seq \in Seq(0 .. esc) /\ DOMAIN seq = DOMAIN literals
      /\ \A n \in DOMAIN literals : seq[n] = IF literals[n] \in kept THEN literals[n] ELSE esc
  BY <1>0, <1>2, FunctionIsSequence
<1> HIDE DEF seq
<1>4. /\ kept \in SUBSET ValuesOf(literals) /\ IsFiniteSet(kept)
      /\ Cardinality(kept) \in Nat /\ Cardinality(kept) <= RANS_M - 1
  BY <1>0, CappedFits
<1>5. \A s \in ValuesOf(literals) : s \in ValuesOf(seq) <=> s \in kept
  <2> TAKE s \in ValuesOf(literals)
  <2>1. s # esc BY <1>1
  <2>2. PICK n \in DOMAIN literals : literals[n] = s BY DEF ValuesOf
  <2>3. s \in kept => s \in ValuesOf(seq) BY <2>2, <1>3 DEF ValuesOf
  <2>4. s \in ValuesOf(seq) => s \in kept
    <3> SUFFICES ASSUME s \in ValuesOf(seq) PROVE s \in kept OBVIOUS
    <3>1. PICK k \in DOMAIN seq : seq[k] = s BY DEF ValuesOf
    <3> QED BY <3>1, <2>1, <1>3
  <2> QED BY <2>3, <2>4
<1>6. \A s \in ValuesOf(literals) : s \notin kept => esc \in ValuesOf(seq)
  <2> SUFFICES ASSUME NEW s \in ValuesOf(literals), s \notin kept PROVE esc \in ValuesOf(seq) OBVIOUS
  <2>1. PICK n \in DOMAIN literals : literals[n] = s BY DEF ValuesOf
  <2>2. seq[n] = esc /\ n \in DOMAIN seq BY <2>1, <1>3
  <2> QED BY <2>2 DEF ValuesOf
<1>7. Cardinality(ValuesOf(seq)) <= RANS_M
  <2>1. ValuesOf(seq) \in SUBSET (kept \cup {esc})
    <3> SUFFICES ASSUME NEW n \in DOMAIN seq PROVE seq[n] \in kept \cup {esc} BY DEF ValuesOf
    <3> QED BY <1>3
  <2>2. esc \notin kept BY <1>1, <1>4
  <2>3. IsFiniteSet(kept \cup {esc}) /\ Cardinality(kept \cup {esc}) = Cardinality(kept) + 1
    BY <2>2, <1>4, FS_AddElement
  <2>4. Cardinality(ValuesOf(seq)) <= Cardinality(kept) + 1 BY <2>1, <2>3, FS_Subset
  <2>5. seq \in Seq(Nat) BY <1>3, <1>0
  <2>6. Cardinality(ValuesOf(seq)) \in Nat BY <2>5, ValuesFinite
  <2> QED BY <2>4, <2>6, <1>4, <1>0
<1>8. t \in [0 .. esc -> 0 .. RANS_M] /\ Active(t) = ValuesOf(seq) /\ Received(t) = t
  <2>1. t = Table(seq, 0 .. esc) BY DEF seq
  <2> QED BY <2>1, <1>0, <1>3, <1>7, TableFits
<1>9. \A s \in ValuesOf(literals) : t[s] > 0 <=> s \in Active(t)
  BY <1>1, <1>8 DEF Active
<1> QED BY <1>5, <1>6, <1>7, <1>8, <1>9

\* A call the coder accepts.
Accepted(c) == c.sym \in Active(c.table) /\ Cardinality(Active(c.table)) <= RANS_M
AllAccepted(seq) == \A n \in DOMAIN seq : Accepted(seq[n])

\* The stack holds nothing but the calls of the parts.
LEMMA StackedAccepted ==
  ASSUME NEW seq, NEW parts, NEW e \in 0 .. Len(parts), NEW c \in Nat, Stacked(seq, parts, e, c),
         \A i \in 1 .. Len(parts) : AllAccepted(parts[i])
  PROVE  AllAccepted(seq)
<1> DEFINE N == Len(parts)
<1>1. PICK S, H : /\ seq \in Seq(S) /\ parts \in Seq(Seq(S))
                  /\ Heights(H, parts, e) /\ H[e] = Len(seq) + c
                  /\ Entries(seq, H, parts, e)
  BY DEF Stacked
<1>2. /\ N \in Nat /\ e \in 0 .. N /\ Len(seq) \in Nat /\ DOMAIN seq = 1 .. Len(seq)
      /\ \A i \in 1 .. N : Len(parts[i]) \in Nat /\ DOMAIN parts[i] = 1 .. Len(parts[i])
  <2>1. \A i \in 1 .. N : parts[i] \in Seq(S) BY <1>1
  <2> QED BY <1>1, <2>1
<1> HIDE DEF N
<1>3. /\ H[N] = 0 /\ \A i \in e .. N : H[i] \in Nat
      /\ \A i \in (e + 1) .. N : /\ H[i - 1] = H[i] + Len(parts[i])
                                 /\ \A j \in 1 .. Len(parts[i]) : H[i] + j <= Len(seq) => seq[H[i] + j] = parts[i][j]
  BY <1>1 DEF Heights, Entries, N
<1> DEFINE Fine(i) == \A n \in 1 .. Len(seq) : n <= H[i] => Accepted(seq[n])
           A == {k \in Nat : k <= N - e => Fine(N - k)}
<1>4. 0 \in A BY <1>2, <1>3
<1>5. ASSUME NEW k \in Nat, k \in A PROVE k + 1 \in A
  <2> SUFFICES ASSUME k + 1 <= N - e, NEW n \in 1 .. Len(seq), n <= H[N - (k + 1)] PROVE Accepted(seq[n])
    OBVIOUS
  <2> DEFINE i == N - k
             j == n - H[i]
  <2>1. i \in (e + 1) .. N /\ i \in e .. N /\ i \in 1 .. N /\ N - (k + 1) = i - 1 /\ Fine(i)
    BY <1>2, <1>5
  <2>4. n <= H[i - 1] BY <2>1
  <2> HIDE DEF i
  <2>2. CASE n <= H[i] BY <2>1, <2>2
  <2>3. CASE ~(n <= H[i])
    <3>1. H[i] \in Nat /\ H[i - 1] = H[i] + Len(parts[i]) /\ Len(parts[i]) \in Nat BY <1>2, <1>3, <2>1
    <3>2. j \in 1 .. Len(parts[i]) /\ H[i] + j = n BY ONLY <3>1, <2>3, <2>4, n \in Nat
    <3> HIDE DEF j
    <3>3. H[i] + j <= Len(seq) BY <1>2, <3>2
    <3>5. seq[n] = parts[i][j] BY <1>3, <2>1, <3>2, <3>3
    <3>4. Accepted(parts[i][j]) BY <1>2, <2>1, <3>2 DEF AllAccepted, N
    <3> QED BY <3>4, <3>5
  <2> QED BY <2>2, <2>3
<1> HIDE DEF A
<1>6. N - e \in Nat /\ N - (N - e) = e BY <1>2
<1>7. N - e \in A BY <1>4, <1>5, <1>6, NatInd
<1>8. Fine(e) BY <1>6, <1>7 DEF A
<1> QED BY <1>1, <1>2, <1>8 DEF AllAccepted

\* Nor does it in the encoder, or in the decoder.
LEMMA SentAccepted ==
  ASSUME Planned, NEW lits, Typed(lits), NEW m, NEW parts, parts = Parts(lits, m),
         \A i \in 1 .. Len(positions) : AllAccepted(parts[i]), NEW stk,
         NEW e \in 0 .. Len(positions), NEW st, NEW lf, NEW o, NEW more,
         Stacked(stk, parts, e, 0) \/ At(stk, st, lf, o, parts, more)
  PROVE  Encodable(stk)
<1>1. Len(parts) = Len(positions) /\ Len(positions) \in Nat BY PartsTyped, EventFits
<1>2. ASSUME NEW n \in 0 .. Len(positions), NEW c \in Nat, Stacked(stk, parts, n, c)
      PROVE  AllAccepted(stk)
  BY <1>1, <1>2, StackedAccepted
<1>3. ASSUME At(stk, st, lf, o, parts, more) PROVE AllAccepted(stk)
  <2>1. /\ lf \in 0 .. Len(positions) /\ more \in Nat /\ Stacked(stk, parts, Done(lf), Taken(st, more))
    BY <1>3 DEF At
  <2>2. Done(lf) \in 0 .. Len(positions) /\ Taken(st, more) \in Nat BY <1>1, <2>1 DEF Done, Taken
  <2> QED BY <2>1, <2>2, <1>2
<1>4. AllAccepted(stk) BY <1>2, <1>3
<1> QED BY <1>4 DEF Encodable, AllAccepted, Accepted

\* The calls of an event are accepted if those of its literal or fields are.
LEMMA PartAccepted ==
  ASSUME Planned, NEW lits, Typed(lits), NEW m, NEW e \in 1 .. Len(positions), NEW p, p = positions[e],
         Width(p) = 4 => /\ Accepted(Call(lz[p + 3], m.len)) /\ Accepted(Call(lz[p + 2], m.lo))
                         /\ Accepted(Call(lz[p + 1], m.hi)) /\ Accepted(Call(1, m.role)),
         Width(p) # 4 => AllAccepted(lits[e]) /\ (split => Accepted(Call(0, m.role)))
  PROVE  AllAccepted(Parts(lits, m)[e])
<1> DEFINE part == Part(e, lits[e], m)
<1>1. Parts(lits, m)[e] = part BY PartCalls
<1>2. Len(part) \in Nat /\ DOMAIN part = 1 .. Len(part)
  <2>1. PICK S : Parts(lits, m) \in Seq(Seq(S)) /\ Len(Parts(lits, m)) = Len(positions) BY PartsTyped
  <2>2. Parts(lits, m)[e] \in Seq(S) BY <2>1
  <2> HIDE DEF part
  <2>3. part \in Seq(S) BY <2>2, <1>1
  <2> QED BY <2>3
<1>3. CASE Width(p) = 4
  <2>1. /\ Len(part) = 4 /\ part[1] = Call(lz[p + 3], m.len) /\ part[2] = Call(lz[p + 2], m.lo)
        /\ part[3] = Call(lz[p + 1], m.hi) /\ part[4] = Call(1, m.role)
    BY <1>3, PartCalls
  <2> HIDE DEF part
  <2>2. \A n \in DOMAIN part : n = 1 \/ n = 2 \/ n = 3 \/ n = 4 BY <2>1, <1>2
  <2>3. Accepted(part[1]) /\ Accepted(part[2]) /\ Accepted(part[3]) /\ Accepted(part[4])
    BY <2>1, <1>3
  <2>4. \A n \in DOMAIN part : Accepted(part[n]) BY <2>2, <2>3
  <2> QED BY <2>4, <1>1 DEF AllAccepted
<1>4. CASE Width(p) # 4
  <2> DEFINE lit == lits[e]
  <2>1. /\ Len(lit) \in Nat \ {0} /\ \A j \in 1 .. Len(lit) : part[j] = lit[j]
        /\ split => Len(part) = Len(lit) + 1 /\ part[Len(lit) + 1] = Call(0, m.role)
        /\ ~split => Len(part) = Len(lit)
    BY <1>4, PartCalls
  <2>2. DOMAIN lit = 1 .. Len(lit)
    <3>1. PICK S : lits \in [1 .. Len(positions) -> Seq(S)] BY DEF Typed
    <3>2. lit \in Seq(S) BY <3>1
    <3> HIDE DEF lit
    <3> QED BY <3>2
  <2>3. AllAccepted(lit) /\ (split => Accepted(Call(0, m.role))) BY <1>4
  <2> HIDE DEF part, lit
  <2>4. ASSUME NEW n \in DOMAIN part PROVE Accepted(part[n])
    <3>1. n \in 1 .. Len(lit) \/ (split /\ n = Len(lit) + 1)
      <4>1. CASE split
        <5>1. n \in 1 .. Len(lit) \/ n = Len(lit) + 1 BY <4>1, <1>2, <2>1
        <5> QED BY <4>1, <5>1
      <4>2. CASE ~split BY <4>2, <1>2, <2>1
      <4> QED BY <4>1, <4>2
    <3>2. CASE n \in 1 .. Len(lit)
      <4>1. part[n] = lit[n] /\ n \in DOMAIN lit BY <3>2, <2>1, <2>2
      <4> QED BY <4>1, <2>3 DEF AllAccepted
    <3>3. CASE split /\ n = Len(lit) + 1 BY <3>3, <2>1, <2>3
    <3> QED BY <3>1, <3>2, <3>3
  <2> QED BY <2>4, <1>1 DEF AllAccepted
<1> QED BY <1>3, <1>4

-----------------------------------------------------------------------------
\* The static modes: the inductive invariant, and that the counting leads to
\* it.

\* The calls for each event, and what it adds to the escape list.
StaticLits == [e \in 1 .. Len(positions) |-> <<Call(Static!Coded(lz[positions[e]]), stats.literal)>>]
StaticCalls == Parts(StaticLits, stats)
StaticEscaped(e) == Width(positions[e]) = 1 /\ ~Static!HasSlot(lz[positions[e]])
StaticEscapes == [e \in 1 .. Len(positions) |-> IF StaticEscaped(e) THEN <<lz[positions[e]]>> ELSE <<>>]
Unslotted == {n \in DOMAIN lz : ~Static!HasSlot(lz[n])}

Fields == IF split THEN {"literal", "role", "hi", "lo", "len"} ELSE {"literal"}

StaticTypes ==
  /\ lz \in StaticInputs /\ split \in BOOLEAN
  /\ phase \in {"count", "encode", "decode", "done"}
  /\ escapes \in Seq(0 .. MatchFlag)

StaticCounting ==
  phase = "count" =>
    stack = <<>> /\ escapes = <<>> /\ out = <<>> /\ escape_pos = 0

StaticPlan ==
  phase # "count" =>
    /\ Planned /\ DOMAIN stats = Fields
    /\ \A f \in DOMAIN stats : Received(stats[f]) = stats[f]
    /\ \A e \in 1 .. Len(positions) : AllAccepted(StaticCalls[e])
    /\ ~split => positions = [n \in DOMAIN lz |-> n]

StaticEncoding ==
  phase = "encode" =>
    /\ at \in 0 .. Len(positions) /\ Stacked(stack, StaticCalls, at, 0)
    /\ split => Stacked(escapes, StaticEscapes, at, 0)
    /\ ~split => escapes = Selected(lz, Unslotted)
    /\ out = <<>> /\ escape_pos = 0

StaticUnread == SubSeq(Reversed(stream.escapes), 1, Len(stream.escapes) - escape_pos)

StaticDecoding ==
  phase \in {"decode", "done"} =>
    /\ stream.escapes \in Seq(0 .. MatchFlag) /\ escape_pos \in 0 .. Len(stream.escapes)
    /\ \A f \in Fields : stream[f] = stats[f]
    /\ step \in {"event", "hi", "lo", "len", "literal"}
    /\ At(stack, step, left, out, StaticCalls, 0)
    /\ Stacked(StaticUnread, StaticEscapes, Done(left), 0)

StaticInv ==
  /\ StaticTypes /\ StaticCounting /\ StaticPlan /\ StaticEncoding /\ StaticDecoding
  /\ phase = "done" => left = 0

\* The list, and what a match in it carries.
LEMMA StaticTyped ==
  ASSUME StaticTypes
  PROVE  lz \in Seq(0 .. MatchFlag) /\ Len(lz) \in Nat /\ BytesOnly(lz) /\ DOMAIN lz = 1 .. Len(lz)
<1>1. lz \in Seq(0 .. MatchFlag) BY ModesAssumption DEF StaticTypes, Static!StaticAssumption
<1>2. BytesOnly(lz) BY BytesAssumption DEF StaticTypes
<1> QED BY <1>1, <1>2

\* Each literal has its call.
LEMMA StaticLitsTyped ==
  ASSUME Planned
  PROVE  Typed(StaticLits)
<1> DEFINE S == {Call(Static!Coded(lz[positions[e]]), stats.literal) : e \in 1 .. Len(positions)}
<1>1. ASSUME NEW e \in 1 .. Len(positions)
      PROVE  StaticLits[e] \in Seq(S) /\ StaticLits[e] # <<>>
  <2> DEFINE c == Call(Static!Coded(lz[positions[e]]), stats.literal)
  <2>1. c \in S /\ StaticLits[e] = <<c>> BY DEF StaticLits
  <2> HIDE DEF c, S
  <2>2. <<c>> \in Seq(S) /\ <<c>> # <<>> BY <2>1
  <2> QED BY <2>1, <2>2
<1>2. StaticLits \in [1 .. Len(positions) -> Seq(S)]
  <2> HIDE DEF S
  <2> QED BY <1>1 DEF StaticLits
<1> QED BY <1>1, <1>2 DEF Typed

\* Each event adds a token of the list or nothing.
LEMMA StaticEscapesTyped ==
  ASSUME Planned
  PROVE  StaticEscapes \in Seq(Seq(0 .. MatchFlag)) /\ Len(StaticEscapes) = Len(positions)
<1>1. ASSUME NEW e \in 1 .. Len(positions)
      PROVE  (IF StaticEscaped(e) THEN <<lz[positions[e]]>> ELSE <<>>) \in Seq(0 .. MatchFlag)
  <2>1. positions[e] \in 1 .. Len(lz) BY EventFits
  <2>2. lz[positions[e]] \in 0 .. MatchFlag BY <2>1, ElementOfSeq DEF Planned
  <2>3. <<lz[positions[e]]>> \in Seq(0 .. MatchFlag) /\ <<>> \in Seq(0 .. MatchFlag) BY <2>2
  <2> QED BY <2>3
<1>2. StaticEscapes \in [1 .. Len(positions) -> Seq(0 .. MatchFlag)] BY <1>1 DEF StaticEscapes
<1> QED BY <1>2, EventFits, FunctionIsSequence

\* The invariant holds initially.
LEMMA StaticInit == Static!Init => StaticInv
<1> SUFFICES ASSUME Static!Init PROVE StaticInv OBVIOUS
<1>1. /\ lz \in StaticInputs /\ split \in BOOLEAN /\ phase = "count" /\ stack = <<>>
      /\ escapes = <<>> /\ out = <<>> /\ escape_pos = 0
  BY DEF Static!Init
<1>2. <<>> \in Seq(0 .. MatchFlag) OBVIOUS
<1> QED BY <1>1, <1>2
        DEF StaticInv, StaticTypes, StaticCounting, StaticPlan, StaticEncoding, StaticDecoding

\* After the counting, the calls do not change.
LEMMA StaticFixed ==
  ASSUME UNCHANGED <<lz, split, positions, stats>>
  PROVE  /\ StaticCalls' = StaticCalls /\ StaticEscapes' = StaticEscapes /\ Fields' = Fields
         /\ Planned' = Planned /\ StaticLits' = StaticLits
         /\ \A stk, st, lf, o, parts, more :
              At(stk, st, lf, o, parts, more)' <=> At(stk, st, lf, o, parts, more)
         /\ \A lf : Done(lf)' = Done(lf)
<1>1. /\ \A p : Width(p)' = Width(p)
      /\ \A e, l, m : Part(e, l, m)' = Part(e, l, m)
      /\ Planned' = Planned /\ \A lf : Done(lf)' = Done(lf)
      /\ \A stk, st, lf, o, parts, more :
              At(stk, st, lf, o, parts, more)' <=> At(stk, st, lf, o, parts, more)
  BY EventsFixed
<1>2. \A s : Static!Coded(s)' = Static!Coded(s) /\ Static!HasSlot(s)' = Static!HasSlot(s)
  BY DEF Static!Coded, Static!HasSlot
<1>4. StaticLits' = StaticLits BY <1>2 DEF StaticLits
<1>5. StaticEscapes' = StaticEscapes
  <2>1. \A e : StaticEscaped(e)' <=> StaticEscaped(e) BY <1>1, <1>2 DEF StaticEscaped
  <2> QED BY <2>1 DEF StaticEscapes
<1>6. StaticCalls' = StaticCalls BY <1>1, <1>4 DEF StaticCalls, Parts
<1>11. Fields' = Fields BY DEF Fields
<1> QED BY <1>1, <1>4, <1>5, <1>6, <1>11

\* StaticMode has its own instance of Coder.
LEMMA StaticIsCoder ==
  /\ \A s, c : Static!Capped(s, c) = Capped(s, c)
  /\ \A s, S : Static!Table(s, S) = Table(s, S)
  /\ \A s, S : Static!Selected(s, S) = Selected(s, S)
  /\ \A s : Static!Positions(s) = Positions(s)
  /\ \A s, p : Static!Span(s, p) = Span(s, p)
  /\ \A s, p : Static!Literals(s, p) = Literals(s, p)
  /\ \A s, p, b : Static!MetaTables(s, p, b) = MetaTables(s, p, b)
  /\ \A s, p, m : Static!MatchCalls(s, p, m) = MatchCalls(s, p, m)
  /\ \A s, t : Static!Call(s, t) = Call(s, t)
  /\ \A t : Static!Received(t) = Received(t)
  /\ \A s, t : Static!Popped(s, t) = Popped(s, t)
  /\ \A s : Static!Below(s) = Below(s) /\ Static!Top(s) = Top(s)
  /\ Static!escape_symbol = MatchFlag + 1
BY SMTT(30) DEF Static!Span, Span, Static!ValuesOf, ValuesOf, Static!IsFiniteSet, IsFiniteSet,
  Static!Cardinality, Cardinality, Static!CountOf, CountOf, Static!Capped, Capped, Static!Tally,
  Tally, Static!Table, Table, Static!Ascending, Ascending, Static!Selected, Selected,
  Static!Positions, Positions, Static!Events, Events, Static!Values, Values, Static!Literals,
  Literals, Static!Field, Field, Static!Roles, Roles, Static!MetaTables, MetaTables, Static!Call,
  Call, Static!MatchCalls, MatchCalls, Static!Received, Received, Static!Below, Below, Static!Top,
  Top, Static!Active, Active, Static!Popped, Popped, Static!escape_symbol

\* The state after the counting.
LiteralsOf == IF split THEN Literals(lz, positions) ELSE lz
KeptOf == Capped(LiteralsOf, RANS_M - 1)
SlotTable(literals, kept) ==
  Table([n \in DOMAIN literals |-> IF literals[n] \in kept THEN literals[n] ELSE MatchFlag + 1],
        0 .. (MatchFlag + 1))

StaticCounted ==
  /\ StaticTypes /\ phase = "encode"
  /\ stack = <<>> /\ out = <<>> /\ escape_pos = 0 /\ at = Len(positions)
  /\ positions = IF split THEN Positions(lz) ELSE [n \in DOMAIN lz |-> n]
  /\ DOMAIN stats = Fields /\ stats.literal = SlotTable(LiteralsOf, KeptOf)
  /\ split => /\ stats.role = MetaTables(lz, positions, Byte).role
              /\ stats.hi = MetaTables(lz, positions, Byte).hi
              /\ stats.lo = MetaTables(lz, positions, Byte).lo
              /\ stats.len = MetaTables(lz, positions, Byte).len
  /\ escapes = IF split THEN <<>> ELSE Selected(lz, {n \in DOMAIN lz : lz[n] \notin KeptOf})

\* The split events, or the single tokens, follow each other through the record.
LEMMA EventsPlanned ==
  ASSUME lz \in Seq(0 .. MatchFlag), split \in BOOLEAN,
         positions = IF split THEN Positions(lz) ELSE [n \in DOMAIN lz |-> n]
  PROVE  Planned
<1>1. Len(lz) \in Nat /\ DOMAIN lz = 1 .. Len(lz) OBVIOUS
<1>2. CASE split
  <2>1. Chain(lz, positions, 1) BY <1>1, <1>2, PositionsChain
  <2>2. /\ positions \in Seq(1 .. Len(lz)) /\ Start(lz, positions, 1) = 1
        /\ \A e \in 1 .. Len(positions) :
             Start(lz, positions, e + 1) = positions[e] + Span(lz, positions[e])
    BY <2>1 DEF Chain
  <2>3. \A p : Width(p) = Span(lz, p) BY <1>2 DEF Width
  <2> QED BY <1>1, <2>2, <2>3 DEF Planned, Begin
<1>3. CASE ~split
  <2> DEFINE ps == [n \in 1 .. Len(lz) |-> n]
  <2>1. ps \in [1 .. Len(lz) -> 1 .. Len(lz)] /\ \A n \in 1 .. Len(lz) : ps[n] = n OBVIOUS
  <2>2. positions = ps BY <1>1, <1>3
  <2> HIDE DEF ps
  <2>3. positions \in Seq(1 .. Len(lz)) /\ Len(positions) = Len(lz)
        /\ \A n \in 1 .. Len(lz) : positions[n] = n
    BY <1>1, <2>1, <2>2, FunctionIsSequence
  <2>4. \A n \in 1 .. (Len(lz) + 1) : Begin(n) = n BY <1>1, <2>3 DEF Begin, Start
  <2>5. \A p : Width(p) = 1 BY <1>3 DEF Width
  <2>6. \A e \in 1 .. Len(positions) : Begin(e + 1) = positions[e] + Width(positions[e])
    <3> TAKE e \in 1 .. Len(positions)
    <3>1. e + 1 \in 1 .. (Len(lz) + 1) BY <1>1, <2>3
    <3> QED BY <3>1, <2>3, <2>4, <2>5
  <2>7. Begin(1) = 1 BY <1>1, <2>4
  <2> QED BY <1>1, <2>3, <2>6, <2>7 DEF Planned
<1> QED BY <1>2, <1>3

\* After the counting, the events are known.
LEMMA StaticPlanned == StaticCounted => Planned
<1> SUFFICES ASSUME StaticCounted PROVE Planned OBVIOUS
<1>1. /\ lz \in Seq(0 .. MatchFlag) /\ split \in BOOLEAN
      /\ positions = IF split THEN Positions(lz) ELSE [n \in DOMAIN lz |-> n]
  BY StaticTyped DEF StaticCounted, StaticTypes
<1> QED BY <1>1, EventsPlanned

\* After the counting, each call has a symbol of a table that fits.
LEMMA StaticTablesFit ==
  NormalizeKeeps /\ StaticCounted =>
    /\ \A f \in DOMAIN stats : Received(stats[f]) = stats[f]
    /\ \A e \in 1 .. Len(positions) : AllAccepted(StaticCalls[e])
    /\ ~split => Unslotted = {n \in DOMAIN lz : lz[n] \notin KeptOf}
<1> SUFFICES ASSUME NormalizeKeeps, StaticCounted
             PROVE  /\ \A f \in DOMAIN stats : Received(stats[f]) = stats[f]
                    /\ \A e \in 1 .. Len(positions) : AllAccepted(StaticCalls[e])
                    /\ ~split => Unslotted = {n \in DOMAIN lz : lz[n] \notin KeptOf}
  OBVIOUS
<1>0. Planned BY StaticPlanned
<1>1. /\ lz \in Seq(0 .. MatchFlag) /\ Len(lz) \in Nat /\ DOMAIN lz = 1 .. Len(lz)
      /\ MatchFlag \in Nat /\ BytesOnly(lz)
  BY StaticTyped, CoderAssumption DEF StaticCounted
<1>2. split => positions = Positions(lz) BY DEF StaticCounted
<1> DEFINE literals == LiteralsOf
           kept == KeptOf
           t == stats.literal
           esc == MatchFlag + 1
<1>3. literals \in Seq(0 .. MatchFlag)
      /\ \A e \in 1 .. Len(positions) : Width(positions[e]) # 4 => lz[positions[e]] \in ValuesOf(literals)
  <2>1. CASE split
    <3>1. literals = Literals(lz, positions) BY <2>1 DEF LiteralsOf
    <3> HIDE DEF literals
    <3>2. /\ Literals(lz, positions) \in Seq(0 .. MatchFlag)
          /\ \A e \in Events(lz, positions, 1) : lz[positions[e]] \in ValuesOf(Literals(lz, positions))
      BY <1>1, <1>2, <2>1, SplitTyped
    <3>3. \A e \in 1 .. Len(positions) : Width(positions[e]) # 4 => e \in Events(lz, positions, 1)
      <4> TAKE e \in 1 .. Len(positions)
      <4>1. DOMAIN positions = 1 .. Len(positions) BY <1>0 DEF Planned
      <4>2. Width(positions[e]) \in {1, 4} /\ Width(positions[e]) = Span(lz, positions[e])
        BY <1>0, <2>1, EventFits
      <4> QED BY <4>1, <4>2 DEF Events
    <3> QED BY <3>1, <3>2, <3>3
  <2>2. CASE ~split
    <3>1. literals = lz BY <2>2 DEF LiteralsOf
    <3> HIDE DEF literals
    <3>2. \A e \in 1 .. Len(positions) : positions[e] \in DOMAIN lz BY <1>0, <1>1, EventFits
    <3> QED BY <1>1, <3>1, <3>2 DEF ValuesOf
  <2> QED BY <2>1, <2>2
<1>4. /\ kept = Capped(literals, RANS_M - 1)
      /\ t = Table([n \in DOMAIN literals |-> IF literals[n] \in kept THEN literals[n] ELSE esc], 0 .. esc)
  BY DEF KeptOf, StaticCounted, SlotTable
<1> HIDE DEF literals, kept, t, esc
<1>5. /\ Received(t) = t /\ Cardinality(Active(t)) <= RANS_M
      /\ \A s \in ValuesOf(literals) : /\ t[s] > 0 <=> s \in kept
                                       /\ (IF t[s] > 0 THEN s ELSE esc) \in Active(t)
  BY <1>3, <1>4, LiteralTableFits DEF esc
<1>6. \A s : Static!HasSlot(s) <=> t[s] > 0 BY DEF Static!HasSlot, t
<1>7. \A s : Static!Coded(s) = IF t[s] > 0 THEN s ELSE esc
  BY <1>6, StaticIsCoder DEF Static!Coded, esc
<1>8. \A s \in ValuesOf(literals) : Accepted(Call(Static!Coded(s), t))
  BY <1>5, <1>7 DEF Accepted, Call
<1>9. ASSUME split
      PROVE  /\ Received(stats.role) = stats.role /\ Received(stats.hi) = stats.hi
             /\ Received(stats.lo) = stats.lo /\ Received(stats.len) = stats.len
             /\ \A e \in 1 .. Len(positions) :
                  /\ Accepted(Call(IF Span(lz, positions[e]) = 4 THEN 1 ELSE 0, stats.role))
                  /\ Span(lz, positions[e]) = 4 =>
                       /\ Accepted(Call(lz[positions[e] + 1], stats.hi))
                       /\ Accepted(Call(lz[positions[e] + 2], stats.lo))
                       /\ Accepted(Call(lz[positions[e] + 3], stats.len))
  <2> DEFINE m == MetaTables(lz, positions, Byte)
  <2>1. stats.role = m.role /\ stats.hi = m.hi /\ stats.lo = m.lo /\ stats.len = m.len
    BY <1>9 DEF StaticCounted
  <2> HIDE DEF m
  <2>2. /\ Received(m.role) = m.role /\ Received(m.hi) = m.hi
        /\ Received(m.lo) = m.lo /\ Received(m.len) = m.len
        /\ \A u \in {m.role, m.hi, m.lo, m.len} : Cardinality(Active(u)) <= RANS_M
        /\ \A e \in 1 .. Len(positions) : (IF Span(lz, positions[e]) = 4 THEN 1 ELSE 0) \in Active(m.role)
        /\ \A e \in Events(lz, positions, 4) :
             /\ lz[positions[e] + 1] \in Active(m.hi) /\ lz[positions[e] + 2] \in Active(m.lo)
             /\ lz[positions[e] + 3] \in Active(m.len)
    BY <1>1, <1>2, <1>9, MetaFits DEF m
  <2>3. \A e \in 1 .. Len(positions) : Span(lz, positions[e]) = 4 => e \in Events(lz, positions, 4)
    <3>1. DOMAIN positions = 1 .. Len(positions) BY <1>0 DEF Planned
    <3> QED BY <3>1 DEF Events
  <2> QED BY <2>1, <2>2, <2>3 DEF Accepted, Call
<1>10. \A f \in DOMAIN stats : Received(stats[f]) = stats[f]
  <2>1. DOMAIN stats = Fields BY DEF StaticCounted
  <2>2. Received(stats.literal) = stats.literal BY <1>5 DEF t
  <2>3. CASE split
    <3>1. \A f \in DOMAIN stats : f = "literal" \/ f = "role" \/ f = "hi" \/ f = "lo" \/ f = "len"
      BY <2>1, <2>3 DEF Fields
    <3> QED BY <3>1, <2>2, <2>3, <1>9
  <2>4. CASE ~split
    <3>1. \A f \in DOMAIN stats : f = "literal" BY <2>1, <2>4 DEF Fields
    <3> QED BY <3>1, <2>2
  <2> QED BY <2>3, <2>4
<1>11. ASSUME NEW e \in 1 .. Len(positions) PROVE AllAccepted(StaticCalls[e])
  <2> DEFINE p == positions[e]
  <2>1. Typed(StaticLits) BY <1>0, StaticLitsTyped
  <2>2. /\ Width(p) \in {1, 4} /\ (split => Width(p) = Span(lz, p)) /\ (Width(p) = 4 => split)
    BY <1>0, EventFits
  <2>3. Width(p) = 4 => /\ Accepted(Call(lz[p + 3], stats.len)) /\ Accepted(Call(lz[p + 2], stats.lo))
                        /\ Accepted(Call(lz[p + 1], stats.hi)) /\ Accepted(Call(1, stats.role))
    BY <2>2, <1>9
  <2>4. Width(p) # 4 => AllAccepted(StaticLits[e]) /\ (split => Accepted(Call(0, stats.role)))
    <3> SUFFICES ASSUME Width(p) # 4
                 PROVE  AllAccepted(StaticLits[e]) /\ (split => Accepted(Call(0, stats.role)))
      OBVIOUS
    <3>1. split => Accepted(Call(0, stats.role)) BY <2>2, <1>9
    <3>2. Accepted(Call(Static!Coded(lz[p]), t)) BY <1>3, <1>8
    <3> DEFINE c == Call(Static!Coded(lz[p]), t)
    <3>3. StaticLits[e] = <<c>> BY DEF StaticLits, t
    <3> HIDE DEF c
    <3>4. DOMAIN <<c>> = {1} /\ <<c>>[1] = c OBVIOUS
    <3>5. AllAccepted(<<c>>) BY <3>2, <3>4 DEF AllAccepted, c
    <3> QED BY <3>1, <3>3, <3>5
  <2> QED BY <1>0, <2>1, <2>3, <2>4, PartAccepted DEF StaticCalls
<1>12. ASSUME ~split PROVE Unslotted = {n \in DOMAIN lz : lz[n] \notin kept}
  <2>1. literals = lz BY <1>12 DEF literals, LiteralsOf
  <2>2. \A n \in DOMAIN lz : lz[n] \in ValuesOf(literals) BY <2>1 DEF ValuesOf
  <2> QED BY <2>2, <1>5, <1>6 DEF Unslotted
<1> QED BY <1>10, <1>11, <1>12 DEF kept

\* The state after the counting satisfies the invariant.
LEMMA StaticCountedInv == NormalizeKeeps /\ StaticCounted => StaticInv
<1> SUFFICES ASSUME NormalizeKeeps, StaticCounted PROVE StaticInv OBVIOUS
<1>0. Planned BY StaticPlanned
<1>1. /\ StaticTypes /\ phase = "encode" /\ stack = <<>> /\ out = <<>> /\ escape_pos = 0
      /\ at = Len(positions) /\ DOMAIN stats = Fields
      /\ positions = IF split THEN Positions(lz) ELSE [n \in DOMAIN lz |-> n]
      /\ escapes = IF split THEN <<>> ELSE Selected(lz, {n \in DOMAIN lz : lz[n] \notin KeptOf})
  BY DEF StaticCounted
<1>2. StaticPlan BY <1>0, <1>1, StaticTablesFit DEF StaticPlan
<1>3. StaticEncoding
  <2>1. Len(positions) \in Nat BY <1>0, EventFits
  <2>2. at \in 0 .. Len(positions) BY <1>1, <2>1
  <2>3. Stacked(<<>>, StaticCalls, Len(positions), 0)
    <3>1. PICK S : StaticCalls \in Seq(Seq(S)) /\ Len(StaticCalls) = Len(positions)
      BY <1>0, StaticLitsTyped, PartsTyped DEF StaticCalls
    <3> HIDE DEF StaticCalls
    <3> QED BY <3>1, NothingStacked
  <2>4. Stacked(<<>>, StaticEscapes, Len(positions), 0)
    <3>1. StaticEscapes \in Seq(Seq(0 .. MatchFlag)) /\ Len(StaticEscapes) = Len(positions)
      BY <1>0, StaticEscapesTyped
    <3> QED BY <3>1, NothingStacked
  <2>5. split => Stacked(escapes, StaticEscapes, at, 0) BY <2>4, <1>1
  <2>6. ~split => escapes = Selected(lz, Unslotted) BY <1>1, StaticTablesFit
  <2> QED BY <1>1, <2>2, <2>3, <2>5, <2>6 DEF StaticEncoding
<1> QED BY <1>1, <1>2, <1>3 DEF StaticInv, StaticCounting, StaticDecoding

-----------------------------------------------------------------------------
\* The static modes: the steps of the encoder and of the decoder.

\* The two ways of counting end in that state.
LEMMA StaticCounts ==
  StaticInv /\ (Static!CountSparse \/ Static!CountSplit) => StaticCounted'
<1> SUFFICES ASSUME StaticInv, Static!CountSparse \/ Static!CountSplit PROVE StaticCounted' OBVIOUS
<1>0. /\ phase = "count" /\ lz' = lz /\ split' = split /\ stack' = stack /\ stack' = <<>>
      /\ out' = <<>> /\ escape_pos' = 0 /\ phase' = "encode" /\ split \in BOOLEAN
      /\ escapes = <<>> /\ lz \in StaticInputs
  BY DEF StaticInv, StaticTypes, StaticCounting, Static!CountSparse, Static!CountSplit, Static!decoderVars
<1>1. lz \in Seq(0 .. MatchFlag) /\ DOMAIN lz = 1 .. Len(lz) /\ Len(lz) \in Nat BY StaticTyped DEF StaticInv
<1>2. CASE Static!CountSparse
  <2>1. /\ ~split /\ positions' = [n \in DOMAIN lz |-> n] /\ at' = Len(lz)
        /\ stats' = [literal |-> Static!LiteralTable(lz, Static!Kept(lz))]
        /\ escapes' = Static!Selected(lz, {n \in DOMAIN lz : lz[n] \notin Static!Kept(lz)})
    BY <1>2 DEF Static!CountSparse
  <2>2. Static!Kept(lz) = Capped(lz, RANS_M - 1) BY StaticIsCoder DEF Static!Kept
  <2>3. \A kept : Static!LiteralTable(lz, kept) = SlotTable(lz, kept)
    BY StaticIsCoder DEF Static!LiteralTable, SlotTable
  <2>4. KeptOf' = Capped(lz, RANS_M - 1) /\ LiteralsOf' = lz
    BY <1>0, <2>1 DEF KeptOf, LiteralsOf
  <2>5. Len(positions') = Len(lz) BY <1>1, <2>1
  <2>6. stats.literal' = SlotTable(LiteralsOf, KeptOf)' /\ DOMAIN stats' = {"literal"}
    <3>1. SlotTable(LiteralsOf, KeptOf)' = SlotTable(LiteralsOf', KeptOf') BY DEF SlotTable
    <3> QED BY <3>1, <2>1, <2>2, <2>3, <2>4
  <2>7. Fields' = {"literal"} BY <1>0, <2>1 DEF Fields
  <2>8. escapes' = Selected(lz', {n \in DOMAIN lz' : lz'[n] \notin KeptOf'})
    BY <1>0, <2>1, <2>2, <2>4, StaticIsCoder
  <2>9. StaticTypes'
    <3>1. {n \in DOMAIN lz : lz[n] \notin KeptOf'} \in SUBSET (1 .. Len(lz)) BY <1>1
    <3>2. escapes' \in Seq(0 .. MatchFlag) BY <1>0, <1>1, <2>8, <3>1, SelectedEntries
    <3> QED BY <1>0, <3>2 DEF StaticTypes
  <2> QED BY <1>0, <2>1, <2>5, <2>6, <2>7, <2>8, <2>9 DEF StaticCounted
<1>3. CASE Static!CountSplit
  <2> DEFINE ps == Positions(lz)
             m == MetaTables(lz, ps, Byte)
             lits == Literals(lz, ps)
             kept == Capped(lits, RANS_M - 1)
  <2>1. /\ split /\ positions' = ps /\ at' = Len(positions') /\ escapes' = <<>>
        /\ stats' = [literal |-> SlotTable(lits, kept), role |-> m.role, hi |-> m.hi, lo |-> m.lo, len |-> m.len]
    <3>1. /\ split /\ positions' = Static!Positions(lz) /\ at' = Len(positions') /\ escapes' = escapes
          /\ stats' = [literal |-> Static!LiteralTable(Static!Literals(lz, positions'), Static!Kept(Static!Literals(lz, positions'))),
                       role |-> Static!MetaTables(lz, positions', Byte).role,
                       hi |-> Static!MetaTables(lz, positions', Byte).hi,
                       lo |-> Static!MetaTables(lz, positions', Byte).lo,
                       len |-> Static!MetaTables(lz, positions', Byte).len]
      BY <1>3 DEF Static!CountSplit
    <3>2. positions' = ps BY <3>1, StaticIsCoder
    <3>3. Static!Literals(lz, positions') = lits /\ Static!MetaTables(lz, positions', Byte) = m
      BY <3>2, StaticIsCoder
    <3>4. Static!Kept(lits) = kept BY StaticIsCoder DEF Static!Kept
    <3>5. Static!LiteralTable(lits, kept) = SlotTable(lits, kept)
      BY StaticIsCoder DEF Static!LiteralTable, SlotTable
    <3> QED BY <1>0, <3>1, <3>2, <3>3, <3>4, <3>5
  <2> HIDE DEF ps, m, lits, kept
  <2>2. LiteralsOf' = lits /\ KeptOf' = kept
    BY <1>0, <2>1 DEF LiteralsOf, KeptOf, lits, kept
  <2>3. /\ stats.literal' = SlotTable(LiteralsOf, KeptOf)'
        /\ DOMAIN stats' = {"literal", "role", "hi", "lo", "len"}
    <3>1. SlotTable(LiteralsOf, KeptOf)' = SlotTable(LiteralsOf', KeptOf') BY DEF SlotTable
    <3> QED BY <3>1, <2>1, <2>2
  <2>4. Fields' = {"literal", "role", "hi", "lo", "len"} BY <1>0, <2>1 DEF Fields
  <2>5. MetaTables(lz, positions, Byte)' = m
    <3>1. MetaTables(lz, positions, Byte)' = MetaTables(lz', positions', Byte)
      BY DEF MetaTables, Table, Tally, CountOf, Roles, Field, Values, Events, Selected, Ascending, Span
    <3> QED BY <3>1, <1>0, <2>1 DEF m
  <2>6. StaticTypes' BY <1>0, <2>1 DEF StaticTypes
  <2>7. positions' = Positions(lz') BY <1>0, <2>1 DEF ps
  <2> QED BY <1>0, <2>1, <2>3, <2>4, <2>5, <2>6, <2>7 DEF StaticCounted
<1> QED BY <1>2, <1>3

\* Counting keeps the invariant.
LEMMA StaticCountsInv ==
  NormalizeKeeps /\ StaticInv /\ (Static!CountSparse \/ Static!CountSplit) => StaticInv'
<1>1. (NormalizeKeeps /\ StaticCounted => StaticInv)' BY StaticCountedInv, PTL
<1>2. NormalizeKeeps => NormalizeKeeps'
  BY DEF NormalizeKeeps, Normalizes, Active
<1> QED BY <1>1, <1>2, StaticCounts

\* The encoder puts the calls of event `at` on the stack.
LEMMA StaticPushes ==
  ASSUME StaticInv, phase = "encode", at > 0,
         stack' = stack \o StaticCalls[at],
         split => escapes' = escapes \o StaticEscapes[at], ~split => escapes' = escapes,
         at' = at - 1,
         UNCHANGED <<lz, split, phase, positions, stats, out, escape_pos>>
  PROVE  StaticInv'
<1>0. /\ Planned /\ Len(positions) \in Nat /\ at \in 1 .. Len(positions) /\ split \in BOOLEAN
      /\ Stacked(stack, StaticCalls, at, 0) /\ (split => Stacked(escapes, StaticEscapes, at, 0))
      /\ escapes \in Seq(0 .. MatchFlag)
  BY EventFits DEF StaticInv, StaticTypes, StaticPlan, StaticEncoding
<1>1. /\ StaticCalls' = StaticCalls /\ StaticEscapes' = StaticEscapes /\ Fields' = Fields /\ Planned' = Planned
      /\ \A s : Static!HasSlot(s)' = Static!HasSlot(s)
  BY StaticFixed DEF Static!HasSlot
<1>2. Len(StaticCalls) = Len(positions) BY <1>0, StaticLitsTyped, PartsTyped DEF StaticCalls
<1>3. Len(StaticEscapes) = Len(positions) /\ StaticEscapes \in Seq(Seq(0 .. MatchFlag))
  BY <1>0, StaticEscapesTyped
<1>4. Stacked(stack', StaticCalls, at - 1, 0) BY <1>0, <1>2, PushPart
<1>5. split => Stacked(escapes', StaticEscapes, at - 1, 0) BY <1>0, <1>3, PushPart
<1>7. escapes' \in Seq(0 .. MatchFlag)
  <2>1. StaticEscapes[at] \in Seq(0 .. MatchFlag) BY <1>0, <1>3
  <2>2. CASE split
    <3>1. escapes' = escapes \o StaticEscapes[at] BY <2>2
    <3> QED BY <3>1, <2>1, <1>0, ConcatProperties
  <2>3. CASE ~split BY <2>3, <1>0
  <2> QED BY <2>2, <2>3
<1>8. StaticTypes' BY <1>7 DEF StaticInv, StaticTypes
<1>9. StaticPlan' BY <1>0, <1>1 DEF StaticInv, StaticPlan, Received
<1>10. StaticEncoding'
  <2>1. at' \in 0 .. Len(positions') BY <1>0
  <2>2. Unslotted' = Unslotted BY <1>1 DEF Unslotted
  <2>3. ~split => escapes = Selected(lz, Unslotted) BY DEF StaticInv, StaticEncoding
  <2>4. (~split => escapes = Selected(lz, Unslotted))'
    BY <2>2, <2>3 DEF Selected, Ascending
  <2>5. (out = <<>> /\ escape_pos = 0)' BY DEF StaticInv, StaticEncoding
  <2> QED BY <2>1, <2>4, <2>5, <1>1, <1>4, <1>5 DEF StaticEncoding
<1> QED BY <1>0, <1>8, <1>9, <1>10 DEF StaticInv, StaticCounting, StaticDecoding

\* A turn of the encoder keeps the invariant.
LEMMA StaticEncodes ==
  StaticInv /\ (Static!EncodeMatch \/ Static!EncodeLiteral) => StaticInv'
<1> SUFFICES ASSUME StaticInv, Static!EncodeMatch \/ Static!EncodeLiteral PROVE StaticInv' OBVIOUS
<1>0. /\ phase = "encode" /\ at > 0 /\ at' = at - 1
      /\ UNCHANGED <<lz, split, phase, positions, stats, out, escape_pos>>
  BY DEF Static!EncodeMatch, Static!EncodeLiteral, Static!decoderVars
<1>1. /\ Planned /\ Len(positions) \in Nat /\ at \in 1 .. Len(positions) /\ split \in BOOLEAN
      /\ escapes \in Seq(0 .. MatchFlag)
      /\ \E S : stack \in Seq(S)
  BY <1>0, EventFits DEF StaticInv, StaticTypes, StaticPlan, StaticEncoding, Stacked
<1> DEFINE p == positions[at]
<1>2. /\ Width(p) \in {1, 4} /\ (split => Width(p) = Span(lz, p)) /\ (Width(p) = 4 => split)
  BY <1>1, EventFits
<1>3. /\ StaticCalls[at] = Part(at, StaticLits[at], stats)
      /\ StaticLits[at] = <<Call(Static!Coded(lz[p]), stats.literal)>>
      /\ StaticEscapes[at] = IF StaticEscaped(at) THEN <<lz[p]>> ELSE <<>>
  BY <1>1 DEF StaticCalls, Parts, StaticLits, StaticEscapes
<1>4. CASE Static!EncodeMatch
  <2>1. split /\ Width(p) = 4 /\ stack' = stack \o MatchCalls(lz, p, stats) /\ escapes' = escapes
    BY <1>2, <1>4, StaticIsCoder DEF Static!EncodeMatch
  <2>2. StaticCalls[at] = MatchCalls(lz, p, stats) BY <1>3, <2>1 DEF Part
  <2>3. StaticEscapes[at] = <<>> BY <1>3, <2>1 DEF StaticEscaped
  <2>4. escapes \o <<>> = escapes BY <1>1
  <2> QED BY <1>0, <2>1, <2>2, <2>3, <2>4, StaticPushes
<1>5. CASE Static!EncodeLiteral
  <2> DEFINE c == Call(Static!Coded(lz[p]), stats.literal)
             d == Call(0, stats.role)
  <2>1. Width(p) = 1
    <3>1. split => Span(lz, p) = 1 BY <1>5, StaticIsCoder DEF Static!EncodeLiteral
    <3> QED BY <3>1, <1>2
  <2>2. /\ stack' = (stack \o <<c>>) \o (IF split THEN <<d>> ELSE <<>>)
        /\ escapes' = IF split /\ ~Static!HasSlot(lz[p]) THEN Append(escapes, lz[p]) ELSE escapes
    BY <1>5, StaticIsCoder DEF Static!EncodeLiteral
  <2>3. StaticCalls[at] = <<c>> \o (IF split THEN <<d>> ELSE <<>>)
    BY <1>3, <2>1 DEF Part, Role
  <2> HIDE DEF c, d
  <2>4. stack' = stack \o StaticCalls[at]
    <3>1. PICK S : stack \in Seq(S) BY <1>1
    <3> DEFINE T == S \cup {c, d}
               tail == IF split THEN <<d>> ELSE <<>>
    <3>0. c \in T /\ d \in T /\ S \in SUBSET T OBVIOUS
    <3>2. stack \in Seq(T) /\ <<c>> \in Seq(T) /\ tail \in Seq(T)
      <4> HIDE DEF T
      <4>1. stack \in Seq(T) BY <3>0, <3>1
      <4>2. <<c>> \in Seq(T) /\ <<d>> \in Seq(T) /\ <<>> \in Seq(T) BY <3>0
      <4> QED BY <4>1, <4>2
    <3>3. stack' = (stack \o <<c>>) \o tail /\ StaticCalls[at] = <<c>> \o tail BY <2>2, <2>3
    <3> HIDE DEF T, tail
    <3> QED BY <3>2, <3>3, ConcatAssociative
  <2>5. split => escapes' = escapes \o StaticEscapes[at]
    <3> SUFFICES ASSUME split PROVE escapes' = escapes \o StaticEscapes[at] OBVIOUS
    <3>0. p \in 1 .. Len(lz) /\ lz[p] \in 0 .. MatchFlag
      <4>1. p \in 1 .. Len(lz) BY <1>1, EventFits
      <4> QED BY <4>1, <1>1, ElementOfSeq DEF Planned
    <3>1. CASE Static!HasSlot(lz[p])
      <4>1. StaticEscapes[at] = <<>> /\ escapes' = escapes BY <3>1, <1>3, <2>2 DEF StaticEscaped
      <4>2. escapes \o <<>> = escapes BY <1>1
      <4> QED BY <4>1, <4>2
    <3>2. CASE ~Static!HasSlot(lz[p])
      <4>1. StaticEscapes[at] = <<lz[p]>> /\ escapes' = Append(escapes, lz[p])
        BY <3>2, <1>3, <2>1, <2>2 DEF StaticEscaped
      <4> DEFINE s == lz[p]
      <4>2. s \in 0 .. MatchFlag BY <3>0
      <4> HIDE DEF s
      <4>3. Append(escapes, s) = escapes \o <<s>> BY <1>1, <4>2, AppendIsConcat
      <4> QED BY <4>1, <4>3 DEF s
    <3> QED BY <3>1, <3>2
  <2>6. ~split => escapes' = escapes BY <2>2
  <2> QED BY <1>0, <2>4, <2>5, <2>6, StaticPushes
<1> QED BY <1>4, <1>5

\* Writing the stream keeps the invariant: the escapes are now in the order
\* of the events.
LEMMA StaticWrites == StaticInv /\ Static!WriteStream => StaticInv'
<1> SUFFICES ASSUME StaticInv, Static!WriteStream PROVE StaticInv' OBVIOUS
<1> DEFINE w == IF split THEN Reversed(escapes) ELSE escapes
<1>0. /\ phase = "encode" /\ at = 0 /\ phase' = "decode"
      /\ stream' = [f \in DOMAIN stats \cup {"escapes"} |->
                       IF f = "escapes" THEN w ELSE Received(stats[f])]
      /\ left' = (IF split THEN Len(positions) ELSE Len(lz)) /\ step' = FirstStep
      /\ UNCHANGED <<lz, split, positions, stats, at, stack, escapes, escape_pos, out>>
  BY StaticIsCoder
     DEF Static!WriteStream, Static!WrittenEscapes, Static!Turns, Static!Reversed, Reversed, FirstStep
<1>1. /\ Planned /\ Len(positions) \in Nat /\ split \in BOOLEAN /\ escapes \in Seq(0 .. MatchFlag)
      /\ lz \in Seq(0 .. MatchFlag) /\ Len(lz) \in Nat /\ DOMAIN lz = 1 .. Len(lz)
      /\ Stacked(stack, StaticCalls, 0, 0) /\ (split => Stacked(escapes, StaticEscapes, 0, 0))
      /\ (~split => escapes = Selected(lz, Unslotted) /\ positions = [n \in DOMAIN lz |-> n])
      /\ out = <<>> /\ escape_pos = 0 /\ DOMAIN stats = Fields
      /\ \A f \in Fields : Received(stats[f]) = stats[f]
  BY <1>0, EventFits, StaticTyped DEF StaticInv, StaticTypes, StaticPlan, StaticEncoding
<1>2. /\ StaticCalls' = StaticCalls /\ StaticEscapes' = StaticEscapes /\ Fields' = Fields /\ Planned' = Planned
      /\ \A stk, st, lf, o, parts, more :
              At(stk, st, lf, o, parts, more)' <=> At(stk, st, lf, o, parts, more)
      /\ \A lf : Done(lf)' = Done(lf)
  BY <1>0, StaticFixed
<1>3. w \in Seq(0 .. MatchFlag) /\ Len(w) \in Nat /\ Reversed(w) \in Seq(0 .. MatchFlag)
      /\ Len(Reversed(w)) = Len(w)
  <2>1. w \in Seq(0 .. MatchFlag) BY <1>1, ReversedTwice
  <2> HIDE DEF w
  <2> QED BY <2>1, ReversedTwice
<1>4. Stacked(Reversed(w), StaticEscapes, 0, 0)
  <2>1. CASE split
    <3>1. Reversed(w) = escapes BY <2>1, <1>1, ReversedTwice
    <3> QED BY <3>1, <2>1, <1>1
  <2>2. CASE ~split
    <3>1. Unslotted \in SUBSET (1 .. Len(lz)) BY <1>1 DEF Unslotted
    <3>2. Len(positions) = Len(lz) /\ \A i \in 1 .. Len(lz) : positions[i] = i BY <1>1, <2>2
    <3>3. StaticEscapes \in Seq(Seq(0 .. MatchFlag)) /\ Len(StaticEscapes) = Len(lz)
      BY <1>1, <3>2, StaticEscapesTyped
    <3>4. \A i \in 1 .. Len(lz) : StaticEscapes[i] = IF i \in Unslotted THEN <<lz[i]>> ELSE <<>>
      <4> TAKE i \in 1 .. Len(lz)
      <4>1. StaticEscapes[i] = IF StaticEscaped(i) THEN <<lz[i]>> ELSE <<>>
        BY <3>2 DEF StaticEscapes
      <4>2. StaticEscaped(i) <=> i \in Unslotted BY <1>1, <2>2, <3>2 DEF StaticEscaped, Unslotted, Width
      <4> QED BY <4>1, <4>2
    <3>5. Stacked(Reversed(Selected(lz, Unslotted)), StaticEscapes, 0, 0)
      BY <1>1, <3>1, <3>3, <3>4, SelectedStacked
    <3>6. w = Selected(lz, Unslotted) BY <1>1, <2>2
    <3> QED BY <3>5, <3>6
  <2> QED BY <2>1, <2>2
<1> HIDE DEF w
<1>5. stream'.escapes = w /\ \A f \in Fields : stream'[f] = stats[f]
  <2>1. "escapes" \notin Fields BY DEF Fields
  <2> QED BY <2>1, <1>0, <1>1
<1>6. StaticUnread' = Reversed(w)
  <2>1. Reversed(stream.escapes)' = Reversed(w) BY <1>5 DEF Reversed
  <2>2. StaticUnread' = SubSeq(Reversed(w), 1, Len(w) - 0) BY <2>1, <1>0, <1>1, <1>5 DEF StaticUnread
  <2>3. Len(w) - 0 = Len(Reversed(w)) BY <1>3
  <2> QED BY <2>2, <2>3, <1>3, SubSeqFull
<1>7. left' = Len(positions)
  <2>1. CASE split BY <2>1, <1>0
  <2>2. CASE ~split
    <3>1. Len(positions) = Len(lz) BY <1>1, <2>2
    <3> QED BY <3>1, <2>2, <1>0
  <2> QED BY <2>1, <2>2
<1>8. At(stack, FirstStep, Len(positions), <<>>, StaticCalls, 0)
  BY <1>1, StaticLitsTyped, Starts DEF StaticCalls
<1>9. Done(Len(positions)) = 0 BY <1>1 DEF Done
<1>10. StaticDecoding'
  <2>1. (stream.escapes \in Seq(0 .. MatchFlag) /\ escape_pos \in 0 .. Len(stream.escapes))'
    BY <1>0, <1>1, <1>3, <1>5
  <2>2. (\A f \in Fields : stream[f] = stats[f])' BY <1>0, <1>2, <1>5
  <2>3. step' \in {"event", "hi", "lo", "len", "literal"} BY <1>0 DEF FirstStep
  <2>4. At(stack, step, left, out, StaticCalls, 0)'
    <3>1. At(stack', step', left', out', StaticCalls', 0) BY <1>0, <1>1, <1>2, <1>7, <1>8
    <3> QED BY <3>1, <1>2
  <2>5. Stacked(StaticUnread, StaticEscapes, Done(left), 0)'
    <3>1. Done(left)' = 0 BY <1>2, <1>7, <1>9
    <3> QED BY <3>1, <1>2, <1>4, <1>6
  <2> QED BY <2>1, <2>2, <2>3, <2>4, <2>5 DEF StaticDecoding
<1>11. StaticTypes' BY <1>0 DEF StaticInv, StaticTypes
<1>12. StaticPlan' BY <1>0, <1>1, <1>2 DEF StaticInv, StaticPlan, Received
<1> QED BY <1>0, <1>10, <1>11, <1>12 DEF StaticInv, StaticCounting, StaticEncoding

\* What is left of a list of which n are taken, its end first.
Unread(list, n) == SubSeq(Reversed(list), 1, Len(list) - n)

\* The next token of an escape list is the top of what is unread.
LEMMA NextUnread ==
  ASSUME NEW S, NEW list \in Seq(S), NEW n \in 0 .. Len(list), Unread(list, n) # <<>>
  PROVE  /\ n < Len(list) /\ n + 1 \in 0 .. Len(list) /\ n + 1 \in 1 .. Len(list)
         /\ Unread(list, n)[Len(Unread(list, n))] = list[n + 1]
         /\ SubSeq(Unread(list, n), 1, Len(Unread(list, n)) - 1) = Unread(list, n + 1)
<1> DEFINE r == Reversed(list)
           l == Len(list)
<1>1. /\ l \in Nat /\ r \in Seq(S) /\ Len(r) = l
      /\ \A i \in 1 .. l : r[i] = list[(l - i) + 1]
  BY ReversedTwice
<1> HIDE DEF r
<1>2. l - n \in 0 .. Len(r) /\ n \in Nat BY <1>1
<1>3. /\ Unread(list, n) = SubSeq(r, 1, l - n) /\ SubSeq(r, 1, l - n) \in Seq(S)
      /\ Len(SubSeq(r, 1, l - n)) = l - n
      /\ \A p \in 1 .. (l - n) : SubSeq(r, 1, l - n)[p] = r[p]
  BY <1>2, <1>1, PrefixEntries DEF Unread, r
<1> DEFINE u == SubSeq(r, 1, l - n)
<1> HIDE DEF u, l
<1>4. l - n # 0
  <2>1. u \in Seq(S) /\ u # <<>> BY <1>3 DEF u
  <2>2. Len(u) # 0 BY <2>1
  <2> QED BY <2>2, <1>3 DEF u
<1>5. /\ n < l /\ n + 1 \in 0 .. l /\ n + 1 \in 1 .. l /\ l - n \in 1 .. l
      /\ (l - (l - n)) + 1 = n + 1 /\ (l - n) - 1 = l - (n + 1) /\ l - (n + 1) \in 0 .. Len(r)
      /\ l - n \in 1 .. (l - n) /\ (l - n) - 1 \in 0 .. (l - n)
  BY <1>1, <1>2, <1>4
<1>6. u[Len(u)] = list[n + 1]
  <2>1. Len(u) = l - n /\ u[l - n] = r[l - n] BY <1>3, <1>5 DEF u
  <2>2. r[l - n] = list[(l - (l - n)) + 1] BY <1>1, <1>5 DEF l
  <2> QED BY <2>1, <2>2, <1>5
<1>7. SubSeq(u, 1, Len(u) - 1) = Unread(list, n + 1)
  <2> DEFINE m == l - (n + 1)
             v == SubSeq(r, 1, m)
             x == SubSeq(u, 1, m)
  <2>1. m \in 0 .. Len(r) /\ m \in 0 .. Len(u) /\ m \in Nat /\ \A p \in 1 .. m : p \in 1 .. (l - n)
    BY <1>1, <1>3, <1>5 DEF u
  <2>2. v \in Seq(S) /\ Len(v) = m /\ \A p \in 1 .. m : v[p] = r[p]
    BY <2>1, <1>1, PrefixEntries
  <2>3. x \in Seq(S) /\ Len(x) = m /\ \A p \in 1 .. m : x[p] = u[p]
    <3>1. u \in Seq(S) BY <1>3 DEF u
    <3> QED BY <3>1, <2>1, PrefixEntries
  <2>4. x = v
    <3> HIDE DEF x, v, m
    <3>1. \A p \in 1 .. m : x[p] = v[p] BY <2>1, <2>2, <2>3, <1>3 DEF u
    <3> QED BY <3>1, <2>2, <2>3, SeqEqual
  <2>5. Len(u) - 1 = m BY <1>3, <1>5 DEF u
  <2>6. Unread(list, n + 1) = v BY DEF Unread, r, l
  <2> QED BY <2>4, <2>5, <2>6
<1> QED BY <1>3, <1>5, <1>6, <1>7 DEF u, l

\* Nothing is unread at the end of the list.
LEMMA AllRead ==
  ASSUME NEW S, NEW list \in Seq(S), NEW n \in 0 .. Len(list), Unread(list, n) = <<>>
  PROVE  n = Len(list)
<1> DEFINE r == Reversed(list)
           m == Len(list) - n
<1>1. r \in Seq(S) /\ Len(r) = Len(list) /\ Len(list) \in Nat BY ReversedTwice
<1>2. m \in 0 .. Len(r) BY <1>1
<1>3. Len(SubSeq(r, 1, m)) = m
  <2> HIDE DEF r, m
  <2> QED BY <1>1, <1>2, PrefixEntries
<1>4. SubSeq(r, 1, m) = <<>> BY DEF Unread
<1> HIDE DEF r
<1>5. m = 0 BY <1>3, <1>4
<1> QED BY <1>1, <1>5

\* The event the decoder has finished adds nothing to the escape list, or the
\* token the decoder takes from it.
LEMMA NextEscape ==
  ASSUME NEW S, NEW list \in Seq(S), NEW n \in 0 .. Len(list), NEW parts, NEW e \in Nat,
         e < Len(parts), Stacked(Unread(list, n), parts, e, 0)
  PROVE  /\ parts[e + 1] = <<>> => Stacked(Unread(list, n), parts, e + 1, 0)
         /\ \A s : parts[e + 1] = <<s>> =>
              /\ n < Len(list) /\ n + 1 \in 0 .. Len(list) /\ list[n + 1] = s
              /\ Stacked(Unread(list, n + 1), parts, e + 1, 0)
<1>1. ASSUME parts[e + 1] = <<>> PROVE Stacked(Unread(list, n), parts, e + 1, 0)
  <2>1. Len(parts[e + 1]) = 0 BY <1>1
  <2> QED BY <2>1, PassPart
<1>2. ASSUME NEW s, parts[e + 1] = <<s>>
      PROVE  /\ n < Len(list) /\ n + 1 \in 0 .. Len(list) /\ list[n + 1] = s
             /\ Stacked(Unread(list, n + 1), parts, e + 1, 0)
  <2> DEFINE u == Unread(list, n)
  <2>1. /\ Len(parts[e + 1]) = 1 /\ 0 \in Nat /\ 0 < Len(parts[e + 1]) /\ 0 + 1 = Len(parts[e + 1])
        /\ parts[e + 1][Len(parts[e + 1]) - 0] = s
    BY <1>2
  <2>2. Stacked(u, parts, e, 0) OBVIOUS
  <2> HIDE DEF u
  <2>3. u # <<>> /\ u[Len(u)] = s /\ Stacked(SubSeq(u, 1, Len(u) - 1), parts, e + 1, 0)
    BY <2>1, <2>2, PopEntry
  <2> QED BY <2>3, NextUnread DEF u
<1> QED BY <1>1, <1>2

\* A call of the decoder keeps the invariant if it leads from event to event.
LEMMA StaticReads ==
  ASSUME StaticInv, phase = "decode", phase' = "decode", stack # <<>>, stack' = Below(stack),
         UNCHANGED <<lz, split, positions, stats, at, escapes, stream>>,
         step' \in {"event", "hi", "lo", "len", "literal"},
         At(stack', step', left', out', StaticCalls, 0),
         escape_pos' \in 0 .. Len(stream.escapes),
         Stacked(Unread(stream.escapes, escape_pos'), StaticEscapes, Done(left'), 0)
  PROVE  StaticInv'
<1>1. /\ StaticCalls' = StaticCalls /\ StaticEscapes' = StaticEscapes /\ Fields' = Fields /\ Planned' = Planned
      /\ \A stk, st, lf, o, parts, more :
              At(stk, st, lf, o, parts, more)' <=> At(stk, st, lf, o, parts, more)
      /\ \A lf : Done(lf)' = Done(lf)
  BY StaticFixed
<1>2. StaticTypes' BY DEF StaticInv, StaticTypes
<1>3. StaticPlan' BY <1>1 DEF StaticInv, StaticPlan, Received
<1>4. StaticDecoding'
  <2>1. (At(stack, step, left, out, StaticCalls, 0))'
    <3>1. At(stack', step', left', out', StaticCalls', 0) BY <1>1
    <3> QED BY <3>1, <1>1
  <2>2. Stacked(StaticUnread, StaticEscapes, Done(left), 0)'
    <3>1. StaticUnread' = Unread(stream.escapes, escape_pos') BY DEF StaticUnread, Unread, Reversed
    <3>2. Done(left)' = Done(left') BY DEF Done
    <3> QED BY <3>1, <3>2, <1>1
  <2>3. (\A f \in Fields : stream[f] = stats[f])' BY <1>1 DEF StaticInv, StaticDecoding
  <2>4. (stream.escapes \in Seq(0 .. MatchFlag))' BY DEF StaticInv, StaticDecoding
  <2> QED BY <2>1, <2>2, <2>3, <2>4 DEF StaticDecoding
<1> QED BY <1>2, <1>3, <1>4 DEF StaticInv, StaticCounting, StaticEncoding

\* The role of an event.
LEMMA StaticReadsRole == StaticInv /\ Static!DecodeRole => StaticInv'
<1> SUFFICES ASSUME StaticInv, Static!DecodeRole PROVE StaticInv' OBVIOUS
<1>0. /\ phase = "decode" /\ phase' = "decode" /\ left > 0 /\ step = "event" /\ stack' = Below(stack)
      /\ UNCHANGED <<lz, split, positions, stats, at, escapes, stream, left, escape_pos>>
      /\ \E role \in Popped(stack, stream.role) :
           /\ step' = (IF role = 0 THEN "literal" ELSE "hi")
           /\ out' = IF role = 0 THEN out ELSE Append(out, MatchFlag)
  BY StaticIsCoder DEF Static!DecodeRole, Static!encoderVars
<1>1. /\ Planned /\ At(stack, "event", left, out, StaticCalls, 0) /\ split
      /\ stream.role = stats.role /\ escape_pos \in 0 .. Len(stream.escapes)
      /\ Stacked(Unread(stream.escapes, escape_pos), StaticEscapes, Done(left), 0)
  <2>1. /\ Planned /\ At(stack, "event", left, out, StaticCalls, 0)
        /\ \A f \in Fields : stream[f] = stats[f]
        /\ escape_pos \in 0 .. Len(stream.escapes)
        /\ Stacked(Unread(stream.escapes, escape_pos), StaticEscapes, Done(left), 0)
    BY <1>0 DEF StaticInv, StaticPlan, StaticDecoding, StaticUnread, Unread
  <2>2. split BY <2>1 DEF At, LiteralSteps
  <2> QED BY <2>1, <2>2 DEF Fields
<1>2. /\ stack # <<>>
      /\ \A r \in Popped(stack, stats.role) :
              /\ r \in {0, 1}
              /\ r = 1 => At(Below(stack), "hi", left, Append(out, MatchFlag), StaticCalls, 0)
              /\ r = 0 => At(Below(stack), "literal", left, out, StaticCalls, 0)
  BY <1>0, <1>1, StaticLitsTyped, ReadsRole DEF StaticCalls
<1>3. PICK r \in Popped(stack, stats.role) :
         /\ step' = (IF r = 0 THEN "literal" ELSE "hi")
         /\ out' = IF r = 0 THEN out ELSE Append(out, MatchFlag)
  BY <1>0, <1>1
<1>4. CASE r = 0
  <2>1. step' = "literal" /\ out' = out BY <1>3, <1>4
  <2>2. At(stack', step', left', out', StaticCalls, 0) BY <1>0, <1>2, <1>4, <2>1
  <2> QED BY <2>1, <2>2, <1>0, <1>1, <1>2, StaticReads
<1>5. CASE r = 1
  <2>1. step' = "hi" /\ out' = Append(out, MatchFlag) BY <1>3, <1>5
  <2>2. At(stack', step', left', out', StaticCalls, 0) BY <1>0, <1>2, <1>5, <2>1
  <2> QED BY <2>1, <2>2, <1>0, <1>1, <1>2, StaticReads
<1> QED BY <1>2, <1>4, <1>5

\* A field of a match.
LEMMA StaticReadsMeta ==
  StaticInv /\ (Static!DecodeHi \/ Static!DecodeLo \/ Static!DecodeLen) => StaticInv'
<1> SUFFICES ASSUME StaticInv, Static!DecodeHi \/ Static!DecodeLo \/ Static!DecodeLen PROVE StaticInv' OBVIOUS
<1>0. /\ phase = "decode" /\ phase' = "decode" /\ left > 0 /\ step \in {"hi", "lo", "len"}
      /\ stack' = Below(stack) /\ step' = NextStep(step)
      /\ left' = (IF step = "len" THEN left - 1 ELSE left)
      /\ UNCHANGED <<lz, split, positions, stats, at, escapes, stream, escape_pos>>
      /\ \E v \in Popped(stack, Meta(stream, step)) : out' = Append(out, v)
  BY StaticIsCoder DEF Static!DecodeHi, Static!DecodeLo, Static!DecodeLen, Static!DecodeMeta,
                       Static!encoderVars, NextStep, Meta
<1>1. /\ Planned /\ At(stack, step, left, out, StaticCalls, 0)
      /\ \A f \in Fields : stream[f] = stats[f]
      /\ stream.escapes \in Seq(0 .. MatchFlag) /\ escape_pos \in 0 .. Len(stream.escapes)
      /\ Stacked(Unread(stream.escapes, escape_pos), StaticEscapes, Done(left), 0)
  BY <1>0 DEF StaticInv, StaticPlan, StaticDecoding, StaticUnread, Unread
<1>2. /\ Done(left) \in Nat /\ Done(left) < Len(positions) /\ Done(left) + 1 \in 1 .. Len(positions)
      /\ Done(left - 1) = Done(left) + 1
  BY <1>0, <1>1, AtEvent
<1>3. Width(positions[Done(left) + 1]) = 4 /\ split
  <2>1. Width(positions[Done(left) + 1]) = 4 BY <1>0, <1>1 DEF At, LiteralSteps
  <2> QED BY <2>1, <1>1, <1>2, EventFits
<1>4. Meta(stream, step) = Meta(stats, step) BY <1>1, <1>3 DEF Meta, Fields
<1>5. /\ stack # <<>>
      /\ \A v \in Popped(stack, Meta(stats, step)) :
           At(Below(stack), NextStep(step), IF step = "len" THEN left - 1 ELSE left, Append(out, v), StaticCalls, 0)
  BY <1>0, <1>1, StaticLitsTyped, ReadsMeta DEF StaticCalls
<1>6. At(stack', step', left', out', StaticCalls, 0) BY <1>0, <1>4, <1>5
<1>7. Stacked(Unread(stream.escapes, escape_pos'), StaticEscapes, Done(left'), 0)
  <2>1. StaticEscapes[Done(left) + 1] = <<>> BY <1>2, <1>3 DEF StaticEscapes, StaticEscaped
  <2>2. Len(StaticEscapes) = Len(positions) BY <1>1, StaticEscapesTyped
  <2>3. Stacked(Unread(stream.escapes, escape_pos), StaticEscapes, Done(left) + 1, 0)
    BY <2>1, <2>2, <1>1, <1>2, NextEscape
  <2> QED BY <2>3, <1>0, <1>1, <1>2
<1>8. step' \in {"event", "hi", "lo", "len", "literal"} BY <1>0 DEF NextStep
<1>9. escape_pos' \in 0 .. Len(stream.escapes) BY <1>0, <1>1
<1> QED BY <1>0, <1>5, <1>6, <1>7, <1>8, <1>9, StaticReads

\* A literal, from its table or from the escape list.
LEMMA StaticReadsLiteral == StaticInv /\ Static!DecodeLiteral => StaticInv'
<1> SUFFICES ASSUME StaticInv, Static!DecodeLiteral PROVE StaticInv' OBVIOUS
<1> DEFINE e == Done(left)
           s0 == lz[positions[e + 1]]
           c == Call(Static!Coded(s0), stats.literal)
           list == stream.escapes
<1>0. /\ phase = "decode" /\ phase' = "decode" /\ left > 0 /\ step = "literal"
      /\ stack' = Below(stack) /\ step' = FirstStep /\ left' = left - 1
      /\ UNCHANGED <<lz, split, positions, stats, at, escapes, stream>>
      /\ \E s \in Popped(stack, stream.literal) :
           \/ s # MatchFlag + 1 /\ out' = Append(out, s) /\ escape_pos' = escape_pos
           \/ /\ s = MatchFlag + 1 /\ escape_pos < Len(list)
              /\ out' = Append(out, list[escape_pos + 1]) /\ escape_pos' = escape_pos + 1
  BY StaticIsCoder DEF Static!DecodeLiteral, Static!encoderVars, FirstStep
<1>1. /\ Planned /\ At(stack, "literal", left, out, StaticCalls, 0) /\ stream.literal = stats.literal
      /\ list \in Seq(0 .. MatchFlag) /\ escape_pos \in 0 .. Len(list)
      /\ Stacked(Unread(list, escape_pos), StaticEscapes, e, 0)
  <2>1. \A f \in Fields : stream[f] = stats[f] BY <1>0 DEF StaticInv, StaticDecoding
  <2>2. stream.literal = stats.literal BY <2>1 DEF Fields
  <2> QED BY <2>2, <1>0 DEF StaticInv, StaticPlan, StaticDecoding, StaticUnread, Unread
<1>2. /\ e \in Nat /\ e < Len(positions) /\ e + 1 \in 1 .. Len(positions) /\ Done(left - 1) = e + 1
  BY <1>0, <1>1, AtEvent
<1>3. Width(positions[e + 1]) = 1 BY <1>0, <1>1 DEF At, LiteralSteps
<1>4. s0 \in 0 .. MatchFlag /\ MatchFlag \in Nat
  <2>1. positions[e + 1] \in 1 .. Len(lz) BY <1>1, <1>2, EventFits
  <2> QED BY <2>1, <1>1, ElementOfSeq, CoderAssumption DEF Planned
<1>5. StaticLits[e + 1] = <<c>> BY <1>2 DEF StaticLits
<1>6. StaticEscapes[e + 1] = IF Static!HasSlot(s0) THEN <<>> ELSE <<s0>>
  BY <1>2, <1>3 DEF StaticEscapes, StaticEscaped
<1>7. Static!Coded(s0) = IF Static!HasSlot(s0) THEN s0 ELSE MatchFlag + 1
  BY StaticIsCoder DEF Static!Coded
<1> HIDE DEF c, s0, e, list
<1>8. /\ stack # <<>> /\ stack[Len(stack)] = c
      /\ At(Below(stack), FirstStep, left - 1, Append(out, s0), StaticCalls, 0)
  <2> DEFINE lit == StaticLits[Done(left) + 1]
  <2>1. lit = <<c>> /\ Len(lit) = 1 /\ 0 < Len(lit) /\ 0 + 1 = Len(lit) /\ lit[Len(lit) - 0] = c
    BY <1>5 DEF e
  <2>2. "literal" \in LiteralSteps /\ Typed(StaticLits) BY <1>1, StaticLitsTyped DEF LiteralSteps
  <2> HIDE DEF lit
  <2>3. /\ stack # <<>> /\ stack[Len(stack)] = lit[Len(lit) - 0]
        /\ Ends(stack, left, out, StaticCalls, 0, lit)
    <3>1. lit = StaticLits[Done(left) + 1] BY DEF lit
    <3>2. /\ Planned /\ left > 0 /\ 0 < Len(lit)
          /\ At(stack, "literal", left, out, Parts(StaticLits, stats), 0)
      BY <1>0, <1>1, <2>1 DEF StaticCalls
    <3>3. /\ stack # <<>> /\ stack[Len(stack)] = lit[Len(lit) - 0]
          /\ Ends(stack, left, out, Parts(StaticLits, stats), 0, lit)
      BY <2>2, <3>1, <3>2, ReadsLiteral
    <3> QED BY <3>3 DEF StaticCalls
  <2> QED BY <2>1, <2>3 DEF Ends, s0, e
<1>9. Popped(stack, stream.literal) = {Static!Coded(s0)}
  BY <1>1, <1>8, OnlyPopped DEF c
<1>10. Len(StaticEscapes) = Len(positions) BY <1>1, StaticEscapesTyped
<1>11. out' = Append(out, s0) /\ escape_pos' \in 0 .. Len(list)
       /\ Stacked(Unread(list, escape_pos'), StaticEscapes, Done(left'), 0)
  <2>1. CASE Static!HasSlot(s0)
    <3>1. Static!Coded(s0) = s0 /\ s0 # MatchFlag + 1 BY <2>1, <1>4, <1>7
    <3>2. out' = Append(out, s0) /\ escape_pos' = escape_pos BY <3>1, <1>0, <1>9
    <3>3. StaticEscapes[e + 1] = <<>> BY <2>1, <1>6
    <3>4. Stacked(Unread(list, escape_pos), StaticEscapes, e + 1, 0)
      BY <3>3, <1>1, <1>2, <1>10, NextEscape
    <3> QED BY <3>2, <3>4, <1>0, <1>1, <1>2
  <2>2. CASE ~Static!HasSlot(s0)
    <3>1. Static!Coded(s0) = MatchFlag + 1 BY <2>2, <1>7
    <3>2. out' = Append(out, list[escape_pos + 1]) /\ escape_pos' = escape_pos + 1 BY <3>1, <1>0, <1>9
    <3>3. StaticEscapes[e + 1] = <<s0>> BY <2>2, <1>6
    <3>4. /\ escape_pos + 1 \in 0 .. Len(list) /\ list[escape_pos + 1] = s0
          /\ Stacked(Unread(list, escape_pos + 1), StaticEscapes, e + 1, 0)
      BY <3>3, <1>1, <1>2, <1>10, NextEscape
    <3> QED BY <3>2, <3>4, <1>0, <1>2
  <2> QED BY <2>1, <2>2
<1>12. At(stack', step', left', out', StaticCalls, 0) BY <1>0, <1>8, <1>11
<1>13. step' \in {"event", "hi", "lo", "len", "literal"} BY <1>0 DEF FirstStep
<1> QED BY <1>0, <1>8, <1>11, <1>12, <1>13, StaticReads DEF list

\* A step that changes no more than the phase.
LEMMA StaticStays ==
  ASSUME StaticInv,
         UNCHANGED <<lz, split, positions, stats, at, stack, escapes, stream, step, left, escape_pos, out>>,
         phase' = phase \/ (phase = "decode" /\ phase' = "done" /\ left = 0)
  PROVE  StaticInv'
<1>1. /\ StaticCalls' = StaticCalls /\ StaticEscapes' = StaticEscapes /\ Fields' = Fields /\ Planned' = Planned
      /\ \A stk, st, lf, o, parts, more :
              At(stk, st, lf, o, parts, more)' <=> At(stk, st, lf, o, parts, more)
      /\ \A lf : Done(lf)' = Done(lf)
  BY StaticFixed
<1>2. StaticTypes' BY DEF StaticInv, StaticTypes
<1>3. StaticPlan' BY <1>1 DEF StaticInv, StaticPlan, Received
<1>4. StaticEncoding'
  <2>1. Unslotted' = Unslotted BY DEF Unslotted, Static!HasSlot
  <2>2. (~split => escapes = Selected(lz, Unslotted))' <=> (~split => escapes = Selected(lz, Unslotted))
    BY <2>1 DEF Selected, Ascending
  <2> QED BY <1>1, <2>2 DEF StaticInv, StaticEncoding
<1>5. StaticDecoding'
  <2>1. phase' \in {"decode", "done"} => (At(stack, step, left, out, StaticCalls, 0))'
    <3>1. phase' \in {"decode", "done"} => At(stack', step', left', out', StaticCalls', 0)
      BY <1>1 DEF StaticInv, StaticDecoding
    <3> QED BY <3>1, <1>1
  <2>2. StaticUnread' = StaticUnread BY DEF StaticUnread, Reversed
  <2>3. Done(left)' = Done(left) BY <1>1
  <2> QED BY <1>1, <2>1, <2>2, <2>3 DEF StaticInv, StaticDecoding
<1>6. StaticCounting' BY DEF StaticInv, StaticCounting
<1>7. (phase = "done" => left = 0)' BY DEF StaticInv
<1> QED BY <1>2, <1>3, <1>4, <1>5, <1>6, <1>7 DEF StaticInv

\* Each step of a static mode keeps the invariant.
LEMMA StaticSteps == NormalizeKeeps /\ StaticInv /\ (Static!Next \/ UNCHANGED vars) => StaticInv'
<1> SUFFICES ASSUME NormalizeKeeps, StaticInv, Static!Next \/ UNCHANGED vars PROVE StaticInv' OBVIOUS
<1>1. CASE Static!CountSparse \/ Static!CountSplit BY <1>1, StaticCountsInv
<1>2. CASE Static!EncodeMatch \/ Static!EncodeLiteral BY <1>2, StaticEncodes
<1>3. CASE Static!WriteStream BY <1>3, StaticWrites
<1>4. CASE Static!DecodeRole BY <1>4, StaticReadsRole
<1>5. CASE Static!DecodeHi \/ Static!DecodeLo \/ Static!DecodeLen BY <1>5, StaticReadsMeta
<1>6. CASE Static!DecodeLiteral BY <1>6, StaticReadsLiteral
<1>7. CASE Static!EndDecode BY <1>7, StaticStays DEF Static!EndDecode, Static!encoderVars
<1>8. CASE UNCHANGED vars BY <1>8, StaticStays DEF vars, shared_vars, static_vars
<1> QED BY <1>1, <1>2, <1>3, <1>4, <1>5, <1>6, <1>7, <1>8
        DEF Static!Next, Static!EncodeNext, Static!DecodeNext

\* What the invariant says of the properties.
LEMMA StaticSafe ==
  ASSUME StaticInv
  PROVE  Static!InSync /\ Encodable(stack) /\ (phase = "done" => out = lz)
<1>1. Encodable(stack)
  <2>1. CASE phase = "count" BY <2>1 DEF StaticInv, StaticCounting, Encodable
  <2>2. CASE phase # "count"
    <3>1. /\ Planned /\ \A e \in 1 .. Len(positions) : AllAccepted(StaticCalls[e])
          /\ \/ at \in 0 .. Len(positions) /\ Stacked(stack, StaticCalls, at, 0)
             \/ At(stack, step, left, out, StaticCalls, 0)
      BY <2>2 DEF StaticInv, StaticTypes, StaticPlan, StaticEncoding, StaticDecoding
    <3>2. 0 \in 0 .. Len(positions) BY <3>1, EventFits
    <3> QED BY <3>1, <3>2, StaticLitsTyped, SentAccepted DEF StaticCalls
  <2> QED BY <2>1, <2>2
<1>2. ASSUME phase \in {"decode", "done"}
      PROVE  /\ Planned /\ At(stack, step, left, out, StaticCalls, 0) /\ Typed(StaticLits)
             /\ \A f \in Fields : stream[f] = stats[f]
             /\ step \in {"event", "hi", "lo", "len", "literal"}
             /\ stream.escapes \in Seq(0 .. MatchFlag) /\ escape_pos \in 0 .. Len(stream.escapes)
             /\ Stacked(Unread(stream.escapes, escape_pos), StaticEscapes, Done(left), 0)
  BY <1>2, StaticLitsTyped DEF StaticInv, StaticPlan, StaticDecoding, StaticUnread, Unread
<1>3. ASSUME phase = "decode", left > 0
      PROVE  stack # <<>> /\ Top(stack).table = Static!NextTable
  <2>1. CASE step = "event"
    <3>1. split BY <1>2, <1>3, <2>1 DEF At, LiteralSteps
    <3>2. stream.role = stats.role BY <3>1, <1>2, <1>3 DEF Fields
    <3>3. At(stack, "event", left, out, Parts(StaticLits, stats), 0) BY <1>2, <1>3, <2>1 DEF StaticCalls
    <3>4. stack # <<>> /\ Top(stack).table = stats.role BY <3>3, <1>2, <1>3, ReadsRole
    <3> QED BY <2>1, <3>2, <3>4 DEF Static!NextTable
  <2>2. CASE step \in {"hi", "lo", "len"}
    <3>1. At(stack, step, left, out, Parts(StaticLits, stats), 0) BY <1>2, <1>3 DEF StaticCalls
    <3>2. Width(positions[Done(left) + 1]) = 4 BY <2>2, <3>1 DEF At, LiteralSteps
    <3>3. split BY <3>2 DEF Width
    <3>4. stack # <<>> /\ Top(stack).table = Meta(stats, step) BY <3>1, <1>2, <1>3, <2>2, ReadsMeta
    <3>5. Meta(stats, step) = Meta(stream, step) BY <3>3, <1>2, <1>3 DEF Meta, Fields
    <3> QED BY <2>2, <3>4, <3>5 DEF Static!NextTable, Meta
  <2>3. CASE step = "literal"
    <3> DEFINE lit == StaticLits[Done(left) + 1]
               c == Call(Static!Coded(lz[positions[Done(left) + 1]]), stats.literal)
    <3>1. Done(left) + 1 \in 1 .. Len(positions) BY <1>2, <1>3, AtEvent
    <3>2. lit = <<c>> BY <3>1 DEF StaticLits
    <3> HIDE DEF lit, c
    <3>3. Len(lit) = 1 /\ 0 < Len(lit) /\ lit[Len(lit) - 0] = c BY <3>2
    <3>4. /\ At(stack, "literal", left, out, Parts(StaticLits, stats), 0) /\ "literal" \in LiteralSteps
          /\ Planned /\ Typed(StaticLits) /\ left > 0 /\ lit = StaticLits[Done(left) + 1]
      BY <1>2, <1>3, <2>3 DEF StaticCalls, LiteralSteps, lit
    <3>5. stack # <<>> /\ stack[Len(stack)] = lit[Len(lit) - 0] BY <3>3, <3>4, ReadsLiteral
    <3>6. Top(stack).table = stats.literal BY <3>3, <3>5, OnlyPopped DEF c
    <3>7. stream.literal = stats.literal BY <1>2, <1>3 DEF Fields
    <3> QED BY <2>3, <3>5, <3>6, <3>7 DEF Static!NextTable
  <2> QED BY <1>2, <1>3, <2>1, <2>2, <2>3
<1>4. ASSUME phase = "done"
      PROVE  stack = <<>> /\ out = lz /\ escape_pos = Len(stream.escapes)
  <2>1. /\ left = 0 /\ At(stack, step, 0, out, Parts(StaticLits, stats), 0) /\ Planned /\ Typed(StaticLits)
        /\ stream.escapes \in Seq(0 .. MatchFlag) /\ escape_pos \in 0 .. Len(stream.escapes)
        /\ Stacked(Unread(stream.escapes, escape_pos), StaticEscapes, Done(0), 0)
    BY <1>2, <1>4 DEF StaticInv, StaticCalls
  <2>2. stack = <<>> /\ out = lz BY <2>1, ReadsAll
  <2>3. Done(0) = Len(positions) /\ Len(StaticEscapes) = Len(positions)
    BY <2>1, EventFits, StaticEscapesTyped DEF Done
  <2>4. Unread(stream.escapes, escape_pos) = <<>> BY <2>1, <2>3, AllPopped
  <2>5. escape_pos = Len(stream.escapes) BY <2>1, <2>4, AllRead
  <2> QED BY <2>2, <2>5
<1>5. Static!InSync
  BY <1>3, <1>4, StaticIsCoder DEF Static!InSync, Static!TablesAgree, Static!Consumed
<1> QED BY <1>1, <1>4, <1>5

-----------------------------------------------------------------------------
\* The literals in chunks: what has been counted before a chunk.

\* Where the chunk of the literal after the first n begins.
ChunkStart(n) == (n \div chunk_size) * chunk_size

\* What a quotient is.
LEMMA QuotientBounds ==
  ASSUME NEW x \in Nat, NEW d \in Nat, d > 0
  PROVE  x \div d \in Nat /\ (x \div d) * d <= x /\ x < (x \div d) * d + d
OBVIOUS

\* Nothing else is the quotient.
LEMMA QuotientOnly ==
  ASSUME NEW x \in Nat, NEW d \in Nat, d > 0, NEW q \in Nat, q * d <= x, x < q * d + d
  PROVE  x \div d = q
<1>1. x - q * d \in 0 .. (d - 1) BY SMT
<1> DEFINE r == x - q * d
<1>2. x = q * d + r /\ r \in Nat /\ r < d BY <1>1
<1> HIDE DEF r
<1>3. (q * d + r) \div d = q BY <1>2
<1> QED BY <1>2, <1>3

\* From one literal to the next.
LEMMA NextInChunk ==
  ASSUME chunk_size \in Nat \ {0}, NEW n \in Nat
  PROVE  /\ ChunkStart(n) \in Nat /\ ChunkStart(n) <= n /\ n < ChunkStart(n) + chunk_size
         /\ n + 1 < ChunkStart(n) + chunk_size => ChunkStart(n + 1) = ChunkStart(n)
         /\ n + 1 = ChunkStart(n) + chunk_size => ChunkStart(n + 1) = n + 1
         /\ ChunkStart(0) = 0
<1> DEFINE c == chunk_size
           q == n \div c
<1>1. c \in Nat /\ c > 0 OBVIOUS
<1>2. ChunkStart(n) = q * c BY DEF ChunkStart
<1> HIDE DEF c
<1>3. q \in Nat /\ q * c <= n /\ n < q * c + c BY <1>1, QuotientBounds
<1> HIDE DEF q
<1>4. q * c \in Nat BY <1>1, <1>3
<1>5. ASSUME n + 1 < q * c + c PROVE ChunkStart(n + 1) = q * c
  <2>1. n + 1 \in Nat /\ q * c <= n + 1 BY <1>3, <1>4
  <2>2. (n + 1) \div c = q BY <2>1, <1>1, <1>3, <1>5, QuotientOnly
  <2> QED BY <2>2 DEF ChunkStart, c
<1>6. ASSUME n + 1 = q * c + c PROVE ChunkStart(n + 1) = n + 1
  <2>1. q + 1 \in Nat /\ (q + 1) * c = q * c + c BY <1>1, <1>3
  <2>2. n + 1 \in Nat /\ (q + 1) * c <= n + 1 /\ n + 1 < (q + 1) * c + c
    BY <2>1, <1>1, <1>6, <1>4
  <2>3. (n + 1) \div c = q + 1 BY <2>1, <2>2, <1>1, QuotientOnly
  <2> QED BY <2>1, <2>3, <1>6 DEF ChunkStart, c
<1>7. ChunkStart(0) = 0
  <2>1. 0 \in Nat /\ 0 * c = 0 BY <1>1
  <2>2. 0 \div c = 0 BY <2>1, <1>1, QuotientOnly
  <2> QED BY <2>1, <2>2 DEF ChunkStart, c
<1> QED BY <1>2, <1>3, <1>4, <1>5, <1>6, <1>7 DEF c

\* The lesser of two, as the decoders compute it.
Least(a, b) == IF a < b THEN a ELSE b

\* The decoder is within the chunk whose end is its boundary, or at the end.
AtBoundary(n, b, N) ==
  /\ b \in 0 .. N /\ n <= b
  /\ n < b => b = Least(ChunkStart(n) + chunk_size, N)
  /\ n = b /\ n < N => ChunkStart(n) = n

\* The decoder at its next literal: the chunk it is in, and its boundary after it.
LEMMA ChunkTurns ==
  ASSUME chunk_size \in Nat \ {0}, NEW N \in Nat, NEW n \in Nat, n < N, NEW b, AtBoundary(n, b, N),
         NEW c, c = IF n = b THEN Least(n + chunk_size, N) ELSE b
  PROVE  /\ c = Least(ChunkStart(n) + chunk_size, N) /\ n < c /\ c \in 0 .. N
         /\ AtBoundary(n + 1, c, N)
         /\ n = b => ChunkStart(n) = n
         /\ n + 1 < c => ChunkStart(n + 1) = ChunkStart(n)
<1>1. /\ ChunkStart(n) \in Nat /\ ChunkStart(n) <= n /\ n < ChunkStart(n) + chunk_size
      /\ n + 1 < ChunkStart(n) + chunk_size => ChunkStart(n + 1) = ChunkStart(n)
      /\ n + 1 = ChunkStart(n) + chunk_size => ChunkStart(n + 1) = n + 1
  BY NextInChunk
<1>2. b \in Nat /\ n <= b /\ (n = b => ChunkStart(n) = n)
      /\ (n < b => b = Least(ChunkStart(n) + chunk_size, N))
  BY DEF AtBoundary
<1>3. c = Least(ChunkStart(n) + chunk_size, N) BY <1>2
<1>4. n < c /\ c \in 0 .. N BY <1>1, <1>3 DEF Least
<1>8. c <= ChunkStart(n) + chunk_size /\ (c < N => c = ChunkStart(n) + chunk_size)
  BY <1>1, <1>3 DEF Least
<1>5. ASSUME n + 1 < c PROVE ChunkStart(n + 1) = ChunkStart(n)
  <2>1. n + 1 < ChunkStart(n) + chunk_size BY <1>1, <1>4, <1>5, <1>8
  <2> QED BY <2>1, <1>1
<1>6. ASSUME n + 1 = c, n + 1 < N PROVE ChunkStart(n + 1) = n + 1
  <2>1. n + 1 = ChunkStart(n) + chunk_size BY <1>6, <1>8
  <2> QED BY <2>1, <1>1
<1>7. AtBoundary(n + 1, c, N) BY <1>3, <1>4, <1>5, <1>6 DEF AtBoundary
<1> QED BY <1>2, <1>3, <1>4, <1>5, <1>7

\* How many numbers of I are among the first n.
Upto(I, n) == Rank(I, n + 1)
After(I, a, b) == {j \in (a + 1) .. b : j \in I}
Adds(I, a, b) == Upto(I, b) = Upto(I, a) + Cardinality(After(I, a, b))

\* How the count grows from one number to a later one.
LEMMA UptoMore ==
  ASSUME NEW N \in Nat, NEW I \in SUBSET (1 .. N), NEW a \in Nat, NEW b \in Nat, a <= b
  PROVE  /\ Upto(I, 0) = 0 /\ Upto(I, a) \in Nat
         /\ Adds(I, a, b)
         /\ Upto(I, a + 1) = Upto(I, a) + IF a + 1 \in I THEN 1 ELSE 0
         /\ Upto(I, N) = Cardinality(I)
<1>0. \A j \in I : j \in 1 .. N OBVIOUS
<1>1. IsFiniteSet(I) /\ I \in SUBSET Nat
  <2>1. IsFiniteSet(1 .. N) BY RangeFinite
  <2>2. IsFiniteSet(I) BY <2>1, FS_Subset
  <2> QED BY <2>2
<1>2. /\ \A i \in Nat : Rank(I, i) \in 0 .. Cardinality(I) /\ Cardinality(I) \in Nat
      /\ \A i \in I : Rank(I, i + 1) = Rank(I, i) + 1
      /\ \A i \in Nat \ I : Rank(I, i + 1) = Rank(I, i)
  BY <1>1, RanksGrow
<1>3. Upto(I, 0) = 0
  <2>1. \A j \in I : ~(j < 0 + 1) BY <1>0
  <2>2. {i \in I : i < 0 + 1} = {} BY <2>1
  <2> QED BY <2>2, FS_EmptySet DEF Upto, Rank
<1>4. Upto(I, a) \in Nat BY <1>2, a + 1 \in Nat DEF Upto
<1>5. Upto(I, a + 1) = Upto(I, a) + IF a + 1 \in I THEN 1 ELSE 0
  BY <1>2, a + 1 \in Nat DEF Upto
<1>6. Adds(I, a, b)
  <2> DEFINE A == {j \in I : j < a + 1}
             B == {j \in (a + 1) .. b : j \in I}
             C == {j \in I : j < b + 1}
  <2>1. A \in SUBSET I /\ B \in SUBSET I OBVIOUS
  <2>2. A \cup B = C
    <3>1. \A j \in I : j < b + 1 <=> (j < a + 1 \/ j \in (a + 1) .. b) BY <1>0
    <3>2. \A j : j \in A \cup B <=> j \in C BY <3>1
    <3> HIDE DEF A, B, C
    <3> QED BY <3>2
  <2>3. A \cap B = {}
    <3>0. \A j \in I : j < a + 1 => j \notin (a + 1) .. b BY <1>0
    <3>1. \A j : j \notin A \cap B BY <3>0
    <3> HIDE DEF A, B
    <3> QED BY <3>1
  <2>4. Cardinality(A) = Upto(I, a) /\ Cardinality(C) = Upto(I, b) BY DEF Upto, Rank
  <2> HIDE DEF A, B, C
  <2>5. IsFiniteSet(A) /\ IsFiniteSet(B) BY <2>1, <1>1, FS_Subset
  <2>6. Cardinality(A \cup B) = Cardinality(A) + Cardinality(B) - Cardinality({})
    BY <2>3, <2>5, FS_Union
  <2>7. Cardinality({}) = 0 BY FS_EmptySet
  <2>8. Cardinality(A) \in Nat /\ Cardinality(B) \in Nat BY <2>5, FS_CardinalityType
  <2>9. Upto(I, b) = Upto(I, a) + Cardinality(B)
    <3>1. Cardinality(A \cup B) = Upto(I, b) BY <2>2, <2>4
    <3>2. Upto(I, b) = Upto(I, a) + Cardinality(B) - 0 BY <3>1, <2>4, <2>6, <2>7
    <3>3. Upto(I, a) \in Nat /\ Cardinality(B) \in Nat BY <2>4, <2>8
    <3> QED BY <3>2, <3>3
  <2>10. B = After(I, a, b) BY DEF After, B
  <2> QED BY <2>9, <2>10 DEF Adds
<1>7. Upto(I, N) = Cardinality(I)
  <2>1. \A j \in I : j < N + 1 BY <1>0
  <2>2. {i \in I : i < N + 1} = I BY <2>1
  <2> QED BY <2>2 DEF Upto, Rank
<1> QED BY <1>3, <1>4, <1>5, <1>6, <1>7

\* The events that are literals, and how many of them are before event e.
LiteralEvents == {e \in 1 .. Len(positions) : Width(positions[e]) # 4}
LitsBefore(e) == Rank(LiteralEvents, e)

\* How the number of literals grows from event to event.
LEMMA LitsSteps ==
  ASSUME Planned
  PROVE  /\ LitsBefore(1) = 0 /\ LitsBefore(Len(positions) + 1) = Cardinality(LiteralEvents)
         /\ Cardinality(LiteralEvents) \in Nat
         /\ \A e \in 1 .. (Len(positions) + 1) : LitsBefore(e) \in 0 .. Cardinality(LiteralEvents)
         /\ \A e \in 1 .. Len(positions) :
              LitsBefore(e + 1) = LitsBefore(e) + IF Width(positions[e]) = 4 THEN 0 ELSE 1
         /\ \A e \in 1 .. Len(positions) :
              Width(positions[e]) # 4 => LitsBefore(e) < Cardinality(LiteralEvents)
<1> DEFINE I == LiteralEvents
<1>1. Len(positions) \in Nat BY EventFits
<1>2. I \in SUBSET Nat /\ IsFiniteSet(I) /\ I \in SUBSET (1 .. Len(positions))
  <2>1. IsFiniteSet(1 .. Len(positions)) BY <1>1, RangeFinite
  <2>2. I \in SUBSET (1 .. Len(positions)) BY DEF LiteralEvents
  <2>3. IsFiniteSet(I) BY <2>1, <2>2, FS_Subset
  <2> QED BY <2>2, <2>3, <1>1
<1>3. /\ Cardinality(I) \in Nat
      /\ \A i \in Nat : Rank(I, i) \in 0 .. Cardinality(I)
      /\ \A i \in I : Rank(I, i) \in 0 .. (Cardinality(I) - 1)
      /\ \A i \in I : Rank(I, i + 1) = Rank(I, i) + 1
      /\ \A i \in Nat \ I : Rank(I, i + 1) = Rank(I, i)
  BY <1>2, RanksGrow
<1>4. \A e \in 1 .. Len(positions) : e \in I <=> Width(positions[e]) # 4 BY DEF LiteralEvents
<1> HIDE DEF I
<1>5. Rank(I, 1) = 0
  <2>0. \A j \in I : j \in 1 .. Len(positions) BY <1>2
  <2>1. \A j \in I : ~(j < 1) BY <2>0, <1>1
  <2>2. {i \in I : i < 1} = {} BY <2>1
  <2> QED BY <2>2, FS_EmptySet DEF Rank
<1>6. Rank(I, Len(positions) + 1) = Cardinality(I)
  <2>0. \A j \in I : j \in 1 .. Len(positions) BY <1>2
  <2>1. \A j \in I : j < Len(positions) + 1 BY <2>0, <1>1
  <2>2. {i \in I : i < Len(positions) + 1} = I BY <2>1
  <2> QED BY <2>2 DEF Rank
<1>7. \A e : LitsBefore(e) = Rank(I, e) BY DEF LitsBefore, I
<1>8. \A e \in 1 .. Len(positions) :
        LitsBefore(e + 1) = LitsBefore(e) + IF Width(positions[e]) = 4 THEN 0 ELSE 1
  <2> TAKE e \in 1 .. Len(positions)
  <2>1. e \in Nat /\ Rank(I, e) \in 0 .. Cardinality(I) BY <1>1, <1>3
  <2>2. CASE e \in I BY <2>1, <2>2, <1>3, <1>4, <1>7
  <2>3. CASE e \notin I BY <2>1, <2>3, <1>3, <1>4, <1>7
  <2> QED BY <2>2, <2>3
<1>9. \A e \in 1 .. Len(positions) : Width(positions[e]) # 4 => LitsBefore(e) < Cardinality(I)
  BY <1>1, <1>3, <1>4, <1>7
<1>10. \A e \in 1 .. (Len(positions) + 1) : LitsBefore(e) \in 0 .. Cardinality(I)
  BY <1>1, <1>3, <1>7
<1> QED BY <1>3, <1>5, <1>6, <1>7, <1>8, <1>9, <1>10 DEF I

\* The literals are those of the literal events, in their order.
LEMMA LiteralsInOrder ==
  ASSUME lz \in Seq(0 .. MatchFlag), BytesOnly(lz), split \in BOOLEAN,
         positions = IF split THEN Positions(lz) ELSE [n \in DOMAIN lz |-> n]
  PROVE  /\ LiteralsOf \in Seq(0 .. MatchFlag) /\ Len(LiteralsOf) = Cardinality(LiteralEvents)
         /\ \A e \in LiteralEvents : LiteralsOf[LitsBefore(e) + 1] = lz[positions[e]]
         /\ ~split => \A e \in 1 .. Len(positions) : LitsBefore(e) = e - 1
<1>0. Planned BY EventsPlanned
<1>1. Len(lz) \in Nat /\ DOMAIN lz = 1 .. Len(lz) OBVIOUS
<1>2. CASE split
  <2> DEFINE I == Events(lz, positions, 1)
             seq == [e \in DOMAIN positions |-> lz[positions[e] + 0]]
  <2>1. /\ positions \in Seq(1 .. Len(lz)) /\ Len(positions) \in Nat /\ DOMAIN positions = 1 .. Len(positions)
        /\ \A e \in 1 .. Len(positions) : /\ positions[e] \in 1 .. Len(lz)
                                           /\ Width(positions[e]) \in {1, 4}
                                           /\ Width(positions[e]) = Span(lz, positions[e])
    BY <1>0, <1>2, EventFits DEF Planned
  <2>2. LiteralEvents = I
    <3>0. \A e \in 1 .. Len(positions) : Width(positions[e]) # 4 <=> Span(lz, positions[e]) = 1
      <4> TAKE e \in 1 .. Len(positions)
      <4>1. Width(positions[e]) = Span(lz, positions[e]) /\ Width(positions[e]) \in {1, 4} BY <2>1
      <4> DEFINE w == Width(positions[e])
      <4>2. w \in {1, 4} => (w # 4 <=> w = 1) OBVIOUS
      <4> QED BY <4>1, <4>2
    <3>1. \A e : e \in LiteralEvents <=> e \in I BY <3>0, <2>1 DEF LiteralEvents, Events
    <3> HIDE DEF I
    <3> QED BY <3>1
  <2>3. \A e \in 1 .. Len(positions) : seq[e] = lz[positions[e]] /\ seq[e] \in 0 .. MatchFlag
    <3> TAKE e \in 1 .. Len(positions)
    <3>1. positions[e] \in 1 .. Len(lz) /\ positions[e] + 0 = positions[e] BY <2>1
    <3>2. lz[positions[e]] \in 0 .. MatchFlag BY <3>1, ElementOfSeq
    <3> QED BY <3>1, <3>2, <2>1
  <2>4. LiteralsOf = Selected(seq, I) BY <1>2 DEF LiteralsOf, Literals, Values
  <2>5. I \in SUBSET (1 .. Len(positions)) BY <2>1 DEF Events
  <2> HIDE DEF I, seq
  <2>6. I \in SUBSET Nat /\ IsFiniteSet(I)
    <3>1. IsFiniteSet(1 .. Len(positions)) BY <2>1, RangeFinite
    <3>2. IsFiniteSet(I) BY <3>1, <2>5, FS_Subset
    <3> QED BY <3>2, <2>1, <2>5
  <2>7. \A e \in I : seq[e] \in 0 .. MatchFlag BY <2>3, <2>5
  <2>8. /\ Selected(seq, I) \in Seq(0 .. MatchFlag) /\ Len(Selected(seq, I)) = Cardinality(I)
        /\ \A i \in I : Selected(seq, I)[Rank(I, i) + 1] = seq[i]
    BY <2>6, <2>7, SelectedTyped
  <2> QED BY <2>2, <2>3, <2>4, <2>5, <2>8, <1>2 DEF LitsBefore
<1>3. CASE ~split
  <2>1. Len(positions) = Len(lz) /\ \A e \in 1 .. Len(lz) : positions[e] = e BY <1>1, <1>3
  <2>2. LiteralEvents = 1 .. Len(lz)
    <3>1. \A e : e \in LiteralEvents <=> e \in 1 .. Len(lz) BY <2>1, <1>3 DEF LiteralEvents, Width
    <3> QED BY <3>1
  <2>3. ASSUME NEW e \in 1 .. Len(lz) PROVE LitsBefore(e) = e - 1
    <3>1. {j \in 1 .. Len(lz) : j < e} = 1 .. (e - 1)
      <4>1. \A j : j \in {i \in 1 .. Len(lz) : i < e} <=> j \in 1 .. (e - 1) BY <1>1
      <4> QED BY <4>1
    <3>2. e - 1 \in Nat BY <1>1
    <3>4. Cardinality(1 .. (e - 1)) = e - 1 BY <3>2, RangeFinite
    <3> QED BY <3>1, <3>4, <2>2 DEF LitsBefore, Rank
  <2>4. Cardinality(1 .. Len(lz)) = Len(lz) BY <1>1, RangeFinite
  <2>5. LiteralsOf = lz BY <1>3 DEF LiteralsOf
  <2>6. \A e \in 1 .. Len(lz) : (e - 1) + 1 = e BY <1>1
  <2> QED BY <2>1, <2>2, <2>3, <2>4, <2>5, <2>6
<1> QED BY <1>2, <1>3

\* The literals as local indices: the kept ones in order, and an escape.
LEMMA CodedFits ==
  ASSUME NEW literals \in Seq(0 .. MatchFlag), NEW cap \in Nat,
         NEW kept, kept = Capped(literals, cap),
         NEW d, d = Ascending(kept),
         NEW c, c = [n \in DOMAIN literals |-> IF literals[n] \in kept THEN Rank(kept, literals[n])
                                                                    ELSE Cardinality(kept)]
  PROVE  /\ d \in Seq(0 .. MatchFlag) /\ Len(d) = Cardinality(kept) /\ Len(d) \in 0 .. cap
         /\ c \in Seq(0 .. Len(d)) /\ Len(c) = Len(literals)
         /\ \A n \in 1 .. Len(literals) :
              /\ literals[n] \in kept <=> c[n] # Len(d)
              /\ c[n] # Len(d) => c[n] \in 0 .. (Len(d) - 1) /\ d[c[n] + 1] = literals[n]
         /\ kept = ValuesOf(literals) => \A n \in 1 .. Len(literals) : c[n] # Len(d)
         /\ literals # <<>> /\ Len(d) = 0 => kept # ValuesOf(literals)
<1>0. /\ MatchFlag \in Nat /\ literals \in Seq(Nat) /\ DOMAIN literals = 1 .. Len(literals)
      /\ Len(literals) \in Nat /\ \A n \in 1 .. Len(literals) : literals[n] \in 0 .. MatchFlag
  BY CoderAssumption
<1>1. /\ kept \in SUBSET ValuesOf(literals) /\ IsFiniteSet(kept)
      /\ Cardinality(kept) \in Nat /\ Cardinality(kept) <= cap
  BY <1>0, CappedFits
<1>2. ValuesOf(literals) \in SUBSET (0 .. MatchFlag) BY <1>0 DEF ValuesOf
<1>3. kept \in SUBSET (0 .. MatchFlag) /\ kept \in SUBSET Nat BY <1>0, <1>1, <1>2
<1> DEFINE C == Cardinality(kept)
<1>4. /\ d \in [1 .. C -> kept]
      /\ \A i \in kept : Rank(kept, i) + 1 \in 1 .. C /\ d[Rank(kept, i) + 1] = i
  BY <1>1, <1>3, InOrder
<1>5. \A i \in kept : Rank(kept, i) \in 0 .. (C - 1) BY <1>1, <1>3, RanksGrow
<1> HIDE DEF C
<1>6. d \in Seq(0 .. MatchFlag) /\ Len(d) = C
  <2>1. d \in [1 .. C -> 0 .. MatchFlag] BY <1>3, <1>4
  <2> QED BY <2>1, <1>1, FunctionIsSequence DEF C
<1>7. \A n \in 1 .. Len(literals) :
        c[n] = IF literals[n] \in kept THEN Rank(kept, literals[n]) ELSE C
  BY <1>0 DEF C
<1>8. c \in Seq(0 .. C) /\ Len(c) = Len(literals)
  <2>1. \A n \in 1 .. Len(literals) : c[n] \in 0 .. C
    <3> TAKE n \in 1 .. Len(literals)
    <3>1. C \in Nat BY <1>1 DEF C
    <3>2. CASE literals[n] \in kept BY <3>1, <3>2, <1>5, <1>7
    <3>3. CASE literals[n] \notin kept
      <4>1. c[n] = C BY <3>3, <1>7
      <4> QED BY <4>1, <3>1
    <3> QED BY <3>2, <3>3
  <2>2. c \in [1 .. Len(literals) -> 0 .. C] BY <2>1, <1>0
  <2> QED BY <2>2, <1>0, FunctionIsSequence
<1>9. ASSUME NEW n \in 1 .. Len(literals)
      PROVE  /\ literals[n] \in kept <=> c[n] # C
             /\ c[n] # C => c[n] \in 0 .. (C - 1) /\ d[c[n] + 1] = literals[n]
  <2>1. C \in Nat BY <1>1 DEF C
  <2>2. CASE literals[n] \in kept
    <3>1. c[n] = Rank(kept, literals[n]) /\ c[n] \in 0 .. (C - 1) BY <2>2, <1>5, <1>7
    <3>2. c[n] # C BY <3>1, <2>1
    <3>3. d[c[n] + 1] = literals[n] BY <3>1, <2>2, <1>4
    <3> QED BY <2>2, <3>1, <3>2, <3>3
  <2>3. CASE literals[n] \notin kept BY <2>3, <1>7
  <2> QED BY <2>2, <2>3
<1>10. ASSUME kept = ValuesOf(literals) PROVE \A n \in 1 .. Len(literals) : c[n] # C
  <2>1. \A n \in 1 .. Len(literals) : literals[n] \in kept BY <1>10, <1>0 DEF ValuesOf
  <2> QED BY <2>1, <1>9
<1>11. ASSUME literals # <<>>, C = 0 PROVE kept # ValuesOf(literals)
  <2>1. kept = {} BY <1>11, <1>1, FS_EmptySet DEF C
  <2>2. 1 \in DOMAIN literals BY <1>11, <1>0
  <2>3. literals[1] \in ValuesOf(literals) BY <2>2 DEF ValuesOf
  <2> QED BY <2>1, <2>3
<1>12. C \in 0 .. cap BY <1>1 DEF C
<1>13. C = Cardinality(kept) BY DEF C
<1> QED BY <1>6, <1>8, <1>9, <1>10, <1>11, <1>12, <1>13

\* At a field of a match: no literal has come with it.
LEMMA InMatch ==
  ASSUME Planned, NEW stk, NEW st \in {"hi", "lo", "len"}, NEW lf, NEW o, NEW parts, NEW more,
         At(stk, st, lf, o, parts, more)
  PROVE  /\ split /\ Width(positions[Done(lf) + 1]) = 4
         /\ LitsBefore(Done(IF st = "len" THEN lf - 1 ELSE lf) + 1) = LitsBefore(Done(lf) + 1)
<1> DEFINE d == Done(lf) + 1
<1>1. Width(positions[d]) = 4 /\ lf > 0 BY DEF At, LiteralSteps
<1>2. d \in 1 .. Len(positions) /\ Done(lf - 1) = d BY <1>1, AtEvent
<1> HIDE DEF d
<1>3. split BY <1>1, <1>2, EventFits
<1>4. LitsBefore(d + 1) = LitsBefore(d)
  <2>1. d \in 1 .. (Len(positions) + 1) BY <1>2, EventFits
  <2>2. LitsBefore(d + 1) = LitsBefore(d) + 0 /\ LitsBefore(d) \in Nat BY <1>1, <1>2, <2>1, LitsSteps
  <2> QED BY <2>2
<1> QED BY <1>1, <1>2, <1>3, <1>4 DEF d

-----------------------------------------------------------------------------
\* The adaptive modes: the inductive invariant, and that the counting leads
\* to it.

\* AdaptiveMode has its own instance of Coder.
LEMMA AdaptiveIsCoder ==
  /\ \A s, c : Adaptive!Capped(s, c) = Capped(s, c)
  /\ \A s, S : Adaptive!Table(s, S) = Table(s, S)
  /\ \A s, S : Adaptive!Selected(s, S) = Selected(s, S)
  /\ \A s : Adaptive!Positions(s) = Positions(s)
  /\ \A s, p : Adaptive!Span(s, p) = Span(s, p)
  /\ \A s, p : Adaptive!Literals(s, p) = Literals(s, p)
  /\ \A s, p, b : Adaptive!MetaTables(s, p, b) = MetaTables(s, p, b)
  /\ \A s, p, m : Adaptive!MatchCalls(s, p, m) = MatchCalls(s, p, m)
  /\ \A s, t : Adaptive!Call(s, t) = Call(s, t)
  /\ \A t : Adaptive!Received(t) = Received(t)
  /\ \A s, t : Adaptive!Popped(s, t) = Popped(s, t)
  /\ \A s : Adaptive!Below(s) = Below(s) /\ Adaptive!Top(s) = Top(s)
  /\ \A S : Adaptive!Ascending(S) = Ascending(S)
  /\ \A S : Adaptive!Cardinality(S) = Cardinality(S)
  /\ \A s : Adaptive!ValuesOf(s) = ValuesOf(s)
BY SMTT(30) DEF Adaptive!Span, Span, Adaptive!ValuesOf, ValuesOf, Adaptive!IsFiniteSet, IsFiniteSet,
  Adaptive!Cardinality, Cardinality, Adaptive!CountOf, CountOf, Adaptive!Capped, Capped,
  Adaptive!Tally, Tally, Adaptive!Table, Table, Adaptive!Ascending, Ascending, Adaptive!Selected,
  Selected, Adaptive!Positions, Positions, Adaptive!Events, Events, Adaptive!Values, Values,
  Adaptive!Literals, Literals, Adaptive!Field, Field, Adaptive!Roles, Roles, Adaptive!MetaTables,
  MetaTables, Adaptive!Call, Call, Adaptive!MatchCalls, MatchCalls, Adaptive!Received, Received,
  Adaptive!Below, Below, Adaptive!Top, Top, Adaptive!Active, Active, Adaptive!Popped, Popped

\* The literals that are slot s, and the counts after the first n literals.
Slotted(s) == {j \in 1 .. Len(coded) : coded[j] = s}
CountsAfter(n) == [s \in Adaptive!Slots |-> 1 + Upto(Slotted(s), n)]
TableAt(n) == Freq(CountsAfter(n), Adaptive!k + n)

\* The call for the literal after the first n, and the calls for each event.
AdaptiveCall(n) == <<Call(coded[n + 1], TableAt(ChunkStart(n)))>>
AdaptiveLits == [e \in 1 .. Len(positions) |-> AdaptiveCall(LitsBefore(e))]
AdaptiveCalls == Parts(AdaptiveLits, meta)

\* What each literal adds to the escape list.
Dropped == {n \in 1 .. Len(coded) : coded[n] = Len(distinct)}
LitEscapes == [n \in 1 .. Len(coded) |-> IF n \in Dropped THEN <<LiteralsOf[n]>> ELSE <<>>]

\* What the modes that cut the literals into chunks have settled before the
\* first chunk.
ChunkPlan ==
  /\ Planned /\ chunk_size \in Nat \ {0} /\ ext \in BOOLEAN
  /\ ~split => positions = [n \in DOMAIN lz |-> n]
  /\ split => /\ Received(meta.role) = meta.role /\ Received(meta.hi) = meta.hi
              /\ Received(meta.lo) = meta.lo /\ Received(meta.len) = meta.len
  /\ LiteralsOf \in Seq(0 .. MatchFlag) /\ Len(LiteralsOf) = Len(coded)
  /\ Len(coded) = Cardinality(LiteralEvents)
  /\ \A e \in LiteralEvents : LiteralsOf[LitsBefore(e) + 1] = lz[positions[e]]
  /\ distinct \in Seq(0 .. MatchFlag) /\ coded \in Seq(0 .. Len(distinct))
  /\ \A n \in 1 .. Len(coded) :
       coded[n] # Len(distinct) =>
         coded[n] \in 0 .. (Len(distinct) - 1) /\ distinct[coded[n] + 1] = LiteralsOf[n]

DroppedListed == escapes = Selected(LiteralsOf, Dropped)

AdaptiveTypes ==
  /\ lz \in AdaptiveInputs /\ split \in BOOLEAN
  /\ phase \in {"collect", "snapshot", "encode", "decode", "done"}

AdaptiveIdle ==
  /\ phase \in {"collect", "snapshot"} => stack = <<>>
  /\ phase = "collect" => chunk_stats = <<>>
  /\ phase \in {"collect", "snapshot", "encode"} =>
       out = <<>> /\ lit_pos = 0 /\ boundary = 0 /\ escape_pos = 0

AdaptivePlan ==
  phase # "collect" =>
    /\ ChunkPlan /\ DroppedListed
    /\ \A n \in 1 .. Len(coded) : coded[n] \in Adaptive!Slots
    /\ \A e \in 1 .. Len(positions) : AllAccepted(AdaptiveCalls[e])

\* The encoder's way forward: a table for each chunk, and what it has counted.
AdaptiveHistory ==
  phase # "collect" =>
    /\ \E T : chunk_stats \in Seq(T)
    /\ \A i \in 1 .. Len(chunk_stats) : chunk_stats[i] = TableAt((i - 1) * chunk_size)
    /\ cum_counts = CountsAfter(Least(Len(chunk_stats) * chunk_size, Len(coded)))
    /\ phase # "snapshot" => Len(coded) <= Len(chunk_stats) * chunk_size

AdaptiveEncoding ==
  phase = "encode" =>
    /\ at \in 0 .. Len(positions) /\ Stacked(stack, AdaptiveCalls, at, 0)
    /\ lit_idx = LitsBefore(at + 1)

\* The decoder has recounted what it has decoded.
AdaptiveDecoding ==
  phase \in {"decode", "done"} =>
    /\ step \in {"event", "hi", "lo", "len", "literal"}
    /\ At(stack, step, left, out, AdaptiveCalls, 0)
    /\ lit_pos = LitsBefore(Done(left) + 1) /\ counts = CountsAfter(lit_pos)
    /\ AtBoundary(lit_pos, boundary, Len(coded))
    /\ lit_pos < boundary => table = TableAt(ChunkStart(lit_pos))
    /\ escape_pos \in 0 .. Len(escapes)
    /\ Stacked(Unread(escapes, escape_pos), LitEscapes, lit_pos, 0)

AdaptiveInv ==
  /\ AdaptiveTypes /\ AdaptiveIdle /\ AdaptivePlan /\ AdaptiveHistory
  /\ AdaptiveEncoding /\ AdaptiveDecoding
  /\ phase = "done" => left = 0

\* The invariant holds initially.
LEMMA AdaptiveInit == Adaptive!Init => AdaptiveInv
<1> SUFFICES ASSUME Adaptive!Init PROVE AdaptiveInv OBVIOUS
<1>1. /\ lz \in AdaptiveInputs /\ split \in BOOLEAN /\ phase = "collect" /\ stack = <<>>
      /\ chunk_stats = <<>> /\ out = <<>> /\ lit_pos = 0 /\ boundary = 0 /\ escape_pos = 0
  BY DEF Adaptive!Init
<1> QED BY <1>1
        DEF AdaptiveInv, AdaptiveTypes, AdaptiveIdle, AdaptivePlan, AdaptiveHistory,
            AdaptiveEncoding, AdaptiveDecoding

\* The literals, and where their chunks are, do not change after the collecting.
LEMMA ChunkFixed ==
  ASSUME UNCHANGED <<lz, split, positions, distinct, coded, chunk_size>>
  PROVE  /\ LiteralsOf' = LiteralsOf /\ LiteralEvents' = LiteralEvents
         /\ LitEscapes' = LitEscapes /\ Dropped' = Dropped
         /\ \A e : LitsBefore(e)' = LitsBefore(e)
         /\ \A n : ChunkStart(n)' = ChunkStart(n)
         /\ \A n, b, N : AtBoundary(n, b, N)' <=> AtBoundary(n, b, N)
<1>1. \A p : Width(p)' = Width(p) BY EventsFixed
<1>2. LiteralsOf' = LiteralsOf
  BY DEF LiteralsOf, Literals, Values, Events, Selected, Ascending, Span
<1>3. LiteralEvents' = LiteralEvents BY <1>1 DEF LiteralEvents
<1>4. \A e : LitsBefore(e)' = LitsBefore(e) BY <1>3 DEF LitsBefore, Rank
<1>5. Dropped' = Dropped BY DEF Dropped
<1>6. LitEscapes' = LitEscapes BY <1>2, <1>5 DEF LitEscapes
<1>7. \A n : ChunkStart(n)' = ChunkStart(n) BY DEF ChunkStart
<1>8. \A n, b, N : AtBoundary(n, b, N)' <=> AtBoundary(n, b, N) BY <1>7 DEF AtBoundary
<1> QED BY <1>2, <1>3, <1>4, <1>5, <1>6, <1>7, <1>8

\* The plan holds as long as what it speaks of stays.
LEMMA PlanFixed ==
  ASSUME UNCHANGED <<lz, split, positions, meta, distinct, ext, coded, chunk_size>>
  PROVE  ChunkPlan' = ChunkPlan
<1>1. Planned' = Planned BY EventsFixed
<1>2. /\ LiteralsOf' = LiteralsOf /\ LiteralEvents' = LiteralEvents
      /\ \A e : LitsBefore(e)' = LitsBefore(e)
  BY ChunkFixed
<1>3. /\ Received(meta.role)' = Received(meta.role) /\ Received(meta.hi)' = Received(meta.hi)
      /\ Received(meta.lo)' = Received(meta.lo) /\ Received(meta.len)' = Received(meta.len)
  BY DEF Received
<1>4. (\A e \in LiteralEvents : LiteralsOf[LitsBefore(e) + 1] = lz[positions[e]])'
        <=> \A e \in LiteralEvents : LiteralsOf[LitsBefore(e) + 1] = lz[positions[e]]
  BY <1>2
<1>5. (\A n \in 1 .. Len(coded) :
        coded[n] # Len(distinct) =>
          coded[n] \in 0 .. (Len(distinct) - 1) /\ distinct[coded[n] + 1] = LiteralsOf[n])'
      <=> \A n \in 1 .. Len(coded) :
        coded[n] # Len(distinct) =>
          coded[n] \in 0 .. (Len(distinct) - 1) /\ distinct[coded[n] + 1] = LiteralsOf[n]
  BY <1>2
<1>6. (LiteralsOf \in Seq(0 .. MatchFlag) /\ Len(LiteralsOf) = Len(coded)
       /\ Len(coded) = Cardinality(LiteralEvents))'
      <=> (LiteralsOf \in Seq(0 .. MatchFlag) /\ Len(LiteralsOf) = Len(coded)
       /\ Len(coded) = Cardinality(LiteralEvents))
  BY <1>2
<1> QED BY <1>1, <1>3, <1>4, <1>5, <1>6 DEF ChunkPlan

\* Nor do the calls, the counts and the tables.
LEMMA AdaptiveFixed ==
  ASSUME UNCHANGED <<lz, split, positions, meta, distinct, ext, coded, chunk_size, escapes>>
  PROVE  /\ AdaptiveCalls' = AdaptiveCalls /\ AdaptiveLits' = AdaptiveLits
         /\ \A n : CountsAfter(n)' = CountsAfter(n)
         /\ \A n : TableAt(n)' = TableAt(n)
         /\ ChunkPlan' = ChunkPlan /\ DroppedListed' = DroppedListed
         /\ Adaptive!Slots' = Adaptive!Slots
<1>1. \A e, l, m : Part(e, l, m)' = Part(e, l, m) BY EventsFixed
<1>2. /\ LiteralsOf' = LiteralsOf /\ Dropped' = Dropped
      /\ \A e : LitsBefore(e)' = LitsBefore(e)
      /\ \A n : ChunkStart(n)' = ChunkStart(n)
  BY ChunkFixed
<1>3. Adaptive!Slots' = Adaptive!Slots /\ Adaptive!k' = Adaptive!k
  BY DEF Adaptive!Slots, Adaptive!k, Adaptive!escape_local
<1>4. \A s : Slotted(s)' = Slotted(s) BY DEF Slotted
<1>5. \A n : CountsAfter(n)' = CountsAfter(n)
  <2>1. \A s, n : Upto(Slotted(s), n)' = Upto(Slotted(s), n) BY <1>4 DEF Upto, Rank
  <2> QED BY <2>1, <1>3 DEF CountsAfter
<1>6. \A n : TableAt(n)' = TableAt(n) BY <1>3, <1>5 DEF TableAt
<1>7. AdaptiveLits' = AdaptiveLits
  <2>1. \A n : AdaptiveCall(n)' = AdaptiveCall(n) BY <1>2, <1>6 DEF AdaptiveCall
  <2> QED BY <2>1, <1>2 DEF AdaptiveLits
<1>8. AdaptiveCalls' = AdaptiveCalls BY <1>1, <1>7 DEF AdaptiveCalls, Parts
<1>9. ChunkPlan' = ChunkPlan BY PlanFixed
<1>10. DroppedListed' = DroppedListed
  <2>1. Selected(LiteralsOf, Dropped)' = Selected(LiteralsOf, Dropped) BY <1>2 DEF Selected, Ascending
  <2> QED BY <2>1 DEF DroppedListed
<1> QED BY <1>3, <1>5, <1>6, <1>7, <1>8, <1>9, <1>10

\* What is encoded is one of the inputs.
LEMMA AdaptiveTyped ==
  ASSUME AdaptiveTypes
  PROVE  lz \in Seq(0 .. MatchFlag) /\ Len(lz) \in Nat /\ BytesOnly(lz) /\ DOMAIN lz = 1 .. Len(lz)
<1>1. lz \in Seq(0 .. MatchFlag) BY ModesAssumption DEF AdaptiveTypes, Adaptive!AdaptiveAssumption
<1>2. BytesOnly(lz) BY BytesAssumption DEF AdaptiveTypes
<1> QED BY <1>1, <1>2

\* A sequence of calls for each event, whatever the one call of an event is.
LEMMA AdaptiveLitsTyped == Typed(AdaptiveLits)
<1> DEFINE C(e) == Call(coded[LitsBefore(e) + 1], TableAt(ChunkStart(LitsBefore(e))))
           S == {C(e) : e \in 1 .. Len(positions)}
<1>1. ASSUME NEW e \in 1 .. Len(positions)
      PROVE  AdaptiveLits[e] \in Seq(S) /\ AdaptiveLits[e] # <<>>
  <2> DEFINE c == C(e)
  <2>1. c \in S /\ AdaptiveLits[e] = <<c>> BY DEF AdaptiveLits, AdaptiveCall
  <2> HIDE DEF c, S
  <2>2. <<c>> \in Seq(S) /\ <<c>> # <<>> BY <2>1
  <2> QED BY <2>1, <2>2
<1>2. AdaptiveLits \in [1 .. Len(positions) -> Seq(S)]
  <2> HIDE DEF S
  <2> QED BY <1>1 DEF AdaptiveLits
<1> QED BY <1>1, <1>2 DEF Typed

\* Each literal adds a token to the escape list, or nothing.
LEMMA LitEscapesTyped ==
  ASSUME ChunkPlan
  PROVE  LitEscapes \in Seq(Seq(0 .. MatchFlag)) /\ Len(LitEscapes) = Len(coded) /\ Len(coded) \in Nat
<1>0. Len(coded) \in Nat /\ Len(LiteralsOf) = Len(coded) /\ LiteralsOf \in Seq(0 .. MatchFlag)
  BY DEF ChunkPlan
<1>1. ASSUME NEW n \in 1 .. Len(coded)
      PROVE  (IF n \in Dropped THEN <<LiteralsOf[n]>> ELSE <<>>) \in Seq(0 .. MatchFlag)
  <2> DEFINE s == LiteralsOf[n]
  <2>1. s \in 0 .. MatchFlag BY <1>0, ElementOfSeq
  <2> HIDE DEF s
  <2>2. <<s>> \in Seq(0 .. MatchFlag) /\ <<>> \in Seq(0 .. MatchFlag) BY <2>1
  <2> QED BY <2>2 DEF s
<1>2. LitEscapes \in [1 .. Len(coded) -> Seq(0 .. MatchFlag)] BY <1>1 DEF LitEscapes
<1> QED BY <1>0, <1>2, FunctionIsSequence

\* A table names every slot, whatever has been counted.
LEMMA TablesNameSlots ==
  ASSUME NormalizeKeeps, NEW h \in Nat, Adaptive!Slots = 0 .. h, h + 1 <= RANS_M, NEW n \in Nat,
         Len(coded) \in Nat, n <= Len(coded)
  PROVE  Active(TableAt(n)) = 0 .. h /\ Cardinality(0 .. h) <= RANS_M
<1> DEFINE raw == CountsAfter(n)
           total == Adaptive!k + n
<1>1. IsFiniteSet(0 .. h) /\ Cardinality(0 .. h) = h + 1 BY RangeFinite
<1>2. Adaptive!k = h + 1 BY <1>1, AdaptiveIsCoder DEF Adaptive!k
<1>3. raw \in [0 .. h -> Nat] /\ \A s \in 0 .. h : raw[s] > 0
  <2>1. \A s \in 0 .. h : Upto(Slotted(s), n) \in Nat
    <3> TAKE s \in 0 .. h
    <3>1. Slotted(s) \in SUBSET (1 .. Len(coded)) BY DEF Slotted
    <3> QED BY <3>1, UptoMore
  <2> QED BY <2>1 DEF CountsAfter
<1>4. Active(raw) = 0 .. h BY <1>3 DEF Active
<1>5. total \in Nat /\ total # 0 BY <1>2
<1>6. 0 \in 0 .. h OBVIOUS
<1> HIDE DEF raw, total
<1>7. (total = 0 <=> Active(raw) = {}) /\ Cardinality(Active(raw)) <= RANS_M BY <1>1, <1>4, <1>5, <1>6
<1>8. Active(Freq(raw, total)) = Active(raw) BY <1>3, <1>5, <1>7 DEF NormalizeKeeps, Normalizes
<1> QED BY <1>1, <1>4, <1>8 DEF TableAt, raw, total

\* The state after the collecting.
Highest == IF ext THEN Len(distinct) ELSE Len(distinct) - 1

AdaptiveCollected ==
  /\ AdaptiveTypes /\ phase = "snapshot"
  /\ stack = <<>> /\ out = <<>> /\ chunk_stats = <<>>
  /\ lit_pos = 0 /\ boundary = 0 /\ escape_pos = 0
  /\ positions = IF split THEN Positions(lz) ELSE [n \in DOMAIN lz |-> n]
  /\ split => meta = MetaTables(lz, positions, Byte)
  /\ distinct = Ascending(KeptOf) /\ ext = (split \/ KeptOf # ValuesOf(LiteralsOf))
  /\ coded = [n \in DOMAIN LiteralsOf |->
                IF LiteralsOf[n] \in KeptOf THEN Rank(KeptOf, LiteralsOf[n]) ELSE Cardinality(KeptOf)]
  /\ escapes = Selected(LiteralsOf, {n \in DOMAIN LiteralsOf : LiteralsOf[n] \notin KeptOf})
  /\ chunk_size \in Nat \ {0}
  /\ cum_counts = [s \in 0 .. Highest |-> 1]

\* The literals as local indices among the kept ones.
LocalsOf(L, K) == [n \in DOMAIN L |-> IF L[n] \in K THEN Rank(K, L[n]) ELSE Cardinality(K)]

\* What the encoder collects is such a plan, whatever the cap.
LEMMA ChunksPlanned ==
  ASSUME NormalizeKeeps, lz \in Seq(0 .. MatchFlag), BytesOnly(lz), split \in BOOLEAN,
         positions = IF split THEN Positions(lz) ELSE [n \in DOMAIN lz |-> n],
         split => meta = MetaTables(lz, positions, Byte),
         NEW cap \in Nat, NEW K, K = Capped(LiteralsOf, cap), coded = LocalsOf(LiteralsOf, K),
         distinct = Ascending(K), ext \in BOOLEAN, chunk_size \in Nat \ {0}
  PROVE  /\ ChunkPlan
         /\ Len(distinct) = Cardinality(K) /\ Len(distinct) \in 0 .. cap
         /\ {n \in DOMAIN LiteralsOf : LiteralsOf[n] \notin K} = Dropped
         /\ K = ValuesOf(LiteralsOf) => \A n \in 1 .. Len(LiteralsOf) : coded[n] # Len(distinct)
<1> DEFINE L == LiteralsOf
<1> HIDE DEF L
<1>0. L = LiteralsOf BY DEF L
<1>1. MatchFlag \in Nat BY CoderAssumption
<1>2. Planned BY EventsPlanned
<1>3. /\ L \in Seq(0 .. MatchFlag) /\ Len(L) = Cardinality(LiteralEvents)
      /\ \A e \in LiteralEvents : L[LitsBefore(e) + 1] = lz[positions[e]]
  BY <1>0, LiteralsInOrder
<1>7. /\ distinct \in Seq(0 .. MatchFlag) /\ Len(distinct) = Cardinality(K) /\ Len(distinct) \in 0 .. cap
      /\ coded \in Seq(0 .. Len(distinct)) /\ Len(coded) = Len(L)
      /\ \A n \in 1 .. Len(L) :
           /\ L[n] \in K <=> coded[n] # Len(distinct)
           /\ coded[n] # Len(distinct) => coded[n] \in 0 .. (Len(distinct) - 1) /\ distinct[coded[n] + 1] = L[n]
      /\ K = ValuesOf(L) => \A n \in 1 .. Len(L) : coded[n] # Len(distinct)
  <2>1. /\ distinct = Ascending(K) /\ K = Capped(L, cap) /\ cap \in Nat /\ L \in Seq(0 .. MatchFlag)
        /\ coded = [n \in DOMAIN L |-> IF L[n] \in K THEN Rank(K, L[n]) ELSE Cardinality(K)]
    BY <1>0, <1>3 DEF LocalsOf
  <2> QED BY ONLY <2>1, CodedFits
<1>8. DOMAIN L = 1 .. Len(L) /\ Len(L) \in Nat BY <1>3
<1>9. {n \in DOMAIN L : L[n] \notin K} = Dropped BY <1>0, <1>7, <1>8 DEF Dropped
<1>10. split => /\ Received(meta.role) = meta.role /\ Received(meta.hi) = meta.hi
                /\ Received(meta.lo) = meta.lo /\ Received(meta.len) = meta.len
  <2> SUFFICES ASSUME split
               PROVE  /\ Received(meta.role) = meta.role /\ Received(meta.hi) = meta.hi
                      /\ Received(meta.lo) = meta.lo /\ Received(meta.len) = meta.len
    OBVIOUS
  <2>1. meta = MetaTables(lz, positions, Byte) /\ positions = Positions(lz)
    OBVIOUS
  <2> QED BY <2>1, <1>1, MetaFits
<1>12. ChunkPlan
  <2>1. ~split => positions = [n \in DOMAIN lz |-> n] OBVIOUS
  <2> QED BY <2>1, <1>0, <1>2, <1>3, <1>7, <1>10 DEF ChunkPlan
<1> QED BY <1>0, <1>7, <1>9, <1>12

\* What the collecting settles: every literal has a slot, within the tables.
LEMMA CollectedPlan ==
  NormalizeKeeps /\ AdaptiveCollected =>
    /\ ChunkPlan /\ DroppedListed /\ Adaptive!Slots = 0 .. Highest
    /\ \A n \in 1 .. Len(coded) : coded[n] \in 0 .. Highest
    /\ Len(coded) > 0 => Highest \in Nat /\ Highest + 1 <= RANS_M
<1> SUFFICES ASSUME NormalizeKeeps, AdaptiveCollected
             PROVE  /\ ChunkPlan /\ DroppedListed /\ Adaptive!Slots = 0 .. Highest
                    /\ \A n \in 1 .. Len(coded) : coded[n] \in 0 .. Highest
                    /\ Len(coded) > 0 => Highest \in Nat /\ Highest + 1 <= RANS_M
  OBVIOUS
<1> DEFINE L == LiteralsOf
           K == KeptOf
           cap == RANS_M - 1
<1>1. /\ lz \in Seq(0 .. MatchFlag) /\ BytesOnly(lz) /\ split \in BOOLEAN
      /\ positions = IF split THEN Positions(lz) ELSE [n \in DOMAIN lz |-> n]
      /\ split => meta = MetaTables(lz, positions, Byte)
  BY AdaptiveTyped DEF AdaptiveCollected, AdaptiveTypes
<1>4. /\ K = Capped(L, cap) /\ distinct = Ascending(K) /\ ext = (split \/ K # ValuesOf(L))
      /\ coded = [n \in DOMAIN L |-> IF L[n] \in K THEN Rank(K, L[n]) ELSE Cardinality(K)]
      /\ escapes = Selected(L, {n \in DOMAIN L : L[n] \notin K})
      /\ chunk_size \in Nat \ {0}
  BY DEF AdaptiveCollected, KeptOf
<1>5. L = LiteralsOf OBVIOUS
<1>6. cap \in Nat /\ RANS_M \in Nat /\ cap = RANS_M - 1 BY CoderAssumption
<1>11. ext \in BOOLEAN BY <1>1, <1>4
<1> HIDE DEF L, K, cap
<1>12. coded = LocalsOf(L, K) BY <1>4 DEF LocalsOf
<1>7. /\ ChunkPlan /\ Len(distinct) = Cardinality(K) /\ Len(distinct) \in 0 .. cap
      /\ {n \in DOMAIN L : L[n] \notin K} = Dropped
      /\ K = ValuesOf(L) => \A n \in 1 .. Len(L) : coded[n] # Len(distinct)
  BY ONLY NormalizeKeeps, <1>1, <1>4, <1>5, <1>6, <1>11, <1>12, ChunksPlanned
<1>8. /\ coded \in Seq(0 .. Len(distinct)) /\ Len(coded) = Len(L) /\ Len(L) \in Nat
      /\ \A n \in 1 .. Len(coded) : coded[n] # Len(distinct) => coded[n] \in 0 .. (Len(distinct) - 1)
  BY <1>5, <1>7 DEF ChunkPlan
<1>9. DroppedListed BY <1>4, <1>5, <1>7 DEF DroppedListed
<1>13. Adaptive!Slots = 0 .. Highest BY DEF Adaptive!Slots, Adaptive!escape_local, Highest
<1>14. ASSUME NEW n \in 1 .. Len(coded) PROVE coded[n] \in 0 .. Highest
  <2>1. Len(distinct) \in Nat /\ coded[n] \in 0 .. Len(distinct) BY <1>7, <1>8, ElementOfSeq
  <2>2. CASE ext BY <2>1, <2>2 DEF Highest
  <2>3. CASE ~ext
    <3>1. K = ValuesOf(L) BY <2>3, <1>4
    <3>2. coded[n] \in 0 .. (Len(distinct) - 1) BY <3>1, <1>7, <1>8
    <3> QED BY <3>2, <2>3 DEF Highest
  <2> QED BY <2>2, <2>3, <1>11
<1>15. ASSUME Len(coded) > 0 PROVE Highest \in Nat /\ Highest + 1 <= RANS_M
  <2>1. 1 \in 1 .. Len(coded) BY <1>15, <1>8
  <2>2. coded[1] \in 0 .. Highest BY <2>1, <1>14
  <2>3. Highest \in Int /\ Highest + 1 <= RANS_M
    <3>1. CASE ext BY <3>1, <1>6, <1>7 DEF Highest
    <3>2. CASE ~ext BY <3>2, <1>6, <1>7 DEF Highest
    <3> QED BY <3>1, <3>2, <1>11
  <2> QED BY <2>2, <2>3
<1> QED BY <1>7, <1>9, <1>13, <1>14, <1>15

\* The calls of every mode with split metadata, given those for its literals.
LEMMA EventAccepted ==
  ASSUME NormalizeKeeps, lz \in Seq(0 .. MatchFlag), BytesOnly(lz), split \in BOOLEAN,
         positions = IF split THEN Positions(lz) ELSE [n \in DOMAIN lz |-> n],
         NEW m, split => m = MetaTables(lz, positions, Byte),
         NEW lits, Typed(lits), NEW e \in 1 .. Len(positions),
         Width(positions[e]) # 4 => AllAccepted(lits[e])
  PROVE  AllAccepted(Parts(lits, m)[e])
<1>0. Planned BY EventsPlanned
<1>1. MatchFlag \in Nat BY CoderAssumption
<1> DEFINE p == positions[e]
<1>2. /\ Width(p) \in {1, 4} /\ (split => Width(p) = Span(lz, p)) /\ (Width(p) = 4 => split)
  BY <1>0, EventFits
<1>3. ASSUME split
      PROVE  /\ Accepted(Call(IF Span(lz, p) = 4 THEN 1 ELSE 0, m.role))
             /\ Span(lz, p) = 4 =>
                  /\ Accepted(Call(lz[p + 1], m.hi)) /\ Accepted(Call(lz[p + 2], m.lo))
                  /\ Accepted(Call(lz[p + 3], m.len))
  <2>1. positions = Positions(lz) /\ m = MetaTables(lz, positions, Byte) BY <1>3
  <2>2. /\ \A u \in {m.role, m.hi, m.lo, m.len} : Cardinality(Active(u)) <= RANS_M
        /\ \A i \in 1 .. Len(positions) : (IF Span(lz, positions[i]) = 4 THEN 1 ELSE 0) \in Active(m.role)
        /\ \A i \in Events(lz, positions, 4) :
             /\ lz[positions[i] + 1] \in Active(m.hi) /\ lz[positions[i] + 2] \in Active(m.lo)
             /\ lz[positions[i] + 3] \in Active(m.len)
    BY <1>1, <2>1, MetaFits
  <2>3. Span(lz, p) = 4 => e \in Events(lz, positions, 4)
    <3>1. DOMAIN positions = 1 .. Len(positions) BY <1>0 DEF Planned
    <3> QED BY <3>1 DEF Events
  <2> QED BY <2>2, <2>3 DEF Accepted, Call
<1>4. Width(p) = 4 => /\ Accepted(Call(lz[p + 3], m.len)) /\ Accepted(Call(lz[p + 2], m.lo))
                      /\ Accepted(Call(lz[p + 1], m.hi)) /\ Accepted(Call(1, m.role))
  BY <1>2, <1>3
<1>5. Width(p) # 4 => AllAccepted(lits[e]) /\ (split => Accepted(Call(0, m.role)))
  <2>1. Width(p) # 4 /\ split => Accepted(Call(0, m.role)) BY <1>2, <1>3
  <2> QED BY <2>1
<1> HIDE DEF p
<1>6. p = positions[e] BY DEF p
<1> QED BY <1>0, <1>4, <1>5, <1>6, PartAccepted

\* A call that is accepted, alone or before another.
LEMMA OneAccepted ==
  ASSUME NEW c, Accepted(c)
  PROVE  AllAccepted(<<c>>) /\ \A d : Accepted(d) => AllAccepted(<<c, d>>)
<1>1. /\ DOMAIN <<c>> = {1} /\ <<c>>[1] = c
      /\ \A d : DOMAIN <<c, d>> = {1, 2} /\ <<c, d>>[1] = c /\ <<c, d>>[2] = d
  OBVIOUS
<1> QED BY <1>1 DEF AllAccepted

\* The state after the collecting satisfies the invariant.
LEMMA AdaptiveCollectedInv == NormalizeKeeps /\ AdaptiveCollected => AdaptiveInv
<1> SUFFICES ASSUME NormalizeKeeps, AdaptiveCollected PROVE AdaptiveInv OBVIOUS
<1>1. /\ AdaptiveTypes /\ phase = "snapshot" /\ stack = <<>> /\ out = <<>> /\ chunk_stats = <<>>
      /\ lit_pos = 0 /\ boundary = 0 /\ escape_pos = 0
      /\ split => meta = MetaTables(lz, positions, Byte)
      /\ positions = IF split THEN Positions(lz) ELSE [n \in DOMAIN lz |-> n]
      /\ cum_counts = [s \in 0 .. Highest |-> 1]
  BY DEF AdaptiveCollected
<1>2. /\ ChunkPlan /\ DroppedListed /\ Adaptive!Slots = 0 .. Highest
      /\ \A n \in 1 .. Len(coded) : coded[n] \in 0 .. Highest
      /\ Len(coded) > 0 => Highest \in Nat /\ Highest + 1 <= RANS_M
  BY CollectedPlan
<1>3. Planned /\ Len(coded) \in Nat /\ chunk_size \in Nat \ {0} /\ Len(coded) = Cardinality(LiteralEvents)
  BY <1>2 DEF ChunkPlan
<1>4. ASSUME NEW e \in 1 .. Len(positions) PROVE AllAccepted(AdaptiveCalls[e])
  <2>1. ASSUME Width(positions[e]) # 4 PROVE AllAccepted(AdaptiveLits[e])
    <3> DEFINE n == LitsBefore(e)
    <3>1. n \in Nat /\ n < Len(coded)
      <4>1. Len(positions) \in Nat /\ e \in 1 .. (Len(positions) + 1) BY <1>3, EventFits
      <4> QED BY <4>1, <2>1, <1>3, LitsSteps
    <3> HIDE DEF n
    <3>2. n + 1 \in 1 .. Len(coded) /\ Len(coded) > 0 BY <3>1, <1>3
    <3>3. ChunkStart(n) \in Nat /\ ChunkStart(n) <= Len(coded)
      <4>1. ChunkStart(n) \in Nat /\ ChunkStart(n) <= n BY <3>1, <1>3, NextInChunk
      <4> QED BY <4>1, <3>1, <1>3
    <3> DEFINE t == TableAt(ChunkStart(n))
    <3>4. Active(t) = 0 .. Highest /\ Cardinality(Active(t)) <= RANS_M
      BY <3>2, <3>3, <1>2, <1>3, TablesNameSlots
    <3>5. Accepted(Call(coded[n + 1], t)) BY <3>2, <3>4, <1>2 DEF Accepted, Call
    <3>6. AdaptiveLits[e] = <<Call(coded[n + 1], t)>> BY DEF AdaptiveLits, AdaptiveCall, n
    <3> QED BY <3>5, <3>6, OneAccepted
  <2>2. lz \in Seq(0 .. MatchFlag) /\ BytesOnly(lz) /\ split \in BOOLEAN
    BY <1>1, AdaptiveTyped DEF AdaptiveTypes
  <2>3. Typed(AdaptiveLits) BY AdaptiveLitsTyped
  <2> QED BY <2>1, <2>2, <2>3, <1>1, EventAccepted DEF AdaptiveCalls
<1>5. AdaptivePlan BY <1>2, <1>4 DEF AdaptivePlan
<1>6. AdaptiveHistory
  <2>1. chunk_stats \in Seq({}) /\ Len(chunk_stats) = 0 BY <1>1
  <2>2. Len(chunk_stats) * chunk_size = 0 BY <2>1, <1>3
  <2>3. Least(0, Len(coded)) = 0 BY <1>3 DEF Least
  <2>4. cum_counts = CountsAfter(0)
    <3>1. \A s : Upto(Slotted(s), 0) = 0
      <4> TAKE s
      <4>1. Slotted(s) \in SUBSET (1 .. Len(coded)) BY DEF Slotted
      <4>2. 0 \in Nat /\ 0 <= 0 OBVIOUS
      <4> QED BY <4>1, <4>2, <1>3, UptoMore
    <3> QED BY <3>1, <1>1, <1>2 DEF CountsAfter
  <2>5. \A i \in 1 .. Len(chunk_stats) : chunk_stats[i] = TableAt((i - 1) * chunk_size) BY <2>1
  <2>6. cum_counts = CountsAfter(Least(Len(chunk_stats) * chunk_size, Len(coded))) BY <2>2, <2>3, <2>4
  <2> QED BY <1>1, <2>1, <2>5, <2>6 DEF AdaptiveHistory
<1> QED BY <1>1, <1>5, <1>6
        DEF AdaptiveInv, AdaptiveIdle, AdaptiveEncoding, AdaptiveDecoding

-----------------------------------------------------------------------------
\* The adaptive modes: the encoder takes its tables, chunk by chunk.

\* The collecting leads to that state.
LEMMA AdaptiveCollects ==
  AdaptiveInv /\ Adaptive!Collect => AdaptiveCollected'
<1> SUFFICES ASSUME AdaptiveInv, Adaptive!Collect PROVE AdaptiveCollected' OBVIOUS
<1> DEFINE ps == IF split THEN Positions(lz) ELSE [n \in DOMAIN lz |-> n]
           L == IF split THEN Literals(lz, ps) ELSE lz
           K == Capped(L, RANS_M - 1)
           slot == split \/ K # ValuesOf(L)
           size == Cardinality(K) + (IF slot THEN 1 ELSE 0)
<1>1. /\ phase = "collect" /\ lz' = lz /\ split' = split /\ stack' = <<>> /\ phase' = "snapshot"
      /\ out' = <<>> /\ chunk_stats' = <<>> /\ lit_pos' = 0 /\ boundary' = 0 /\ escape_pos' = 0
      /\ lz \in AdaptiveInputs /\ split \in BOOLEAN
  BY DEF AdaptiveInv, AdaptiveTypes, AdaptiveIdle, Adaptive!Collect, Adaptive!inputVars,
         Adaptive!encoderVars, Adaptive!literalVars
<1>2. /\ positions' = ps
      /\ meta' = IF split THEN MetaTables(lz, ps, Byte) ELSE <<>>
      /\ distinct' = Ascending(K) /\ ext' = slot
      /\ coded' = [n \in DOMAIN L |->
                    IF L[n] \in K THEN Cardinality({t \in K : t < L[n]}) ELSE Cardinality(K)]
      /\ escapes' = Selected(L, {n \in DOMAIN L : L[n] \notin K})
      /\ chunk_size' = Adaptive!_adaptive_chunk_size(Len(L), size)
      /\ cum_counts' = [s \in 0 .. (size - 1) |-> 1]
  <2>1. positions' = ps BY AdaptiveIsCoder DEF Adaptive!Collect
  <2> HIDE DEF ps
  <2>2. meta' = IF split THEN MetaTables(lz, ps, Byte) ELSE <<>>
    BY <2>1, AdaptiveIsCoder DEF Adaptive!Collect
  <2>3. PICK literals \in {IF split THEN Adaptive!Literals(lz, positions') ELSE lz} :
          \E kept \in {Adaptive!Kept(literals)} :
          LET Local(s) == IF s \in kept THEN Adaptive!Cardinality({t \in kept : t < s}) ELSE Adaptive!Cardinality(kept)
              slt == split \/ kept # Adaptive!ValuesOf(literals)
              sz == Adaptive!Cardinality(kept) + (IF slt THEN 1 ELSE 0)
          IN  /\ distinct' = Adaptive!Ascending(kept)
              /\ ext' = slt
              /\ coded' = [n \in DOMAIN literals |-> Local(literals[n])]
              /\ escapes' = Adaptive!Selected(literals, {n \in DOMAIN literals : literals[n] \notin kept})
              /\ chunk_size' = Adaptive!_adaptive_chunk_size(Len(literals), sz)
              /\ cum_counts' = [s \in 0 .. (sz - 1) |-> 1]
    BY DEF Adaptive!Collect
  <2>4. literals = L BY <2>1, <2>3, AdaptiveIsCoder
  <2>5. Adaptive!Kept(L) = K BY AdaptiveIsCoder DEF Adaptive!Kept
  <2> HIDE DEF L, K
  <2> QED BY <2>1, <2>2, <2>3, <2>4, <2>5, AdaptiveIsCoder
<1>3. Len(L) \in Nat /\ Cardinality(K) \in Nat
  <2>1. lz \in Seq(0 .. MatchFlag) /\ BytesOnly(lz) BY <1>1, AdaptiveTyped DEF AdaptiveInv
  <2>2. MatchFlag \in Nat /\ RANS_M - 1 \in Nat BY CoderAssumption
  <2>3. L \in Seq(0 .. MatchFlag)
    <3>1. CASE split
      <4>1. L = Literals(lz, Positions(lz)) BY <3>1
      <4> QED BY <4>1, <2>1, <2>2, SplitTyped
    <3>2. CASE ~split BY <3>2, <2>1
    <3> QED BY <3>1, <3>2
  <2> HIDE DEF L
  <2>4. L \in Seq(Nat) BY <2>2, <2>3
  <2> QED BY <2>2, <2>4, CappedFits
<1>4. LiteralsOf' = L
  <2>1. CASE split
    <3>1. LiteralsOf' = Literals(lz, positions)' BY <1>1, <2>1 DEF LiteralsOf
    <3>2. Literals(lz, positions)' = Literals(lz', positions')
      BY DEF Literals, Values, Events, Selected, Ascending, Span
    <3> QED BY <3>1, <3>2, <1>1, <1>2, <2>1
  <2>2. CASE ~split
    <3>1. LiteralsOf' = lz' BY <1>1, <2>2 DEF LiteralsOf
    <3> QED BY <3>1, <1>1, <2>2
  <2> QED BY <2>1, <2>2
<1> HIDE DEF L
<1>5. KeptOf' = K
  <2>1. KeptOf' = Capped(LiteralsOf', RANS_M - 1) BY DEF KeptOf, Capped, CountOf, ValuesOf
  <2> QED BY <2>1, <1>4
<1> HIDE DEF K
<1>6. chunk_size' \in Nat \ {0}
  <2> DEFINE x == (Len(L) * size) \div ADAPTIVE_WORK_BUDGET
  <2>1. size \in Nat BY <1>3
  <2>2. ADAPTIVE_MIN_CHUNK \in Nat \ {0} /\ ADAPTIVE_WORK_BUDGET \in Nat \ {0}
    BY ModesAssumption DEF Adaptive!AdaptiveAssumption
  <2>3. Len(L) * size \in Nat BY <2>1, <1>3
  <2>4. x \in Nat BY <2>2, <2>3, QuotientBounds
  <2>5. chunk_size' = IF ADAPTIVE_MIN_CHUNK > x THEN ADAPTIVE_MIN_CHUNK ELSE x
    BY <1>2 DEF Adaptive!_adaptive_chunk_size, Adaptive!Larger
  <2> HIDE DEF x
  <2> QED BY <2>2, <2>4, <2>5
<1>7. positions' = IF split' THEN Positions(lz') ELSE [n \in DOMAIN lz' |-> n] BY <1>1, <1>2
<1>8. split' => meta' = MetaTables(lz, positions, Byte)'
  <2>1. MetaTables(lz, positions, Byte)' = MetaTables(lz', positions', Byte)
    BY DEF MetaTables, Table, Tally, CountOf, Roles, Field, Values, Events, Selected, Ascending, Span
  <2> QED BY <2>1, <1>1, <1>2
<1> HIDE DEF ps
<1>9. ext' = (split \/ KeptOf # ValuesOf(LiteralsOf))'
  <2>1. ValuesOf(LiteralsOf)' = ValuesOf(L) BY <1>4 DEF ValuesOf
  <2> QED BY <2>1, <1>1, <1>2, <1>5
<1>10. coded' = [n \in DOMAIN LiteralsOf |->
                IF LiteralsOf[n] \in KeptOf THEN Rank(KeptOf, LiteralsOf[n]) ELSE Cardinality(KeptOf)]'
  BY <1>2, <1>4, <1>5 DEF Rank
<1>11. escapes' = Selected(LiteralsOf, {n \in DOMAIN LiteralsOf : LiteralsOf[n] \notin KeptOf})'
  <2>1. Selected(LiteralsOf, {n \in DOMAIN LiteralsOf : LiteralsOf[n] \notin KeptOf})'
          = Selected(LiteralsOf', {n \in DOMAIN LiteralsOf' : LiteralsOf'[n] \notin KeptOf'})
    BY DEF Selected, Ascending
  <2> QED BY <2>1, <1>2, <1>4, <1>5
<1>12. distinct' = Ascending(KeptOf)'
  <2>1. Ascending(KeptOf)' = Ascending(KeptOf') BY DEF Ascending
  <2> QED BY <2>1, <1>2, <1>5
<1>13. cum_counts' = [s \in 0 .. Highest |-> 1]'
  <2>1. Len(distinct') = Cardinality(K)
    <3>1. distinct' = [n \in 1 .. Cardinality(K) |-> CHOOSE i \in K : Cardinality({j \in K : j < i}) = n - 1]
      BY <1>2 DEF Ascending
    <3> QED BY <3>1, <1>3
  <2>2. Highest' = size - 1
    <3>1. Highest' = IF ext' THEN Len(distinct') ELSE Len(distinct') - 1 BY DEF Highest
    <3>2. ext' = slot BY <1>2
    <3> HIDE DEF slot
    <3>3. CASE slot BY <3>1, <3>2, <3>3, <2>1, <1>3
    <3>4. CASE ~slot BY <3>1, <3>2, <3>4, <2>1, <1>3
    <3> QED BY <3>3, <3>4
  <2> HIDE DEF size
  <2> QED BY <2>2, <1>2
<1>14. AdaptiveTypes' BY <1>1 DEF AdaptiveTypes
<1> QED BY <1>1, <1>6, <1>7, <1>8, <1>9, <1>10, <1>11, <1>12, <1>13, <1>14 DEF AdaptiveCollected

\* So the collecting establishes what the invariant says of the later phases.
LEMMA AdaptiveCollectsInv == NormalizeKeeps /\ AdaptiveInv /\ Adaptive!Collect => AdaptiveInv'
<1>1. (NormalizeKeeps /\ AdaptiveCollected => AdaptiveInv)' BY AdaptiveCollectedInv, PTL
<1>2. NormalizeKeeps => NormalizeKeeps'
  BY DEF NormalizeKeeps, Normalizes, Active
<1> QED BY <1>1, <1>2, AdaptiveCollects

\* What the encoder settles before it encodes stays as it is.
LEMMA AdaptivePlanStays ==
  ASSUME AdaptiveInv, phase # "collect", phase' # "collect",
         UNCHANGED <<lz, split, positions, meta, distinct, ext, coded, chunk_size, escapes>>
  PROVE  AdaptivePlan'
<1>1. /\ ChunkPlan /\ DroppedListed /\ (\A n \in 1 .. Len(coded) : coded[n] \in Adaptive!Slots)
      /\ \A e \in 1 .. Len(positions) : AllAccepted(AdaptiveCalls[e])
  BY DEF AdaptiveInv, AdaptivePlan
<1>2. /\ AdaptiveCalls' = AdaptiveCalls /\ ChunkPlan' = ChunkPlan
      /\ DroppedListed' = DroppedListed /\ Adaptive!Slots' = Adaptive!Slots
  BY AdaptiveFixed
<1>3. (\A e \in 1 .. Len(positions) : AllAccepted(AdaptiveCalls[e]))'
  BY <1>1, <1>2 DEF AllAccepted, Accepted, Active
<1>4. (\A n \in 1 .. Len(coded) : coded[n] \in Adaptive!Slots)' BY <1>1, <1>2
<1> QED BY <1>1, <1>2, <1>3, <1>4 DEF AdaptivePlan

\* Nor does what it has counted, unless it counts a chunk.
LEMMA AdaptiveHistoryStays ==
  ASSUME AdaptiveInv, phase # "collect", phase' # "collect",
         phase' # "snapshot" => Len(coded) <= Len(chunk_stats) * chunk_size,
         UNCHANGED <<lz, split, positions, meta, distinct, ext, coded, chunk_size, escapes,
                     chunk_stats, cum_counts>>
  PROVE  AdaptiveHistory'
<1>1. /\ \E T : chunk_stats \in Seq(T)
      /\ \A i \in 1 .. Len(chunk_stats) : chunk_stats[i] = TableAt((i - 1) * chunk_size)
      /\ cum_counts = CountsAfter(Least(Len(chunk_stats) * chunk_size, Len(coded)))
  BY DEF AdaptiveInv, AdaptiveHistory
<1>2. /\ \A n : CountsAfter(n)' = CountsAfter(n)
      /\ \A n : TableAt(n)' = TableAt(n)
  BY AdaptiveFixed
<1>3. (\A i \in 1 .. Len(chunk_stats) : chunk_stats[i] = TableAt((i - 1) * chunk_size))' BY <1>1, <1>2
<1>4. (cum_counts = CountsAfter(Least(Len(chunk_stats) * chunk_size, Len(coded))))'
  <2>1. Least(Len(chunk_stats) * chunk_size, Len(coded))' = Least(Len(chunk_stats) * chunk_size, Len(coded))
    BY DEF Least
  <2> DEFINE n == Least(Len(chunk_stats) * chunk_size, Len(coded))
  <2>2. n' = n BY <2>1
  <2> HIDE DEF n
  <2>3. CountsAfter(n)' = CountsAfter(n) BY <1>2, <2>2 DEF CountsAfter, Upto, Rank, Slotted, Adaptive!Slots, Adaptive!escape_local
  <2>4. cum_counts' = CountsAfter(n) BY <1>1 DEF n
  <2> QED BY <2>3, <2>4 DEF n
<1>5. (\E T : chunk_stats \in Seq(T))' BY <1>1
<1> QED BY <1>3, <1>4, <1>5 DEF AdaptiveHistory

\* A chunk more: the table is taken before its literals are counted.
LEMMA AdaptiveSnapshots == AdaptiveInv /\ Adaptive!SnapshotChunk => AdaptiveInv'
<1> SUFFICES ASSUME AdaptiveInv, Adaptive!SnapshotChunk PROVE AdaptiveInv' OBVIOUS
<1> DEFINE L == Len(chunk_stats)
           N == Len(coded)
           c == chunk_size
           f == L * c
           b == Least(f + c, N)
<1>1. /\ phase = "snapshot" /\ f < N
      /\ chunk_stats' = Append(chunk_stats, Freq(cum_counts, Adaptive!k + f))
      /\ cum_counts' = [s \in Adaptive!Slots |->
                           cum_counts[s] + Cardinality({j \in (f + 1) .. b : coded[j] = s})]
      /\ UNCHANGED <<lz, split, phase, positions, meta, distinct, ext, coded, chunk_size, escapes,
                     stack, out, lit_pos, boundary, escape_pos>>
  BY AdaptiveIsCoder
     DEF Adaptive!SnapshotChunk, Adaptive!from, Adaptive!n_lit, Adaptive!Counted, Adaptive!WithChunk,
         Adaptive!Chunk, Adaptive!Smaller, Least, Adaptive!inputVars, Adaptive!planVars, Adaptive!literalVars
<1>2. /\ N \in Nat /\ c \in Nat /\ c > 0
      /\ \E T : chunk_stats \in Seq(T)
      /\ \A i \in 1 .. L : chunk_stats[i] = TableAt((i - 1) * c)
      /\ cum_counts = CountsAfter(Least(f, N))
  BY <1>1 DEF AdaptiveInv, AdaptivePlan, ChunkPlan, AdaptiveHistory
<1>3. L \in Nat /\ (L + 1) * c = f + c /\ f \in Nat BY <1>2
<1>4. cum_counts = CountsAfter(f) BY <1>1, <1>2 DEF Least
<1>5. AdaptivePlan' BY <1>1, AdaptivePlanStays
<1>6. /\ \A n : CountsAfter(n)' = CountsAfter(n)
      /\ \A n : TableAt(n)' = TableAt(n)
  BY <1>1, AdaptiveFixed
<1> DEFINE t == TableAt(f)
<1>7. chunk_stats' = Append(chunk_stats, t) BY <1>1, <1>4 DEF TableAt
<1> HIDE DEF t, f, c, N
<1>8. /\ \E T : chunk_stats' \in Seq(T)
      /\ Len(chunk_stats') = L + 1
      /\ \A i \in 1 .. (L + 1) : chunk_stats'[i] = TableAt((i - 1) * c)
  <2>1. PICK T : chunk_stats \in Seq(T) BY <1>2
  <2> DEFINE U == T \cup {t}
  <2>2. chunk_stats \in Seq(U) /\ t \in U BY <2>1
  <2> HIDE DEF U
  <2>3. /\ chunk_stats' \in Seq(U) /\ Len(chunk_stats') = L + 1
        /\ \A i \in 1 .. L : chunk_stats'[i] = chunk_stats[i]
        /\ chunk_stats'[L + 1] = t
    BY <2>2, <1>7, AppendProperties
  <2>4. ASSUME NEW i \in 1 .. (L + 1) PROVE chunk_stats'[i] = TableAt((i - 1) * c)
    <3>1. CASE i = L + 1
      <4>1. i - 1 = L BY <3>1, <1>3
      <4> QED BY <4>1, <3>1, <2>3 DEF t, f, c
    <3>2. CASE i # L + 1
      <4>1. i \in 1 .. L BY <3>2, <1>3
      <4> QED BY <4>1, <2>3, <1>2
    <3> QED BY <3>1, <3>2
  <2> QED BY <2>3, <2>4
<1>9. cum_counts' = CountsAfter(b)
  <2>1. f <= b /\ b \in Nat BY <1>1, <1>2, <1>3 DEF Least
  <2> HIDE DEF b
  <2>2. ASSUME NEW s \in Adaptive!Slots
        PROVE  cum_counts[s] + Cardinality({j \in (f + 1) .. b : coded[j] = s}) = 1 + Upto(Slotted(s), b)
    <3> DEFINE I == Slotted(s)
    <3>1. I \in SUBSET (1 .. N) BY DEF Slotted, N
    <3>2. /\ Upto(I, f) \in Nat
          /\ Upto(I, b) = Upto(I, f) + Cardinality(After(I, f, b))
      <4>1. N \in Nat /\ f \in Nat /\ b \in Nat /\ f <= b BY <2>1, <1>2, <1>3
      <4> HIDE DEF I
      <4>2. Upto(I, f) \in Nat BY <4>1, <3>1, UptoMore
      <4>3. Adds(I, f, b) BY <4>1, <3>1, UptoMore
      <4> QED BY <4>2, <4>3 DEF Adds
    <3>3. After(I, f, b) = {j \in (f + 1) .. b : coded[j] = s}
      <4>1. b <= N BY <1>1, <1>2, <1>3 DEF Least, b
      <4>2. \A j \in (f + 1) .. b : j \in 1 .. N BY <4>1, <2>1, <1>2, <1>3
      <4>3. \A j \in (f + 1) .. b : j \in I <=> coded[j] = s BY <4>2 DEF Slotted, N
      <4> QED BY <4>3 DEF After
    <3>4. cum_counts[s] = 1 + Upto(Slotted(s), f) BY <1>4 DEF CountsAfter
    <3>5. IsFiniteSet(After(I, f, b))
      <4>1. IsFiniteSet((f + 1) .. b) BY <2>1, <1>3, FS_Interval, f + 1 \in Int, b \in Int
      <4> QED BY <4>1, FS_Subset DEF After
    <3> DEFINE m == Cardinality(After(I, f, b))
    <3>6. m \in Nat BY <3>5, FS_CardinalityType
    <3>7. Cardinality({j \in (f + 1) .. b : coded[j] = s}) = m BY <3>3
    <3> HIDE DEF m
    <3>8. Upto(Slotted(s), b) = Upto(Slotted(s), f) + m BY <3>2 DEF m
    <3> QED BY <3>2, <3>4, <3>6, <3>7, <3>8
  <2> QED BY <2>2, <1>1 DEF CountsAfter, c, N, f
<1>10. AdaptiveHistory'
  <2>1. (\E T : chunk_stats \in Seq(T))' BY <1>8
  <2>2. (\A i \in 1 .. Len(chunk_stats) : chunk_stats[i] = TableAt((i - 1) * chunk_size))'
    BY <1>1, <1>6, <1>8 DEF c
  <2>3. (cum_counts = CountsAfter(Least(Len(chunk_stats) * chunk_size, Len(coded))))'
    <3>1. Least(Len(chunk_stats) * chunk_size, Len(coded))' = b
      BY <1>1, <1>3, <1>8 DEF Least, c, N
    <3> HIDE DEF b
    <3>2. CountsAfter(Least(Len(chunk_stats) * chunk_size, Len(coded)))' = CountsAfter(b)
      <4> DEFINE n == Least(Len(chunk_stats) * chunk_size, Len(coded))
      <4>1. n' = b BY <3>1
      <4> HIDE DEF n
      <4>2. CountsAfter(n)' = CountsAfter(b)
        BY <4>1, <1>1 DEF CountsAfter, Upto, Rank, Slotted, Adaptive!Slots, Adaptive!escape_local
      <4> QED BY <4>2 DEF n
    <3> QED BY <3>2, <1>9
  <2>4. phase' = "snapshot" BY <1>1
  <2> QED BY <2>1, <2>2, <2>3, <2>4 DEF AdaptiveHistory
<1>11. AdaptiveTypes' /\ AdaptiveIdle' BY <1>1 DEF AdaptiveInv, AdaptiveTypes, AdaptiveIdle
<1> QED BY <1>1, <1>5, <1>10, <1>11 DEF AdaptiveInv, AdaptiveEncoding, AdaptiveDecoding

\* The encoder turns round: the stack is empty, and all chunks have a table.
LEMMA AdaptiveBegins == AdaptiveInv /\ Adaptive!BeginEncode => AdaptiveInv'
<1> SUFFICES ASSUME AdaptiveInv, Adaptive!BeginEncode PROVE AdaptiveInv' OBVIOUS
<1>1. /\ phase = "snapshot" /\ Len(chunk_stats) * chunk_size >= Len(coded) /\ phase' = "encode"
      /\ at' = Len(positions) /\ lit_idx' = Len(coded)
      /\ UNCHANGED <<lz, split, positions, meta, distinct, ext, coded, chunk_size, escapes,
                     chunk_stats, cum_counts, stack, out, lit_pos, boundary, escape_pos>>
  BY DEF Adaptive!BeginEncode, Adaptive!from, Adaptive!n_lit, Adaptive!inputVars, Adaptive!planVars,
         Adaptive!literalVars, Adaptive!historyVars
<1>2. ChunkPlan /\ stack = <<>> /\ (\E T : chunk_stats \in Seq(T))
  BY <1>1 DEF AdaptiveInv, AdaptivePlan, AdaptiveIdle, AdaptiveHistory
<1>3. /\ Planned /\ Len(positions) \in Nat /\ Len(coded) \in Nat /\ chunk_size \in Nat
      /\ Len(coded) = Cardinality(LiteralEvents) /\ Len(chunk_stats) \in Nat
  BY <1>2, EventFits DEF ChunkPlan
<1>4. Len(coded) <= Len(chunk_stats) * chunk_size
  <2>1. Len(chunk_stats) * chunk_size \in Nat BY <1>3
  <2> QED BY <2>1, <1>1, <1>3
<1>5. AdaptivePlan' /\ AdaptiveHistory' BY <1>1, <1>4, AdaptivePlanStays, AdaptiveHistoryStays
<1>6. Stacked(stack, AdaptiveCalls, Len(positions), 0)
  <2>1. (\E S : AdaptiveCalls \in Seq(Seq(S))) /\ Len(AdaptiveCalls) = Len(positions)
    BY <1>3, AdaptiveLitsTyped, PartsTyped DEF AdaptiveCalls
  <2> QED BY <2>1, <1>2, NothingStacked
<1>7. LitsBefore(Len(positions) + 1) = Len(coded) BY <1>3, LitsSteps
<1>8. AdaptiveEncoding'
  <2>1. AdaptiveCalls' = AdaptiveCalls /\ \A e : LitsBefore(e)' = LitsBefore(e)
    BY <1>1, AdaptiveFixed, ChunkFixed
  <2>2. (at \in 0 .. Len(positions))' BY <1>1, <1>3
  <2>3. Stacked(stack, AdaptiveCalls, at, 0)' BY <2>1, <1>1, <1>6
  <2>4. (lit_idx = LitsBefore(at + 1))'
    <3>1. LitsBefore(at + 1)' = LitsBefore(at' + 1) BY <1>1, <2>1 DEF LitsBefore, Rank, LiteralEvents, Width, Span
    <3> QED BY <3>1, <1>1, <1>7
  <2> QED BY <2>2, <2>3, <2>4 DEF AdaptiveEncoding
<1>9. AdaptiveTypes' /\ AdaptiveIdle' BY <1>1 DEF AdaptiveInv, AdaptiveTypes, AdaptiveIdle
<1> QED BY <1>1, <1>5, <1>8, <1>9 DEF AdaptiveInv, AdaptiveDecoding

-----------------------------------------------------------------------------
\* The adaptive modes: the encoder encodes.

\* The encoder puts the calls of event `at` on the stack.
LEMMA AdaptivePushes ==
  ASSUME AdaptiveInv, phase = "encode", at > 0,
         stack' = stack \o AdaptiveCalls[at], at' = at - 1, lit_idx' = LitsBefore(at),
         UNCHANGED <<lz, split, phase, positions, meta, distinct, ext, coded, chunk_size, escapes,
                     chunk_stats, cum_counts, out, lit_pos, boundary, escape_pos>>
  PROVE  AdaptiveInv'
<1>0. /\ ChunkPlan /\ at \in 1 .. Len(positions)
      /\ Stacked(stack, AdaptiveCalls, at, 0) /\ Len(coded) <= Len(chunk_stats) * chunk_size
  BY EventFits DEF AdaptiveInv, AdaptivePlan, AdaptiveEncoding, AdaptiveHistory
<1>1. Planned /\ Len(positions) \in Nat BY <1>0, EventFits DEF ChunkPlan
<1>2. Len(AdaptiveCalls) = Len(positions) BY <1>1, AdaptiveLitsTyped, PartsTyped DEF AdaptiveCalls
<1>3. Stacked(stack', AdaptiveCalls, at - 1, 0) BY <1>0, <1>2, PushPart
<1>5. AdaptivePlan' /\ AdaptiveHistory' BY <1>0, AdaptivePlanStays, AdaptiveHistoryStays
<1>6. AdaptiveEncoding'
  <2>1. AdaptiveCalls' = AdaptiveCalls BY AdaptiveFixed
  <2>2. (at \in 0 .. Len(positions))' BY <1>0, <1>1
  <2>3. Stacked(stack, AdaptiveCalls, at, 0)' BY <2>1, <1>3
  <2>4. (lit_idx = LitsBefore(at + 1))'
    <3>1. LitsBefore(at + 1)' = LitsBefore(at' + 1) BY DEF LitsBefore, Rank, LiteralEvents, Width, Span
    <3>2. at' + 1 = at BY <1>0, <1>1
    <3> QED BY <3>1, <3>2
  <2> QED BY <2>2, <2>3, <2>4 DEF AdaptiveEncoding
<1>7. AdaptiveTypes' /\ AdaptiveIdle' BY DEF AdaptiveInv, AdaptiveTypes, AdaptiveIdle
<1> QED BY <1>5, <1>6, <1>7 DEF AdaptiveInv, AdaptiveDecoding

\* The chunk of a literal is one of those a table has been taken for.
LEMMA ChunkTaken ==
  ASSUME NEW n \in Nat, NEW c \in Nat \ {0}, NEW L \in Nat, n < L * c
  PROVE  (n \div c) + 1 \in 1 .. L /\ n \div c \in Nat
<1> DEFINE q == n \div c
<1>1. q \in Nat /\ q * c <= n BY QuotientBounds
<1> HIDE DEF q
<1>2. ASSUME q >= L PROVE FALSE
  <2>1. q * c >= L * c
    <3>1. PICK d \in Nat : q = L + d
      <4>1. q - L \in Nat /\ q = L + (q - L) BY <1>1, <1>2
      <4> QED BY <4>1
    <3>2. q * c = L * c + d * c /\ d * c \in Nat /\ L * c \in Nat BY <3>1
    <3> QED BY <3>2
  <2>2. q * c \in Nat /\ L * c \in Nat BY <1>1
  <2> QED BY <2>1, <2>2, <1>1
<1>3. q < L BY <1>1, <1>2
<1>4. q + 1 \in 1 .. L BY <1>1, <1>3
<1> QED BY <1>1, <1>4 DEF q

\* It does so for a match and for a literal.
LEMMA AdaptiveEncodes ==
  AdaptiveInv /\ (Adaptive!EncodeMatch \/ Adaptive!EncodeLiteral) => AdaptiveInv'
<1> SUFFICES ASSUME AdaptiveInv, Adaptive!EncodeMatch \/ Adaptive!EncodeLiteral PROVE AdaptiveInv' OBVIOUS
<1>0. /\ phase = "encode" /\ at > 0 /\ at' = at - 1
      /\ UNCHANGED <<lz, split, phase, positions, meta, distinct, ext, coded, chunk_size, escapes,
                     chunk_stats, cum_counts, out, lit_pos, boundary, escape_pos>>
  BY DEF Adaptive!EncodeMatch, Adaptive!EncodeLiteral, Adaptive!inputVars, Adaptive!planVars,
         Adaptive!historyVars, Adaptive!literalVars
<1>1. /\ ChunkPlan /\ at \in 1 .. Len(positions) /\ lit_idx = LitsBefore(at + 1)
      /\ \E S : stack \in Seq(S)
  BY <1>0, EventFits DEF AdaptiveInv, AdaptivePlan, AdaptiveEncoding, Stacked
<1>2. /\ Planned /\ Len(positions) \in Nat /\ split \in BOOLEAN /\ Len(coded) = Cardinality(LiteralEvents)
      /\ chunk_size \in Nat \ {0}
  BY <1>1, EventFits DEF ChunkPlan, Planned
<1> DEFINE p == positions[at]
<1>3. /\ Width(p) \in {1, 4} /\ (split => Width(p) = Span(lz, p)) /\ (Width(p) = 4 => split)
  BY <1>1, <1>2, EventFits
<1>4. /\ AdaptiveCalls[at] = Part(at, AdaptiveLits[at], meta)
      /\ AdaptiveLits[at] = AdaptiveCall(LitsBefore(at))
  BY <1>1 DEF AdaptiveCalls, Parts, AdaptiveLits
<1>5. CASE Adaptive!EncodeMatch
  <2>1. split /\ Width(p) = 4 /\ stack' = stack \o MatchCalls(lz, p, meta) /\ lit_idx' = lit_idx
    BY <1>3, <1>5, AdaptiveIsCoder DEF Adaptive!EncodeMatch
  <2>2. AdaptiveCalls[at] = MatchCalls(lz, p, meta) BY <1>4, <2>1 DEF Part
  <2>3. LitsBefore(at + 1) = LitsBefore(at)
    <3>1. LitsBefore(at + 1) = LitsBefore(at) + 0 /\ LitsBefore(at) \in Nat
      <4>1. at \in 1 .. (Len(positions) + 1) BY <1>1, <1>2
      <4> QED BY <4>1, <1>1, <1>2, <2>1, LitsSteps
    <3> QED BY <3>1
  <2> QED BY <1>0, <1>1, <2>1, <2>2, <2>3, AdaptivePushes
<1>6. CASE Adaptive!EncodeLiteral
  <2> DEFINE n == LitsBefore(at)
             c == Call(coded[n + 1], TableAt(ChunkStart(n)))
             d == Call(0, meta.role)
  <2>1. Width(p) = 1
    <3>1. split => Span(lz, p) = 1 BY <1>6, AdaptiveIsCoder DEF Adaptive!EncodeLiteral
    <3> QED BY <3>1, <1>3 DEF Width
  <2>2. n \in Nat /\ n < Len(coded) /\ lit_idx = n + 1 /\ lit_idx - 1 = n
    <3>1. at \in 1 .. (Len(positions) + 1) /\ Width(p) # 4 BY <1>1, <1>2, <2>1
    <3>2. n \in Nat /\ n < Len(coded) /\ LitsBefore(at + 1) = n + 1
      BY <3>1, <1>1, <1>2, LitsSteps
    <3> HIDE DEF n
    <3> QED BY <3>2, <1>1
  <2>3. chunk_stats[(n \div chunk_size) + 1] = TableAt(ChunkStart(n))
    <3> HIDE DEF n
    <3>1. /\ Len(chunk_stats) \in Nat /\ Len(coded) <= Len(chunk_stats) * chunk_size /\ Len(coded) \in Nat
          /\ \A i \in 1 .. Len(chunk_stats) : chunk_stats[i] = TableAt((i - 1) * chunk_size)
      BY <1>0, <1>1 DEF AdaptiveInv, AdaptiveHistory, ChunkPlan
    <3>2. n < Len(chunk_stats) * chunk_size
      <4>1. Len(chunk_stats) * chunk_size \in Nat BY <3>1, <1>2
      <4> QED BY <4>1, <3>1, <2>2
    <3>3. (n \div chunk_size) + 1 \in 1 .. Len(chunk_stats) /\ n \div chunk_size \in Nat
      BY <3>1, <3>2, <2>2, <1>2, ChunkTaken
    <3>4. ((n \div chunk_size) + 1) - 1 = n \div chunk_size BY <3>3
    <3> QED BY <3>1, <3>3, <3>4 DEF ChunkStart
  <2>4. stack' = (stack \o <<c>>) \o (IF split THEN <<d>> ELSE <<>>) /\ lit_idx' = n
    <3>1. /\ stack' = (stack \o <<Call(coded[lit_idx], chunk_stats[((lit_idx - 1) \div chunk_size) + 1])>>)
                        \o (IF split THEN <<d>> ELSE <<>>)
          /\ lit_idx' = lit_idx - 1
      BY <1>6, AdaptiveIsCoder DEF Adaptive!EncodeLiteral
    <3> HIDE DEF n
    <3> QED BY <3>1, <2>2, <2>3
  <2>5. AdaptiveCalls[at] = <<c>> \o (IF split THEN <<d>> ELSE <<>>)
    BY <1>4, <2>1 DEF Part, Role, AdaptiveCall
  <2>6. lit_idx' = LitsBefore(at) BY <2>4
  <2> HIDE DEF c, d, n
  <2>7. stack' = stack \o AdaptiveCalls[at]
    <3>1. PICK S : stack \in Seq(S) BY <1>1
    <3> DEFINE T == S \cup {c, d}
               tail == IF split THEN <<d>> ELSE <<>>
    <3>0. c \in T /\ d \in T /\ S \in SUBSET T OBVIOUS
    <3>2. stack \in Seq(T) /\ <<c>> \in Seq(T) /\ tail \in Seq(T)
      <4> HIDE DEF T
      <4>1. stack \in Seq(T) BY <3>0, <3>1
      <4>2. <<c>> \in Seq(T) /\ <<d>> \in Seq(T) /\ <<>> \in Seq(T) BY <3>0
      <4> QED BY <4>1, <4>2
    <3>3. stack' = (stack \o <<c>>) \o tail /\ AdaptiveCalls[at] = <<c>> \o tail BY <2>4, <2>5
    <3> HIDE DEF T, tail
    <3> QED BY <3>2, <3>3, ConcatAssociative
  <2> QED BY <1>0, <2>6, <2>7, AdaptivePushes
<1> QED BY <1>5, <1>6

\* The decoder starts with the counts before the first literal.
LEMMA AdaptiveBeginsDecode == AdaptiveInv /\ Adaptive!BeginDecode => AdaptiveInv'
<1> SUFFICES ASSUME AdaptiveInv, Adaptive!BeginDecode PROVE AdaptiveInv' OBVIOUS
<1>0. /\ phase = "encode" /\ at = 0 /\ phase' = "decode" /\ step' = FirstStep
      /\ left' = (IF split THEN Len(positions) ELSE Len(lz))
      /\ counts' = [s \in Adaptive!Slots |-> 1]
      /\ UNCHANGED <<lz, split, positions, meta, distinct, ext, coded, chunk_size, escapes,
                     chunk_stats, cum_counts, stack, out, lit_pos, boundary, escape_pos>>
  BY DEF Adaptive!BeginDecode, Adaptive!Turns, Adaptive!inputVars, Adaptive!planVars,
         Adaptive!historyVars, FirstStep
<1>1. /\ ChunkPlan /\ DroppedListed /\ Stacked(stack, AdaptiveCalls, 0, 0)
      /\ out = <<>> /\ lit_pos = 0 /\ boundary = 0 /\ escape_pos = 0
      /\ Len(coded) <= Len(chunk_stats) * chunk_size /\ lz \in AdaptiveInputs
  BY <1>0 DEF AdaptiveInv, AdaptiveTypes, AdaptiveIdle, AdaptivePlan, AdaptiveHistory, AdaptiveEncoding
<1>2. /\ Planned /\ Len(positions) \in Nat /\ split \in BOOLEAN /\ chunk_size \in Nat \ {0}
      /\ Len(coded) \in Nat /\ Len(LiteralsOf) = Len(coded) /\ LiteralsOf \in Seq(0 .. MatchFlag)
      /\ escapes = Selected(LiteralsOf, Dropped) /\ Len(lz) \in Nat /\ DOMAIN lz = 1 .. Len(lz)
      /\ (~split => positions = [i \in DOMAIN lz |-> i])
  <2>1. Planned BY <1>1 DEF ChunkPlan
  <2>2. Len(positions) \in Nat /\ Len(lz) \in Nat /\ DOMAIN lz = 1 .. Len(lz) BY <2>1, EventFits
  <2>3. split \in BOOLEAN BY <2>1 DEF Planned
  <2>4. /\ LiteralsOf \in Seq(0 .. MatchFlag) /\ Len(LiteralsOf) = Len(coded)
        /\ chunk_size \in Nat \ {0} /\ (~split => positions = [i \in DOMAIN lz |-> i])
    BY <1>1 DEF ChunkPlan
  <2>5. Len(coded) \in Nat BY <2>4
  <2> QED BY <1>1, <2>1, <2>2, <2>3, <2>4, <2>5 DEF DroppedListed
<1>3. AdaptivePlan' /\ AdaptiveHistory' BY <1>0, <1>1, AdaptivePlanStays, AdaptiveHistoryStays
<1>4. left' = Len(positions)
  <2>1. CASE split BY <2>1, <1>0
  <2>2. CASE ~split
    <3>1. Len(positions) = Len(lz) BY <1>2, <2>2
    <3> QED BY <3>1, <2>2, <1>0
  <2> QED BY <2>1, <2>2, <1>2
<1>5. At(stack, FirstStep, Len(positions), <<>>, AdaptiveCalls, 0)
  BY <1>1, <1>2, AdaptiveLitsTyped, Starts DEF AdaptiveCalls
<1>6. Stacked(Unread(escapes, 0), LitEscapes, 0, 0)
  <2>1. Dropped \in SUBSET (1 .. Len(LiteralsOf)) BY <1>2 DEF Dropped
  <2>2. LitEscapes \in Seq(Seq(0 .. MatchFlag)) /\ Len(LitEscapes) = Len(LiteralsOf)
    BY <1>1, <1>2, LitEscapesTyped
  <2>3. \A i \in 1 .. Len(LiteralsOf) :
          LitEscapes[i] = IF i \in Dropped THEN <<LiteralsOf[i]>> ELSE <<>>
    BY <1>2 DEF LitEscapes
  <2>4. Stacked(Reversed(escapes), LitEscapes, 0, 0)
    BY <2>1, <2>2, <2>3, <1>2, SelectedStacked
  <2>5. escapes \in Seq(0 .. MatchFlag) BY <2>1, <1>2, SelectedEntries
  <2>6. Reversed(escapes) \in Seq(0 .. MatchFlag) /\ Len(Reversed(escapes)) = Len(escapes)
        /\ Len(escapes) \in Nat
    BY <2>5, ReversedTwice
  <2>7. Unread(escapes, 0) = Reversed(escapes)
    <3>1. Len(escapes) - 0 = Len(Reversed(escapes)) BY <2>6
    <3>2. Unread(escapes, 0) = SubSeq(Reversed(escapes), 1, Len(Reversed(escapes)))
      BY <3>1 DEF Unread
    <3> QED BY <3>2, <2>6, SubSeqFull
  <2> QED BY <2>4, <2>7
<1>7. counts' = CountsAfter(0)
  <2>1. \A s : Upto(Slotted(s), 0) = 0
    <3> TAKE s
    <3>1. Slotted(s) \in SUBSET (1 .. Len(coded)) BY DEF Slotted
    <3>2. 0 \in Nat /\ 0 <= 0 OBVIOUS
    <3> QED BY <3>1, <3>2, <1>2, UptoMore
  <2> QED BY <2>1, <1>0 DEF CountsAfter
<1>8. LitsBefore(1) = 0 /\ Done(Len(positions)) = 0 /\ ChunkStart(0) = 0
  <2>1. 0 \in Nat OBVIOUS
  <2>2. Done(Len(positions)) = 0 BY <1>2 DEF Done
  <2>3. LitsBefore(1) = 0 BY <1>2, LitsSteps
  <2> QED BY <2>1, <2>2, <2>3, <1>2, NextInChunk
<1>9. AtBoundary(0, 0, Len(coded)) BY <1>2, <1>8 DEF AtBoundary
<1>10. AdaptiveDecoding'
  <2>1. AdaptiveCalls' = AdaptiveCalls /\ LitEscapes' = LitEscapes
        /\ (\A n : CountsAfter(n)' = CountsAfter(n))
        /\ (\A e : LitsBefore(e)' = LitsBefore(e))
        /\ \A n, b, N : AtBoundary(n, b, N)' <=> AtBoundary(n, b, N)
    BY <1>0, AdaptiveFixed, ChunkFixed
  <2>2. /\ \A stk, st, lf, o, parts, more :
              At(stk, st, lf, o, parts, more)' <=> At(stk, st, lf, o, parts, more)
        /\ \A lf : Done(lf)' = Done(lf)
    BY <1>0, EventsFixed
  <2>3. step' \in {"event", "hi", "lo", "len", "literal"} BY <1>0 DEF FirstStep
  <2>4. At(stack, step, left, out, AdaptiveCalls, 0)'
    <3>1. At(stack', step', left', out', AdaptiveCalls', 0) BY <1>0, <1>1, <2>1, <1>4, <1>5
    <3> QED BY <3>1, <2>2
  <2>5. (lit_pos = LitsBefore(Done(left) + 1))'
    <3>1. Done(left)' = 0 BY <2>2, <1>4, <1>8
    <3>2. LitsBefore(Done(left) + 1)' = LitsBefore(1)
      BY <3>1, <1>0 DEF LitsBefore, Rank, LiteralEvents, Width, Span
    <3> QED BY <3>2, <1>0, <1>1, <1>8
  <2>6. (counts = CountsAfter(lit_pos))'
    <3>1. CountsAfter(lit_pos)' = CountsAfter(0)
      BY <1>0, <1>1 DEF CountsAfter, Upto, Rank, Slotted, Adaptive!Slots, Adaptive!escape_local
    <3> QED BY <3>1, <1>7
  <2>7. AtBoundary(lit_pos, boundary, Len(coded))'
    BY <1>0, <1>1, <1>9 DEF AtBoundary, ChunkStart, Least
  <2>8. (lit_pos < boundary => table = TableAt(ChunkStart(lit_pos)))' BY <1>0, <1>1
  <2>9. (escape_pos \in 0 .. Len(escapes))'
    <3>1. Dropped \in SUBSET (1 .. Len(LiteralsOf)) BY <1>2 DEF Dropped
    <3>2. escapes \in Seq(0 .. MatchFlag) BY <3>1, <1>2, SelectedEntries
    <3> QED BY <3>2, <1>0, <1>1
  <2>10. Stacked(Unread(escapes, escape_pos), LitEscapes, lit_pos, 0)'
    <3>1. Unread(escapes, escape_pos)' = Unread(escapes, 0) BY <1>0, <1>1 DEF Unread, Reversed
    <3> QED BY <3>1, <2>1, <1>0, <1>1, <1>6
  <2> QED BY <2>3, <2>4, <2>5, <2>6, <2>7, <2>8, <2>9, <2>10 DEF AdaptiveDecoding
<1>11. AdaptiveTypes' /\ AdaptiveIdle' BY <1>0 DEF AdaptiveInv, AdaptiveTypes, AdaptiveIdle
<1> QED BY <1>0, <1>3, <1>10, <1>11 DEF AdaptiveInv, AdaptiveEncoding

-----------------------------------------------------------------------------
\* The adaptive modes: the decoder.

\* The decoder takes a call from the stack.
LEMMA AdaptiveReads ==
  ASSUME AdaptiveInv, phase = "decode", phase' = "decode", stack # <<>>, stack' = Below(stack),
         UNCHANGED <<lz, split, positions, meta, distinct, ext, coded, chunk_size, escapes,
                     chunk_stats, cum_counts>>,
         step' \in {"event", "hi", "lo", "len", "literal"},
         At(stack', step', left', out', AdaptiveCalls, 0),
         lit_pos' = LitsBefore(Done(left') + 1), counts' = CountsAfter(lit_pos'),
         AtBoundary(lit_pos', boundary', Len(coded)),
         lit_pos' < boundary' => table' = TableAt(ChunkStart(lit_pos')),
         escape_pos' \in 0 .. Len(escapes),
         Stacked(Unread(escapes, escape_pos'), LitEscapes, lit_pos', 0)
  PROVE  AdaptiveInv'
<1>1. AdaptiveCalls' = AdaptiveCalls /\ LitEscapes' = LitEscapes
  BY AdaptiveFixed, ChunkFixed
<1>2. /\ \A stk, st, lf, o, parts, more :
            At(stk, st, lf, o, parts, more)' <=> At(stk, st, lf, o, parts, more)
  BY EventsFixed
<1>3. AdaptivePlan' /\ AdaptiveHistory'
  <2>1. Len(coded) <= Len(chunk_stats) * chunk_size BY DEF AdaptiveInv, AdaptiveHistory
  <2> QED BY <2>1, AdaptivePlanStays, AdaptiveHistoryStays
<1>4. AdaptiveDecoding'
  <2>1. At(stack, step, left, out, AdaptiveCalls, 0)'
    <3>1. At(stack', step', left', out', AdaptiveCalls', 0) BY <1>1
    <3> QED BY <3>1, <1>2
  <2>2. (lit_pos = LitsBefore(Done(left) + 1))'
    <3>1. LitsBefore(Done(left) + 1)' = LitsBefore(Done(left') + 1)
      BY DEF LitsBefore, Rank, LiteralEvents, Width, Span, Done
    <3> QED BY <3>1
  <2>3. (counts = CountsAfter(lit_pos))'
    <3>1. CountsAfter(lit_pos)' = CountsAfter(lit_pos')
      BY DEF CountsAfter, Upto, Rank, Slotted, Adaptive!Slots, Adaptive!escape_local
    <3> QED BY <3>1
  <2>4. AtBoundary(lit_pos, boundary, Len(coded))'
    BY DEF AtBoundary, ChunkStart, Least
  <2>5. (lit_pos < boundary => table = TableAt(ChunkStart(lit_pos)))'
    <3>1. TableAt(ChunkStart(lit_pos))' = TableAt(ChunkStart(lit_pos'))
      BY DEF TableAt, CountsAfter, Upto, Rank, Slotted, Adaptive!Slots, Adaptive!escape_local,
             Adaptive!k, ChunkStart
    <3> QED BY <3>1
  <2>6. Stacked(Unread(escapes, escape_pos), LitEscapes, lit_pos, 0)'
    <3>1. Unread(escapes, escape_pos)' = Unread(escapes, escape_pos') BY DEF Unread, Reversed
    <3> QED BY <3>1, <1>1
  <2>7. (escape_pos \in 0 .. Len(escapes))' OBVIOUS
  <2> QED BY <2>1, <2>2, <2>3, <2>4, <2>5, <2>6, <2>7 DEF AdaptiveDecoding
<1>6. AdaptiveTypes' /\ AdaptiveIdle' BY DEF AdaptiveInv, AdaptiveTypes, AdaptiveIdle
<1> QED BY <1>3, <1>4, <1>6 DEF AdaptiveInv, AdaptiveEncoding

\* What the invariant says while the decoder is at work, and at the end.
LEMMA AdaptiveAt ==
  ASSUME AdaptiveInv, phase \in {"decode", "done"}
  PROVE  /\ ChunkPlan /\ Planned /\ Typed(AdaptiveLits)
         /\ At(stack, step, left, out, Parts(AdaptiveLits, meta), 0)
         /\ step \in {"event", "hi", "lo", "len", "literal"}
         /\ lit_pos = LitsBefore(Done(left) + 1) /\ counts = CountsAfter(lit_pos)
         /\ AtBoundary(lit_pos, boundary, Len(coded))
         /\ lit_pos < boundary => table = TableAt(ChunkStart(lit_pos))
         /\ escapes \in Seq(0 .. MatchFlag) /\ escape_pos \in 0 .. Len(escapes)
         /\ Stacked(Unread(escapes, escape_pos), LitEscapes, lit_pos, 0)
<1>1. ChunkPlan /\ DroppedListed /\ AdaptiveDecoding BY DEF AdaptiveInv, AdaptivePlan, AdaptiveDecoding
<1>2. Planned BY <1>1 DEF ChunkPlan
<1>3. escapes \in Seq(0 .. MatchFlag)
  <2>1. /\ Len(LiteralsOf) = Len(coded) /\ LiteralsOf \in Seq(0 .. MatchFlag)
        /\ escapes = Selected(LiteralsOf, Dropped)
    BY <1>1 DEF ChunkPlan, DroppedListed
  <2>2. Dropped \in SUBSET (1 .. Len(LiteralsOf)) BY <2>1 DEF Dropped
  <2> QED BY <2>1, <2>2, SelectedEntries
<1> QED BY <1>1, <1>2, <1>3, AdaptiveLitsTyped DEF AdaptiveDecoding, AdaptiveCalls

\* The call for the role of an event.
LEMMA AdaptiveReadsRole == AdaptiveInv /\ Adaptive!DecodeRole => AdaptiveInv'
<1> SUFFICES ASSUME AdaptiveInv, Adaptive!DecodeRole PROVE AdaptiveInv' OBVIOUS
<1>0. /\ phase = "decode" /\ phase' = "decode" /\ left > 0 /\ step = "event" /\ stack' = Below(stack)
      /\ UNCHANGED <<lz, split, positions, meta, distinct, ext, coded, chunk_size, escapes,
                     chunk_stats, cum_counts, left, lit_pos, boundary, table, counts, escape_pos>>
      /\ \E role \in Popped(stack, Received(meta.role)) :
           /\ step' = (IF role = 1 THEN "hi" ELSE "literal")
           /\ out' = IF role = 1 THEN Append(out, MatchFlag) ELSE out
  BY AdaptiveIsCoder DEF Adaptive!DecodeRole, Adaptive!sentVars, Adaptive!inputVars, Adaptive!planVars,
         Adaptive!historyVars, Adaptive!encoderVars, Adaptive!literalVars
<1>1. /\ Planned /\ At(stack, "event", left, out, Parts(AdaptiveLits, meta), 0) /\ Typed(AdaptiveLits)
      /\ Received(meta.role) = meta.role
  <2>1. ChunkPlan /\ Planned /\ At(stack, "event", left, out, Parts(AdaptiveLits, meta), 0) /\ Typed(AdaptiveLits)
    BY <1>0, AdaptiveAt
  <2>2. split BY <2>1 DEF At, LiteralSteps
  <2> QED BY <2>1, <2>2 DEF ChunkPlan
<1>2. /\ stack # <<>>
      /\ \A r \in Popped(stack, meta.role) :
              /\ r \in {0, 1}
              /\ r = 1 => At(Below(stack), "hi", left, Append(out, MatchFlag), AdaptiveCalls, 0)
              /\ r = 0 => At(Below(stack), "literal", left, out, AdaptiveCalls, 0)
  BY <1>0, <1>1, ReadsRole DEF AdaptiveCalls
<1>3. PICK r \in Popped(stack, meta.role) :
         /\ step' = (IF r = 1 THEN "hi" ELSE "literal")
         /\ out' = IF r = 1 THEN Append(out, MatchFlag) ELSE out
  BY <1>0, <1>1
<1>4. At(stack', step', left', out', AdaptiveCalls, 0) /\ step' \in {"hi", "literal"}
  <2>1. CASE r = 0
    <3>1. step' = "literal" /\ out' = out BY <1>3, <2>1
    <3> QED BY <3>1, <1>0, <1>2, <2>1
  <2>2. CASE r = 1
    <3>1. step' = "hi" /\ out' = Append(out, MatchFlag) BY <1>3, <2>2
    <3> QED BY <3>1, <1>0, <1>2, <2>2
  <2> QED BY <1>2, <2>1, <2>2
<1>5. /\ lit_pos' = LitsBefore(Done(left') + 1) /\ counts' = CountsAfter(lit_pos')
      /\ AtBoundary(lit_pos', boundary', Len(coded))
      /\ lit_pos' < boundary' => table' = TableAt(ChunkStart(lit_pos'))
      /\ escape_pos' \in 0 .. Len(escapes)
      /\ Stacked(Unread(escapes, escape_pos'), LitEscapes, lit_pos', 0)
  BY <1>0, AdaptiveAt
<1> QED BY <1>0, <1>2, <1>4, <1>5, AdaptiveReads

\* The calls for what a match carries.
LEMMA AdaptiveReadsMeta ==
  AdaptiveInv /\ (Adaptive!DecodeHi \/ Adaptive!DecodeLo \/ Adaptive!DecodeLen) => AdaptiveInv'
<1> SUFFICES ASSUME AdaptiveInv, Adaptive!DecodeHi \/ Adaptive!DecodeLo \/ Adaptive!DecodeLen
             PROVE  AdaptiveInv'
  OBVIOUS
<1>0. /\ phase = "decode" /\ phase' = "decode" /\ left > 0 /\ step \in {"hi", "lo", "len"}
      /\ stack' = Below(stack) /\ step' = NextStep(step)
      /\ left' = (IF step = "len" THEN left - 1 ELSE left)
      /\ UNCHANGED <<lz, split, positions, meta, distinct, ext, coded, chunk_size, escapes,
                     chunk_stats, cum_counts, lit_pos, boundary, table, counts, escape_pos>>
      /\ \E v \in Popped(stack, Received(Meta(meta, step))) : out' = Append(out, v)
  BY AdaptiveIsCoder DEF Adaptive!DecodeHi, Adaptive!DecodeLo, Adaptive!DecodeLen, Adaptive!DecodeMeta,
         NextStep, Meta, Adaptive!sentVars, Adaptive!inputVars, Adaptive!planVars,
         Adaptive!historyVars, Adaptive!encoderVars, Adaptive!literalVars
<1>1. /\ ChunkPlan /\ Planned /\ At(stack, step, left, out, Parts(AdaptiveLits, meta), 0) /\ Typed(AdaptiveLits)
      /\ lit_pos = LitsBefore(Done(left) + 1)
  BY <1>0, AdaptiveAt
<1>3. split /\ LitsBefore(Done(left') + 1) = LitsBefore(Done(left) + 1) BY <1>0, <1>1, InMatch
<1>4. Received(Meta(meta, step)) = Meta(meta, step) BY <1>0, <1>1, <1>3 DEF ChunkPlan, Meta
<1>5. /\ stack # <<>>
      /\ \A v \in Popped(stack, Meta(meta, step)) :
           At(Below(stack), NextStep(step), IF step = "len" THEN left - 1 ELSE left, Append(out, v), AdaptiveCalls, 0)
  BY <1>0, <1>1, ReadsMeta DEF AdaptiveCalls
<1>6. At(stack', step', left', out', AdaptiveCalls, 0) BY <1>0, <1>4, <1>5
<1>7. lit_pos' = LitsBefore(Done(left') + 1) BY <1>0, <1>1, <1>3
<1>8. step' \in {"event", "hi", "lo", "len", "literal"} BY <1>0 DEF NextStep
<1>9. /\ counts' = CountsAfter(lit_pos')
      /\ AtBoundary(lit_pos', boundary', Len(coded))
      /\ lit_pos' < boundary' => table' = TableAt(ChunkStart(lit_pos'))
      /\ escape_pos' \in 0 .. Len(escapes)
      /\ Stacked(Unread(escapes, escape_pos'), LitEscapes, lit_pos', 0)
  BY <1>0, AdaptiveAt
<1> QED BY <1>0, <1>5, <1>6, <1>7, <1>8, <1>9, AdaptiveReads

\* The decoder's next literal: its number, its slot and its table.
LEMMA AdaptiveNext ==
  ASSUME AdaptiveInv, phase = "decode", left > 0, step = "literal"
  PROVE  /\ lit_pos \in Nat /\ lit_pos < Len(coded) /\ lit_pos + 1 \in 1 .. Len(coded)
         /\ LitsBefore(Done(left - 1) + 1) = lit_pos + 1
         /\ coded[lit_pos + 1] \in Adaptive!Slots
         /\ LiteralsOf[lit_pos + 1] = lz[positions[Done(left) + 1]]
         /\ Adaptive!Stats = TableAt(ChunkStart(lit_pos))
         /\ stack # <<>> /\ stack[Len(stack)] = Call(coded[lit_pos + 1], Adaptive!Stats)
         /\ At(Below(stack), FirstStep, left - 1, Append(out, LiteralsOf[lit_pos + 1]), AdaptiveCalls, 0)
<1> DEFINE e == Done(left)
           n == lit_pos
           t == TableAt(ChunkStart(n))
           c == Call(coded[n + 1], t)
<1>1. /\ ChunkPlan /\ Planned /\ At(stack, "literal", left, out, Parts(AdaptiveLits, meta), 0)
      /\ Typed(AdaptiveLits) /\ n = LitsBefore(e + 1) /\ counts = CountsAfter(n)
      /\ AtBoundary(n, boundary, Len(coded))
      /\ n < boundary => table = t
  BY AdaptiveAt
<1>2. /\ e \in Nat /\ e < Len(positions) /\ e + 1 \in 1 .. Len(positions) /\ Done(left - 1) = e + 1
  BY <1>1, AtEvent
<1>3. Width(positions[e + 1]) = 1 BY <1>1 DEF At, LiteralSteps
<1>4. Len(coded) = Cardinality(LiteralEvents) /\ Len(coded) \in Nat /\ chunk_size \in Nat \ {0}
  BY <1>1 DEF ChunkPlan
<1> HIDE DEF e
<1>5. n \in Nat /\ n < Len(coded) /\ LitsBefore((e + 1) + 1) = n + 1 /\ n + 1 \in 1 .. Len(coded)
  <2> DEFINE d == e + 1
  <2>1. d \in 1 .. Len(positions) /\ d \in 1 .. (Len(positions) + 1) /\ Width(positions[d]) # 4
    BY <1>2, <1>3
  <2> HIDE DEF d
  <2>2. LitsBefore(d) \in Nat /\ LitsBefore(d) < Len(coded) /\ LitsBefore(d + 1) = LitsBefore(d) + 1
    BY <2>1, <1>1, <1>4, LitsSteps
  <2> QED BY <2>2, <1>1, <1>4 DEF d
<1>6. LiteralsOf[n + 1] = lz[positions[e + 1]]
  <2>1. e + 1 \in LiteralEvents BY <1>2, <1>3 DEF LiteralEvents
  <2> QED BY <2>1, <1>1 DEF ChunkPlan
<1>7. Adaptive!Stats = t
  <2>1. CASE n = boundary
    <3>1. ChunkStart(n) = n BY <2>1, <1>1, <1>5 DEF AtBoundary
    <3>2. Adaptive!Stats = Freq(counts, Adaptive!k + n) BY <2>1 DEF Adaptive!Stats
    <3> QED BY <3>1, <3>2, <1>1 DEF TableAt
  <2>2. CASE n # boundary
    <3>1. n < boundary BY <2>2, <1>1, <1>5 DEF AtBoundary
    <3> QED BY <3>1, <2>2, <1>1 DEF Adaptive!Stats
  <2> QED BY <2>1, <2>2
<1>8. coded[n + 1] \in Adaptive!Slots BY <1>5 DEF AdaptiveInv, AdaptivePlan
<1> DEFINE lit == AdaptiveLits[e + 1]
<1>9. lit = <<c>> BY <1>1, <1>2 DEF AdaptiveLits, AdaptiveCall
<1> HIDE DEF c, lit, t
<1>10. Len(lit) = 1 /\ 0 < Len(lit) /\ 0 + 1 = Len(lit) /\ lit[Len(lit) - 0] = c BY <1>9
<1>11. /\ stack # <<>> /\ stack[Len(stack)] = lit[Len(lit) - 0]
       /\ Ends(stack, left, out, Parts(AdaptiveLits, meta), 0, lit)
  <2>1. "literal" \in LiteralSteps BY DEF LiteralSteps
  <2>2. lit = AdaptiveLits[Done(left) + 1] BY DEF lit, e
  <2> QED BY <2>1, <2>2, <1>1, <1>10, ReadsLiteral
<1>12. At(Below(stack), FirstStep, left - 1, Append(out, lz[positions[e + 1]]), AdaptiveCalls, 0)
  BY <1>10, <1>11 DEF Ends, AdaptiveCalls, e
<1>13. stack # <<>> /\ stack[Len(stack)] = c BY <1>10, <1>11
<1>14. lz[positions[Done(left) + 1]] = lz[positions[e + 1]] BY DEF e
<1> QED BY <1>2, <1>5, <1>6, <1>7, <1>8, <1>12, <1>13, <1>14 DEF c, t

\* The call for a literal: the decoder counts it, and gives it back.
LEMMA AdaptiveReadsLiteral == AdaptiveInv /\ Adaptive!DecodeLiteral => AdaptiveInv'
<1> SUFFICES ASSUME AdaptiveInv, Adaptive!DecodeLiteral PROVE AdaptiveInv' OBVIOUS
<1> DEFINE n == lit_pos
           s == coded[n + 1]
           N == Len(coded)
<1>0. /\ phase = "decode" /\ phase' = "decode" /\ left > 0 /\ step = "literal"
      /\ stack' = Below(stack) /\ step' = FirstStep /\ left' = left - 1 /\ lit_pos' = n + 1
      /\ table' = Adaptive!Stats
      /\ boundary' = IF n = boundary THEN Least(n + chunk_size, N) ELSE boundary
      /\ UNCHANGED <<lz, split, positions, meta, distinct, ext, coded, chunk_size, escapes,
                     chunk_stats, cum_counts>>
      /\ \E v \in Popped(stack, Adaptive!Stats) :
           /\ counts' = [counts EXCEPT ![v] = @ + 1]
           /\ \/ v < Len(distinct) /\ out' = Append(out, distinct[v + 1]) /\ escape_pos' = escape_pos
              \/ /\ v = Len(distinct) /\ escape_pos < Len(escapes)
                 /\ out' = Append(out, escapes[escape_pos + 1]) /\ escape_pos' = escape_pos + 1
  BY AdaptiveIsCoder
     DEF Adaptive!DecodeLiteral, Adaptive!Recounted, Adaptive!NextEscape, Adaptive!escape_local,
         Adaptive!n_lit, Adaptive!Smaller, Least, FirstStep, Adaptive!sentVars, Adaptive!inputVars,
         Adaptive!planVars, Adaptive!historyVars, Adaptive!encoderVars
<1>1. /\ n \in Nat /\ n < N /\ n + 1 \in 1 .. N
      /\ LitsBefore(Done(left - 1) + 1) = n + 1 /\ s \in Adaptive!Slots
      /\ Adaptive!Stats = TableAt(ChunkStart(n))
      /\ stack # <<>> /\ stack[Len(stack)] = Call(s, Adaptive!Stats)
      /\ At(Below(stack), FirstStep, left - 1, Append(out, LiteralsOf[n + 1]), AdaptiveCalls, 0)
  BY <1>0, AdaptiveNext
<1>2. Popped(stack, Adaptive!Stats) = {s} BY <1>1, OnlyPopped
<1>3. /\ counts' = [counts EXCEPT ![s] = @ + 1]
      /\ \/ s < Len(distinct) /\ out' = Append(out, distinct[s + 1]) /\ escape_pos' = escape_pos
         \/ /\ s = Len(distinct) /\ escape_pos < Len(escapes)
            /\ out' = Append(out, escapes[escape_pos + 1]) /\ escape_pos' = escape_pos + 1
  BY <1>0, <1>2
<1>4. /\ ChunkPlan /\ counts = CountsAfter(n) /\ AtBoundary(n, boundary, N)
      /\ escapes \in Seq(0 .. MatchFlag) /\ escape_pos \in 0 .. Len(escapes)
      /\ Stacked(Unread(escapes, escape_pos), LitEscapes, n, 0)
  BY <1>0, AdaptiveAt
<1>5. /\ chunk_size \in Nat \ {0} /\ N \in Nat /\ Len(distinct) \in Nat /\ s \in 0 .. Len(distinct)
      /\ s # Len(distinct) => s \in 0 .. (Len(distinct) - 1) /\ distinct[s + 1] = LiteralsOf[n + 1]
  <2>1. /\ chunk_size \in Nat \ {0} /\ distinct \in Seq(0 .. MatchFlag) /\ coded \in Seq(0 .. Len(distinct))
        /\ \A i \in 1 .. Len(coded) :
             coded[i] # Len(distinct) =>
               coded[i] \in 0 .. (Len(distinct) - 1) /\ distinct[coded[i] + 1] = LiteralsOf[i]
    BY <1>4 DEF ChunkPlan
  <2>2. s \in 0 .. Len(distinct) BY <2>1, <1>1, ElementOfSeq
  <2> QED BY <2>1, <2>2, <1>1
<1>6. LitEscapes[n + 1] = IF s = Len(distinct) THEN <<LiteralsOf[n + 1]>> ELSE <<>>
  BY <1>1 DEF LitEscapes, Dropped
<1>7. Len(LitEscapes) = N BY <1>4, LitEscapesTyped
<1> HIDE DEF n, s, N
<1>8. /\ out' = Append(out, LiteralsOf[n + 1]) /\ escape_pos' \in 0 .. Len(escapes)
      /\ Stacked(Unread(escapes, escape_pos'), LitEscapes, n + 1, 0)
  <2>1. CASE s # Len(distinct)
    <3>1. out' = Append(out, LiteralsOf[n + 1]) /\ escape_pos' = escape_pos BY <2>1, <1>3, <1>5
    <3>2. LitEscapes[n + 1] = <<>> BY <2>1, <1>6
    <3>3. Stacked(Unread(escapes, escape_pos), LitEscapes, n + 1, 0)
      BY <3>2, <1>1, <1>4, <1>7, NextEscape
    <3> QED BY <3>1, <3>3, <1>4
  <2>2. CASE s = Len(distinct)
    <3>1. out' = Append(out, escapes[escape_pos + 1]) /\ escape_pos' = escape_pos + 1 BY <2>2, <1>3, <1>5
    <3> DEFINE x == LiteralsOf[n + 1]
    <3>2. LitEscapes[n + 1] = <<x>> BY <2>2, <1>6
    <3> HIDE DEF x
    <3>3. /\ escape_pos + 1 \in 0 .. Len(escapes) /\ escapes[escape_pos + 1] = x
          /\ Stacked(Unread(escapes, escape_pos + 1), LitEscapes, n + 1, 0)
      BY <3>2, <1>1, <1>4, <1>7, NextEscape
    <3> QED BY <3>1, <3>3 DEF x
  <2> QED BY <2>1, <2>2
<1>9. counts' = CountsAfter(n + 1)
  <2>1. ASSUME NEW t \in Adaptive!Slots
        PROVE  (IF t = s THEN counts[t] + 1 ELSE counts[t]) = 1 + Upto(Slotted(t), n + 1)
    <3> DEFINE I == Slotted(t)
    <3>1. I \in SUBSET (1 .. N) BY DEF Slotted, N
    <3>2. n + 1 \in I <=> s = t BY <1>1 DEF Slotted, s, N
    <3>3. counts[t] = 1 + Upto(I, n) BY <1>4 DEF CountsAfter
    <3> HIDE DEF I
    <3>4. n \in Nat /\ n + 1 \in Nat /\ n <= n + 1 BY <1>1
    <3>5. Upto(I, n) \in Nat BY <3>1, <3>4, <1>5, UptoMore
    <3>6. /\ n + 1 \in I => Upto(I, n + 1) = Upto(I, n) + 1
          /\ n + 1 \notin I => Upto(I, n + 1) = Upto(I, n)
      <4>1. IsFiniteSet(1 .. N) BY <1>5, RangeFinite
      <4>2. IsFiniteSet(I) BY <4>1, <3>1, FS_Subset
      <4>3. I \in SUBSET Nat BY <3>1, <1>5
      <4> QED BY <4>2, <4>3, <3>4, RanksGrow DEF Upto
    <3>7. CASE t = s BY <3>2, <3>3, <3>5, <3>7, <3>6 DEF I
    <3>8. CASE t # s BY <3>2, <3>3, <3>5, <3>8, <3>6 DEF I
    <3> QED BY <3>7, <3>8
  <2>2. DOMAIN counts = Adaptive!Slots BY <1>4 DEF CountsAfter
  <2>3. counts' = [t \in Adaptive!Slots |-> IF t = s THEN counts[t] + 1 ELSE counts[t]]
    BY <2>2, <1>3
  <2> QED BY <2>1, <2>3 DEF CountsAfter
<1>10. /\ n < boundary' /\ AtBoundary(n + 1, boundary', N)
       /\ n + 1 < boundary' => ChunkStart(n + 1) = ChunkStart(n)
  <2> DEFINE b == boundary'
  <2>1. b = IF n = boundary THEN Least(n + chunk_size, N) ELSE boundary BY <1>0 DEF n, N
  <2> HIDE DEF b
  <2>2. /\ n < b /\ AtBoundary(n + 1, b, N)
        /\ n + 1 < b => ChunkStart(n + 1) = ChunkStart(n)
    BY <2>1, <1>1, <1>4, <1>5, ChunkTurns
  <2> QED BY <2>2 DEF b
<1>11. lit_pos' = n + 1 /\ boundary' \in Nat BY <1>0, <1>10 DEF AtBoundary, n
<1>12. lit_pos' = LitsBefore(Done(left') + 1) BY <1>0, <1>1 DEF n
<1>13. lit_pos' < boundary' => table' = TableAt(ChunkStart(lit_pos'))
  BY <1>0, <1>1, <1>10, <1>11
<1>14. At(stack', step', left', out', AdaptiveCalls, 0) BY <1>0, <1>1, <1>8
<1>15. step' \in {"event", "hi", "lo", "len", "literal"} BY <1>0 DEF FirstStep
<1>16. counts' = CountsAfter(lit_pos') /\ AtBoundary(lit_pos', boundary', Len(coded))
       /\ Stacked(Unread(escapes, escape_pos'), LitEscapes, lit_pos', 0)
  BY <1>8, <1>9, <1>10, <1>11 DEF N
<1> QED BY <1>0, <1>1, <1>8, <1>12, <1>13, <1>14, <1>15, <1>16, AdaptiveReads

-----------------------------------------------------------------------------
\* The adaptive modes: every step, and what the invariant says.

\* A step that takes no call.
LEMMA AdaptiveStays ==
  ASSUME AdaptiveInv,
         UNCHANGED <<lz, split, positions, meta, distinct, ext, coded, chunk_size, escapes,
                     chunk_stats, cum_counts, at, lit_idx, stack, step, left, out,
                     lit_pos, boundary, table, counts, escape_pos>>,
         phase' = phase \/ (phase = "decode" /\ phase' = "done" /\ left = 0)
  PROVE  AdaptiveInv'
<1>1. /\ AdaptiveCalls' = AdaptiveCalls /\ LitEscapes' = LitEscapes
  BY AdaptiveFixed, ChunkFixed
<1>2. \A stk, st, lf, o, parts, more :
         At(stk, st, lf, o, parts, more)' <=> At(stk, st, lf, o, parts, more)
  BY EventsFixed
<1>3. AdaptivePlan' /\ AdaptiveHistory'
  <2>1. CASE phase = "collect" BY <2>1 DEF AdaptivePlan, AdaptiveHistory
  <2>2. CASE phase # "collect"
    <3>1. phase' # "snapshot" => Len(coded) <= Len(chunk_stats) * chunk_size
      BY <2>2 DEF AdaptiveInv, AdaptiveHistory
    <3> QED BY <2>2, <3>1, AdaptivePlanStays, AdaptiveHistoryStays
  <2> QED BY <2>1, <2>2
<1>4. LitsBefore(at + 1)' = LitsBefore(at + 1) /\ LitsBefore(Done(left) + 1)' = LitsBefore(Done(left) + 1)
  BY DEF LitsBefore, Rank, LiteralEvents, Width, Span, Done
<1>5. AdaptiveEncoding' BY <1>1, <1>4 DEF AdaptiveInv, AdaptiveEncoding
<1>6. AdaptiveDecoding'
  <2> SUFFICES ASSUME phase' \in {"decode", "done"} PROVE AdaptiveDecoding' BY DEF AdaptiveDecoding
  <2>0. AdaptiveDecoding /\ phase \in {"decode", "done"} BY DEF AdaptiveInv
  <2>1. At(stack, step, left, out, AdaptiveCalls, 0)'
    <3>1. At(stack', step', left', out', AdaptiveCalls', 0) BY <1>1, <2>0 DEF AdaptiveDecoding
    <3> QED BY <3>1, <1>2
  <2>2. (lit_pos = LitsBefore(Done(left) + 1))' BY <1>4, <2>0 DEF AdaptiveDecoding
  <2>3. (counts = CountsAfter(lit_pos))'
    <3>1. CountsAfter(lit_pos)' = CountsAfter(lit_pos)
      BY DEF CountsAfter, Upto, Rank, Slotted, Adaptive!Slots, Adaptive!escape_local
    <3> QED BY <3>1, <2>0 DEF AdaptiveDecoding
  <2>4. AtBoundary(lit_pos, boundary, Len(coded))'
    BY <2>0 DEF AdaptiveDecoding, AtBoundary, ChunkStart, Least
  <2>5. (lit_pos < boundary => table = TableAt(ChunkStart(lit_pos)))'
    <3>1. TableAt(ChunkStart(lit_pos))' = TableAt(ChunkStart(lit_pos))
      BY DEF TableAt, CountsAfter, Upto, Rank, Slotted, Adaptive!Slots, Adaptive!escape_local,
             Adaptive!k, ChunkStart
    <3> QED BY <3>1, <2>0 DEF AdaptiveDecoding
  <2>6. Stacked(Unread(escapes, escape_pos), LitEscapes, lit_pos, 0)'
    <3>1. Unread(escapes, escape_pos)' = Unread(escapes, escape_pos) BY DEF Unread, Reversed
    <3> QED BY <3>1, <1>1, <2>0 DEF AdaptiveDecoding
  <2>7. (step \in {"event", "hi", "lo", "len", "literal"} /\ escape_pos \in 0 .. Len(escapes))'
    BY <2>0 DEF AdaptiveDecoding
  <2> QED BY <2>1, <2>2, <2>3, <2>4, <2>5, <2>6, <2>7 DEF AdaptiveDecoding
<1>7. AdaptiveTypes' /\ AdaptiveIdle' BY DEF AdaptiveInv, AdaptiveTypes, AdaptiveIdle
<1>9. (phase = "done" => left = 0)' BY DEF AdaptiveInv
<1> QED BY <1>3, <1>5, <1>6, <1>7, <1>9 DEF AdaptiveInv

\* Each step of an adaptive mode keeps the invariant.
LEMMA AdaptiveSteps ==
  NormalizeKeeps /\ AdaptiveInv /\ (Adaptive!Next \/ UNCHANGED vars) => AdaptiveInv'
<1> SUFFICES ASSUME NormalizeKeeps, AdaptiveInv, Adaptive!Next \/ UNCHANGED vars PROVE AdaptiveInv' OBVIOUS
<1>1. CASE Adaptive!Collect BY <1>1, AdaptiveCollectsInv
<1>2. CASE Adaptive!SnapshotChunk BY <1>2, AdaptiveSnapshots
<1>3. CASE Adaptive!BeginEncode BY <1>3, AdaptiveBegins
<1>4. CASE Adaptive!EncodeMatch \/ Adaptive!EncodeLiteral BY <1>4, AdaptiveEncodes
<1>5. CASE Adaptive!BeginDecode BY <1>5, AdaptiveBeginsDecode
<1>6. CASE Adaptive!DecodeRole BY <1>6, AdaptiveReadsRole
<1>7. CASE Adaptive!DecodeHi \/ Adaptive!DecodeLo \/ Adaptive!DecodeLen BY <1>7, AdaptiveReadsMeta
<1>8. CASE Adaptive!DecodeLiteral BY <1>8, AdaptiveReadsLiteral
<1>9. CASE Adaptive!EndDecode
  <2>1. /\ UNCHANGED <<lz, split, positions, meta, distinct, ext, coded, chunk_size, escapes,
                       chunk_stats, cum_counts, at, lit_idx, stack, step, left, out,
                       lit_pos, boundary, table, counts, escape_pos>>
        /\ phase = "decode" /\ phase' = "done" /\ left = 0
    BY <1>9 DEF Adaptive!EndDecode, Adaptive!sentVars, Adaptive!inputVars, Adaptive!planVars,
         Adaptive!historyVars, Adaptive!encoderVars, Adaptive!literalVars
  <2> QED BY <2>1, AdaptiveStays
<1>10. CASE UNCHANGED vars
  <2>1. UNCHANGED <<phase, lz, split, positions, meta, distinct, ext, coded, chunk_size, escapes,
                    chunk_stats, cum_counts, at, lit_idx, stack, step, left, out,
                    lit_pos, boundary, table, counts, escape_pos>>
    BY <1>10 DEF vars, shared_vars, chunk_vars, adaptive_vars
  <2> QED BY <2>1, AdaptiveStays
<1> QED BY <1>1, <1>2, <1>3, <1>4, <1>5, <1>6, <1>7, <1>8, <1>9, <1>10
        DEF Adaptive!Next, Adaptive!EncodeNext, Adaptive!DecodeNext

\* What the invariant says of the properties.
LEMMA AdaptiveSafe ==
  ASSUME AdaptiveInv
  PROVE  Adaptive!InSync /\ Encodable(stack) /\ (phase = "done" => out = lz)
<1>1. Encodable(stack)
  <2>1. CASE phase \in {"collect", "snapshot"} BY <2>1 DEF AdaptiveInv, AdaptiveIdle, Encodable
  <2>2. CASE ~(phase \in {"collect", "snapshot"})
    <3>1. /\ Planned /\ \A e \in 1 .. Len(positions) : AllAccepted(AdaptiveCalls[e])
          /\ \/ at \in 0 .. Len(positions) /\ Stacked(stack, AdaptiveCalls, at, 0)
             \/ At(stack, step, left, out, AdaptiveCalls, 0)
      BY <2>2 DEF AdaptiveInv, AdaptiveTypes, AdaptivePlan, ChunkPlan, AdaptiveEncoding, AdaptiveDecoding
    <3>2. 0 \in 0 .. Len(positions) BY <3>1, EventFits
    <3> QED BY <3>1, <3>2, AdaptiveLitsTyped, SentAccepted DEF AdaptiveCalls
  <2> QED BY <2>1, <2>2
<1>2. ASSUME phase = "decode", left > 0
      PROVE  stack # <<>> /\ Top(stack).table = Adaptive!NextTable
  <2>0. /\ ChunkPlan /\ Planned /\ Typed(AdaptiveLits)
        /\ At(stack, step, left, out, Parts(AdaptiveLits, meta), 0)
        /\ step \in {"event", "hi", "lo", "len", "literal"}
    BY <1>2, AdaptiveAt
  <2>1. CASE step = "event"
    <3>1. split BY <2>0, <2>1 DEF At, LiteralSteps
    <3>2. Received(meta.role) = meta.role BY <3>1, <2>0 DEF ChunkPlan
    <3>3. At(stack, "event", left, out, Parts(AdaptiveLits, meta), 0) BY <2>0, <2>1
    <3>4. stack # <<>> /\ Top(stack).table = meta.role BY <3>3, <2>0, <1>2, ReadsRole
    <3> QED BY <2>1, <3>2, <3>4, AdaptiveIsCoder DEF Adaptive!NextTable
  <2>2. CASE step \in {"hi", "lo", "len"}
    <3>1. Width(positions[Done(left) + 1]) = 4 BY <2>0, <2>2 DEF At, LiteralSteps
    <3>2. split BY <3>1 DEF Width
    <3>3. stack # <<>> /\ Top(stack).table = Meta(meta, step) BY <2>0, <2>2, ReadsMeta
    <3>4. Received(Meta(meta, step)) = Meta(meta, step) BY <2>0, <2>2, <3>2 DEF ChunkPlan, Meta
    <3>5. Adaptive!NextTable = Received(Meta(meta, step))
      BY <2>2, AdaptiveIsCoder DEF Adaptive!NextTable, Meta
    <3> QED BY <3>3, <3>4, <3>5
  <2>3. CASE step = "literal"
    <3>1. stack # <<>> /\ stack[Len(stack)] = Call(coded[lit_pos + 1], Adaptive!Stats)
      BY <1>2, <2>3, AdaptiveNext
    <3>2. Top(stack).table = Adaptive!Stats BY <3>1, OnlyPopped
    <3> QED BY <2>3, <3>1, <3>2 DEF Adaptive!NextTable
  <2> QED BY <2>0, <2>1, <2>2, <2>3
<1>3. ASSUME phase = "done"
      PROVE  stack = <<>> /\ out = lz /\ escape_pos = Len(escapes) /\ lit_pos = Len(coded)
             /\ counts = cum_counts
  <2>1. /\ left = 0 /\ At(stack, step, 0, out, Parts(AdaptiveLits, meta), 0) /\ Planned /\ Typed(AdaptiveLits)
        /\ ChunkPlan /\ escapes \in Seq(0 .. MatchFlag) /\ escape_pos \in 0 .. Len(escapes)
        /\ Stacked(Unread(escapes, escape_pos), LitEscapes, lit_pos, 0)
        /\ lit_pos = LitsBefore(Done(0) + 1) /\ counts = CountsAfter(lit_pos)
    BY <1>3, AdaptiveAt DEF AdaptiveInv
  <2>2. stack = <<>> /\ out = lz BY <2>1, ReadsAll
  <2>3. Len(coded) = Cardinality(LiteralEvents) /\ Len(coded) \in Nat /\ chunk_size \in Nat
    BY <2>1 DEF ChunkPlan
  <2>4. lit_pos = Len(coded)
    <3>1. Done(0) = Len(positions) BY <2>1, EventFits DEF Done
    <3> QED BY <3>1, <2>1, <2>3, LitsSteps
  <2>5. Unread(escapes, escape_pos) = <<>>
    <3>1. Len(LitEscapes) = Len(coded) BY <2>1, LitEscapesTyped
    <3> QED BY <3>1, <2>1, <2>4, AllPopped
  <2>6. escape_pos = Len(escapes) BY <2>1, <2>5, AllRead
  <2>7. counts = cum_counts
    <3>1. /\ Len(coded) <= Len(chunk_stats) * chunk_size
          /\ cum_counts = CountsAfter(Least(Len(chunk_stats) * chunk_size, Len(coded)))
          /\ \E T : chunk_stats \in Seq(T)
      BY <1>3 DEF AdaptiveInv, AdaptiveHistory
    <3> DEFINE f == Len(chunk_stats) * chunk_size
    <3>2. f \in Nat /\ Len(coded) <= f BY <3>1, <2>3
    <3> HIDE DEF f
    <3>3. Least(f, Len(coded)) = Len(coded) BY <3>2, <2>3 DEF Least
    <3> QED BY <3>1, <3>3, <2>1, <2>4 DEF f
  <2> QED BY <2>2, <2>4, <2>6, <2>7
<1>4. Adaptive!InSync
  BY <1>2, <1>3, AdaptiveIsCoder
     DEF Adaptive!InSync, Adaptive!TablesAgree, Adaptive!Consumed, Adaptive!n_lit
<1> QED BY <1>1, <1>3, <1>4

-----------------------------------------------------------------------------
\* The ppm modes: the inductive invariant.

\* PpmMode has its own instance of Coder.
LEMMA PpmIsCoder ==
  /\ \A s, c : Ppm!Capped(s, c) = Capped(s, c)
  /\ \A s, S : Ppm!Table(s, S) = Table(s, S)
  /\ \A s, S : Ppm!Selected(s, S) = Selected(s, S)
  /\ \A s : Ppm!Positions(s) = Positions(s)
  /\ \A s, p : Ppm!Span(s, p) = Span(s, p)
  /\ \A s, p : Ppm!Literals(s, p) = Literals(s, p)
  /\ \A s, p, b : Ppm!MetaTables(s, p, b) = MetaTables(s, p, b)
  /\ \A s, p, m : Ppm!MatchCalls(s, p, m) = MatchCalls(s, p, m)
  /\ \A s, t : Ppm!Call(s, t) = Call(s, t)
  /\ \A t : Ppm!Received(t) = Received(t)
  /\ \A s, t : Ppm!Popped(s, t) = Popped(s, t)
  /\ \A s : Ppm!Below(s) = Below(s) /\ Ppm!Top(s) = Top(s)
  /\ \A S : Ppm!Ascending(S) = Ascending(S)
  /\ \A S : Ppm!Cardinality(S) = Cardinality(S)
  /\ \A s : Ppm!ValuesOf(s) = ValuesOf(s)
BY SMTT(30) DEF Ppm!Span, Span, Ppm!ValuesOf, ValuesOf, Ppm!IsFiniteSet, IsFiniteSet,
  Ppm!Cardinality, Cardinality, Ppm!CountOf, CountOf, Ppm!Capped, Capped, Ppm!Tally, Tally,
  Ppm!Table, Table, Ppm!Ascending, Ascending, Ppm!Selected, Selected, Ppm!Positions, Positions,
  Ppm!Events, Events, Ppm!Values, Values, Ppm!Literals, Literals, Ppm!Field, Field, Ppm!Roles,
  Roles, Ppm!MetaTables, MetaTables, Ppm!Call, Call, Ppm!MatchCalls, MatchCalls, Ppm!Received,
  Received, Ppm!Below, Below, Ppm!Top, Top, Ppm!Active, Active, Ppm!Popped, Popped

\* The counted literals that are local s, those in context c, and the counts
\* after the first n literals.
PpmSeen(s) == {j \in 1 .. Len(coded) : Ppm!IsCounted(coded[j]) /\ coded[j] = s}
PpmPairs(c, s) == {j \in 1 .. Len(coded) : Ppm!IsCounted(coded[j]) /\ Ppm!ContextAt(j) = c /\ coded[j] = s}
PpmOrder(n) == [l \in Ppm!Slots |-> 1 + Upto(PpmSeen(l), n)]
PpmCtx(n) == [c \in Ppm!Contexts |-> [l \in Ppm!Locals |-> Upto(PpmPairs(c, l), n)]]
PpmCounts(n) == [order |-> PpmOrder(n), ctx |-> PpmCtx(n)]
PpmTablesAt(n) == Ppm!Tables(PpmCounts(n))

\* The calls for the literal after the first n, and the calls for each event.
PpmCall(n) == Ppm!Cascade(coded[n + 1], Ppm!ContextAt(n + 1), PpmTablesAt(ChunkStart(n)))
PpmLits == [e \in 1 .. Len(positions) |-> PpmCall(LitsBefore(e))]
PpmCalls == Parts(PpmLits, meta)

PpmTypes ==
  /\ lz \in PpmInputs /\ split \in BOOLEAN
  /\ phase \in {"collect", "snapshot", "encode", "decode", "done"}

PpmIdle ==
  /\ phase \in {"collect", "snapshot"} => stack = <<>>
  /\ phase = "collect" => chunk_stats = <<>>
  /\ phase = "snapshot" /\ ~split => escapes = <<>>
  /\ phase \in {"collect", "snapshot", "encode"} =>
       out = <<>> /\ lit_pos = 0 /\ boundary = 0 /\ escape_pos = 0 /\ prev = Ppm!None

PpmFit == \A e \in 1 .. Len(positions) : AllAccepted(PpmCalls[e])
PpmPlan == phase # "collect" => ChunkPlan /\ (split => DroppedListed) /\ PpmFit

\* The encoder's way forward: the tables for each chunk, and what it has counted.
PpmHeard(cs, ct) ==
  /\ \E T : cs \in Seq(T)
  /\ \A i \in 1 .. Len(cs) : cs[i] = PpmTablesAt((i - 1) * chunk_size)
  /\ ct = PpmCounts(Least(Len(cs) * chunk_size, Len(coded)))

PpmHistory ==
  phase # "collect" =>
    /\ PpmHeard(chunk_stats, counted)
    /\ phase # "snapshot" => Len(coded) <= Len(chunk_stats) * chunk_size

\* The encoder's way back: the calls it has made, and the list it has built.
PpmWritten(stk, a, i, list) ==
  /\ a \in 0 .. Len(positions) /\ Stacked(stk, PpmCalls, a, 0)
  /\ i = LitsBefore(a + 1)
  /\ ~split => list \in Seq(0 .. MatchFlag) /\ Stacked(list, LitEscapes, i, 0)

PpmEncoding == phase = "encode" => PpmWritten(stack, at, lit_idx, escapes)

\* How many calls of the literal are behind the decoder: the context's escape,
\* if it has fallen back to order 0.
More(st, t, pv) == IF st = "order" /\ pv \in DOMAIN t.ctx THEN 1 ELSE 0

\* The decoder has recounted what it has decoded, and is within the cascade.
PpmReading(stk, st, lf, o, n, b, t, rc, pv, k, list) ==
  /\ st \in {"event", "hi", "lo", "len", "literal", "context", "order"}
  /\ At(stk, st, lf, o, PpmCalls, More(st, t, pv))
  /\ n = LitsBefore(Done(lf) + 1) /\ rc = PpmCounts(n) /\ pv = Ppm!ContextAt(n + 1)
  /\ AtBoundary(n, b, Len(coded))
  /\ n < b => t = PpmTablesAt(ChunkStart(n))
  /\ st \in {"context", "order"} => lf > 0 /\ n < b
  /\ st = "context" => pv \in DOMAIN t.ctx
  /\ st = "order" => More(st, t, pv) + 1 = Len(PpmCall(n))
  /\ list \in Seq(0 .. MatchFlag) /\ k \in 0 .. Len(list)
  /\ Stacked(Unread(list, k), LitEscapes, n, 0)

PpmDecoding ==
  phase \in {"decode", "done"} =>
    PpmReading(stack, step, left, out, lit_pos, boundary, tables, recounted, prev, escape_pos,
               sent_escapes)

PpmInv ==
  /\ PpmTypes /\ PpmIdle /\ PpmPlan /\ PpmHistory /\ PpmEncoding /\ PpmDecoding
  /\ phase = "done" => left = 0

\* It holds at the start.
LEMMA PpmInit == Ppm!Init => PpmInv
<1> SUFFICES ASSUME Ppm!Init PROVE PpmInv OBVIOUS
<1>1. /\ lz \in PpmInputs /\ split \in BOOLEAN /\ phase = "collect" /\ stack = <<>>
      /\ chunk_stats = <<>> /\ out = <<>> /\ lit_pos = 0 /\ boundary = 0 /\ escape_pos = 0
      /\ prev = Ppm!None
  BY DEF Ppm!Init
<1> QED BY <1>1 DEF PpmInv, PpmTypes, PpmIdle, PpmPlan, PpmHistory, PpmEncoding, PpmDecoding

\* What the sender settles before it encodes determines the tables and calls.
LEMMA PpmFixed ==
  ASSUME UNCHANGED <<lz, split, positions, meta, distinct, ext, coded, chunk_size>>
  PROVE  /\ PpmCalls' = PpmCalls
         /\ \A n : PpmCounts(n)' = PpmCounts(n)
         /\ \A n : PpmTablesAt(n)' = PpmTablesAt(n)
         /\ \A n : PpmCall(n)' = PpmCall(n)
         /\ \A j : Ppm!ContextAt(j)' = Ppm!ContextAt(j)
<1>1. \A e, l, m : Part(e, l, m)' = Part(e, l, m) BY EventsFixed
<1>2. /\ \A e : LitsBefore(e)' = LitsBefore(e)
      /\ \A n : ChunkStart(n)' = ChunkStart(n)
  BY ChunkFixed
<1>3. Ppm!Slots' = Ppm!Slots /\ Ppm!Locals' = Ppm!Locals /\ Ppm!Contexts' = Ppm!Contexts
  BY DEF Ppm!Slots, Ppm!Contexts, Ppm!Locals, Ppm!escape_local
<1>4. \A j : Ppm!ContextAt(j)' = Ppm!ContextAt(j) BY DEF Ppm!ContextAt
<1>5. \A n : PpmCounts(n)' = PpmCounts(n)
  <2>1. \A s : PpmSeen(s)' = PpmSeen(s) BY DEF PpmSeen, Ppm!IsCounted, Ppm!escape_local
  <2>2. \A c, s : PpmPairs(c, s)' = PpmPairs(c, s) BY <1>4 DEF PpmPairs, Ppm!IsCounted, Ppm!escape_local
  <2>3. \A s, n : Upto(PpmSeen(s), n)' = Upto(PpmSeen(s), n) BY <2>1 DEF Upto, Rank
  <2>4. \A c, s, n : Upto(PpmPairs(c, s), n)' = Upto(PpmPairs(c, s), n) BY <2>2 DEF Upto, Rank
  <2>5. \A n : PpmOrder(n)' = PpmOrder(n) BY <2>3, <1>3 DEF PpmOrder
  <2>6. \A n : PpmCtx(n)' = PpmCtx(n) BY <2>4, <1>3 DEF PpmCtx
  <2> QED BY <2>5, <2>6 DEF PpmCounts
<1>6. \A t : Ppm!Tables(t)' = Ppm!Tables(t)
  <2>1. \A f : Ppm!SumOver(f)' = Ppm!SumOver(f) OBVIOUS
  <2>2. \A s : Ppm!CtxTable(s)' = Ppm!CtxTable(s)
    BY <2>1 DEF Ppm!CtxTable, Ppm!escape_local
  <2>3. \A t : Ppm!Supported(t)' = Ppm!Supported(t) BY <1>3, <2>1 DEF Ppm!Supported
  <2> QED BY <2>1, <2>2, <2>3 DEF Ppm!Tables
<1>7. \A n : PpmTablesAt(n)' = PpmTablesAt(n) BY <1>5, <1>6 DEF PpmTablesAt
<1>8. \A n : PpmCall(n)' = PpmCall(n)
  <2>1. \A l, c, t : Ppm!Cascade(l, c, t)' = Ppm!Cascade(l, c, t)
    BY DEF Ppm!Cascade, Ppm!escape_local, Ppm!Call
  <2> QED BY <2>1, <1>2, <1>4, <1>7 DEF PpmCall
<1>9. PpmLits' = PpmLits BY <1>2, <1>8 DEF PpmLits
<1>10. PpmCalls' = PpmCalls BY <1>1, <1>9 DEF PpmCalls, Parts
<1> QED BY <1>4, <1>5, <1>7, <1>8, <1>10

\* And so what the encoder is to have settled and pushed.
LEMMA PpmSendingFixed ==
  ASSUME UNCHANGED <<lz, split, positions, meta, distinct, ext, coded, chunk_size>>
  PROVE  /\ \A cs, ct : PpmHeard(cs, ct)' <=> PpmHeard(cs, ct)
         /\ \A stk, a, i, list : PpmWritten(stk, a, i, list)' <=> PpmWritten(stk, a, i, list)
<1>1. /\ PpmCalls' = PpmCalls
      /\ \A n : PpmCounts(n)' = PpmCounts(n)
      /\ \A n : PpmTablesAt(n)' = PpmTablesAt(n)
  BY PpmFixed
<1>2. LitEscapes' = LitEscapes /\ \A e : LitsBefore(e)' = LitsBefore(e) BY ChunkFixed
<1>3. \A cs, ct : PpmHeard(cs, ct)' <=> PpmHeard(cs, ct) BY <1>1 DEF PpmHeard, Least
<1>4. \A stk, a, i, list : PpmWritten(stk, a, i, list)' <=> PpmWritten(stk, a, i, list)
  BY <1>1, <1>2 DEF PpmWritten
<1> QED BY <1>3, <1>4

\* And what the decoder is to have found.
LEMMA PpmReadingFixed ==
  ASSUME UNCHANGED <<lz, split, positions, meta, distinct, ext, coded, chunk_size>>
  PROVE  \A stk, st, lf, o, n, b, t, rc, pv, k, list :
           PpmReading(stk, st, lf, o, n, b, t, rc, pv, k, list)'
             <=> PpmReading(stk, st, lf, o, n, b, t, rc, pv, k, list)
<1>1. /\ PpmCalls' = PpmCalls
      /\ \A n : PpmCounts(n)' = PpmCounts(n)
      /\ \A n : PpmTablesAt(n)' = PpmTablesAt(n)
      /\ \A n : PpmCall(n)' = PpmCall(n)
      /\ \A j : Ppm!ContextAt(j)' = Ppm!ContextAt(j)
  BY PpmFixed
<1>2. /\ \A stk, st, lf, o, parts, more :
            At(stk, st, lf, o, parts, more)' <=> At(stk, st, lf, o, parts, more)
      /\ \A lf : Done(lf)' = Done(lf)
  BY EventsFixed
<1>3. /\ LitEscapes' = LitEscapes /\ \A e : LitsBefore(e)' = LitsBefore(e)
      /\ \A n : ChunkStart(n)' = ChunkStart(n)
      /\ \A n, b, N : AtBoundary(n, b, N)' <=> AtBoundary(n, b, N)
  BY ChunkFixed
<1>4. \A k, list : Unread(list, k)' = Unread(list, k) BY DEF Unread, Reversed
<1> QED BY <1>1, <1>2, <1>3, <1>4 DEF PpmReading, More

\* The tokens of the inputs.
LEMMA PpmTyped ==
  ASSUME PpmTypes
  PROVE  lz \in Seq(0 .. MatchFlag) /\ Len(lz) \in Nat /\ BytesOnly(lz) /\ DOMAIN lz = 1 .. Len(lz)
<1>1. lz \in Seq(0 .. MatchFlag) BY ModesAssumption DEF PpmTypes, Ppm!PpmAssumption
<1>2. BytesOnly(lz) BY BytesAssumption DEF PpmTypes
<1> QED BY <1>1, <1>2

\* The calls of a cascade: one of order 0, one of a context, or both.
LEMMA CascadeCalls ==
  ASSUME NEW l, NEW c, NEW t, NEW o, o = Call(l, t.order),
         NEW x, x = Call(l, t.ctx[c]),
         NEW y, y = Call(Len(distinct) + (IF split /\ l = Len(distinct) THEN 1 ELSE 0), t.ctx[c])
  PROVE  Ppm!Cascade(l, c, t) = IF c \notin DOMAIN t.ctx THEN <<o>>
                                ELSE IF l # Len(distinct) /\ t.ctx[c][l] > 0 THEN <<x>> ELSE <<o, y>>
BY PpmIsCoder DEF Ppm!Cascade, Ppm!escape_local

\* Every literal has a call.
LEMMA PpmLitsTyped == Typed(PpmLits)
<1> DEFINE l(e) == coded[LitsBefore(e) + 1]
           c(e) == Ppm!ContextAt(LitsBefore(e) + 1)
           t(e) == PpmTablesAt(ChunkStart(LitsBefore(e)))
           O(e) == Call(l(e), t(e).order)
           X(e) == Call(l(e), t(e).ctx[c(e)])
           Y(e) == Call(Len(distinct) + (IF split /\ l(e) = Len(distinct) THEN 1 ELSE 0), t(e).ctx[c(e)])
           E == 1 .. Len(positions)
           S == {O(e) : e \in E} \cup {X(e) : e \in E} \cup {Y(e) : e \in E}
<1>1. ASSUME NEW e \in E PROVE PpmLits[e] \in Seq(S) /\ PpmLits[e] # <<>>
  <2> DEFINE x == X(e)
             y == Y(e)
             o == O(e)
  <2>1. /\ o \in S /\ x \in S /\ y \in S
        /\ PpmLits[e] = Ppm!Cascade(l(e), c(e), t(e))
    BY DEF PpmLits, PpmCall
  <2>2. Ppm!Cascade(l(e), c(e), t(e)) \in {<<o>>, <<x>>, <<o, y>>} BY CascadeCalls
  <2> HIDE DEF x, y, o, S, l, c, t
  <2>3. <<o>> \in Seq(S) /\ <<x>> \in Seq(S) /\ <<o, y>> \in Seq(S) BY <2>1
  <2>4. <<o>> # <<>> /\ <<x>> # <<>> /\ <<o, y>> # <<>> OBVIOUS
  <2> QED BY <2>1, <2>2, <2>3, <2>4
<1>2. PpmLits \in [E -> Seq(S)]
  <2> HIDE DEF S
  <2> QED BY <1>1 DEF PpmLits
<1> QED BY <1>1, <1>2 DEF Typed

-----------------------------------------------------------------------------
\* The ppm modes: the tables of the contexts fit.

\* Normalize, of counts that are not all 0, in few enough symbols.
LEMMA FreqFits ==
  ASSUME NormalizeKeeps, NEW n \in Nat, n + 1 <= RANS_M, NEW raw \in [0 .. n -> Nat],
         NEW total \in Nat, total # 0, NEW a \in 0 .. n, raw[a] > 0
  PROVE  /\ Freq(raw, total) \in [0 .. n -> 0 .. RANS_M]
         /\ Active(Freq(raw, total)) = Active(raw) /\ Cardinality(Active(raw)) <= RANS_M
<1>1. Active(raw) \in SUBSET (0 .. n) /\ a \in Active(raw) BY DEF Active
<1>2. IsFiniteSet(0 .. n) /\ Cardinality(0 .. n) = n + 1 BY RangeFinite
<1>3. Cardinality(Active(raw)) \in Nat /\ Cardinality(Active(raw)) <= n + 1
  BY <1>1, <1>2, FS_Subset, FS_CardinalityType
<1>4. RANS_M \in Nat BY CoderAssumption
<1>5. Cardinality(Active(raw)) <= RANS_M BY <1>3, <1>4
<1>6. Normalizes(raw, total) BY DEF NormalizeKeeps
<1> QED BY <1>1, <1>5, <1>6 DEF Normalizes

\* The order-0 table names every slot.
LEMMA OrderFits ==
  ASSUME NormalizeKeeps, NEW h \in Nat, Ppm!Slots = 0 .. h, h + 1 <= RANS_M, NEW n \in Nat, Len(coded) \in Nat
  PROVE  /\ Active(PpmTablesAt(n).order) = 0 .. h
         /\ Cardinality(Active(PpmTablesAt(n).order)) <= RANS_M
<1> DEFINE raw == PpmOrder(n)
           total == Ppm!SumOver(raw)
<1>1. raw \in [0 .. h -> Nat] /\ \A s \in 0 .. h : raw[s] > 0
  <2>1. \A s \in 0 .. h : Upto(PpmSeen(s), n) \in Nat
    <3> TAKE s \in 0 .. h
    <3>1. PpmSeen(s) \in SUBSET (1 .. Len(coded)) /\ n <= n BY DEF PpmSeen
    <3> QED BY <3>1, UptoMore
  <2> QED BY <2>1 DEF PpmOrder
<1>2. PpmTablesAt(n).order = Freq(raw, total) BY DEF PpmTablesAt, PpmCounts, Ppm!Tables
<1>3. IsFiniteSet(0 .. h) /\ 0 \in 0 .. h BY RangeFinite
<1> HIDE DEF raw
<1>4. SumOf(raw) \in Nat /\ raw[0] <= SumOf(raw) BY <1>1, <1>3, SumBounds
<1>5. total \in Nat /\ total # 0 BY <1>1, <1>3, <1>4, SumsAreSums
<1> HIDE DEF total
<1>6. Active(raw) = 0 .. h BY <1>1 DEF Active
<1> QED BY <1>1, <1>2, <1>3, <1>5, <1>6, FreqFits

\* A context's table has an escape, and the split mode's a slot for a symbol
\* that has none.
LEMMA ContextFits ==
  ASSUME NormalizeKeeps, split \in BOOLEAN, NEW n \in Nat, n = Len(distinct),
         n + (IF split THEN 2 ELSE 1) <= RANS_M, NEW seen \in [0 .. n -> Nat],
         NEW t, t = Ppm!CtxTable(seen)
  PROVE  /\ 0 .. n \subseteq DOMAIN t /\ Cardinality(Active(t)) <= RANS_M
         /\ n \in Active(t) /\ (split => n + 1 \in Active(t))
<1> DEFINE mass == Ppm!Larger(1, Ppm!Cardinality(Ppm!Active(seen)))
           raw == [seen EXCEPT ![n] = mass]
           longer == [l \in 0 .. (n + 1) |-> IF l > n THEN 1 ELSE raw[l]]
           sum == Ppm!SumOver(seen)
<1>0. t = IF split THEN Freq(longer, sum + mass + 1) ELSE Freq(raw, sum + mass)
  BY DEF Ppm!CtxTable, Ppm!escape_local
<1>1. IsFiniteSet(0 .. n) BY RangeFinite
<1>2. sum \in Nat
  <2>1. SumOf(seen) \in Nat BY <1>1, SumBounds
  <2> QED BY <2>1, SumsAreSums
<1>3. mass \in Nat /\ mass >= 1
  <2>1. Ppm!Active(seen) \in SUBSET (0 .. n) BY DEF Ppm!Active
  <2> DEFINE k == Ppm!Cardinality(Ppm!Active(seen))
  <2>2. k \in Nat BY <2>1, <1>1, FS_Subset, FS_CardinalityType, PpmIsCoder
  <2> HIDE DEF k
  <2> QED BY <2>2 DEF Ppm!Larger
<1> HIDE DEF mass, sum
<1>4. raw \in [0 .. n -> Nat] /\ n \in 0 .. n /\ raw[n] = mass BY <1>3
<1> HIDE DEF raw
<1>5. longer \in [0 .. (n + 1) -> Nat] /\ longer[n] = mass /\ longer[n + 1] = 1
      /\ n \in 0 .. (n + 1) /\ n + 1 \in 0 .. (n + 1) /\ n + 1 \in Nat
  BY <1>4
<1> HIDE DEF longer
<1>6. CASE split
  <2> DEFINE m == n + 1
             total == sum + mass + 1
  <2>1. t = Freq(longer, total) /\ total \in Nat /\ total # 0
        /\ m + 1 <= RANS_M /\ longer[n + 1] > 0 /\ longer[n] > 0
    BY <1>0, <1>2, <1>3, <1>5, <1>6
  <2> HIDE DEF total
  <2>4. m \in Nat /\ longer \in [0 .. m -> Nat] /\ m \in 0 .. m /\ longer[m] > 0 BY <2>1, <1>5
  <2> HIDE DEF m
  <2>5. /\ Freq(longer, total) \in [0 .. m -> 0 .. RANS_M]
        /\ Active(Freq(longer, total)) = Active(longer) /\ Cardinality(Active(longer)) <= RANS_M
    BY ONLY NormalizeKeeps, <2>1, <2>4, FreqFits
  <2>2. /\ t \in [0 .. (n + 1) -> 0 .. RANS_M]
        /\ Active(t) = Active(longer) /\ Cardinality(Active(longer)) <= RANS_M
    BY <2>1, <2>5 DEF m
  <2>3. n \in Active(longer) /\ n + 1 \in Active(longer) BY <2>1, <1>5 DEF Active
  <2> QED BY <2>2, <2>3
<1>7. CASE ~split
  <2> DEFINE total == sum + mass
  <2>1. t = Freq(raw, total) /\ total \in Nat /\ total # 0 /\ n + 1 <= RANS_M /\ raw[n] > 0
    BY <1>0, <1>2, <1>3, <1>4, <1>7
  <2> HIDE DEF total
  <2>4. /\ Freq(raw, total) \in [0 .. n -> 0 .. RANS_M]
        /\ Active(Freq(raw, total)) = Active(raw) /\ Cardinality(Active(raw)) <= RANS_M
    BY ONLY NormalizeKeeps, n \in Nat, <2>1, <1>4, FreqFits
  <2>2. /\ t \in [0 .. n -> 0 .. RANS_M]
        /\ Active(t) = Active(raw) /\ Cardinality(Active(raw)) <= RANS_M
    BY <2>1, <2>4
  <2>3. n \in Active(raw) BY <2>1, <1>4 DEF Active
  <2> QED BY <2>2, <2>3, <1>7
<1> QED BY <1>6, <1>7

\* The calls of a literal, whatever has been counted.
LEMMA CascadeFits ==
  ASSUME NormalizeKeeps, split \in BOOLEAN, NEW h \in Nat, Ppm!Slots = 0 .. h, h + 1 <= RANS_M,
         Len(distinct) \in Nat, Len(distinct) + (IF split THEN 2 ELSE 1) <= RANS_M,
         NEW n \in Nat, Len(coded) \in Nat, NEW l \in 0 .. h, h <= Len(distinct), NEW c
  PROVE  AllAccepted(Ppm!Cascade(l, c, PpmTablesAt(n)))
<1> DEFINE d == Len(distinct)
           t == PpmTablesAt(n)
           y == d + (IF split /\ l = d THEN 1 ELSE 0)
           first == Call(l, t.order)
           straight == Call(l, t.ctx[c])
           escape == Call(y, t.ctx[c])
<1>1. Accepted(first) BY OrderFits DEF Accepted, Call
<1>2. ASSUME c \in DOMAIN t.ctx
      PROVE  /\ (l # d /\ t.ctx[c][l] > 0) => Accepted(straight)
             /\ ~(l # d /\ t.ctx[c][l] > 0) => Accepted(escape)
  <2> DEFINE seen == PpmCtx(n)[c]
             u == Ppm!CtxTable(seen)
  <2>1. t.ctx = [x \in Ppm!Supported(PpmCounts(n)) |-> Ppm!CtxTable(PpmCtx(n)[x])]
    BY DEF PpmTablesAt, PpmCounts, Ppm!Tables
  <2>2. c \in Ppm!Contexts BY <1>2, <2>1 DEF Ppm!Supported
  <2>3. t.ctx[c] = u BY <1>2, <2>1
  <2>4. \A s \in 0 .. d : Upto(PpmPairs(c, s), n) \in Nat
    <3> TAKE s \in 0 .. d
    <3>1. PpmPairs(c, s) \in SUBSET (1 .. Len(coded)) /\ n <= n BY DEF PpmPairs
    <3> QED BY <3>1, UptoMore
  <2>5. seen \in [0 .. d -> Nat] BY <2>2, <2>4 DEF PpmCtx, Ppm!Locals, Ppm!escape_local
  <2> HIDE DEF seen, t
  <2>6. /\ 0 .. d \subseteq DOMAIN u /\ Cardinality(Active(u)) <= RANS_M
        /\ d \in Active(u) /\ (split => d + 1 \in Active(u))
    BY <2>5, ContextFits
  <2> HIDE DEF u
  <2>7. l \in 0 .. d OBVIOUS
  <2>8. u[l] > 0 => l \in Active(u) BY <2>6, <2>7 DEF Active
  <2>9. y \in Active(u) BY <2>6
  <2> QED BY <2>3, <2>6, <2>8, <2>9 DEF Accepted, Call
<1>3. Ppm!Cascade(l, c, t) = IF c \notin DOMAIN t.ctx THEN <<first>>
                             ELSE IF l # d /\ t.ctx[c][l] > 0 THEN <<straight>> ELSE <<first, escape>>
  BY CascadeCalls
<1> HIDE DEF first, straight, escape, t
<1>4. AllAccepted(<<first>>) BY <1>1, OneAccepted
<1>5. Accepted(straight) => AllAccepted(<<straight>>) BY OneAccepted
<1>6. Accepted(escape) => AllAccepted(<<first, escape>>) BY <1>1, OneAccepted
<1> QED BY <1>2, <1>3, <1>4, <1>5, <1>6 DEF t

\* What every event's calls are, in a plan whose alphabet leaves room for the
\* escapes.
PpmRoom ==
  /\ Len(distinct) + (IF split THEN 2 ELSE 1) <= RANS_M /\ (split => ext)
  /\ ~ext => \A n \in 1 .. Len(coded) : coded[n] # Len(distinct)

\* Whatever has been counted, the calls of each event are accepted.
LEMMA PpmCallsFit ==
  ASSUME NormalizeKeeps, PpmTypes, ChunkPlan, PpmRoom,
         split => meta = MetaTables(lz, positions, Byte),
         positions = IF split THEN Positions(lz) ELSE [n \in DOMAIN lz |-> n]
  PROVE  \A e \in 1 .. Len(positions) : AllAccepted(PpmCalls[e])
<1> TAKE e \in 1 .. Len(positions)
<1> DEFINE d == Len(distinct)
           h == IF ext THEN d ELSE d - 1
<1>0. lz \in Seq(0 .. MatchFlag) /\ BytesOnly(lz) /\ split \in BOOLEAN BY PpmTyped DEF PpmTypes
<1>1. /\ Planned /\ Len(coded) \in Nat /\ chunk_size \in Nat \ {0} /\ Len(coded) = Cardinality(LiteralEvents)
      /\ d \in Nat /\ ext \in BOOLEAN /\ coded \in Seq(0 .. d)
      /\ \A n \in 1 .. Len(coded) : coded[n] # d => coded[n] \in 0 .. (d - 1)
  BY DEF ChunkPlan
<1>2. /\ d + (IF split THEN 2 ELSE 1) <= RANS_M /\ (~ext => \A n \in 1 .. Len(coded) : coded[n] # d)
      /\ RANS_M \in Nat
  BY CoderAssumption DEF PpmRoom
<1>3. ASSUME Width(positions[e]) # 4 PROVE AllAccepted(PpmLits[e])
  <2> DEFINE n == LitsBefore(e)
             l == coded[n + 1]
  <2>1. n \in Nat /\ n < Len(coded)
    <3>1. Planned /\ Len(positions) \in Nat /\ e \in 1 .. (Len(positions) + 1) BY <1>1, EventFits
    <3>3. /\ Cardinality(LiteralEvents) \in Nat /\ LitsBefore(e) \in 0 .. Cardinality(LiteralEvents)
          /\ LitsBefore(e) < Cardinality(LiteralEvents)
      BY ONLY <3>1, <1>3, e \in 1 .. Len(positions), LitsSteps
    <3>2. LitsBefore(e) \in Nat /\ LitsBefore(e) < Cardinality(LiteralEvents) BY <3>3
    <3> QED BY <3>2, <1>1
  <2> HIDE DEF n
  <2>2. n + 1 \in 1 .. Len(coded) BY <2>1, <1>1
  <2>3. ChunkStart(n) \in Nat BY <2>1, <1>1, NextInChunk
  <2>4. l \in 0 .. d BY <2>2, <1>1, ElementOfSeq
  <2>5. ~ext => l \in 0 .. (d - 1) BY <2>2, <1>1, <1>2
  <2> HIDE DEF l
  <2>6. l \in 0 .. h /\ h \in Nat /\ h <= d /\ h + 1 <= RANS_M
    <3>1. CASE ext BY <3>1, <2>4, <1>1, <1>2, <1>0
    <3>2. CASE ~ext BY <3>2, <2>5, <1>1, <1>2, <1>0
    <3> QED BY <3>1, <3>2, <1>1
  <2>7. Ppm!Slots = 0 .. h
    <3>1. CASE ext BY <3>1 DEF Ppm!Slots, Ppm!Locals, Ppm!escape_local
    <3>2. CASE ~ext BY <3>2, <1>1 DEF Ppm!Slots, Ppm!Locals, Ppm!escape_local
    <3> QED BY <3>1, <3>2, <1>1
  <2> HIDE DEF h, d
  <2>8. AllAccepted(Ppm!Cascade(l, Ppm!ContextAt(n + 1), PpmTablesAt(ChunkStart(n))))
    BY <1>0, <1>1, <1>2, <2>3, <2>6, <2>7, CascadeFits DEF d
  <2> QED BY <2>8 DEF PpmLits, PpmCall, n, l
<1>4. Typed(PpmLits) BY PpmLitsTyped
<1> QED BY <1>0, <1>3, <1>4, EventAccepted DEF PpmCalls

-----------------------------------------------------------------------------
\* The ppm modes: the counting.

\* The state after the collecting.
PpmKeptOf == Capped(LiteralsOf, RANS_M - (IF split THEN 2 ELSE 1))

PpmCollected ==
  /\ PpmTypes /\ phase = "snapshot"
  /\ stack = <<>> /\ out = <<>> /\ chunk_stats = <<>>
  /\ lit_pos = 0 /\ boundary = 0 /\ escape_pos = 0 /\ prev = Ppm!None
  /\ positions = IF split THEN Positions(lz) ELSE [n \in DOMAIN lz |-> n]
  /\ split => meta = MetaTables(lz, positions, Byte)
  /\ distinct = Ascending(PpmKeptOf) /\ ext = (split \/ PpmKeptOf # ValuesOf(LiteralsOf))
  /\ coded = LocalsOf(LiteralsOf, PpmKeptOf)
  /\ escapes = IF split THEN Selected(LiteralsOf, {n \in DOMAIN LiteralsOf : LiteralsOf[n] \notin PpmKeptOf})
               ELSE <<>>
  /\ chunk_size \in Nat \ {0}
  /\ counted = Ppm!NoCounts(Ppm!Slots, Ppm!Locals, Ppm!Contexts)

\* Nothing is counted before the first literal.
LEMMA NothingCounted ==
  ASSUME Len(coded) \in Nat
  PROVE  Ppm!NoCounts(Ppm!Slots, Ppm!Locals, Ppm!Contexts) = PpmCounts(0)
<1>1. \A s : Upto(PpmSeen(s), 0) = 0
  <2> TAKE s
  <2>1. PpmSeen(s) \in SUBSET (1 .. Len(coded)) BY DEF PpmSeen
  <2>2. 0 \in Nat /\ 0 <= 0 OBVIOUS
  <2> QED BY <2>1, <2>2, UptoMore
<1>2. \A c, s : Upto(PpmPairs(c, s), 0) = 0
  <2> TAKE c, s
  <2>1. PpmPairs(c, s) \in SUBSET (1 .. Len(coded)) BY DEF PpmPairs
  <2>2. 0 \in Nat /\ 0 <= 0 OBVIOUS
  <2> QED BY <2>1, <2>2, UptoMore
<1>3. PpmOrder(0) = [l \in Ppm!Slots |-> 1] BY <1>1 DEF PpmOrder
<1>4. PpmCtx(0) = [c \in Ppm!Contexts |-> [l \in Ppm!Locals |-> 0]] BY <1>2 DEF PpmCtx
<1> QED BY <1>3, <1>4 DEF PpmCounts, Ppm!NoCounts

\* The invariant holds after the counting.
LEMMA PpmCollectedInv == NormalizeKeeps /\ PpmCollected => PpmInv
<1> SUFFICES ASSUME NormalizeKeeps, PpmCollected PROVE PpmInv OBVIOUS
<1> DEFINE cap == RANS_M - (IF split THEN 2 ELSE 1)
           K == PpmKeptOf
<1>1. /\ PpmTypes /\ phase = "snapshot" /\ stack = <<>> /\ out = <<>> /\ chunk_stats = <<>>
      /\ lit_pos = 0 /\ boundary = 0 /\ escape_pos = 0 /\ prev = Ppm!None
      /\ positions = IF split THEN Positions(lz) ELSE [n \in DOMAIN lz |-> n]
      /\ split => meta = MetaTables(lz, positions, Byte)
      /\ K = Capped(LiteralsOf, cap) /\ distinct = Ascending(K)
      /\ ext = (split \/ K # ValuesOf(LiteralsOf))
      /\ coded = LocalsOf(LiteralsOf, K) /\ chunk_size \in Nat \ {0}
      /\ ~split => escapes = <<>>
      /\ split => escapes = Selected(LiteralsOf, {n \in DOMAIN LiteralsOf : LiteralsOf[n] \notin K})
      /\ counted = Ppm!NoCounts(Ppm!Slots, Ppm!Locals, Ppm!Contexts)
  BY DEF PpmCollected, PpmKeptOf
<1>2. lz \in Seq(0 .. MatchFlag) /\ BytesOnly(lz) /\ split \in BOOLEAN
  BY <1>1, PpmTyped DEF PpmTypes
<1>3. cap \in Nat /\ RANS_M \in Nat /\ cap + (IF split THEN 2 ELSE 1) = RANS_M
  <2>1. 2 <= RANS_M /\ RANS_M \in Nat BY CoderAssumption, BytesAssumption
  <2> QED BY <2>1
<1>8. ext \in BOOLEAN BY <1>1, <1>2
<1> HIDE DEF cap, K
<1>4. /\ ChunkPlan /\ {n \in DOMAIN LiteralsOf : LiteralsOf[n] \notin K} = Dropped
      /\ Len(distinct) \in 0 .. cap
      /\ K = ValuesOf(LiteralsOf) => \A n \in 1 .. Len(LiteralsOf) : coded[n] # Len(distinct)
  BY ONLY NormalizeKeeps, <1>1, <1>2, <1>3, <1>8, ChunksPlanned
<1>9. PpmRoom
  <2>1. Len(distinct) + (IF split THEN 2 ELSE 1) <= RANS_M BY <1>3, <1>4
  <2>2. Len(LiteralsOf) = Len(coded) BY <1>4 DEF ChunkPlan
  <2> QED BY <2>1, <2>2, <1>1, <1>4 DEF PpmRoom
<1>10. PpmFit BY <1>1, <1>4, <1>9, PpmCallsFit DEF PpmFit
<1>5. PpmPlan BY <1>1, <1>4, <1>10 DEF PpmPlan, DroppedListed
<1>6. Len(coded) \in Nat /\ chunk_size \in Nat BY <1>1, <1>4 DEF ChunkPlan
<1>7. PpmHistory
  <2>1. chunk_stats \in Seq({}) /\ Len(chunk_stats) = 0 BY <1>1
  <2>2. Len(chunk_stats) * chunk_size = 0 BY <2>1, <1>6
  <2>3. Least(0, Len(coded)) = 0 BY <1>6 DEF Least
  <2>4. counted = PpmCounts(0) BY <1>1, <1>6, NothingCounted
  <2>5. \A i \in 1 .. Len(chunk_stats) : chunk_stats[i] = PpmTablesAt((i - 1) * chunk_size) BY <2>1
  <2>6. counted = PpmCounts(Least(Len(chunk_stats) * chunk_size, Len(coded))) BY <2>2, <2>3, <2>4
  <2> QED BY <1>1, <2>1, <2>5, <2>6 DEF PpmHistory, PpmHeard
<1> QED BY <1>1, <1>5, <1>7 DEF PpmInv, PpmIdle, PpmEncoding, PpmDecoding

\* The counting leads to that state.
LEMMA PpmCollects == PpmInv /\ Ppm!Collect => PpmCollected'
<1> SUFFICES ASSUME PpmInv, Ppm!Collect PROVE PpmCollected' OBVIOUS
<1> DEFINE ps == IF split THEN Positions(lz) ELSE [n \in DOMAIN lz |-> n]
           L == IF split THEN Literals(lz, ps) ELSE lz
           K == Capped(L, RANS_M - (IF split THEN 2 ELSE 1))
<1>1. /\ phase = "collect" /\ lz' = lz /\ split' = split /\ stack' = <<>> /\ phase' = "snapshot"
      /\ out' = <<>> /\ chunk_stats' = <<>> /\ lit_pos' = 0 /\ boundary' = 0 /\ escape_pos' = 0
      /\ prev' = Ppm!None /\ lz \in PpmInputs /\ split \in BOOLEAN
  BY DEF PpmInv, PpmTypes, PpmIdle, Ppm!Collect, Ppm!inputVars, Ppm!literalVars, Ppm!None
<1>2. /\ positions' = ps
      /\ meta' = IF split THEN MetaTables(lz, ps, Byte) ELSE <<>>
      /\ distinct' = Ascending(K) /\ ext' = (split \/ K # ValuesOf(L))
      /\ coded' = LocalsOf(L, K)
      /\ escapes' = IF split THEN Selected(L, {n \in DOMAIN L : L[n] \notin K}) ELSE <<>>
      /\ chunk_size' = Ppm!_adaptive_chunk_size(Len(L), Cardinality(Ppm!Slots'))
      /\ counted' = Ppm!NoCounts(Ppm!Slots', Ppm!Locals', Ppm!Contexts')
  <2>1. positions' = ps BY PpmIsCoder DEF Ppm!Collect
  <2> HIDE DEF ps
  <2>2. meta' = IF split THEN MetaTables(lz, ps, Byte) ELSE <<>>
    BY <2>1, PpmIsCoder DEF Ppm!Collect
  <2>3. PICK literals \in {IF split THEN Ppm!Literals(lz, positions') ELSE lz} :
          \E kept \in {Ppm!Kept(literals)} :
          LET Local(s) == IF s \in kept THEN Ppm!Cardinality({t \in kept : t < s}) ELSE Ppm!Cardinality(kept)
          IN  /\ distinct' = Ppm!Ascending(kept)
              /\ ext' = (split \/ kept # Ppm!ValuesOf(literals))
              /\ coded' = [n \in DOMAIN literals |-> Local(literals[n])]
              /\ escapes' = IF split THEN Ppm!Selected(literals, {n \in DOMAIN literals : literals[n] \notin kept})
                            ELSE <<>>
              /\ chunk_size' = Ppm!_adaptive_chunk_size(Len(literals), Ppm!Cardinality(Ppm!Slots'))
              /\ counted' = Ppm!NoCounts(Ppm!Slots', Ppm!Locals', Ppm!Contexts')
    BY DEF Ppm!Collect
  <2>4. literals = L BY <2>1, <2>3, PpmIsCoder
  <2>5. Ppm!Kept(L) = K BY PpmIsCoder DEF Ppm!Kept
  <2> HIDE DEF L, K
  <2>6. PICK kept \in {K} :
          /\ distinct' = Ppm!Ascending(kept)
          /\ ext' = (split \/ kept # Ppm!ValuesOf(L))
          /\ coded' = [n \in DOMAIN L |-> IF L[n] \in kept THEN Ppm!Cardinality({t \in kept : t < L[n]})
                                                           ELSE Ppm!Cardinality(kept)]
          /\ escapes' = IF split THEN Ppm!Selected(L, {n \in DOMAIN L : L[n] \notin kept}) ELSE <<>>
          /\ chunk_size' = Ppm!_adaptive_chunk_size(Len(L), Ppm!Cardinality(Ppm!Slots'))
          /\ counted' = Ppm!NoCounts(Ppm!Slots', Ppm!Locals', Ppm!Contexts')
    BY <2>3, <2>4, <2>5
  <2>7. coded' = LocalsOf(L, K) BY <2>6, PpmIsCoder DEF LocalsOf, Rank
  <2> QED BY <2>1, <2>2, <2>6, <2>7, PpmIsCoder
<1>3. Len(L) \in Nat /\ Cardinality(K) \in Nat
  <2>1. lz \in Seq(0 .. MatchFlag) /\ BytesOnly(lz) BY <1>1, PpmTyped DEF PpmInv
  <2>2. MatchFlag \in Nat /\ RANS_M - (IF split THEN 2 ELSE 1) \in Nat
    <3>1. 2 <= RANS_M /\ RANS_M \in Nat BY CoderAssumption, BytesAssumption
    <3> QED BY <3>1, CoderAssumption
  <2>3. L \in Seq(0 .. MatchFlag)
    <3>1. CASE split
      <4>1. L = Literals(lz, Positions(lz)) BY <3>1
      <4> QED BY <4>1, <2>1, <2>2, SplitTyped
    <3>2. CASE ~split BY <3>2, <2>1
    <3> QED BY <3>1, <3>2
  <2> HIDE DEF L
  <2>4. L \in Seq(Nat) BY <2>2, <2>3
  <2> QED BY <2>2, <2>4, CappedFits
<1>4. LiteralsOf' = L
  <2>1. CASE split
    <3>1. LiteralsOf' = Literals(lz, positions)' BY <1>1, <2>1 DEF LiteralsOf
    <3>2. Literals(lz, positions)' = Literals(lz', positions')
      BY DEF Literals, Values, Events, Selected, Ascending, Span
    <3> QED BY <3>1, <3>2, <1>1, <1>2, <2>1
  <2>2. CASE ~split
    <3>1. LiteralsOf' = lz' BY <1>1, <2>2 DEF LiteralsOf
    <3> QED BY <3>1, <1>1, <2>2
  <2> QED BY <2>1, <2>2
<1> HIDE DEF L
<1>5. PpmKeptOf' = K
  <2>1. PpmKeptOf' = Capped(LiteralsOf', RANS_M - (IF split' THEN 2 ELSE 1))
    BY DEF PpmKeptOf, Capped, CountOf, ValuesOf
  <2> QED BY <2>1, <1>1, <1>4
<1> HIDE DEF K
<1>6. chunk_size' \in Nat \ {0}
  <2> DEFINE size == Cardinality(Ppm!Slots')
             x == (Len(L) * size) \div ADAPTIVE_WORK_BUDGET
  <2>1. size \in Nat
    <3>1. Len(distinct') = Cardinality(K)
      <4>1. distinct' = [n \in 1 .. Cardinality(K) |-> CHOOSE i \in K : Cardinality({j \in K : j < i}) = n - 1]
        BY <1>2 DEF Ascending
      <4> QED BY <4>1, <1>3
    <3>2. Ppm!Slots' \in SUBSET (0 .. Len(distinct')) BY DEF Ppm!Slots, Ppm!Locals, Ppm!escape_local
    <3>3. IsFiniteSet(0 .. Len(distinct')) BY <3>1, <1>3, RangeFinite
    <3> QED BY <3>2, <3>3, FS_Subset, FS_CardinalityType
  <2> HIDE DEF size
  <2>2. ADAPTIVE_MIN_CHUNK \in Nat \ {0} /\ ADAPTIVE_WORK_BUDGET \in Nat \ {0}
    BY ModesAssumption DEF Ppm!PpmAssumption
  <2>3. Len(L) * size \in Nat BY <2>1, <1>3
  <2>4. x \in Nat BY <2>2, <2>3, QuotientBounds
  <2>5. chunk_size' = IF ADAPTIVE_MIN_CHUNK > x THEN ADAPTIVE_MIN_CHUNK ELSE x
    BY <1>2 DEF Ppm!_adaptive_chunk_size, Ppm!Larger, size
  <2> HIDE DEF x
  <2> QED BY <2>2, <2>4, <2>5
<1>7. positions' = IF split' THEN Positions(lz') ELSE [n \in DOMAIN lz' |-> n] BY <1>1, <1>2
<1>8. split' => meta' = MetaTables(lz, positions, Byte)'
  <2>1. MetaTables(lz, positions, Byte)' = MetaTables(lz', positions', Byte)
    BY DEF MetaTables, Table, Tally, CountOf, Roles, Field, Values, Events, Selected, Ascending, Span
  <2> QED BY <2>1, <1>1, <1>2
<1> HIDE DEF ps
<1>9. coded' = LocalsOf(LiteralsOf, PpmKeptOf)'
  <2>1. LocalsOf(LiteralsOf, PpmKeptOf)' = LocalsOf(LiteralsOf', PpmKeptOf') BY DEF LocalsOf, Rank
  <2> QED BY <2>1, <1>2, <1>4, <1>5
<1>10. escapes' = (IF split THEN Selected(LiteralsOf, {n \in DOMAIN LiteralsOf : LiteralsOf[n] \notin PpmKeptOf})
                  ELSE <<>>)'
  <2>1. Selected(LiteralsOf, {n \in DOMAIN LiteralsOf : LiteralsOf[n] \notin PpmKeptOf})'
          = Selected(LiteralsOf', {n \in DOMAIN LiteralsOf' : LiteralsOf'[n] \notin PpmKeptOf'})
    BY DEF Selected, Ascending
  <2> QED BY <2>1, <1>1, <1>2, <1>4, <1>5
<1>11. distinct' = Ascending(PpmKeptOf)'
  <2>1. Ascending(PpmKeptOf)' = Ascending(PpmKeptOf') BY DEF Ascending
  <2> QED BY <2>1, <1>2, <1>5
<1>12. (counted = Ppm!NoCounts(Ppm!Slots, Ppm!Locals, Ppm!Contexts))' BY <1>2 DEF Ppm!NoCounts
<1>14. ext' = (split \/ PpmKeptOf # ValuesOf(LiteralsOf))'
  <2>1. ValuesOf(LiteralsOf)' = ValuesOf(LiteralsOf') BY DEF ValuesOf
  <2> QED BY <2>1, <1>1, <1>2, <1>4, <1>5
<1>13. PpmTypes' BY <1>1 DEF PpmTypes
<1> QED BY <1>1, <1>2, <1>6, <1>7, <1>8, <1>9, <1>10, <1>11, <1>12, <1>13, <1>14 DEF PpmCollected, Ppm!None

\* And so to the invariant.
LEMMA PpmCollectsInv == NormalizeKeeps /\ PpmInv /\ Ppm!Collect => PpmInv'
<1>1. (NormalizeKeeps /\ PpmCollected => PpmInv)' BY PpmCollectedInv, PTL
<1>2. NormalizeKeeps => NormalizeKeeps'
  BY DEF NormalizeKeeps, Normalizes, Active
<1> QED BY <1>1, <1>2, PpmCollects

-----------------------------------------------------------------------------
\* The ppm modes: the encoder takes its tables, chunk by chunk.

\* What the encoder settles before it encodes stays as it is.
LEMMA PpmPlanStays ==
  ASSUME PpmInv, phase # "collect", split => escapes' = escapes,
         UNCHANGED <<lz, split, positions, meta, distinct, ext, coded, chunk_size>>
  PROVE  PpmPlan'
<1>1. ChunkPlan /\ (split => DroppedListed) /\ PpmFit BY DEF PpmInv, PpmPlan
<1>2. ChunkPlan' = ChunkPlan BY PlanFixed
<1>3. split => DroppedListed'
  <2>1. Selected(LiteralsOf, Dropped)' = Selected(LiteralsOf, Dropped)
    BY ChunkFixed DEF Selected, Ascending
  <2> QED BY <2>1, <1>1 DEF DroppedListed
<1>4. PpmFit'
  <2>1. PpmCalls' = PpmCalls BY PpmFixed
  <2> QED BY <2>1, <1>1 DEF PpmFit, AllAccepted, Accepted, Active
<1> QED BY <1>1, <1>2, <1>3, <1>4 DEF PpmPlan

\* What has been counted stays as well.
LEMMA PpmHistoryStays ==
  ASSUME PpmInv, phase # "collect",
         phase' # "snapshot" => Len(coded) <= Len(chunk_stats) * chunk_size,
         UNCHANGED <<lz, split, positions, meta, distinct, ext, coded, chunk_size, chunk_stats, counted>>
  PROVE  PpmHistory'
<1>1. PpmHeard(chunk_stats, counted) BY DEF PpmInv, PpmHistory
<1>2. PpmHeard(chunk_stats', counted') BY <1>1
<1>3. PpmHeard(chunk_stats, counted)' BY <1>2, PpmSendingFixed
<1> QED BY <1>3 DEF PpmHistory

\* The counting of a chunk adds the members of I in it.
LEMMA ChunkCounted ==
  ASSUME Len(coded) \in Nat, NEW I \in SUBSET (1 .. Len(coded)), NEW a \in Nat, NEW b \in Nat, a <= b,
         NEW J, J = After(I, a, b)
  PROVE  Upto(I, a) \in Nat /\ Upto(I, b) = Upto(I, a) + Cardinality(J) /\ Cardinality(J) \in Nat
<1>1. Upto(I, a) \in Nat /\ Adds(I, a, b) BY UptoMore
<1>2. IsFiniteSet(J)
  <2>1. IsFiniteSet((a + 1) .. b) BY FS_Interval, a + 1 \in Int, b \in Int
  <2> QED BY <2>1, FS_Subset DEF After
<1> QED BY <1>1, <1>2, FS_CardinalityType DEF Adds

\* A chunk: its tables, and then its counts.
LEMMA PpmSnapshots == PpmInv /\ Ppm!SnapshotChunk => PpmInv'
<1> SUFFICES ASSUME PpmInv, Ppm!SnapshotChunk PROVE PpmInv' OBVIOUS
<1> DEFINE L == Len(chunk_stats)
           N == Len(coded)
           c == chunk_size
           f == L * c
           b == Least(f + c, N)
           J == {j \in (f + 1) .. b : Ppm!IsCounted(coded[j])}
<1>1. /\ phase = "snapshot" /\ f < N
      /\ chunk_stats' = Append(chunk_stats, Ppm!Tables(counted))
      /\ counted' =
           [order |-> [l \in Ppm!Slots |-> counted.order[l] + Cardinality({j \in J : coded[j] = l})],
            ctx |-> [x \in Ppm!Contexts |-> [l \in Ppm!Locals |-> counted.ctx[x][l]
                       + Cardinality({j \in J : Ppm!ContextAt(j) = x /\ coded[j] = l})]]]
      /\ UNCHANGED <<lz, split, phase, positions, meta, distinct, ext, coded, chunk_size, escapes,
                     stack, out, lit_pos, boundary, escape_pos, prev>>
  BY PpmIsCoder
     DEF Ppm!SnapshotChunk, Ppm!from, Ppm!n_lit, Ppm!Chunk, Ppm!Smaller, Least, Ppm!inputVars,
         Ppm!planVars, Ppm!encoderVars, Ppm!literalVars
<1>2. /\ N \in Nat /\ c \in Nat /\ c > 0
      /\ \E T : chunk_stats \in Seq(T)
      /\ \A i \in 1 .. L : chunk_stats[i] = PpmTablesAt((i - 1) * c)
      /\ counted = PpmCounts(Least(f, N))
  BY <1>1 DEF PpmInv, PpmPlan, ChunkPlan, PpmHistory, PpmHeard
<1>3. L \in Nat /\ (L + 1) * c = f + c /\ f \in Nat BY <1>2
<1>4. counted = PpmCounts(f) BY <1>1, <1>2 DEF Least
<1>5. PpmPlan' BY <1>1, PpmPlanStays
<1> DEFINE t == PpmTablesAt(f)
<1>7. chunk_stats' = Append(chunk_stats, t) BY <1>1, <1>4 DEF PpmTablesAt
<1>8. /\ \E T : chunk_stats' \in Seq(T)
      /\ Len(chunk_stats') = L + 1
      /\ \A i \in 1 .. (L + 1) : chunk_stats'[i] = PpmTablesAt((i - 1) * c)
  <2> HIDE DEF t, f, c, N, J, b
  <2>1. PICK T : chunk_stats \in Seq(T) BY <1>2
  <2> DEFINE U == T \cup {t}
  <2>2. chunk_stats \in Seq(U) /\ t \in U BY <2>1
  <2> HIDE DEF U
  <2>3. /\ chunk_stats' \in Seq(U) /\ Len(chunk_stats') = L + 1
        /\ \A i \in 1 .. L : chunk_stats'[i] = chunk_stats[i]
        /\ chunk_stats'[L + 1] = t
    BY <2>2, <1>7, AppendProperties
  <2>4. ASSUME NEW i \in 1 .. (L + 1) PROVE chunk_stats'[i] = PpmTablesAt((i - 1) * c)
    <3>1. CASE i = L + 1
      <4>1. i - 1 = L BY <3>1, <1>3
      <4> QED BY <4>1, <3>1, <2>3 DEF t, f, c
    <3>2. CASE i # L + 1
      <4>1. i \in 1 .. L BY <3>2, <1>3
      <4> QED BY <4>1, <2>3, <1>2
    <3> QED BY <3>1, <3>2
  <2> QED BY <2>3, <2>4
<1>9. counted' = PpmCounts(b)
  <2>1. f <= b /\ b \in Nat /\ f \in Nat /\ \A j \in (f + 1) .. b : j \in 1 .. N
    BY <1>1, <1>2, <1>3 DEF Least
  <2> HIDE DEF b, f
  <2>2. ASSUME NEW l
        PROVE  /\ Upto(PpmSeen(l), b) = Upto(PpmSeen(l), f) + Cardinality({j \in J : coded[j] = l})
               /\ Upto(PpmSeen(l), f) \in Nat /\ Cardinality({j \in J : coded[j] = l}) \in Nat
    <3> DEFINE I == PpmSeen(l)
               Q == {j \in J : coded[j] = l}
    <3>1. I \in SUBSET (1 .. Len(coded)) /\ Len(coded) \in Nat BY <1>2 DEF PpmSeen
    <3>2. Q = After(I, f, b) BY <2>1 DEF After, PpmSeen
    <3> HIDE DEF I, Q, J
    <3>3. Upto(I, f) \in Nat /\ Upto(I, b) = Upto(I, f) + Cardinality(Q) /\ Cardinality(Q) \in Nat
      BY ONLY <3>1, <3>2, <2>1, ChunkCounted
    <3> QED BY <3>3 DEF I, Q
  <2>3. ASSUME NEW x, NEW l
        PROVE  Upto(PpmPairs(x, l), b)
                 = Upto(PpmPairs(x, l), f) + Cardinality({j \in J : Ppm!ContextAt(j) = x /\ coded[j] = l})
    <3> DEFINE I == PpmPairs(x, l)
               Q == {j \in J : Ppm!ContextAt(j) = x /\ coded[j] = l}
    <3>1. I \in SUBSET (1 .. Len(coded)) /\ Len(coded) \in Nat BY <1>2 DEF PpmPairs
    <3>2. Q = After(I, f, b) BY <2>1 DEF After, PpmPairs
    <3> HIDE DEF I, Q, J
    <3>3. Upto(I, f) \in Nat /\ Upto(I, b) = Upto(I, f) + Cardinality(Q) /\ Cardinality(Q) \in Nat
      BY ONLY <3>1, <3>2, <2>1, ChunkCounted
    <3> QED BY <3>3 DEF I, Q
  <2>4. counted.order = PpmOrder(f) /\ counted.ctx = PpmCtx(f) BY <1>4 DEF PpmCounts
  <2> HIDE DEF J
  <2>5. \A l \in Ppm!Slots : counted.order[l] + Cardinality({j \in J : coded[j] = l}) = 1 + Upto(PpmSeen(l), b)
    <3> TAKE l \in Ppm!Slots
    <3>1. counted.order[l] = 1 + Upto(PpmSeen(l), f) BY <2>4 DEF PpmOrder
    <3> QED BY <3>1, <2>2
  <2>6. \A x \in Ppm!Contexts : \A l \in Ppm!Locals :
          counted.ctx[x][l] + Cardinality({j \in J : Ppm!ContextAt(j) = x /\ coded[j] = l}) = Upto(PpmPairs(x, l), b)
    BY <2>3, <2>4 DEF PpmCtx
  <2>7. counted'.order = PpmOrder(b) BY <2>5, <1>1 DEF PpmOrder
  <2>8. counted'.ctx = PpmCtx(b)
    <3> DEFINE g(x) == [l \in Ppm!Locals |-> counted.ctx[x][l]
                         + Cardinality({j \in J : Ppm!ContextAt(j) = x /\ coded[j] = l})]
               h(x) == [l \in Ppm!Locals |-> Upto(PpmPairs(x, l), b)]
    <3>1. \A x \in Ppm!Contexts : g(x) = h(x) BY <2>6
    <3>2. counted'.ctx = [x \in Ppm!Contexts |-> g(x)] BY <1>1
    <3>3. PpmCtx(b) = [x \in Ppm!Contexts |-> h(x)] BY DEF PpmCtx
    <3> HIDE DEF g, h
    <3> QED BY <3>1, <3>2, <3>3
  <2>9. counted' = [order |-> counted'.order, ctx |-> counted'.ctx] BY <1>1
  <2> QED BY <2>7, <2>8, <2>9 DEF PpmCounts
<1>10. PpmHistory'
  <2>1. Least(Len(chunk_stats') * chunk_size, Len(coded)) = b BY <1>3, <1>8
  <2> HIDE DEF b
  <2>2. PpmHeard(chunk_stats', counted') BY <2>1, <1>8, <1>9 DEF PpmHeard
  <2>3. PpmHeard(chunk_stats, counted)' BY <2>2, <1>1, PpmSendingFixed
  <2> QED BY <2>3, <1>1 DEF PpmHistory
<1>11. PpmTypes' /\ PpmIdle' BY <1>1 DEF PpmInv, PpmTypes, PpmIdle, Ppm!None
<1> QED BY <1>1, <1>5, <1>10, <1>11 DEF PpmInv, PpmEncoding, PpmDecoding

\* From the last chunk to the last event.
LEMMA PpmBegins == PpmInv /\ Ppm!BeginEncode => PpmInv'
<1> SUFFICES ASSUME PpmInv, Ppm!BeginEncode PROVE PpmInv' OBVIOUS
<1>1. /\ phase = "snapshot" /\ Len(chunk_stats) * chunk_size >= Len(coded) /\ phase' = "encode"
      /\ at' = Len(positions) /\ lit_idx' = Len(coded)
      /\ UNCHANGED <<lz, split, positions, meta, distinct, ext, coded, chunk_size, escapes,
                     chunk_stats, counted, stack, out, lit_pos, boundary, escape_pos, prev>>
  BY DEF Ppm!BeginEncode, Ppm!from, Ppm!n_lit, Ppm!inputVars, Ppm!planVars, Ppm!literalVars,
         Ppm!historyVars
<1>2. ChunkPlan /\ stack = <<>> /\ (\E T : chunk_stats \in Seq(T)) /\ (~split => escapes = <<>>)
  BY <1>1 DEF PpmInv, PpmPlan, PpmIdle, PpmHistory, PpmHeard
<1>3. /\ Planned /\ Len(positions) \in Nat /\ Len(coded) \in Nat /\ chunk_size \in Nat
      /\ Len(coded) = Cardinality(LiteralEvents) /\ Len(chunk_stats) \in Nat
  BY <1>2, EventFits DEF ChunkPlan
<1>4. Len(coded) <= Len(chunk_stats) * chunk_size
  <2>1. Len(chunk_stats) * chunk_size \in Nat BY <1>3
  <2> QED BY <2>1, <1>1, <1>3
<1>5. PpmPlan' /\ PpmHistory' BY <1>1, <1>4, PpmPlanStays, PpmHistoryStays
<1>6. Stacked(stack, PpmCalls, Len(positions), 0)
  <2>1. (\E S : PpmCalls \in Seq(Seq(S))) /\ Len(PpmCalls) = Len(positions)
    BY <1>3, PpmLitsTyped, PartsTyped DEF PpmCalls
  <2> QED BY <2>1, <1>2, NothingStacked
<1>7. LitsBefore(Len(positions) + 1) = Len(coded) BY <1>3, LitsSteps
<1>8. ~split => Stacked(escapes, LitEscapes, Len(coded), 0)
  <2>1. LitEscapes \in Seq(Seq(0 .. MatchFlag)) /\ Len(LitEscapes) = Len(coded) BY <1>2, LitEscapesTyped
  <2> QED BY <2>1, <1>2, NothingStacked
<1>9. PpmEncoding'
  <2>0. ~split => escapes' \in Seq(0 .. MatchFlag) BY <1>1, <1>2
  <2>1. PpmWritten(stack', at', lit_idx', escapes')
    BY <1>1, <1>3, <1>6, <1>7, <1>8, <2>0 DEF PpmWritten
  <2>2. PpmWritten(stack, at, lit_idx, escapes)' BY <2>1, <1>1, PpmSendingFixed
  <2> QED BY <2>2 DEF PpmEncoding
<1>10. PpmTypes' /\ PpmIdle' BY <1>1 DEF PpmInv, PpmTypes, PpmIdle, Ppm!None
<1> QED BY <1>1, <1>5, <1>9, <1>10 DEF PpmInv, PpmDecoding

-----------------------------------------------------------------------------
\* The ppm modes: the encoder encodes.

\* An event is encoded when its calls are on the stack.
LEMMA PpmPushes ==
  ASSUME PpmInv, phase = "encode", at > 0, at' = at - 1,
         stack' = stack \o PpmCalls[at], lit_idx' = LitsBefore(at),
         split => escapes' = escapes,
         ~split => escapes' \in Seq(0 .. MatchFlag) /\ Stacked(escapes', LitEscapes, lit_idx', 0),
         UNCHANGED <<lz, split, phase, positions, meta, distinct, ext, coded, chunk_size,
                     chunk_stats, counted, out, lit_pos, boundary, escape_pos, prev>>
  PROVE  PpmInv'
<1>0. /\ ChunkPlan /\ at \in 1 .. Len(positions) /\ Stacked(stack, PpmCalls, at, 0)
      /\ Len(coded) <= Len(chunk_stats) * chunk_size
  BY EventFits DEF PpmInv, PpmPlan, PpmEncoding, PpmWritten, PpmHistory
<1>1. Planned /\ Len(positions) \in Nat BY <1>0, EventFits DEF ChunkPlan
<1>2. Len(PpmCalls) = Len(positions) BY <1>1, PpmLitsTyped, PartsTyped DEF PpmCalls
<1>3. Stacked(stack', PpmCalls, at - 1, 0) BY <1>0, <1>2, PushPart
<1>4. PpmPlan' /\ PpmHistory' BY <1>0, PpmPlanStays, PpmHistoryStays
<1>5. PpmEncoding'
  <2>1. at' \in 0 .. Len(positions) /\ at' + 1 = at BY <1>0, <1>1
  <2>2. PpmWritten(stack', at', lit_idx', escapes') BY <2>1, <1>3 DEF PpmWritten
  <2>3. PpmWritten(stack, at, lit_idx, escapes)' BY <2>2, PpmSendingFixed
  <2> QED BY <2>3 DEF PpmEncoding
<1>6. PpmTypes' /\ PpmIdle' BY DEF PpmInv, PpmTypes, PpmIdle, Ppm!None
<1> QED BY <1>4, <1>5, <1>6 DEF PpmInv, PpmDecoding

\* Both kinds of event are.
LEMMA PpmEncodes ==
  PpmInv /\ (Ppm!EncodeMatch \/ Ppm!EncodeLiteral) => PpmInv'
<1> SUFFICES ASSUME PpmInv, Ppm!EncodeMatch \/ Ppm!EncodeLiteral PROVE PpmInv' OBVIOUS
<1>0. /\ phase = "encode" /\ at > 0 /\ at' = at - 1
      /\ UNCHANGED <<lz, split, phase, positions, meta, distinct, ext, coded, chunk_size,
                     chunk_stats, counted, out, lit_pos, boundary, escape_pos, prev>>
  BY DEF Ppm!EncodeMatch, Ppm!EncodeLiteral, Ppm!inputVars, Ppm!planVars, Ppm!historyVars, Ppm!literalVars
<1>1. /\ ChunkPlan /\ at \in 1 .. Len(positions) /\ lit_idx = LitsBefore(at + 1)
      /\ (\E S : stack \in Seq(S))
      /\ (~split => escapes \in Seq(0 .. MatchFlag) /\ Stacked(escapes, LitEscapes, lit_idx, 0))
  BY <1>0, EventFits DEF PpmInv, PpmPlan, PpmEncoding, PpmWritten, Stacked
<1>2. /\ Planned /\ Len(positions) \in Nat /\ split \in BOOLEAN /\ Len(coded) = Cardinality(LiteralEvents)
      /\ chunk_size \in Nat \ {0} /\ Len(LiteralsOf) = Len(coded) /\ LiteralsOf \in Seq(0 .. MatchFlag)
  BY <1>1, EventFits DEF ChunkPlan, Planned
<1> DEFINE p == positions[at]
<1>3. /\ Width(p) \in {1, 4} /\ (split => Width(p) = Span(lz, p)) /\ (Width(p) = 4 => split)
  BY <1>1, <1>2, EventFits
<1>4. /\ PpmCalls[at] = Part(at, PpmLits[at], meta)
      /\ PpmLits[at] = PpmCall(LitsBefore(at))
  BY <1>1 DEF PpmCalls, Parts, PpmLits
<1>5. CASE Ppm!EncodeMatch
  <2>1. split /\ Width(p) = 4 /\ stack' = stack \o MatchCalls(lz, p, meta) /\ lit_idx' = lit_idx
        /\ escapes' = escapes
    BY <1>3, <1>5, PpmIsCoder DEF Ppm!EncodeMatch
  <2>2. PpmCalls[at] = MatchCalls(lz, p, meta) BY <1>4, <2>1 DEF Part
  <2>3. LitsBefore(at + 1) = LitsBefore(at)
    <3>1. LitsBefore(at + 1) = LitsBefore(at) + 0 /\ LitsBefore(at) \in Nat
      <4>1. at \in 1 .. (Len(positions) + 1) BY <1>1, <1>2
      <4> QED BY <4>1, <1>1, <1>2, <2>1, LitsSteps
    <3> QED BY <3>1
  <2> QED BY <1>0, <1>1, <2>1, <2>2, <2>3, PpmPushes
<1>6. CASE Ppm!EncodeLiteral
  <2> DEFINE n == LitsBefore(at)
             c == PpmCall(n)
             d == Call(0, meta.role)
  <2>1. Width(p) = 1
    <3>1. split => Span(lz, p) = 1 BY <1>6, PpmIsCoder DEF Ppm!EncodeLiteral
    <3> QED BY <3>1, <1>3 DEF Width
  <2>2. n \in Nat /\ n < Len(coded) /\ lit_idx = n + 1 /\ lit_idx - 1 = n /\ Len(coded) \in Nat
    <3>1. at \in 1 .. (Len(positions) + 1) /\ Width(p) # 4 BY <1>1, <1>2, <2>1
    <3>2. n \in Nat /\ n < Len(coded) /\ LitsBefore(at + 1) = n + 1 /\ Len(coded) \in Nat
      BY <3>1, <1>1, <1>2, LitsSteps
    <3> HIDE DEF n
    <3> QED BY <3>2, <1>1
  <2>3. chunk_stats[(n \div chunk_size) + 1] = PpmTablesAt(ChunkStart(n))
    <3> HIDE DEF n
    <3>1. /\ Len(chunk_stats) \in Nat /\ Len(coded) <= Len(chunk_stats) * chunk_size /\ Len(coded) \in Nat
          /\ \A i \in 1 .. Len(chunk_stats) : chunk_stats[i] = PpmTablesAt((i - 1) * chunk_size)
      BY <1>0, <1>1 DEF PpmInv, PpmHistory, PpmHeard, ChunkPlan
    <3>2. n < Len(chunk_stats) * chunk_size
      <4>1. Len(chunk_stats) * chunk_size \in Nat BY <3>1, <1>2
      <4> QED BY <4>1, <3>1, <2>2
    <3>3. (n \div chunk_size) + 1 \in 1 .. Len(chunk_stats) /\ n \div chunk_size \in Nat
      BY <3>1, <3>2, <2>2, <1>2, ChunkTaken
    <3>4. ((n \div chunk_size) + 1) - 1 = n \div chunk_size BY <3>3
    <3> QED BY <3>1, <3>3, <3>4 DEF ChunkStart
  <2>4. stack' = (stack \o c) \o (IF split THEN <<d>> ELSE <<>>) /\ lit_idx' = n
    <3>1. /\ stack' = (stack \o Ppm!Cascade(coded[lit_idx], Ppm!ContextAt(lit_idx),
                                            chunk_stats[((lit_idx - 1) \div chunk_size) + 1]))
                        \o (IF split THEN <<d>> ELSE <<>>)
          /\ lit_idx' = lit_idx - 1
      BY <1>6, PpmIsCoder DEF Ppm!EncodeLiteral
    <3> HIDE DEF n
    <3> QED BY <3>1, <2>2, <2>3 DEF PpmCall
  <2>5. PpmCalls[at] = c \o (IF split THEN <<d>> ELSE <<>>)
    BY <1>4, <2>1 DEF Part, Role
  <2>6. lit_idx' = LitsBefore(at) BY <2>4
  <2>7. \E S : c \in Seq(S)
    <3>1. PICK S : PpmLits \in [1 .. Len(positions) -> Seq(S)] BY PpmLitsTyped DEF Typed
    <3>2. PpmLits[at] \in Seq(S) BY <3>1, <1>1
    <3> QED BY <3>2, <1>4
  <2>8. escapes' = IF ~split /\ coded[n + 1] = Len(distinct) THEN Append(escapes, lz[n + 1]) ELSE escapes
    <3> HIDE DEF n
    <3> QED BY <1>6, <2>2 DEF Ppm!EncodeLiteral, Ppm!escape_local
  <2> HIDE DEF c, d, n
  <2>9. stack' = stack \o PpmCalls[at]
    <3>1. PICK S : stack \in Seq(S) BY <1>1
    <3>2. PICK R : c \in Seq(R) BY <2>7
    <3> DEFINE T == (S \cup R) \cup {d}
               tail == IF split THEN <<d>> ELSE <<>>
    <3>3. d \in T /\ S \in SUBSET T /\ R \in SUBSET T OBVIOUS
    <3>4. stack \in Seq(T) /\ c \in Seq(T) /\ tail \in Seq(T)
      <4> HIDE DEF T
      <4>1. stack \in Seq(T) /\ c \in Seq(T) BY <3>1, <3>2, <3>3
      <4>2. <<d>> \in Seq(T) /\ <<>> \in Seq(T) BY <3>3
      <4> QED BY <4>1, <4>2
    <3>5. stack' = (stack \o c) \o tail /\ PpmCalls[at] = c \o tail BY <2>4, <2>5
    <3> HIDE DEF T, tail
    <3> QED BY <3>4, <3>5, ConcatAssociative
  <2>10. ~split => escapes' \in Seq(0 .. MatchFlag) /\ Stacked(escapes', LitEscapes, lit_idx', 0)
    <3> SUFFICES ASSUME ~split
                 PROVE  escapes' \in Seq(0 .. MatchFlag) /\ Stacked(escapes', LitEscapes, lit_idx', 0)
      OBVIOUS
    <3> DEFINE x == LiteralsOf[n + 1]
               i == n + 1
    <3>1. Len(LitEscapes) = Len(coded) BY <1>1, LitEscapesTyped
    <3>2. i \in 1 .. Len(LitEscapes) /\ i \in 1 .. Len(coded) /\ i - 1 = n /\ i = lit_idx BY <3>1, <2>2
    <3>3. LitEscapes[i] = IF coded[i] = Len(distinct) THEN <<x>> ELSE <<>>
      BY <3>2 DEF LitEscapes, Dropped
    <3>4. x = lz[i] BY DEF LiteralsOf
    <3>5. escapes' = IF coded[i] = Len(distinct) THEN Append(escapes, x) ELSE escapes BY <3>4, <2>8
    <3>6. escapes \in Seq(0 .. MatchFlag) /\ Stacked(escapes, LitEscapes, i, 0) BY <1>1, <3>2
    <3>9. x \in 0 .. MatchFlag
      <4>1. i \in 1 .. Len(LiteralsOf) BY <3>2, <1>2
      <4> HIDE DEF i
      <4>2. LiteralsOf[i] \in 0 .. MatchFlag BY <4>1, <1>2, ElementOfSeq
      <4> QED BY <4>2 DEF i
    <3> HIDE DEF x, i
    <3>10. escapes' \in Seq(0 .. MatchFlag)
      <4>1. Append(escapes, x) \in Seq(0 .. MatchFlag) BY <3>6, <3>9
      <4> QED BY <4>1, <3>5, <3>6
    <3>7. escapes' = escapes \o LitEscapes[i]
      <4>1. <<x>> \in Seq(0 .. MatchFlag) BY <3>9
      <4>2. Append(escapes, x) = escapes \o <<x>> /\ escapes \o <<>> = escapes BY <3>6, <4>1
      <4> QED BY <4>2, <3>3, <3>5
    <3>8. Stacked(escapes \o LitEscapes[i], LitEscapes, i - 1, 0) BY <3>2, <3>6, PushPart
    <3> QED BY <3>2, <3>7, <3>8, <3>10, <2>4
  <2>11. split => escapes' = escapes BY <2>8
  <2> QED BY <1>0, <2>6, <2>9, <2>10, <2>11, PpmPushes
<1> QED BY <1>5, <1>6

\* The stream is written: the list is what the decoder is to read.
LEMMA PpmWrites == PpmInv /\ Ppm!WriteStream => PpmInv'
<1> SUFFICES ASSUME PpmInv, Ppm!WriteStream PROVE PpmInv' OBVIOUS
<1> DEFINE w == IF split THEN escapes ELSE Reversed(escapes)
<1>0. /\ phase = "encode" /\ at = 0 /\ phase' = "decode" /\ step' = FirstStep
      /\ left' = (IF split THEN Len(positions) ELSE Len(lz))
      /\ sent_escapes' = w
      /\ recounted' = Ppm!NoCounts(Ppm!Slots, Ppm!Locals, Ppm!Contexts)
      /\ UNCHANGED <<lz, split, positions, meta, distinct, ext, coded, chunk_size, escapes,
                     chunk_stats, counted, stack, out, lit_pos, boundary, tables, escape_pos, prev>>
  BY DEF Ppm!WriteStream, Ppm!WrittenEscapes, Ppm!Turns, Ppm!FirstStep, Ppm!Reversed, Reversed,
         Ppm!inputVars, Ppm!planVars, Ppm!historyVars, FirstStep
<1>1. /\ ChunkPlan /\ (split => DroppedListed) /\ Stacked(stack, PpmCalls, 0, 0)
      /\ lit_idx = LitsBefore(0 + 1)
      /\ (~split => escapes \in Seq(0 .. MatchFlag) /\ Stacked(escapes, LitEscapes, lit_idx, 0))
      /\ out = <<>> /\ lit_pos = 0 /\ boundary = 0 /\ escape_pos = 0 /\ prev = Ppm!None
      /\ Len(coded) <= Len(chunk_stats) * chunk_size
  BY <1>0 DEF PpmInv, PpmTypes, PpmIdle, PpmPlan, PpmHistory, PpmEncoding, PpmWritten
<1>2. /\ Planned /\ Len(positions) \in Nat /\ split \in BOOLEAN /\ chunk_size \in Nat \ {0}
      /\ Len(coded) \in Nat /\ Len(LiteralsOf) = Len(coded) /\ LiteralsOf \in Seq(0 .. MatchFlag)
      /\ Len(lz) \in Nat /\ DOMAIN lz = 1 .. Len(lz)
      /\ (~split => positions = [i \in DOMAIN lz |-> i])
  BY <1>1, EventFits DEF ChunkPlan, Planned
<1>3. PpmPlan' /\ PpmHistory' BY <1>0, <1>1, PpmPlanStays, PpmHistoryStays
<1>4. left' = Len(positions)
  <2>1. CASE split BY <2>1, <1>0
  <2>2. CASE ~split
    <3>1. Len(positions) = Len(lz) BY <1>2, <2>2
    <3> QED BY <3>1, <2>2, <1>0
  <2> QED BY <2>1, <2>2, <1>2
<1>5. At(stack, FirstStep, Len(positions), <<>>, PpmCalls, 0)
  BY <1>1, <1>2, PpmLitsTyped, Starts DEF PpmCalls
<1>6. LitsBefore(1) = 0 /\ Done(Len(positions)) = 0 /\ ChunkStart(0) = 0
  <2>1. 0 \in Nat OBVIOUS
  <2>2. Done(Len(positions)) = 0 BY <1>2 DEF Done
  <2>3. LitsBefore(1) = 0 BY <1>2, LitsSteps
  <2> QED BY <2>1, <2>2, <2>3, <1>2, NextInChunk
<1>7. LitEscapes \in Seq(Seq(0 .. MatchFlag)) /\ Len(LitEscapes) = Len(LiteralsOf)
  BY <1>1, <1>2, LitEscapesTyped
<1>8. w \in Seq(0 .. MatchFlag) /\ Stacked(Reversed(w), LitEscapes, 0, 0)
  <2>1. CASE split
    <3>1. Dropped \in SUBSET (1 .. Len(LiteralsOf)) BY <1>2 DEF Dropped
    <3>2. \A i \in 1 .. Len(LiteralsOf) :
            LitEscapes[i] = IF i \in Dropped THEN <<LiteralsOf[i]>> ELSE <<>>
      BY <1>2 DEF LitEscapes
    <3>3. w = Selected(LiteralsOf, Dropped) BY <2>1, <1>1 DEF DroppedListed
    <3> HIDE DEF w
    <3>4. Stacked(Reversed(w), LitEscapes, 0, 0) BY <3>1, <3>2, <3>3, <1>2, <1>7, SelectedStacked
    <3>5. w \in Seq(0 .. MatchFlag) BY <3>1, <3>3, <1>2, SelectedEntries
    <3> QED BY <3>4, <3>5
  <2>2. CASE ~split
    <3>1. Stacked(escapes, LitEscapes, 0, 0) BY <2>2, <1>1, <1>6
    <3>2. escapes \in Seq(0 .. MatchFlag) BY <2>2, <1>1
    <3>3. w = Reversed(escapes) BY <2>2
    <3>4. Reversed(w) = escapes /\ w \in Seq(0 .. MatchFlag) BY <3>2, <3>3, ReversedTwice
    <3> QED BY <3>1, <3>4
  <2> QED BY <2>1, <2>2, <1>2
<1> HIDE DEF w
<1>9. Stacked(Unread(w, 0), LitEscapes, 0, 0) /\ Len(w) \in Nat
  <2>1. Reversed(w) \in Seq(0 .. MatchFlag) /\ Len(Reversed(w)) = Len(w) /\ Len(w) \in Nat
    BY <1>8, ReversedTwice
  <2>2. Unread(w, 0) = Reversed(w)
    <3>1. Len(w) - 0 = Len(Reversed(w)) BY <2>1
    <3>2. Unread(w, 0) = SubSeq(Reversed(w), 1, Len(Reversed(w))) BY <3>1 DEF Unread
    <3> QED BY <3>2, <2>1, SubSeqFull
  <2> QED BY <2>1, <2>2, <1>8
<1>10. AtBoundary(0, 0, Len(coded)) BY <1>2, <1>6 DEF AtBoundary
<1>11. recounted' = PpmCounts(0) BY <1>0, <1>2, NothingCounted
<1>12. Ppm!ContextAt(0 + 1) = Ppm!None BY DEF Ppm!ContextAt
<1>13. PpmDecoding'
  <2>1. FirstStep \in {"event", "literal"} BY DEF FirstStep
  <2>2. More(FirstStep, tables, prev) = 0 BY <2>1 DEF More
  <2>3. /\ At(stack', step', left', out', PpmCalls, More(step', tables', prev'))
        /\ lit_pos' = LitsBefore(Done(left') + 1) /\ recounted' = PpmCounts(lit_pos')
        /\ prev' = Ppm!ContextAt(lit_pos' + 1) /\ AtBoundary(lit_pos', boundary', Len(coded))
        /\ escape_pos' = 0 /\ lit_pos' = 0 /\ boundary' = 0 /\ step' \in {"event", "literal"}
    BY <1>0, <1>1, <1>4, <1>5, <1>6, <1>10, <1>11, <1>12, <2>1, <2>2
  <2>4. PpmReading(stack', step', left', out', lit_pos', boundary', tables', recounted', prev',
                   escape_pos', sent_escapes')
    <3>1. /\ 0 \in 0 .. Len(w) /\ sent_escapes' = w /\ w \in Seq(0 .. MatchFlag)
          /\ Stacked(Unread(w, 0), LitEscapes, 0, 0)
      BY <1>0, <1>8, <1>9
    <3> QED BY <2>3, <3>1 DEF PpmReading
  <2>5. PpmReading(stack, step, left, out, lit_pos, boundary, tables, recounted, prev, escape_pos,
                   sent_escapes)'
    BY <1>0, <2>4, PpmReadingFixed
  <2> QED BY <2>5 DEF PpmDecoding
<1>14. PpmTypes' /\ PpmIdle' BY <1>0 DEF PpmInv, PpmTypes, PpmIdle
<1> QED BY <1>0, <1>3, <1>13, <1>14 DEF PpmInv, PpmEncoding

-----------------------------------------------------------------------------
\* The ppm modes: the decoder, outside a cascade.

\* A step of the decoder.
LEMMA PpmReads ==
  ASSUME PpmInv, phase # "collect", phase' \in {"decode", "done"}, phase' = "done" => left' = 0,
         Len(coded) <= Len(chunk_stats) * chunk_size,
         UNCHANGED <<lz, split, positions, meta, distinct, ext, coded, chunk_size, escapes,
                     chunk_stats, counted>>,
         PpmReading(stack', step', left', out', lit_pos', boundary', tables', recounted', prev',
                    escape_pos', sent_escapes')
  PROVE  PpmInv'
<1>1. PpmPlan' /\ PpmHistory' BY PpmPlanStays, PpmHistoryStays
<1>2. PpmReading(stack, step, left, out, lit_pos, boundary, tables, recounted, prev, escape_pos,
                 sent_escapes)'
  BY PpmReadingFixed
<1>3. PpmTypes' /\ PpmIdle' BY DEF PpmInv, PpmTypes, PpmIdle
<1> QED BY <1>1, <1>2, <1>3 DEF PpmInv, PpmEncoding, PpmDecoding

\* A step of the decoder that ends outside a cascade.
LEMMA PpmLeaves ==
  ASSUME PpmInv, phase = "decode", phase' = "decode",
         UNCHANGED <<lz, split, positions, meta, distinct, ext, coded, chunk_size, escapes,
                     chunk_stats, counted, sent_escapes>>,
         step' \in {"event", "hi", "lo", "len", "literal"},
         At(stack', step', left', out', PpmCalls, 0),
         lit_pos' = LitsBefore(Done(left') + 1), recounted' = PpmCounts(lit_pos'),
         prev' = Ppm!ContextAt(lit_pos' + 1), AtBoundary(lit_pos', boundary', Len(coded)),
         lit_pos' < boundary' => tables' = PpmTablesAt(ChunkStart(lit_pos')),
         escape_pos' \in 0 .. Len(sent_escapes),
         Stacked(Unread(sent_escapes, escape_pos'), LitEscapes, lit_pos', 0)
  PROVE  PpmInv'
<1>1. More(step', tables', prev') = 0 BY DEF More
<1>2. sent_escapes \in Seq(0 .. MatchFlag) BY DEF PpmInv, PpmDecoding, PpmReading
<1>3. PpmReading(stack', step', left', out', lit_pos', boundary', tables', recounted', prev',
                 escape_pos', sent_escapes')
  BY <1>1, <1>2 DEF PpmReading
<1>4. Len(coded) <= Len(chunk_stats) * chunk_size BY DEF PpmInv, PpmHistory
<1> QED BY <1>3, <1>4, PpmReads

\* What the invariant says while the decoder is at work, and at the end.
LEMMA PpmAt ==
  ASSUME PpmInv, phase \in {"decode", "done"}
  PROVE  /\ ChunkPlan /\ Planned /\ Typed(PpmLits)
         /\ At(stack, step, left, out, Parts(PpmLits, meta), More(step, tables, prev))
         /\ step \in {"event", "hi", "lo", "len", "literal", "context", "order"}
         /\ lit_pos = LitsBefore(Done(left) + 1) /\ recounted = PpmCounts(lit_pos)
         /\ prev = Ppm!ContextAt(lit_pos + 1) /\ AtBoundary(lit_pos, boundary, Len(coded))
         /\ lit_pos < boundary => tables = PpmTablesAt(ChunkStart(lit_pos))
         /\ step \in {"context", "order"} => left > 0 /\ lit_pos < boundary
         /\ step = "context" => prev \in DOMAIN tables.ctx
         /\ step = "order" => More(step, tables, prev) + 1 = Len(PpmCall(lit_pos))
         /\ sent_escapes \in Seq(0 .. MatchFlag) /\ escape_pos \in 0 .. Len(sent_escapes)
         /\ Stacked(Unread(sent_escapes, escape_pos), LitEscapes, lit_pos, 0)
         /\ step # "order" => More(step, tables, prev) = 0
         /\ Len(coded) <= Len(chunk_stats) * chunk_size
<1>1. ChunkPlan /\ Len(coded) <= Len(chunk_stats) * chunk_size BY DEF PpmInv, PpmPlan, PpmHistory
<1>2. PpmReading(stack, step, left, out, lit_pos, boundary, tables, recounted, prev, escape_pos,
                 sent_escapes)
  BY DEF PpmInv, PpmDecoding
<1>3. step # "order" => More(step, tables, prev) = 0 BY DEF More
<1>4. Planned BY <1>1 DEF ChunkPlan
<1> QED BY <1>1, <1>2, <1>3, <1>4, PpmLitsTyped DEF PpmReading, PpmCalls

\* The role of an event.
LEMMA PpmReadsRole == PpmInv /\ Ppm!DecodeRole => PpmInv'
<1> SUFFICES ASSUME PpmInv, Ppm!DecodeRole PROVE PpmInv' OBVIOUS
<1>0. /\ phase = "decode" /\ phase' = "decode" /\ left > 0 /\ step = "event" /\ stack' = Below(stack)
      /\ UNCHANGED <<lz, split, positions, meta, distinct, ext, coded, chunk_size, escapes,
                     chunk_stats, counted, sent_escapes, left, lit_pos, boundary, tables, recounted,
                     prev, escape_pos>>
      /\ \E role \in Popped(stack, Received(meta.role)) :
           /\ step' = (IF role = 1 THEN "hi" ELSE "literal")
           /\ out' = IF role = 1 THEN Append(out, MatchFlag) ELSE out
  BY PpmIsCoder DEF Ppm!DecodeRole, Ppm!sentVars, Ppm!inputVars, Ppm!planVars,
         Ppm!historyVars, Ppm!encoderVars, Ppm!literalVars
<1>1. /\ Planned /\ At(stack, "event", left, out, Parts(PpmLits, meta), 0) /\ Typed(PpmLits)
      /\ Received(meta.role) = meta.role
  <2>1. ChunkPlan /\ Planned /\ At(stack, "event", left, out, Parts(PpmLits, meta), 0) /\ Typed(PpmLits)
    BY <1>0, PpmAt
  <2>2. split BY <2>1 DEF At, LiteralSteps
  <2> QED BY <2>1, <2>2 DEF ChunkPlan
<1>2. \A r \in Popped(stack, meta.role) :
         /\ r \in {0, 1}
         /\ r = 1 => At(Below(stack), "hi", left, Append(out, MatchFlag), PpmCalls, 0)
         /\ r = 0 => At(Below(stack), "literal", left, out, PpmCalls, 0)
  BY <1>0, <1>1, ReadsRole DEF PpmCalls
<1>3. PICK r \in Popped(stack, meta.role) :
         /\ step' = (IF r = 1 THEN "hi" ELSE "literal")
         /\ out' = IF r = 1 THEN Append(out, MatchFlag) ELSE out
  BY <1>0, <1>1
<1>4. At(stack', step', left', out', PpmCalls, 0) /\ step' \in {"hi", "literal"}
  <2>1. CASE r = 0
    <3>1. step' = "literal" /\ out' = out BY <1>3, <2>1
    <3> QED BY <3>1, <1>0, <1>2, <2>1
  <2>2. CASE r = 1
    <3>1. step' = "hi" /\ out' = Append(out, MatchFlag) BY <1>3, <2>2
    <3> QED BY <3>1, <1>0, <1>2, <2>2
  <2> QED BY <1>2, <2>1, <2>2
<1>5. /\ lit_pos' = LitsBefore(Done(left') + 1) /\ recounted' = PpmCounts(lit_pos')
      /\ prev' = Ppm!ContextAt(lit_pos' + 1) /\ AtBoundary(lit_pos', boundary', Len(coded))
      /\ lit_pos' < boundary' => tables' = PpmTablesAt(ChunkStart(lit_pos'))
      /\ escape_pos' \in 0 .. Len(sent_escapes)
      /\ Stacked(Unread(sent_escapes, escape_pos'), LitEscapes, lit_pos', 0)
  BY <1>0, PpmAt
<1> QED BY <1>0, <1>4, <1>5, PpmLeaves

\* The fields of a match.
LEMMA PpmReadsMeta ==
  PpmInv /\ (Ppm!DecodeHi \/ Ppm!DecodeLo \/ Ppm!DecodeLen) => PpmInv'
<1> SUFFICES ASSUME PpmInv, Ppm!DecodeHi \/ Ppm!DecodeLo \/ Ppm!DecodeLen
             PROVE  PpmInv'
  OBVIOUS
<1>0. /\ phase = "decode" /\ phase' = "decode" /\ left > 0 /\ step \in {"hi", "lo", "len"}
      /\ stack' = Below(stack) /\ step' = NextStep(step)
      /\ left' = (IF step = "len" THEN left - 1 ELSE left)
      /\ UNCHANGED <<lz, split, positions, meta, distinct, ext, coded, chunk_size, escapes,
                     chunk_stats, counted, sent_escapes, lit_pos, boundary, tables, recounted,
                     prev, escape_pos>>
      /\ \E v \in Popped(stack, Received(Meta(meta, step))) : out' = Append(out, v)
  BY PpmIsCoder DEF Ppm!DecodeHi, Ppm!DecodeLo, Ppm!DecodeLen, Ppm!DecodeMeta,
         NextStep, Meta, Ppm!sentVars, Ppm!inputVars, Ppm!planVars,
         Ppm!historyVars, Ppm!encoderVars, Ppm!literalVars
<1>1. /\ ChunkPlan /\ Planned /\ At(stack, step, left, out, Parts(PpmLits, meta), 0) /\ Typed(PpmLits)
      /\ lit_pos = LitsBefore(Done(left) + 1)
  BY <1>0, PpmAt
<1>3. split /\ LitsBefore(Done(left') + 1) = LitsBefore(Done(left) + 1) BY <1>0, <1>1, InMatch
<1>4. Received(Meta(meta, step)) = Meta(meta, step) BY <1>0, <1>1, <1>3 DEF ChunkPlan, Meta
<1>5. /\ stack # <<>>
      /\ \A v \in Popped(stack, Meta(meta, step)) :
           At(Below(stack), NextStep(step), IF step = "len" THEN left - 1 ELSE left, Append(out, v), PpmCalls, 0)
  BY <1>0, <1>1, ReadsMeta DEF PpmCalls
<1>6. At(stack', step', left', out', PpmCalls, 0) BY <1>0, <1>4, <1>5
<1>7. lit_pos' = LitsBefore(Done(left') + 1) BY <1>0, <1>1, <1>3
<1>8. step' \in {"event", "hi", "lo", "len", "literal"} BY <1>0 DEF NextStep
<1>9. /\ recounted' = PpmCounts(lit_pos') /\ prev' = Ppm!ContextAt(lit_pos' + 1)
      /\ AtBoundary(lit_pos', boundary', Len(coded))
      /\ lit_pos' < boundary' => tables' = PpmTablesAt(ChunkStart(lit_pos'))
      /\ escape_pos' \in 0 .. Len(sent_escapes)
      /\ Stacked(Unread(sent_escapes, escape_pos'), LitEscapes, lit_pos', 0)
  BY <1>0, PpmAt
<1> QED BY <1>0, <1>6, <1>7, <1>8, <1>9, PpmLeaves

-----------------------------------------------------------------------------
\* The ppm modes: the decoder begins a cascade, and counts what it decodes.

\* The decoder's next literal: its number, its index and its calls.
LEMMA PpmNext ==
  ASSUME PpmInv, phase = "decode", left > 0, step \in LiteralSteps
  PROVE  /\ lit_pos \in Nat /\ lit_pos < Len(coded) /\ lit_pos + 1 \in 1 .. Len(coded)
         /\ LitsBefore(Done(left - 1) + 1) = lit_pos + 1
         /\ LiteralsOf[lit_pos + 1] = lz[positions[Done(left) + 1]]
         /\ PpmLits[Done(left) + 1] = PpmCall(lit_pos)
         /\ coded[lit_pos + 1] \in 0 .. Len(distinct) /\ Len(distinct) \in Nat
         /\ coded[lit_pos + 1] # Len(distinct) => distinct[coded[lit_pos + 1] + 1] = LiteralsOf[lit_pos + 1]
<1> DEFINE e == Done(left)
           n == lit_pos
<1>1. /\ ChunkPlan /\ Planned /\ n = LitsBefore(e + 1)
      /\ At(stack, step, left, out, Parts(PpmLits, meta), More(step, tables, prev))
  BY PpmAt
<1>2. /\ e \in Nat /\ e < Len(positions) /\ e + 1 \in 1 .. Len(positions) /\ Done(left - 1) = e + 1
  BY <1>1, AtEvent
<1>3. Width(positions[e + 1]) = 1 BY <1>1 DEF At, LiteralSteps
<1>4. Len(coded) = Cardinality(LiteralEvents) /\ Len(coded) \in Nat BY <1>1 DEF ChunkPlan
<1> HIDE DEF e
<1>5. n \in Nat /\ n < Len(coded) /\ LitsBefore((e + 1) + 1) = n + 1 /\ n + 1 \in 1 .. Len(coded)
  <2> DEFINE d == e + 1
  <2>1. d \in 1 .. Len(positions) /\ d \in 1 .. (Len(positions) + 1) /\ Width(positions[d]) # 4
    BY <1>2, <1>3
  <2> HIDE DEF d
  <2>2. LitsBefore(d) \in Nat /\ LitsBefore(d) < Len(coded) /\ LitsBefore(d + 1) = LitsBefore(d) + 1
    BY <2>1, <1>1, <1>4, LitsSteps
  <2> QED BY <2>2, <1>1, <1>4 DEF d
<1>6. LiteralsOf[n + 1] = lz[positions[e + 1]]
  <2>1. e + 1 \in LiteralEvents BY <1>2, <1>3 DEF LiteralEvents
  <2> QED BY <2>1, <1>1 DEF ChunkPlan
<1>7. PpmLits[e + 1] = PpmCall(n) BY <1>1, <1>2 DEF PpmLits
<1>8. /\ coded[n + 1] \in 0 .. Len(distinct) /\ Len(distinct) \in Nat
      /\ coded[n + 1] # Len(distinct) => distinct[coded[n + 1] + 1] = LiteralsOf[n + 1]
  <2>1. /\ distinct \in Seq(0 .. MatchFlag) /\ coded \in Seq(0 .. Len(distinct))
        /\ \A i \in 1 .. Len(coded) :
             coded[i] # Len(distinct) =>
               coded[i] \in 0 .. (Len(distinct) - 1) /\ distinct[coded[i] + 1] = LiteralsOf[i]
    BY <1>1 DEF ChunkPlan
  <2>2. coded[n + 1] \in 0 .. Len(distinct) BY <2>1, <1>5, ElementOfSeq
  <2> QED BY <2>1, <2>2, <1>5
<1> QED BY <1>2, <1>5, <1>6, <1>7, <1>8 DEF e

\* The turn of a literal: the tables the encoder had, and the first to try.
LEMMA PpmBeginsLiteral == PpmInv /\ Ppm!BeginLiteral => PpmInv'
<1> SUFFICES ASSUME PpmInv, Ppm!BeginLiteral PROVE PpmInv' OBVIOUS
<1> DEFINE n == lit_pos
           N == Len(coded)
           b == boundary'
           t == tables'
<1>0. /\ phase = "decode" /\ phase' = "decode" /\ left > 0 /\ step = "literal"
      /\ t = (IF n = boundary THEN Ppm!Tables(recounted) ELSE tables)
      /\ b = (IF n = boundary THEN Least(n + chunk_size, N) ELSE boundary)
      /\ step' = (IF prev \in DOMAIN t.ctx THEN "context" ELSE "order")
      /\ UNCHANGED <<lz, split, positions, meta, distinct, ext, coded, chunk_size, escapes,
                     chunk_stats, counted, sent_escapes, stack, left, lit_pos, recounted, prev,
                     escape_pos, out>>
  BY DEF Ppm!BeginLiteral, Ppm!n_lit, Ppm!Smaller, Least, Ppm!sentVars, Ppm!inputVars, Ppm!planVars,
         Ppm!historyVars, Ppm!encoderVars
<1>1. /\ ChunkPlan /\ At(stack, "literal", left, out, PpmCalls, 0)
      /\ n = LitsBefore(Done(left) + 1) /\ recounted = PpmCounts(n)
      /\ prev = Ppm!ContextAt(n + 1) /\ AtBoundary(n, boundary, N)
      /\ n < boundary => tables = PpmTablesAt(ChunkStart(n))
      /\ sent_escapes \in Seq(0 .. MatchFlag) /\ escape_pos \in 0 .. Len(sent_escapes)
      /\ Stacked(Unread(sent_escapes, escape_pos), LitEscapes, n, 0)
      /\ N <= Len(chunk_stats) * chunk_size
  BY <1>0, PpmAt DEF PpmCalls
<1>2. n \in Nat /\ n < N /\ N \in Nat /\ chunk_size \in Nat \ {0}
  <2>1. "literal" \in LiteralSteps BY DEF LiteralSteps
  <2> QED BY <2>1, <1>0, <1>1, PpmNext DEF ChunkPlan
<1> HIDE DEF n, N, b, t
<1>3. /\ b = Least(ChunkStart(n) + chunk_size, N) /\ n < b /\ b \in 0 .. N
      /\ n = boundary => ChunkStart(n) = n
  BY <1>0, <1>1, <1>2, ChunkTurns
<1>4. AtBoundary(n, b, N) BY <1>2, <1>3 DEF AtBoundary
<1>5. t = PpmTablesAt(ChunkStart(n))
  <2>1. CASE n = boundary BY <2>1, <1>0, <1>1, <1>3 DEF PpmTablesAt
  <2>2. CASE n # boundary
    <3>1. n < boundary BY <2>2, <1>1, <1>2 DEF AtBoundary
    <3> QED BY <3>1, <2>2, <1>0, <1>1
  <2> QED BY <2>1, <2>2
<1>6. step' \in {"context", "order"} /\ More(step', t, prev) = 0 BY <1>0 DEF More
<1>7. At(stack, step', left, out, PpmCalls, 0)
  BY <1>1, <1>0, <1>6 DEF At, Taken, Given, LiteralSteps
<1>8. step' = "order" => Len(PpmCall(n)) = 1
  <2> SUFFICES ASSUME step' = "order" PROVE Len(PpmCall(n)) = 1 OBVIOUS
  <2>1. prev \notin DOMAIN t.ctx BY <1>0
  <2> DEFINE o == Call(coded[n + 1], t.order)
  <2>2. PpmCall(n) = <<o>> BY <2>1, <1>1, <1>5, CascadeCalls DEF PpmCall
  <2> HIDE DEF o
  <2> QED BY <2>2
<1>9. step' = "context" => prev \in DOMAIN t.ctx BY <1>0
<1>10. PpmReading(stack', step', left', out', lit_pos', boundary', tables', recounted', prev',
                  escape_pos', sent_escapes')
  <2>1. PpmReading(stack, step', left, out, n, b, t, recounted, prev, escape_pos, sent_escapes)
    <3>1. /\ step' \in {"event", "hi", "lo", "len", "literal", "context", "order"}
          /\ At(stack, step', left, out, PpmCalls, More(step', t, prev))
          /\ step' = "order" => More(step', t, prev) + 1 = Len(PpmCall(n))
      BY <1>6, <1>7, <1>8
    <3>2. AtBoundary(n, b, Len(coded)) BY <1>4 DEF N
    <3> QED BY <3>1, <3>2, <1>0, <1>1, <1>3, <1>5, <1>9 DEF PpmReading
  <2> QED BY <2>1, <1>0 DEF n, b, t
<1>11. Len(coded) <= Len(chunk_stats) * chunk_size BY <1>1 DEF N
<1> QED BY <1>0, <1>10, <1>11, PpmReads

\* One more: it is counted where it belongs.
LEMMA UptoOne ==
  ASSUME NEW N \in Nat, NEW n \in Nat
  PROVE  \A I \in SUBSET (1 .. N) :
           /\ Upto(I, n) \in Nat
           /\ Upto(I, n + 1) = Upto(I, n) + IF n + 1 \in I THEN 1 ELSE 0
<1> SUFFICES ASSUME NEW I \in SUBSET (1 .. N)
             PROVE  /\ Upto(I, n) \in Nat
                    /\ Upto(I, n + 1) = Upto(I, n) + IF n + 1 \in I THEN 1 ELSE 0
  OBVIOUS
<1>1. n <= n OBVIOUS
<1>2. Upto(I, n) \in Nat BY <1>1, UptoMore
<1>3. Upto(I, n + 1) = Upto(I, n) + IF n + 1 \in I THEN 1 ELSE 0 BY <1>1, UptoMore
<1> QED BY <1>2, <1>3

\* Counting the literal that has been decoded.
LEMMA PpmRecounts ==
  ASSUME Len(coded) \in Nat, NEW n \in Nat, n + 1 \in 1 .. Len(coded), recounted = PpmCounts(n),
         prev = Ppm!ContextAt(n + 1), NEW l, l = coded[n + 1]
  PROVE  (IF Ppm!IsCounted(l) THEN Ppm!WithOne(l) ELSE recounted) = PpmCounts(n + 1)
<1> DEFINE N == Len(coded)
           new == IF Ppm!IsCounted(l) THEN Ppm!WithOne(l) ELSE recounted
<1>1. \A I \in SUBSET (1 .. N) :
         /\ Upto(I, n) \in Nat
         /\ Upto(I, n + 1) = Upto(I, n) + IF n + 1 \in I THEN 1 ELSE 0
  <2>1. N \in Nat OBVIOUS
  <2> HIDE DEF N
  <2> QED BY <2>1, UptoOne
<1>2. recounted.order = PpmOrder(n) /\ recounted.ctx = PpmCtx(n) BY DEF PpmCounts
<1>3. ASSUME NEW s
      PROVE  Upto(PpmSeen(s), n + 1)
               = IF Ppm!IsCounted(l) /\ s = l THEN Upto(PpmSeen(s), n) + 1 ELSE Upto(PpmSeen(s), n)
  <2>1. PpmSeen(s) \in SUBSET (1 .. N) BY DEF PpmSeen
  <2>2. n + 1 \in PpmSeen(s) <=> Ppm!IsCounted(l) /\ s = l BY DEF PpmSeen
  <2> HIDE DEF N
  <2> QED BY <2>1, <2>2, <1>1
<1>4. ASSUME NEW c, NEW s
      PROVE  Upto(PpmPairs(c, s), n + 1)
               = IF Ppm!IsCounted(l) /\ prev = c /\ s = l
                 THEN Upto(PpmPairs(c, s), n) + 1 ELSE Upto(PpmPairs(c, s), n)
  <2>1. PpmPairs(c, s) \in SUBSET (1 .. N) BY DEF PpmPairs
  <2>2. n + 1 \in PpmPairs(c, s) <=> Ppm!IsCounted(l) /\ prev = c /\ s = l BY DEF PpmPairs
  <2> HIDE DEF N
  <2> QED BY <2>1, <2>2, <1>1
<1>5. CASE ~Ppm!IsCounted(l)
  <2>1. \A s : Upto(PpmSeen(s), n + 1) = Upto(PpmSeen(s), n) BY <1>3, <1>5
  <2>2. \A c, s : Upto(PpmPairs(c, s), n + 1) = Upto(PpmPairs(c, s), n) BY <1>4, <1>5
  <2>3. PpmOrder(n + 1) = PpmOrder(n) BY <2>1 DEF PpmOrder
  <2>4. PpmCtx(n + 1) = PpmCtx(n) BY <2>2 DEF PpmCtx
  <2> QED BY <2>3, <2>4, <1>5 DEF PpmCounts
<1>6. CASE Ppm!IsCounted(l)
  <2> DEFINE order == [recounted.order EXCEPT ![l] = @ + 1]
             ctx == IF prev = Ppm!None THEN recounted.ctx
                    ELSE [recounted.ctx EXCEPT ![prev][l] = @ + 1]
  <2>1. new = [order |-> order, ctx |-> ctx] BY <1>6 DEF Ppm!WithOne
  <2>2. order = PpmOrder(n + 1)
    <3>1. order = [s \in Ppm!Slots |-> IF s = l THEN (1 + Upto(PpmSeen(s), n)) + 1 ELSE 1 + Upto(PpmSeen(s), n)]
      BY <1>2 DEF PpmOrder
    <3>2. \A s : /\ Upto(PpmSeen(s), n) \in Nat
                 /\ s = l => Upto(PpmSeen(s), n + 1) = Upto(PpmSeen(s), n) + 1
                 /\ s # l => Upto(PpmSeen(s), n + 1) = Upto(PpmSeen(s), n)
      <4> TAKE s
      <4>1. PpmSeen(s) \in SUBSET (1 .. N) BY DEF PpmSeen
      <4> QED BY <4>1, <1>1, <1>3, <1>6
    <3>3. \A s : 1 + Upto(PpmSeen(s), n + 1)
                   = IF s = l THEN (1 + Upto(PpmSeen(s), n)) + 1 ELSE 1 + Upto(PpmSeen(s), n)
      BY <3>2
    <3> HIDE DEF order
    <3> QED BY <3>1, <3>3 DEF PpmOrder
  <2>3. ctx = PpmCtx(n + 1)
    <3>1. \A c, s : Upto(PpmPairs(c, s), n + 1)
                      = IF prev = c /\ s = l THEN Upto(PpmPairs(c, s), n) + 1 ELSE Upto(PpmPairs(c, s), n)
      BY <1>4, <1>6
    <3>2. CASE prev = Ppm!None
      <4>1. ASSUME NEW c \in Ppm!Contexts PROVE prev # c
        <5>1. c \in Nat BY DEF Ppm!Contexts, Ppm!Locals, Ppm!escape_local
        <5> QED BY <5>1, <3>2 DEF Ppm!None
      <4>2. \A c \in Ppm!Contexts : \A s : Upto(PpmPairs(c, s), n + 1) = Upto(PpmPairs(c, s), n)
        BY <3>1, <4>1
      <4>3. PpmCtx(n + 1) = PpmCtx(n) BY <4>2 DEF PpmCtx
      <4> QED BY <4>3, <3>2, <1>2
    <3>3. CASE prev # Ppm!None
      <4>1. ctx = [c \in Ppm!Contexts |-> [s \in Ppm!Locals |->
                     IF prev = c /\ s = l THEN Upto(PpmPairs(c, s), n) + 1 ELSE Upto(PpmPairs(c, s), n)]]
        <5> DEFINE F(c) == [s \in Ppm!Locals |-> Upto(PpmPairs(c, s), n)]
                   G(c) == [s \in Ppm!Locals |->
                     IF prev = c /\ s = l THEN Upto(PpmPairs(c, s), n) + 1 ELSE Upto(PpmPairs(c, s), n)]
        <5>1. ctx = [c \in Ppm!Contexts |-> IF c = prev THEN [F(c) EXCEPT ![l] = @ + 1] ELSE F(c)]
          <6>1. recounted.ctx = [c \in Ppm!Contexts |-> F(c)] BY <1>2 DEF PpmCtx
          <6> DEFINE r == recounted.ctx
          <6>2. ctx = [r EXCEPT ![prev] = [r[prev] EXCEPT ![l] = r[prev][l] + 1]] BY <3>3
          <6> HIDE DEF ctx, F, r
          <6>3. r = [c \in Ppm!Contexts |-> F(c)] BY <6>1 DEF r
          <6>4. ASSUME NEW c \in Ppm!Contexts
                PROVE  ctx[c] = IF c = prev THEN [F(c) EXCEPT ![l] = @ + 1] ELSE F(c)
            BY <6>2, <6>3
          <6> QED BY <6>2, <6>3
        <5>2. \A c : c = prev => [F(c) EXCEPT ![l] = @ + 1] = G(c) OBVIOUS
        <5>3. \A c : c # prev => F(c) = G(c) OBVIOUS
        <5> HIDE DEF F, G, ctx
        <5>4. ctx = [c \in Ppm!Contexts |-> G(c)] BY <5>1, <5>2, <5>3
        <5> QED BY <5>4 DEF G
      <4> HIDE DEF ctx
      <4> QED BY <4>1, <3>1 DEF PpmCtx
    <3> QED BY <3>2, <3>3
  <2> HIDE DEF order, ctx, new
  <2> QED BY <2>1, <2>2, <2>3 DEF PpmCounts, new
<1> QED BY <1>5, <1>6

-----------------------------------------------------------------------------
\* The ppm modes: the decoder within a cascade.

\* A literal is delivered: the counts, the next context and the escape list
\* are those before the next.
LEMMA PpmEmits ==
  ASSUME PpmInv, phase = "decode", phase' = "decode", left > 0, step \in {"context", "order"},
         NEW l, l = coded[lit_pos + 1], NEW x, x = LiteralsOf[lit_pos + 1], Ppm!Emit(l, x),
         At(stack', FirstStep, left - 1, Append(out, x), PpmCalls, 0),
         \/ l # Len(distinct) /\ escape_pos' = escape_pos
         \/ l = Len(distinct) /\ escape_pos' = escape_pos + 1,
         UNCHANGED <<lz, split, positions, meta, distinct, ext, coded, chunk_size, escapes,
                     chunk_stats, counted, sent_escapes>>
  PROVE  PpmInv'
<1> DEFINE n == lit_pos
           N == Len(coded)
<1>0. /\ out' = Append(out, x) /\ prev' = (IF split THEN l ELSE x)
      /\ recounted' = (IF Ppm!IsCounted(l) THEN Ppm!WithOne(l) ELSE recounted)
      /\ lit_pos' = n + 1 /\ left' = left - 1 /\ step' = FirstStep
      /\ boundary' = boundary /\ tables' = tables
  BY DEF Ppm!Emit, Ppm!FirstStep, FirstStep
<1>1. /\ ChunkPlan /\ recounted = PpmCounts(n) /\ prev = Ppm!ContextAt(n + 1)
      /\ AtBoundary(n, boundary, N) /\ n < boundary
      /\ tables = PpmTablesAt(ChunkStart(n))
      /\ sent_escapes \in Seq(0 .. MatchFlag) /\ escape_pos \in 0 .. Len(sent_escapes)
      /\ Stacked(Unread(sent_escapes, escape_pos), LitEscapes, n, 0)
  BY PpmAt
<1>2. /\ n \in Nat /\ n < N /\ n + 1 \in 1 .. N /\ LitsBefore(Done(left - 1) + 1) = n + 1
      /\ Len(distinct) \in Nat
  <2>1. step \in LiteralSteps BY DEF LiteralSteps
  <2> QED BY <2>1, PpmNext
<1>3. N \in Nat /\ chunk_size \in Nat \ {0} BY <1>1 DEF ChunkPlan
<1>4. recounted' = PpmCounts(n + 1)
  <2>1. (IF Ppm!IsCounted(l) THEN Ppm!WithOne(l) ELSE recounted) = PpmCounts(n + 1)
    BY <1>1, <1>2, <1>3, PpmRecounts
  <2> QED BY <2>1, <1>0
<1>5. prev' = Ppm!ContextAt((n + 1) + 1)
  <2>1. (n + 1) + 1 # 1 /\ ((n + 1) + 1) - 1 = n + 1 BY <1>2
  <2>2. Ppm!ContextAt((n + 1) + 1) = IF split THEN coded[n + 1] ELSE lz[n + 1]
    BY <2>1 DEF Ppm!ContextAt
  <2>3. ~split => x = lz[n + 1] BY DEF LiteralsOf
  <2> QED BY <2>2, <2>3, <1>0
<1>6. LitEscapes[n + 1] = IF l = Len(distinct) THEN <<x>> ELSE <<>>
  BY <1>2 DEF LitEscapes, Dropped
<1>7. Len(LitEscapes) = N BY <1>1, LitEscapesTyped
<1> HIDE DEF n, N
<1>8. escape_pos' \in 0 .. Len(sent_escapes) /\ Stacked(Unread(sent_escapes, escape_pos'), LitEscapes, n + 1, 0)
  <2>1. CASE l # Len(distinct)
    <3>1. LitEscapes[n + 1] = <<>> BY <2>1, <1>6
    <3>2. Stacked(Unread(sent_escapes, escape_pos), LitEscapes, n + 1, 0)
      BY <3>1, <1>1, <1>2, <1>7, NextEscape
    <3> QED BY <2>1, <3>2, <1>1
  <2>2. CASE l = Len(distinct)
    <3>1. LitEscapes[n + 1] = <<x>> BY <2>2, <1>6
    <3>2. /\ escape_pos + 1 \in 0 .. Len(sent_escapes)
          /\ Stacked(Unread(sent_escapes, escape_pos + 1), LitEscapes, n + 1, 0)
      BY <3>1, <1>1, <1>2, <1>7, NextEscape
    <3> QED BY <2>2, <3>2
  <2> QED BY <2>1, <2>2
<1>9. /\ AtBoundary(n + 1, boundary, N)
      /\ n + 1 < boundary => ChunkStart(n + 1) = ChunkStart(n)
  <2>1. n # boundary BY <1>1, <1>2
  <2>2. boundary = IF n = boundary THEN Least(n + chunk_size, N) ELSE boundary BY <2>1
  <2> QED BY <2>2, <1>1, <1>2, <1>3, ChunkTurns
<1>10. lit_pos' < boundary' => tables' = PpmTablesAt(ChunkStart(lit_pos')) BY <1>0, <1>1, <1>9
<1>11. At(stack', step', left', out', PpmCalls, 0) BY <1>0
<1>12. step' \in {"event", "hi", "lo", "len", "literal"} BY <1>0 DEF FirstStep
<1>13. /\ lit_pos' = LitsBefore(Done(left') + 1) /\ recounted' = PpmCounts(lit_pos')
       /\ prev' = Ppm!ContextAt(lit_pos' + 1) /\ AtBoundary(lit_pos', boundary', Len(coded))
       /\ Stacked(Unread(sent_escapes, escape_pos'), LitEscapes, lit_pos', 0)
  BY <1>0, <1>2, <1>4, <1>5, <1>8, <1>9 DEF N
<1> QED BY <1>8, <1>10, <1>11, <1>12, <1>13, PpmLeaves

\* The call the decoder reads within a cascade.
LEMMA PpmCascades ==
  ASSUME PpmInv, phase = "decode", left > 0, step \in {"context", "order"},
         NEW l, l = coded[lit_pos + 1],
         NEW y, y = Len(distinct) + (IF split /\ l = Len(distinct) THEN 1 ELSE 0)
  PROVE  /\ step = "context" /\ l # Len(distinct) /\ tables.ctx[prev][l] > 0 =>
              /\ stack # <<>> /\ stack[Len(stack)] = Call(l, tables.ctx[prev])
              /\ At(Below(stack), FirstStep, left - 1, Append(out, LiteralsOf[lit_pos + 1]), PpmCalls, 0)
         /\ step = "context" /\ ~(l # Len(distinct) /\ tables.ctx[prev][l] > 0) =>
              /\ stack # <<>> /\ stack[Len(stack)] = Call(y, tables.ctx[prev])
              /\ At(Below(stack), "order", left, out, PpmCalls, 1)
              /\ Len(PpmCall(lit_pos)) = 2
         /\ step = "order" =>
              /\ stack # <<>> /\ stack[Len(stack)] = Call(l, tables.order)
              /\ At(Below(stack), FirstStep, left - 1, Append(out, LiteralsOf[lit_pos + 1]), PpmCalls, 0)
<1> DEFINE lit == PpmCall(lit_pos)
           more == More(step, tables, prev)
           o == Call(l, tables.order)
           a == Call(l, tables.ctx[prev])
           b == Call(y, tables.ctx[prev])
           z == LiteralsOf[lit_pos + 1]
           direct == l # Len(distinct) /\ tables.ctx[prev][l] > 0
<1>1. /\ Planned /\ Typed(PpmLits)
      /\ At(stack, step, left, out, Parts(PpmLits, meta), more)
      /\ lit_pos < boundary /\ tables = PpmTablesAt(ChunkStart(lit_pos))
      /\ prev = Ppm!ContextAt(lit_pos + 1)
      /\ step = "context" => prev \in DOMAIN tables.ctx /\ more = 0
      /\ step = "order" => more + 1 = Len(lit)
  <2>1. step = "context" => step # "order" OBVIOUS
  <2> QED BY <2>1, PpmAt
<1>2. step \in LiteralSteps BY DEF LiteralSteps
<1>3. lit = PpmLits[Done(left) + 1] /\ z = lz[positions[Done(left) + 1]] BY <1>2, PpmNext
<1>4. lit = IF prev \notin DOMAIN tables.ctx THEN <<o>> ELSE IF direct THEN <<a>> ELSE <<o, b>>
  <2>1. lit = Ppm!Cascade(l, prev, tables) BY <1>1 DEF PpmCall
  <2> HIDE DEF lit
  <2> QED BY <2>1, CascadeCalls
<1>5. step = "order" => more = IF prev \in DOMAIN tables.ctx THEN 1 ELSE 0 BY DEF More
<1> HIDE DEF lit, more, o, a, b, z, direct
<1>6. ASSUME more < Len(lit)
      PROVE  /\ stack # <<>> /\ stack[Len(stack)] = lit[Len(lit) - more]
             /\ GoesOn(stack, left, out, Parts(PpmLits, meta), more, lit)
             /\ Ends(stack, left, out, Parts(PpmLits, meta), more, lit)
  BY <1>1, <1>2, <1>3, <1>6, ReadsLiteral
<1>7. ASSUME step = "context", direct
      PROVE  /\ stack # <<>> /\ stack[Len(stack)] = a
             /\ At(Below(stack), FirstStep, left - 1, Append(out, z), PpmCalls, 0)
  <2>1. lit = <<a>> /\ more = 0 BY <1>1, <1>4, <1>7
  <2>2. Len(lit) = 1 /\ lit[1] = a BY <2>1
  <2>3. more < Len(lit) /\ more + 1 = Len(lit) /\ Len(lit) - more = 1 BY <2>1, <2>2
  <2> QED BY <2>2, <2>3, <1>3, <1>6 DEF Ends, PpmCalls
<1>8. ASSUME step = "context", ~direct
      PROVE  /\ stack # <<>> /\ stack[Len(stack)] = b
             /\ At(Below(stack), "order", left, out, PpmCalls, 1) /\ Len(lit) = 2
  <2>1. lit = <<o, b>> /\ more = 0 BY <1>1, <1>4, <1>8
  <2>2. Len(lit) = 2 /\ lit[2] = b BY <2>1
  <2>3. more < Len(lit) /\ more + 1 < Len(lit) /\ more + 1 = 1 /\ Len(lit) - more = 2 BY <2>1, <2>2
  <2>4. At(Below(stack), "order", left, out, Parts(PpmLits, meta), more + 1) BY <2>3, <1>6 DEF GoesOn
  <2> QED BY <2>2, <2>3, <2>4, <1>6 DEF PpmCalls
<1>9. ASSUME step = "order"
      PROVE  /\ stack # <<>> /\ stack[Len(stack)] = o
             /\ At(Below(stack), FirstStep, left - 1, Append(out, z), PpmCalls, 0)
  <2>1. more + 1 = Len(lit) BY <1>1, <1>9
  <2>2. more \in {0, 1} BY <1>5, <1>9
  <2>3. lit[1] = o
    <3>1. CASE prev \notin DOMAIN tables.ctx BY <3>1, <1>4
    <3>2. CASE prev \in DOMAIN tables.ctx
      <4>1. more = 1 /\ Len(lit) = 2 BY <3>2, <2>1, <1>5, <1>9
      <4>2. Len(<<a>>) = 1 OBVIOUS
      <4>3. lit = <<o, b>> BY <4>1, <4>2, <3>2, <1>4
      <4> QED BY <4>3
    <3> QED BY <3>1, <3>2
  <2>4. more < Len(lit) /\ Len(lit) - more = 1 BY <2>1, <2>2
  <2> QED BY <2>1, <2>3, <2>4, <1>3, <1>6 DEF Ends, PpmCalls
<1> QED BY <1>7, <1>8, <1>9 DEF lit, o, a, b, z, direct

\* The call under the table of the context: a literal, or its escape.
LEMMA PpmReadsContext == PpmInv /\ Ppm!DecodeContext => PpmInv'
<1> SUFFICES ASSUME PpmInv, Ppm!DecodeContext PROVE PpmInv' OBVIOUS
<1> DEFINE l == coded[lit_pos + 1]
           x == LiteralsOf[lit_pos + 1]
           y == Len(distinct) + (IF split /\ l = Len(distinct) THEN 1 ELSE 0)
           t == tables.ctx[prev]
           direct == l # Len(distinct) /\ t[l] > 0
           falls == step' = "order" /\ UNCHANGED <<left, lit_pos, boundary, tables, recounted, prev,
                                                   escape_pos, out>>
<1>0. /\ phase = "decode" /\ phase' = "decode" /\ step = "context" /\ stack' = Below(stack)
      /\ UNCHANGED <<lz, split, positions, meta, distinct, ext, coded, chunk_size, escapes,
                     chunk_stats, counted, sent_escapes>>
      /\ \E v \in Popped(stack, t) :
           \/ v < Len(distinct) /\ Ppm!Emit(v, distinct[v + 1]) /\ escape_pos' = escape_pos
           \/ v >= Len(distinct) /\ falls
  BY PpmIsCoder DEF Ppm!DecodeContext, Ppm!escape_local, Ppm!sentVars, Ppm!inputVars, Ppm!planVars,
         Ppm!historyVars, Ppm!encoderVars, Ppm!literalVars
<1>1. /\ left > 0 /\ lit_pos = LitsBefore(Done(left) + 1) /\ recounted = PpmCounts(lit_pos)
      /\ prev = Ppm!ContextAt(lit_pos + 1) /\ AtBoundary(lit_pos, boundary, Len(coded))
      /\ lit_pos < boundary /\ tables = PpmTablesAt(ChunkStart(lit_pos)) /\ prev \in DOMAIN tables.ctx
      /\ sent_escapes \in Seq(0 .. MatchFlag) /\ escape_pos \in 0 .. Len(sent_escapes)
      /\ Stacked(Unread(sent_escapes, escape_pos), LitEscapes, lit_pos, 0)
      /\ Len(coded) <= Len(chunk_stats) * chunk_size
  BY <1>0, PpmAt
<1>2. /\ l \in 0 .. Len(distinct) /\ Len(distinct) \in Nat
      /\ l # Len(distinct) => distinct[l + 1] = x
  <2>1. step \in LiteralSteps BY <1>0 DEF LiteralSteps
  <2> QED BY <2>1, <1>0, <1>1, PpmNext
<1>3. /\ direct => /\ stack # <<>> /\ stack[Len(stack)] = Call(l, t)
                   /\ At(Below(stack), FirstStep, left - 1, Append(out, x), PpmCalls, 0)
      /\ ~direct => /\ stack # <<>> /\ stack[Len(stack)] = Call(y, t)
                    /\ At(Below(stack), "order", left, out, PpmCalls, 1)
                    /\ Len(PpmCall(lit_pos)) = 2
  BY <1>0, <1>1, PpmCascades
<1>4. y \in Nat /\ y >= Len(distinct) BY <1>2
<1>5. direct => l # Len(distinct) OBVIOUS
<1> HIDE DEF l, x, y, t, direct, falls
<1>6. CASE direct
  <2>1. Popped(stack, t) = {l} BY <1>3, <1>6, OnlyPopped
  <2>2. l < Len(distinct) /\ l # Len(distinct) /\ distinct[l + 1] = x BY <1>2, <1>5, <1>6
  <2>3. Ppm!Emit(l, x) /\ escape_pos' = escape_pos
    <3>1. ~(l >= Len(distinct)) BY <2>2, <1>2
    <3> QED BY <3>1, <2>1, <2>2, <1>0
  <2>4. At(stack', FirstStep, left - 1, Append(out, x), PpmCalls, 0) BY <1>0, <1>3, <1>6
  <2>5. l = coded[lit_pos + 1] /\ x = LiteralsOf[lit_pos + 1] BY DEF l, x
  <2>6. step \in {"context", "order"} BY <1>0
  <2> QED BY <2>2, <2>3, <2>4, <2>5, <2>6, <1>0, <1>1, PpmEmits
<1>7. CASE ~direct
  <2>1. Popped(stack, t) = {y} BY <1>3, <1>7, OnlyPopped
  <2>2. falls
    <3>1. ~(y < Len(distinct)) BY <1>2, <1>4
    <3> QED BY <3>1, <2>1, <1>0
  <2>3. /\ step' = "order"
        /\ UNCHANGED <<left, lit_pos, boundary, tables, recounted, prev, escape_pos, out>>
    BY <2>2 DEF falls
  <2>4. More("order", tables, prev) = 1 BY <1>1 DEF More
  <2>5. /\ At(Below(stack), "order", left, out, PpmCalls, More("order", tables, prev))
        /\ More("order", tables, prev) + 1 = Len(PpmCall(lit_pos))
    BY <2>4, <1>3, <1>7
  <2>6. PpmReading(Below(stack), "order", left, out, lit_pos, boundary, tables, recounted, prev,
                   escape_pos, sent_escapes)
    BY <2>5, <1>1 DEF PpmReading
  <2>7. PpmReading(stack', step', left', out', lit_pos', boundary', tables', recounted', prev',
                   escape_pos', sent_escapes')
    BY <2>3, <2>6, <1>0
  <2> QED BY <2>7, <1>0, <1>1, PpmReads
<1> QED BY <1>6, <1>7

\* The call under order 0: a literal, or an entry of the escape list.
LEMMA PpmReadsOrder == PpmInv /\ Ppm!DecodeOrder => PpmInv'
<1> SUFFICES ASSUME PpmInv, Ppm!DecodeOrder PROVE PpmInv' OBVIOUS
<1> DEFINE l == coded[lit_pos + 1]
           x == LiteralsOf[lit_pos + 1]
           k == escape_pos
<1>0. /\ phase = "decode" /\ phase' = "decode" /\ step = "order" /\ stack' = Below(stack)
      /\ UNCHANGED <<lz, split, positions, meta, distinct, ext, coded, chunk_size, escapes,
                     chunk_stats, counted, sent_escapes>>
      /\ \E v \in Popped(stack, tables.order) :
           \/ v < Len(distinct) /\ Ppm!Emit(v, distinct[v + 1]) /\ escape_pos' = k
           \/ /\ v = Len(distinct) /\ k < Len(sent_escapes)
              /\ Ppm!Emit(v, sent_escapes[k + 1]) /\ escape_pos' = k + 1
  BY PpmIsCoder DEF Ppm!DecodeOrder, Ppm!escape_local, Ppm!sentVars, Ppm!inputVars, Ppm!planVars,
         Ppm!historyVars, Ppm!encoderVars
<1>1. /\ ChunkPlan /\ left > 0 /\ sent_escapes \in Seq(0 .. MatchFlag) /\ k \in 0 .. Len(sent_escapes)
      /\ Stacked(Unread(sent_escapes, k), LitEscapes, lit_pos, 0)
  BY <1>0, PpmAt
<1>2. /\ l \in 0 .. Len(distinct) /\ Len(distinct) \in Nat
      /\ l # Len(distinct) => distinct[l + 1] = x
      /\ lit_pos \in Nat /\ lit_pos < Len(coded) /\ lit_pos + 1 \in 1 .. Len(coded)
  <2>1. step \in LiteralSteps BY <1>0 DEF LiteralSteps
  <2> QED BY <2>1, <1>0, <1>1, PpmNext
<1>3. /\ stack # <<>> /\ stack[Len(stack)] = Call(l, tables.order)
      /\ At(Below(stack), FirstStep, left - 1, Append(out, x), PpmCalls, 0)
  BY <1>0, <1>1, PpmCascades
<1>4. l = Len(distinct) => sent_escapes[k + 1] = x
  <2> SUFFICES ASSUME l = Len(distinct) PROVE sent_escapes[k + 1] = x OBVIOUS
  <2>1. LitEscapes[lit_pos + 1] = <<x>> BY <1>2 DEF LitEscapes, Dropped
  <2>2. Len(LitEscapes) = Len(coded) BY <1>1, LitEscapesTyped
  <2> HIDE DEF x
  <2> QED BY <2>1, <2>2, <1>1, <1>2, NextEscape
<1>5. l = coded[lit_pos + 1] /\ x = LiteralsOf[lit_pos + 1] OBVIOUS
<1> HIDE DEF l, x
<1>6. Popped(stack, tables.order) = {l} BY <1>3, OnlyPopped
<1>7. /\ Ppm!Emit(l, x)
      /\ \/ l # Len(distinct) /\ escape_pos' = escape_pos
         \/ l = Len(distinct) /\ escape_pos' = escape_pos + 1
  <2>1. CASE l # Len(distinct) BY <2>1, <1>0, <1>2, <1>6
  <2>2. CASE l = Len(distinct)
    <3>1. ~(l < Len(distinct)) BY <2>2, <1>2
    <3> QED BY <3>1, <2>2, <1>0, <1>4, <1>6
  <2> QED BY <2>1, <2>2
<1>8. At(stack', FirstStep, left - 1, Append(out, x), PpmCalls, 0) /\ step \in {"context", "order"}
  BY <1>0, <1>3
<1> QED BY <1>0, <1>1, <1>5, <1>7, <1>8, PpmEmits

-----------------------------------------------------------------------------
\* The ppm modes: every step, and what the invariant says.

\* The end of the decoding.
LEMMA PpmEnds == PpmInv /\ Ppm!EndDecode => PpmInv'
<1> SUFFICES ASSUME PpmInv, Ppm!EndDecode PROVE PpmInv' OBVIOUS
<1>0. /\ phase = "decode" /\ phase' = "done" /\ left = 0
      /\ UNCHANGED <<lz, split, positions, meta, distinct, ext, coded, chunk_size, escapes,
                     chunk_stats, counted, sent_escapes, stack, step, left, out, lit_pos, boundary,
                     tables, recounted, prev, escape_pos>>
  BY DEF Ppm!EndDecode, Ppm!sentVars, Ppm!inputVars, Ppm!planVars, Ppm!historyVars, Ppm!encoderVars,
         Ppm!literalVars
<1>1. /\ PpmReading(stack, step, left, out, lit_pos, boundary, tables, recounted, prev, escape_pos,
                    sent_escapes)
      /\ Len(coded) <= Len(chunk_stats) * chunk_size
  BY <1>0 DEF PpmInv, PpmDecoding, PpmHistory
<1>2. PpmReading(stack', step', left', out', lit_pos', boundary', tables', recounted', prev',
                 escape_pos', sent_escapes')
  BY <1>0, <1>1
<1> QED BY <1>0, <1>1, <1>2, PpmReads

\* A step that changes nothing.
LEMMA PpmStays == PpmInv /\ UNCHANGED vars => PpmInv'
<1> SUFFICES ASSUME PpmInv, UNCHANGED vars PROVE PpmInv' OBVIOUS
<1>0. UNCHANGED <<phase, lz, split, positions, meta, distinct, ext, coded, chunk_size, escapes,
                  chunk_stats, counted, at, lit_idx, sent_escapes, stack, step, left, out, lit_pos,
                  boundary, tables, recounted, prev, escape_pos>>
  BY DEF vars, shared_vars, chunk_vars, ppm_vars
<1>1. PpmTypes' /\ PpmIdle' BY <1>0 DEF PpmInv, PpmTypes, PpmIdle, Ppm!None
<1>2. PpmPlan' /\ PpmHistory'
  <2>1. CASE phase = "collect" BY <2>1, <1>0 DEF PpmPlan, PpmHistory
  <2>2. CASE phase # "collect"
    <3>1. phase' # "snapshot" => Len(coded) <= Len(chunk_stats) * chunk_size
      BY <2>2, <1>0 DEF PpmInv, PpmHistory
    <3> QED BY <2>2, <3>1, <1>0, PpmPlanStays, PpmHistoryStays
  <2> QED BY <2>1, <2>2
<1>3. PpmEncoding'
  <2> SUFFICES ASSUME phase' = "encode" PROVE PpmEncoding' BY DEF PpmEncoding
  <2>1. PpmWritten(stack, at, lit_idx, escapes) BY <1>0 DEF PpmInv, PpmEncoding
  <2>2. PpmWritten(stack', at', lit_idx', escapes') BY <2>1, <1>0
  <2>3. PpmWritten(stack, at, lit_idx, escapes)' BY <2>2, <1>0, PpmSendingFixed
  <2> QED BY <2>3 DEF PpmEncoding
<1>4. PpmDecoding'
  <2> SUFFICES ASSUME phase' \in {"decode", "done"} PROVE PpmDecoding' BY DEF PpmDecoding
  <2>1. PpmReading(stack, step, left, out, lit_pos, boundary, tables, recounted, prev, escape_pos,
                   sent_escapes)
    BY <1>0 DEF PpmInv, PpmDecoding
  <2>2. PpmReading(stack', step', left', out', lit_pos', boundary', tables', recounted', prev',
                   escape_pos', sent_escapes')
    BY <2>1, <1>0
  <2>3. PpmReading(stack, step, left, out, lit_pos, boundary, tables, recounted, prev, escape_pos,
                   sent_escapes)'
    BY <2>2, <1>0, PpmReadingFixed
  <2> QED BY <2>3 DEF PpmDecoding
<1>5. (phase = "done" => left = 0)' BY <1>0 DEF PpmInv
<1> QED BY <1>1, <1>2, <1>3, <1>4, <1>5 DEF PpmInv

\* Every step keeps the invariant.
LEMMA PpmSteps == NormalizeKeeps /\ PpmInv /\ (Ppm!Next \/ UNCHANGED vars) => PpmInv'
<1> SUFFICES ASSUME NormalizeKeeps, PpmInv, Ppm!Next \/ UNCHANGED vars PROVE PpmInv' OBVIOUS
<1>1. CASE Ppm!Collect BY <1>1, PpmCollectsInv
<1>2. CASE Ppm!SnapshotChunk BY <1>2, PpmSnapshots
<1>3. CASE Ppm!BeginEncode BY <1>3, PpmBegins
<1>4. CASE Ppm!EncodeMatch \/ Ppm!EncodeLiteral BY <1>4, PpmEncodes
<1>5. CASE Ppm!WriteStream BY <1>5, PpmWrites
<1>6. CASE Ppm!DecodeRole BY <1>6, PpmReadsRole
<1>7. CASE Ppm!DecodeHi \/ Ppm!DecodeLo \/ Ppm!DecodeLen BY <1>7, PpmReadsMeta
<1>8. CASE Ppm!BeginLiteral BY <1>8, PpmBeginsLiteral
<1>9. CASE Ppm!DecodeContext BY <1>9, PpmReadsContext
<1>10. CASE Ppm!DecodeOrder BY <1>10, PpmReadsOrder
<1>11. CASE Ppm!EndDecode BY <1>11, PpmEnds
<1>12. CASE UNCHANGED vars BY <1>12, PpmStays
<1> QED BY <1>1, <1>2, <1>3, <1>4, <1>5, <1>6, <1>7, <1>8, <1>9, <1>10, <1>11, <1>12
        DEF Ppm!Next, Ppm!EncodeNext, Ppm!DecodeNext

\* Which says that the two sides are in step, and that the tokens arrive.
LEMMA PpmSafe ==
  ASSUME PpmInv
  PROVE  Ppm!InSync /\ (phase = "done" => out = lz)
<1>1. ASSUME phase = "decode", left > 0, step # "literal"
      PROVE  stack # <<>> /\ Top(stack).table = Ppm!NextTable
  <2>0. /\ ChunkPlan /\ Planned /\ Typed(PpmLits)
        /\ At(stack, step, left, out, Parts(PpmLits, meta), More(step, tables, prev))
        /\ step \in {"event", "hi", "lo", "len", "literal", "context", "order"}
        /\ step # "order" => More(step, tables, prev) = 0
    BY <1>1, PpmAt
  <2>1. CASE step = "event"
    <3>1. split BY <2>0, <2>1 DEF At, LiteralSteps
    <3>2. Received(meta.role) = meta.role BY <3>1, <2>0 DEF ChunkPlan
    <3>3. At(stack, "event", left, out, Parts(PpmLits, meta), 0) BY <2>0, <2>1
    <3>4. stack # <<>> /\ Top(stack).table = meta.role BY <3>3, <2>0, <1>1, ReadsRole
    <3> QED BY <2>1, <3>2, <3>4, PpmIsCoder DEF Ppm!NextTable
  <2>2. CASE step \in {"hi", "lo", "len"}
    <3>0. At(stack, step, left, out, Parts(PpmLits, meta), 0) BY <2>0, <2>2
    <3>1. Width(positions[Done(left) + 1]) = 4 BY <2>2, <3>0 DEF At, LiteralSteps
    <3>2. split BY <3>1 DEF Width
    <3>3. stack # <<>> /\ Top(stack).table = Meta(meta, step) BY <2>0, <2>2, <3>0, ReadsMeta
    <3>4. Received(Meta(meta, step)) = Meta(meta, step) BY <2>0, <2>2, <3>2 DEF ChunkPlan, Meta
    <3>5. Ppm!NextTable = Received(Meta(meta, step))
      BY <2>2, PpmIsCoder DEF Ppm!NextTable, Meta
    <3> QED BY <3>3, <3>4, <3>5
  <2>3. CASE step \in {"context", "order"}
    <3> DEFINE l == coded[lit_pos + 1]
               y == Len(distinct) + (IF split /\ l = Len(distinct) THEN 1 ELSE 0)
               t == tables.ctx[prev]
               direct == l # Len(distinct) /\ t[l] > 0
    <3>1. /\ step = "context" /\ direct => stack # <<>> /\ stack[Len(stack)] = Call(l, t)
          /\ step = "context" /\ ~direct => stack # <<>> /\ stack[Len(stack)] = Call(y, t)
          /\ step = "order" => stack # <<>> /\ stack[Len(stack)] = Call(l, tables.order)
      BY <1>1, <2>3, PpmCascades
    <3> HIDE DEF l, y, direct
    <3>2. CASE step = "context"
      <4>1. stack # <<>> /\ Top(stack).table = t BY <3>1, <3>2, OnlyPopped
      <4> QED BY <4>1, <3>2 DEF Ppm!NextTable
    <3>3. CASE step = "order"
      <4>1. stack # <<>> /\ Top(stack).table = tables.order BY <3>1, <3>3, OnlyPopped
      <4> QED BY <4>1, <3>3 DEF Ppm!NextTable
    <3> QED BY <2>3, <3>2, <3>3
  <2> QED BY <2>0, <2>1, <2>2, <2>3, <1>1
<1>2. ASSUME phase = "done"
      PROVE  stack = <<>> /\ out = lz /\ escape_pos = Len(sent_escapes) /\ lit_pos = Len(coded)
             /\ recounted = counted
  <2>1. /\ left = 0 /\ Planned /\ Typed(PpmLits)
        /\ ChunkPlan /\ sent_escapes \in Seq(0 .. MatchFlag) /\ escape_pos \in 0 .. Len(sent_escapes)
        /\ Stacked(Unread(sent_escapes, escape_pos), LitEscapes, lit_pos, 0)
        /\ lit_pos = LitsBefore(Done(0) + 1) /\ recounted = PpmCounts(lit_pos)
    BY <1>2, PpmAt DEF PpmInv
  <2>0. At(stack, step, 0, out, Parts(PpmLits, meta), 0)
    <3>1. /\ At(stack, step, left, out, Parts(PpmLits, meta), More(step, tables, prev))
          /\ step \in {"context", "order"} => left > 0
          /\ step # "order" => More(step, tables, prev) = 0
      BY <1>2, PpmAt
    <3> QED BY <3>1, <2>1
  <2>2. stack = <<>> /\ out = lz BY <2>0, <2>1, ReadsAll
  <2>3. Len(coded) = Cardinality(LiteralEvents) /\ Len(coded) \in Nat /\ chunk_size \in Nat
    BY <2>1 DEF ChunkPlan
  <2>4. lit_pos = Len(coded)
    <3>1. Done(0) = Len(positions) BY <2>1, EventFits DEF Done
    <3> QED BY <3>1, <2>1, <2>3, LitsSteps
  <2>5. Unread(sent_escapes, escape_pos) = <<>>
    <3>1. Len(LitEscapes) = Len(coded) BY <2>1, LitEscapesTyped
    <3> QED BY <3>1, <2>1, <2>4, AllPopped
  <2>6. escape_pos = Len(sent_escapes) BY <2>1, <2>5, AllRead
  <2>7. recounted = counted
    <3>1. /\ Len(coded) <= Len(chunk_stats) * chunk_size
          /\ counted = PpmCounts(Least(Len(chunk_stats) * chunk_size, Len(coded)))
          /\ \E T : chunk_stats \in Seq(T)
      BY <1>2 DEF PpmInv, PpmHistory, PpmHeard
    <3> DEFINE f == Len(chunk_stats) * chunk_size
    <3>2. f \in Nat /\ Len(coded) <= f BY <3>1, <2>3
    <3> HIDE DEF f
    <3>3. Least(f, Len(coded)) = Len(coded) BY <3>2, <2>3 DEF Least
    <3> QED BY <3>1, <3>3, <2>1, <2>4 DEF f
  <2> QED BY <2>2, <2>4, <2>6, <2>7
<1>3. Ppm!InSync
  BY <1>1, <1>2, PpmIsCoder
     DEF Ppm!InSync, Ppm!TablesAgree, Ppm!Consumed, Ppm!n_lit
<1> QED BY <1>2, <1>3

\* So the stack holds nothing the coder would not accept.
LEMMA PpmAccepts ==
  ASSUME PpmInv
  PROVE  Encodable(stack)
<1>1. CASE phase \in {"collect", "snapshot"} BY <1>1 DEF PpmInv, PpmIdle, Encodable
<1>2. CASE ~(phase \in {"collect", "snapshot"})
  <2>1. /\ Planned /\ PpmFit
        /\ \/ at \in 0 .. Len(positions) /\ Stacked(stack, PpmCalls, at, 0)
           \/ At(stack, step, left, out, PpmCalls, More(step, tables, prev))
    BY <1>2 DEF PpmInv, PpmTypes, PpmPlan, ChunkPlan, PpmEncoding, PpmWritten, PpmDecoding, PpmReading
  <2>2. 0 \in 0 .. Len(positions) BY <2>1, EventFits
  <2> QED BY <2>1, <2>2, PpmLitsTyped, SentAccepted DEF PpmCalls, PpmFit
<1> QED BY <1>1, <1>2

-----------------------------------------------------------------------------
\* The tables of a training fit.

\* The escape's share of a dictionary's order-0 table is at least 1.
SharesKeepOne == \A total \in Nat : EscapeShare(total) \in Nat \ {0}

\* DictMode has its own instance of Coder.
LEMMA DictIsCoder ==
  /\ \A S : Dict!Cardinality(S) = Cardinality(S)
  /\ \A t : Dict!Active(t) = Active(t)
<1>1. \A S : Dict!Cardinality(S) = Cardinality(S) BY DEF Dict!Cardinality, Cardinality, Dict!IsFiniteSet, IsFiniteSet
<1>2. \A t : Dict!Active(t) = Active(t) BY DEF Dict!Active, Active
<1> QED BY <1>1, <1>2

\* The symbols of the highest tally, as many as there is room for.
LEMMA HighestFit ==
  ASSUME NEW n \in Nat, NEW tally \in [0 .. n -> Nat], NEW cap \in Nat
  PROVE  /\ Dict!Highest(tally, cap) \in SUBSET (0 .. n) /\ IsFiniteSet(Dict!Highest(tally, cap))
         /\ Cardinality(Dict!Highest(tally, cap)) \in Nat /\ Cardinality(Dict!Highest(tally, cap)) <= cap
<1> DEFINE all == Active(tally)
           B == CountOrder(all, tally)
           K == Leading(all, B, cap)
<1>1. Dict!Highest(tally, cap) = K
  <2>1. \A s \in all : {t \in all : <<t, s>> \in B}
                       = {t \in all : tally[t] > tally[s] \/ (tally[t] = tally[s] /\ t < s)}
    BY DEF CountOrder
  <2> HIDE DEF B
  <2> QED BY <2>1, DictIsCoder DEF Dict!Highest, Leading
<1>2. all \in SUBSET (0 .. n) BY DEF Active
<1>3. all \in SUBSET Nat /\ \A a \in all : tally[a] \in Nat BY <1>2
<1> HIDE DEF all
<1>4. IsFiniteSet(all) /\ Cardinality(all) \in Nat BY <1>2, RangeFinite, FS_Subset, FS_CardinalityType
<1>5. Orders(B, all) /\ B \in SUBSET (all \X all) BY <1>3, CountsOrder
<1>6. K \in SUBSET all BY DEF Leading
<1> HIDE DEF B, K
<1>7. IsFiniteSet(K) /\ Cardinality(K) \in Nat /\ Cardinality(K) <= Cardinality(all)
  BY <1>4, <1>6, FS_Subset, FS_CardinalityType
<1>8. cap <= Cardinality(all) => Cardinality(K) = cap BY <1>4, <1>5, FirstOnes DEF FirstOf, K
<1> QED BY <1>1, <1>2, <1>4, <1>6, <1>7, <1>8

\* A trained table has an escape, and fits.
LEMMA TrainedFits ==
  ASSUME NormalizeKeeps, NEW tally \in [0 .. DictFlag -> Nat], NEW mass \in Nat \ {0},
         NEW t, t = Dict!_build_table(tally, mass)
  PROVE  /\ t \in [Dict!Alphabet -> 0 .. RANS_M]
         /\ Dict!escape_symbol \in Active(t) /\ Cardinality(Active(t)) <= RANS_M
<1> DEFINE esc == DictFlag + 1
           K == Dict!Highest(tally, RANS_M - 1)
           raw == [s \in 0 .. esc |-> IF s = esc THEN mass ELSE IF s \in K THEN tally[s] ELSE 0]
           total == Dict!Total(raw)
<1>0. DictFlag \in Nat /\ RANS_M \in Nat \ {0} /\ RANS_M - 1 \in Nat /\ esc \in Nat
  BY ModesAssumption, CoderAssumption
<1>1. t = Freq(raw, total) /\ Dict!Alphabet = 0 .. esc /\ Dict!escape_symbol = esc
  BY DEF Dict!_build_table, Dict!Alphabet, Dict!escape_symbol
<1>2. K \in SUBSET (0 .. DictFlag) /\ IsFiniteSet(K) /\ Cardinality(K) \in Nat /\ Cardinality(K) <= RANS_M - 1
  BY <1>0, HighestFit
<1> HIDE DEF K
<1>3. raw \in [0 .. esc -> Nat] /\ esc \in 0 .. esc /\ raw[esc] = mass
  <2>1. \A s \in 0 .. esc : s # esc => tally[s] \in Nat BY <1>0
  <2> QED BY <1>0, <2>1
<1>4. Active(raw) \in SUBSET (K \cup {esc}) /\ esc \in Active(raw) BY <1>3 DEF Active
<1> HIDE DEF raw
<1>5. IsFiniteSet(0 .. esc) BY <1>0, RangeFinite
<1>6. SumOf(raw) \in Nat /\ raw[esc] <= SumOf(raw) BY <1>3, <1>5, SumBounds
<1>7. total \in Nat /\ total # 0 BY <1>3, <1>6, SumsAreSums
<1> HIDE DEF total, esc
<1>8. Cardinality(Active(raw)) <= RANS_M
  <2>1. esc \notin K BY <1>0, <1>2 DEF esc
  <2>2. IsFiniteSet(K \cup {esc}) /\ Cardinality(K \cup {esc}) = Cardinality(K) + 1 BY <2>1, <1>2, FS_AddElement
  <2>3. Cardinality(Active(raw)) \in Nat /\ Cardinality(Active(raw)) <= Cardinality(K) + 1
    BY <1>4, <2>2, FS_Subset, FS_CardinalityType
  <2> QED BY <2>3, <1>0, <1>2
<1>9. Normalizes(raw, total) BY <1>0, <1>3, <1>7 DEF NormalizeKeeps
<1>10. Freq(raw, total) \in [0 .. esc -> 0 .. RANS_M] /\ Active(Freq(raw, total)) = Active(raw)
  BY <1>3, <1>4, <1>7, <1>8, <1>9 DEF Normalizes
<1> QED BY <1>1, <1>4, <1>8, <1>10

\* The samples after one another are a list of their symbols.
LEMMA FlattenedTyped ==
  ASSUME NEW S, NEW seqs \in Seq(Seq(S))
  PROVE  Dict!FlattenSeq(seqs) \in Seq(S)
<1> DEFINE N == Len(seqs)
           Flat(g, i) == IF i = 1 THEN seqs[i] ELSE g[i - 1] \o seqs[i]
           A == {n \in Nat : \E g : g = [i \in 1 .. n |-> Flat(g, i)]}
           flatten == CHOOSE g : g = [i \in 1 .. N |-> Flat(g, i)]
<1>0. N \in Nat /\ \A i \in 1 .. N : seqs[i] \in Seq(S) OBVIOUS
<1>1. 0 \in A
  <2> DEFINE g == [i \in 1 .. 0 |-> 0]
  <2>1. 1 .. 0 = {} OBVIOUS
  <2>2. g = [i \in 1 .. 0 |-> Flat(g, i)] BY <2>1
  <2> HIDE DEF g, Flat
  <2>3. \E e : e = [i \in 1 .. 0 |-> Flat(e, i)] BY <2>2
  <2> QED BY <2>3
<1>2. ASSUME NEW n \in Nat, n \in A PROVE n + 1 \in A
  <2>1. PICK g : g = [i \in 1 .. n |-> Flat(g, i)] BY <1>2
  <2> DEFINE h == [i \in 1 .. (n + 1) |-> Flat(g, i)]
  <2>2. ASSUME NEW i \in 1 .. (n + 1) PROVE Flat(h, i) = Flat(g, i)
    <3>1. CASE i = 1 BY <3>1
    <3>2. CASE i # 1
      <4> DEFINE j == i - 1
      <4>1. j \in 1 .. n /\ j \in 1 .. (n + 1) BY <3>2
      <4> HIDE DEF j
      <4>2. h[j] = Flat(g, j) /\ g[j] = Flat(g, j) BY <4>1, <2>1
      <4> HIDE DEF h
      <4> QED BY <4>2, <3>2 DEF j
    <3> QED BY <3>1, <3>2
  <2> HIDE DEF Flat
  <2>3. h = [i \in 1 .. (n + 1) |-> Flat(h, i)] BY <2>2
  <2> HIDE DEF h
  <2>4. \E e : e = [i \in 1 .. (n + 1) |-> Flat(e, i)] BY <2>3
  <2> QED BY <2>4
<1> HIDE DEF A
<1>3. N \in A BY <1>0, <1>1, <1>2, NatInd
<1>4. flatten = [i \in 1 .. N |-> Flat(flatten, i)] BY <1>3 DEF A
<1>5. Dict!FlattenSeq(seqs) = IF N = 0 THEN seqs ELSE flatten[N] BY DEF Dict!FlattenSeq
<1> HIDE DEF flatten
<1>6. \A i \in 1 .. N : flatten[i] = Flat(flatten, i) BY <1>4
<1> DEFINE B == {n \in Nat : n + 1 \in 1 .. N => flatten[n + 1] \in Seq(S)}
<1>7. 0 \in B BY <1>0, <1>6
<1>8. ASSUME NEW n \in Nat, n \in B PROVE n + 1 \in B
  <2> SUFFICES ASSUME n + 2 \in 1 .. N PROVE flatten[n + 2] \in Seq(S) OBVIOUS
  <2>1. n + 1 \in 1 .. N /\ n + 2 # 1 /\ (n + 2) - 1 = n + 1 BY <1>0
  <2>2. flatten[n + 1] \in Seq(S) /\ seqs[n + 2] \in Seq(S) BY <1>0, <1>8, <2>1
  <2>3. flatten[n + 2] = flatten[n + 1] \o seqs[n + 2] BY <1>6, <2>1
  <2> QED BY <2>2, <2>3
<1> HIDE DEF B
<1>9. N # 0 => N - 1 \in B /\ N - 1 \in Nat
  <2>1. N # 0 => N - 1 \in Nat BY <1>0
  <2> QED BY <2>1, <1>7, <1>8, NatInd
<1>10. N # 0 => flatten[N] \in Seq(S) BY <1>0, <1>9 DEF B
<1>11. N = 0 => seqs \in Seq(S) OBVIOUS
<1> QED BY <1>5, <1>10, <1>11

\* How often a symbol follows another is a number.
LEMMA FollowersTyped ==
  ASSUME NEW samples \in Seq(Seq(0 .. DictFlag)), NEW c
  PROVE  Dict!Followers(samples, c) \in [0 .. DictFlag -> Nat]
<1> DEFINE F(r) == {<<r, j>> : j \in 2 .. Len(samples[r])}
           P == UNION {F(r) : r \in DOMAIN samples}
           FirstPairs(n) == UNION {F(r) : r \in 1 .. n}
           A == {n \in Nat : n <= Len(samples) => IsFiniteSet(FirstPairs(n))}
<1>0. Len(samples) \in Nat /\ DOMAIN samples = 1 .. Len(samples)
      /\ \A r \in 1 .. Len(samples) : Len(samples[r]) \in Nat
  <2>1. \A r \in 1 .. Len(samples) : samples[r] \in Seq(0 .. DictFlag) OBVIOUS
  <2> QED BY <2>1
<1>1. ASSUME NEW r \in 1 .. Len(samples) PROVE IsFiniteSet(F(r))
  <2>1. IsFiniteSet(2 .. Len(samples[r])) /\ IsFiniteSet({r})
    <3>1. 2 \in Int /\ Len(samples[r]) \in Int BY <1>0
    <3> QED BY <3>1, FS_Interval, FS_Singleton
  <2>2. IsFiniteSet({r} \X (2 .. Len(samples[r]))) BY <2>1, FS_Product
  <2>3. F(r) \in SUBSET ({r} \X (2 .. Len(samples[r]))) OBVIOUS
  <2> QED BY <2>2, <2>3, FS_Subset
<1> HIDE DEF F
<1>2. 0 \in A
  <2>1. FirstPairs(0) = {} OBVIOUS
  <2> QED BY <2>1, FS_EmptySet
<1>3. ASSUME NEW n \in Nat, n \in A PROVE n + 1 \in A
  <2> SUFFICES ASSUME n + 1 <= Len(samples) PROVE IsFiniteSet(FirstPairs(n + 1)) OBVIOUS
  <2>1. n + 1 \in 1 .. Len(samples) /\ n <= Len(samples) BY <1>0
  <2>2. IsFiniteSet(FirstPairs(n)) /\ IsFiniteSet(F(n + 1)) BY <1>1, <1>3, <2>1
  <2>3. FirstPairs(n + 1) = FirstPairs(n) \cup F(n + 1)
    <3>1. 1 .. (n + 1) = (1 .. n) \cup {n + 1} OBVIOUS
    <3> QED BY <3>1
  <2> DEFINE a == FirstPairs(n)
             b == F(n + 1)
  <2>4. IsFiniteSet(a) /\ IsFiniteSet(b) /\ FirstPairs(n + 1) = a \cup b BY <2>2, <2>3
  <2> HIDE DEF a, b, FirstPairs
  <2> QED BY <2>4, FS_Union
<1> HIDE DEF A
<1>4. Len(samples) \in A BY <1>0, <1>2, <1>3, NatInd
<1>5. IsFiniteSet(P) BY <1>0, <1>4 DEF A
<1> HIDE DEF P
<1>6. ASSUME NEW Q \in SUBSET P PROVE Cardinality(Q) \in Nat BY <1>5, FS_Subset, FS_CardinalityType
<1>7. Dict!Followers(samples, c) =
        [s \in 0 .. DictFlag |-> Cardinality({p \in P : samples[p[1]][p[2] - 1] = c /\ samples[p[1]][p[2]] = s})]
  BY DictIsCoder DEF Dict!Followers, P, F
<1>8. \A s \in 0 .. DictFlag : Cardinality({p \in P : samples[p[1]][p[2] - 1] = c /\ samples[p[1]][p[2]] = s}) \in Nat
  BY <1>6
<1> QED BY <1>7, <1>8

\* A table that has an escape, and fits.
Usable(t) ==
  /\ t \in [Dict!Alphabet -> 0 .. RANS_M]
  /\ Dict!escape_symbol \in Active(t) /\ Cardinality(Active(t)) <= RANS_M

\* So every table of a dictionary can be coded under, whatever it is trained on.
LEMMA TrainingFits ==
  ASSUME NormalizeKeeps, SharesKeepOne, NEW samples \in Trainings, NEW d, d = Dict!train(samples)
  PROVE  Usable(d.order) /\ \A c \in DOMAIN d.ctx : Usable(d.ctx[c])
<1> DEFINE raw_counts == Dict!Tally(Dict!FlattenSeq(samples), 0 .. DictFlag)
           seen(c) == Dict!Followers(samples, c)
           share == EscapeShare(Dict!Total(raw_counts))
<1>0. samples \in Seq(Seq(0 .. DictFlag)) /\ MIN_CONTEXT_TRANSITIONS \in Nat \ {0} /\ DictFlag \in Nat
  BY ModesAssumption DEF Dict!DictAssumption
<1>1. /\ d.order = Dict!_build_table(raw_counts, share)
      /\ d.ctx = [c \in Dict!Contexts(samples) |-> Dict!_build_table(seen(c), Cardinality(Active(seen(c))))]
  BY DictIsCoder DEF Dict!train
<1>2. Usable(d.order)
  <2> DEFINE flat == Dict!FlattenSeq(samples)
  <2>1. flat \in Seq(0 .. DictFlag) BY <1>0, FlattenedTyped
  <2> HIDE DEF flat
  <2>2. \A s : CountOf(flat, s) \in Nat
    <3>1. flat \in Seq(Nat) BY <2>1, <1>0
    <3> QED BY <3>1, ValuesFinite
  <2>3. raw_counts = [s \in 0 .. DictFlag |-> CountOf(flat, s)]
    BY DictIsCoder DEF Dict!Tally, Dict!CountOf, CountOf, flat
  <2>4. raw_counts \in [0 .. DictFlag -> Nat] BY <2>2, <2>3
  <2> HIDE DEF raw_counts
  <2>5. IsFiniteSet(0 .. DictFlag) BY <1>0, RangeFinite
  <2>6. SumOf(raw_counts) \in Nat BY <2>4, <2>5, SumBounds
  <2>7. Dict!Total(raw_counts) \in Nat BY <2>6, SumsAreSums
  <2>8. share \in Nat \ {0} BY <2>7 DEF SharesKeepOne
  <2> HIDE DEF share
  <2> QED BY <1>1, <2>4, <2>8, TrainedFits DEF Usable
<1>3. ASSUME NEW c \in DOMAIN d.ctx PROVE Usable(d.ctx[c])
  <2> DEFINE f == seen(c)
             mass == Cardinality(Active(f))
  <2>1. c \in Dict!Contexts(samples) /\ d.ctx[c] = Dict!_build_table(f, mass) BY <1>1, <1>3
  <2>2. Dict!Total(f) >= MIN_CONTEXT_TRANSITIONS BY <2>1 DEF Dict!Contexts
  <2>3. f \in [0 .. DictFlag -> Nat] BY <1>0, FollowersTyped
  <2> HIDE DEF f
  <2>4. IsFiniteSet(0 .. DictFlag) BY <1>0, RangeFinite
  <2>5. SumOf(f) \in Nat /\ (SumOf(f) > 0 => \E x \in 0 .. DictFlag : f[x] > 0)
    BY <2>3, <2>4, SumBounds
  <2>6. SumOf(f) > 0 BY <2>2, <2>5, <1>0, SumsAreSums
  <2>7. Active(f) \in SUBSET (0 .. DictFlag) /\ Active(f) # {} BY <2>3, <2>5, <2>6 DEF Active
  <2>8. IsFiniteSet(Active(f)) BY <2>4, <2>7, FS_Subset
  <2>9. mass \in Nat \ {0} BY <2>7, <2>8, FS_CardinalityType, FS_EmptySet
  <2> HIDE DEF mass
  <2> QED BY <2>1, <2>3, <2>9, TrainedFits DEF Usable
<1> QED BY <1>2, <1>3

-----------------------------------------------------------------------------
\* The dictionary mode, whose tables are the trained ones.

\* The calls for each token, and what it adds to the escape list.
Before(e) == SubSeq(lz, 1, e - 1)
DictCalls == [e \in 1 .. Len(lz) |-> Dict!Cascade(lz[e], Before(e))]
DictEscaped(e) == Dict!Falls(lz[e], Before(e)) /\ ~Dict!InOrder(lz[e])
DictEscapes == [e \in 1 .. Len(lz) |-> IF DictEscaped(e) THEN <<lz[e]>> ELSE <<>>]

DictTypes ==
  /\ lz \in Seq(0 .. DictFlag)
  /\ \E t \in Trainings : ours = Dict!train(t)
  /\ \E t \in Trainings : theirs = Dict!train(t)
  /\ phase \in {"encode", "check", "decode", "done", "rejected"}
  /\ at \in 0 .. Len(lz) /\ left \in 0 .. Len(lz)
  /\ escapes \in Seq(0 .. DictFlag) /\ out \in Seq(0 .. DictFlag)
  /\ fell \in BOOLEAN /\ escape_pos \in 0 .. Len(escapes)

DictEncoding ==
  phase = "encode" =>
    /\ Stacked(stack, DictCalls, at, 0) /\ Stacked(escapes, DictEscapes, at, 0)
    /\ out = <<>> /\ escape_pos = 0 /\ ~fell

DictChecking ==
  /\ phase \in {"check", "rejected"} => Stacked(stack, DictCalls, 0, 0)
  /\ phase = "check" =>
       /\ Stacked(Dict!Reverse(escapes), DictEscapes, 0, 0)
       /\ out = <<>> /\ escape_pos = 0 /\ ~fell
       /\ left = Len(lz) /\ sent = ours.fingerprint

UnreadEscapes == SubSeq(Dict!Reverse(escapes), 1, Len(escapes) - escape_pos)

DictDecoding ==
  phase \in {"decode", "done"} =>
    /\ ours = theirs
    /\ out = SubSeq(lz, 1, Len(lz) - left)
    /\ Stacked(stack, DictCalls, Len(lz) - left, IF fell THEN 1 ELSE 0)
    /\ Stacked(UnreadEscapes, DictEscapes, Len(lz) - left, 0)
    /\ fell => Dict!HasContext(ours, out) /\ Dict!Falls(lz[Len(out) + 1], out)

DictInv ==
  /\ DictTypes /\ DictEncoding /\ DictChecking /\ DictDecoding
  /\ fell => left > 0 /\ phase \in {"decode", "rejected"}
  /\ phase = "done" => left = 0

\* What a token costs: the context table, the fallback, or both.
LEMMA DictCascade ==
  ASSUME lz \in Seq(0 .. DictFlag), NEW e \in 1 .. Len(lz)
  PROVE  LET s == lz[e]
             c == Dict!Last(Before(e))
             order == Dict!OrderCall(s)
         IN  /\ DictCalls[e] =
                  IF ~Dict!HasContext(ours, Before(e)) THEN <<order>>
                  ELSE IF ours.ctx[c][s] # 0 THEN <<[sym |-> s, table |-> ours.ctx[c]]>>
                  ELSE <<order, [sym |-> Dict!escape_symbol, table |-> ours.ctx[c]]>>
             /\ order = [sym |-> IF Dict!InOrder(s) THEN s ELSE Dict!escape_symbol,
                         table |-> ours.order]
             /\ Dict!Falls(s, Before(e)) <=> (Dict!HasContext(ours, Before(e)) => ours.ctx[c][s] = 0)
<1>1. DictCalls[e] = Dict!Cascade(lz[e], Before(e)) BY DEF DictCalls
<1>2. Dict!OrderCall(lz[e]) = [sym |-> IF Dict!InOrder(lz[e]) THEN lz[e] ELSE Dict!escape_symbol,
                               table |-> ours.order]
  BY DEF Dict!OrderCall, Dict!Call
<1> QED BY <1>1, <1>2 DEF Dict!Cascade, Dict!Falls, Dict!Call

\* Each token has its calls, and adds a token to the escapes or nothing.
LEMMA DictPartsTyped ==
  ASSUME lz \in Seq(0 .. DictFlag)
  PROVE  /\ \E S : DictCalls \in Seq(Seq(S))
         /\ DictEscapes \in Seq(Seq(0 .. DictFlag))
         /\ Len(DictCalls) = Len(lz) /\ Len(DictEscapes) = Len(lz)
<1> DEFINE S == UNION {{Dict!OrderCall(lz[e]),
                        [sym |-> lz[e], table |-> ours.ctx[Dict!Last(Before(e))]],
                        [sym |-> Dict!escape_symbol, table |-> ours.ctx[Dict!Last(Before(e))]]} :
                          e \in 1 .. Len(lz)}
<1>1. ASSUME NEW e \in 1 .. Len(lz) PROVE DictCalls[e] \in Seq(S)
  <2>1. /\ Dict!OrderCall(lz[e]) \in S
        /\ [sym |-> lz[e], table |-> ours.ctx[Dict!Last(Before(e))]] \in S
        /\ [sym |-> Dict!escape_symbol, table |-> ours.ctx[Dict!Last(Before(e))]] \in S
    OBVIOUS
  <2> HIDE DEF S
  <2>2. \A a, b \in S : <<a>> \in Seq(S) /\ <<a, b>> \in Seq(S) OBVIOUS
  <2> DEFINE p == DictCalls[e]
  <2>3. p = IF ~Dict!HasContext(ours, Before(e)) THEN <<Dict!OrderCall(lz[e])>>
            ELSE IF ours.ctx[Dict!Last(Before(e))][lz[e]] # 0
            THEN <<[sym |-> lz[e], table |-> ours.ctx[Dict!Last(Before(e))]]>>
            ELSE <<Dict!OrderCall(lz[e]),
                   [sym |-> Dict!escape_symbol, table |-> ours.ctx[Dict!Last(Before(e))]]>>
    BY DictCascade
  <2> HIDE DEF p
  <2> QED BY <2>1, <2>2, <2>3 DEF p
<1>2. DictCalls \in [1 .. Len(lz) -> Seq(S)]
  <2> HIDE DEF S
  <2> QED BY <1>1 DEF DictCalls
<1>3. DictEscapes \in [1 .. Len(lz) -> Seq(0 .. DictFlag)]
  <2>1. ASSUME NEW e \in 1 .. Len(lz)
        PROVE  (IF DictEscaped(e) THEN <<lz[e]>> ELSE <<>>) \in Seq(0 .. DictFlag)
    <3>1. lz[e] \in 0 .. DictFlag BY ElementOfSeq
    <3>2. <<lz[e]>> \in Seq(0 .. DictFlag) /\ <<>> \in Seq(0 .. DictFlag) BY <3>1
    <3> QED BY <3>2
  <2> QED BY <2>1 DEF DictEscapes
<1>4. Len(lz) \in Nat OBVIOUS
<1> HIDE DEF S
<1> QED BY <1>2, <1>3, <1>4, FunctionIsSequence

\* The invariant holds initially.
LEMMA DictInit == Dict!Init => DictInv
<1> SUFFICES ASSUME Dict!Init PROVE DictInv OBVIOUS
<1>1. lz \in Seq(0 .. DictFlag) /\ Len(lz) \in Nat
  BY ModesAssumption DEF Dict!Init, Dict!DictAssumption
<1>2. \E t \in Trainings : ours = Dict!train(t) BY DEF Dict!Init
<1>3. \E t \in Trainings : theirs = Dict!train(t)
  BY ModesAssumption DEF Dict!Init, Dict!DictAssumption
<1>4. DictTypes
  <2>1. <<>> \in Seq(0 .. DictFlag) /\ Len(<<>>) = 0 OBVIOUS
  <2>2. /\ at = Len(lz) /\ left = 0 /\ escapes = <<>> /\ out = <<>> /\ escape_pos = 0
        /\ fell = FALSE /\ phase = "encode"
    BY DEF Dict!Init
  <2>3. /\ at \in 0 .. Len(lz) /\ left \in 0 .. Len(lz)
        /\ escape_pos \in 0 .. Len(escapes)
    BY <1>1, <2>1, <2>2
  <2>4. escapes \in Seq(0 .. DictFlag) /\ out \in Seq(0 .. DictFlag) /\ fell \in BOOLEAN
    BY <2>1, <2>2
  <2>5. phase \in {"encode", "check", "decode", "done", "rejected"} BY <2>2
  <2> QED BY <1>1, <1>2, <1>3, <2>3, <2>4, <2>5 DEF DictTypes
<1>5. DictEncoding
  <2>1. Len(DictCalls) = at /\ Len(DictEscapes) = at BY <1>1, DictPartsTyped DEF Dict!Init
  <2>2. Stacked(<<>>, DictCalls, at, 0)
    <3>1. PICK S : DictCalls \in Seq(Seq(S)) BY <1>1, DictPartsTyped
    <3> QED BY <3>1, <2>1, NothingStacked
  <2>3. Stacked(<<>>, DictEscapes, at, 0) BY <1>1, <2>1, DictPartsTyped, NothingStacked
  <2> QED BY <2>2, <2>3 DEF Dict!Init, DictEncoding
<1>6. DictChecking /\ DictDecoding /\ ~fell /\ phase # "done"
  BY DEF Dict!Init, DictChecking, DictDecoding
<1> QED BY <1>4, <1>5, <1>6 DEF DictInv

\* The calls do not change.
LEMMA DictPartsFixed ==
  ASSUME UNCHANGED <<lz, ours>>
  PROVE  DictCalls' = DictCalls /\ DictEscapes' = DictEscapes
<1>1. \A e \in 1 .. Len(lz) : Dict!Cascade(lz[e], Before(e))' = Dict!Cascade(lz[e], Before(e))
  BY DEF Dict!Cascade, Dict!Falls, Dict!HasContext, Dict!OrderCall, Dict!InOrder, Dict!Call,
         Dict!escape_symbol, Before
<1>2. \A e \in 1 .. Len(lz) : DictEscaped(e)' = DictEscaped(e)
  BY DEF DictEscaped, Dict!Falls, Dict!HasContext, Dict!InOrder, Before
<1> QED BY <1>1, <1>2 DEF DictCalls, DictEscapes

\* What the decoder takes from the stack.
LEMMA DictReads ==
  ASSUME DictTypes, UNCHANGED <<Dict!givenVars>>
  PROVE  /\ lz' \in Seq(0 .. DictFlag)
         /\ (\E t \in Trainings : ours = Dict!train(t))'
         /\ (\E t \in Trainings : theirs = Dict!train(t))'
BY DEF DictTypes, Dict!givenVars

\* A turn of the encoder keeps the invariant.
LEMMA DictEncodes ==
  ASSUME DictInv, Dict!EncodeToken
  PROVE  DictInv'
<1>1. /\ lz \in Seq(0 .. DictFlag) /\ Len(lz) \in Nat /\ at \in 1 .. Len(lz)
      /\ escapes \in Seq(0 .. DictFlag) /\ out \in Seq(0 .. DictFlag)
      /\ phase = "encode" /\ left \in 0 .. Len(lz)
  BY DEF DictInv, DictTypes, Dict!EncodeToken
<1>2. /\ UNCHANGED <<lz, ours, theirs, phase, sent, fell, left, escape_pos, out>>
      /\ at' = at - 1
      /\ stack' = stack \o DictCalls[at]
      /\ escapes' = IF DictEscaped(at) THEN Append(escapes, lz[at]) ELSE escapes
  BY <1>1 DEF Dict!EncodeToken, Dict!givenVars, Dict!decoderVars, DictCalls, DictEscaped, Before
<1>3. /\ Stacked(stack, DictCalls, at, 0) /\ Stacked(escapes, DictEscapes, at, 0)
      /\ out = <<>> /\ escape_pos = 0 /\ ~fell
  BY <1>1 DEF DictInv, DictEncoding
<1>4. Len(DictCalls) = Len(lz) /\ Len(DictEscapes) = Len(lz) BY <1>1, DictPartsTyped
<1>5. DictCalls' = DictCalls /\ DictEscapes' = DictEscapes BY <1>2, DictPartsFixed
<1>6. Stacked(stack', DictCalls, at - 1, 0) BY <1>1, <1>2, <1>3, <1>4, PushPart
<1>7. escapes' = escapes \o DictEscapes[at] /\ escapes' \in Seq(0 .. DictFlag)
  <2>1. DictEscapes[at] = IF DictEscaped(at) THEN <<lz[at]>> ELSE <<>> BY <1>1 DEF DictEscapes
  <2>2. lz[at] \in 0 .. DictFlag BY <1>1, ElementOfSeq
  <2>3. CASE DictEscaped(at) BY <1>1, <1>2, <2>1, <2>2, <2>3
  <2>4. CASE ~DictEscaped(at) BY <1>1, <1>2, <2>1, <2>4
  <2> QED BY <2>3, <2>4
<1>8. Stacked(escapes', DictEscapes, at - 1, 0) BY <1>1, <1>3, <1>4, <1>7, PushPart
<1>9. DictTypes'
  <2>1. at' \in 0 .. Len(lz)' BY <1>1, <1>2
  <2>2. (escape_pos \in 0 .. Len(escapes))' BY <1>2, <1>3, <1>7
  <2> QED BY <1>1, <1>2, <1>3, <1>7, <2>1, <2>2 DEF DictInv, DictTypes
<1>10. DictEncoding' BY <1>2, <1>3, <1>5, <1>6, <1>8 DEF DictEncoding
<1>11. phase' = "encode" /\ ~fell' BY <1>1, <1>2, <1>3
<1> QED BY <1>9, <1>10, <1>11 DEF DictInv, DictChecking, DictDecoding

\* The token the decoder is about to produce.
LEMMA DictNextToken ==
  ASSUME DictInv, phase = "decode", left > 0, NEW e, e = Len(lz) - left
  PROVE  /\ lz \in Seq(0 .. DictFlag) /\ Len(lz) \in Nat
         /\ e \in Nat /\ e < Len(lz) /\ e + 1 \in 1 .. Len(lz)
         /\ out = Before(e + 1) /\ Len(out) = e
         /\ lz[e + 1] \in 0 .. DictFlag /\ lz[e + 1] # Dict!escape_symbol
         /\ Append(out, lz[e + 1]) = SubSeq(lz, 1, Len(lz) - (left - 1))
         /\ Append(out, lz[e + 1]) \in Seq(0 .. DictFlag)
         /\ Len(lz) - (left - 1) = e + 1
<1>1. lz \in Seq(0 .. DictFlag) /\ Len(lz) \in Nat /\ left \in 0 .. Len(lz)
  BY DEF DictInv, DictTypes
<1>2. e \in Nat /\ e < Len(lz) /\ e + 1 \in 1 .. Len(lz) /\ Len(lz) - (left - 1) = e + 1
      /\ (e + 1) - 1 = e /\ e \in 0 .. Len(lz) /\ e + 1 \in 0 .. Len(lz)
  BY <1>1
<1>3. out = SubSeq(lz, 1, e) BY DEF DictInv, DictDecoding
<1>4. out = Before(e + 1) BY <1>2, <1>3 DEF Before
<1>5. out \in Seq(0 .. DictFlag) /\ Len(out) = e /\ \A p \in 1 .. e : out[p] = lz[p]
  BY <1>1, <1>2, <1>3, PrefixEntries
<1>6. lz[e + 1] \in 0 .. DictFlag BY <1>1, <1>2, ElementOfSeq
<1>7. lz[e + 1] # Dict!escape_symbol BY <1>6, ModesAssumption DEF Dict!escape_symbol
<1> DEFINE longer == SubSeq(lz, 1, e + 1)
<1>8. longer \in Seq(0 .. DictFlag) /\ Len(longer) = e + 1 /\ \A p \in 1 .. (e + 1) : longer[p] = lz[p]
  BY <1>1, <1>2, PrefixEntries
<1>9. Append(out, lz[e + 1]) \in Seq(0 .. DictFlag) /\ Append(out, lz[e + 1]) = longer
  <2> DEFINE more == Append(out, lz[e + 1])
  <2> HIDE DEF longer
  <2>1. more \in Seq(0 .. DictFlag) /\ Len(more) = e + 1
    BY <1>2, <1>5, <1>6
  <2>2. \A p \in 1 .. (e + 1) : more[p] = lz[p]
    BY <1>2, <1>5, <1>6
  <2> HIDE DEF more
  <2>3. more = longer BY <2>1, <2>2, <1>2, <1>8, SeqEqual
  <2> QED BY <2>1, <2>3 DEF more
<1> QED BY <1>1, <1>2, <1>4, <1>5, <1>6, <1>7, <1>9

\* Writing the stream.
LEMMA DictWrites ==
  ASSUME DictInv, Dict!WriteStream
  PROVE  DictInv'
<1>1. /\ lz \in Seq(0 .. DictFlag) /\ Len(lz) \in Nat /\ at = 0 /\ phase = "encode"
      /\ escapes \in Seq(0 .. DictFlag) /\ out \in Seq(0 .. DictFlag)
  BY DEF DictInv, DictTypes, Dict!WriteStream
<1>2. /\ UNCHANGED <<lz, ours, theirs, at, stack, fell, escape_pos, out>>
      /\ phase' = "check" /\ escapes' = Reversed(escapes)
      /\ sent' = ours.fingerprint /\ left' = Len(lz)
  BY DEF Dict!WriteStream, Dict!givenVars, Dict!WrittenEscapes, Dict!Reverse, Reversed
<1>3. /\ Stacked(stack, DictCalls, 0, 0) /\ Stacked(escapes, DictEscapes, 0, 0)
      /\ out = <<>> /\ escape_pos = 0 /\ ~fell
  BY <1>1 DEF DictInv, DictEncoding
<1>4. DictCalls' = DictCalls /\ DictEscapes' = DictEscapes BY <1>2, DictPartsFixed
<1>5. /\ escapes' \in Seq(0 .. DictFlag) /\ Len(escapes') = Len(escapes)
      /\ Dict!Reverse(escapes)' = escapes
  <2>1. Dict!Reverse(escapes)' = Reversed(escapes') BY DEF Dict!Reverse, Reversed
  <2> QED BY <2>1, <1>1, <1>2, ReversedTwice
<1>6. DictTypes'
  <2>1. left' \in 0 .. Len(lz)' /\ at' \in 0 .. Len(lz)' BY <1>1, <1>2
  <2>2. (escape_pos \in 0 .. Len(escapes))' BY <1>1, <1>2, <1>3, <1>5
  <2> QED BY <1>1, <1>2, <1>3, <1>5, <2>1, <2>2 DEF DictInv, DictTypes
<1>7. DictChecking' BY <1>2, <1>3, <1>4, <1>5 DEF DictChecking
<1> QED BY <1>2, <1>3, <1>6, <1>7 DEF DictInv, DictEncoding, DictDecoding

\* What a dictionary decides by depends on the samples only through the
\* fingerprint.
LEMMA SameFingerprint ==
  ASSUME NEW t, NEW u, Dict!train(t).fingerprint = Dict!train(u).fingerprint
  PROVE  Dict!train(t) = Dict!train(u)
BY DEF Dict!train, Dict!_fingerprint

\* The decoder accepts a dictionary that is the one of the encoder.
LEMMA DictAccepts ==
  ASSUME DictInv, Dict!Accept
  PROVE  DictInv'
<1>1. /\ lz \in Seq(0 .. DictFlag) /\ Len(lz) \in Nat /\ phase = "check"
      /\ escapes \in Seq(0 .. DictFlag)
  BY DEF DictInv, DictTypes, Dict!Accept
<1>2. /\ UNCHANGED <<lz, ours, theirs, at, stack, escapes, sent, fell, left, escape_pos, out>>
      /\ phase' = "decode" /\ sent = theirs.fingerprint
  BY DEF Dict!Accept, Dict!givenVars, Dict!decoderVars
<1>3. /\ Stacked(stack, DictCalls, 0, 0) /\ Stacked(Dict!Reverse(escapes), DictEscapes, 0, 0)
      /\ out = <<>> /\ escape_pos = 0 /\ ~fell /\ left = Len(lz) /\ sent = ours.fingerprint
  BY <1>1 DEF DictInv, DictChecking
<1>4. DictCalls' = DictCalls /\ DictEscapes' = DictEscapes BY <1>2, DictPartsFixed
<1>5. ours = theirs BY <1>2, <1>3, SameFingerprint DEF DictInv, DictTypes
<1>6. UnreadEscapes = Dict!Reverse(escapes)
  <2>1. Reversed(escapes) \in Seq(0 .. DictFlag) /\ Len(Reversed(escapes)) = Len(escapes)
    BY <1>1, ReversedTwice
  <2>2. SubSeq(Reversed(escapes), 1, Len(escapes) - 0) = Reversed(escapes)
    <3> DEFINE r == Reversed(escapes)
    <3> HIDE DEF r
    <3>1. r \in Seq(0 .. DictFlag) /\ Len(r) = Len(escapes) /\ Len(escapes) \in Nat
      BY <2>1, <1>1 DEF r
    <3>2. SubSeq(r, 1, Len(r)) = r BY <3>1, SubSeqFull
    <3>3. Len(escapes) - 0 = Len(r) BY <3>1
    <3> QED BY <3>2, <3>3 DEF r
  <2> QED BY <2>2, <1>3 DEF UnreadEscapes, Dict!Reverse, Reversed
<1>7. UnreadEscapes' = UnreadEscapes BY <1>2 DEF UnreadEscapes, Dict!Reverse
<1>8. Len(lz) - left = 0 /\ SubSeq(lz, 1, Len(lz) - left) = <<>>
  BY <1>1, <1>3
<1>9. DictTypes' BY <1>2 DEF DictInv, DictTypes
<1>10. DictDecoding' BY <1>2, <1>3, <1>4, <1>5, <1>6, <1>7, <1>8 DEF DictDecoding
<1> QED BY <1>2, <1>3, <1>9, <1>10 DEF DictInv, DictEncoding, DictChecking

\* The decoder refuses one that is not.
LEMMA DictRejects ==
  ASSUME DictInv, Dict!Reject
  PROVE  DictInv'
<1>1. /\ UNCHANGED <<lz, ours, theirs, at, stack, escapes, sent, fell, left, escape_pos, out>>
      /\ phase = "check" /\ phase' = "rejected"
  BY DEF Dict!Reject, Dict!givenVars, Dict!decoderVars
<1>2. DictTypes' BY <1>1 DEF DictInv, DictTypes
<1>3. ~fell /\ Stacked(stack, DictCalls, 0, 0) BY <1>1 DEF DictInv, DictChecking
<1>4. DictCalls' = DictCalls BY <1>1, DictPartsFixed
<1> QED BY <1>1, <1>2, <1>3, <1>4 DEF DictInv, DictEncoding, DictChecking, DictDecoding

\* The end of the record.
LEMMA DictEnds ==
  ASSUME DictInv, Dict!EndDecode
  PROVE  DictInv'
<1>1. /\ UNCHANGED <<lz, ours, theirs, at, stack, escapes, sent, fell, left, escape_pos, out>>
      /\ phase = "decode" /\ phase' = "done" /\ left = 0
  BY DEF Dict!EndDecode, Dict!givenVars, Dict!decoderVars
<1>2. DictTypes' BY <1>1 DEF DictInv, DictTypes
<1>3. DictCalls' = DictCalls /\ DictEscapes' = DictEscapes /\ UnreadEscapes' = UnreadEscapes
  BY <1>1, DictPartsFixed DEF UnreadEscapes, Dict!Reverse
<1>4. ~fell BY <1>1 DEF DictInv, DictTypes
<1>5. DictDecoding'
  BY <1>1, <1>3, <1>4 DEF DictInv, DictDecoding
<1> QED BY <1>1, <1>2, <1>4, <1>5 DEF DictInv, DictEncoding, DictChecking

\* The call under the table of the context.
LEMMA DictTriesContext ==
  ASSUME DictInv, Dict!DecodeContext
  PROVE  DictInv'
<1> DEFINE e == Len(lz) - left
           s == lz[e + 1]
           c == Dict!Last(out)
<1>1. phase = "decode" /\ left > 0 /\ ~fell /\ Dict!HasContext(theirs, out)
  BY DEF Dict!DecodeContext, Dict!TriesContext
<1>2. /\ lz \in Seq(0 .. DictFlag) /\ Len(lz) \in Nat
      /\ e \in Nat /\ e < Len(lz) /\ e + 1 \in 1 .. Len(lz)
      /\ out = Before(e + 1) /\ Len(out) = e
      /\ s \in 0 .. DictFlag /\ s # Dict!escape_symbol
      /\ Append(out, s) = SubSeq(lz, 1, Len(lz) - (left - 1))
      /\ Append(out, s) \in Seq(0 .. DictFlag)
      /\ Len(lz) - (left - 1) = e + 1
  BY <1>1, DictNextToken
<1> HIDE DEF e, s
<1>3. /\ ours = theirs /\ out = SubSeq(lz, 1, e)
      /\ Stacked(stack, DictCalls, e, 0) /\ Stacked(UnreadEscapes, DictEscapes, e, 0)
  BY <1>1 DEF DictInv, DictDecoding, e
<1>4. DictCalls[e + 1] = IF ours.ctx[c][s] # 0 THEN <<[sym |-> s, table |-> ours.ctx[c]]>>
                         ELSE <<Dict!OrderCall(s),
                                [sym |-> Dict!escape_symbol, table |-> ours.ctx[c]]>>
  BY <1>1, <1>2, <1>3, DictCascade DEF s
<1>5. Dict!Falls(s, out) <=> ours.ctx[c][s] = 0
  BY <1>1, <1>3 DEF Dict!Falls, c
<1>6. Len(DictCalls) = Len(lz) /\ Len(DictEscapes) = Len(lz) BY <1>2, DictPartsTyped
<1>7. UNCHANGED <<lz, ours, theirs, phase, at, escapes, sent, escape_pos>>
  BY DEF Dict!DecodeContext, Dict!givenVars
<1>8. stack' = SubSeq(stack, 1, Len(stack) - 1)
  BY DEF Dict!DecodeContext, Dict!Below
<1>9. DictCalls' = DictCalls /\ DictEscapes' = DictEscapes /\ UnreadEscapes' = UnreadEscapes
  BY <1>7, DictPartsFixed DEF UnreadEscapes, Dict!Reverse
<1>10. PICK p \in Dict!Popped(stack, theirs.ctx[c]) :
         /\ fell' = (p = Dict!escape_symbol)
         /\ out' = IF p = Dict!escape_symbol THEN out ELSE Append(out, p)
         /\ left' = IF p = Dict!escape_symbol THEN left ELSE left - 1
  BY DEF Dict!DecodeContext
<1>11. CASE ours.ctx[c][s] # 0
  <2>1. /\ DictCalls[e + 1] = <<[sym |-> s, table |-> ours.ctx[c]]>>
        /\ Len(DictCalls[e + 1]) = 1
    BY <1>4, <1>11
  <2>2. /\ stack # <<>> /\ stack[Len(stack)] = [sym |-> s, table |-> ours.ctx[c]]
        /\ Stacked(stack', DictCalls, e + 1, 0)
    <3>1. DictCalls[e + 1][Len(DictCalls[e + 1]) - 0] = [sym |-> s, table |-> ours.ctx[c]]
      BY <2>1
    <3>2. 0 + 1 = Len(DictCalls[e + 1]) /\ 0 < Len(DictCalls[e + 1]) /\ 0 \in Nat BY <2>1
    <3>3. e \in Nat /\ e < Len(DictCalls) BY <1>2, <1>6
    <3> QED BY <3>1, <3>2, <3>3, <1>3, <1>8, PopEntry
  <2>3. p = s BY <2>2, <1>3, <1>10 DEF Dict!Popped, Dict!Top
  <2>4. fell' = FALSE /\ out' = Append(out, s) /\ left' = left - 1 BY <2>3, <1>2, <1>10
  <2>5. DictEscapes[e + 1] = <<>>
    BY <1>2, <1>5, <1>11 DEF DictEscapes, DictEscaped, s
  <2>6. Stacked(UnreadEscapes, DictEscapes, e + 1, 0)
    <3>1. Len(DictEscapes[e + 1]) = 0 BY <2>5
    <3> QED BY <3>1, <1>2, <1>3, <1>6, PassPart
  <2>7. left' \in 0 .. Len(lz) /\ Len(lz) - left' = e + 1
    BY <2>4, <1>1, <1>2 DEF e, DictInv, DictTypes
  <2>8. DictTypes'
    <3>1. /\ lz' \in Seq(0 .. DictFlag)
          /\ (\E t \in Trainings : ours = Dict!train(t))'
          /\ (\E t \in Trainings : theirs = Dict!train(t))'
      BY <1>7, DictReads DEF DictInv, Dict!givenVars
    <3>2. (escape_pos \in 0 .. Len(escapes))' /\ at' \in 0 .. Len(lz)' /\ left' \in 0 .. Len(lz)'
      BY <1>7, <2>7 DEF DictInv, DictTypes
    <3>3. out' \in Seq(0 .. DictFlag) /\ escapes' \in Seq(0 .. DictFlag) /\ fell' \in BOOLEAN
      BY <2>4, <1>2, <1>7 DEF DictInv, DictTypes
    <3>4. phase' \in {"encode", "check", "decode", "done", "rejected"} BY <1>7 DEF DictInv, DictTypes
    <3> QED BY <3>1, <3>2, <3>3, <3>4 DEF DictTypes
  <2>9. DictDecoding'
    BY <2>2, <2>4, <2>6, <2>7, <1>2, <1>3, <1>7, <1>9 DEF DictDecoding
  <2> QED BY <2>4, <2>8, <2>9, <1>1, <1>7 DEF DictInv, DictEncoding, DictChecking
<1>12. CASE ours.ctx[c][s] = 0
  <2>1. /\ DictCalls[e + 1] = <<Dict!OrderCall(s), [sym |-> Dict!escape_symbol, table |-> ours.ctx[c]]>>
        /\ Len(DictCalls[e + 1]) = 2
    BY <1>4, <1>12
  <2>2. /\ stack # <<>> /\ stack[Len(stack)] = [sym |-> Dict!escape_symbol, table |-> ours.ctx[c]]
        /\ Stacked(stack', DictCalls, e, 1)
    <3>1. DictCalls[e + 1][Len(DictCalls[e + 1]) - 0] = [sym |-> Dict!escape_symbol, table |-> ours.ctx[c]]
      BY <2>1
    <3>2. 0 + 1 < Len(DictCalls[e + 1]) /\ 0 < Len(DictCalls[e + 1]) /\ 0 + 1 = 1 BY <2>1
    <3> QED BY <3>1, <3>2, <1>2, <1>3, <1>6, <1>8, PopEntry
  <2>3. p = Dict!escape_symbol BY <2>2, <1>3, <1>10 DEF Dict!Popped, Dict!Top
  <2>4. fell' = TRUE /\ out' = out /\ left' = left BY <2>3, <1>10
  <2>5. DictTypes' BY <2>4, <1>7 DEF DictInv, DictTypes
  <2>6. (Dict!HasContext(ours, out) /\ Dict!Falls(lz[Len(out) + 1], out))'
    <3>1. Dict!HasContext(ours, out) /\ Dict!Falls(lz[Len(out) + 1], out)
      BY <1>1, <1>2, <1>3, <1>5, <1>12 DEF s
    <3> QED BY <3>1, <2>4, <1>7 DEF Dict!HasContext, Dict!Falls
  <2>7. DictDecoding'
    BY <2>2, <2>4, <2>6, <1>3, <1>7, <1>9 DEF DictDecoding, e
  <2> QED BY <2>4, <2>5, <2>7, <1>1, <1>7 DEF DictInv, DictEncoding, DictChecking
<1> QED BY <1>11, <1>12

\* The call under the fallback table, after an escape or without a context.
LEMMA DictFallsBack ==
  ASSUME DictInv, Dict!DecodeOrder
  PROVE  DictInv'
<1> DEFINE e == Len(lz) - left
           s == lz[e + 1]
           n == IF fell THEN 1 ELSE 0
<1>1. phase = "decode" /\ left > 0 /\ (fell \/ ~Dict!HasContext(theirs, out))
  BY DEF Dict!DecodeOrder, Dict!TriesContext
<1>2. /\ lz \in Seq(0 .. DictFlag) /\ Len(lz) \in Nat
      /\ e \in Nat /\ e < Len(lz) /\ e + 1 \in 1 .. Len(lz)
      /\ out = Before(e + 1) /\ Len(out) = e
      /\ s \in 0 .. DictFlag /\ s # Dict!escape_symbol
      /\ Append(out, s) = SubSeq(lz, 1, Len(lz) - (left - 1))
      /\ Append(out, s) \in Seq(0 .. DictFlag)
      /\ Len(lz) - (left - 1) = e + 1
  BY <1>1, DictNextToken
<1>0. left - 1 \in 0 .. Len(lz) /\ fell \in BOOLEAN
  BY <1>1, <1>2 DEF DictInv, DictTypes
<1> HIDE DEF e, s
<1>3. /\ ours = theirs
      /\ Stacked(stack, DictCalls, e, n) /\ Stacked(UnreadEscapes, DictEscapes, e, 0)
      /\ fell => Dict!HasContext(ours, out) /\ Dict!Falls(s, out)
  BY <1>1, <1>2 DEF DictInv, DictDecoding, e, s
<1>4. Dict!Falls(s, out) BY <1>1, <1>3 DEF Dict!Falls
<1> DEFINE call == [sym |-> IF Dict!InOrder(s) THEN s ELSE Dict!escape_symbol,
                    table |-> ours.order]
<1>5. /\ n \in Nat /\ n < Len(DictCalls[e + 1]) /\ n + 1 = Len(DictCalls[e + 1])
      /\ DictCalls[e + 1][Len(DictCalls[e + 1]) - n] = call
  <2>1. Dict!OrderCall(s) = call BY <1>2, DictCascade DEF s
  <2>2. CASE fell
    <3>1. Dict!HasContext(ours, out) /\ ours.ctx[Dict!Last(out)][s] = 0
      BY <2>2, <1>3 DEF Dict!Falls
    <3>2. DictCalls[e + 1] = <<Dict!OrderCall(s),
                               [sym |-> Dict!escape_symbol, table |-> ours.ctx[Dict!Last(out)]]>>
      BY <3>1, <1>2, DictCascade DEF s
    <3> QED BY <2>1, <2>2, <3>2
  <2>3. CASE ~fell
    <3>1. ~Dict!HasContext(ours, out) BY <2>3, <1>1, <1>3
    <3>2. DictCalls[e + 1] = <<Dict!OrderCall(s)>> BY <3>1, <1>2, DictCascade DEF s
    <3> QED BY <2>1, <2>3, <3>2
  <2> QED BY <2>2, <2>3
<1> HIDE DEF n, call
<1>6. Len(DictCalls) = Len(lz) /\ Len(DictEscapes) = Len(lz) BY <1>2, DictPartsTyped
<1>7. /\ UNCHANGED <<lz, ours, theirs, phase, at, escapes, sent>>
      /\ fell' = FALSE /\ left' = left - 1
  BY DEF Dict!DecodeOrder, Dict!givenVars, Dict!StillFell
<1>8. stack' = SubSeq(stack, 1, Len(stack) - 1)
  BY DEF Dict!DecodeOrder, Dict!Below
<1>9. DictCalls' = DictCalls /\ DictEscapes' = DictEscapes
  BY <1>7, DictPartsFixed
<1>10. PICK p \in Dict!Popped(stack, theirs.order) :
         \/ p # Dict!escape_symbol /\ out' = Append(out, p) /\ UNCHANGED escape_pos
         \/ /\ p = Dict!escape_symbol /\ escape_pos < Len(escapes)
            /\ out' = Append(out, escapes[escape_pos + 1]) /\ escape_pos' = escape_pos + 1
  BY DEF Dict!DecodeOrder
<1>11. stack # <<>> /\ stack[Len(stack)] = call /\ Stacked(stack', DictCalls, e + 1, 0)
  <2>1. e \in Nat /\ e < Len(DictCalls) BY <1>2, <1>6
  <2> QED BY <2>1, <1>3, <1>5, <1>8, PopEntry
<1>12. p = IF Dict!InOrder(s) THEN s ELSE Dict!escape_symbol
  BY <1>3, <1>10, <1>11 DEF Dict!Popped, Dict!Top, call
<1>13. DictEscapes[e + 1] = IF Dict!InOrder(s) THEN <<>> ELSE <<s>>
  BY <1>2, <1>4 DEF DictEscapes, DictEscaped, s
<1>14. /\ out' = Append(out, s) /\ escape_pos' \in 0 .. Len(escapes)
       /\ Stacked(SubSeq(Dict!Reverse(escapes), 1, Len(escapes) - escape_pos'),
                  DictEscapes, e + 1, 0)
  <2>0. escape_pos \in 0 .. Len(escapes) /\ escapes \in Seq(0 .. DictFlag) /\ Len(escapes) \in Nat
    BY DEF DictInv, DictTypes
  <2>1. CASE Dict!InOrder(s)
    <3>1. p = s BY <1>12, <2>1
    <3>2. out' = Append(out, s) /\ escape_pos' = escape_pos BY <3>1, <1>2, <1>10
    <3>3. Len(DictEscapes[e + 1]) = 0 BY <2>1, <1>13
    <3>4. Stacked(UnreadEscapes, DictEscapes, e + 1, 0) BY <3>3, <1>2, <1>3, <1>6, PassPart
    <3> QED BY <2>0, <3>2, <3>4 DEF UnreadEscapes
  <2>2. CASE ~Dict!InOrder(s)
    <3>1. p = Dict!escape_symbol BY <1>12, <2>2
    <3>2. /\ escape_pos < Len(escapes)
          /\ out' = Append(out, escapes[escape_pos + 1]) /\ escape_pos' = escape_pos + 1
      BY <3>1, <1>10
    <3>3. DictEscapes[e + 1] = <<s>> /\ Len(DictEscapes[e + 1]) = 1 /\ DictEscapes[e + 1][1] = s
      BY <2>2, <1>13
    <3> DEFINE m == Len(escapes) - escape_pos
               r == Dict!Reverse(escapes)
    <3>4. /\ r \in Seq(0 .. DictFlag) /\ Len(r) = Len(escapes)
          /\ \A i \in 1 .. Len(escapes) : r[i] = escapes[(Len(escapes) - i) + 1]
      <4>1. r = Reversed(escapes) BY DEF Dict!Reverse, Reversed
      <4> QED BY <4>1, <2>0, ReversedTwice
    <3> HIDE DEF r
    <3>5. m \in 1 .. Len(escapes) /\ (Len(escapes) - m) + 1 = escape_pos + 1
          /\ m - 1 = Len(escapes) - (escape_pos + 1) /\ m - 1 \in 0 .. m
      BY <2>0, <3>2
    <3>6. /\ Len(SubSeq(r, 1, m)) = m /\ SubSeq(r, 1, m)[m] = r[m]
          /\ SubSeq(SubSeq(r, 1, m), 1, m - 1) = SubSeq(r, 1, m - 1)
      <4>1. m \in 0 .. Len(r) /\ m - 1 \in 0 .. Len(r) /\ m \in 1 .. m BY <3>4, <3>5, <2>0
      <4> DEFINE u == SubSeq(r, 1, m)
      <4>2. u \in Seq(0 .. DictFlag) /\ Len(u) = m /\ \A i \in 1 .. m : u[i] = r[i]
        BY <4>1, <3>4, PrefixEntries
      <4> HIDE DEF u
      <4> DEFINE v == SubSeq(u, 1, m - 1)
                 w == SubSeq(r, 1, m - 1)
      <4>3. m - 1 \in 0 .. Len(u) BY <4>2, <3>5
      <4>4. v \in Seq(0 .. DictFlag) /\ Len(v) = m - 1 /\ \A i \in 1 .. (m - 1) : v[i] = u[i]
        BY <4>3, <4>2, PrefixEntries
      <4>5. w \in Seq(0 .. DictFlag) /\ Len(w) = m - 1 /\ \A i \in 1 .. (m - 1) : w[i] = r[i]
        BY <4>1, <3>4, PrefixEntries
      <4> HIDE DEF v, w
      <4>6. \A i \in 1 .. (m - 1) : v[i] = w[i]
        <5> TAKE i \in 1 .. (m - 1)
        <5>1. i \in 1 .. m BY <3>5, <2>0
        <5> QED BY <5>1, <4>2, <4>4, <4>5
      <4>7. v = w BY <4>4, <4>5, <4>6, SeqEqual
      <4> QED BY <4>1, <4>2, <4>7 DEF u, v, w
    <3>7. UnreadEscapes = SubSeq(r, 1, m) BY DEF UnreadEscapes, r
    <3>8. /\ UnreadEscapes[Len(UnreadEscapes)] = s
          /\ Stacked(SubSeq(UnreadEscapes, 1, Len(UnreadEscapes) - 1), DictEscapes, e + 1, 0)
      <4>1. /\ 0 \in Nat /\ 0 < Len(DictEscapes[e + 1]) /\ 0 + 1 = Len(DictEscapes[e + 1])
            /\ DictEscapes[e + 1][Len(DictEscapes[e + 1]) - 0] = s
        BY <3>3
      <4>2. e \in Nat /\ e < Len(DictEscapes) BY <1>2, <1>6
      <4> QED BY <4>1, <4>2, <1>3, PopEntry
    <3>9. s = escapes[escape_pos + 1] BY <3>4, <3>5, <3>6, <3>7, <3>8
    <3>10. Stacked(SubSeq(r, 1, Len(escapes) - escape_pos'), DictEscapes, e + 1, 0)
      BY <3>2, <3>5, <3>6, <3>7, <3>8
    <3> QED BY <2>0, <3>2, <3>9, <3>10 DEF r
  <2> QED BY <2>1, <2>2
<1>15. UnreadEscapes' = SubSeq(Dict!Reverse(escapes), 1, Len(escapes) - escape_pos')
  BY <1>7 DEF UnreadEscapes, Dict!Reverse
<1>16. DictTypes'
  <2>1. /\ lz' \in Seq(0 .. DictFlag)
        /\ (\E t \in Trainings : ours = Dict!train(t))'
        /\ (\E t \in Trainings : theirs = Dict!train(t))'
    BY <1>7, DictReads DEF DictInv, Dict!givenVars
  <2>2. (escape_pos \in 0 .. Len(escapes))' /\ at' \in 0 .. Len(lz)' /\ left' \in 0 .. Len(lz)'
    BY <1>0, <1>7, <1>14 DEF DictInv, DictTypes
  <2>3. out' \in Seq(0 .. DictFlag) /\ escapes' \in Seq(0 .. DictFlag) /\ fell' \in BOOLEAN
    BY <1>2, <1>7, <1>14 DEF DictInv, DictTypes
  <2>4. phase' \in {"encode", "check", "decode", "done", "rejected"} BY <1>7 DEF DictInv, DictTypes
  <2> QED BY <2>1, <2>2, <2>3, <2>4 DEF DictTypes
<1>17. DictDecoding'
  <2>1. Len(lz)' - left' = e + 1 /\ out' = SubSeq(lz', 1, Len(lz') - left')
    BY <1>2, <1>7, <1>14
  <2> QED BY <2>1, <1>3, <1>7, <1>9, <1>11, <1>14, <1>15 DEF DictDecoding
<1> QED BY <1>1, <1>7, <1>16, <1>17 DEF DictInv, DictEncoding, DictChecking

\* A step that changes nothing.
LEMMA DictStutters ==
  ASSUME DictInv,
         UNCHANGED <<lz, ours, theirs, phase, at, stack, escapes, sent, fell, left, escape_pos, out>>
  PROVE  DictInv'
<1>1. DictCalls' = DictCalls /\ DictEscapes' = DictEscapes /\ UnreadEscapes' = UnreadEscapes
  BY DictPartsFixed DEF UnreadEscapes, Dict!Reverse
<1>2. DictTypes' BY DEF DictInv, DictTypes
<1>3. DictEncoding' BY <1>1 DEF DictInv, DictEncoding
<1>4. DictChecking' BY <1>1 DEF DictInv, DictChecking, Dict!Reverse
<1>5. DictDecoding' BY <1>1 DEF DictInv, DictDecoding, Dict!HasContext, Dict!Falls
<1> QED BY <1>2, <1>3, <1>4, <1>5 DEF DictInv

\* Each step of the dictionary mode keeps the invariant.
LEMMA DictSteps == DictInv /\ (Dict!Next \/ UNCHANGED vars) => DictInv'
<1> SUFFICES ASSUME DictInv, Dict!Next \/ UNCHANGED vars PROVE DictInv' OBVIOUS
<1>1. CASE Dict!EncodeToken BY <1>1, DictEncodes
<1>2. CASE Dict!WriteStream BY <1>2, DictWrites
<1>3. CASE Dict!Reject BY <1>3, DictRejects
<1>4. CASE Dict!Accept BY <1>4, DictAccepts
<1>5. CASE Dict!DecodeContext BY <1>5, DictTriesContext
<1>6. CASE Dict!DecodeOrder BY <1>6, DictFallsBack
<1>7. CASE Dict!EndDecode BY <1>7, DictEnds
<1>8. CASE UNCHANGED vars BY <1>8, DictStutters DEF vars, shared_vars, dict_vars
<1> QED BY <1>1, <1>2, <1>3, <1>4, <1>5, <1>6, <1>7, <1>8
        DEF Dict!Next, Dict!EncodeNext, Dict!DecodeNext

\* What the invariant says of the properties.
LEMMA DictSafe ==
  ASSUME DictInv
  PROVE  Dict!InSync /\ Dict!TypeOK /\ (phase = "done" => out = lz)
<1>0. lz \in Seq(0 .. DictFlag) /\ Len(lz) \in Nat /\ left \in 0 .. Len(lz)
      /\ escapes \in Seq(0 .. DictFlag) /\ escape_pos \in 0 .. Len(escapes) /\ Len(escapes) \in Nat
  BY DEF DictInv, DictTypes
<1>1. ASSUME phase = "decode", left > 0
      PROVE  /\ stack # <<>>
             /\ Dict!Top(stack).table = IF Dict!TriesContext THEN theirs.ctx[Dict!Last(out)] ELSE theirs.order
  <2> DEFINE e == Len(lz) - left
             s == lz[e + 1]
             c == Dict!Last(out)
             n == IF fell THEN 1 ELSE 0
  <2>1. e \in Nat /\ e < Len(lz) /\ e + 1 \in 1 .. Len(lz) /\ out = Before(e + 1) /\ Len(out) = e
    BY <1>1, DictNextToken
  <2> HIDE DEF e, s
  <2>2. /\ ours = theirs /\ Stacked(stack, DictCalls, e, n)
        /\ fell => Dict!HasContext(ours, out) /\ Dict!Falls(s, out)
    BY <1>1, <2>1 DEF DictInv, DictDecoding, e, s
  <2>3. Len(DictCalls) = Len(lz) BY <1>0, DictPartsTyped
  <2>4. /\ n \in Nat /\ n < Len(DictCalls[e + 1])
        /\ DictCalls[e + 1][Len(DictCalls[e + 1]) - n].table =
             IF ~fell /\ Dict!HasContext(ours, out) THEN ours.ctx[c] ELSE ours.order
    <3>1. Dict!OrderCall(s).table = ours.order BY DEF Dict!OrderCall, Dict!Call
    <3>2. DictCalls[e + 1] =
            IF ~Dict!HasContext(ours, out) THEN <<Dict!OrderCall(s)>>
            ELSE IF ours.ctx[c][s] # 0 THEN <<[sym |-> s, table |-> ours.ctx[c]]>>
            ELSE <<Dict!OrderCall(s), [sym |-> Dict!escape_symbol, table |-> ours.ctx[c]]>>
      BY <1>0, <2>1, DictCascade DEF s
    <3>3. CASE fell
      <4>1. Dict!HasContext(ours, out) /\ ours.ctx[c][s] = 0 BY <3>3, <2>2 DEF Dict!Falls
      <4>2. DictCalls[e + 1] = <<Dict!OrderCall(s), [sym |-> Dict!escape_symbol, table |-> ours.ctx[c]]>>
        BY <3>2, <4>1
      <4> QED BY <4>2, <3>1, <3>3
    <3>4. CASE ~fell /\ ~Dict!HasContext(ours, out) BY <3>1, <3>2, <3>4
    <3>5. CASE ~fell /\ Dict!HasContext(ours, out)
      <4>1. CASE ours.ctx[c][s] # 0 BY <4>1, <3>2, <3>5
      <4>2. CASE ours.ctx[c][s] = 0
        <5>1. DictCalls[e + 1] = <<Dict!OrderCall(s), [sym |-> Dict!escape_symbol, table |-> ours.ctx[c]]>>
          BY <4>2, <3>2, <3>5
        <5> QED BY <5>1, <3>5
      <4> QED BY <4>1, <4>2
    <3> QED BY <3>3, <3>4, <3>5
  <2> HIDE DEF n
  <2>5. stack # <<>> /\ stack[Len(stack)] = DictCalls[e + 1][Len(DictCalls[e + 1]) - n]
    <3>1. e \in Nat /\ e < Len(DictCalls) BY <2>1, <2>3
    <3> QED BY <3>1, <2>2, <2>4, PopEntry
  <2> QED BY <2>2, <2>4, <2>5 DEF Dict!Top, Dict!TriesContext
<1>2. ASSUME phase = "done"
      PROVE  stack = <<>> /\ escape_pos = Len(escapes) /\ out = lz
  <2>1. /\ left = 0 /\ ~fell /\ out = SubSeq(lz, 1, Len(lz) - left)
        /\ Stacked(stack, DictCalls, Len(lz) - left, 0) /\ Stacked(UnreadEscapes, DictEscapes, Len(lz) - left, 0)
    BY <1>2 DEF DictInv, DictDecoding
  <2>2. Len(lz) - left = Len(lz) /\ Len(DictCalls) = Len(lz) /\ Len(DictEscapes) = Len(lz)
    BY <2>1, <1>0, DictPartsTyped
  <2>3. stack = <<>> /\ UnreadEscapes = <<>> BY <2>1, <2>2, AllPopped
  <2>4. Len(escapes) - escape_pos = 0
    <3> DEFINE r == Dict!Reverse(escapes)
    <3>1. r \in Seq(0 .. DictFlag) /\ Len(r) = Len(escapes)
      <4>1. r = Reversed(escapes) BY DEF Dict!Reverse, Reversed
      <4> QED BY <4>1, <1>0, ReversedTwice
    <3>2. Len(escapes) - escape_pos \in 0 .. Len(r) BY <3>1, <1>0
    <3>3. Len(UnreadEscapes) = Len(escapes) - escape_pos
      BY <3>1, <3>2, PrefixEntries DEF UnreadEscapes
    <3> QED BY <2>3, <3>3
  <2>5. out = lz BY <2>1, <2>2, <1>0, SubSeqFull
  <2> QED BY <2>3, <2>4, <2>5, <1>0
<1>3. Dict!InSync BY <1>1, <1>2 DEF Dict!InSync, Dict!TablesAgree, Dict!Consumed
<1>4. Dict!TypeOK
  <2>1. ASSUME phase \in {"decode", "done"} PROVE left + Len(out) = Len(lz)
    <3>1. out = SubSeq(lz, 1, Len(lz) - left) BY <2>1 DEF DictInv, DictDecoding
    <3>2. Len(lz) - left \in 0 .. Len(lz) BY <1>0
    <3>3. Len(out) = Len(lz) - left BY <1>0, <3>1, <3>2, PrefixEntries
    <3> QED BY <3>3, <1>0
  <2> QED BY <2>1 DEF DictInv, DictTypes, Dict!TypeOK
<1> QED BY <1>2, <1>3, <1>4

-----------------------------------------------------------------------------
\* The dictionary mode: its calls are accepted.

\* The calls of each token are accepted.
LEMMA DictCallsFit ==
  ASSUME NormalizeKeeps, SharesKeepOne, DictTypes, NEW e \in 1 .. Len(lz)
  PROVE  AllAccepted(DictCalls[e])
<1> DEFINE s == lz[e]
           c == Dict!Last(Before(e))
           order == Dict!OrderCall(s)
           straight == [sym |-> s, table |-> ours.ctx[c]]
           escape == [sym |-> Dict!escape_symbol, table |-> ours.ctx[c]]
<1>0. lz \in Seq(0 .. DictFlag) /\ DictFlag \in Nat BY ModesAssumption DEF DictTypes
<1>1. /\ Usable(ours.order) /\ \A k \in DOMAIN ours.ctx : Usable(ours.ctx[k])
  <2>1. PICK t \in Trainings : ours = Dict!train(t) BY DEF DictTypes
  <2> DEFINE d == Dict!train(t)
  <2>2. d = Dict!train(t) OBVIOUS
  <2> HIDE DEF d
  <2>3. Usable(d.order) /\ \A k \in DOMAIN d.ctx : Usable(d.ctx[k]) BY <2>2, TrainingFits
  <2> QED BY <2>1, <2>2, <2>3
<1>2. s \in Dict!Alphabet
  <2>1. s \in 0 .. DictFlag BY <1>0, ElementOfSeq
  <2> QED BY <2>1, <1>0 DEF Dict!Alphabet, Dict!escape_symbol
<1>3. /\ DictCalls[e] = IF ~Dict!HasContext(ours, Before(e)) THEN <<order>>
                        ELSE IF ours.ctx[c][s] # 0 THEN <<straight>> ELSE <<order, escape>>
      /\ order = [sym |-> IF Dict!InOrder(s) THEN s ELSE Dict!escape_symbol, table |-> ours.order]
  BY <1>0, DictCascade
<1> HIDE DEF s
<1>4. Accepted(order)
  <2>1. Dict!InOrder(s) => s \in Active(ours.order)
    BY <1>1, <1>2 DEF Dict!InOrder, Active, Usable
  <2> QED BY <2>1, <1>1, <1>3 DEF Accepted, Usable
<1>5. ASSUME Dict!HasContext(ours, Before(e))
      PROVE  Accepted(escape) /\ (ours.ctx[c][s] # 0 => Accepted(straight))
  <2> DEFINE u == ours.ctx[c]
  <2>1. Usable(u) BY <1>1, <1>5 DEF Dict!HasContext
  <2> HIDE DEF u
  <2>2. u[s] \in 0 .. RANS_M /\ RANS_M \in Nat BY <2>1, <1>2, CoderAssumption DEF Usable
  <2>3. u[s] # 0 => s \in Active(u) BY <2>1, <2>2, <1>2 DEF Usable, Active
  <2> QED BY <2>1, <2>3 DEF Accepted, Usable, u
<1> HIDE DEF order, straight, escape
<1>6. AllAccepted(<<order>>) BY <1>4, OneAccepted
<1>7. Accepted(straight) => AllAccepted(<<straight>>) BY OneAccepted
<1>8. Accepted(escape) => AllAccepted(<<order, escape>>) BY <1>4, OneAccepted
<1> QED BY <1>3, <1>5, <1>6, <1>7, <1>8

\* So all that is on the stack is accepted.
LEMMA DictAcceptsCalls ==
  ASSUME NormalizeKeeps, SharesKeepOne, DictInv
  PROVE  Encodable(stack)
<1>0. /\ lz \in Seq(0 .. DictFlag) /\ at \in 0 .. Len(lz) /\ left \in 0 .. Len(lz) /\ Len(lz) \in Nat
      /\ phase \in {"encode", "check", "decode", "done", "rejected"} /\ DictTypes
  BY DEF DictInv, DictTypes
<1>1. \A e \in 1 .. Len(lz) : AllAccepted(DictCalls[e]) BY <1>0, DictCallsFit
<1>2. Len(DictCalls) = Len(lz) BY <1>0, DictPartsTyped
<1>3. \E e \in 0 .. Len(lz), c \in Nat : Stacked(stack, DictCalls, e, c)
  <2>1. CASE phase = "encode" BY <2>1, <1>0 DEF DictInv, DictEncoding
  <2>2. CASE phase \in {"check", "rejected"} BY <2>2, <1>0 DEF DictInv, DictChecking
  <2>3. CASE phase \in {"decode", "done"}
    <3>1. Stacked(stack, DictCalls, Len(lz) - left, IF fell THEN 1 ELSE 0)
      BY <2>3 DEF DictInv, DictDecoding
    <3>2. Len(lz) - left \in 0 .. Len(lz) /\ (IF fell THEN 1 ELSE 0) \in Nat BY <1>0
    <3> QED BY <3>1, <3>2
  <2> QED BY <2>1, <2>2, <2>3, <1>0
<1>4. AllAccepted(stack) BY <1>1, <1>2, <1>3, StackedAccepted
<1> QED BY <1>4 DEF Encodable, AllAccepted, Accepted

-----------------------------------------------------------------------------
\* The theorems.

\* The invariants of the modes that are proved about.
ModesInv ==
  /\ mode \in {"static", "adaptive", "ppm", "dict", "raw"}
  /\ mode = "static" => StaticInv
  /\ mode = "adaptive" => AdaptiveInv
  /\ mode = "ppm" => PpmInv
  /\ mode = "dict" => DictInv

\* The invariants hold initially.
LEMMA ModesInit == Init => ModesInv
<1> SUFFICES ASSUME Init PROVE ModesInv OBVIOUS
<1>1. CASE mode = "static"
  <2>1. Static!Init BY <1>1 DEF Init
  <2> QED BY <2>1, <1>1, StaticInit DEF ModesInv
<1>2. CASE mode = "dict"
  <2>1. Dict!Init BY <1>2 DEF Init
  <2> QED BY <2>1, <1>2, DictInit DEF ModesInv
<1>3. CASE mode = "adaptive"
  <2>1. Adaptive!Init BY <1>3 DEF Init
  <2> QED BY <2>1, <1>3, AdaptiveInit DEF ModesInv
<1>4. CASE mode = "ppm"
  <2>1. Ppm!Init BY <1>4 DEF Init
  <2> QED BY <2>1, <1>4, PpmInit DEF ModesInv
<1>5. mode \in {"static", "adaptive", "ppm", "dict", "raw"} BY DEF Init
<1> QED BY <1>1, <1>2, <1>3, <1>4, <1>5 DEF ModesInv

\* Each step keeps the invariants.
LEMMA ModesSteps == NormalizeKeeps /\ ModesInv /\ [Next]_vars => ModesInv' /\ NormalizeKeeps'
<1> SUFFICES ASSUME NormalizeKeeps, ModesInv, [Next]_vars PROVE ModesInv' /\ NormalizeKeeps' OBVIOUS
<1>1. mode' = mode BY DEF Next, vars
<1>2. mode = "static" => Static!Next \/ UNCHANGED vars BY DEF Next
<1>3. mode = "dict" => Dict!Next \/ UNCHANGED vars BY DEF Next
<1>4. mode = "adaptive" => Adaptive!Next \/ UNCHANGED vars BY DEF Next
<1>5. mode = "ppm" => Ppm!Next \/ UNCHANGED vars BY DEF Next
<1>6. NormalizeKeeps' BY DEF NormalizeKeeps, Normalizes, Active
<1> QED BY <1>1, <1>2, <1>3, <1>4, <1>5, <1>6, StaticSteps, AdaptiveSteps, PpmSteps, DictSteps DEF ModesInv

\* The dictionary mode needs nothing of Normalize: its tables are trained.
LEMMA DictInvariant == Spec => [](mode = "dict" => DictInv)
<1>1. Init => (mode = "dict" => DictInv)
  BY ModesInit DEF ModesInv
<1>2. (mode = "dict" => DictInv) /\ [Next]_vars => (mode = "dict" => DictInv)'
  <2> SUFFICES ASSUME mode = "dict" => DictInv, [Next]_vars, mode' = "dict" PROVE DictInv' OBVIOUS
  <2>1. mode' = mode BY DEF Next, vars
  <2>2. Dict!Next \/ UNCHANGED vars BY <2>1 DEF Next
  <2> QED BY <2>1, <2>2, DictSteps
<1> QED BY <1>1, <1>2, PTL DEF Spec

\* The invariants are invariants, given what Normalize promises.
LEMMA ModesInvariant == NormalizeKeeps /\ Spec => []ModesInv
BY ModesInit, ModesSteps, PTL DEF Spec

(***************************************************************************)
(* In every mode with an entropy coder, split or not: at every call the    *)
(* decoder presents the table the symbol was encoded under, whatever chunk *)
(* boundary, snapshot, context or escape lies between the two, and at the  *)
(* end it has taken the whole stack and the whole escape list, for every   *)
(* list of tokens.                                                         *)
(***************************************************************************)
THEOREM ModesInSync == NormalizeKeeps /\ Spec => [](mode \in {"static", "adaptive", "ppm", "dict"} => InSync)
<1>1. ModesInv => (mode \in {"static", "adaptive", "ppm", "dict"} => InSync)
  BY StaticSafe, AdaptiveSafe, PpmSafe, DictSafe DEF ModesInv, InSync
<1> QED BY <1>1, ModesInvariant, PTL

(***************************************************************************)
(* In every mode with an entropy coder, every call the encoder makes is    *)
(* one the coder accepts: a symbol with a frequency, in a table of at most *)
(* RANS_M of them, however many symbols the record has, whatever the       *)
(* earlier chunks counted, in whichever context, and whatever a dictionary *)
(* was trained on.                                                         *)
(***************************************************************************)
THEOREM ModesAccepted == NormalizeKeeps /\ SharesKeepOne /\ Spec => []CallsAccepted
<1>1. NormalizeKeeps /\ SharesKeepOne /\ ModesInv => CallsAccepted
  BY StaticSafe, AdaptiveSafe, PpmAccepts, DictAcceptsCalls DEF ModesInv, CallsAccepted
<1>2. NormalizeKeeps => NormalizeKeeps' BY DEF NormalizeKeeps, Normalizes, Active
<1>3. SharesKeepOne => SharesKeepOne' BY DEF SharesKeepOne
<1> QED BY <1>1, <1>2, <1>3, ModesInvariant, PTL

(***************************************************************************)
(* A finished decode has delivered the LZ tokens the encoder was given.    *)
(***************************************************************************)
THEOREM ModesLossless ==
  NormalizeKeeps /\ Spec => [](mode \in {"static", "adaptive", "ppm", "dict"} /\ phase = "done" => out = lz)
<1>1. ModesInv => (mode \in {"static", "adaptive", "ppm", "dict"} /\ phase = "done" => out = lz)
  BY StaticSafe, AdaptiveSafe, PpmSafe, DictSafe DEF ModesInv
<1> QED BY <1>1, ModesInvariant, PTL

(***************************************************************************)
(* The dictionary mode, whatever the trainings on the two sides were: the  *)
(* types hold, no list is overrun, and a dictionary that is not refused    *)
(* keeps encoder and decoder in step.                                      *)
(***************************************************************************)
THEOREM DictTheorem == Spec => [](mode = "dict" => TypeOK /\ InSync)
<1>1. (mode = "dict" => DictInv) => (mode = "dict" => TypeOK /\ InSync)
  BY DictSafe DEF TypeOK, InSync
<1> QED BY <1>1, DictInvariant, PTL

=============================================================================
