----------------------------- MODULE RansProofs -----------------------------
(***************************************************************************)
(* Proofs about Rans, for every alphabet and every set of tables that tile *)
(* their range, every table size, scale and word size that RansAssumption  *)
(* allows (the code's 2^16, 16 and 2^16 among them).                       *)
(***************************************************************************)
EXTENDS Rans, SequenceTheorems, TLAPS

-----------------------------------------------------------------------------
\* Arithmetic.

LEMMA DivFacts ==
  ASSUME NEW x \in Nat, NEW d \in Nat, d > 0
  PROVE  /\ x \div d \in Nat /\ x % d \in Nat /\ x % d < d
         /\ x = d * (x \div d) + (x % d)
OBVIOUS

\* Quotient and remainder are the only pair that fits.
LEMMA DivUnique ==
  ASSUME NEW d \in Nat, d > 0, NEW q \in Nat, NEW r \in Nat, r < d
  PROVE  (q * d + r) \div d = q /\ (q * d + r) % d = r
OBVIOUS

LEMMA QuotientAtLeast ==
  ASSUME NEW x \in Nat, NEW d \in Nat, d > 0, NEW n \in Nat, n * d <= x
  PROVE  n <= x \div d
OBVIOUS

LEMMA QuotientBelow ==
  ASSUME NEW x \in Nat, NEW d \in Nat, d > 0, NEW n \in Nat, x < n * d
  PROVE  x \div d < n
OBVIOUS

LEMMA MulMono ==
  ASSUME NEW a \in Nat, NEW b \in Nat, NEW n \in Nat, a <= b
  PROVE  n * a <= n * b /\ a * n <= b * n
OBVIOUS

LEMMA Sizes ==
  /\ RANS_M \in Nat /\ RANS_M > 0 /\ Scale \in Nat /\ Scale > 0 /\ Word \in Nat /\ Word >= 2
  /\ RANS_L \in Nat /\ RANS_L > 0 /\ RANS_L * Word \in Nat /\ RANS_L * Word <= Width
  /\ RANS_L < RANS_L * Word /\ Width \in Nat /\ Width > 0
  /\ RANS_L <= Scale * Word /\ RANS_L = Scale * RANS_M
<1>1. /\ RANS_M \in Nat /\ RANS_M > 0 /\ Scale \in Nat /\ Scale > 0
      /\ Word \in Nat /\ Word >= 2 /\ RANS_M <= Word
      /\ Width \in Nat /\ RANS_L * Word <= Width
  BY RansAssumption
<1>2. RANS_L = Scale * RANS_M /\ RANS_L \in Nat /\ RANS_L > 0
  BY <1>1 DEF RANS_L
<1>3. RANS_L * Word \in Nat /\ RANS_L < RANS_L * Word
  BY <1>1, <1>2
<1>4. RANS_L <= Scale * Word
  BY <1>1, <1>2, MulMono
<1> QED
  BY <1>1, <1>2, <1>3, <1>4

\* The update of encode_symbol, and that decode_symbol undoes it.
LEMMA UpdateInverse ==
  ASSUME NEW y \in Nat, NEW f \in Nat, f > 0, NEW c \in Nat, c + f <= RANS_M,
         Scale * f <= y, y < Scale * Word * f
  PROVE  /\ Encoded(y, f, c) \in Nat
         /\ RANS_L <= Encoded(y, f, c) /\ Encoded(y, f, c) < RANS_L * Word
         /\ c <= Encoded(y, f, c) % RANS_M /\ Encoded(y, f, c) % RANS_M < c + f
         /\ Decoded(Encoded(y, f, c), f, c) = y
<1> DEFINE q == y \div f
           r == y % f
           z == q * RANS_M + (r + c)
<1>1. q \in Nat /\ r \in Nat /\ r < f /\ y = f * q + r
  BY DivFacts
<1>2. Scale <= q
  BY Sizes, QuotientAtLeast
<1>3. q < Scale * Word
  <2>1. Scale * Word \in Nat
    BY Sizes
  <2> QED
    BY <2>1, QuotientBelow
<1> HIDE DEF q, r
<1>4. z \div RANS_M = q /\ z % RANS_M = r + c
  BY <1>1, Sizes, DivUnique
<1>5. z \in Nat /\ q * RANS_M <= z /\ z < (q + 1) * RANS_M
  BY <1>1, Sizes
<1>6. RANS_L <= z
  <2>1. Scale * RANS_M <= q * RANS_M
    BY <1>1, <1>2, Sizes, MulMono
  <2> QED
    BY <1>1, <1>5, <2>1, Sizes
<1>7. z < RANS_L * Word
  <2>1. q + 1 <= Scale * Word /\ Scale * Word \in Nat
    BY <1>1, <1>3, Sizes
  <2>2. (q + 1) * RANS_M <= (Scale * Word) * RANS_M
    BY <1>1, <2>1, Sizes, MulMono
  <2>3. (Scale * Word) * RANS_M = RANS_L * Word
    BY Sizes
  <2> QED
    BY <1>1, <1>5, <2>2, <2>3, Sizes
<1> HIDE DEF z
<1>8. Encoded(y, f, c) = z
  <2>1. z = (y \div f) * RANS_M + (y % f) + c
    BY <1>1, Sizes DEF z, q, r
  <2>2. z % Width = z
    BY <1>5, <1>7, Sizes
  <2> QED
    BY <2>1, <2>2 DEF Encoded
<1>9. Decoded(z, f, c) = y
  <2>1. f * (z \div RANS_M) + ((z % RANS_M) - c) = y
    BY <1>1, <1>4
  <2>2. y < RANS_L * Word
    <3>1. f <= RANS_M
      BY Sizes
    <3>2. (Scale * Word) * f <= (Scale * Word) * RANS_M
      BY <3>1, Sizes, MulMono
    <3>3. (Scale * Word) * RANS_M = RANS_L * Word
      BY Sizes
    <3>4. Scale * Word \in Nat /\ (Scale * Word) * f \in Nat
      BY Sizes
    <3> QED
      BY <3>2, <3>3, <3>4, Sizes
  <2>3. y % Width = y
    BY <2>2, Sizes
  <2> QED
    BY <2>1, <2>3 DEF Decoded
<1> QED
  BY <1>1, <1>4, <1>5, <1>6, <1>7, <1>8, <1>9

\* One turn of the renormalisation loop is enough, and leaves a state that
\* tells whether it ran.
LEMMA RenormFacts ==
  ASSUME NEW x \in Nat, RANS_L <= x, x < RANS_L * Word,
         NEW f \in Nat, f > 0, f <= RANS_M
  PROVE  /\ Scale * f <= x
         /\ x \div Word \in Nat /\ x \div Word < RANS_L
         /\ x \div Word < MaxState(f)
         /\ x >= MaxState(f) => Scale * f <= x \div Word
         /\ x % Word \in 0 .. (Word - 1)
         /\ (x \div Word) * Word + (x % Word) = x
<1>1. /\ x \div Word \in Nat /\ x % Word \in Nat /\ x % Word < Word
      /\ x = Word * (x \div Word) + (x % Word)
  BY Sizes, DivFacts
<1>2. Scale * f <= x
  <2>1. Scale * f <= Scale * RANS_M /\ Scale * f \in Nat
    BY Sizes, MulMono
  <2> QED
    BY <2>1, Sizes
<1>3. x \div Word < RANS_L
  BY Sizes, QuotientBelow
<1>4. MaxState(f) \in Nat /\ RANS_L <= MaxState(f)
  <2>1. Scale * Word \in Nat
    BY Sizes
  <2>2. Scale * Word <= (Scale * Word) * f /\ (Scale * Word) * f \in Nat
    BY <2>1
  <2> QED
    BY <2>1, <2>2, Sizes DEF MaxState
<1>5. ASSUME x >= MaxState(f) PROVE Scale * f <= x \div Word
  <2>1. (Scale * f) * Word <= x
    BY <1>5, Sizes DEF MaxState
  <2>2. Scale * f \in Nat
    BY Sizes
  <2> QED
    BY <2>1, <2>2, Sizes, QuotientAtLeast
<1> QED
  BY <1>1, <1>2, <1>3, <1>4, <1>5, Sizes

\* find_symbol: the slots of a symbol's interval are its own.
LEMMA FindsSymbol ==
  ASSUME NEW t \in Tables, NEW s \in Symbols, NEW slot \in Nat,
         t.cum[s] <= slot, slot < t.cum[s] + t.freq[s]
  PROVE  FindSymbol(t, slot) = s
<1>1. /\ t.freq \in [Symbols -> Nat] /\ t.cum \in [Symbols -> Nat]
      /\ \A r, u \in Symbols :
           r # u /\ t.freq[r] > 0 /\ t.freq[u] > 0 =>
             t.cum[r] + t.freq[r] <= t.cum[u] \/ t.cum[u] + t.freq[u] <= t.cum[r]
  BY TablesAssumption
<1>2. ASSUME NEW r \in Symbols, t.cum[r] <= slot, slot < t.cum[r] + t.freq[r] PROVE r = s
  <2>1. t.freq[r] \in Nat /\ t.cum[r] \in Nat /\ t.freq[s] \in Nat /\ t.cum[s] \in Nat
    BY <1>1
  <2>2. t.freq[r] > 0 /\ t.freq[s] > 0
    BY <1>2, <2>1
  <2> QED
    BY <1>1, <1>2, <2>1, <2>2
<1> QED
  BY <1>2 DEF FindSymbol

-----------------------------------------------------------------------------
(***************************************************************************)
(* The inductive invariant.  The log is a chain: from the coder's position *)
(* after n calls, call n + 1 leads to the position log[n + 1] records, and *)
(* the one word it may have written is still in its place.  Inside a loop  *)
(* the coder is at a position, or one word short of it.                    *)
(***************************************************************************)

Position == [state : Nat, words : Nat]

\* The coder's position after the first n calls of the log l.
After(l, n) ==
  IF n = 0 THEN [state |-> RANS_L, words |-> 0]
           ELSE [state |-> l[n].state, words |-> l[n].words]

\* The state x and the words ws are at position p, or one word short of it.
IsAt(p, x, ws) == x = p.state /\ Len(ws) = p.words
IsShort(p, x, ws) ==
  /\ x = p.state \div Word
  /\ Len(ws) = p.words + 1 /\ ws[p.words + 1] = p.state % Word

Bounded(x) == RANS_L <= x /\ x < RANS_L * Word

\* Call e leads from position p to the position e records.
Link(p, e, ws) ==
  LET f == e.table.freq[e.sym]
      c == e.table.cum[e.sym]
  IN  /\ Active(e.table, e.sym)
      /\ \/ /\ p.state < MaxState(f)
            /\ e.state = Encoded(p.state, f, c)
            /\ e.words = p.words
         \/ /\ p.state >= MaxState(f)
            /\ e.state = Encoded(p.state \div Word, f, c)
            /\ e.words = p.words + 1
            /\ ws[p.words + 1] = p.state % Word

Chain(l, ws) ==
  /\ \A n \in 0 .. Len(l) :
       /\ Bounded(After(l, n).state)
       /\ n < Len(l) => Link(After(l, n), l[n + 1], ws)
  /\ \A m, n \in 0 .. Len(l) : m <= n => After(l, m).words <= After(l, n).words

Top == After(log, Len(log))

IInv ==
  /\ state \in Nat /\ words \in Seq(0 .. (Word - 1))
  /\ phase \in {"encode", "renorm", "decode", "refill"}
  /\ call \in Calls /\ log \in Seq(LogEntry) /\ popped \in Seq(Symbols)
  /\ Chain(log, words)
  /\ phase \in {"encode", "decode"} => IsAt(Top, state, words)
  /\ phase = "renorm" =>
       \/ IsAt(Top, state, words)
       \/ IsShort(Top, state, words) /\ Top.state >= MaxState(CallFreq)
  /\ phase = "refill" => IsAt(Top, state, words) \/ IsShort(Top, state, words)

LEMMA AfterTyped ==
  ASSUME NEW l \in Seq(LogEntry), NEW n \in 0 .. Len(l)
  PROVE  After(l, n) \in Position
<1>1. CASE n = 0
  BY <1>1, Sizes DEF After, Position
<1>2. CASE n # 0
  <2>1. l[n] \in LogEntry
    BY <1>2
  <2> QED
    BY <1>2, <2>1 DEF After, Position, LogEntry
<1> QED
  BY <1>1, <1>2

LEMMA CallFacts ==
  ASSUME NEW c \in Calls
  PROVE  /\ c.table \in Tables /\ c.sym \in Symbols
         /\ c.table.freq[c.sym] \in Nat /\ c.table.cum[c.sym] \in Nat
         /\ c.table.freq[c.sym] > 0
         /\ c.table.cum[c.sym] + c.table.freq[c.sym] <= RANS_M
         /\ c.table.freq[c.sym] <= RANS_M
<1>1. c.table \in Tables /\ c.sym \in Symbols /\ c.table.freq[c.sym] > 0
  BY DEF Calls, Active
<1>2. c.table.freq[c.sym] \in Nat /\ c.table.cum[c.sym] \in Nat
      /\ c.table.cum[c.sym] + c.table.freq[c.sym] <= RANS_M
  BY <1>1, TablesAssumption
<1> QED
  BY <1>1, <1>2, Sizes

\* A step that leaves log alone and does not shorten words below the top keeps
\* the chain.
LEMMA ChainKept ==
  ASSUME NEW l \in Seq(LogEntry), NEW v, NEW w, Chain(l, v),
         \A p \in 1 .. After(l, Len(l)).words : w[p] = v[p]
  PROVE  Chain(l, w)
<1> SUFFICES ASSUME NEW n \in 0 .. Len(l), n < Len(l)
             PROVE  Link(After(l, n), l[n + 1], w)
  BY DEF Chain
<1>1. Len(l) \in Nat /\ n + 1 \in 0 .. Len(l)
  OBVIOUS
<1>2. Link(After(l, n), l[n + 1], v) /\ After(l, n + 1).words <= After(l, Len(l)).words
  BY <1>1 DEF Chain
<1>3. After(l, n + 1).words = l[n + 1].words
  BY <1>1 DEF After
<1>4. After(l, n).words \in Nat /\ After(l, Len(l)).words \in Nat
  BY <1>1, AfterTyped DEF Position
<1>5. CASE l[n + 1].words = After(l, n).words + 1
  <2>1. After(l, n).words + 1 \in 1 .. After(l, Len(l)).words
    BY <1>2, <1>3, <1>4, <1>5
  <2> QED
    BY <1>2, <2>1 DEF Link
<1>6. CASE l[n + 1].words # After(l, n).words + 1
  BY <1>2, <1>6 DEF Link
<1> QED
  BY <1>5, <1>6

\* A call that leads from the top of the chain extends it.
LEMMA ChainGrows ==
  ASSUME NEW l \in Seq(LogEntry), NEW w, Chain(l, w), NEW e \in LogEntry,
         Link(After(l, Len(l)), e, w), Bounded(e.state)
  PROVE  /\ Chain(Append(l, e), w)
         /\ After(Append(l, e), Len(l) + 1) = [state |-> e.state, words |-> e.words]
<1> DEFINE g == Append(l, e)
<1>1. /\ g \in Seq(LogEntry) /\ Len(g) = Len(l) + 1 /\ Len(l) \in Nat
      /\ g[Len(l) + 1] = e /\ \A n \in 1 .. Len(l) : g[n] = l[n]
  OBVIOUS
<1>2. \A n \in 0 .. Len(l) : After(g, n) = After(l, n)
  BY <1>1 DEF After
<1>3. After(g, Len(g)) = [state |-> e.state, words |-> e.words]
  BY <1>1 DEF After
<1>4. After(l, Len(l)).words \in Nat /\ e.words \in Nat
      /\ After(l, Len(l)).words <= e.words
  <2>1. After(l, Len(l)).words \in Nat /\ e.words \in Nat
    <3>1. Len(l) \in 0 .. Len(l)
      BY <1>1
    <3>2. After(l, Len(l)) \in Position
      BY <3>1, AfterTyped
    <3> QED
      BY <3>2 DEF Position, LogEntry
  <2> QED
    BY <2>1 DEF Link
<1>5. ASSUME NEW n \in 0 .. Len(g)
      PROVE  /\ Bounded(After(g, n).state)
             /\ n < Len(g) => Link(After(g, n), g[n + 1], w)
  <2>1. CASE n = Len(g)
    BY <1>1, <1>3, <2>1
  <2>2. CASE n = Len(l)
    BY <1>1, <1>2, <2>2 DEF Chain
  <2>3. CASE n < Len(l)
    <3>1. n \in 0 .. Len(l) /\ n + 1 \in 1 .. Len(l)
      BY <1>1, <2>3
    <3>2. Bounded(After(l, n).state) /\ Link(After(l, n), l[n + 1], w)
      BY <2>3, <3>1 DEF Chain
    <3> QED
      BY <1>1, <1>2, <3>1, <3>2
  <2> QED
    BY <1>1, <2>1, <2>2, <2>3
<1>6. ASSUME NEW m \in 0 .. Len(g), NEW n \in 0 .. Len(g), m <= n
      PROVE  After(g, m).words <= After(g, n).words
  <2>1. CASE m = Len(g)
    <3>1. m = n
      BY <1>1, <1>6, <2>1
    <3> QED
      BY <1>1, <1>3, <1>4, <2>1, <3>1
  <2>2. CASE m # Len(g) /\ n = Len(g)
    <3>1. m \in 0 .. Len(l) /\ m <= Len(l)
      BY <1>1, <2>2
    <3>2. After(l, m).words <= After(l, Len(l)).words /\ After(l, m).words \in Nat
      BY <1>1, <3>1, AfterTyped DEF Chain, Position
    <3> QED
      BY <1>2, <1>3, <1>4, <2>2, <3>1, <3>2
  <2>3. CASE m # Len(g) /\ n # Len(g)
    <3>1. m \in 0 .. Len(l) /\ n \in 0 .. Len(l)
      BY <1>1, <2>3
    <3> QED
      BY <1>2, <1>6, <3>1 DEF Chain
  <2> QED
    BY <2>1, <2>2, <2>3
<1> QED
  BY <1>1, <1>3, <1>5, <1>6 DEF Chain

\* Taking the last call off leaves a chain.
LEMMA ChainShrinks ==
  ASSUME NEW l \in Seq(LogEntry), l # <<>>, NEW w, Chain(l, w)
  PROVE  LET g == SubSeq(l, 1, Len(l) - 1)
         IN  /\ g \in Seq(LogEntry) /\ Len(g) = Len(l) - 1
             /\ Chain(g, w)
             /\ After(g, Len(g)) = After(l, Len(l) - 1)
             /\ Link(After(g, Len(g)), l[Len(l)], w)
             /\ Bounded(After(g, Len(g)).state)
<1> DEFINE g == SubSeq(l, 1, Len(l) - 1)
           k == Len(l) - 1
<1>1. /\ Len(l) \in Nat /\ k \in Nat /\ k + 1 = Len(l)
      /\ g \in Seq(LogEntry) /\ Len(g) = k
      /\ \A n \in 1 .. k : g[n] = l[n]
  <2>1. Len(l) \in Nat /\ Len(l) # 0
    BY EmptySeq
  <2>2. k \in Nat /\ k + 1 = Len(l) /\ k <= Len(l)
    BY <2>1
  <2>3. \A n \in 1 .. k : l[n] \in LogEntry
    BY <2>2
  <2> QED
    BY <2>1, <2>2, <2>3
<1>2. \A n \in 0 .. k : After(g, n) = After(l, n)
  BY <1>1 DEF After
<1>3. Chain(g, w)
  <2>1. ASSUME NEW n \in 0 .. k, n < k PROVE Link(After(g, n), g[n + 1], w)
    <3>1. n \in 0 .. Len(l) /\ n < Len(l) /\ n + 1 \in 1 .. k
      BY <1>1, <2>1
    <3> QED
      BY <1>1, <1>2, <3>1 DEF Chain
  <2>2. \A n \in 0 .. k : n \in 0 .. Len(l)
    BY <1>1
  <2> QED
    BY <1>1, <1>2, <2>1, <2>2 DEF Chain
<1>4. Link(After(l, k), l[Len(l)], w) /\ Bounded(After(l, k).state)
  <2>1. k \in 0 .. Len(l) /\ k < Len(l)
    BY <1>1
  <2> QED
    BY <1>1, <2>1 DEF Chain
<1> QED
  BY <1>1, <1>2, <1>3, <1>4

LEMMA PrefixFacts ==
  ASSUME NEW S, NEW s \in Seq(S), NEW n \in 0 .. Len(s)
  PROVE  /\ SubSeq(s, 1, n) \in Seq(S) /\ Len(SubSeq(s, 1, n)) = n
         /\ \A p \in 1 .. n : SubSeq(s, 1, n)[p] = s[p]
<1>1. \A p \in 1 .. n : s[p] \in S
  OBVIOUS
<1> QED
  BY <1>1

LEMMA MaskIdle ==
  ASSUME NEW x \in Nat, x < RANS_L * Word
  PROVE  x % Width = x
BY Sizes

LEMMA MaxStateTyped == ASSUME NEW f \in Nat PROVE MaxState(f) \in Nat
BY Sizes DEF MaxState

LEMMA TopFacts ==
  ASSUME IInv
  PROVE  /\ Top.state \in Nat /\ Top.words \in Nat /\ Bounded(Top.state)
         /\ Len(log) \in Nat /\ Len(words) \in Nat
<1>1. log \in Seq(LogEntry) /\ Len(log) \in 0 .. Len(log) /\ Len(words) \in Nat
  BY DEF IInv
<1>2. Top \in Position
  BY <1>1, AfterTyped DEF Top
<1>3. Bounded(Top.state)
  BY <1>1 DEF IInv, Chain, Top
<1> QED
  BY <1>1, <1>2, <1>3 DEF Position

LEMMA IInit == Init => IInv
<1> SUFFICES ASSUME Init PROVE IInv
  OBVIOUS
<1>1. /\ log = <<>> /\ words = <<>> /\ log \in Seq(LogEntry) /\ Len(log) = 0 /\ Len(words) = 0
      /\ state = RANS_L /\ phase = "encode" /\ call \in Calls /\ popped \in Seq(Symbols)
  BY DEF Init
<1>2. After(log, 0) = [state |-> RANS_L, words |-> 0]
  BY DEF After
<1>3. Bounded(RANS_L)
  BY Sizes DEF Bounded
<1>4. Chain(log, words)
  BY <1>1, <1>2, <1>3 DEF Chain
<1> QED
  BY <1>1, <1>2, <1>4, Sizes DEF IInv, IsAt, Top

\* A decode_symbol call keeps the invariant, and returns the symbol of the last
\* encode_symbol call that is not undone.
LEMMA DecodesTop ==
  ASSUME IInv, DecodeSymbol
  PROVE  IInv' /\ popped' = Append(popped, log[Len(log)].sym)
<1>0. /\ state \in Nat /\ words \in Seq(0 .. (Word - 1)) /\ Len(words) \in Nat
      /\ call \in Calls /\ log \in Seq(LogEntry) /\ Len(log) \in Nat
      /\ popped \in Seq(Symbols) /\ Chain(log, words)
  BY TopFacts DEF IInv, Bounded
<1> DEFINE g == SubSeq(log, 1, Len(log) - 1)
           e == log[Len(log)]
           p == After(g, Len(g))
           fe == e.table.freq[e.sym]
           ce == e.table.cum[e.sym]
<1>1. /\ phase = "decode" /\ phase' = "refill" /\ log # <<>> /\ log' = g
      /\ words' = words /\ call' = call
  BY DEF DecodeSymbol
<1>2. /\ g \in Seq(LogEntry) /\ Chain(g, words) /\ Link(p, e, words) /\ Bounded(p.state)
      /\ Len(g) \in Nat
  BY <1>0, <1>1, ChainShrinks
<1>3. e \in LogEntry /\ Len(log) # 0
  BY <1>0, <1>1, EmptySeq
<1>4. state = e.state /\ Len(words) = e.words
  BY <1>1, <1>3 DEF IInv, IsAt, Top, After
<1>5. /\ p.state \in Nat /\ p.words \in Nat /\ RANS_L <= p.state /\ p.state < RANS_L * Word
  <2>1. p \in Position
    <3>1. Len(g) \in 0 .. Len(g)
      BY <1>2
    <3> HIDE DEF g
    <3> QED
      BY <1>2, <3>1, AfterTyped
  <2> HIDE DEF p, g
  <2> QED
    BY <1>2, <2>1 DEF Position, Bounded
<1>6. /\ e.table \in Tables /\ e.sym \in Symbols /\ fe \in Nat /\ ce \in Nat
      /\ fe > 0 /\ ce + fe <= RANS_M /\ fe <= RANS_M
  <2>1. [table |-> e.table, sym |-> e.sym] \in Calls
    BY <1>2, <1>3 DEF Link, Calls, LogEntry, Active
  <2> QED
    BY <2>1, CallFacts
<1>7. /\ Scale * fe <= p.state /\ p.state \div Word \in Nat
      /\ p.state \div Word < MaxState(fe)
      /\ p.state >= MaxState(fe) => Scale * fe <= p.state \div Word
  BY <1>5, <1>6, RenormFacts
<1> HIDE DEF g, e, p, fe, ce
<1>8. PICK y \in Nat :
        /\ e.state = Encoded(y, fe, ce) /\ Scale * fe <= y /\ y < Scale * Word * fe
        /\ \/ y = p.state /\ e.words = p.words
           \/ /\ y = p.state \div Word /\ e.words = p.words + 1
              /\ words[p.words + 1] = p.state % Word
  <2>1. CASE p.state < MaxState(fe)
    BY <1>2, <1>5, <1>7, <2>1, Sizes DEF Link, MaxState, fe, ce
  <2>2. CASE p.state >= MaxState(fe)
    BY <1>2, <1>5, <1>7, <2>2, Sizes DEF Link, MaxState, fe, ce
  <2>3. MaxState(fe) \in Nat
    BY <1>6, Sizes DEF MaxState
  <2> QED
    BY <1>5, <2>1, <2>2, <2>3
<1>9. /\ ce <= state % RANS_M /\ state % RANS_M < ce + fe /\ Decoded(state, fe, ce) = y
      /\ state % RANS_M \in Nat
  BY <1>0, <1>4, <1>6, <1>8, UpdateInverse, Sizes, DivFacts
<1>10. FindSymbol(e.table, state % RANS_M) = e.sym
  BY <1>6, <1>9, FindsSymbol DEF fe, ce
<1>11. popped' = Append(popped, e.sym) /\ state' = y
  BY <1>9, <1>10 DEF DecodeSymbol, e, fe, ce
<1>12. Top' = p
  BY <1>1 DEF Top, p
<1>13. IsAt(p, y, words) \/ IsShort(p, y, words)
  BY <1>4, <1>8 DEF IsAt, IsShort
<1>14. IInv'
  BY <1>0, <1>1, <1>2, <1>6, <1>8, <1>11, <1>12, <1>13 DEF IInv
<1> QED
  BY <1>11, <1>14 DEF e

LEMMA IStep == IInv /\ [Next]_vars => IInv'
<1> SUFFICES ASSUME IInv, [Next]_vars PROVE IInv'
  OBVIOUS
<1>1. /\ state \in Nat /\ words \in Seq(0 .. (Word - 1)) /\ Len(words) \in Nat
      /\ call \in Calls /\ log \in Seq(LogEntry) /\ Len(log) \in Nat
      /\ popped \in Seq(Symbols) /\ Chain(log, words)
      /\ Top.state \in Nat /\ Top.words \in Nat /\ Bounded(Top.state)
      /\ RANS_L <= Top.state /\ Top.state < RANS_L * Word
  BY TopFacts DEF IInv, Bounded
<1> DEFINE f == CallFreq
           c == CallCum
<1>2. /\ f \in Nat /\ c \in Nat /\ f > 0 /\ f <= RANS_M /\ c + f <= RANS_M
      /\ call.table \in Tables /\ call.sym \in Symbols
  BY <1>1, CallFacts DEF CallFreq, CallCum
<1>3. CASE BeginEncode
  <2>1. phase = "encode" /\ phase' = "renorm" /\ call' \in Calls /\ state' = state
        /\ words' = words /\ log' = log /\ popped' = popped /\ Top' = Top
    BY <1>3 DEF BeginEncode, Top
  <2> QED
    BY <1>1, <2>1 DEF IInv, IsAt
<1>4. CASE EmitWord
  <2>1. /\ phase = "renorm" /\ phase' = "renorm" /\ state >= MaxState(f) /\ call' = call
        /\ words' = Append(words, state % Word) /\ state' = state \div Word
        /\ log' = log /\ popped' = popped /\ Top' = Top /\ CallFreq' = f
    BY <1>4 DEF EmitWord, Top, CallFreq
  <2>2. IsAt(Top, state, words)
    <3>1. Top.state \div Word < MaxState(f) /\ Top.state \div Word \in Nat
      BY <1>1, <1>2, RenormFacts
    <3>2. MaxState(f) \in Nat
      BY <1>2, MaxStateTyped
    <3>3. ~IsShort(Top, state, words)
      BY <2>1, <3>1, <3>2 DEF IsShort
    <3> QED
      BY <2>1, <3>3 DEF IInv
  <2>3. state % Word \in 0 .. (Word - 1) /\ state \div Word \in Nat
    <3>1. state \in Nat
      BY <1>1
    <3>2. Word \in Nat /\ Word > 0
      BY Sizes
    <3>3. state % Word \in Nat /\ state % Word < Word /\ state \div Word \in Nat
      BY <3>1, <3>2, DivFacts
    <3> QED
      BY <3>2, <3>3
  <2>4. /\ words' \in Seq(0 .. (Word - 1)) /\ Len(words') = Top.words + 1
        /\ words'[Top.words + 1] = Top.state % Word
        /\ \A p \in 1 .. Top.words : words'[p] = words[p]
    BY <1>1, <2>1, <2>2, <2>3 DEF IsAt
  <2>5. Chain(log, words')
    BY <1>1, <2>4, ChainKept DEF Top
  <2>6. IsShort(Top, state', words') /\ Top.state >= MaxState(f)
    BY <2>1, <2>2, <2>4 DEF IsShort, IsAt
  <2> QED
    BY <1>1, <2>1, <2>3, <2>4, <2>5, <2>6 DEF IInv
<1>5. CASE EndEncode
  <2> DEFINE e == [table |-> call.table, sym |-> call.sym,
                   state |-> Encoded(state, f, c), words |-> Len(words)]
  <2>1. /\ phase = "renorm" /\ phase' = "encode" /\ state < MaxState(f) /\ call' = call
        /\ state' = Encoded(state, f, c) /\ log' = Append(log, e)
        /\ words' = words /\ popped' = popped
    BY <1>5 DEF EndEncode
  <2>2. /\ Scale * f <= Top.state /\ Top.state \div Word \in Nat
        /\ Top.state >= MaxState(f) => Scale * f <= Top.state \div Word
    BY <1>1, <1>2, RenormFacts
  <2>5. ASSUME Encoded(state, f, c) \in Nat, Bounded(Encoded(state, f, c)), Link(Top, e, words)
        PROVE  IInv'
    <3>1. e \in LogEntry /\ Bounded(e.state)
      BY <1>1, <1>2, <2>5 DEF LogEntry
    <3> HIDE DEF e
    <3>2. /\ Chain(log', words) /\ log' \in Seq(LogEntry) /\ Len(log') = Len(log) + 1
          /\ After(log', Len(log) + 1) = [state |-> e.state, words |-> e.words]
      BY <1>1, <2>1, <2>5, <3>1, ChainGrows DEF Top
    <3>3. Top' = [state |-> e.state, words |-> e.words]
      BY <3>2 DEF Top
    <3>4. IsAt(Top', state', words')
      BY <2>1, <3>3 DEF IsAt, e
    <3> QED
      BY <1>1, <2>1, <2>5, <3>2, <3>4 DEF IInv
  <2>3. CASE IsAt(Top, state, words)
    <3>1. Scale * f <= state /\ state < Scale * Word * f
      BY <2>1, <2>2, <2>3 DEF IsAt, MaxState
    <3>2. Encoded(state, f, c) \in Nat /\ Bounded(Encoded(state, f, c))
      BY <1>1, <1>2, <3>1, UpdateInverse DEF Bounded
    <3>3. Link(Top, e, words)
      BY <1>2, <2>1, <2>3 DEF Link, IsAt, Active, CallFreq, CallCum
    <3> QED
      BY <3>2, <3>3, <2>5
  <2>4. CASE IsShort(Top, state, words) /\ Top.state >= MaxState(f)
    <3>1. Scale * f <= state /\ state < Scale * Word * f
      BY <2>1, <2>2, <2>4 DEF IsShort, MaxState
    <3>2. Encoded(state, f, c) \in Nat /\ Bounded(Encoded(state, f, c))
      BY <1>1, <1>2, <3>1, UpdateInverse DEF Bounded
    <3>3. Link(Top, e, words)
      BY <1>2, <2>1, <2>4 DEF Link, IsShort, Active, CallFreq, CallCum
    <3> QED
      BY <3>2, <3>3, <2>5
  <2> QED
    BY <2>1, <2>3, <2>4 DEF IInv
<1>6. CASE BeginDecode
  <2>1. phase = "encode" /\ phase' = "decode" /\ call' = call /\ state' = state
        /\ words' = words /\ log' = log /\ popped' = popped /\ Top' = Top
    BY <1>6 DEF BeginDecode, Top
  <2> QED
    BY <1>1, <2>1 DEF IInv, IsAt
<1>7. CASE DecodeSymbol
  BY <1>7, DecodesTop
<1>8. CASE ReadWord
  <2>1. /\ phase = "refill" /\ phase' = "refill" /\ state < RANS_L /\ words # <<>>
        /\ state' = (state * Word + words[Len(words)]) % Width
        /\ words' = SubSeq(words, 1, Len(words) - 1)
        /\ call' = call /\ log' = log /\ popped' = popped /\ Top' = Top
    BY <1>8 DEF ReadWord, NeedsWord, Top
  <2>2. IsShort(Top, state, words)
    BY <1>1, <2>1, Sizes DEF IInv, IsAt
  <2>3. state' = Top.state
    <3>1. (Top.state \div Word) * Word + (Top.state % Word) = Top.state
      BY <1>1, <1>2, RenormFacts
    <3>2. Top.state % Width = Top.state
      BY <1>1, MaskIdle
    <3> QED
      BY <2>1, <2>2, <3>1, <3>2 DEF IsShort
  <2>4. /\ words' \in Seq(0 .. (Word - 1)) /\ Len(words') = Top.words
        /\ \A p \in 1 .. Top.words : words'[p] = words[p]
    <3>1. Len(words) - 1 = Top.words
      BY <1>1, <2>2 DEF IsShort
    <3>2. Top.words \in 0 .. Len(words)
      BY <1>1, <3>1
    <3>3. words' = SubSeq(words, 1, Top.words) /\ words \in Seq(0 .. (Word - 1))
      BY <1>1, <2>1, <3>1
    <3> QED
      BY <3>2, <3>3, PrefixFacts
  <2>5. Chain(log, words')
    BY <1>1, <2>4, ChainKept DEF Top
  <2> QED
    BY <1>1, <2>1, <2>3, <2>4, <2>5 DEF IInv, IsAt
<1>9. CASE EndDecode
  <2>1. /\ phase = "refill" /\ phase' = "decode" /\ ~NeedsWord /\ state' = state
        /\ words' = words /\ call' = call /\ log' = log /\ popped' = popped /\ Top' = Top
    BY <1>9 DEF EndDecode, Top
  <2>2. IsAt(Top, state, words)
    <3>1. Top.state \div Word < RANS_L
      BY <1>1, <1>2, RenormFacts
    <3>2. IsShort(Top, state, words) => NeedsWord
      BY <1>1, <3>1 DEF IsShort, NeedsWord
    <3> QED
      BY <2>1, <3>2 DEF IInv
  <2> QED
    BY <1>1, <2>1, <2>2 DEF IInv
<1>10. CASE UNCHANGED vars
  <2>1. Top' = Top /\ CallFreq' = CallFreq
    BY <1>10 DEF vars, Top, CallFreq
  <2> QED
    BY <1>10, <2>1 DEF vars, IInv, IsAt, IsShort
<1> QED
  BY <1>3, <1>4, <1>5, <1>6, <1>7, <1>8, <1>9, <1>10 DEF Next

LEMMA Inductive == Spec => []IInv
BY IInit, IStep, PTL DEF Spec

\* Type correctness: in particular the state never needs the 64-bit mask, and the
\* 16-bit words hold what is put into them.
THEOREM TypeCorrect == Spec => []TypeOK
<1>1. IInv => TypeOK
  <2> SUFFICES ASSUME IInv PROVE TypeOK
    OBVIOUS
  <2>1. state < RANS_L * Word /\ state \in Nat
    <3>1. /\ state \in Nat /\ Top.state \in Nat /\ Top.state < RANS_L * Word
          /\ state = Top.state \/ state = Top.state \div Word
      BY TopFacts DEF IInv, IsAt, IsShort, Bounded
    <3>2. Top.state \div Word <= Top.state
      BY <3>1, Sizes
    <3> QED
      BY <3>1, <3>2, Sizes
  <2> QED
    BY <2>1, Sizes DEF IInv, TypeOK
<1> QED
  BY <1>1, Inductive, PTL

\* The state stays in RANS_L .. RANS_L * Word - 1 between symbols, on both sides.
THEOREM StateBounded == Spec => []StateBound
<1>1. IInv => StateBound
  BY TopFacts DEF IInv, IsAt, Bounded, StateBound
<1> QED
  BY <1>1, Inductive, PTL

\* The decoder retraces the encoder, state for state, down to the initial one.
THEOREM DecoderRetraces == Spec => []Retraces
<1>1. IInv => Retraces
  <2> SUFFICES ASSUME IInv, phase \in {"encode", "decode"}
               PROVE  IF log = <<>> THEN state = RANS_L /\ words = <<>>
                                    ELSE /\ state = log[Len(log)].state
                                         /\ Len(words) = log[Len(log)].words
    BY DEF Retraces
  <2>1. /\ log \in Seq(LogEntry) /\ words \in Seq(0 .. (Word - 1))
        /\ state = Top.state /\ Len(words) = Top.words
    BY DEF IInv, IsAt
  <2> QED
    BY <2>1, EmptySeq DEF Top, After
<1> QED
  BY <1>1, Inductive, PTL

-----------------------------------------------------------------------------
\* Refinement: what the log records of tables and symbols is a stack.

Called(l) == [n \in DOMAIN l |-> [table |-> l[n].table, sym |-> l[n].sym]]
Entry == [table : Tables, sym : Symbols]

LEMMA CalledFacts ==
  ASSUME NEW l \in Seq(LogEntry)
  PROVE  /\ Called(l) \in Seq(Entry) /\ Len(Called(l)) = Len(l)
         /\ \A n \in 1 .. Len(l) : Called(l)[n] = [table |-> l[n].table, sym |-> l[n].sym]
<1>1. \A n \in 1 .. Len(l) : [table |-> l[n].table, sym |-> l[n].sym] \in Entry
  <2> SUFFICES ASSUME NEW n \in 1 .. Len(l)
               PROVE  [table |-> l[n].table, sym |-> l[n].sym] \in Entry
    OBVIOUS
  <2>1. l[n] \in LogEntry
    OBVIOUS
  <2> QED
    BY <2>1 DEF LogEntry, Entry
<1>2. DOMAIN l = 1 .. Len(l) /\ Len(l) \in Nat
  OBVIOUS
<1> QED
  BY <1>1, <1>2 DEF Called

LEMMA CalledPush ==
  ASSUME NEW l \in Seq(LogEntry), NEW e \in LogEntry
  PROVE  Called(Append(l, e)) = Append(Called(l), [table |-> e.table, sym |-> e.sym])
<1> DEFINE g == Append(l, e)
           r == [table |-> e.table, sym |-> e.sym]
<1>1. g \in Seq(LogEntry) /\ Len(g) = Len(l) + 1 /\ Len(l) \in Nat
      /\ g[Len(l) + 1] = e /\ \A n \in 1 .. Len(l) : g[n] = l[n]
  OBVIOUS
<1>2. r \in Entry
  BY DEF LogEntry, Entry
<1> HIDE DEF g, r
<1>3. /\ Called(g) \in Seq(Entry) /\ Len(Called(g)) = Len(l) + 1
      /\ Called(l) \in Seq(Entry) /\ Len(Called(l)) = Len(l)
  BY <1>1, CalledFacts
<1>4. Append(Called(l), r) \in Seq(Entry) /\ Len(Append(Called(l), r)) = Len(l) + 1
  BY <1>2, <1>3
<1>5. ASSUME NEW n \in 1 .. (Len(l) + 1) PROVE Called(g)[n] = Append(Called(l), r)[n]
  <2>1. CASE n = Len(l) + 1
    BY <1>1, <1>2, <1>3, <2>1, CalledFacts DEF r
  <2>2. CASE n # Len(l) + 1
    <3>1. n \in 1 .. Len(l) /\ n \in 1 .. Len(g)
      BY <1>1, <2>2
    <3>2. Called(g)[n] = [table |-> g[n].table, sym |-> g[n].sym]
      BY <1>1, <3>1, CalledFacts
    <3>3. Called(l)[n] = [table |-> l[n].table, sym |-> l[n].sym]
      BY <3>1, CalledFacts
    <3>4. Append(Called(l), r)[n] = Called(l)[n]
      BY <1>2, <1>3, <3>1
    <3> QED
      BY <1>1, <3>1, <3>2, <3>3, <3>4
  <2> QED
    BY <2>1, <2>2
<1>6. Called(g) = Append(Called(l), r)
  BY <1>1, <1>3, <1>4, <1>5, SeqEqual
<1> QED
  BY <1>6 DEF g, r

LEMMA CalledPop ==
  ASSUME NEW l \in Seq(LogEntry), l # <<>>
  PROVE  /\ Called(SubSeq(l, 1, Len(l) - 1)) = SubSeq(Called(l), 1, Len(Called(l)) - 1)
         /\ Called(l) # <<>>
         /\ Called(l)[Len(Called(l))].sym = l[Len(l)].sym
<1> DEFINE k == Len(l) - 1
           g == SubSeq(l, 1, k)
<1>1. Len(l) \in Nat /\ Len(l) # 0
  BY EmptySeq
<1>2. k \in 0 .. Len(l) /\ k \in Nat /\ Len(l) \in 1 .. Len(l)
  BY <1>1
<1> HIDE DEF k
<1>3. g \in Seq(LogEntry) /\ Len(g) = k /\ \A n \in 1 .. k : g[n] = l[n]
  BY <1>2, PrefixFacts
<1>4. Called(l) \in Seq(Entry) /\ Len(Called(l)) = Len(l)
      /\ Called(g) \in Seq(Entry) /\ Len(Called(g)) = k
  BY <1>3, CalledFacts
<1> DEFINE h == SubSeq(Called(l), 1, k)
<1>5. h \in Seq(Entry) /\ Len(h) = k /\ \A n \in 1 .. k : h[n] = Called(l)[n]
  BY <1>2, <1>4, PrefixFacts
<1>6. ASSUME NEW n \in 1 .. k PROVE Called(g)[n] = h[n]
  <2>1. n \in 1 .. Len(l) /\ n \in 1 .. Len(g)
    BY <1>2, <1>3
  <2>2. Called(g)[n] = [table |-> g[n].table, sym |-> g[n].sym]
    BY <1>3, <2>1, CalledFacts
  <2>3. Called(l)[n] = [table |-> l[n].table, sym |-> l[n].sym]
    BY <2>1, CalledFacts
  <2> QED
    BY <1>3, <1>5, <2>2, <2>3
<1>7. Called(g) = h
  BY <1>4, <1>5, <1>6, SeqEqual
<1>8. Called(l)[Len(l)] = [table |-> l[Len(l)].table, sym |-> l[Len(l)].sym]
  BY <1>2, CalledFacts
<1>9. Called(l) # <<>>
  BY <1>1, <1>4, EmptySeq
<1> QED
  BY <1>4, <1>7, <1>8, <1>9 DEF k, g, h

\* rANS is a stack: the decoder returns the symbols in reverse order whatever the
\* tables and the symbols are, one for one.
THEOREM Refines == Spec => IsStack
<1> DEFINE S == [n \in DOMAIN log |-> [table |-> log[n].table, sym |-> log[n].sym]]
<1>1. Init => Stack!Init
  <2> SUFFICES ASSUME Init PROVE Stack!Init
    OBVIOUS
  <2>1. log = <<>> /\ popped = <<>> /\ phase = "encode"
    BY DEF Init
  <2>2. log \in Seq(LogEntry) /\ Len(log) = 0
    BY <2>1
  <2>3. Called(log) = <<>>
    BY <2>2, CalledFacts, EmptySeq
  <2> QED
    BY <2>1, <2>3 DEF Stack!Init, Called
<1>2. IInv /\ [Next]_vars => [Stack!Next]_(Stack!vars)
  <2> SUFFICES ASSUME IInv, [Next]_vars PROVE [Stack!Next]_(Stack!vars)
    OBVIOUS
  <2>1. S = Called(log) /\ S' = Called(log')
    BY DEF Called
  <2>2. log \in Seq(LogEntry) /\ call \in Calls /\ IInv'
    BY IStep DEF IInv
  <2>3. log' \in Seq(LogEntry)
    BY <2>2 DEF IInv
  <2> HIDE DEF S
  <2>4. CASE BeginEncode
    BY <2>1, <2>4 DEF BeginEncode, Stack!vars, S
  <2>5. CASE EmitWord
    BY <2>1, <2>5 DEF EmitWord, Stack!vars, S
  <2>6. CASE EndEncode
    <3> DEFINE e == [table |-> call.table, sym |-> call.sym,
                     state |-> state', words |-> Len(words)]
    <3>1. /\ phase = "renorm" /\ phase' = "encode" /\ popped' = popped
          /\ log' = Append(log, e)
      BY <2>6 DEF EndEncode
    <3>2. e \in LogEntry /\ call.table \in Tables /\ call.sym \in Symbols
      BY <2>2, CallFacts DEF LogEntry, IInv
    <3>3. S' = Append(S, [table |-> call.table, sym |-> call.sym])
      BY <2>1, <2>2, <3>1, <3>2, CalledPush
    <3> HIDE DEF e
    <3>4. \E t \in Tables, s \in Symbols : S' = Append(S, [table |-> t, sym |-> s])
      BY <3>2, <3>3
    <3>5. Stack!Push
      BY <3>1, <3>4 DEF Stack!Push, S
    <3> QED
      BY <3>5 DEF Stack!Next
  <2>7. CASE BeginDecode
    BY <2>1, <2>7 DEF BeginDecode, Stack!Next, Stack!Finish, S
  <2>8. CASE DecodeSymbol
    <3>1. /\ phase = "decode" /\ phase' = "refill" /\ log # <<>>
          /\ log' = SubSeq(log, 1, Len(log) - 1)
          /\ popped' = Append(popped, log[Len(log)].sym)
      BY <2>8, DecodesTop DEF DecodeSymbol
    <3>2. S' = SubSeq(S, 1, Len(S) - 1) /\ S # <<>> /\ S[Len(S)].sym = log[Len(log)].sym
      BY <2>1, <2>2, <3>1, CalledPop
    <3> QED
      BY <3>1, <3>2 DEF Stack!Next, Stack!Pop, S
  <2>9. CASE ReadWord
    BY <2>1, <2>9 DEF ReadWord, Stack!vars, S
  <2>10. CASE EndDecode
    BY <2>1, <2>10 DEF EndDecode, Stack!vars, S
  <2>11. CASE UNCHANGED vars
    BY <2>1, <2>11 DEF vars, Stack!vars, S
  <2> QED
    BY <2>4, <2>5, <2>6, <2>7, <2>8, <2>9, <2>10, <2>11 DEF Next
<1> QED
  BY <1>1, <1>2, Inductive, PTL DEF Spec, IsStack, Stack!Spec
=============================================================================
