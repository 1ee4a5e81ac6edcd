------------------------------- MODULE Priming -------------------------------
(***************************************************************************)
(* How a dictionary's priming buffer is filled from its tokenized training *)
(* records (dictionary.py).  The four pickers take whole records or, in    *)
(* cover, windows of a record, one at a time, until the buffer is full or  *)
(* nothing left is worth taking.  A score is a sum of log1p(count): it is  *)
(* compared here as the product of the 1 + count.                          *)
(***************************************************************************)
EXTENDS Naturals, SequencesExt, FiniteSetsExt

CONSTANTS
  Samples,                  \* the lists of tokenized records
  PrimingModes,             \* a subset of {"concat", "coverage", "diverse", "cover"}
  Budgets, Segments, Dmers  \* the values of max_priming_tokens, segment_len and dmer_len

PrimingAssumption ==
  /\ \A records \in Samples : records \in Seq(Seq(Nat))
  /\ Budgets \subseteq Nat
  /\ Segments \subseteq Nat \ {0} /\ Dmers \subseteq Nat \ {0}

VARIABLES
  priming_mode, max_priming_tokens, segment_len, dmer_len,   \* the arguments
  tokenized,   \* the records
  remaining,   \* the segments not taken: <<record, start, end>>
  weight,      \* token or d-mer -> its count, discounted as segments are taken
  priming      \* the buffer

arguments == <<priming_mode, max_priming_tokens, segment_len, dmer_len, tokenized>>
priming_vars == <<arguments, remaining, weight, priming>>

stride == Max({1, segment_len \div 2})

\* Mutant: the loop ends one window early.
Starts_Short(n) == {s \in 0 .. n - segment_len : s % stride = 0}
\* The starts of a record's windows, up to the first that reaches its end.
Starts(n) == {s \in 0 .. (n - segment_len) + (stride - 1) : s % stride = 0}

\* The candidates of cover; the other pickers take whole records.
WindowsOf(r) ==
  LET n == Len(tokenized[r])
  IN  IF n < dmer_len THEN {}
      ELSE IF n <= segment_len THEN {<<r, 0, n>>}
      ELSE {w \in {<<r, s, Min({s + segment_len, n})>> : s \in Starts(n)} :
              w[3] - w[2] >= dmer_len}

Candidates ==
  UNION {IF priming_mode = "cover" THEN WindowsOf(r)
         ELSE {<<r, 0, Len(tokenized[r])>>} : r \in DOMAIN tokenized}

Tokens(seg) == SubSeq(tokenized[seg[1]], seg[2] + 1, seg[3])

DmersOf(list) ==
  [i \in 1 .. (IF Len(list) < dmer_len THEN 0 ELSE Len(list) - dmer_len + 1) |->
     SubSeq(list, i, i + dmer_len - 1)]

\* What a list is scored by: its d-mers, or its distinct tokens.
Features(list) == IF priming_mode = "cover" THEN DmersOf(list) ELSE SetToSeq(ToSet(list))

\* The counts over the corpus: occurrences of a d-mer, records with a token.
CorpusCounts ==
  LET features == [r \in DOMAIN tokenized |-> Features(tokenized[r])]
      occurrences(f, r) == Cardinality({i \in DOMAIN features[r] : features[r][i] = f})
  IN  [f \in UNION {ToSet(features[r]) : r \in DOMAIN tokenized} |->
         FoldLeft(LAMBDA sum, r : sum + occurrences(f, r), 0, SetToSeq(DOMAIN tokenized))]

Init ==
  /\ priming_mode \in PrimingModes
  /\ max_priming_tokens \in Budgets /\ segment_len \in Segments /\ dmer_len \in Dmers
  /\ tokenized \in Samples /\ tokenized # <<>>   \* refused by train
  /\ remaining = Candidates
  /\ weight = CorpusCounts
  /\ priming = <<>>

Score(seg) == FoldLeft(LAMBDA s, f : s * (1 + weight[f]), 1, Features(Tokens(seg)))

\* The order candidates are generated in.
Earlier(a, b) == a[1] < b[1] \/ (a[1] = b[1] /\ a[2] < b[2])

\* Which of two segments is taken first.
Before(a, b) ==
  CASE priming_mode = "concat"   -> Earlier(a, b)
    [] priming_mode = "coverage" -> Score(a) > Score(b) \/ (Score(a) = Score(b) /\ Earlier(b, a))
    [] OTHER                     -> Score(a) > Score(b) \/ (Score(a) = Score(b) /\ Earlier(a, b))

\* concat looks at the length only after a record.
Full == Len(priming) >= max_priming_tokens /\ (priming_mode = "concat" => remaining # Candidates)

WorthTaking(seg) == priming_mode \in {"diverse", "cover"} => Score(seg) > 1

Spent(seg) == Features(Tokens(seg))

\* int(count * discount), with the default discount of 0.3.
Discounted(count) == (count * 3) \div 10

\* What taking a segment does to the counts: a diverse token is covered, a
\* d-mer is discounted once for each of its occurrences.
Reweighed(seg) ==
  CASE priming_mode = "cover"   -> FoldLeft(LAMBDA w, f : [w EXCEPT ![f] = Discounted(@)], weight, Spent(seg))
    [] priming_mode = "diverse" -> FoldLeft(LAMBDA w, f : [w EXCEPT ![f] = 0], weight, Spent(seg))
    [] OTHER                    -> weight

TakeSegment ==
  \E seg \in remaining :
    LET longer == priming \o Tokens(seg)
    IN  /\ ~Full
        /\ \A other \in remaining \ {seg} : Before(seg, other)
        /\ WorthTaking(seg)
        /\ priming' = SubSeq(longer, 1, Min({Len(longer), max_priming_tokens}))
        /\ remaining' = remaining \ {seg}
        /\ weight' = Reweighed(seg)
        /\ UNCHANGED arguments

Next == TakeSegment
Spec == Init /\ [][Next]_priming_vars

-----------------------------------------------------------------------------
IsDone == Full \/ \A seg \in remaining : ~WorthTaking(seg)

\* Consecutive windows overlap by enough for every d-mer to lie in one.
Overlapping == dmer_len <= (segment_len - stride) + 1

(***************************************************************************)
(* The buffer keeps its budget, and a picker leaves room unused only when  *)
(* the buffer holds all there is: every token of the sample or, in cover,  *)
(* every d-mer of it, undivided.  No window is skipped at the end of a     *)
(* record, and no discount hides what was never taken.                     *)
(***************************************************************************)
BufferComplete ==
  /\ Len(priming) <= max_priming_tokens
  /\ (IsDone /\ Len(priming) < max_priming_tokens) =>
       \A r \in DOMAIN tokenized :
         IF priming_mode = "cover"
           THEN Overlapping => ToSet(DmersOf(tokenized[r])) \subseteq ToSet(DmersOf(priming))
           ELSE ToSet(tokenized[r]) \subseteq ToSet(priming)
=============================================================================
