--------------------------- MODULE BpeIncremental ---------------------------
(***************************************************************************)
(* The merges of the trainer as the Rust core finds them (bpe_merges,      *)
(* rust/train.rs): each distinct piece is kept once, with how often it     *)
(* occurs; the pair counts are updated only for the words that a merge     *)
(* changes, and the next pair is popped from a heap whose entries may be   *)
(* stale.  It implements BpeTrainer.                                       *)
(***************************************************************************)
EXTENDS Naturals, SequencesExt, FiniteSetsExt, TLC

CONSTANTS BYTES, num_merges, Corpora, Texts   \* as in BpeTrainer

ASSUME TrainerAssumption ==
  /\ BYTES \in Nat \ {0} /\ num_merges \in Nat
  /\ \A pieces \in Corpora : pieces \in Seq(Seq(0 .. BYTES - 1))

VARIABLES
  pieces,
  words,    \* distinct piece -> its ids now
  counts,   \* pair -> its count in the corpus
  index,    \* pair -> the words it may occur in
  heap,     \* the entries <<count, pair>> not popped yet
  merges    \* the pairs merged, by id

vars == <<pieces, words, counts, index, heap, merges>>

Freq(w) == Cardinality({p \in 1 .. Len(pieces) : pieces[p] = w})

\* The adjacent pairs of a word, and how often each occurs.
Windows(seq) == {<<seq[i], seq[i + 1]>> : i \in 1 .. Len(seq) - 1}
Occurrences(seq, pair) == Cardinality({i \in 1 .. Len(seq) - 1 : <<seq[i], seq[i + 1]>> = pair})
Total(ws, state, pair) == MapThenSumSet(LAMBDA w : Freq(w) * Occurrences(state[w], pair), ws)

Init ==
  /\ pieces \in Corpora
  /\ words = [w \in Range(pieces) \ {<<>>} |-> w]
  /\ words # <<>>   \* an empty corpus is refused
  /\ counts = [k \in UNION {Windows(w) : w \in DOMAIN words} |-> Total(DOMAIN words, words, k)]
  /\ index = [k \in DOMAIN counts |-> {w \in DOMAIN words : k \in Windows(w)}]
  /\ heap = {<<counts[k], k>> : k \in DOMAIN counts}
  /\ merges = <<>>

\* Of two heap entries the one popped first.
KeyBelow(p, q) == p[1] < q[1] \/ (p[1] = q[1] /\ p[2] < q[2])
PoppedBefore(e, f) == e[1] > f[1] \/ (e[1] = f[1] /\ KeyBelow(e[2], f[2]))

\* Mutant: an entry popped is taken for current.
IsCurrent_Always(e) == e[2] \in DOMAIN counts

\* A popped entry is used only if its count is still the pair's.
IsCurrent(e) == e[2] \in DOMAIN counts /\ counts[e[2]] = e[1]

\* A word with the occurrences of a pair merged, from the left.
Merged(seq, pair, new_id) ==
  LET starts[i \in 0 .. Len(seq)] ==
        i \in 1 .. Len(seq) - 1 /\ <<seq[i], seq[i + 1]>> = pair /\ ~starts[i - 1]
      kept == SetToSortSeq({i \in 1 .. Len(seq) : ~starts[i - 1]}, <)
  IN  [j \in 1 .. Len(kept) |-> IF starts[kept[j]] THEN new_id ELSE seq[kept[j]]]

Listed(k) == IF k \in DOMAIN index THEN index[k] ELSE {}

\* Mutant: a changed word is not entered under the pairs it gained.
IndexNow_NotUpdated(k, changed, now) == Listed(k)
IndexNow(k, changed, now) == Listed(k) \cup {w \in changed : k \in Windows(now[w])}

\* Mutant: the pairs that a word lost are not counted down.
CountNow_NeverLess(k, changed, now) ==
  (IF k \in DOMAIN counts THEN counts[k] ELSE 0) + Total(changed, now, k)

CountNow(k, changed, now) ==
  (IF k \in DOMAIN counts THEN counts[k] ELSE 0) + Total(changed, now, k) - Total(changed, words, k)

\* One round: pop to the first current entry, merge its pair in the words the
\* index lists, and adjust the counts of the pairs those words had and have.
MergeNext ==
  \E best \in heap :
    LET pair == best[2]
        new_id == BYTES + Len(merges)
        now == [w \in DOMAIN words |->
                  IF w \in Listed(pair) THEN Merged(words[w], pair, new_id) ELSE words[w]]
        changed == {w \in Listed(pair) : Len(now[w]) # Len(words[w])}
        touched == UNION {Windows(words[w]) \cup Windows(now[w]) : w \in changed}
        count(k) == CountNow(k, changed, now)
        live == {k \in touched : count(k) > 0}
    IN  /\ Len(merges) < num_merges
        /\ IsCurrent(best)
        /\ \A e \in heap : IsCurrent(e) => e = best \/ PoppedBefore(best, e)
        /\ words' = now
        /\ counts' = [k \in (DOMAIN counts \ touched) \cup live |->
                        IF k \in touched THEN count(k) ELSE counts[k]]
        /\ index' = [k \in (DOMAIN index \cup touched) \ {pair} |-> IndexNow(k, changed, now)]
        /\ heap' = {e \in heap : PoppedBefore(best, e)} \cup {<<count(k), k>> : k \in live}
        /\ merges' = Append(merges, pair)
        /\ UNCHANGED pieces

Next == MergeNext
Spec == Init /\ [][Next]_vars

-----------------------------------------------------------------------------
\* The vocabulary, read off the merges as _train_pieces does.
token[i \in 0 .. BYTES + num_merges] ==
  IF i < BYTES THEN <<i>> ELSE token[merges[i - BYTES + 1][1]] \o token[merges[i - BYTES + 1][2]]

(***************************************************************************)
(* The incremental trainer makes, merge by merge, the vocabulary of the    *)
(* reference: no count drifts, no stale heap entry wins, no word that      *)
(* holds the pair is missing from the index.                               *)
(***************************************************************************)
WordOf(piece) == IF piece = <<>> THEN <<>> ELSE words[piece]

Reference == INSTANCE BpeTrainer WITH
  Corpora <- Seq(Seq(0 .. BYTES - 1)),
  ids <- FlattenSeq([p \in 1 .. Len(pieces) |-> WordOf(pieces[p])]),
  boundaries <-
    LET filled == SelectSeq(pieces, LAMBDA piece : piece # <<>>)
        flags(w) == [i \in 1 .. Len(w) |-> i = Len(w)]
    IN  Front(FlattenSeq([p \in 1 .. Len(filled) |-> flags(words[filled[p]])])),
  merge_sequence <- [m \in 1 .. Len(merges) |-> <<token[merges[m][1]], token[merges[m][2]]>>],
  vocab <- [i \in 0 .. BYTES + Len(merges) - 1 |-> token[i]]

ImplementsReference == Reference!Spec

(***************************************************************************)
(* Between rounds the counts are those of a recount, and every pair has a  *)
(* current entry in the heap and its words in the index: the trainer stops *)
(* early only where the reference does, and no lookup of a count fails.    *)
(***************************************************************************)
CountsCurrent ==
  /\ counts = Reference!stats
  /\ \A k \in DOMAIN counts :
       /\ <<counts[k], k>> \in heap
       /\ {w \in DOMAIN words : k \in Windows(words[w])} \subseteq index[k]

ValidChain == Reference!ValidChain
TiktokenAgrees == Reference!TiktokenAgrees
=============================================================================
