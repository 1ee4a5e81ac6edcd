----------------------------- MODULE BpeTrainer -----------------------------
(***************************************************************************)
(* The vocabulary trainer as the Python reference has it                   *)
(* (tokenizer/bpe_trainer.py): the corpus is a list of pieces, the pairs   *)
(* of adjacent ids within a piece are counted anew after every merge, and  *)
(* the most frequent one becomes the next id.                              *)
(***************************************************************************)
EXTENDS Naturals, SequencesExt, FiniteSetsExt, TLC

CONSTANTS
  BYTES,        \* 256: the ids 0 .. BYTES - 1 are the single bytes
  num_merges,   \* vocab_size - 256
  Corpora,      \* the lists of pieces a corpus can be split into
  Texts         \* bound of the model: the pieces the vocabulary is tried on

VARIABLES
  pieces,          \* what _pretokenize_bytes returned
  ids,             \* the corpus in the current vocabulary
  boundaries,      \* boundaries[i]: no merge between ids[i] and ids[i + 1]
  merge_sequence,  \* the merges so far, as pairs of byte strings
  vocab            \* id -> its bytes

bpe_vars == <<pieces, ids, boundaries, merge_sequence, vocab>>

Filled(list) == SelectSeq(list, LAMBDA piece : piece # <<>>)
IdsOf(list) == FlattenSeq(list)

BoundariesOf(words) ==
  LET flags(w) == [i \in 1 .. Len(words[w]) |-> i = Len(words[w])]
  IN  IF words = <<>> THEN <<>>
      ELSE Front(FlattenSeq([w \in 1 .. Len(words) |-> flags(w)]))

_build_ids_and_boundaries(list) == <<IdsOf(list), BoundariesOf(Filled(list))>>

\* The positions of pairs that may be merged: those within a piece.
PairsAt(seq, bounds) == {i \in 1 .. Len(seq) - 1 : ~bounds[i]}

_get_stats(seq, bounds) ==
  LET at == PairsAt(seq, bounds)
  IN  [pair \in {<<seq[i], seq[i + 1]>> : i \in at} |->
         Cardinality({i \in at : <<seq[i], seq[i + 1]>> = pair})]

\* Mutant: of overlapping occurrences the last is merged first.
Starts_FromTheRight(seq, bounds, pair) ==
  LET n == Len(seq)
      starts[i \in 0 .. n] ==
        /\ n - i \in PairsAt(seq, bounds)
        /\ pair = <<seq[n - i], seq[n - i + 1]>>
        /\ ~(i > 0 /\ starts[i - 1])
  IN  {i \in 1 .. n : starts[n - i]}

\* The occurrences of a pair that are merged: from the left, without overlap.
Starts(seq, bounds, pair) ==
  LET starts[i \in 0 .. Len(seq)] ==
        /\ i \in PairsAt(seq, bounds)
        /\ pair = <<seq[i], seq[i + 1]>>
        /\ ~starts[i - 1]
  IN  {i \in 1 .. Len(seq) : starts[i]}

_merge(seq, bounds, pair, new_id) ==
  LET starts == Starts(seq, bounds, pair)
      kept == SetToSortSeq({i \in 1 .. Len(seq) : i - 1 \notin starts}, <)
  IN  [ids |-> [j \in 1 .. Len(kept) |-> IF kept[j] \in starts THEN new_id ELSE seq[kept[j]]],
       boundaries |-> [j \in 1 .. Len(kept) - 1 |-> bounds[kept[j + 1] - 1]],
       next_id |-> new_id]

\* The order of the single-int keys a * _STRIDE + b.
KeyBelow(p, q) == p[1] < q[1] \/ (p[1] = q[1] /\ p[2] < q[2])

\* The highest count, then the lowest key.
Best(count) ==
  CHOOSE p \in DOMAIN count :
    \A q \in DOMAIN count \ {p} :
      count[q] < count[p] \/ (count[q] = count[p] /\ KeyBelow(p, q))

Init ==
  /\ pieces \in Corpora /\ IdsOf(pieces) # <<>>   \* an empty corpus is refused
  /\ <<ids, boundaries>> = _build_ids_and_boundaries(pieces)
  /\ merge_sequence = <<>>
  /\ vocab = [i \in 0 .. BYTES - 1 |-> <<i>>]

NewId == BYTES + Len(merge_sequence)

stats == _get_stats(ids, boundaries)

\* One turn of the loop of _train_pieces.
MergeBest ==
  LET pair == Best(stats)
      merged == _merge(ids, boundaries, pair, NewId)
  IN  /\ Len(merge_sequence) < num_merges
      /\ DOMAIN stats # {}
      /\ ids' = merged.ids /\ boundaries' = merged.boundaries
      /\ merge_sequence' = Append(merge_sequence, <<vocab[pair[1]], vocab[pair[2]]>>)
      /\ vocab' = (NewId :> (vocab[pair[1]] \o vocab[pair[2]])) @@ vocab
      /\ UNCHANGED pieces

Next == MergeBest
Spec == Init /\ [][Next]_bpe_vars

-----------------------------------------------------------------------------
\* What the vocabulary is used for: the ranks, their validation, and the ids
\* that the merge sequence and tiktoken's encoder give to a text.

mergeable_ranks ==
  LET bytes == vocab
  IN  [token \in Range(bytes) |-> Max({i \in DOMAIN bytes : bytes[i] = token})]

validate_mergeable_ranks(ranks) ==
  /\ \A b \in 0 .. BYTES - 1 : <<b>> \in DOMAIN ranks /\ ranks[<<b>>] = b
  /\ \A token \in DOMAIN ranks :
       Len(token) = 1 \/ \E cut \in 1 .. Len(token) - 1 :
         LET left == SubSeq(token, 1, cut)
             right == SubSeq(token, cut + 1, Len(token))
         IN  /\ {left, right} \subseteq DOMAIN ranks
             /\ ranks[left] < ranks[token] /\ ranks[right] < ranks[token]

\* Each merge looks its two halves up by their bytes, the lowest id first.
encode_with_merge_sequence(list) ==
  LET built == _build_ids_and_boundaries(list)
      bytes == vocab
      IdOf(token) == Min({i \in DOMAIN bytes : bytes[i] = token})
      apply(text, merge) ==
        [_merge(text.ids, text.boundaries, <<IdOf(merge[1]), IdOf(merge[2])>>, text.next_id)
           EXCEPT !.next_id = text.next_id + 1]
  IN  FoldLeft(apply, [ids |-> built[1], boundaries |-> built[2], next_id |-> BYTES],
               merge_sequence).ids

\* tiktoken on one piece: a piece that is a token is that token; otherwise
\* the adjacent parts whose join has the lowest rank are joined, the first
\* of them, one at a time, until no join is a token.
_encode_bytes(piece, ranks) ==
  LET join(parts, turn) ==
        LET at == {i \in 1 .. Len(parts) - 1 : parts[i] \o parts[i + 1] \in DOMAIN ranks}
            rank(i) == ranks[parts[i] \o parts[i + 1]]
            first == CHOOSE i \in at : \A j \in at \ {i} :
                       rank(i) < rank(j) \/ (rank(i) = rank(j) /\ i < j)
        IN  IF at = {} THEN parts
            ELSE SubSeq(parts, 1, first - 1) \o <<parts[first] \o parts[first + 1]>>
                 \o SubSeq(parts, first + 2, Len(parts))
      joined == FoldLeft(join, [i \in 1 .. Len(piece) |-> <<piece[i]>>], piece)
  IN  IF piece \in DOMAIN ranks THEN <<ranks[piece]>>
      ELSE [i \in 1 .. Len(joined) |-> ranks[joined[i]]]

-----------------------------------------------------------------------------
(***************************************************************************)
(* What the module's docstring claims and tiktoken relies on: the ranks    *)
(* are a valid merge chain, and no two merges make the same bytes, so no   *)
(* id is lost when the vocabulary is turned round into a dictionary.       *)
(***************************************************************************)
ValidChain ==
  LET ranks == mergeable_ranks
  IN  /\ validate_mergeable_ranks(ranks)
      /\ Range(ranks) = 0 .. BYTES + Len(merge_sequence) - 1

(***************************************************************************)
(* The trained ids are what encode_with_merge_sequence gives the corpus;   *)
(* and on every text, seen in training or not, tiktoken, which joins the   *)
(* lowest rank first and one occurrence at a time, gives the ids that      *)
(* merging every occurrence merge by merge gives.  (Before the first merge *)
(* the ids are the bytes.)                                                 *)
(***************************************************************************)
TiktokenAgrees ==
  LET ranks == mergeable_ranks
  IN  merge_sequence # <<>> =>
      /\ encode_with_merge_sequence(pieces) = ids
      /\ \A text \in Texts : _encode_bytes(text, ranks) = encode_with_merge_sequence(<<text>>)
=============================================================================
