-------------------------------- MODULE MCFit --------------------------------
(***************************************************************************)
(* Small instances of the two things cmd_fit trains (cli.py), one after    *)
(* the other and each on its own inputs: the vocabulary, by the            *)
(* incremental trainer, and the priming buffer of the dictionary.  Pieces  *)
(* over two byte values make runs of equal ids, pairs that overlap         *)
(* themselves, equal pieces and ties; an empty piece is skipped.           *)
(***************************************************************************)
EXTENDS BpeIncremental

CONSTANTS MaxBytes, MaxTokens, Samples, PrimingModes, Budgets, Segments, Dmers

VARIABLES job, priming_mode, max_priming_tokens, segment_len, dmer_len,
          tokenized, remaining, weight, priming

Buffer == INSTANCE Priming
ASSUME PrimingAssumption == Buffer!PrimingAssumption

bpe_vars == <<pieces, words, counts, index, heap, merges>>
priming_vars == <<priming_mode, max_priming_tokens, segment_len, dmer_len,
                  tokenized, remaining, weight, priming>>
all_vars == <<bpe_vars, priming_vars, job>>

\* Every way to cut every text of up to MaxBytes bytes into pieces.
Cut(text, at) ==
  LET ends == SetToSortSeq(at \cup {Len(text)}, <)
      from(p) == IF p = 1 THEN 1 ELSE ends[p - 1] + 1
  IN  [p \in 1 .. Len(ends) |-> SubSeq(text, from(p), ends[p])] \o <<>>

MCCorpora ==
  {<<<<>>, <<0, 1>>>>} \cup
  UNION {{Cut(text, at) : text \in [1 .. n -> 0 .. BYTES - 1], at \in SUBSET (1 .. n - 1)} :
           n \in 1 .. MaxBytes}

MCTexts == UNION {[1 .. n -> 0 .. BYTES - 1] : n \in 1 .. 5}

\* One or two records of up to MaxTokens tokens in all, of two kinds.
MCSamples ==
  UNION {{<<SubSeq(list, 1, at), SubSeq(list, at + 1, n)>> : list \in [1 .. n -> 0 .. 1], at \in 0 .. n} :
           n \in 0 .. MaxTokens}

Idle ==
  /\ priming_mode = "concat" /\ max_priming_tokens = 0 /\ segment_len = 1 /\ dmer_len = 1
  /\ tokenized = <<>> /\ remaining = {} /\ weight = <<>> /\ priming = <<>>

MCInit ==
  \/ job = "vocabulary" /\ Init /\ Idle
  \/ job = "dictionary" /\ pieces = <<<<0>>>> /\ Init /\ Buffer!Init

MCNext ==
  \/ job = "vocabulary" /\ MergeNext /\ UNCHANGED <<priming_vars, job>>
  \/ job = "dictionary" /\ Buffer!TakeSegment /\ UNCHANGED <<bpe_vars, job>>

MCSpec == MCInit /\ [][MCNext]_all_vars

(***************************************************************************)
(* Priming's BufferComplete, for the buffer of the dictionary.             *)
(***************************************************************************)
BufferComplete == Buffer!BufferComplete
=============================================================================
