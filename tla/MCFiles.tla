------------------------------- MODULE MCFiles -------------------------------
(***************************************************************************)
(* Small instances of Files: three records, one of them empty, one prefix  *)
(* for fit, one archive and one place for each output; fits of two         *)
(* corpora whose vocabularies differ in size, either one the larger.       *)
(***************************************************************************)
EXTENDS Files

MCOriginals == [p \in {"a", "b", "e"} |-> IF p = "e" THEN "" ELSE p]
MCMerges(record) == CASE record = "a" -> 2 [] record = "b" -> 1 [] OTHER -> IF record = "" THEN 0 ELSE 3

Command(op, in, out) ==
  [op |-> op, in |-> in, out |-> out, vocab |-> None, dict |-> None,
   integrity |-> FALSE, indexed |-> FALSE, index |-> 1]

\* With and without the two options, as they make sense together or not.
With(c) == {[c EXCEPT !.vocab = v, !.dict = d] : v \in {None, "v.ranks"}, d \in {None, "v.tokdict"}}

Trains ==
  {Command("fit", <<p>>, <<"v.ranks", "v.tokdict">>) : p \in {"a", "b", "e"}} \cup
  {Command("train-vocab", <<"b">>, <<"v.ranks">>)} \cup
  {Command("train-dict", <<p>>, <<"v.tokdict">>) : p \in {"a", "e"}}

Compresses ==
  UNION {With([Command("compress", <<"a">>, <<"x">>) EXCEPT !.integrity = i]) : i \in BOOLEAN} \cup
  UNION {With([Command("pack", in, <<"x">>) EXCEPT !.indexed = i]) :
           in \in {<<"a", "b">>, <<"e", "b">>}, i \in BOOLEAN}

Extracts ==
  With(Command("decompress", <<"x">>, <<"out">>)) \cup
  With(Command("unpack", <<"x">>, <<"0.rec", "1.rec">>)) \cup
  With([Command("read", <<"x">>, <<"out">>) EXCEPT !.index = 2])

MCCommands == Trains \cup Compresses \cup Extracts
=============================================================================
