-------------------------------- MODULE Files --------------------------------
(***************************************************************************)
(* The command line (cli.py) and the files it leaves behind: compress,     *)
(* decompress, pack, unpack, read, train-vocab, train-dict and fit.  A     *)
(* command reads its files, works, and writes its outputs in place, one    *)
(* after the other; it may raise at any input and crash at any moment.     *)
(* What a codec does to a record is Container's, Batch's and DictMode's    *)
(* matter: here it gives the record back, or it does not.                  *)
(***************************************************************************)
EXTENDS Integers, Sequences, SequencesExt

CONSTANTS
  Commands,       \* the commands that are given: op, in, index, out, vocab, dict, integrity
  Originals,      \* path -> record: the files that are there first
  Empty, Wrong,   \* the empty record, and one that nobody compressed
  Merges(_),      \* how many merges a vocabulary trained on a record has
  MaxCommands     \* bound on a behaviour

None == "none"    \* no such option

VARIABLES
  disk,     \* path -> content
  cmd,      \* the command that runs, or ran last
  result,   \* of it: "none" yet, "running", "ok", "raised", "crashed"
  writes,   \* what it has still to write: paths and contents
  ending,   \* how it ends when it has written them
  open,     \* is the first of them open
  before,   \* the disk when it began
  given     \* how many commands were given

vars == <<disk, cmd, result, writes, ending, open, before, given>>

\* What is compressed or trained on is there first and never an output; unpack
\* has a name for every record; nothing is packed over the files it is packed with.
ASSUME FilesAssumption ==
  /\ \A c \in Commands :
        /\ c.op \in {"compress", "decompress", "pack", "unpack", "read",
                     "train-vocab", "train-dict", "fit"}
        /\ c.in \in Seq(ToSet(c.in)) /\ c.out \in Seq(ToSet(c.out))
        /\ c.in # <<>> /\ c.out # <<>>
        /\ c.op \notin {"decompress", "unpack", "read"} => ToSet(c.in) \subseteq DOMAIN Originals
        /\ ToSet(c.out) \cap DOMAIN Originals = {}
        /\ \A m, n \in DOMAIN c.out : c.out[m] = c.out[n] => m = n
        /\ c.op = "fit" => Len(c.out) = 2
        /\ c.op \in {"compress", "pack"} => ToSet(c.out) \cap {c.vocab, c.dict} = {}
  /\ \A c, d \in Commands :
        c.op = "unpack" /\ d.op \in {"compress", "pack"} => Len(d.in) <= Len(c.out)
  /\ \E c \in Commands : c.op = "fit"
  /\ Empty # Wrong /\ MaxCommands \in Nat /\ Merges(Wrong) \in Nat
  /\ \A r \in {Originals[p] : p \in DOMAIN Originals} : r # Wrong /\ Merges(r) \in Nat

(***************************************************************************)
(* Contents.  A vocabulary is a number of merges trained on a record; a    *)
(* dictionary remembers the vocabulary and the samples, which is what its  *)
(* fingerprint stands for; an archive its records, the parts that need the *)
(* dictionary, and whether the coder lost the tokens of them.              *)
(***************************************************************************)
Absent == [kind |-> "absent"]
Torn == [kind |-> "torn"]
NoDict == Absent
Data(r) == [kind |-> "data", record |-> r]
Ranks(v) == [kind |-> "ranks", vocab |-> v]
TokDict(v, samples, whole) ==
  [kind |-> "dict", vocab |-> v, samples |-> samples, whole |-> whole]
Archive(form, records, uses, v, d, integrity, lost) ==
  [kind |-> "archive", form |-> form, records |-> records, uses |-> uses, vocab |-> v,
   dict |-> d, integrity |-> integrity, lost |-> lost]

o200k_base == [corpus |-> Wrong, merges |-> 1 + Merges(Wrong)]
Chain(corpus, n) == [corpus |-> IF n = 0 THEN Empty ELSE corpus, merges |-> n]
Trained(corpus) == Chain(corpus, Merges(corpus))

Paths ==
  UNION {ToSet(c.in) \cup ToSet(c.out) \cup ({c.vocab, c.dict} \ {None}) : c \in Commands}

Init ==
  /\ disk = [p \in Paths |-> IF p \in DOMAIN Originals THEN Data(Originals[p]) ELSE Absent]
  /\ cmd = CHOOSE c \in Commands : c.op = "fit"
  /\ result = "none" /\ writes = <<>> /\ ending = "ok" /\ open = FALSE
  /\ before = disk /\ given = 0

(***************************************************************************)
(* What a command loads.                                                   *)
(***************************************************************************)
Missing(c) == \E n \in DOMAIN c.in : disk[c.in[n]].kind = "absent"

LoadsVocab(c) == c.vocab # None => disk[c.vocab].kind = "ranks"
LoadsDict(c) == c.dict # None => disk[c.dict].kind = "dict"
Loads(c) == ~Missing(c) /\ LoadsVocab(c) /\ LoadsDict(c)

VocabOf(c) == IF c.vocab = None THEN o200k_base ELSE disk[c.vocab].vocab
DictOf(c) == IF c.dict = None THEN NoDict ELSE disk[c.dict]
InputOf(c) == disk[c.in[1]]

Records(c) == [n \in DOMAIN c.in |-> disk[c.in[n]].record]

(***************************************************************************)
(* Compressing.  Tokens of a larger vocabulary than the dictionary's are   *)
(* outside its tables.  Its escape symbol is one of them, and is taken for *)
(* the escape and not listed: the decoder runs out of escapes or, where a  *)
(* context stood, takes one symbol more than was coded, and nothing need   *)
(* fail.  For those beyond the escape the Python coder raises; the Rust    *)
(* coder lists them, and loses nothing.                                    *)
(***************************************************************************)
\* Mutant: also those of a vocabulary of the dictionary's size.
Outside_SameSize(d, v) == d.vocab.merges <= v.merges
Outside(d, v) == d.vocab.merges < v.merges

Parts(c) == IF c.op = "pack" /\ c.indexed THEN DOMAIN c.in ELSE {1}

\* The parts that have anything to code.
Coded(c, p) == IF c.op = "pack" /\ c.indexed THEN Records(c)[p] # Empty
                                             ELSE \E n \in DOMAIN c.in : Records(c)[n] # Empty

Form(c) == IF c.op = "compress" THEN "TOKZ" ELSE IF c.indexed THEN "TOKBI" ELSE "TOKB"

\* The smallest candidate wins, so a part may need the dictionary or not.
Uses(c) == {used \in [Parts(c) -> BOOLEAN] :
              \A p \in Parts(c) : used[p] => c.dict # None /\ Coded(c, p)}

MayLose(c, used) ==
  /\ DictOf(c) # NoDict /\ Outside(DictOf(c), VocabOf(c))
  /\ \E p \in Parts(c) : used[p]

Archives(c, native) ==
  LET d == DictOf(c)
      working == \E p \in Parts(c) : Coded(c, p)
      refuses == d # NoDict /\ working /\ native /\ ~d.whole
  IN  IF refuses THEN {}
      ELSE {Archive(Form(c), Records(c), how[1], VocabOf(c), d, c.integrity, how[2]) :
              how \in {h \in Uses(c) \X BOOLEAN : h[2] => MayLose(c, h[1])}}

MayFail(c, native) ==
  LET d == DictOf(c)
  IN  /\ d # NoDict /\ \E p \in Parts(c) : Coded(c, p)
      /\ IF native THEN ~d.whole ELSE Outside(d, VocabOf(c))

(***************************************************************************)
(* Decompressing a part: the outcomes.  A stream of a trained vocabulary   *)
(* is stamped with it; one of the default vocabulary is not.               *)
(***************************************************************************)
\* Mutant: the stamp is not compared.
StampRefuses_Never(a, v) == FALSE
StampRefuses(a, v) == a.vocab # o200k_base /\ v # a.vocab

DictServes(a, d) == d # NoDict /\ d.whole /\ d = a.dict

\* A stream of no bytes returns before anything is compared.
IsEmpty(a, p) == \A n \in (IF a.form = "TOKB" THEN DOMAIN a.records ELSE {p}) : a.records[n] = Empty

\* Where a token was lost, or the vocabulary is another one, anything may be
\* decoded or nothing: the crc32 tells, and without it the length alone.
Loose(a) == {"right", "raise"} \cup (IF a.integrity THEN {} ELSE {"wrong"})

Outcomes(a, p, v, d, native) ==
  IF native /\ d # NoDict /\ ~d.whole THEN {"raise"}
  ELSE IF IsEmpty(a, p) THEN {"right"}
  ELSE IF (a.uses[p] /\ ~DictServes(a, d)) \/ StampRefuses(a, v) THEN {"raise"}
  ELSE IF (a.uses[p] /\ a.lost) \/ v # a.vocab THEN Loose(a)
  ELSE {"right"}

Result(a, p, outcome) ==
  IF outcome = "right" THEN Data(a.records[p]) ELSE Data(Wrong)

(***************************************************************************)
(* Plans: what a command will write, and how it will end.                  *)
(***************************************************************************)
Plan(list, end) == [writes |-> list, ending |-> end]

\* Mutant: the output is opened before there is anything to write.
Failed_OutputOpen(c) == Plan(<<<<c.out[1], Torn>>>>, "raised")
Failed(c) == Plan(<<>>, "raised")

CompressPlans(c) ==
  UNION {{Plan(<<<<c.out[1], a>>>>, "ok") : a \in Archives(c, native)} \cup
         (IF MayFail(c, native) THEN {Failed(c)} ELSE {}) : native \in BOOLEAN}

OnePlan(c, p) ==
  LET a == InputOf(c)
  IN  UNION {{IF outcome = "raise" THEN Failed(c)
              ELSE Plan(<<<<c.out[1], Result(a, p, outcome)>>>>, "ok") :
                outcome \in Outcomes(a, p, VocabOf(c), DictOf(c), native)} :
               native \in BOOLEAN}

DecompressPlans(c) ==
  IF InputOf(c).kind = "archive" /\ InputOf(c).form = "TOKZ" THEN OnePlan(c, 1) ELSE {Failed(c)}

ReadPlans(c) ==
  IF /\ InputOf(c).kind = "archive" /\ InputOf(c).form = "TOKBI"
     /\ c.index \in DOMAIN InputOf(c).records
  THEN OnePlan(c, c.index) ELSE {Failed(c)}

\* unpack writes each record when it is decoded, and a TOKB is decoded first:
\* all of it or nothing, though not every record of a wrong text is wrong.
Written(c, results) ==
  [n \in DOMAIN results |-> <<c.out[n], results[n]>>]

UpTo(outcomes) ==
  IF "raise" \in ToSet(outcomes)
  THEN (CHOOSE n \in DOMAIN outcomes :
          outcomes[n] = "raise" /\ \A m \in 1 .. (n - 1) : outcomes[m] # "raise") - 1
  ELSE Len(outcomes)

\* Mutant: what a record raises is swallowed.
Ending_Swallowed(outcomes) == "ok"
Ending(outcomes) == IF "raise" \in ToSet(outcomes) THEN "raised" ELSE "ok"

UnpackPlans(c) ==
  LET a == InputOf(c)
      Of(p) == UNION {Outcomes(a, p, VocabOf(c), DictOf(c), native) : native \in BOOLEAN}
      All(n) == {outcomes \in [1 .. n -> {"right", "wrong", "raise"}] :
                   \A p \in 1 .. n :
                     outcomes[p] \in Of(IF a.form = "TOKB" THEN 1 ELSE p)
                     /\ (a.form = "TOKB" => (outcomes[p] = "raise") = (outcomes[1] = "raise"))}
  IN  IF a.kind # "archive" THEN {Failed(c)}
      ELSE {Plan(Written(c, [n \in 1 .. UpTo(outcomes) |-> Result(a, n, outcomes[n])]),
                 Ending(outcomes)) :
              outcomes \in All(Len(a.records))}

\* save: a table of one symbol does not fit its 16 bits, and raises on the way.
Saved(path, v, samples) ==
  IF samples = Empty THEN Plan(<<<<path, Torn>>>>, "raised")
  ELSE Plan(<<<<path, TokDict(v, samples, TRUE)>>>>, "ok")

\* An empty corpus has no vocabulary: its trainer raises before a file is written.
OnCorpus(c, plan) == {IF InputOf(c).record = Empty THEN Failed(c) ELSE plan}
RanksOf(c) == <<<<c.out[1], Ranks(Trained(InputOf(c).record))>>>>

TrainVocabPlans(c) == OnCorpus(c, Plan(RanksOf(c), "ok"))
TrainDictPlans(c) == {Saved(c.out[1], o200k_base, InputOf(c).record)}

\* The vocabulary first, then the dictionary trained on it.
FitPlans(c) ==
  LET corpus == InputOf(c).record
      dict == Saved(c.out[2], Trained(corpus), corpus)
  IN  OnCorpus(c, Plan(RanksOf(c) \o dict.writes, dict.ending))

Plans(c) ==
  IF ~Loads(c) THEN {Failed(c)}
  ELSE CASE c.op \in {"compress", "pack"} -> CompressPlans(c)
         [] c.op = "decompress" -> DecompressPlans(c)
         [] c.op = "read" -> ReadPlans(c)
         [] c.op = "unpack" -> UnpackPlans(c)
         [] c.op = "train-vocab" -> TrainVocabPlans(c)
         [] c.op = "train-dict" -> TrainDictPlans(c)
         [] c.op = "fit" -> FitPlans(c)

(***************************************************************************)
(* The steps of a command.                                                 *)
(***************************************************************************)
Begin ==
  /\ result # "running" /\ given < MaxCommands
  /\ \E c \in Commands : \E plan \in Plans(c) :
        cmd' = c /\ writes' = plan.writes /\ ending' = plan.ending
  /\ result' = "running"
  /\ before' = disk /\ given' = given + 1
  /\ UNCHANGED <<disk, open>>

Put(path, content) == disk' = [disk EXCEPT ![path] = content]

OpenOutput ==
  /\ result = "running" /\ writes # <<>> /\ ~open
  /\ open' = TRUE
  /\ Put(Head(writes)[1], Torn)
  /\ UNCHANGED <<cmd, result, writes, ending, before, given>>

WriteOutput ==
  /\ result = "running" /\ open
  /\ open' = FALSE
  /\ Put(Head(writes)[1], Head(writes)[2])
  /\ writes' = Tail(writes)
  /\ UNCHANGED <<cmd, result, ending, before, given>>

End ==
  /\ result = "running" /\ writes = <<>>
  /\ result' = ending
  /\ UNCHANGED <<disk, cmd, writes, ending, open, before, given>>

\* What a write cut short leaves: of a rank file a shorter chain, of a
\* dictionary one with a part of its fingerprint, or what no reader takes.
CutShort(content) ==
  {Torn} \cup
  CASE content.kind = "ranks" ->
         {Ranks(Chain(content.vocab.corpus, n)) : n \in 0 .. content.vocab.merges}
    [] content.kind = "dict" -> {[content EXCEPT !.whole = FALSE], content}
    [] OTHER -> {content}

Crash ==
  /\ result = "running"
  /\ result' = "crashed"
  /\ open' = FALSE /\ writes' = <<>>
  /\ \/ ~open /\ UNCHANGED disk
     \/ open /\ \E content \in CutShort(Head(writes)[2]) : Put(Head(writes)[1], content)
  /\ UNCHANGED <<cmd, ending, before, given>>

Next == Begin \/ OpenOutput \/ WriteOutput \/ End \/ Crash

Spec == Init /\ [][Next]_vars

-----------------------------------------------------------------------------
Reads(c) == c.op \in {"decompress", "unpack", "read"}
Packs(c) == c.op \in {"compress", "pack"}

\* The record that output n of a command that reads should hold.
Expected(c, n) == before[c.in[1]].records[IF c.op = "read" THEN c.index ELSE n]

(***************************************************************************)
(* What a command that reads an archive leaves in a finished output is the *)
(* record that was put in, whatever happened to the vocabulary and the     *)
(* dictionary files in between: files of another fit, or of one that       *)
(* crashed.  Only without integrity may it be wrong, in two cases: a       *)
(* stream of the default vocabulary read with a trained one, and one of    *)
(* which the coder lost tokens, its dictionary being that of another,      *)
(* smaller vocabulary.                                                     *)
(***************************************************************************)
Unprotected(a, c) == ~a.integrity /\ (a.lost \/ (a.vocab = o200k_base /\ c.vocab # None))

NeverWrong ==
  \A n \in DOMAIN cmd.out :
    /\ result # "running" /\ Reads(cmd)
    /\ disk[cmd.out[n]] # before[cmd.out[n]] /\ disk[cmd.out[n]].kind = "data"
    => \/ disk[cmd.out[n]].record = Expected(cmd, n)
       \/ Unprotected(before[cmd.in[1]], cmd)

(***************************************************************************)
(* A command that raises has changed no file, but for the records unpack   *)
(* had written, whole, before the one that did not decode, and the         *)
(* dictionary whose save itself raised.                                    *)
(***************************************************************************)
FailureKeepsFiles ==
  result = "raised" =>
    \A p \in Paths :
      \/ disk[p] = before[p]
      \/ cmd.op = "unpack" /\ disk[p].kind = "data" /\ p \in ToSet(cmd.out)
      \/ cmd.op = "train-dict" /\ p \in ToSet(cmd.out) /\ InputOf(cmd).record = Empty

(***************************************************************************)
(* An unpack, however it ends, has written the records in order from the   *)
(* first: at most one is cut short, those after it are the files that were *)
(* there, and a finished unpack has written all of them.                   *)
(***************************************************************************)
UnpackInOrder ==
  cmd.op = "unpack" /\ result # "running" /\ before[cmd.in[1]].kind = "archive" =>
    \E k \in 0 .. Len(before[cmd.in[1]].records) :
      /\ \A n \in 1 .. k : disk[cmd.out[n]].kind = "data"
      /\ \A n \in (k + 2) .. Len(cmd.out) : disk[cmd.out[n]] = before[cmd.out[n]]
      /\ k < Len(cmd.out) =>
           disk[cmd.out[k + 1]] \in {before[cmd.out[k + 1]]} \cup
                                     (IF result = "crashed" THEN {Torn} ELSE {})
      /\ result = "ok" => k = Len(before[cmd.in[1]].records)

(***************************************************************************)
(* An archive that was reported written can be read back with the files it *)
(* was written with, by either core, as long as the dictionary is whole    *)
(* and was trained on that vocabulary.                                     *)
(***************************************************************************)
Belongs(c) == DictOf(c) # NoDict => DictOf(c).whole /\ DictOf(c).vocab = VocabOf(c)

ReadableAgain ==
  result = "ok" /\ Packs(cmd) /\ Belongs(cmd) =>
    \A p \in Parts(cmd), native \in BOOLEAN :
      Outcomes(disk[cmd.out[1]], p, VocabOf(cmd), DictOf(cmd), native) = {"right"}
=============================================================================
