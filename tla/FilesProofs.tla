----------------------------- MODULE FilesProofs -----------------------------
(***************************************************************************)
(* Proofs about the files the commands leave behind: for any commands,     *)
(* files and records, however often a command raises or crashes.           *)
(***************************************************************************)
EXTENDS Files, WellFoundedInduction, TLAPS

Recorded == {Originals[p] : p \in DOMAIN Originals}

(***************************************************************************)
(* What may be in a file: an archive has no more records than an unpack    *)
(* has names, a vocabulary is a number of merges, and a dictionary has the *)
(* field by which one that was cut short shows.                            *)
(***************************************************************************)
Proper(x) ==
  /\ x.kind = "archive" =>
       /\ x.records \in Seq(Recorded)
       /\ \A c \in Commands : c.op = "unpack" => Len(x.records) <= Len(c.out)
  /\ x.kind = "ranks" => x.vocab.merges \in Nat
  /\ x.kind = "dict" => {"kind", "whole"} \subseteq DOMAIN x

\* The files of disk d are proper, and the original ones are as they were.
ProperDisk(d) ==
  /\ DOMAIN d = Paths
  /\ \A p \in Paths : Proper(d[p])
  /\ \A p \in Paths \cap DOMAIN Originals : d[p] = Data(Originals[p])

TypeOK ==
  /\ cmd \in Commands
  /\ result \in {"none", "running", "ok", "raised", "crashed"}
  /\ ending \in {"ok", "raised"}
  /\ open \in BOOLEAN /\ (open => result = "running")
  /\ ProperDisk(disk) /\ ProperDisk(before)

-----------------------------------------------------------------------------
(***************************************************************************)
(* What a command that began on disk d may put into its output n, and when *)
(* a number of outputs is all that it writes.                              *)
(***************************************************************************)
VocabAt(d, c) == IF c.vocab = None THEN o200k_base ELSE d[c.vocab].vocab
DictAt(d, c) == IF c.dict = None THEN NoDict ELSE d[c.dict]
ArchiveAt(d, c) == d[c.in[1]]

Right(d, c, n, x) ==
  LET a == ArchiveAt(d, c)
  IN  /\ x.kind = "data"
      /\ \/ x.record = a.records[IF c.op = "read" THEN c.index ELSE n]
         \/ Unprotected(a, c)

Readable(d, c, x) ==
  /\ x.kind = "archive"
  /\ x.vocab = VocabAt(d, c) /\ x.dict = DictAt(d, c)
  /\ c.dict # None => DictAt(d, c).kind = "dict"
  /\ \A p \in Parts(c) : x.uses[p] => c.dict # None
  /\ x.lost => Outside(DictAt(d, c), VocabAt(d, c)) /\ VocabAt(d, c).merges \in Nat

Good(d, c, n, x) ==
  /\ Proper(x)
  /\ Reads(c) => Right(d, c, n, x)
  /\ Packs(c) => Readable(d, c, x)

Complete(d, c, n, end) ==
  /\ n \in 0 .. Len(c.out)
  /\ c.op = "unpack" /\ ArchiveAt(d, c).kind = "archive" =>
       /\ n <= Len(ArchiveAt(d, c).records)
       /\ end = "ok" => n = Len(ArchiveAt(d, c).records)
  /\ end = "raised" =>
       \/ n = 0 \/ c.op = "unpack"
       \/ c.op = "train-dict" /\ ArchiveAt(d, c) = Data(Empty)
  /\ Packs(c) /\ end = "ok" => n = 1

(***************************************************************************)
(* The outputs, as far as they are written: the first k are good, the next *)
(* one is what it was or one of the contents given, all others untouched.  *)
(***************************************************************************)
Left(k, contents) ==
  /\ \A n \in 1 .. k : Good(before, cmd, n, disk[cmd.out[n]])
  /\ k < Len(cmd.out) => disk[cmd.out[k + 1]] \in contents
  /\ \A n \in (k + 2) .. Len(cmd.out) : disk[cmd.out[n]] = before[cmd.out[n]]
  /\ \A p \in Paths \ ToSet(cmd.out) : disk[p] = before[p]

Old(k) == {before[cmd.out[k + 1]]}

Running(k) ==
  /\ writes \in Seq(ToSet(writes))
  /\ \A i \in 1 .. Len(writes) :
        /\ writes[i][1] = cmd.out[k + i]
        /\ Good(before, cmd, k + i, writes[i][2])
  /\ Complete(before, cmd, k + Len(writes), ending)
  /\ open => writes # <<>>
  /\ Left(k, IF open THEN {Torn} ELSE Old(k))

Crashed(k) ==
  /\ \E t \in k .. Len(cmd.out) : Complete(before, cmd, t, ending)
  /\ \/ Left(k, Old(k) \cup {Torn})
     \/ ~Reads(cmd) /\ \E x : Left(k, {x})

Progress ==
  /\ result = "none" => \A p \in Paths : disk[p] = before[p]
  /\ result = "none" => cmd.op = "fit"
  /\ result = "running" => \E k \in 0 .. Len(cmd.out) : Running(k)
  /\ result \in {"ok", "raised"} =>
       \E k \in 0 .. Len(cmd.out) : Complete(before, cmd, k, result) /\ Left(k, Old(k))
  /\ result = "crashed" => \E k \in 0 .. Len(cmd.out) : Crashed(k)

IInv == TypeOK /\ Progress

-----------------------------------------------------------------------------
(***************************************************************************)
(* Commands, disks and sequences.                                          *)
(***************************************************************************)

LEMMA CommandFacts ==
  ASSUME NEW c \in Commands
  PROVE  /\ c.op \in {"compress", "decompress", "pack", "unpack", "read",
                      "train-vocab", "train-dict", "fit"}
         /\ c.in \in Seq(ToSet(c.in)) /\ Len(c.in) \in Nat \ {0} /\ DOMAIN c.in = 1 .. Len(c.in)
         /\ c.out \in Seq(ToSet(c.out)) /\ Len(c.out) \in Nat \ {0}
         /\ DOMAIN c.out = 1 .. Len(c.out)
         /\ \A n \in 1 .. Len(c.in) : c.in[n] \in Paths
         /\ \A n \in 1 .. Len(c.out) : c.out[n] \in Paths \ DOMAIN Originals
         /\ c.vocab # None => c.vocab \in Paths
         /\ c.dict # None => c.dict \in Paths
<1>1. /\ c.in \in Seq(ToSet(c.in)) /\ c.in # <<>> /\ c.out \in Seq(ToSet(c.out)) /\ c.out # <<>>
      /\ ToSet(c.out) \cap DOMAIN Originals = {}
  BY FilesAssumption
<1>2. \A S : \A s \in Seq(S) : s # <<>> => Len(s) \in Nat \ {0} /\ DOMAIN s = 1 .. Len(s)
  OBVIOUS
<1>3. /\ Len(c.in) \in Nat \ {0} /\ DOMAIN c.in = 1 .. Len(c.in)
      /\ Len(c.out) \in Nat \ {0} /\ DOMAIN c.out = 1 .. Len(c.out)
  BY <1>1, <1>2
<1>4. ToSet(c.in) \cup ToSet(c.out) \cup ({c.vocab, c.dict} \ {None}) \subseteq Paths
  BY DEF Paths
<1>5. /\ \A n \in DOMAIN c.in : c.in[n] \in ToSet(c.in)
      /\ \A n \in DOMAIN c.out : c.out[n] \in ToSet(c.out)
  BY DEF ToSet
<1> QED
  BY <1>1, <1>3, <1>4, <1>5, FilesAssumption

\* What is packed or trained on is there as it was.
LEMMA InputsKept ==
  ASSUME NEW d, ProperDisk(d), NEW c \in Commands, ~Reads(c), NEW n \in 1 .. Len(c.in)
  PROVE  /\ d[c.in[n]] = Data(d[c.in[n]].record)
         /\ d[c.in[n]].record \in Recorded
         /\ c.in[n] \notin ToSet(c.out)
<1>1. c.in[n] \in Paths /\ c.in[n] \in DOMAIN Originals /\ c.in[n] \notin ToSet(c.out)
  <2>1. c.in[n] \in ToSet(c.in) /\ c.in[n] \in Paths
    BY CommandFacts DEF ToSet
  <2> QED
    BY <2>1, FilesAssumption DEF Reads
<1>2. d[c.in[n]] = Data(Originals[c.in[n]])
  BY <1>1 DEF ProperDisk
<1> QED
  BY <1>1, <1>2 DEF Data, Recorded

LEMMA TableOfAll ==
  ASSUME NEW m \in Nat, NEW w, w = [i \in 1 .. m |-> w[i]]
  PROVE  w \in Seq(ToSet(w)) /\ Len(w) = m
<1>1. w \in [1 .. m -> ToSet(w)]
  BY DEF ToSet
<1> QED
  BY <1>1

\* A first record that raises exists where any does.
LEMMA FirstRaise ==
  ASSUME NEW m \in Nat, NEW outcomes \in [1 .. m -> {"right", "wrong", "raise"}]
  PROVE  /\ UpTo(outcomes) \in 0 .. m
         /\ \A n \in 1 .. UpTo(outcomes) : outcomes[n] # "raise"
         /\ "raise" \notin ToSet(outcomes) => UpTo(outcomes) = m
<1>1. Len(outcomes) = m /\ DOMAIN outcomes = 1 .. m
  OBVIOUS
<1>2. CASE "raise" \notin ToSet(outcomes)
  BY <1>1, <1>2 DEF UpTo, ToSet
<1>3. CASE "raise" \in ToSet(outcomes)
  <2> DEFINE R == {n \in 1 .. m : outcomes[n] = "raise"}
             First(n) == outcomes[n] = "raise" /\ \A i \in 1 .. (n - 1) : outcomes[i] # "raise"
             f == CHOOSE n \in DOMAIN outcomes : First(n)
  <2>1. R # {} /\ R \subseteq Nat
    BY <1>1, <1>3 DEF ToSet
  <2>2. PICK n \in R : \A i \in R : ~(<<i, n>> \in OpToRel(<, Nat))
    BY <2>1, NatLessThanWellFounded, WFMin
  <2>3. \A i \in R : ~(i < n)
    BY <2>1, <2>2 DEF OpToRel
  <2>4. n \in DOMAIN outcomes /\ First(n)
    BY <1>1, <2>3
  <2>5. f \in DOMAIN outcomes /\ First(f)
    BY <2>4
  <2>6. UpTo(outcomes) = f - 1
    BY <1>3 DEF UpTo
  <2> QED
    BY <1>1, <1>3, <2>5, <2>6
<1> QED
  BY <1>2, <1>3

-----------------------------------------------------------------------------
(***************************************************************************)
(* Plans.  Whatever a command has planned when it begins, what it writes   *)
(* is good and it is complete.                                             *)
(***************************************************************************)
SoundPlan(c, plan) ==
  /\ plan.ending \in {"ok", "raised"}
  /\ plan.writes \in Seq(ToSet(plan.writes))
  /\ \A n \in 1 .. Len(plan.writes) :
        plan.writes[n][1] = c.out[n] /\ Good(disk, c, n, plan.writes[n][2])
  /\ Complete(disk, c, Len(plan.writes), plan.ending)

\* The archive that an unpack reads has a length, and a name for each record.
LEMMA ArchiveFits ==
  ASSUME ProperDisk(disk), NEW c \in Commands, c.op = "unpack",
         ArchiveAt(disk, c).kind = "archive"
  PROVE  Len(ArchiveAt(disk, c).records) \in 0 .. Len(c.out)
<1>1. c.in[1] \in Paths /\ Len(c.out) \in Nat
  BY CommandFacts
<1>2. Proper(ArchiveAt(disk, c))
  BY <1>1 DEF ProperDisk, ArchiveAt
<1>3. \A s \in Seq(Recorded) : Len(s) \in Nat
  OBVIOUS
<1> QED
  BY <1>1, <1>2, <1>3 DEF Proper

LEMMA FailedSound ==
  ASSUME ProperDisk(disk), NEW c \in Commands
  PROVE  SoundPlan(c, Failed(c))
<1>1. <<>> \in Seq(ToSet(<<>>)) /\ Len(<<>>) = 0
  OBVIOUS
<1>2. 0 \in 0 .. Len(c.out)
  BY CommandFacts
<1> QED
  BY <1>1, <1>2, ArchiveFits DEF SoundPlan, Failed, Plan, Complete

LEMMA WriteSound ==
  ASSUME NEW c \in Commands, NEW x, Good(disk, c, 1, x), NEW end \in {"ok", "raised"},
         Complete(disk, c, 1, end)
  PROVE  SoundPlan(c, Plan(<<<<c.out[1], x>>>>, end))
<1> DEFINE w == <<<<c.out[1], x>>>>
<1>1. Len(w) = 1 /\ w[1] = <<c.out[1], x>> /\ w \in Seq(ToSet(w))
  BY DEF ToSet
<1>2. \A n \in 1 .. Len(w) : w[n][1] = c.out[n] /\ Good(disk, c, n, w[n][2])
  <2>1. \A n \in 1 .. Len(w) : n = 1
    BY <1>1
  <2> QED
    BY <1>1, <2>1
<1> HIDE DEF w
<1>3. Plan(w, end).writes = w /\ Plan(w, end).ending = end
  BY DEF Plan
<1>4. SoundPlan(c, Plan(w, end))
  BY <1>1, <1>2, <1>3 DEF SoundPlan
<1> QED
  BY <1>4 DEF w

LEMMA OneWriteSound ==
  ASSUME NEW c \in Commands, c.op # "unpack", NEW x, Good(disk, c, 1, x)
  PROVE  SoundPlan(c, Plan(<<<<c.out[1], x>>>>, "ok"))
<1>1. Complete(disk, c, 1, "ok")
  BY CommandFacts DEF Complete
<1> QED
  BY <1>1, WriteSound

(***************************************************************************)
(* compress and pack.                                                      *)
(***************************************************************************)
LEMMA ArchiveGood ==
  ASSUME ProperDisk(disk), NEW c \in Commands, Packs(c), Loads(c), NEW native \in BOOLEAN,
         NEW a \in Archives(c, native)
  PROVE  Good(disk, c, 1, a)
<1> DEFINE d == DictOf(c)
           v == VocabOf(c)
<1>1. PICK how \in Uses(c) \X BOOLEAN :
        /\ a = Archive(Form(c), Records(c), how[1], v, d, c.integrity, how[2])
        /\ how[2] => d # NoDict /\ Outside(d, v)
  BY DEF Archives, MayLose
<1>2. d = DictAt(disk, c) /\ v = VocabAt(disk, c)
  BY DEF DictOf, VocabOf, DictAt, VocabAt
<1>3. v.merges \in Nat
  <2>1. CASE c.vocab = None
    BY <2>1, FilesAssumption DEF VocabOf, o200k_base
  <2>2. CASE c.vocab # None
    BY <2>2, CommandFacts DEF VocabOf, Loads, LoadsVocab, ProperDisk, Proper
  <2> QED
    BY <2>1, <2>2
<1>4. c.dict # None => d.kind = "dict"
  BY DEF DictOf, Loads, LoadsDict
<1>5. \A p \in Parts(c) : how[1][p] => c.dict # None
  BY <1>1 DEF Uses
<1>6. /\ Records(c) \in Seq(Recorded)
      /\ \A u \in Commands : u.op = "unpack" => Len(Records(c)) <= Len(u.out)
  <2>1. ~Reads(c)
    BY DEF Packs, Reads
  <2>2. Records(c) \in [1 .. Len(c.in) -> Recorded]
    BY <2>1, InputsKept, CommandFacts DEF Records
  <2>3. Len(Records(c)) = Len(c.in)
    BY <2>2, CommandFacts
  <2>4. c.op \in {"compress", "pack"}
    BY DEF Packs
  <2>5. \A u \in Commands : u.op = "unpack" => Len(c.in) <= Len(u.out)
    BY <2>4, FilesAssumption
  <2>6. Records(c) \in Seq(Recorded)
    BY <2>2, CommandFacts
  <2> QED
    BY <2>3, <2>5, <2>6
<1> HIDE DEF d, v
<1>7. Proper(a)
  BY <1>1, <1>6 DEF Proper, Archive
<1>8. Readable(disk, c, a)
  BY <1>1, <1>2, <1>3, <1>4, <1>5 DEF Readable, Archive
<1>9. ~Reads(c)
  BY DEF Packs, Reads
<1> QED
  BY <1>7, <1>8, <1>9 DEF Good

LEMMA CompressSound ==
  ASSUME ProperDisk(disk), NEW c \in Commands, Packs(c), Loads(c), NEW plan \in CompressPlans(c)
  PROVE  SoundPlan(c, plan)
<1>1. c.op # "unpack"
  BY DEF Packs
<1>2. ASSUME NEW native \in BOOLEAN, NEW a \in Archives(c, native),
             plan = Plan(<<<<c.out[1], a>>>>, "ok")
      PROVE  SoundPlan(c, plan)
  BY <1>1, <1>2, ArchiveGood, OneWriteSound
<1> QED
  BY <1>2, FailedSound DEF CompressPlans

(***************************************************************************)
(* decompress, read and unpack.                                            *)
(***************************************************************************)
\* A part that is not refused is right, or it is one of the excused cases.
LEMMA OutcomeRight ==
  ASSUME NEW c, NEW a, NEW p, NEW n, NEW native \in BOOLEAN,
         NEW outcome \in Outcomes(a, p, VocabOf(c), DictOf(c), native), outcome # "raise"
  PROVE  /\ Result(a, n, outcome).kind = "data"
         /\ \/ Result(a, n, outcome).record = a.records[n]
            \/ Unprotected(a, c)
<1>1. CASE outcome = "right"
  BY <1>1 DEF Result, Data
<1>2. CASE outcome # "right"
  <2>1. ~StampRefuses(a, VocabOf(c)) /\ (a.lost \/ VocabOf(c) # a.vocab) /\ outcome \in Loose(a)
    BY <1>2 DEF Outcomes
  <2>2. ~a.integrity
    BY <1>2, <2>1 DEF Loose
  <2>3. ~a.lost => a.vocab = o200k_base /\ c.vocab # None
    BY <2>1 DEF StampRefuses, VocabOf
  <2> QED
    BY <2>2, <2>3 DEF Result, Data, Unprotected
<1> QED
  BY <1>1, <1>2

LEMMA OnePlanSound ==
  ASSUME ProperDisk(disk), NEW c \in Commands, c.op \in {"decompress", "read"},
         NEW plan \in OnePlan(c, IF c.op = "read" THEN c.index ELSE 1)
  PROVE  SoundPlan(c, plan)
<1> DEFINE a == InputOf(c)
           p == IF c.op = "read" THEN c.index ELSE 1
<1>1. PICK native \in BOOLEAN : \E outcome \in Outcomes(a, p, VocabOf(c), DictOf(c), native) :
        plan = IF outcome = "raise" THEN Failed(c)
               ELSE Plan(<<<<c.out[1], Result(a, p, outcome)>>>>, "ok")
  BY DEF OnePlan
<1>2. PICK outcome \in Outcomes(a, p, VocabOf(c), DictOf(c), native) :
        plan = IF outcome = "raise" THEN Failed(c)
               ELSE Plan(<<<<c.out[1], Result(a, p, outcome)>>>>, "ok")
  BY <1>1
<1>3. CASE outcome = "raise"
  BY <1>2, <1>3, FailedSound
<1>4. CASE outcome # "raise"
  <2>1. /\ Result(a, p, outcome).kind = "data"
        /\ Result(a, p, outcome).record = a.records[p] \/ Unprotected(a, c)
    BY <1>4, OutcomeRight
  <2>2. Right(disk, c, 1, Result(a, p, outcome))
    BY <2>1 DEF Right, ArchiveAt, InputOf
  <2>3. Good(disk, c, 1, Result(a, p, outcome))
    BY <2>2 DEF Good, Right, Proper, Packs
  <2> QED
    BY <1>2, <1>4, <2>3, OneWriteSound
<1> QED
  BY <1>3, <1>4

LEMMA UnpackSound ==
  ASSUME ProperDisk(disk), NEW c \in Commands, c.op = "unpack", NEW plan \in UnpackPlans(c)
  PROVE  SoundPlan(c, plan)
<1> DEFINE a == InputOf(c)
           m == Len(a.records)
<1>1. CASE a.kind # "archive"
  BY <1>1, FailedSound DEF UnpackPlans
<1>2. CASE a.kind = "archive"
  <2>1. a = ArchiveAt(disk, c) /\ m \in 0 .. Len(c.out) /\ Len(c.out) \in Nat
    BY <1>2, ArchiveFits, CommandFacts DEF ArchiveAt, InputOf
  <2>2. PICK outcomes \in [1 .. m -> {"right", "wrong", "raise"}] :
          /\ \A p \in 1 .. m : \E native \in BOOLEAN :
               outcomes[p] \in Outcomes(a, IF a.form = "TOKB" THEN 1 ELSE p,
                                       VocabOf(c), DictOf(c), native)
          /\ plan = Plan(Written(c, [n \in 1 .. UpTo(outcomes) |-> Result(a, n, outcomes[n])]),
                         Ending(outcomes))
    BY <1>2 DEF UnpackPlans
  <2> DEFINE w == [n \in 1 .. UpTo(outcomes) |-> <<c.out[n], Result(a, n, outcomes[n])>>]
  <2>3. /\ UpTo(outcomes) \in 0 .. m
        /\ \A n \in 1 .. UpTo(outcomes) : outcomes[n] # "raise"
        /\ "raise" \notin ToSet(outcomes) => UpTo(outcomes) = m
    BY <2>1, FirstRaise
  <2>4. plan.writes = w /\ plan.ending = Ending(outcomes)
    BY <2>2 DEF Plan, Written
  <2>5. w \in Seq(ToSet(w)) /\ Len(w) = UpTo(outcomes)
    <3> DEFINE u == UpTo(outcomes)
    <3>1. u \in Nat /\ w = [n \in 1 .. u |-> w[n]]
      BY <2>1, <2>3
    <3> HIDE DEF u, w
    <3>2. w \in Seq(ToSet(w)) /\ Len(w) = u
      BY <3>1, TableOfAll
    <3> QED
      BY <3>2 DEF u
  <2>6. ASSUME NEW n \in 1 .. UpTo(outcomes)
        PROVE  w[n][1] = c.out[n] /\ Good(disk, c, n, w[n][2])
    <3>1. n \in 1 .. m /\ outcomes[n] # "raise"
      BY <2>1, <2>3
    <3> DEFINE p == IF a.form = "TOKB" THEN 1 ELSE n
               outcome == outcomes[n]
    <3>2. PICK native \in BOOLEAN : outcome \in Outcomes(a, p, VocabOf(c), DictOf(c), native)
      BY <2>2, <3>1
    <3>3. /\ Result(a, n, outcome).kind = "data"
          /\ Result(a, n, outcome).record = a.records[n] \/ Unprotected(a, c)
      <4> HIDE DEF a, p, outcome
      <4> QED
        BY ONLY <3>1, <3>2, OutcomeRight DEF outcome
    <3>4. Right(disk, c, n, Result(a, n, outcome))
      BY <2>1, <3>3 DEF Right
    <3>5. w[n] = <<c.out[n], Result(a, n, outcomes[n])>>
      OBVIOUS
    <3> QED
      BY <3>3, <3>4, <3>5 DEF Good, Proper, Packs
  <2>7. Complete(disk, c, UpTo(outcomes), Ending(outcomes)) /\ Ending(outcomes) \in {"ok", "raised"}
    <3>1. UpTo(outcomes) \in 0 .. Len(c.out)
      BY <2>1, <2>3
    <3>2. UpTo(outcomes) <= m /\ (Ending(outcomes) = "ok" => UpTo(outcomes) = m)
      BY <2>1, <2>3 DEF Ending
    <3>3. Ending(outcomes) \in {"ok", "raised"}
      BY DEF Ending
    <3> QED
      BY <2>1, <3>1, <3>2, <3>3 DEF Complete, Packs
  <2> HIDE DEF w
  <2> QED
    BY <2>4, <2>5, <2>6, <2>7 DEF SoundPlan
<1> QED
  BY <1>1, <1>2

(***************************************************************************)
(* train-vocab, train-dict and fit.                                        *)
(***************************************************************************)
Trains(c) == c.op \in {"train-vocab", "train-dict", "fit"}

LEMMA TrainedGood ==
  ASSUME ProperDisk(disk), NEW c \in Commands, Trains(c), NEW n, NEW v, NEW s
  PROVE  /\ InputOf(c) = Data(InputOf(c).record)
         /\ Good(disk, c, n, Ranks(Trained(InputOf(c).record)))
         /\ Good(disk, c, n, TokDict(v, s, TRUE))
         /\ Good(disk, c, n, Torn)
<1>1. ~Reads(c) /\ ~Packs(c) /\ 1 \in 1 .. Len(c.in)
  BY CommandFacts DEF Trains, Reads, Packs
<1>2. InputOf(c) = Data(InputOf(c).record) /\ InputOf(c).record \in Recorded
  BY <1>1, InputsKept DEF InputOf
<1>3. Merges(InputOf(c).record) \in Nat
  BY <1>2, FilesAssumption DEF Recorded
<1>4. Proper(Ranks(Trained(InputOf(c).record)))
  BY <1>3 DEF Proper, Ranks, Trained, Chain
<1>5. Proper(TokDict(v, s, TRUE)) /\ Proper(Torn)
  BY DEF Proper, TokDict, Torn
<1> QED
  BY <1>1, <1>2, <1>4, <1>5 DEF Good

LEMMA TrainVocabSound ==
  ASSUME ProperDisk(disk), NEW c \in Commands, c.op = "train-vocab",
         NEW plan \in TrainVocabPlans(c)
  PROVE  SoundPlan(c, plan)
<1>1. SoundPlan(c, Plan(RanksOf(c), "ok"))
  BY TrainedGood, OneWriteSound DEF Trains, RanksOf
<1> QED
  BY <1>1, FailedSound DEF TrainVocabPlans, OnCorpus

\* The save of a dictionary of the empty record raises, and leaves it torn.
LEMMA TrainDictSound ==
  ASSUME ProperDisk(disk), NEW c \in Commands, c.op = "train-dict",
         NEW plan \in TrainDictPlans(c)
  PROVE  SoundPlan(c, plan)
<1> DEFINE samples == InputOf(c).record
<1>1. Trains(c)
  BY DEF Trains
<1>2. CASE samples = Empty
  <2>1. plan = Plan(<<<<c.out[1], Torn>>>>, "raised")
    BY <1>2 DEF TrainDictPlans, Saved
  <2>2. ArchiveAt(disk, c) = Data(Empty)
    BY <1>1, <1>2, TrainedGood DEF ArchiveAt, InputOf
  <2>3. Complete(disk, c, 1, "raised")
    BY <2>2, CommandFacts DEF Complete
  <2> QED
    BY <1>1, <2>1, <2>3, TrainedGood, WriteSound
<1>3. CASE samples # Empty
  <2>1. plan = Plan(<<<<c.out[1], TokDict(o200k_base, samples, TRUE)>>>>, "ok")
    BY <1>3 DEF TrainDictPlans, Saved
  <2> QED
    BY <1>1, <2>1, TrainedGood, OneWriteSound
<1> QED
  BY <1>2, <1>3

LEMMA FitSound ==
  ASSUME ProperDisk(disk), NEW c \in Commands, c.op = "fit", NEW plan \in FitPlans(c)
  PROVE  SoundPlan(c, plan)
<1> DEFINE corpus == InputOf(c).record
           r == <<c.out[1], Ranks(Trained(corpus))>>
           d == <<c.out[2], TokDict(Trained(corpus), corpus, TRUE)>>
           w == <<r>> \o <<d>>
<1>1. CASE corpus = Empty
  BY <1>1, FailedSound DEF FitPlans, OnCorpus
<1>2. CASE corpus # Empty
  <2>1. plan = Plan(w, "ok")
    BY <1>2 DEF FitPlans, OnCorpus, Saved, RanksOf, Plan
  <2>2. Good(disk, c, 1, r[2]) /\ Good(disk, c, 2, d[2])
    BY TrainedGood DEF Trains
  <2>3. w \in Seq({r, d}) /\ Len(w) = 2 /\ w[1] = r /\ w[2] = d
    <3> HIDE DEF r, d
    <3>1. \A t, u \in Seq({r, d}) :
            /\ t \o u \in Seq({r, d}) /\ Len(t \o u) = Len(t) + Len(u)
            /\ \A i \in 1 .. Len(t) : (t \o u)[i] = t[i]
            /\ \A i \in 1 .. Len(u) : (t \o u)[Len(t) + i] = u[i]
      OBVIOUS
    <3>2. <<r>> \in Seq({r, d}) /\ Len(<<r>>) = 1 /\ <<d>> \in Seq({r, d}) /\ Len(<<d>>) = 1
      OBVIOUS
    <3> QED
      BY <3>1, <3>2
  <2>4. w \in Seq(ToSet(w)) /\ \A n \in 1 .. Len(w) : n = 1 \/ n = 2
    <3> HIDE DEF w, r, d
    <3>1. w = [n \in 1 .. 2 |-> w[n]]
      BY <2>3
    <3>2. w \in Seq(ToSet(w))
      BY <3>1, TableOfAll
    <3> QED
      BY <2>3, <3>2
  <2>5. r[1] = c.out[1] /\ d[1] = c.out[2]
    OBVIOUS
  <2>6. Complete(disk, c, 2, "ok")
    <3>1. Len(c.out) = 2
      BY FilesAssumption
    <3> QED
      BY <3>1 DEF Complete, Packs
  <2> HIDE DEF w, r, d
  <2>7. plan.writes = w /\ plan.ending = "ok"
    BY <2>1 DEF Plan
  <2> QED
    BY <2>2, <2>3, <2>4, <2>5, <2>6, <2>7 DEF SoundPlan
<1> QED
  BY <1>1, <1>2

LEMMA PlansSound ==
  ASSUME ProperDisk(disk), NEW c \in Commands, NEW plan \in Plans(c)
  PROVE  SoundPlan(c, plan)
<1>1. CASE ~Loads(c)
  BY <1>1, FailedSound DEF Plans
<1>2. CASE Loads(c) /\ Packs(c)
  BY <1>2, CompressSound DEF Plans, Packs
<1>3. CASE Loads(c) /\ c.op = "decompress"
  BY <1>3, OnePlanSound, FailedSound DEF Plans, DecompressPlans
<1>4. CASE Loads(c) /\ c.op = "read"
  BY <1>4, OnePlanSound, FailedSound DEF Plans, ReadPlans
<1>5. CASE Loads(c) /\ c.op = "unpack"
  BY <1>5, UnpackSound DEF Plans
<1>6. CASE Loads(c) /\ c.op = "train-vocab"
  BY <1>6, TrainVocabSound DEF Plans
<1>7. CASE Loads(c) /\ c.op = "train-dict"
  BY <1>7, TrainDictSound DEF Plans
<1>8. CASE Loads(c) /\ c.op = "fit"
  BY <1>8, FitSound DEF Plans
<1> QED
  BY <1>1, <1>2, <1>3, <1>4, <1>5, <1>6, <1>7, <1>8, CommandFacts DEF Packs

-----------------------------------------------------------------------------
(***************************************************************************)
(* The invariant.                                                          *)
(***************************************************************************)

\* The file that changes is an output, and what is put there is proper.
LEMMA PutProper ==
  ASSUME ProperDisk(disk), NEW c \in Commands, NEW n \in 1 .. Len(c.out), NEW x, Proper(x),
         Put(c.out[n], x)
  PROVE  /\ ProperDisk(disk')
         /\ disk'[c.out[n]] = x
         /\ \A m \in 1 .. Len(c.out) : m # n => disk'[c.out[m]] = disk[c.out[m]]
         /\ \A p \in Paths \ ToSet(c.out) : disk'[p] = disk[p]
<1>1. c.out[n] \in Paths \ DOMAIN Originals /\ c.out[n] \in ToSet(c.out)
  BY CommandFacts DEF ToSet
<1>2. \A m \in 1 .. Len(c.out) : m # n => c.out[m] \in Paths /\ c.out[m] # c.out[n]
  BY CommandFacts, FilesAssumption
<1>3. /\ DOMAIN disk' = Paths /\ disk'[c.out[n]] = x
      /\ \A p \in Paths : p # c.out[n] => disk'[p] = disk[p]
  BY <1>1 DEF Put, ProperDisk
<1>4. ProperDisk(disk')
  BY <1>1, <1>3 DEF ProperDisk
<1> QED
  BY <1>1, <1>2, <1>3, <1>4

LEMMA IInit == Init => IInv
<1> SUFFICES ASSUME Init PROVE IInv
  OBVIOUS
<1>1. cmd \in Commands /\ cmd.op = "fit"
  BY FilesAssumption DEF Init
<1>2. ProperDisk(disk)
  <2>1. \A p \in Paths : disk[p] = IF p \in DOMAIN Originals THEN Data(Originals[p]) ELSE Absent
    BY DEF Init
  <2>2. \A p \in Paths : Proper(disk[p])
    <3>1. \A r : Proper(Data(r))
      BY DEF Proper, Data
    <3>2. Proper(Absent)
      BY DEF Proper, Absent
    <3> QED
      BY <2>1, <3>1, <3>2
  <2> QED
    BY <2>1, <2>2 DEF Init, ProperDisk
<1> QED
  BY <1>1, <1>2 DEF Init, IInv, TypeOK, Progress

LEMMA BeginStep == IInv /\ Begin => IInv'
<1> SUFFICES ASSUME IInv, Begin PROVE IInv'
  OBVIOUS
<1>1. PICK c \in Commands : \E plan \in Plans(c) :
        cmd' = c /\ writes' = plan.writes /\ ending' = plan.ending
  BY DEF Begin
<1>2. PICK plan \in Plans(c) : cmd' = c /\ writes' = plan.writes /\ ending' = plan.ending
  BY <1>1
<1>3. /\ result' = "running" /\ before' = disk /\ disk' = disk
      /\ ~open' /\ open' \in BOOLEAN /\ ProperDisk(disk)
  BY DEF Begin, IInv, TypeOK
<1>4. SoundPlan(c, plan)
  BY <1>3, PlansSound
<1>5. TypeOK'
  BY <1>2, <1>3, <1>4 DEF TypeOK, SoundPlan
<1>6. Running(0)'
  <2>1. Len(writes') \in Nat
    BY <1>2, <1>4 DEF SoundPlan
  <2>2. \A i \in 1 .. Len(writes') : 0 + i = i
    OBVIOUS
  <2>3. Left(0, Old(0))'
    BY <1>3, CommandFacts DEF Left, Old
  <2>4. /\ writes' \in Seq(ToSet(writes'))
        /\ \A i \in 1 .. Len(writes') :
              writes'[i][1] = cmd'.out[0 + i] /\ Good(before', cmd', 0 + i, writes'[i][2])
        /\ Complete(before', cmd', 0 + Len(writes'), ending')
    BY <1>2, <1>3, <1>4, <2>1, <2>2 DEF SoundPlan
  <2> QED
    BY <1>3, <2>3, <2>4 DEF Running
<1>7. 0 \in 0 .. Len(cmd'.out)
  BY <1>2, CommandFacts
<1>8. Progress'
  BY <1>3, <1>6, <1>7 DEF Progress
<1> QED
  BY <1>5, <1>8 DEF IInv

\* The next write of a command that runs, and those that are left after it.
LEMMA NextWrite ==
  ASSUME writes \in Seq(ToSet(writes)), writes # <<>>
  PROVE  /\ Len(writes) \in Nat \ {0} /\ Head(writes) = writes[1]
         /\ Tail(writes) \in Seq(ToSet(Tail(writes))) /\ Len(Tail(writes)) = Len(writes) - 1
         /\ \A i \in 1 .. Len(Tail(writes)) :
               i + 1 \in 1 .. Len(writes) /\ Tail(writes)[i] = writes[i + 1]
<1> DEFINE m == Len(writes) - 1
           w == Tail(writes)
<1>1. \A S : \A s \in Seq(S) : s # <<>> =>
        /\ Len(s) \in Nat \ {0} /\ Head(s) = s[1]
        /\ Tail(s) \in Seq(S) /\ Len(Tail(s)) = Len(s) - 1
        /\ \A i \in 1 .. (Len(s) - 1) : Tail(s)[i] = s[i + 1]
  OBVIOUS
<1>2. /\ Len(writes) \in Nat \ {0} /\ Head(writes) = writes[1]
      /\ w \in Seq(ToSet(writes)) /\ Len(w) = m
      /\ \A i \in 1 .. m : w[i] = writes[i + 1]
  BY <1>1
<1>3. m \in Nat /\ \A i \in 1 .. m : i + 1 \in 1 .. Len(writes)
  BY <1>2
<1> HIDE DEF m, w
<1>4. w = [i \in 1 .. m |-> w[i]]
  BY <1>2, <1>3
<1>5. w \in Seq(ToSet(w))
  BY <1>3, <1>4, TableOfAll
<1> QED
  BY <1>2, <1>3, <1>5 DEF m, w

\* Where the next write goes.
LEMMA NextOutput ==
  ASSUME cmd \in Commands, NEW k \in 0 .. Len(cmd.out), Running(k), writes # <<>>
  PROVE  /\ k \in Nat /\ k + 1 \in 1 .. Len(cmd.out) /\ Len(cmd.out) \in Nat
         /\ Head(writes)[1] = cmd.out[k + 1]
         /\ Good(before, cmd, k + 1, Head(writes)[2])
<1>1. Len(writes) \in Nat \ {0} /\ Head(writes) = writes[1]
  BY NextWrite DEF Running
<1>2. k + Len(writes) \in 0 .. Len(cmd.out) /\ Len(cmd.out) \in Nat
  BY CommandFacts DEF Running, Complete
<1>3. 1 \in 1 .. Len(writes)
  BY <1>1
<1> QED
  BY <1>1, <1>2, <1>3 DEF Running

LEMMA OpenStep == IInv /\ OpenOutput => IInv'
<1> SUFFICES ASSUME IInv, OpenOutput PROVE IInv'
  OBVIOUS
<1>1. PICK k \in 0 .. Len(cmd.out) : Running(k)
  BY DEF IInv, Progress, OpenOutput
<1>2. /\ result = "running" /\ writes # <<>> /\ ~open /\ open' = TRUE
      /\ Put(Head(writes)[1], Torn)
      /\ UNCHANGED <<cmd, result, writes, ending, before, given>>
  BY DEF OpenOutput
<1>3. /\ k \in Nat /\ k + 1 \in 1 .. Len(cmd.out) /\ Len(cmd.out) \in Nat
      /\ Head(writes)[1] = cmd.out[k + 1]
  BY <1>1, <1>2, NextOutput DEF IInv, TypeOK
<1>4. /\ ProperDisk(disk') /\ disk'[cmd.out[k + 1]] = Torn
      /\ \A m \in 1 .. Len(cmd.out) : m # k + 1 => disk'[cmd.out[m]] = disk[cmd.out[m]]
      /\ \A p \in Paths \ ToSet(cmd.out) : disk'[p] = disk[p]
  <2>1. Proper(Torn)
    BY DEF Proper, Torn
  <2> QED
    BY <1>2, <1>3, <2>1, PutProper DEF IInv, TypeOK
<1>5. TypeOK'
  BY <1>2, <1>4 DEF IInv, TypeOK
<1>6. Left(k, {Torn})'
  BY <1>1, <1>2, <1>3, <1>4 DEF Running, Left
<1>7. Running(k)'
  BY <1>1, <1>2, <1>6 DEF Running
<1>8. Progress'
  BY <1>1, <1>2, <1>7 DEF Progress
<1> QED
  BY <1>5, <1>8 DEF IInv

LEMMA WriteStep == IInv /\ WriteOutput => IInv'
<1> SUFFICES ASSUME IInv, WriteOutput PROVE IInv'
  OBVIOUS
<1>1. PICK k \in 0 .. Len(cmd.out) : Running(k)
  BY DEF IInv, Progress, WriteOutput
<1>2. /\ result = "running" /\ writes # <<>> /\ open /\ open' = FALSE
      /\ writes' = Tail(writes)
      /\ Put(Head(writes)[1], Head(writes)[2])
      /\ UNCHANGED <<cmd, result, ending, before, given>>
  BY <1>1 DEF WriteOutput, Running
<1>3. /\ k \in Nat /\ k + 1 \in 1 .. Len(cmd.out) /\ Len(cmd.out) \in Nat
      /\ Head(writes)[1] = cmd.out[k + 1]
      /\ Good(before, cmd, k + 1, Head(writes)[2])
  BY <1>1, <1>2, NextOutput DEF IInv, TypeOK
<1>4. /\ ProperDisk(disk') /\ disk'[cmd.out[k + 1]] = Head(writes)[2]
      /\ \A m \in 1 .. Len(cmd.out) : m # k + 1 => disk'[cmd.out[m]] = disk[cmd.out[m]]
      /\ \A p \in Paths \ ToSet(cmd.out) : disk'[p] = disk[p]
  BY <1>2, <1>3, PutProper DEF IInv, TypeOK, Good
<1>5. TypeOK'
  BY <1>2, <1>4 DEF IInv, TypeOK
<1>6. Left(k + 1, Old(k + 1))'
  <2>1. Left(k, {Torn})
    BY <1>1, <1>2 DEF Running
  <2>2. ASSUME NEW n \in 1 .. (k + 1) PROVE Good(before, cmd, n, disk'[cmd.out[n]])
    <3>1. CASE n = k + 1
      BY <1>3, <1>4, <3>1
    <3>2. CASE n # k + 1
      BY <1>3, <1>4, <2>1, <3>2 DEF Left
    <3> QED
      BY <3>1, <3>2
  <2>3. \A n \in (k + 2) .. Len(cmd.out) : disk'[cmd.out[n]] = before[cmd.out[n]]
    BY <1>3, <1>4, <2>1 DEF Left
  <2>4. k + 1 < Len(cmd.out) => (k + 1) + 1 \in (k + 2) .. Len(cmd.out)
    BY <1>3
  <2>5. \A n \in ((k + 1) + 2) .. Len(cmd.out) : n \in (k + 2) .. Len(cmd.out)
    BY <1>3
  <2>6. \A p \in Paths \ ToSet(cmd.out) : disk'[p] = before[p]
    BY <1>4, <2>1 DEF Left
  <2> QED
    BY <1>2, <2>2, <2>3, <2>4, <2>5, <2>6 DEF Left, Old
<1>7. Running(k + 1)'
  <2>1. /\ Len(writes) \in Nat \ {0}
        /\ writes' \in Seq(ToSet(writes')) /\ Len(writes') = Len(writes) - 1
        /\ \A i \in 1 .. Len(writes') : i + 1 \in 1 .. Len(writes) /\ writes'[i] = writes[i + 1]
    BY <1>1, <1>2, NextWrite DEF Running
  <2>2. (k + 1) + Len(writes') = k + Len(writes)
    BY <1>3, <2>1
  <2>3. ASSUME NEW i \in 1 .. Len(writes')
        PROVE  /\ writes'[i][1] = cmd.out[(k + 1) + i]
               /\ Good(before, cmd, (k + 1) + i, writes'[i][2])
    <3>1. k + (i + 1) = (k + 1) + i
      BY <1>3
    <3> QED
      BY <1>1, <2>1, <3>1 DEF Running
  <2> QED
    BY <1>1, <1>2, <1>6, <2>1, <2>2, <2>3 DEF Running
<1>8. k + 1 \in 0 .. Len(cmd.out)
  BY <1>3
<1>9. Progress'
  BY <1>2, <1>7, <1>8 DEF Progress
<1> QED
  BY <1>5, <1>9 DEF IInv

LEMMA EndStep == IInv /\ End => IInv'
<1> SUFFICES ASSUME IInv, End PROVE IInv'
  OBVIOUS
<1>1. PICK k \in 0 .. Len(cmd.out) : Running(k)
  BY DEF IInv, Progress, End
<1>2. /\ result = "running" /\ writes = <<>> /\ result' = ending
      /\ UNCHANGED <<disk, cmd, writes, ending, open, before, given>>
  BY DEF End
<1>3. ~open
  BY <1>1, <1>2 DEF Running
<1>4. TypeOK'
  BY <1>2, <1>3 DEF IInv, TypeOK
<1>5. k + Len(writes) = k
  BY <1>2, CommandFacts DEF IInv, TypeOK
<1>6. Complete(before, cmd, k, ending) /\ Left(k, Old(k))
  BY <1>1, <1>3, <1>5 DEF Running
<1>7. (Complete(before, cmd, k, result) /\ Left(k, Old(k)))'
  BY <1>2, <1>6 DEF Left, Old
<1>8. ending \in {"ok", "raised"}
  BY DEF IInv, TypeOK
<1>9. Progress'
  BY <1>2, <1>7, <1>8 DEF Progress
<1> QED
  BY <1>4, <1>9 DEF IInv

\* What is cut short is proper, and of a record nothing or all of it is left.
LEMMA CutShortProper ==
  ASSUME NEW x, Proper(x), NEW y \in CutShort(x)
  PROVE  Proper(y) /\ (x.kind = "data" => y \in {Torn, x})
<1>1. Proper(Torn)
  BY DEF Proper, Torn
<1>2. CASE x.kind = "ranks"
  <2>1. ASSUME NEW n \in 0 .. x.vocab.merges PROVE Proper(Ranks(Chain(x.vocab.corpus, n)))
    BY <1>2 DEF Proper, Ranks, Chain
  <2>2. y = Torn \/ \E n \in 0 .. x.vocab.merges : y = Ranks(Chain(x.vocab.corpus, n))
    BY <1>2 DEF CutShort
  <2> QED
    BY <1>1, <1>2, <2>1, <2>2
<1>3. CASE x.kind = "dict"
  <2> DEFINE z == [x EXCEPT !.whole = FALSE]
  <2>1. y = Torn \/ y = z \/ y = x
    BY <1>3 DEF CutShort
  <2>2. z.kind = "dict" /\ DOMAIN z = DOMAIN x /\ {"kind", "whole"} \subseteq DOMAIN x
    BY <1>3 DEF Proper
  <2>3. Proper(z)
    BY <2>2 DEF Proper
  <2> QED
    BY <1>1, <1>3, <2>1, <2>3
<1>4. CASE x.kind # "ranks" /\ x.kind # "dict"
  BY <1>1, <1>4 DEF CutShort
<1> QED
  BY <1>2, <1>3, <1>4

LEMMA CrashStep == IInv /\ Crash => IInv'
<1> SUFFICES ASSUME IInv, Crash PROVE IInv'
  OBVIOUS
<1>1. PICK k \in 0 .. Len(cmd.out) : Running(k)
  BY DEF IInv, Progress, Crash
<1>2. /\ result = "running" /\ result' = "crashed" /\ open' = FALSE
      /\ UNCHANGED <<cmd, ending, before, given>>
  BY DEF Crash
<1> DEFINE t == k + Len(writes)
<1>3. Complete(before, cmd, t, ending)
  BY <1>1 DEF Running
<1>4. k \in Nat /\ Len(writes) \in Nat /\ t \in k .. Len(cmd.out) /\ Len(cmd.out) \in Nat
  <2>1. Len(writes) \in Nat /\ Len(cmd.out) \in Nat
    BY <1>1, CommandFacts DEF Running, IInv, TypeOK
  <2> QED
    BY <1>3, <2>1 DEF Complete
<1> HIDE DEF t
<1>5. CASE ~open /\ UNCHANGED disk
  <2>1. TypeOK'
    BY <1>2, <1>5 DEF IInv, TypeOK
  <2>2. Left(k, Old(k) \cup {Torn})'
    BY <1>1, <1>2, <1>5 DEF Running, Left, Old
  <2>3. Crashed(k)'
    BY <1>2, <1>3, <1>4, <2>2 DEF Crashed
  <2>4. Progress'
    BY <1>2, <2>3 DEF Progress
  <2> QED
    BY <2>1, <2>4 DEF IInv
<1>6. CASE open /\ \E content \in CutShort(Head(writes)[2]) : Put(Head(writes)[1], content)
  <2> DEFINE x == Head(writes)[2]
  <2>1. PICK y \in CutShort(x) : Put(Head(writes)[1], y)
    BY <1>6
  <2>2. Left(k, {Torn}) /\ writes # <<>>
    BY <1>1, <1>6 DEF Running
  <2>3. /\ k + 1 \in 1 .. Len(cmd.out) /\ Head(writes)[1] = cmd.out[k + 1]
        /\ Good(before, cmd, k + 1, x)
    BY <1>1, <2>2, NextOutput DEF IInv, TypeOK
  <2>4. t \in (k + 1) .. Len(cmd.out)
    BY <1>1, <1>4, <2>2, NextWrite DEF Running, t
  <2>5. Proper(y) /\ (x.kind = "data" => y \in {Torn, x})
    BY <2>1, <2>3, CutShortProper DEF Good
  <2> HIDE DEF x
  <2>6. /\ ProperDisk(disk') /\ disk'[cmd.out[k + 1]] = y
        /\ \A m \in 1 .. Len(cmd.out) : m # k + 1 => disk'[cmd.out[m]] = disk[cmd.out[m]]
        /\ \A p \in Paths \ ToSet(cmd.out) : disk'[p] = disk[p]
    BY <2>1, <2>3, <2>5, PutProper DEF IInv, TypeOK
  <2>7. TypeOK'
    BY <1>2, <2>6 DEF IInv, TypeOK
  <2>8. /\ \A n \in 1 .. k : Good(before, cmd, n, disk'[cmd.out[n]])
        /\ \A n \in (k + 2) .. Len(cmd.out) : disk'[cmd.out[n]] = before[cmd.out[n]]
        /\ \A p \in Paths \ ToSet(cmd.out) : disk'[p] = before[p]
    BY <1>4, <2>2, <2>3, <2>6 DEF Left
  <2>9. \E i \in 0 .. Len(cmd.out) : Crashed(i)'
    <3>1. CASE ~Reads(cmd)
      <4>1. Left(k, {y})'
        BY <1>2, <2>6, <2>8 DEF Left
      <4> QED
        BY <1>2, <1>3, <1>4, <3>1, <4>1 DEF Crashed
    <3>2. CASE y = Torn
      <4>1. Left(k, Old(k) \cup {Torn})'
        BY <1>2, <2>6, <2>8, <3>2 DEF Left, Old
      <4> QED
        BY <1>2, <1>3, <1>4, <4>1 DEF Crashed
    <3>3. CASE Reads(cmd) /\ y = x
      <4>1. Left(k + 1, Old(k + 1) \cup {Torn})'
        <5>1. ASSUME NEW n \in 1 .. (k + 1) PROVE Good(before, cmd, n, disk'[cmd.out[n]])
          <6>1. CASE n = k + 1
            BY <2>3, <2>6, <3>3, <6>1
          <6>2. CASE n # k + 1
            BY <1>4, <2>8, <6>2
          <6> QED
            BY <6>1, <6>2
        <5>2. k + 1 < Len(cmd.out) => (k + 1) + 1 \in (k + 2) .. Len(cmd.out)
          BY <1>4
        <5>3. \A n \in ((k + 1) + 2) .. Len(cmd.out) : n \in (k + 2) .. Len(cmd.out)
          BY <1>4
        <5> QED
          BY <1>2, <2>8, <5>1, <5>2, <5>3 DEF Left, Old
      <4>2. Crashed(k + 1)'
        BY <1>2, <1>3, <2>4, <4>1 DEF Crashed
      <4>3. k + 1 \in 0 .. Len(cmd.out)
        BY <2>3
      <4> QED
        BY <4>2, <4>3
    <3> QED
      BY <2>3, <2>5, <3>1, <3>2, <3>3 DEF Good, Right
  <2>10. Progress'
    BY <1>2, <2>9 DEF Progress
  <2> QED
    BY <2>7, <2>10 DEF IInv
<1> QED
  BY <1>5, <1>6 DEF Crash

LEMMA Inductive == Spec => []IInv
<1>1. ASSUME IInv, [Next]_vars PROVE IInv'
  <2>1. CASE UNCHANGED vars
    <3>1. TypeOK'
      BY <1>1, <2>1 DEF IInv, TypeOK, vars
    <3>2. Progress'
      BY <1>1, <2>1 DEF IInv, Progress, Running, Crashed, Left, Old, vars
    <3> QED
      BY <3>1, <3>2 DEF IInv
  <2> QED
    BY <1>1, <2>1, BeginStep, OpenStep, WriteStep, EndStep, CrashStep DEF Next
<1> QED
  BY <1>1, IInit, PTL DEF Spec

-----------------------------------------------------------------------------
(***************************************************************************)
(* What the outputs are once the command has ended.                        *)
(***************************************************************************)

\* Behind the outputs that are good, a file is as it was, or one of them torn.
LEMMA Behind ==
  ASSUME cmd \in Commands, NEW k \in 0 .. Len(cmd.out), NEW contents, Left(k, contents),
         contents \subseteq Old(k) \cup {Torn}, NEW n \in 1 .. Len(cmd.out)
  PROVE  \/ Good(before, cmd, n, disk[cmd.out[n]]) /\ n <= k
         \/ disk[cmd.out[n]] = before[cmd.out[n]]
         \/ disk[cmd.out[n]] = Torn /\ Torn \in contents /\ n = k + 1
<1>1. Len(cmd.out) \in Nat
  BY CommandFacts
<1>2. CASE n <= k
  BY <1>1, <1>2 DEF Left
<1>3. CASE n = k + 1
  BY <1>1, <1>3 DEF Left, Old
<1>4. CASE n > k + 1
  BY <1>1, <1>4 DEF Left
<1> QED
  BY <1>1, <1>2, <1>3, <1>4

(***************************************************************************)
(* Whatever became of the vocabulary and the dictionary files, a finished  *)
(* output of decompress, unpack or read is the record that was put in, but *)
(* for the two cases that NeverWrong excuses.                              *)
(***************************************************************************)
THEOREM NeverWrongTheorem == Spec => []NeverWrong
<1>1. IInv => NeverWrong
  <2> SUFFICES ASSUME IInv, NEW n \in DOMAIN cmd.out, result # "running", Reads(cmd),
                      disk[cmd.out[n]] # before[cmd.out[n]], disk[cmd.out[n]].kind = "data"
               PROVE  \/ disk[cmd.out[n]].record = Expected(cmd, n)
                      \/ Unprotected(before[cmd.in[1]], cmd)
    BY DEF NeverWrong
  <2>1. cmd \in Commands /\ n \in 1 .. Len(cmd.out) /\ result # "none"
    BY CommandFacts DEF IInv, TypeOK, Progress, Reads
  <2>2. PICK k \in 0 .. Len(cmd.out) : Left(k, Old(k)) \/ Left(k, Old(k) \cup {Torn})
    BY <2>1 DEF IInv, TypeOK, Progress, Crashed
  <2>3. Torn.kind # "data"
    BY DEF Torn
  <2>4. Good(before, cmd, n, disk[cmd.out[n]])
    BY <2>1, <2>2, <2>3, Behind
  <2> QED
    BY <2>4 DEF Good, Right, ArchiveAt, Expected
<1> QED
  BY <1>1, Inductive, PTL

(***************************************************************************)
(* A command that raised left every file as it was, with the exceptions    *)
(* the property names, however many files and records there are.           *)
(***************************************************************************)
THEOREM FailureTheorem == Spec => []FailureKeepsFiles
<1>1. IInv => FailureKeepsFiles
  <2> SUFFICES ASSUME IInv, result = "raised", NEW p \in Paths, disk[p] # before[p]
               PROVE  /\ p \in ToSet(cmd.out)
                      /\ \/ cmd.op = "unpack" /\ disk[p].kind = "data"
                         \/ cmd.op = "train-dict" /\ InputOf(cmd).record = Empty
    BY DEF FailureKeepsFiles
  <2>1. cmd \in Commands
    BY DEF IInv, TypeOK
  <2>2. PICK k \in 0 .. Len(cmd.out) : Complete(before, cmd, k, "raised") /\ Left(k, Old(k))
    BY DEF IInv, Progress
  <2>3. p \in ToSet(cmd.out)
    BY <2>2 DEF Left
  <2>4. PICK n \in 1 .. Len(cmd.out) : p = cmd.out[n]
    BY <2>1, <2>3, CommandFacts DEF ToSet
  <2>5. Torn \in Old(k) => disk[p] = before[p] \/ disk[p] # Torn \/ n # k + 1
    BY <2>4 DEF Old
  <2>6. Good(before, cmd, n, disk[p]) /\ n <= k
    BY <2>1, <2>2, <2>4, <2>5, Behind
  <2>7. k # 0
    BY <2>6
  <2>8. cmd.op = "unpack" \/ (cmd.op = "train-dict" /\ ArchiveAt(before, cmd) = Data(Empty))
    BY <2>2, <2>7 DEF Complete
  <2>9. CASE cmd.op = "unpack"
    BY <2>3, <2>6, <2>9 DEF Good, Right, Reads
  <2>10. CASE cmd.op = "train-dict" /\ ArchiveAt(before, cmd) = Data(Empty)
    <3>1. 1 \in 1 .. Len(cmd.in) /\ cmd.in[1] \in Paths /\ ~Reads(cmd)
      BY <2>1, <2>10, CommandFacts DEF Reads
    <3>2. cmd.in[1] \notin ToSet(cmd.out)
      BY <2>1, <3>1, InputsKept DEF IInv, TypeOK
    <3>3. InputOf(cmd) = ArchiveAt(before, cmd)
      BY <2>2, <3>1, <3>2 DEF Left, InputOf, ArchiveAt
    <3> QED
      BY <2>3, <2>10, <3>3 DEF Data
  <2> QED
    BY <2>8, <2>9, <2>10
<1> QED
  BY <1>1, Inductive, PTL

(***************************************************************************)
(* Wherever an unpack ends, by itself or by a crash, its outputs are a     *)
(* prefix of the records, one of them perhaps torn, and then old files.    *)
(***************************************************************************)
THEOREM UnpackTheorem == Spec => []UnpackInOrder
<1>1. IInv => UnpackInOrder
  <2> DEFINE archive == before[cmd.in[1]]
             Upto(k) ==
               /\ \A n \in 1 .. k : disk[cmd.out[n]].kind = "data"
               /\ \A n \in (k + 2) .. Len(cmd.out) : disk[cmd.out[n]] = before[cmd.out[n]]
               /\ k < Len(cmd.out) =>
                    disk[cmd.out[k + 1]] \in {before[cmd.out[k + 1]]} \cup
                                              (IF result = "crashed" THEN {Torn} ELSE {})
               /\ result = "ok" => k = Len(archive.records)
  <2> SUFFICES ASSUME IInv, cmd.op = "unpack", result # "running", archive.kind = "archive"
               PROVE  \E k \in 0 .. Len(archive.records) : Upto(k)
    BY DEF UnpackInOrder
  <2>1. /\ cmd \in Commands /\ Reads(cmd) /\ Len(cmd.out) \in Nat /\ result # "none"
        /\ archive = ArchiveAt(before, cmd)
    BY CommandFacts DEF IInv, TypeOK, Progress, Reads, ArchiveAt
  <2>2. Len(archive.records) \in Nat
    <3>1. Proper(archive)
      BY <2>1, CommandFacts DEF IInv, TypeOK, ProperDisk
    <3>2. \A s \in Seq(Recorded) : Len(s) \in Nat
      OBVIOUS
    <3> QED
      BY <3>1, <3>2 DEF Proper
  <2>3. ASSUME NEW k, NEW contents, Left(k, contents)
        PROVE  \A n \in 1 .. k : disk[cmd.out[n]].kind = "data"
    BY <2>1, <2>3 DEF Left, Good, Right
  <2>4. CASE result = "crashed"
    <3>1. PICK k \in 0 .. Len(cmd.out) : Crashed(k)
      BY <2>4 DEF IInv, Progress
    <3>2. PICK t \in k .. Len(cmd.out) : Complete(before, cmd, t, ending)
      BY <3>1 DEF Crashed
    <3>3. k \in 0 .. Len(archive.records)
      BY <2>1, <2>2, <3>2 DEF Complete
    <3>4. Left(k, Old(k) \cup {Torn})
      BY <2>1, <3>1 DEF Crashed
    <3>5. Upto(k)
      BY <2>3, <2>4, <3>4 DEF Left, Old
    <3> QED
      BY <3>3, <3>5
  <2>5. CASE result \in {"ok", "raised"}
    <3>1. PICK k \in 0 .. Len(cmd.out) : Complete(before, cmd, k, result) /\ Left(k, Old(k))
      BY <2>5 DEF IInv, Progress
    <3>2. k \in 0 .. Len(archive.records) /\ (result = "ok" => k = Len(archive.records))
      BY <2>1, <2>2, <3>1 DEF Complete
    <3>3. Upto(k)
      BY <2>3, <3>1, <3>2 DEF Left, Old
    <3> QED
      BY <3>2, <3>3
  <2> QED
    BY <2>1, <2>4, <2>5 DEF IInv, TypeOK
<1> QED
  BY <1>1, Inductive, PTL

(***************************************************************************)
(* What compress and pack report as written decodes with the files it was  *)
(* written with, part by part, in either core.                             *)
(***************************************************************************)
THEOREM ReadableTheorem == Spec => []ReadableAgain
<1>1. IInv => ReadableAgain
  <2> SUFFICES ASSUME IInv, result = "ok", Packs(cmd), Belongs(cmd),
                      NEW p \in Parts(cmd), NEW native \in BOOLEAN
               PROVE  Outcomes(disk[cmd.out[1]], p, VocabOf(cmd), DictOf(cmd), native) = {"right"}
    BY DEF ReadableAgain
  <2> DEFINE a == disk[cmd.out[1]]
             v == VocabOf(cmd)
             d == DictOf(cmd)
  <2>1. PICK k \in 0 .. Len(cmd.out) : Complete(before, cmd, k, "ok") /\ Left(k, Old(k))
    BY DEF IInv, Progress
  <2>2. k = 1
    BY <2>1 DEF Complete
  <2>3. Readable(before, cmd, a)
    BY <2>1, <2>2 DEF Left, Good
  <2>4. v = VocabAt(before, cmd) /\ d = DictAt(before, cmd)
    <3>1. cmd \in Commands
      BY DEF IInv, TypeOK
    <3>2. ToSet(cmd.out) \cap {cmd.vocab, cmd.dict} = {}
      BY <3>1, FilesAssumption DEF Packs
    <3>3. /\ cmd.vocab # None => disk[cmd.vocab] = before[cmd.vocab]
          /\ cmd.dict # None => disk[cmd.dict] = before[cmd.dict]
      BY <2>1, <3>1, <3>2, CommandFacts DEF Left
    <3> QED
      BY <3>3 DEF VocabOf, DictOf, VocabAt, DictAt
  <2>5. a.vocab = v /\ a.dict = d /\ (d # NoDict => d.whole /\ d.vocab = v)
    BY <2>3, <2>4 DEF Readable, Belongs
  <2>6. a.uses[p] => d # NoDict
    BY <2>3, <2>4 DEF Readable, NoDict, Absent
  <2>7. d # NoDict => ~a.lost
    BY <2>3, <2>4, <2>5 DEF Readable, Outside
  <2> HIDE DEF a, v, d
  <2>8. Outcomes(a, p, v, d, native) = {"right"}
    BY <2>5, <2>6, <2>7 DEF Outcomes, DictServes, StampRefuses
  <2> QED
    BY <2>8 DEF a, v, d
<1> QED
  BY <1>1, Inductive, PTL
=============================================================================
