-------------------------- MODULE ParallelMapProofs --------------------------
(***************************************************************************)
(* Proof that the parallel map is the loop it stands for, for any number   *)
(* of records and of threads, and whatever records fail.                   *)
(***************************************************************************)
EXTENDS ParallelMap, FiniteSetTheorems, WellFoundedInduction, TLAPS

(***************************************************************************)
(* The types of the state; a record under way belongs to one thread.       *)
(***************************************************************************)
TypeOK ==
  /\ items \in Nat /\ fails \subseteq 1 .. items /\ pooled \in BOOLEAN
  /\ submitted \in 0 .. items
  /\ future \in [1 .. items -> {"none", "pending", "running", "done", "failed", "cancelled"}]
  /\ item \in [Threads -> 0 .. items]
  /\ pc \in [Threads -> {"idle", "check", "build", "code"}]
  /\ cache \in Threads \cup {None}
  /\ collected \in Seq(Nat) /\ Len(collected) <= items
  /\ phase \in {"map", "cancel", "join", "returned", "raised"}

\* A thread has a record exactly while it is at work.
AtWork == \A t \in Threads : pc[t] = "idle" <=> item[t] = 0

\* What a future says is so, and what is not submitted has none.
Truthful ==
  /\ \A i \in 1 .. items : future[i] = "done" => i \notin fails
  /\ \A i \in 1 .. items : future[i] = "failed" => i \in fails
  /\ pooled => \A i \in (submitted + 1) .. items : future[i] = "none"

\* The results are those of the first records, in order.
InOrder ==
  \A k \in 1 .. Len(collected) : k <= items /\ collected[k] = k /\ future[k] = "done"

\* Why the map ended.
Ended ==
  /\ phase # "map" =>
       Len(collected) = items \/ (NextRecord <= items /\ future[NextRecord] = "failed")
  /\ phase \in {"join", "returned", "raised"} => Pending = {}
  /\ phase \in {"returned", "raised"} => \A t \in Threads : pc[t] = "idle"

IInv == TypeOK /\ AtWork /\ Truthful /\ InOrder /\ Ended /\ SharedStateReady

LEMMA IInit == Init => IInv
<1> SUFFICES ASSUME Init PROVE IInv
  OBVIOUS
<1>1. TypeOK
  BY MapAssumption DEF Init, TypeOK, Threads
<1>2. AtWork /\ Truthful /\ InOrder /\ Ended
  BY DEF Init, AtWork, Truthful, InOrder, Ended
<1>3. SharedStateReady
  BY DEF Init, SharedStateReady
<1> QED
  BY <1>1, <1>2, <1>3 DEF IInv

-----------------------------------------------------------------------------
(***************************************************************************)
(* The steps of a thread.                                                  *)
(***************************************************************************)
LEMMA BeginStep ==
  ASSUME IInv, NEW t \in Threads, NEW i \in 1 .. items, Begin(t, i),
         future[i] \in {"none", "pending"}, i <= submitted \/ ~pooled,
         phase = "map" \/ future[i] = "pending"
  PROVE  IInv'
<1> USE DEF IInv
<1>1. /\ pc[t] = "idle" /\ item[t] = 0
      /\ future' = [future EXCEPT ![i] = "running"]
      /\ item' = [item EXCEPT ![t] = i]
      /\ pc' = [pc EXCEPT ![t] = "check"]
      /\ UNCHANGED <<items, fails, pooled, submitted, cache, collected, phase>>
  BY DEF Begin, AtWork, givenVars
<1>2. TypeOK'
  BY <1>1 DEF TypeOK, Threads
<1>3. AtWork'
  BY <1>1 DEF TypeOK, AtWork, Threads
<1>4. Truthful' /\ InOrder'
  BY <1>1 DEF TypeOK, Truthful, InOrder
<1>5. phase \notin {"join", "returned", "raised"}
  <2> SUFFICES ASSUME phase \in {"join", "returned", "raised"} PROVE FALSE
    OBVIOUS
  <2>1. Pending = {} /\ future[i] = "pending"
    BY DEF Ended
  <2> QED
    BY <2>1 DEF Pending
<1>6. NextRecord' = NextRecord /\ (future[NextRecord] = "failed" => NextRecord # i)
  BY <1>1 DEF NextRecord
<1>7. ASSUME NextRecord <= items, future[NextRecord] = "failed"
      PROVE  future'[NextRecord] = "failed"
  BY <1>1, <1>6, <1>7 DEF TypeOK, NextRecord
<1>8. Ended'
  BY <1>1, <1>5, <1>6, <1>7 DEF Ended
<1>9. SharedStateReady'
  BY <1>1 DEF TypeOK, SharedStateReady, Threads
<1> QED
  BY <1>2, <1>3, <1>4, <1>8, <1>9

LEMMA RunStep ==
  ASSUME IInv, NEW t \in Threads, Run(t)
  PROVE  IInv'
<1> USE DEF IInv
<1>1. CASE CheckCache(t)
  <2>1. /\ pc[t] = "check"
        /\ pc' = [pc EXCEPT ![t] = IF cache = None THEN "build" ELSE "code"]
        /\ UNCHANGED <<items, fails, pooled, submitted, future, item, cache, collected, phase>>
    BY <1>1 DEF CheckCache, givenVars
  <2>2. TypeOK' /\ AtWork'
    BY <2>1 DEF TypeOK, AtWork, Threads
  <2>3. Truthful' /\ InOrder' /\ Ended'
    BY <2>1 DEF TypeOK, Truthful, InOrder, Ended, Pending, NextRecord, Threads
  <2>4. SharedStateReady'
    BY <2>1 DEF TypeOK, SharedStateReady, Threads
  <2> QED
    BY <2>2, <2>3, <2>4
<1>2. CASE BuildCache(t)
  <2>1. /\ pc[t] = "build" /\ cache' = t
        /\ pc' = [pc EXCEPT ![t] = "code"]
        /\ UNCHANGED <<items, fails, pooled, submitted, future, item, collected, phase>>
    BY <1>2 DEF BuildCache, givenVars
  <2>2. TypeOK' /\ AtWork'
    BY <2>1 DEF TypeOK, AtWork, Threads
  <2>3. Truthful' /\ InOrder' /\ Ended'
    BY <2>1 DEF TypeOK, Truthful, InOrder, Ended, Pending, NextRecord, Threads
  <2>4. cache' # None
    BY <2>1, MapAssumption DEF Threads
  <2>5. SharedStateReady'
    BY <2>1, <2>4 DEF SharedStateReady
  <2> QED
    BY <2>2, <2>3, <2>5
<1>3. CASE Code(t)
  <2>1. /\ pc[t] = "code" /\ item[t] \in 1 .. items
        /\ future' = [future EXCEPT ![item[t]] = IF item[t] \in fails THEN "failed" ELSE "done"]
        /\ item' = [item EXCEPT ![t] = 0]
        /\ pc' = [pc EXCEPT ![t] = "idle"]
        /\ UNCHANGED <<items, fails, pooled, submitted, cache, collected, phase>>
    BY <1>3 DEF Code, givenVars, AtWork, TypeOK
  <2>2. future[item[t]] = "running"
    BY <2>1 DEF SharedStateReady
  <2>3. TypeOK' /\ AtWork'
    BY <2>1 DEF TypeOK, AtWork, Threads
  <2>4. Truthful' /\ InOrder'
    BY <2>1, <2>2 DEF TypeOK, Truthful, InOrder
  <2>5. Ended'
    BY <2>1, <2>2 DEF TypeOK, Ended, Pending, NextRecord, Threads
  <2>6. SharedStateReady'
    BY <2>1, <2>2 DEF TypeOK, SharedStateReady, Threads
  <2> QED
    BY <2>3, <2>4, <2>5, <2>6
<1> QED
  BY <1>1, <1>2, <1>3 DEF Run

(***************************************************************************)
(* The steps of the caller.                                                *)
(***************************************************************************)
LEMMA CallerStep ==
  ASSUME IInv, Submit \/ Collect \/ Fail \/ Cancel \/ EndMap \/ Join
  PROVE  IInv'
<1> USE DEF IInv
<1>1. CASE Submit
  <2>1. /\ pooled /\ phase = "map" /\ submitted < items
        /\ submitted' = submitted + 1 /\ submitted + 1 \in 1 .. items
        /\ future' = [future EXCEPT ![submitted + 1] = "pending"]
        /\ UNCHANGED <<items, fails, pooled, item, pc, cache, collected, phase>>
    BY <1>1 DEF Submit, givenVars, threadVars, TypeOK
  <2>2. future[submitted + 1] = "none"
    BY <2>1 DEF Truthful, TypeOK
  <2>3. TypeOK' /\ AtWork' /\ Truthful' /\ InOrder' /\ Ended'
    BY <2>1, <2>2 DEF TypeOK, AtWork, Truthful, InOrder, Ended
  <2>4. SharedStateReady'
    BY <2>1, <2>2 DEF TypeOK, SharedStateReady
  <2> QED
    BY <2>3, <2>4
<1>2. CASE Collect
  <2>1. /\ phase = "map" /\ NextRecord \in 1 .. items /\ future[NextRecord] = "done"
        /\ collected' = Append(collected, NextRecord)
        /\ UNCHANGED <<items, fails, pooled, submitted, future, item, pc, cache, phase>>
    BY <1>2 DEF Collect, Waits, Ready, givenVars, threadVars
  <2>2. TypeOK'
    BY <2>1 DEF TypeOK, NextRecord
  <2>3. InOrder'
    BY <2>1 DEF TypeOK, InOrder, NextRecord
  <2>4. AtWork' /\ Truthful' /\ Ended' /\ SharedStateReady'
    BY <2>1 DEF AtWork, Truthful, Ended, SharedStateReady
  <2> QED
    BY <2>2, <2>3, <2>4
<1>3. CASE Fail
  <2>1. /\ phase' = "cancel" /\ NextRecord <= items /\ future[NextRecord] = "failed"
        /\ UNCHANGED <<items, fails, pooled, submitted, future, item, pc, cache, collected>>
    BY <1>3 DEF Fail, givenVars, threadVars
  <2> QED
    BY <2>1 DEF TypeOK, AtWork, Truthful, InOrder, Ended, NextRecord, SharedStateReady
<1>4. CASE Cancel
  <2>1. PICK i \in Pending : future' = [future EXCEPT ![i] = "cancelled"]
    BY <1>4 DEF Cancel
  <2>2. /\ phase = "cancel" /\ i \in 1 .. items /\ future[i] = "pending"
        /\ UNCHANGED <<items, fails, pooled, submitted, item, pc, cache, collected, phase>>
    BY <1>4, <2>1 DEF Cancel, Pending, givenVars, threadVars
  <2>3. TypeOK' /\ AtWork' /\ Truthful' /\ InOrder' /\ Ended'
    BY <2>1, <2>2 DEF TypeOK, AtWork, Truthful, InOrder, Ended, NextRecord
  <2>4. SharedStateReady'
    BY <2>1, <2>2 DEF TypeOK, SharedStateReady
  <2> QED
    BY <2>3, <2>4
<1>5. CASE EndMap
  <2>1. /\ \/ phase = "map" /\ Len(collected) = items
           \/ phase = "cancel" /\ Pending = {}
        /\ phase' = "join"
        /\ UNCHANGED <<items, fails, pooled, submitted, future, item, pc, cache, collected>>
    BY <1>5 DEF EndMap, Waits, givenVars, threadVars
  <2>2. Pending = {}
    BY <2>1 DEF InOrder, Pending, TypeOK
  <2>3. Len(collected) = items \/ (NextRecord <= items /\ future[NextRecord] = "failed")
    BY <2>1 DEF Ended
  <2> QED
    BY <2>1, <2>2, <2>3
       DEF TypeOK, AtWork, Truthful, InOrder, Ended, NextRecord, Pending, SharedStateReady
<1>6. CASE Join
  <2>1. /\ phase = "join" /\ \A t \in Threads : pc[t] = "idle"
        /\ phase' \in {"returned", "raised"}
        /\ UNCHANGED <<items, fails, pooled, submitted, future, item, pc, cache, collected>>
    BY <1>6 DEF Join, Joined, givenVars, threadVars
  <2> QED
    BY <2>1 DEF TypeOK, AtWork, Truthful, InOrder, Ended, NextRecord, Pending, SharedStateReady
<1> QED
  BY <1>1, <1>2, <1>3, <1>4, <1>5, <1>6

LEMMA INext == IInv /\ [Next]_vars => IInv'
<1> SUFFICES ASSUME IInv, [Next]_vars PROVE IInv'
  OBVIOUS
<1>1. CASE RunHere
  <2>1. /\ ~pooled /\ phase = "map" /\ NextRecord \in 1 .. items
        /\ future[NextRecord] = "none" /\ Begin(Main, NextRecord)
    BY <1>1 DEF RunHere, NextRecord, IInv, TypeOK
  <2> QED
    BY <2>1, BeginStep DEF Threads
<1>2. ASSUME NEW w \in Workers, Take(w) PROVE IInv'
  <2>1. PICK i \in Pending : Begin(w, i)
    BY <1>2 DEF Take
  <2>2. i \in 1 .. items /\ future[i] = "pending"
    BY DEF Pending
  <2>3. i <= submitted \/ ~pooled
    BY <2>2 DEF IInv, TypeOK, Truthful
  <2> QED
    BY <2>1, <2>2, <2>3, BeginStep DEF Threads
<1>3. ASSUME NEW t \in Threads, Run(t) PROVE IInv'
  BY <1>3, RunStep
<1>4. CASE Submit \/ Collect \/ Fail \/ Cancel \/ EndMap \/ Join
  BY <1>4, CallerStep
<1>5. CASE UNCHANGED vars
  BY <1>5 DEF vars, givenVars, threadVars, IInv, TypeOK, AtWork, Truthful, InOrder, Ended,
              NextRecord, Pending, SharedStateReady
<1> QED
  BY <1>1, <1>2, <1>3, <1>4, <1>5 DEF Next, Caller, Worker, Threads

LEMMA Invariant == Spec => []IInv
BY IInit, INext, PTL DEF Spec

(***************************************************************************)
(* No thread codes a record before the shared value is there, and a record *)
(* runs in one thread only.                                                *)
(***************************************************************************)
THEOREM SharedReady == Spec => []SharedStateReady
<1>1. IInv => SharedStateReady
  BY DEF IInv
<1> QED
  BY <1>1, Invariant, PTL

-----------------------------------------------------------------------------
(***************************************************************************)
(* What is collected is the expected list as soon as the map has ended.    *)
(***************************************************************************)
LEMMA Smallest ==
  ASSUME NEW S \in SUBSET Nat, S # {}
  PROVE  \E m \in S : \A n \in S : m <= n
<1> DEFINE Fronts == {1 .. m : m \in S}
<1>1. Fronts \subseteq FiniteSubsetsOf(Nat) /\ Fronts # {}
  <2>1. ASSUME NEW m \in S PROVE IsFiniteSet(1 .. m) /\ 1 .. m \in SUBSET Nat
    BY FS_Interval
  <2> QED
    BY <2>1 DEF FiniteSubsetsOf
<1>2. PICK x \in Fronts : \A y \in Fronts : <<y, x>> \notin StrictSubsetOrdering(Nat)
  BY <1>1, FS_StrictSubsetOrderingWellFounded, WFMin
<1>3. PICK m \in S : x = 1 .. m
  OBVIOUS
<1>4. ASSUME NEW n \in S, n < m PROVE FALSE
  <2>1. 1 .. n \in Fronts /\ 1 .. n \in SUBSET Nat /\ 1 .. m \in SUBSET Nat
    OBVIOUS
  <2>2. 1 .. n \subseteq 1 .. m /\ 1 .. n # 1 .. m
    <3>1. m \in 1 .. m /\ m \notin 1 .. n
      BY <1>4
    <3> QED
      BY <3>1, <1>4
  <2>3. <<1 .. n, 1 .. m>> \in StrictSubsetOrdering(Nat)
    BY <2>1, <2>2 DEF StrictSubsetOrdering
  <2> QED
    BY <1>2, <1>3, <2>1, <2>3
<1> QED
  BY <1>4

LEMMA CollectedInTime ==
  ASSUME IInv
  PROVE  Len(collected) \in InTime
<1>1. Len(collected) \in 0 .. items
  BY DEF IInv, TypeOK
<1>2. ASSUME NEW k \in 1 .. Len(collected) PROVE k \notin fails
  BY <1>1 DEF IInv, Truthful, InOrder
<1> QED
  BY <1>1, <1>2 DEF InTime

LEMMA ExpectedShape ==
  ASSUME IInv,
         Len(collected) = items \/ (NextRecord <= items /\ future[NextRecord] = "failed")
  PROVE  collected = Expected
<1> DEFINE n == Len(collected)
<1>1. n \in 0 .. items /\ n \in InTime /\ collected \in Seq(Nat)
  BY CollectedInTime DEF IInv, TypeOK
<1>2. ASSUME NEW j \in 1 .. items, j \in InTime PROVE j <= n
  <2>1. CASE n = items
    BY <2>1
  <2>2. CASE NextRecord <= items /\ future[NextRecord] = "failed"
    <3>1. n + 1 \in 1 .. items /\ n + 1 \in fails
      BY <1>1, <2>2 DEF IInv, TypeOK, Truthful, NextRecord
    <3>2. ~(n + 1 \in 1 .. j)
      BY <3>1, <1>2 DEF InTime
    <3> QED
      BY <3>1, <3>2, <1>1
  <2> QED
    BY <2>1, <2>2
<1>3. ASSUME NEW j \in 1 .. n PROVE j \in 1 .. items /\ j \in InTime
  <2>1. j \in 0 .. items /\ j \in 1 .. items /\ \A k \in 1 .. j : k \in 1 .. n
    BY <1>1 DEF IInv, TypeOK
  <2>2. \A k \in 1 .. n : k \notin fails
    BY <1>1 DEF InTime
  <2> QED
    BY <2>1, <2>2 DEF InTime
<1>4. {j \in 1 .. items : j \in InTime} = 1 .. n
  BY <1>1, <1>2, <1>3
<1>5. Expected = [j \in 1 .. n |-> j]
  BY <1>4 DEF Expected
<1>6. collected = [j \in 1 .. n |-> collected[j]]
  BY <1>1
<1>7. \A j \in 1 .. n : collected[j] = j
  BY DEF IInv, InOrder
<1> HIDE DEF n
<1> QED
  BY <1>5, <1>6, <1>7

(***************************************************************************)
(* When the map has returned or raised, every thread is idle, no record is *)
(* pending or running, and the results are those of the records in front   *)
(* of the first that fails.                                                *)
(***************************************************************************)
THEOREM MapQuiescent == Spec => []Quiescent
<1>1. ASSUME IInv, phase \in {"returned", "raised"}
      PROVE  /\ \A t \in Threads : pc[t] = "idle"
             /\ \A i \in 1 .. items : future[i] \notin {"pending", "running"}
             /\ collected = Expected
  <2>1. Pending = {} /\ \A t \in Threads : pc[t] = "idle"
    BY <1>1 DEF IInv, Ended
  <2>2. ASSUME NEW i \in 1 .. items PROVE future[i] # "pending"
    BY <2>1 DEF Pending
  <2>3. ASSUME NEW i \in 1 .. items PROVE future[i] # "running"
    BY <1>1, <2>1 DEF IInv, AtWork, SharedStateReady
  <2>4. collected = Expected
    BY <1>1, ExpectedShape DEF IInv, Ended
  <2> QED
    BY <2>1, <2>2, <2>3, <2>4
<1>2. IInv => Quiescent
  BY <1>1 DEF Quiescent
<1> QED
  BY <1>2, Invariant, PTL

-----------------------------------------------------------------------------
LEMMA ExpectedIsSeq ==
  ASSUME IInv
  PROVE  \E m \in 0 .. items : /\ {j \in 1 .. items : j \in InTime} = 1 .. m
                               /\ Expected = [j \in 1 .. m |-> j]
<1>1. items \in Nat /\ fails \subseteq 1 .. items
  BY DEF IInv, TypeOK
<1>2. CASE fails = {}
  <2>1. {j \in 1 .. items : j \in InTime} = 1 .. items
    BY <1>1, <1>2 DEF InTime
  <2> QED
    BY <1>1, <2>1 DEF Expected
<1>3. CASE fails # {}
  <2>1. PICK f \in fails : \A g \in fails : f <= g
    BY <1>1, <1>3, Smallest
  <2>2. f - 1 \in 0 .. items /\ f \in 1 .. items
    BY <1>1
  <2>3. ASSUME NEW j \in 1 .. items PROVE j \in InTime <=> j \in 1 .. (f - 1)
    <3>1. CASE j < f
      <4>1. \A i \in 1 .. j : i \notin fails
        BY <1>1, <2>1, <2>2, <3>1
      <4> QED
        BY <1>1, <2>2, <3>1, <4>1 DEF InTime
    <3>2. CASE f <= j
      <4>1. f \in 1 .. j /\ f \in fails
        BY <2>2, <3>2
      <4> QED
        BY <1>1, <2>2, <3>2, <4>1 DEF InTime
    <3> QED
      BY <1>1, <2>2, <3>1, <3>2
  <2>4. {j \in 1 .. items : j \in InTime} = 1 .. (f - 1)
    <3>1. 1 .. (f - 1) \subseteq 1 .. items
      BY <1>1, <2>2
    <3> QED
      BY <2>3, <3>1
  <2>5. Expected = [j \in 1 .. (f - 1) |-> j]
    BY <2>4 DEF Expected
  <2> QED
    BY <2>2, <2>4, <2>5
<1> QED
  BY <1>2, <1>3

(***************************************************************************)
(* Whatever the threads do, the caller gets a prefix of the expected list, *)
(* one result at a time: the safety part of MapDelivers.                   *)
(***************************************************************************)
THEOREM DeliversInOrder == Spec => Delivery!Spec
<1>1. Init => Delivery!Init
  BY DEF Init, Delivery!Init
<1>2. ASSUME IInv, IInv', [Next]_vars PROVE [Delivery!Deliver]_(Delivery!vars)
  <2>1. UNCHANGED <<items, fails>>
    <3>1. CASE UNCHANGED vars
      BY <3>1 DEF vars, givenVars
    <3>2. CASE Submit \/ Collect \/ Fail \/ Cancel \/ EndMap \/ Join
      BY <3>2 DEF Submit, Collect, Fail, Cancel, EndMap, Join, givenVars
    <3>3. CASE \E t \in Threads : Run(t)
      BY <3>3 DEF Run, CheckCache, BuildCache, Code, givenVars
    <3>4. CASE RunHere \/ \E w \in Workers : Take(w)
      BY <3>4 DEF RunHere, Take, Begin, givenVars
    <3> QED
      BY <1>2, <3>1, <3>2, <3>3, <3>4 DEF Next, Caller, Worker, Threads
  <2>2. UNCHANGED Expected
    BY <2>1 DEF Expected, InTime
  <2>3. CASE Collect
    <3>1. /\ collected' = Append(collected, NextRecord)
          /\ NextRecord = Len(collected) + 1 /\ collected \in Seq(Nat)
      BY <1>2, <2>3 DEF Collect, Ready, NextRecord, IInv, TypeOK
    <3>2. NextRecord \in 1 .. items /\ NextRecord \in InTime
      <4>1. Len(collected') = NextRecord /\ NextRecord <= items /\ NextRecord \in Nat
        BY <1>2, <2>1, <3>1 DEF IInv, TypeOK
      <4>2. ASSUME NEW k \in 1 .. NextRecord PROVE k \notin fails
        BY <1>2, <2>1, <4>1 DEF IInv, TypeOK, InOrder, Truthful
      <4>3. NextRecord \in 0 .. items /\ NextRecord \in 1 .. items
        BY <1>2, <3>1, <4>1 DEF IInv, TypeOK
      <4> QED
        BY <4>2, <4>3 DEF InTime
    <3>3. PICK m \in 0 .. items : /\ {j \in 1 .. items : j \in InTime} = 1 .. m
                                   /\ Expected = [j \in 1 .. m |-> j]
      BY <1>2, ExpectedIsSeq
    <3>4. NextRecord \in 1 .. m /\ Len(Expected) = m /\ m \in Nat /\ Expected \in Seq(Nat)
      BY <3>2, <3>3 DEF IInv, TypeOK
    <3>5. \A k \in 1 .. Len(collected) : collected[k] = k
      BY <1>2 DEF IInv, InOrder
    <3>6. collected = SubSeq(Expected, 1, Len(collected))
      BY <3>1, <3>3, <3>4, <3>5
    <3>7. collected' = SubSeq(Expected, 1, NextRecord)
      BY <3>1, <3>3, <3>4, <3>5
    <3>8. NextRecord \in (Len(collected) + 1) .. Len(Expected)
      BY <3>1, <3>4
    <3> QED
      BY <3>6, <3>7, <3>8, <2>2 DEF Delivery!Deliver
  <2>4. CASE ~Collect
    <3>1. UNCHANGED collected
      <4>1. CASE UNCHANGED vars
        BY <4>1 DEF vars
      <4>2. CASE Submit \/ Fail \/ Cancel \/ EndMap \/ Join
        BY <4>2 DEF Submit, Fail, Cancel, EndMap, Join
      <4>3. CASE \E t \in Threads : Run(t)
        BY <4>3 DEF Run, CheckCache, BuildCache, Code
      <4>4. CASE RunHere \/ \E w \in Workers : Take(w)
        BY <4>4 DEF RunHere, Take, Begin
      <4> QED
        BY <1>2, <2>4, <4>1, <4>2, <4>3, <4>4 DEF Next, Caller, Worker, Threads
    <3> QED
      BY <3>1, <2>2 DEF Delivery!vars
  <2> QED
    BY <2>3, <2>4
<1> QED
  BY <1>1, <1>2, Invariant, PTL DEF Spec, Delivery!Spec
=============================================================================
