----------------------------- MODULE ParallelMap -----------------------------
(***************************************************************************)
(* compress_each and decompress_each (core.py): _map_parallel runs one     *)
(* codec over a list of records, in a loop or on a ThreadPoolExecutor, and *)
(* the threads share what the codec's dictionary and tokenizer build       *)
(* lazily and without a lock (TokDict.rs_handle, vocab_fingerprint).       *)
(* Record i has the result i; for some records the codec raises.           *)
(***************************************************************************)
EXTENDS Naturals, Sequences

CONSTANTS
  MaxItems,     \* bound of the model
  Workers,      \* the threads of the pool
  Main,         \* the caller's thread
  None          \* what is not built yet

ASSUME MapAssumption ==
  MaxItems \in Nat /\ Main \notin Workers /\ None \notin Workers \cup {Main}

VARIABLES
  items, fails,   \* the number of records, and those the codec raises for
  pooled,         \* is there a pool
  submitted,      \* the futures the pool's map has made
  future,         \* "none", "pending", "running", "done", "failed", "cancelled"
  item, pc,       \* each thread: its record, 0 for none, and the place in the codec
  cache,          \* the lazily built value: the thread that stored it, or None
  collected,      \* the results the caller has
  phase           \* "map", "cancel", "join", "returned", "raised"

givenVars == <<items, fails, pooled>>
threadVars == <<item, pc>>
vars == <<givenVars, submitted, future, threadVars, cache, collected, phase>>

Threads == Workers \cup {Main}
Pending == {i \in 1 .. items : future[i] = "pending"}

Init ==
  /\ items \in 0 .. MaxItems /\ fails \in SUBSET (1 .. items)
  /\ pooled \in BOOLEAN /\ (items < 2 => ~pooled)
  /\ submitted = 0 /\ future = [i \in 1 .. items |-> "none"]
  /\ item = [t \in Threads |-> 0] /\ pc = [t \in Threads |-> "idle"]
  /\ cache = None
  /\ collected = <<>> /\ phase = "map"

(***************************************************************************)
(* The codec, in whatever thread.  The test of the cache and the store     *)
(* after the build are apart: two threads may both build.                  *)
(***************************************************************************)
Begin(t, i) ==
  /\ pc[t] = "idle"
  /\ future' = [future EXCEPT ![i] = "running"]
  /\ item' = [item EXCEPT ![t] = i]
  /\ pc' = [pc EXCEPT ![t] = "check"]
  /\ UNCHANGED <<givenVars, submitted, cache, collected, phase>>

\* Mutant: a build under way counts as built.
CheckCache_Busy(t) ==
  /\ pc[t] = "check"
  /\ pc' = [pc EXCEPT ![t] = IF cache = None /\ \A u \in Threads : pc[u] # "build"
                                THEN "build" ELSE "code"]
  /\ UNCHANGED <<givenVars, submitted, future, item, cache, collected, phase>>
CheckCache(t) ==
  /\ pc[t] = "check"
  /\ pc' = [pc EXCEPT ![t] = IF cache = None THEN "build" ELSE "code"]
  /\ UNCHANGED <<givenVars, submitted, future, item, cache, collected, phase>>

BuildCache(t) ==
  /\ pc[t] = "build"
  /\ cache' = t
  /\ pc' = [pc EXCEPT ![t] = "code"]
  /\ UNCHANGED <<givenVars, submitted, future, item, collected, phase>>

Code(t) ==
  /\ pc[t] = "code"
  /\ future' = [future EXCEPT ![item[t]] = IF item[t] \in fails THEN "failed" ELSE "done"]
  /\ item' = [item EXCEPT ![t] = 0]
  /\ pc' = [pc EXCEPT ![t] = "idle"]
  /\ UNCHANGED <<givenVars, submitted, cache, collected, phase>>

\* A worker takes what was submitted first.
Take(w) == \E i \in Pending : (\A j \in Pending : i <= j) /\ Begin(w, i)

\* Without a pool the caller runs the codec for the next record.
NextRecord == Len(collected) + 1
RunHere ==
  /\ ~pooled /\ phase = "map"
  /\ NextRecord <= items /\ future[NextRecord] = "none"
  /\ Begin(Main, NextRecord)

(***************************************************************************)
(* The caller: submits everything, then waits for the results in order.    *)
(***************************************************************************)
Submit ==
  /\ pooled /\ phase = "map" /\ submitted < items
  /\ submitted' = submitted + 1
  /\ future' = [future EXCEPT ![submitted + 1] = "pending"]
  /\ UNCHANGED <<givenVars, threadVars, cache, collected, phase>>

\* Mutant: the results as they become ready.
Ready_Any(i) == future[i] = "done" /\ \A k \in DOMAIN collected : collected[k] # i
Ready(i) == i = NextRecord /\ future[i] = "done"

Waits == phase = "map" /\ (pooled => submitted = items)

Collect ==
  /\ Waits
  /\ \E i \in 1 .. items : Ready(i) /\ collected' = Append(collected, i)
  /\ UNCHANGED <<givenVars, submitted, future, threadVars, cache, phase>>

\* The first failure, in the order of the records, ends the map: what has not
\* been started is cancelled, one future after the other.
Fail ==
  /\ Waits /\ NextRecord <= items /\ future[NextRecord] = "failed"
  /\ phase' = "cancel"
  /\ UNCHANGED <<givenVars, submitted, future, threadVars, cache, collected>>

Cancel ==
  /\ phase = "cancel"
  /\ \E i \in Pending : future' = [future EXCEPT ![i] = "cancelled"]
  /\ UNCHANGED <<givenVars, submitted, threadVars, cache, collected, phase>>

EndMap ==
  /\ \/ Waits /\ Len(collected) = items
     \/ phase = "cancel" /\ Pending = {}
  /\ phase' = "join"
  /\ UNCHANGED <<givenVars, submitted, future, threadVars, cache, collected>>

\* The pool's shutdown waits for the threads.
\* Mutant: it does not.
Joined_NoWait == TRUE
Joined == \A t \in Threads : pc[t] = "idle"

Join ==
  /\ phase = "join" /\ Joined
  /\ phase' = IF Len(collected) = items THEN "returned" ELSE "raised"
  /\ UNCHANGED <<givenVars, submitted, future, threadVars, cache, collected>>

Run(t) == CheckCache(t) \/ BuildCache(t) \/ Code(t)
Worker(w) == Take(w) \/ Run(w)
Caller == RunHere \/ Run(Main) \/ Submit \/ Collect \/ Fail \/ Cancel \/ EndMap \/ Join
Next == Caller \/ \E w \in Workers : Worker(w)

Spec == Init /\ [][Next]_vars
FairSpec == Spec /\ WF_vars(Caller) /\ \A w \in Workers : WF_vars(Worker(w))

-----------------------------------------------------------------------------
(***************************************************************************)
(* The loop the pool stands for: the results of the records in front of    *)
(* the first that fails, in order; then the list, or that record's error.  *)
(***************************************************************************)
InTime == {n \in 0 .. items : \A i \in 1 .. n : i \notin fails}
Expected == [i \in {j \in 1 .. items : j \in InTime} |-> i]

Delivery == INSTANCE InOrderDelivery WITH source <- Expected, delivered <- collected

MapDelivers == Delivery!FairSpec /\ <>(phase = IF fails = {} THEN "returned" ELSE "raised")

(***************************************************************************)
(* When the map has returned or raised, no thread is at work for it any    *)
(* more and no record waits for one; a raise comes from the first record   *)
(* that fails, not from the first to fail.                                 *)
(***************************************************************************)
Quiescent ==
  phase \in {"returned", "raised"} =>
    /\ \A t \in Threads : pc[t] = "idle"
    /\ \A i \in 1 .. items : future[i] \notin {"pending", "running"}
    /\ collected = Expected

(***************************************************************************)
(* Whoever built it, no thread codes a record before the shared value is   *)
(* there; and a thread has a record exactly while the record is running.   *)
(***************************************************************************)
SharedStateReady ==
  /\ \A t \in Threads : pc[t] = "code" => cache # None
  /\ \A i \in 1 .. items :
        future[i] = "running" <=> \E t \in Threads : item[t] = i
  /\ \A t, u \in Threads : item[t] = item[u] /\ item[t] # 0 => t = u
=============================================================================
