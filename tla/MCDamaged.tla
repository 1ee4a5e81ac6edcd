------------------------------ MODULE MCDamaged ------------------------------
(***************************************************************************)
(* Small instances of what is read from a damaged stream before anything   *)
(* is decoded under a table: a behaviour is either the body of one header, *)
(* or one list of symbols on the wire.  Its bytes have two bits of the     *)
(* value, ids three, and varints five, which three bytes exceed by one.    *)
(***************************************************************************)
EXTENDS DamagedBody, SequencesExt, FiniteSetsExt

CONSTANTS BYTE, WORD, ID_BITS, VARINT_BITS, BYTE_SHIFT

VARIABLES
  what,   \* "body" or "list"
  sorted_ids, data, fault, list_core, list_phase, n, prev, shift, result, byte_pos, out, reference

listVars ==
  <<sorted_ids, data, fault, list_core, list_phase, n, prev, shift, result, byte_pos, out, reference>>
mcVars == <<what, vars, listVars>>

MCIdLists ==
  {SetToSortSeq(ids, <) : ids \in UNION {kSubset(k, {0, 1, 3, 4, 7}) : k \in 0 .. 4}}
MCTails == {<<>>, <<1>>, <<7, 5>>}

List == INSTANCE SymbolList WITH
          IdLists <- MCIdLists, Tails <- MCTails, core <- list_core, phase <- list_phase

ASSUME ListAssumption == List!SymbolListAssumption

\* An empty body that is over, and no list.
NoBody ==
  /\ core = "python" /\ phase = "done"
  /\ header = [mode |-> "sparse", uncompressed_size |-> 0, num_lz_tokens |-> 0,
               num_events |-> 0, n_lit |-> 0, chunk_size |-> 0]
  /\ pos = 0 /\ length = 0 /\ end = 0
  /\ lit_pos = 0 /\ next_chunk_boundary = 0 /\ table = NoTable

NoList ==
  /\ sorted_ids = <<>> /\ data = <<>> /\ fault = List!NoFault
  /\ list_core = "transit" /\ list_phase = "done"
  /\ n = 0 /\ prev = 0 /\ shift = 0 /\ result = 0 /\ byte_pos = 0
  /\ out = <<>> /\ reference = <<>>

MCInit ==
  \/ what = "body" /\ Init /\ NoList
  \/ what = "list" /\ List!Init /\ NoBody

MCNext ==
  \/ what = "body" /\ Next /\ UNCHANGED <<what, listVars>>
  \/ what = "list" /\ List!Next /\ UNCHANGED <<what, vars>>

MCSpec == MCInit /\ [][MCNext]_mcVars /\ WF_mcVars(MCNext)

(***************************************************************************)
(* A list of symbols: whole it comes back in both cores, short of some of  *)
(* its bytes it is refused, and changed the cores make the same of it or   *)
(* the Rust core refuses it.                                               *)
(***************************************************************************)
ListSound == List!RoundTrip /\ List!CutCaught /\ List!CoresAgree
=============================================================================
