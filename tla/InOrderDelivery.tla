--------------------------- MODULE InOrderDelivery ---------------------------
(***************************************************************************)
(* What every lossless stage of tokpress promises: the items of a source   *)
(* sequence come out of the far end unchanged, in order, each exactly      *)
(* once, and in the end all of them do.  The LZ codec, the batch readers   *)
(* and the parallel map are all shown to implement this specification.     *)
(***************************************************************************)
EXTENDS Naturals, Sequences

VARIABLES
  source,     \* the items that go in; fixed once chosen
  delivered   \* the items that have come out so far

vars == <<source, delivered>>

Init == delivered = <<>>

(***************************************************************************)
(* One step may deliver several items (a reader hands out a block), but    *)
(* only the next ones.                                                     *)
(***************************************************************************)
Deliver ==
  /\ \E k \in (Len(delivered) + 1) .. Len(source) :
        delivered' = SubSeq(source, 1, k)
  /\ delivered = SubSeq(source, 1, Len(delivered))
  /\ UNCHANGED source

Spec == Init /\ [][Deliver]_vars

AllDelivered == <>(delivered = source)

FairSpec == Spec /\ WF_vars(Deliver)

=============================================================================
