------------------------------- MODULE Delivery -------------------------------
(***************************************************************************)
(* What the data link promises in one direction: of the segments submitted *)
(* to it, numbered in the order of submission, it delivers some, each at   *)
(* most once and in order.  Segments may be lost.                          *)
(***************************************************************************)
EXTENDS Naturals, Sequences, SequencesExt

VARIABLES
    submitted,   \* number of segments submitted
    delivered    \* the segments delivered, in order of delivery

Init == submitted = 0 /\ delivered = <<>>

Submit ==
    /\ \E n \in {1, 2} : submitted' = submitted + n
    /\ UNCHANGED delivered

Deliver ==
    /\ \E n \in 1..submitted :
          /\ delivered # <<>> => Last(delivered) < n
          /\ delivered' = Append(delivered, n)
    /\ UNCHANGED submitted

Next == Submit \/ Deliver

Spec == Init /\ [][Next]_<<submitted, delivered>>
=============================================================================
