----------------------------- MODULE EventBuffer -----------------------------
(***************************************************************************)
(* The event buffer as a component: any caller may update it, select from  *)
(* it, load a fragment, and report the outcome of the fragment, in any     *)
(* order. The order the outstation really uses is in module Outstation.    *)
(***************************************************************************)
EXTENDS EventStorage

CONSTANTS
    MaxArrivals,  \* bound: events received in one behaviour
    MaxCount      \* bound: largest count of a limited-count read

ASSUME BoundsAssumption == MaxArrivals \in Nat /\ MaxCount \in Nat

VARIABLE buffer  \* the lists, counters and overflow flag

vars == <<buffer>>

Init == buffer = EmptyBuffer

-----------------------------------------------------------------------------
DoUpdate(t, c, v) ==
    /\ buffer.next < MaxArrivals
    /\ buffer' = Update(buffer, t, c, v)

DoSelectByClass(classes, max) == buffer' = SelectByClass(buffer, classes, max)

DoSelectByTypeDefault(t, max) == buffer' = SelectByTypeDefault(buffer, t, max)

DoSelectByType(t, v, max) == buffer' = SelectByType(buffer, t, v, max)

DoLoad(n) == buffer' = Load(buffer, n)

DoClearWritten == buffer' = ClearWritten(buffer)

DoUnselect == buffer' = Unselect(buffer)

DoIsOverflown == buffer' = QueryOverflow(buffer)

Next ==
    \/ \E t \in Types, c \in Classes, v \in Variations : DoUpdate(t, c, v)
    \/ \E classes \in SUBSET Classes, max \in 0..MaxCount : DoSelectByClass(classes, max)
    \/ \E t \in Types, max \in 0..MaxCount : DoSelectByTypeDefault(t, max)
    \/ \E t \in Types, v \in Variations, max \in 0..MaxCount : DoSelectByType(t, v, max)
    \/ \E n \in 0..MaxCount : DoLoad(n)
    \/ DoClearWritten
    \/ DoUnselect
    \/ DoIsOverflown

Spec == Init /\ [][Next]_vars

-----------------------------------------------------------------------------
(***************************************************************************)
(* Properties.                                                             *)
(***************************************************************************)

\* Every operation leaves well-formed records, numbered below the next arrival.
TypeOK == IsBuffer(buffer)

\* The counters of EventClassCounters always equal what a walk over the list
\* would count, whatever the order of updates, selections, writes, overflows
\* and failures; in particular none of them wraps below zero.
CountersMatchList == CountersAgree(buffer)

\* EventUpdate makes room before it adds, for every type, so List::Insert
\* never returns the null node that Update would dereference.
NeverOverCapacity == CapacityRespected(buffer)
=============================================================================
