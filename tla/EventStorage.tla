---------------------------- MODULE EventStorage ----------------------------
(***************************************************************************)
(* The outstation's event buffer as a value: what EventStorage, EventLists *)
(* and EventClassCounters hold, and one operator for every operation of    *)
(* EventBuffer on it (cpp/libs/src/opendnp3/outstation/event).             *)
(*                                                                         *)
(* The sequence-of-events list only ever grows at its tail (List::Add), so *)
(* a node is named by its arrival number and the list is the function from *)
(* the numbers still in it to their records; list order is number order.   *)
(* The list of one type is the restriction of that function to the type.   *)
(* Counters are integers here: that they never drop below zero, where the  *)
(* code's uint32_t would wrap, is a result and not an assumption.          *)
(***************************************************************************)
EXTENDS Integers, FiniteSets

CONSTANTS
    Types,       \* measurement types, each with a list of its own
    Classes,     \* the event classes EC1, EC2, EC3
    Variations,  \* the encodings an event can be reported with
    Capacity     \* EventBufferConfig: how many events each type may hold

ASSUME CapacityAssumption == Capacity \in [Types -> Nat]

EventState == {"unselected", "selected", "written"}

\* EventRecord and TypedEventRecord: the class and state of a record, its
\* default variation and the variation it was last selected with.
EventRecord ==
    [type : Types, clazz : Classes, state : EventState,
     defaultVariation : Variations, selectedVariation : Variations]

EmptyBuffer ==
    [events   |-> [i \in {} |-> {}],
     total    |-> [c \in Classes |-> 0],
     written  |-> [c \in Classes |-> 0],
     selected |-> 0,
     overflow |-> FALSE,
     next     |-> 0]

-----------------------------------------------------------------------------
(***************************************************************************)
(* Reading the lists.                                                      *)
(***************************************************************************)

Ids(b) == DOMAIN b.events

\* The lists and the counters. `next' is the number of the next arrival.
IsBuffer(b) ==
    /\ b \in [events : {b.events}, total : [Classes -> Int], written : [Classes -> Int],
              selected : Int, overflow : BOOLEAN, next : Nat]
    /\ b.events \in [Ids(b) -> EventRecord]
    /\ Ids(b) \subseteq 0..(b.next - 1)

IdsIn(b, st) == {i \in Ids(b) : b.events[i].state = st}

IdsOf(b, t) == {i \in Ids(b) : b.events[i].type = t}

\* The members of the set of records ids that are of class c.
OfClass(b, ids, c) == {i \in ids : b.events[i].clazz = c}

\* The first n of a set of list positions, in list order: what a loop over
\* the list that stops after n hits visits.
First(S, n) == {i \in S : Cardinality({j \in S : j <= i}) <= n}

IsFull(b, t) == Capacity[t] > 0 /\ Cardinality(IdsOf(b, t)) = Capacity[t]

IsAnyTypeFull(b) == \E t \in Types : IsFull(b, t)

\* Counters, as EventStorage reports them.
NumSelected(b) == b.selected
NumUnwritten(b, c) == b.total[c] - b.written[c]

UnwrittenClassField(b) == {c \in Classes : NumUnwritten(b, c) > 0}

-----------------------------------------------------------------------------
(***************************************************************************)
(* The operations.                                                         *)
(***************************************************************************)

\* EventClassCounters::OnRemove for every member of ids, together with the
\* removal of the records from both of their lists.
Discard(b, ids) ==
    [b EXCEPT
        !.events   = [i \in Ids(b) \ ids |-> b.events[i]],
        !.selected = @ - Cardinality(ids \cap IdsIn(b, "selected")),
        !.written  = [c \in Classes |-> @[c] -
                        Cardinality(OfClass(b, ids \cap IdsIn(b, "written"), c))],
        !.total    = [c \in Classes |-> @[c] - Cardinality(OfClass(b, ids, c))]]

\* List::Add at the tail, and EventClassCounters::OnAdd.
Append1(b, t, c, v) ==
    [b EXCEPT
        !.events = [i \in Ids(b) \cup {b.next} |->
                      IF i = b.next
                      THEN [type |-> t, clazz |-> c, state |-> "unselected",
                            defaultVariation |-> v, selectedVariation |-> v]
                      ELSE b.events[i]],
        !.total  = [k \in Classes |-> IF k = c THEN @[k] + 1 ELSE @[k]],
        !.next   = @ + 1]

\* Mutant of Update: a full type overflows, but nothing is discarded.
Update_NoDiscard(b, t, c, v) ==
    IF Capacity[t] = 0 THEN b
    ELSE Append1([b EXCEPT !.overflow = @ \/ IsFull(b, t)], t, c, v)

\* EventBuffer::Update: a full type first loses its oldest event.
Update(b, t, c, v) ==
    IF Capacity[t] = 0 THEN b
    ELSE IF IsFull(b, t)
         THEN Append1([Discard(b, First(IdsOf(b, t), 1)) EXCEPT !.overflow = TRUE],
                      t, c, v)
         ELSE Append1(b, t, c, v)

\* Mark the records ids selected; those in `using' are given variation v.
Select(b, ids, using, v) ==
    [b EXCEPT
        !.events   = [i \in Ids(b) |->
                        IF i \notin ids THEN b.events[i]
                        ELSE [b.events[i] EXCEPT
                                !.state = "selected",
                                !.selectedVariation = IF i \in using THEN v[i] ELSE @]],
        !.selected = @ + Cardinality(ids)]

\* EventSelection::SelectByClass: the variation is left as it was.
SelectByClass(b, classes, max) ==
    LET hits == First({i \in IdsIn(b, "unselected") : b.events[i].clazz \in classes}, max)
    IN  Select(b, hits, {}, <<>>)

\* EventSelection::SelectByType with the default variation of each event ...
SelectByTypeDefault(b, t, max) ==
    LET hits == First(IdsOf(b, t) \cap IdsIn(b, "unselected"), max)
    IN  Select(b, hits, hits, [i \in hits |-> b.events[i].defaultVariation])

\* ... and with a variation named by the request.
SelectByType(b, t, v, max) ==
    LET hits == First(IdsOf(b, t) \cap IdsIn(b, "unselected"), max)
    IN  Select(b, hits, hits, [i \in hits |-> v])

\* What EventWriting::Write puts in a fragment with room for n events: it
\* walks the selected events in order and stops at the first that does not fit.
Loaded(b, n) == First(IdsIn(b, "selected"), n)

\* EventBuffer::Load: those events become written.
Load(b, n) ==
    LET w == Loaded(b, n)
    IN  [b EXCEPT
           !.events   = [i \in Ids(b) |-> IF i \in w
                                          THEN [b.events[i] EXCEPT !.state = "written"]
                                          ELSE b.events[i]],
           !.selected = @ - Cardinality(w),
           !.written  = [c \in Classes |-> @[c] + Cardinality(OfClass(b, w, c))]]

\* EventBuffer::ClearWritten, on a confirm.
ClearWritten(b) == Discard(b, IdsIn(b, "written"))

\* Mutant of Unselect: the counters of written events are not reset.
Unselect_KeepsWritten(b) ==
    [b EXCEPT
        !.events   = [i \in Ids(b) |-> [b.events[i] EXCEPT !.state = "unselected"]],
        !.selected = 0]

\* EventBuffer::Unselect, with EventClassCounters::ResetOnFail.
Unselect(b) ==
    [b EXCEPT
        !.events   = [i \in Ids(b) |-> [b.events[i] EXCEPT !.state = "unselected"]],
        !.selected = 0,
        !.written  = [c \in Classes |-> 0]]

\* The side effect of EventBuffer::IsOverflown: reporting the flag clears it
\* once every list has room again.
QueryOverflow(b) == [b EXCEPT !.overflow = @ /\ IsAnyTypeFull(b)]

-----------------------------------------------------------------------------
(***************************************************************************)
(* What the counters are for.                                              *)
(***************************************************************************)

\* The counters that steer selection, fragmentation, the class bits of the
\* IIN and unsolicited reporting agree with the records in the list.
CountersAgree(b) ==
    /\ b.selected = Cardinality(IdsIn(b, "selected"))
    /\ \A c \in Classes :
         /\ b.total[c] = Cardinality(OfClass(b, Ids(b), c))
         /\ b.written[c] = Cardinality(OfClass(b, IdsIn(b, "written"), c))

\* No type holds more events than it was configured for, so there is a node
\* free for every List::Add, which the code dereferences without a check.
CapacityRespected(b) == \A t \in Types : Cardinality(IdsOf(b, t)) <= Capacity[t]
=============================================================================
