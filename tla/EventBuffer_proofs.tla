------------------------- MODULE EventBuffer_proofs -------------------------
(***************************************************************************)
(* The event buffer's counters always agree with its list and no type ever *)
(* exceeds its capacity, for any callers, types, classes and capacities.   *)
(* The invariant is inductive as it stands once it is joined with the type *)
(* invariant; each operation's share of the argument is a lemma of         *)
(* EventStorage_proofs.                                                    *)
(***************************************************************************)
EXTENDS EventBuffer, EventStorage_proofs

\* The inductive invariant.
IInv == BufferInv(buffer) /\ CapacityRespected(buffer)

\* The buffer as constructed satisfies it.
LEMMA InitIInv == Init => IInv
  <1> SUFFICES ASSUME Init PROVE IInv
    OBVIOUS
  <1>1. BufferInv(buffer)
    BY EmptyBufferInv DEF Init
  <1>2. Ids(buffer) = {}
    BY DEF Init, EmptyBuffer, Ids
  <1>3. \A t : IdsOf(buffer, t) = {}
    BY <1>2 DEF IdsOf
  <1>4. CapacityRespected(buffer)
    BY <1>3, FS_EmptySet, CapacityAssumption DEF CapacityRespected
  <1> QED
    BY <1>1, <1>4 DEF IInv

\* What the three selections have in common.
LEMMA SelectStep ==
    ASSUME IInv, NEW ids, ids \subseteq IdsIn(buffer, "unselected"), NEW using, NEW v,
           \A i \in using : v[i] \in Variations,
           buffer' = Select(buffer, ids, using, v)
    PROVE  IInv'
  <1>1. BufferInv(buffer')
    BY SelectInv DEF IInv
  <1>2. CapacityRespected(buffer')
    BY SelectCapacity DEF IInv, BufferInv
  <1> QED
    BY <1>1, <1>2 DEF IInv

\* One step per operation of EventBuffer.
LEMMA NextIInv == IInv /\ [Next]_vars => IInv'
  <1> SUFFICES ASSUME IInv, [Next]_vars PROVE IInv'
    OBVIOUS
  <1>0. BufferInv(buffer) /\ IsBuffer(buffer) /\ CapacityRespected(buffer)
    BY DEF IInv, BufferInv
  <1>v. ASSUME NEW i \in Ids(buffer)
        PROVE  buffer.events[i].defaultVariation \in Variations
    <2>1. buffer.events[i] \in EventRecord
      BY <1>0 DEF IsBuffer
    <2> QED
      BY <2>1 DEF EventRecord
  <1>1. ASSUME NEW t \in Types, NEW c \in Classes, NEW v \in Variations, DoUpdate(t, c, v)
        PROVE  IInv'
    BY <1>0, <1>1, UpdateInv, UpdateCapacity DEF DoUpdate, IInv
  <1>2. ASSUME NEW classes \in SUBSET Classes, NEW max \in 0..MaxCount,
               DoSelectByClass(classes, max)
        PROVE  IInv'
    <2> DEFINE hits == First({i \in IdsIn(buffer, "unselected") :
                                buffer.events[i].clazz \in classes}, max)
    <2>1. hits \subseteq IdsIn(buffer, "unselected")
      BY FirstSubset
    <2>2. buffer' = Select(buffer, hits, {}, <<>>)
      BY <1>2 DEF DoSelectByClass, SelectByClass
    <2> HIDE DEF hits
    <2> QED
      BY <1>v, <2>1, <2>2, SelectStep
  <1>3. ASSUME NEW t \in Types, NEW max \in 0..MaxCount, DoSelectByTypeDefault(t, max)
        PROVE  IInv'
    <2> DEFINE hits == First(IdsOf(buffer, t) \cap IdsIn(buffer, "unselected"), max)
               v == [i \in hits |-> buffer.events[i].defaultVariation]
    <2>1. hits \subseteq IdsIn(buffer, "unselected") /\ hits \subseteq Ids(buffer)
      BY FirstSubset DEF IdsIn
    <2>2. buffer' = Select(buffer, hits, hits, v)
      BY <1>3 DEF DoSelectByTypeDefault, SelectByTypeDefault
    <2>3. \A i \in hits : v[i] \in Variations
      BY <1>v, <2>1
    <2> HIDE DEF hits, v
    <2> QED
      BY <1>v, <2>1, <2>2, <2>3, SelectStep
  <1>4. ASSUME NEW t \in Types, NEW x \in Variations, NEW max \in 0..MaxCount,
               DoSelectByType(t, x, max)
        PROVE  IInv'
    <2> DEFINE hits == First(IdsOf(buffer, t) \cap IdsIn(buffer, "unselected"), max)
               v == [i \in hits |-> x]
    <2>1. hits \subseteq IdsIn(buffer, "unselected")
      BY FirstSubset DEF IdsIn
    <2>2. buffer' = Select(buffer, hits, hits, v)
      BY <1>4 DEF DoSelectByType, SelectByType
    <2>3. \A i \in hits : v[i] \in Variations
      OBVIOUS
    <2> HIDE DEF hits, v
    <2> QED
      BY <2>1, <2>2, <2>3, SelectStep
  <1>5. ASSUME NEW n \in 0..MaxCount, DoLoad(n)
        PROVE  IInv'
    BY <1>0, <1>5, LoadInv, LoadCapacity DEF DoLoad, IInv
  <1>6. ASSUME DoClearWritten
        PROVE  IInv'
    BY <1>0, <1>6, ClearWrittenInv, DiscardCapacity DEF DoClearWritten, ClearWritten, IInv
  <1>7. ASSUME DoUnselect
        PROVE  IInv'
    BY <1>0, <1>7, UnselectInv, UnselectCapacity DEF DoUnselect, IInv
  <1>8. ASSUME DoIsOverflown
        PROVE  IInv'
    BY <1>0, <1>8, QueryOverflowInv, QueryOverflowCapacity DEF DoIsOverflown, IInv
  <1>9. ASSUME UNCHANGED vars
        PROVE  IInv'
    BY <1>9 DEF vars, IInv
  <1> QED
    BY <1>1, <1>2, <1>3, <1>4, <1>5, <1>6, <1>7, <1>8, <1>9 DEF Next

\* EventClassCounters and the walk over the list always agree, and so the class bits
\* and the end of a fragmented response, which are computed from the counters, are
\* those of the list.
THEOREM CountersAlwaysMatch == Spec => []CountersMatchList
  <1>1. IInv => CountersMatchList
    BY DEF IInv, BufferInv, CountersMatchList
  <1> QED
    BY <1>1, InitIInv, NextIInv, PTL DEF Spec

\* EventUpdate::Update always finds a free node in both lists.
THEOREM NeverOverflows == Spec => []NeverOverCapacity
  <1>1. IInv => NeverOverCapacity
    BY DEF IInv, NeverOverCapacity
  <1> QED
    BY <1>1, InitIInv, NextIInv, PTL DEF Spec

\* The lists and counters keep their types under every operation of EventBuffer.
THEOREM TypeCorrect == Spec => []TypeOK
  <1>1. IInv => TypeOK
    BY DEF IInv, BufferInv, TypeOK
  <1> QED
    BY <1>1, InitIInv, NextIInv, PTL DEF Spec
=============================================================================
