------------------------ MODULE EventStorage_proofs ------------------------
(***************************************************************************)
(* Every operation of the event buffer keeps its type and the agreement of *)
(* its counters with its list, for any types, classes and capacities.      *)
(***************************************************************************)
EXTENDS EventStorage, FiniteSetTheorems, WellFoundedInduction, TLAPS

\* What the lemmas below carry from one operation to the next.
BufferInv(b) == IsBuffer(b) /\ CountersAgree(b)

-----------------------------------------------------------------------------
(***************************************************************************)
(* Counting.                                                               *)
(***************************************************************************)

\* Removing a subset subtracts its size: what OnRemove does to a counter.
LEMMA CardinalityMinus ==
    ASSUME NEW S, IsFiniteSet(S), NEW T, T \subseteq S
    PROVE  Cardinality(S \ T) = Cardinality(S) - Cardinality(T)
  <1>1. S \cap T = T
    OBVIOUS
  <1> QED
    BY <1>1, FS_Difference

\* Joining disjoint sets adds their sizes: what OnSelect and OnWrite do.
LEMMA CardinalityPlus ==
    ASSUME NEW S, IsFiniteSet(S), NEW T, IsFiniteSet(T), S \cap T = {}
    PROVE  Cardinality(S \cup T) = Cardinality(S) + Cardinality(T)
  <1>1. /\ Cardinality(S \cup T) = Cardinality(S) + Cardinality(T) - Cardinality({})
        /\ Cardinality({}) = 0
    BY FS_Union, FS_EmptySet
  <1>2. Cardinality(S) \in Nat /\ Cardinality(T) \in Nat
    BY FS_CardinalityType
  <1> QED
    BY <1>1, <1>2

\* The list is finite, and so is every set of its nodes.
LEMMA FiniteIds ==
    ASSUME NEW b, IsBuffer(b), NEW S, S \subseteq Ids(b)
    PROVE  IsFiniteSet(S) /\ Cardinality(S) \in Nat
  <1>1. b.next \in Nat /\ S \subseteq 0..(b.next - 1)
    BY DEF IsBuffer
  <1>2. IsFiniteSet(0..(b.next - 1))
    BY <1>1, FS_Interval
  <1>3. IsFiniteSet(S)
    BY <1>1, <1>2, FS_Subset
  <1> QED
    BY <1>3, FS_CardinalityType

\* A walk over the list stays in the list.
LEMMA FirstSubset == \A S, n : First(S, n) \subseteq S
  BY DEF First

-----------------------------------------------------------------------------
(***************************************************************************)
(* The operations.                                                         *)
(***************************************************************************)

\* Events leave the list together with their share of every counter.
LEMMA DiscardInv ==
    ASSUME NEW b, BufferInv(b), NEW ids, ids \subseteq Ids(b)
    PROVE  BufferInv(Discard(b, ids))
  <1> DEFINE d == Discard(b, ids)
  <1> USE DEF BufferInv
  <1>1. /\ Ids(d) = Ids(b) \ ids
        /\ \A i \in Ids(d) : d.events[i] = b.events[i]
        /\ d.selected = b.selected - Cardinality(ids \cap IdsIn(b, "selected"))
        /\ \A c \in Classes :
             /\ d.total[c] = b.total[c] - Cardinality(OfClass(b, ids, c))
             /\ d.written[c] = b.written[c] -
                  Cardinality(OfClass(b, ids \cap IdsIn(b, "written"), c))
    BY DEF Discard, Ids, IsBuffer
  <1>2. /\ ids \cap IdsIn(b, "selected") \subseteq Ids(b)
        /\ \A c : /\ OfClass(b, ids, c) \subseteq Ids(b)
                  /\ OfClass(b, ids \cap IdsIn(b, "written"), c) \subseteq Ids(b)
    BY DEF OfClass, IdsIn
  <1>3. IsBuffer(d)
    <2>1. /\ d.selected \in Int
          /\ d.total \in [Classes -> Int]
          /\ d.written \in [Classes -> Int]
      <3>1. /\ Cardinality(ids \cap IdsIn(b, "selected")) \in Nat
            /\ \A c : /\ Cardinality(OfClass(b, ids, c)) \in Nat
                      /\ Cardinality(OfClass(b, ids \cap IdsIn(b, "written"), c)) \in Nat
        BY <1>2, FiniteIds
      <3> QED
        BY <3>1 DEF IsBuffer, Discard
    <2>2. d.events \in [Ids(d) -> EventRecord] /\ Ids(d) \subseteq 0..(b.next - 1)
      BY <1>1 DEF IsBuffer, Ids, Discard
    <2> QED
      BY <2>1, <2>2 DEF IsBuffer, Discard
  <1>4. d.selected = Cardinality(IdsIn(d, "selected"))
    <2>1. IdsIn(d, "selected") = IdsIn(b, "selected") \ (ids \cap IdsIn(b, "selected"))
      BY <1>1 DEF IdsIn
    <2>2. IsFiniteSet(IdsIn(b, "selected"))
      BY FiniteIds DEF IdsIn
    <2> QED
      BY <1>1, <2>1, <2>2, CardinalityMinus DEF CountersAgree
  <1>5. ASSUME NEW c \in Classes
        PROVE  d.total[c] = Cardinality(OfClass(d, Ids(d), c))
    <2>1. OfClass(d, Ids(d), c) = OfClass(b, Ids(b), c) \ OfClass(b, ids, c)
      BY <1>1 DEF OfClass
    <2>2. IsFiniteSet(OfClass(b, Ids(b), c))
      BY FiniteIds DEF OfClass
    <2>3. OfClass(b, ids, c) \subseteq OfClass(b, Ids(b), c)
      BY DEF OfClass
    <2>4. Cardinality(OfClass(b, Ids(b), c) \ OfClass(b, ids, c))
            = Cardinality(OfClass(b, Ids(b), c)) - Cardinality(OfClass(b, ids, c))
      BY <2>2, <2>3, CardinalityMinus
    <2>5. b.total[c] = Cardinality(OfClass(b, Ids(b), c))
      BY DEF CountersAgree
    <2> QED
      BY <1>1, <2>1, <2>4, <2>5
  <1>6. ASSUME NEW c \in Classes
        PROVE  d.written[c] = Cardinality(OfClass(d, IdsIn(d, "written"), c))
    <2> DEFINE gone == OfClass(b, ids \cap IdsIn(b, "written"), c)
    <2>1. OfClass(d, IdsIn(d, "written"), c) = OfClass(b, IdsIn(b, "written"), c) \ gone
      BY <1>1 DEF OfClass, IdsIn
    <2>2. IsFiniteSet(OfClass(b, IdsIn(b, "written"), c))
      BY FiniteIds DEF OfClass, IdsIn
    <2>3. gone \subseteq OfClass(b, IdsIn(b, "written"), c)
      BY DEF OfClass
    <2>4. Cardinality(OfClass(b, IdsIn(b, "written"), c) \ gone)
            = Cardinality(OfClass(b, IdsIn(b, "written"), c)) - Cardinality(gone)
      BY <2>2, <2>3, CardinalityMinus
    <2>5. b.written[c] = Cardinality(OfClass(b, IdsIn(b, "written"), c))
      BY DEF CountersAgree
    <2> QED
      BY <1>1, <2>1, <2>4, <2>5
  <1> QED
    BY <1>3, <1>4, <1>5, <1>6 DEF CountersAgree

\* A new event is counted in its class and in nothing else.
LEMMA AppendInv ==
    ASSUME NEW b, BufferInv(b), NEW t \in Types, NEW c \in Classes, NEW v \in Variations
    PROVE  BufferInv(Append1(b, t, c, v))
  <1> DEFINE a == Append1(b, t, c, v)
  <1> USE DEF BufferInv
  <1>1. b.next \in Nat /\ b.next \notin Ids(b)
    BY DEF IsBuffer
  <1>2. /\ Ids(a) = Ids(b) \cup {b.next}
        /\ \A i \in Ids(b) : a.events[i] = b.events[i]
        /\ a.events[b.next] = [type |-> t, clazz |-> c, state |-> "unselected",
                               defaultVariation |-> v, selectedVariation |-> v]
        /\ a.selected = b.selected
        /\ a.written = b.written
        /\ \A k \in Classes : a.total[k] = IF k = c THEN b.total[c] + 1 ELSE b.total[k]
    BY <1>1 DEF Append1, Ids, IsBuffer
  <1>3. IsBuffer(a)
    <2>1. a.events \in [Ids(a) -> EventRecord]
      <3>1. \A i \in Ids(a) : a.events[i] \in EventRecord
        <4>1. a.events[b.next] \in EventRecord
          BY <1>2 DEF EventRecord, EventState
        <4>2. b.events \in [Ids(b) -> EventRecord]
          BY DEF IsBuffer
        <4> QED
          BY <1>2, <4>1, <4>2
      <3>2. a.events = [i \in Ids(a) |-> a.events[i]]
        BY DEF IsBuffer, Append1, Ids
      <3> QED
        BY <3>1, <3>2
    <2>2. a.next = b.next + 1 /\ Ids(b) \subseteq 0..(b.next - 1)
      BY DEF IsBuffer, Append1
    <2>4. Ids(a) \subseteq 0..(a.next - 1)
      <3> HIDE DEF a
      <3> QED BY <1>1, <1>2, <2>2
    <2>3. a.total \in [Classes -> Int]
      <3>1. b.total \in [Classes -> Int] /\ a.total = [k \in Classes |-> IF k = c THEN b.total[k] + 1 ELSE b.total[k]]
        BY DEF IsBuffer, Append1
      <3> QED
        BY <3>1
    <2>5. a \in [events : {a.events}, total : [Classes -> Int], written : [Classes -> Int],
                 selected : Int, overflow : BOOLEAN, next : Nat]
      <3>1. ASSUME NEW e, NEW k \in [Classes -> Int], NEW n \in Nat
            PROVE  [b EXCEPT !.events = e, !.total = k, !.next = n] \in
                     [events : {e}, total : [Classes -> Int], written : [Classes -> Int],
                      selected : Int, overflow : BOOLEAN, next : Nat]
        BY DEF IsBuffer
      <3>2. a = [b EXCEPT !.events = a.events, !.total = a.total, !.next = a.next]
        BY DEF IsBuffer, Append1
      <3>3. a.next \in Nat
        BY <1>1, <2>2
      <3> HIDE DEF a
      <3> QED
        BY <2>3, <3>1, <3>2, <3>3
    <2> HIDE DEF a
    <2> QED
      BY <2>1, <2>4, <2>5 DEF IsBuffer
  <1>4. /\ IdsIn(a, "selected") = IdsIn(b, "selected")
        /\ IdsIn(a, "written") = IdsIn(b, "written")
    BY <1>1, <1>2 DEF IdsIn
  <1>5. \A k : OfClass(a, IdsIn(a, "written"), k) = OfClass(b, IdsIn(b, "written"), k)
    BY <1>2, <1>4 DEF OfClass, IdsIn
  <1>6. ASSUME NEW k \in Classes
        PROVE  a.total[k] = Cardinality(OfClass(a, Ids(a), k))
    <2>1. OfClass(a, Ids(a), k) = IF k = c THEN OfClass(b, Ids(b), k) \cup {b.next}
                                            ELSE OfClass(b, Ids(b), k)
      BY <1>1, <1>2 DEF OfClass
    <2>2. IsFiniteSet(OfClass(b, Ids(b), k)) /\ b.next \notin OfClass(b, Ids(b), k)
      BY <1>1, FiniteIds DEF OfClass
    <2>3. Cardinality(OfClass(b, Ids(b), k) \cup {b.next}) = Cardinality(OfClass(b, Ids(b), k)) + 1
      BY <2>2, FS_AddElement
    <2>4. b.total[k] = Cardinality(OfClass(b, Ids(b), k))
      BY DEF CountersAgree
    <2> QED
      BY <1>2, <2>1, <2>3, <2>4
  <1> QED
    BY <1>2, <1>3, <1>4, <1>5, <1>6 DEF CountersAgree

\* Making room removes the oldest event of the type, whatever its state.
LEMMA UpdateInv ==
    ASSUME NEW b, BufferInv(b), NEW t \in Types, NEW c \in Classes, NEW v \in Variations
    PROVE  BufferInv(Update(b, t, c, v))
  <1> DEFINE d == Discard(b, First(IdsOf(b, t), 1))
             o == [d EXCEPT !.overflow = TRUE]
  <1>1. First(IdsOf(b, t), 1) \subseteq Ids(b)
    BY FirstSubset DEF IdsOf
  <1>2. BufferInv(d)
    BY <1>1, DiscardInv
  <1>3. IsBuffer(o)
    BY <1>2 DEF BufferInv, IsBuffer, Ids
  <1>4. CountersAgree(o)
    <2>1. /\ o.events = d.events /\ o.selected = d.selected
          /\ o.total = d.total /\ o.written = d.written
      BY <1>2 DEF BufferInv, IsBuffer
    <2> HIDE DEF o, d
    <2>2. CountersAgree(d)
      BY <1>2 DEF BufferInv
    <2> QED
      BY <2>1, <2>2 DEF CountersAgree, IdsIn, OfClass, Ids
  <1>5. BufferInv(Append1(o, t, c, v))
    BY <1>3, <1>4, AppendInv DEF BufferInv
  <1> QED
    BY <1>5, AppendInv DEF Update

\* The shape of an operation that changes states but not the list.
LEMMA RemarkType ==
    ASSUME NEW b, IsBuffer(b), NEW e \in [Ids(b) -> EventRecord], NEW s \in Int,
           NEW w \in [Classes -> Int]
    PROVE  /\ IsBuffer([b EXCEPT !.events = e, !.selected = s])
           /\ IsBuffer([b EXCEPT !.events = e, !.selected = s, !.written = w])
  BY DEF IsBuffer, Ids

\* Selecting unselected events adds them to the selected ones.
LEMMA SelectInv ==
    ASSUME NEW b, BufferInv(b), NEW ids, ids \subseteq IdsIn(b, "unselected"),
           NEW using, NEW v, \A i \in using : v[i] \in Variations
    PROVE  BufferInv(Select(b, ids, using, v))
  <1> DEFINE s == Select(b, ids, using, v)
  <1> USE DEF BufferInv
  <1>1. ids \subseteq Ids(b) /\ IsFiniteSet(ids) /\ Cardinality(ids) \in Nat
    BY FiniteIds DEF IdsIn
  <1>2. /\ s.events = [i \in Ids(b) |->
                        IF i \notin ids THEN b.events[i]
                        ELSE [b.events[i] EXCEPT
                                !.state = "selected",
                                !.selectedVariation = IF i \in using THEN v[i] ELSE @]]
        /\ s.selected = b.selected + Cardinality(ids)
        /\ s.total = b.total /\ s.written = b.written
    BY DEF Select, IsBuffer
  <1>r. s = [b EXCEPT !.events = s.events, !.selected = s.selected]
    BY DEF Select, IsBuffer
  <1> HIDE DEF s
  <1>3. Ids(s) = Ids(b)
    BY <1>2 DEF Ids
  <1>4. ASSUME NEW i \in Ids(b)
        PROVE  /\ s.events[i] \in EventRecord
               /\ s.events[i].clazz = b.events[i].clazz
               /\ s.events[i].state = IF i \in ids THEN "selected" ELSE b.events[i].state
    <2>1. b.events[i] \in EventRecord
      BY DEF IsBuffer
    <2>2. CASE i \notin ids
      <3>1. s.events[i] = b.events[i]
        BY <1>2, <2>2
      <3> QED
        BY <2>1, <2>2, <3>1
    <2>3. CASE i \in ids
      <3>1. PICK x \in Variations : s.events[i] =
              [b.events[i] EXCEPT !.state = "selected", !.selectedVariation = x]
        <4>1. b.events[i].selectedVariation \in Variations
          BY <2>1 DEF EventRecord
        <4>2. s.events[i] = [b.events[i] EXCEPT
                               !.state = "selected",
                               !.selectedVariation = IF i \in using THEN v[i] ELSE @]
          BY <1>2, <2>3
        <4>3. CASE i \in using
          BY <4>2, <4>3
        <4>4. CASE i \notin using
          BY <4>1, <4>2, <4>4
        <4> QED
          BY <4>3, <4>4
      <3> QED
        BY <2>1, <2>3, <3>1 DEF EventRecord, EventState
    <2> QED
      BY <2>2, <2>3
  <1>5. IsBuffer(s)
    <2>1. s.events \in [Ids(b) -> EventRecord]
      <3>1. s.events = [i \in Ids(b) |-> s.events[i]]
        BY <1>2
      <3> QED
        BY <1>4, <3>1
    <2>2. s.selected \in Int
      <3>1. b.selected \in Int /\ s.selected = b.selected + Cardinality(ids)
        BY <1>2 DEF IsBuffer
      <3> QED
        BY <1>1, <3>1
    <2>3. IsBuffer([b EXCEPT !.events = s.events, !.selected = s.selected])
      <3>1. b.written \in [Classes -> Int]
        BY DEF IsBuffer
      <3> QED
        BY <2>1, <2>2, <3>1, RemarkType
    <2> QED
      BY <1>r, <2>3
  <1>6. s.selected = Cardinality(IdsIn(s, "selected"))
    <2>1. IdsIn(s, "selected") = IdsIn(b, "selected") \cup ids
      BY <1>1, <1>3, <1>4 DEF IdsIn
    <2>2. IsFiniteSet(IdsIn(b, "selected")) /\ IdsIn(b, "selected") \cap ids = {}
      BY FiniteIds DEF IdsIn
    <2>3. b.selected = Cardinality(IdsIn(b, "selected"))
      BY DEF CountersAgree
    <2>4. s.selected = b.selected + Cardinality(ids)
      BY <1>2
    <2> QED
      BY <1>1, <2>1, <2>2, <2>3, <2>4, CardinalityPlus
  <1>7. ASSUME NEW c \in Classes
        PROVE  /\ OfClass(s, Ids(s), c) = OfClass(b, Ids(b), c)
               /\ OfClass(s, IdsIn(s, "written"), c) = OfClass(b, IdsIn(b, "written"), c)
    BY <1>3, <1>4 DEF OfClass, IdsIn
  <1>8. s.total = b.total /\ s.written = b.written
    BY <1>2
  <1> QED
    BY <1>5, <1>6, <1>7, <1>8 DEF CountersAgree, s

\* Writing selected events moves them from the selected to the written ones.
LEMMA LoadInv ==
    ASSUME NEW b, BufferInv(b), NEW n
    PROVE  BufferInv(Load(b, n))
  <1> DEFINE a == Load(b, n)
             w == Loaded(b, n)
  <1> USE DEF BufferInv
  <1>1. w \subseteq IdsIn(b, "selected") /\ w \subseteq Ids(b)
    BY FirstSubset DEF Loaded, IdsIn
  <1>2. /\ IsFiniteSet(w) /\ Cardinality(w) \in Nat
        /\ \A c : IsFiniteSet(OfClass(b, w, c)) /\ Cardinality(OfClass(b, w, c)) \in Nat
    BY <1>1, FiniteIds DEF OfClass
  <1>3. /\ a.events = [i \in Ids(b) |-> IF i \in w THEN [b.events[i] EXCEPT !.state = "written"]
                                                   ELSE b.events[i]]
        /\ a.selected = b.selected - Cardinality(w)
        /\ a.written = [c \in Classes |-> b.written[c] + Cardinality(OfClass(b, w, c))]
        /\ a.total = b.total
    BY DEF Load, IsBuffer
  <1>r. a = [b EXCEPT !.events = a.events, !.selected = a.selected, !.written = a.written]
    BY DEF Load, IsBuffer
  <1> HIDE DEF a, w
  <1>4. Ids(a) = Ids(b)
    BY <1>3 DEF Ids
  <1>5. ASSUME NEW i \in Ids(b)
        PROVE  /\ a.events[i] \in EventRecord
               /\ a.events[i].clazz = b.events[i].clazz
               /\ a.events[i].state = IF i \in w THEN "written" ELSE b.events[i].state
    <2>1. b.events[i] \in EventRecord
      BY DEF IsBuffer
    <2> QED
      BY <1>3, <2>1 DEF EventRecord, EventState
  <1>6. IsBuffer(a)
    <2>1. a.events \in [Ids(b) -> EventRecord]
      BY <1>3, <1>5
    <2>2. a.selected \in Int /\ a.written \in [Classes -> Int]
      BY <1>2, <1>3 DEF IsBuffer
    <2>3. IsBuffer([b EXCEPT !.events = a.events, !.selected = a.selected, !.written = a.written])
      BY <2>1, <2>2, RemarkType
    <2> QED
      BY <1>r, <2>3
  <1>7. a.selected = Cardinality(IdsIn(a, "selected"))
    <2>1. IdsIn(a, "selected") = IdsIn(b, "selected") \ w
      BY <1>1, <1>4, <1>5 DEF IdsIn
    <2>2. IsFiniteSet(IdsIn(b, "selected"))
      BY FiniteIds DEF IdsIn
    <2> QED
      BY <1>1, <1>3, <2>1, <2>2, CardinalityMinus DEF CountersAgree
  <1>8. ASSUME NEW c \in Classes
        PROVE  a.written[c] = Cardinality(OfClass(a, IdsIn(a, "written"), c))
    <2> DEFINE old == OfClass(b, IdsIn(b, "written"), c)
    <2>1. OfClass(a, IdsIn(a, "written"), c) = old \cup OfClass(b, w, c)
      BY <1>1, <1>4, <1>5 DEF OfClass, IdsIn
    <2>2. IsFiniteSet(old) /\ old \cap OfClass(b, w, c) = {}
      BY <1>1, FiniteIds DEF OfClass, IdsIn
    <2>3. Cardinality(old \cup OfClass(b, w, c)) = Cardinality(old) + Cardinality(OfClass(b, w, c))
      BY <1>2, <2>2, CardinalityPlus
    <2>4. b.written[c] = Cardinality(old)
      BY DEF CountersAgree
    <2>5. a.written[c] = b.written[c] + Cardinality(OfClass(b, w, c))
      BY <1>3
    <2> QED
      BY <2>1, <2>3, <2>4, <2>5
  <1>9. \A c : OfClass(a, Ids(a), c) = OfClass(b, Ids(b), c)
    BY <1>4, <1>5 DEF OfClass
  <1>10. a.total = b.total
    BY <1>3
  <1> QED
    BY <1>6, <1>7, <1>8, <1>9, <1>10 DEF CountersAgree, a

\* After a failure nothing is selected or written.
LEMMA UnselectInv ==
    ASSUME NEW b, BufferInv(b)
    PROVE  BufferInv(Unselect(b))
  <1> DEFINE u == Unselect(b)
  <1> USE DEF BufferInv
  <1>1. /\ u.events = [i \in Ids(b) |-> [b.events[i] EXCEPT !.state = "unselected"]]
        /\ u.selected = 0
        /\ u.written = [c \in Classes |-> 0]
        /\ u.total = b.total
    BY DEF Unselect, IsBuffer
  <1>r. u = [b EXCEPT !.events = u.events, !.selected = u.selected, !.written = u.written]
    BY DEF Unselect, IsBuffer
  <1> HIDE DEF u
  <1>2. Ids(u) = Ids(b)
    BY <1>1 DEF Ids
  <1>3. ASSUME NEW i \in Ids(b)
        PROVE  /\ u.events[i] \in EventRecord
               /\ u.events[i].clazz = b.events[i].clazz
               /\ u.events[i].state = "unselected"
    <2>1. b.events[i] \in EventRecord
      BY DEF IsBuffer
    <2> QED
      BY <1>1, <2>1 DEF EventRecord, EventState
  <1>4. IsBuffer(u)
    <2>1. u.events \in [Ids(b) -> EventRecord]
      BY <1>1, <1>3
    <2>2. u.selected \in Int /\ u.written \in [Classes -> Int]
      BY <1>1
    <2>3. IsBuffer([b EXCEPT !.events = u.events, !.selected = u.selected, !.written = u.written])
      BY <2>1, <2>2, RemarkType
    <2> QED
      BY <1>r, <2>3
  <1>5. /\ IdsIn(u, "selected") = {}
        /\ \A c : /\ OfClass(u, Ids(u), c) = OfClass(b, Ids(b), c)
                  /\ OfClass(u, IdsIn(u, "written"), c) = {}
    BY <1>2, <1>3 DEF IdsIn, OfClass
  <1>6. u.selected = 0 /\ u.total = b.total /\ \A c \in Classes : u.written[c] = 0
    BY <1>1
  <1> QED
    BY <1>4, <1>5, <1>6, FS_EmptySet DEF CountersAgree, u

\* A confirm removes exactly the written events.
LEMMA ClearWrittenInv ==
    ASSUME NEW b, BufferInv(b)
    PROVE  BufferInv(ClearWritten(b))
  BY DiscardInv DEF ClearWritten, IdsIn

\* Asking for the overflow flag changes only the flag.
LEMMA QueryOverflowInv ==
    ASSUME NEW b, BufferInv(b)
    PROVE  BufferInv(QueryOverflow(b))
  <1> DEFINE q == QueryOverflow(b)
  <1>1. /\ q.events = b.events /\ q.selected = b.selected
        /\ q.total = b.total /\ q.written = b.written
    BY DEF QueryOverflow, BufferInv, IsBuffer
  <1>2. IsBuffer(q)
    BY DEF QueryOverflow, BufferInv, IsBuffer, Ids
  <1>3. CountersAgree(b)
    BY DEF BufferInv
  <1> HIDE DEF q
  <1>4. CountersAgree(q)
    BY <1>1, <1>3 DEF CountersAgree, IdsIn, OfClass, Ids
  <1> QED
    BY <1>2, <1>4 DEF BufferInv, q

\* The buffer as constructed.
LEMMA EmptyBufferInv == BufferInv(EmptyBuffer)
  <1>1. IsBuffer(EmptyBuffer) /\ Ids(EmptyBuffer) = {}
    BY DEF IsBuffer, EmptyBuffer, Ids
  <1>2. \A st, c : /\ IdsIn(EmptyBuffer, st) = {}
                   /\ OfClass(EmptyBuffer, {}, c) = {}
    BY <1>1 DEF IdsIn, OfClass
  <1> QED
    BY <1>1, <1>2, FS_EmptySet DEF BufferInv, CountersAgree, EmptyBuffer

-----------------------------------------------------------------------------
(***************************************************************************)
(* Capacity.                                                               *)
(***************************************************************************)

\* The walk that stops after one hit finds one, if there is one to find.
LEMMA FirstNonEmpty ==
    ASSUME NEW S, S \subseteq Nat, S # {}
    PROVE  First(S, 1) # {}
  <1> DEFINE Less == {p \in Nat \X Nat : p[1] < p[2]}
  <1>0. IsWellFoundedOn(Less, Nat)
    BY NatLessThanWellFounded, Zenon DEF OpToRel
  <1> HIDE DEF Less
  <1>1. PICK m \in S : \A j \in S : ~(<<j, m>> \in Less)
    BY <1>0, WFMin
  <1>2. \A j \in S : ~(j < m)
    BY <1>1 DEF Less
  <1>3. {j \in S : j <= m} = {m}
    <2>1. \A j \in S : j <= m <=> j = m
      <3> TAKE j \in S
      <3>1. j \in Nat /\ m \in Nat /\ ~(j < m)
        BY <1>2
      <3> QED
        BY <3>1
    <2> QED
      BY <2>1
  <1>4. Cardinality({m}) = 1
    BY FS_Singleton
  <1>5. Cardinality({j \in S : j <= m}) <= 1
    BY <1>3, <1>4
  <1> QED
    BY <1>5 DEF First

\* Removing events cannot exceed a capacity.
LEMMA DiscardCapacity ==
    ASSUME NEW b, IsBuffer(b), CapacityRespected(b), NEW ids
    PROVE  CapacityRespected(Discard(b, ids))
  <1> DEFINE d == Discard(b, ids)
  <1>1. Ids(d) \subseteq Ids(b) /\ \A i \in Ids(d) : d.events[i] = b.events[i]
    BY DEF Discard, Ids, IsBuffer
  <1> HIDE DEF d
  <1>2. ASSUME NEW t \in Types
        PROVE  Cardinality(IdsOf(d, t)) <= Capacity[t]
    <2>1. IdsOf(d, t) \subseteq IdsOf(b, t)
      BY <1>1 DEF IdsOf
    <2>2. IsFiniteSet(IdsOf(b, t)) /\ Cardinality(IdsOf(b, t)) \in Nat
      BY FiniteIds DEF IdsOf
    <2>3. Cardinality(IdsOf(d, t)) \in Nat /\ Cardinality(IdsOf(d, t)) <= Cardinality(IdsOf(b, t))
      BY <2>1, <2>2, FS_Subset, FS_CardinalityType
    <2>4. Cardinality(IdsOf(b, t)) <= Capacity[t] /\ Capacity[t] \in Nat
      BY CapacityAssumption DEF CapacityRespected
    <2> QED
      BY <2>2, <2>3, <2>4
  <1> QED
    BY <1>2 DEF CapacityRespected, d

\* Changing the state of events does not change what a type holds.
LEMMA SameListCapacity ==
    ASSUME NEW a, NEW b, CapacityRespected(b), Ids(a) = Ids(b),
           \A i \in Ids(b) : a.events[i].type = b.events[i].type
    PROVE  CapacityRespected(a)
  <1>1. \A t : IdsOf(a, t) = IdsOf(b, t)
    BY DEF IdsOf
  <1> QED
    BY <1>1 DEF CapacityRespected

\* Selecting moves no event in or out.
LEMMA SelectCapacity ==
    ASSUME NEW b, IsBuffer(b), CapacityRespected(b), NEW ids, NEW using, NEW v
    PROVE  CapacityRespected(Select(b, ids, using, v))
  <1> DEFINE s == Select(b, ids, using, v)
  <1>1. s.events = [i \in Ids(b) |->
                        IF i \notin ids THEN b.events[i]
                        ELSE [b.events[i] EXCEPT
                                !.state = "selected",
                                !.selectedVariation = IF i \in using THEN v[i] ELSE @]]
    BY DEF Select, IsBuffer
  <1> HIDE DEF s
  <1>2. Ids(s) = Ids(b)
    BY <1>1 DEF Ids
  <1>3. ASSUME NEW i \in Ids(b)
        PROVE  s.events[i].type = b.events[i].type
    <2>1. b.events[i] \in EventRecord
      BY DEF IsBuffer
    <2> QED
      BY <1>1, <2>1 DEF EventRecord
  <1>4. CapacityRespected(s)
    BY <1>2, <1>3, SameListCapacity
  <1> QED
    BY <1>4 DEF s

\* Writing moves no event in or out.
LEMMA LoadCapacity ==
    ASSUME NEW b, IsBuffer(b), CapacityRespected(b), NEW n
    PROVE  CapacityRespected(Load(b, n))
  <1> DEFINE a == Load(b, n)
  <1>1. a.events = [i \in Ids(b) |->
                      IF i \in Loaded(b, n) THEN [b.events[i] EXCEPT !.state = "written"]
                                            ELSE b.events[i]]
    BY DEF Load, IsBuffer
  <1> HIDE DEF a
  <1>2. Ids(a) = Ids(b)
    BY <1>1 DEF Ids
  <1>3. ASSUME NEW i \in Ids(b)
        PROVE  a.events[i].type = b.events[i].type
    <2>1. b.events[i] \in EventRecord
      BY DEF IsBuffer
    <2> QED
      BY <1>1, <2>1 DEF EventRecord
  <1>4. CapacityRespected(a)
    BY <1>2, <1>3, SameListCapacity
  <1> QED
    BY <1>4 DEF a

\* Deselecting moves no event in or out.
LEMMA UnselectCapacity ==
    ASSUME NEW b, IsBuffer(b), CapacityRespected(b)
    PROVE  CapacityRespected(Unselect(b))
  <1> DEFINE u == Unselect(b)
  <1>1. u.events = [i \in Ids(b) |-> [b.events[i] EXCEPT !.state = "unselected"]]
    BY DEF Unselect, IsBuffer
  <1> HIDE DEF u
  <1>2. Ids(u) = Ids(b)
    BY <1>1 DEF Ids
  <1>3. ASSUME NEW i \in Ids(b)
        PROVE  u.events[i].type = b.events[i].type
    <2>1. b.events[i] \in EventRecord
      BY DEF IsBuffer
    <2> QED
      BY <1>1, <2>1 DEF EventRecord
  <1>4. CapacityRespected(u)
    BY <1>2, <1>3, SameListCapacity
  <1> QED
    BY <1>4 DEF u

\* Asking for the overflow flag moves no event in or out.
LEMMA QueryOverflowCapacity ==
    ASSUME NEW b, IsBuffer(b), CapacityRespected(b)
    PROVE  CapacityRespected(QueryOverflow(b))
  <1>1. QueryOverflow(b).events = b.events
    BY DEF QueryOverflow, IsBuffer
  <1> QED
    BY <1>1, SameListCapacity DEF Ids

\* There is a free node for a new event of a type that is not full.
LEMMA AppendCapacity ==
    ASSUME NEW b, IsBuffer(b), CapacityRespected(b),
           NEW t \in Types, NEW c, NEW v, Cardinality(IdsOf(b, t)) < Capacity[t]
    PROVE  CapacityRespected(Append1(b, t, c, v))
  <1> DEFINE a == Append1(b, t, c, v)
  <1>1. b.next \in Nat /\ b.next \notin Ids(b)
    BY DEF IsBuffer
  <1>2. /\ Ids(a) = Ids(b) \cup {b.next}
        /\ \A i \in Ids(b) : a.events[i] = b.events[i]
        /\ a.events[b.next].type = t
    BY <1>1 DEF Append1, Ids, IsBuffer
  <1> HIDE DEF a
  <1>3. ASSUME NEW u \in Types
        PROVE  Cardinality(IdsOf(a, u)) <= Capacity[u]
    <2>1. IsFiniteSet(IdsOf(b, u)) /\ Cardinality(IdsOf(b, u)) \in Nat /\ b.next \notin IdsOf(b, u)
      BY <1>1, FiniteIds DEF IdsOf
    <2>2. Cardinality(IdsOf(b, u)) <= Capacity[u] /\ Capacity[u] \in Nat
      BY CapacityAssumption DEF CapacityRespected
    <2>3. CASE u = t
      <3>1. IdsOf(a, u) = IdsOf(b, u) \cup {b.next}
        BY <1>1, <1>2, <2>3 DEF IdsOf
      <3>2. Cardinality(IdsOf(a, u)) = Cardinality(IdsOf(b, u)) + 1
        BY <2>1, <3>1, FS_AddElement
      <3> QED
        BY <2>1, <2>2, <2>3, <3>2
    <2>4. CASE u # t
      <3>1. IdsOf(a, u) = IdsOf(b, u)
        BY <1>1, <1>2, <2>4 DEF IdsOf
      <3> QED
        BY <2>2, <3>1
    <2> QED
      BY <2>3, <2>4
  <1>4. CapacityRespected(a)
    BY <1>3 DEF CapacityRespected
  <1> QED
    BY <1>4 DEF a

\* A full type has lost its oldest event before the new one is added.
LEMMA UpdateCapacity ==
    ASSUME NEW b, BufferInv(b), CapacityRespected(b),
           NEW t \in Types, NEW c \in Classes, NEW v \in Variations
    PROVE  CapacityRespected(Update(b, t, c, v))
  <1> DEFINE hit == First(IdsOf(b, t), 1)
             d == Discard(b, hit)
             o == [d EXCEPT !.overflow = TRUE]
  <1> USE DEF BufferInv
  <1>1. /\ Capacity[t] \in Nat /\ Cardinality(IdsOf(b, t)) <= Capacity[t]
        /\ IsFiniteSet(IdsOf(b, t)) /\ Cardinality(IdsOf(b, t)) \in Nat
    BY CapacityAssumption, FiniteIds DEF CapacityRespected, IdsOf
  <1>2. CASE Capacity[t] = 0
    BY <1>2 DEF Update
  <1>3. CASE Capacity[t] # 0 /\ ~IsFull(b, t)
    <2>1. Cardinality(IdsOf(b, t)) < Capacity[t]
      BY <1>1, <1>3 DEF IsFull
    <2> QED
      BY <1>3, <2>1, AppendCapacity DEF Update
  <1>4. CASE Capacity[t] # 0 /\ IsFull(b, t)
    <2>1. Cardinality(IdsOf(b, t)) = Capacity[t] /\ Capacity[t] > 0
      BY <1>4 DEF IsFull
    <2>2. hit # {} /\ hit \subseteq IdsOf(b, t)
      <3>1. IdsOf(b, t) # {}
        BY <1>1, <2>1, FS_EmptySet
      <3>2. IdsOf(b, t) \subseteq Nat
        BY DEF IsBuffer, IdsOf
      <3> QED
        BY <3>1, <3>2, FirstNonEmpty, FirstSubset
    <2>3. BufferInv(d) /\ CapacityRespected(d)
      BY <2>2, DiscardInv, DiscardCapacity DEF IdsOf
    <2>4. IdsOf(d, t) = IdsOf(b, t) \ hit
      BY DEF Discard, IsBuffer, IdsOf, Ids
    <2>5. Cardinality(IdsOf(d, t)) < Capacity[t]
      <3>1. Cardinality(IdsOf(d, t)) = Cardinality(IdsOf(b, t)) - Cardinality(hit)
        BY <1>1, <2>2, <2>4, CardinalityMinus
      <3>2. IsFiniteSet(hit) /\ Cardinality(hit) \in Nat
        BY <1>1, <2>2, FS_Subset, FS_CardinalityType
      <3>3. Cardinality(hit) # 0
        BY <2>2, <3>2, FS_EmptySet
      <3> QED
        BY <1>1, <2>1, <3>1, <3>2, <3>3
    <2>6. o.events = d.events /\ IsBuffer(o)
      BY <2>3 DEF IsBuffer, Ids
    <2>7. Update(b, t, c, v) = Append1(o, t, c, v)
      BY <1>4 DEF Update
    <2> HIDE DEF o, d
    <2>8. CapacityRespected(o) /\ Cardinality(IdsOf(o, t)) < Capacity[t]
      BY <2>3, <2>5, <2>6 DEF CapacityRespected, IdsOf, Ids
    <2> QED
      BY <2>6, <2>7, <2>8, AppendCapacity
  <1> QED
    BY <1>2, <1>3, <1>4
=============================================================================
