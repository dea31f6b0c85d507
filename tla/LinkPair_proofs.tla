--------------------------- MODULE LinkPair_proofs ---------------------------
(***************************************************************************)
(* The link layer implements Delivery in both directions: for any numbers  *)
(* of segments, any number of retries, any number of frames under way and  *)
(* of outages, whatever is lost and however early timers fire, confirmed   *)
(* user data reaches the peer at most once and in order.                   *)
(*                                                                         *)
(* In a direction the segment numbers never decrease along what the peer   *)
(* has received last, the frames under way, and the segment the sender is  *)
(* at; and where a number occurs twice, both bear the same frame count bit *)
(* and no RESET_LINK_STATES comes between them, so that a copy of what the *)
(* peer has received does not bear the bit that it expects next.           *)
(*                                                                         *)
(* And where no timer is early and an outage breaks both ends, what is     *)
(* acknowledged was received.                                              *)
(***************************************************************************)
EXTENDS LinkPair, LinkStation_proofs

-----------------------------------------------------------------------------
(***************************************************************************)
(* The sender, of which n segments were asked so far.                      *)
(***************************************************************************)

\* The number of the segment it is at, or will be at next.
At(l, n) == IF l.pSegments THEN n + 1 - Len(l.segments) ELSE n + 1

\* That segment may have been written, with the frame count bit nextWriteFCB.
Carries(l) == l.pPriState \in {"ConfUserDataTransmitWait", "ConfDataWait"}

\* A station that confirms its data and that keep-alives leave alone.
Confirming(l) == l.useConfirms /\ ~l.keepAliveTimeout /\ l.timer["keepAlive"] # "expired"

\* Its segments are the last of those asked for.
Numbered(l, n) ==
    l.pSegments => /\ Len(l.segments) <= n
                   /\ \A i \in 1..Len(l.segments) : l.segments[i] = n - Len(l.segments) + i

\* What it transmits is what its state says.
Formatted(l, n) ==
    /\ l.pPriState = "ConfUserDataTransmitWait" =>
         l.txBuffer["Primary"] = UserData("CONFIRMED_USER_DATA", l.nextWriteFCB, At(l, n))
    /\ l.pPriState = "LinkResetTransmitWait" => l.txBuffer["Primary"] = Plain("RESET_LINK_STATES")
    /\ l.txBuffer["Secondary"] \in {NoFrame, Plain("ACK")}

ConfirmStates == {"Idle", "LinkResetTransmitWait", "ConfUserDataTransmitWait",
                  "ResetLinkWait", "ConfDataWait"}

Speaks(l, n) ==
    /\ l \in Station /\ n \in Nat
    /\ l.pPriState \in ConfirmStates
    /\ l.pPriState # "Idle" => l.pSegments
    /\ Confirming(l) /\ Numbered(l, n) /\ Formatted(l, n)

\* A later station that was asked for k segments has gone on to another segment, or
\* still sends the same one as before.
Later(l, n, d, k) ==
    \/ At(l, n) < At(d, k)
    \/ At(l, n) = At(d, k) /\ (Carries(l) => Carries(d) /\ d.nextWriteFCB = l.nextWriteFCB)

-----------------------------------------------------------------------------
(***************************************************************************)
(* A direction: what the peer received last, and the bit b that it         *)
(* expects; the frames w under way to it; the sender.                      *)
(***************************************************************************)
IsData(f) == f.func = "CONFIRMED_USER_DATA"
IsReset(f) == f.func = "RESET_LINK_STATES"
IsAck(f) == f.func = "ACK"
Number(f) == Head(f.data)

\* What stations of the pair send each other.
Legible(f) ==
    /\ f \in Frame
    /\ f.func \in {"ACK", "RESET_LINK_STATES", "CONFIRMED_USER_DATA"}
    /\ IsData(f) => Number(f) \in Nat /\ f.data = <<Number(f)>>

Ordered(w) ==
    \A i \in 1..Len(w), j \in 1..Len(w) :
        i < j /\ IsData(w[i]) /\ IsData(w[j]) =>
            /\ Number(w[i]) <= Number(w[j])
            /\ Number(w[i]) = Number(w[j]) =>
                 w[i].flag = w[j].flag /\ \A k \in i..j : ~IsReset(w[k])

\* What is under way follows what was received last,
Ahead(w, last, b) ==
    \A i \in 1..Len(w) :
        IsData(w[i]) =>
            /\ last <= Number(w[i])
            /\ last = Number(w[i]) => w[i].flag # b /\ \A k \in 1..i : ~IsReset(w[k])

\* and the sender follows both.
Behind(w, last, b, l, n) ==
    /\ last <= At(l, n)
    /\ last = At(l, n) =>
         Carries(l) /\ l.nextWriteFCB # b /\ \A k \in 1..Len(w) : ~IsReset(w[k])
    /\ \A i \in 1..Len(w) :
         IsData(w[i]) =>
            /\ Number(w[i]) <= At(l, n)
            /\ Number(w[i]) = At(l, n) =>
                 /\ Carries(l) /\ w[i].flag = l.nextWriteFCB
                 /\ \A k \in i..Len(w) : ~IsReset(w[k])

Direction(w, last, b, l, n) ==
    /\ last \in Nat
    /\ w \in Seq(Frame) /\ \A i \in 1..Len(w) : Legible(w[i])
    /\ Ordered(w) /\ Ahead(w, last, b) /\ Behind(w, last, b, l, n)

\* The last segment received; they are numbered from 1.
Latest(r) == IF r = <<>> THEN 0 ELSE r[Len(r)]

\* The inductive invariant.
StationInv(s) == LInv(station[s]) /\ Works(station[s]) /\ Speaks(station[s], sent[s])

DirectionInv(s) ==
    Direction(wire[Peer(s)], Latest(received[Peer(s)]), station[Peer(s)].nextReadFCB,
              station[s], sent[s])

PairInv ==
    /\ scenario \in Scenarios
    /\ DOMAIN station = Stations /\ left \in [Stations -> Nat] /\ sent \in [Stations -> Nat]
    /\ received \in [Stations -> Seq(Nat)] /\ wire \in [Stations -> Seq(Frame)]
    /\ \A s \in Stations : left[s] + sent[s] = scenario.load[s]
    /\ \A s \in Stations : StationInv(s) /\ DirectionInv(s)

-----------------------------------------------------------------------------
(***************************************************************************)
(* Steps in a direction.                                                   *)
(***************************************************************************)

\* The sender is at a natural number, beyond what it was asked for only when idle.
LEMMA AtType ==
    ASSUME NEW l, NEW n, Speaks(l, n)
    PROVE  /\ At(l, n) \in 1..n + 1
           /\ l.pSegments /\ l.segments # <<>> => At(l, n) <= n
  <1>1. l.segments \in Seq(Segment) /\ n \in Nat
    BY DEF Speaks, Station
  <1>2. Len(l.segments) \in Nat /\ (l.segments # <<>> => Len(l.segments) > 0)
    BY <1>1
  <1>3. l.pSegments => Len(l.segments) <= n
    BY DEF Speaks, Numbered
  <1> DEFINE m == Len(l.segments)
  <1>4. At(l, n) = IF l.pSegments THEN n + 1 - m ELSE n + 1
    BY DEF At
  <1> HIDE DEF m
  <1>5. CASE l.pSegments
    <2>1. m \in Nat /\ m <= n /\ At(l, n) = n + 1 - m /\ (l.segments # <<>> => m > 0)
      BY <1>2, <1>3, <1>4, <1>5 DEF m
    <2> QED
      BY <1>1, <2>1
  <1>6. CASE ~l.pSegments
    BY <1>1, <1>4, <1>6
  <1> QED
    BY <1>5, <1>6

\* The sender goes on.
LEMMA SenderStep ==
    ASSUME NEW w, NEW last, NEW b, NEW l, NEW n, NEW d, NEW k,
           Speaks(l, n), Speaks(d, k), Later(l, n, d, k), Direction(w, last, b, l, n)
    PROVE  Direction(w, last, b, d, k)
  <1> DEFINE x == At(l, n)
             y == At(d, k)
  <1>1. x \in Nat /\ y \in Nat
    BY AtType DEF Speaks
  <1>2. last \in Nat /\ \A i \in 1..Len(w) : IsData(w[i]) => Number(w[i]) \in Nat
    BY DEF Direction, Legible
  <1>3. Behind(w, last, b, l, n)
    BY DEF Direction
  <1>4. CASE x < y
    <2>1. last < y
      BY <1>1, <1>2, <1>3, <1>4 DEF Behind
    <2>2. \A i \in 1..Len(w) : IsData(w[i]) => Number(w[i]) < y
      BY <1>1, <1>2, <1>3, <1>4 DEF Behind
    <2> QED
      BY <1>1, <1>2, <2>1, <2>2 DEF Direction, Behind
  <1>5. CASE x = y /\ (Carries(l) => Carries(d) /\ d.nextWriteFCB = l.nextWriteFCB)
    <2> HIDE DEF x, y
    <2>1. Behind(w, last, b, d, k)
      BY <1>3, <1>5 DEF Behind, x, y
    <2> QED
      BY <2>1 DEF Direction
  <1> QED
    BY <1>4, <1>5 DEF Later

\* All that is under way is lost.
LEMMA WireLost ==
    ASSUME NEW w, NEW last, NEW b, NEW l, NEW n, Direction(w, last, b, l, n)
    PROVE  Direction(<<>>, last, b, l, n)
  BY DEF Direction, Ordered, Ahead, Behind

\* What the sender's buffers hold
Outgoing(l, f) ==
    \/ f = Plain("ACK")
    \/ f = Plain("RESET_LINK_STATES") /\ l.pPriState = "LinkResetTransmitWait"
    \/ l.pPriState = "ConfUserDataTransmitWait" /\ IsData(f) /\ f.flag = l.nextWriteFCB

\* goes on the wire.
LEMMA WireAppend ==
    ASSUME NEW w, NEW last, NEW b, NEW l, NEW n, Speaks(l, n), Direction(w, last, b, l, n),
           NEW f, Legible(f), Outgoing(l, f), IsData(f) => Number(f) = At(l, n)
    PROVE  Direction(Append(w, f), last, b, l, n)
  <1> DEFINE v == Append(w, f)
             m == Len(w)
  <1>1. w \in Seq(Frame) /\ f \in Frame /\ last \in Nat
    BY DEF Direction, Legible
  <1>2. /\ v \in Seq(Frame) /\ Len(v) = m + 1 /\ m \in Nat /\ v[m + 1] = f
        /\ \A i \in 1..m : v[i] = w[i]
    BY <1>1
  <1>3. \A i \in 1..m : Legible(w[i])
    BY DEF Direction
  <1>4. \A i \in 1..Len(v) : Legible(v[i])
    BY <1>2, <1>3
  <1>5. At(l, n) \in Nat /\ \A i \in 1..m : IsData(w[i]) => Number(w[i]) \in Nat
    BY <1>3, AtType DEF Legible, Speaks
  <1>6. /\ IsData(f) => ~IsReset(f) /\ Carries(l) /\ f.flag = l.nextWriteFCB
        /\ IsReset(f) => ~Carries(l)
    BY DEF Outgoing, IsData, IsReset, Carries, Plain
  <1>7. Behind(w, last, b, l, n) /\ Ahead(w, last, b) /\ Ordered(w)
    BY DEF Direction
  <1> HIDE DEF v, m
  <1>8. \A i \in 1..Len(v) : i \in 1..m \/ i = m + 1
    BY <1>2
  <1>9. Ordered(v)
    <2> SUFFICES ASSUME NEW i \in 1..Len(v), NEW j \in 1..Len(v), i < j, IsData(v[i]), IsData(v[j])
                 PROVE  /\ Number(v[i]) <= Number(v[j])
                        /\ Number(v[i]) = Number(v[j]) =>
                             v[i].flag = v[j].flag /\ \A k \in i..j : ~IsReset(v[k])
      BY DEF Ordered
    <2>1. i \in 1..m /\ v[i] = w[i]
      BY <1>2, <1>8
    <2>2. CASE j \in 1..m
      <3>1. \A k \in i..j : v[k] = w[k]
        BY <1>2, <2>1, <2>2
      <3>2. v[j] = w[j] /\ IsData(w[i]) /\ IsData(w[j])
        BY <1>2, <2>1, <2>2
      <3>3. /\ Number(w[i]) <= Number(w[j])
            /\ Number(w[i]) = Number(w[j]) =>
                 w[i].flag = w[j].flag /\ \A k \in i..j : ~IsReset(w[k])
        BY <1>7, <2>1, <2>2, <3>2 DEF Ordered, m
      <3> QED
        BY <2>1, <3>1, <3>2, <3>3
    <2>3. CASE j = m + 1
      <3>1. v[j] = f /\ IsData(f) /\ IsData(w[i])
        BY <1>2, <2>1, <2>3
      <3>2. /\ Number(w[i]) <= At(l, n)
            /\ Number(w[i]) = At(l, n) =>
                 w[i].flag = l.nextWriteFCB /\ \A k \in i..m : ~IsReset(w[k])
        BY <1>7, <2>1, <3>1 DEF Behind, m
      <3>3. \A k \in i..j : (k \in i..m /\ v[k] = w[k]) \/ v[k] = f
        BY <1>2, <2>1, <2>3
      <3> QED
        BY <1>6, <2>1, <3>1, <3>2, <3>3
    <2> QED
      BY <1>8, <2>2, <2>3
  <1>10. Ahead(v, last, b)
    <2> SUFFICES ASSUME NEW i \in 1..Len(v), IsData(v[i])
                 PROVE  /\ last <= Number(v[i])
                        /\ last = Number(v[i]) => v[i].flag # b /\ \A k \in 1..i : ~IsReset(v[k])
      BY DEF Ahead
    <2>1. CASE i \in 1..m
      <3>1. \A k \in 1..i : v[k] = w[k]
        BY <1>2, <2>1
      <3>2. v[i] = w[i]
        BY <1>2, <2>1
      <3> QED
        BY <1>7, <2>1, <3>1, <3>2 DEF Ahead, m
    <2>2. CASE i = m + 1
      <3>1. v[i] = f
        BY <1>2, <2>2
      <3>2. /\ last <= At(l, n)
            /\ last = At(l, n) => l.nextWriteFCB # b /\ \A k \in 1..m : ~IsReset(w[k])
        BY <1>7 DEF Behind, m
      <3>3. \A k \in 1..i : (k \in 1..m /\ v[k] = w[k]) \/ v[k] = f
        BY <1>2, <2>2
      <3> QED
        BY <1>6, <3>1, <3>2, <3>3
    <2> QED
      BY <1>8, <2>1, <2>2
  <1>11. Behind(v, last, b, l, n)
    <2>1. ASSUME Carries(l), \A k \in 1..m : ~IsReset(w[k])
          PROVE  \A k \in 1..Len(v) : ~IsReset(v[k])
      BY <1>2, <1>6, <1>8, <2>1
    <2>2. ASSUME NEW i \in 1..Len(v), IsData(v[i])
          PROVE  /\ Number(v[i]) <= At(l, n)
                 /\ Number(v[i]) = At(l, n) =>
                      /\ Carries(l) /\ v[i].flag = l.nextWriteFCB
                      /\ \A k \in i..Len(v) : ~IsReset(v[k])
      <3>1. CASE i \in 1..m
        <4>1. v[i] = w[i] /\ IsData(w[i])
          BY <1>2, <2>2, <3>1
        <4>2. /\ Number(w[i]) <= At(l, n)
              /\ Number(w[i]) = At(l, n) =>
                   /\ Carries(l) /\ w[i].flag = l.nextWriteFCB
                   /\ \A k \in i..m : ~IsReset(w[k])
          BY <1>7, <3>1, <4>1 DEF Behind, m
        <4>3. \A k \in i..Len(v) : (k \in i..m /\ v[k] = w[k]) \/ v[k] = f
          BY <1>2, <3>1
        <4> QED
          BY <1>6, <4>1, <4>2, <4>3
      <3>2. CASE i = m + 1
        <4>1. v[i] = f /\ \A k \in i..Len(v) : k = i
          BY <1>2, <3>2
        <4>2. At(l, n) <= At(l, n)
          BY <1>5
        <4> QED
          BY <1>6, <2>2, <4>1, <4>2
      <3> QED
        BY <1>8, <3>1, <3>2
    <2>3. /\ last <= At(l, n)
          /\ last = At(l, n) => Carries(l) /\ l.nextWriteFCB # b /\ \A k \in 1..m : ~IsReset(w[k])
      BY <1>7 DEF Behind, m
    <2> QED
      BY <2>1, <2>2, <2>3 DEF Behind
  <1> QED
    BY <1>1, <1>2, <1>4, <1>9, <1>10, <1>11 DEF Direction, v

\* The frame at the head of the wire is gone. What is behind it
LEMMA WireTail ==
    ASSUME NEW w, w \in Seq(Frame), w # <<>>
    PROVE  LET v == Tail(w)
           IN  /\ v \in Seq(Frame) /\ Len(v) + 1 = Len(w) /\ Len(v) \in Nat
               /\ \A i \in 1..Len(v) : v[i] = w[i + 1] /\ i + 1 \in 1..Len(w)
  OBVIOUS

\* is still in order.
LEMMA OrderedTail ==
    ASSUME NEW w, w \in Seq(Frame), w # <<>>, Ordered(w)
    PROVE  Ordered(Tail(w))
  <1> DEFINE v == Tail(w)
  <1>1. /\ Len(v) + 1 = Len(w) /\ Len(v) \in Nat
        /\ \A i \in 1..Len(v) : v[i] = w[i + 1] /\ i + 1 \in 1..Len(w)
    BY WireTail
  <1> HIDE DEF v
  <1> SUFFICES ASSUME NEW i \in 1..Len(v), NEW j \in 1..Len(v), i < j, IsData(v[i]), IsData(v[j])
               PROVE  /\ Number(v[i]) <= Number(v[j])
                      /\ Number(v[i]) = Number(v[j]) =>
                           v[i].flag = v[j].flag /\ \A k \in i..j : ~IsReset(v[k])
    BY DEF Ordered, v
  <1>2. /\ Number(w[i + 1]) <= Number(w[j + 1])
        /\ Number(w[i + 1]) = Number(w[j + 1]) =>
             w[i + 1].flag = w[j + 1].flag /\ \A k \in i + 1..j + 1 : ~IsReset(w[k])
    BY <1>1 DEF Ordered
  <1>3. \A k \in i..j : v[k] = w[k + 1] /\ k + 1 \in i + 1..j + 1
    BY <1>1
  <1> QED
    BY <1>1, <1>2, <1>3

\* A frame arrives that brings nothing new. The peer expects another bit only after
\* RESET_LINK_STATES.
LEMMA WireDrop ==
    ASSUME NEW w, NEW last, NEW b, NEW l, NEW n, Speaks(l, n), Direction(w, last, b, l, n),
           w # <<>>, NEW c, c = b \/ IsReset(w[1])
    PROVE  Direction(Tail(w), last, c, l, n)
  <1> DEFINE v == Tail(w)
  <1>1. w \in Seq(Frame) /\ last \in Nat /\ \A i \in 1..Len(w) : Legible(w[i])
    BY DEF Direction
  <1>2. /\ v \in Seq(Frame) /\ Len(v) + 1 = Len(w) /\ Len(v) \in Nat
        /\ \A i \in 1..Len(v) : v[i] = w[i + 1] /\ i + 1 \in 1..Len(w)
    BY <1>1, WireTail
  <1>3. Ordered(v)
    BY <1>1, OrderedTail DEF Direction
  <1>4. Behind(w, last, b, l, n) /\ Ahead(w, last, b)
    BY DEF Direction
  <1> HIDE DEF v
  <1>5. 1 \in 1..Len(w) /\ \A i \in 1..Len(w) : 1 \in 1..i
    BY <1>2
  <1>6. Ahead(v, last, c)
    <2> SUFFICES ASSUME NEW i \in 1..Len(v), IsData(v[i])
                 PROVE  /\ last <= Number(v[i])
                        /\ last = Number(v[i]) => v[i].flag # c /\ \A k \in 1..i : ~IsReset(v[k])
      BY DEF Ahead
    <2> DEFINE j == i + 1
    <2>1. v[i] = w[j] /\ j \in 1..Len(w)
      BY <1>2
    <2>2. \A k \in 1..i : v[k] = w[k + 1] /\ k + 1 \in 1..j
      BY <1>2
    <2> HIDE DEF j
    <2>3. /\ last <= Number(w[j])
          /\ last = Number(w[j]) => w[j].flag # b /\ \A k \in 1..j : ~IsReset(w[k])
      BY <1>4, <2>1 DEF Ahead
    <2> QED
      BY <1>5, <2>1, <2>2, <2>3
  <1>7. Behind(v, last, c, l, n)
    <2>1. ASSUME \A k \in 1..Len(w) : ~IsReset(w[k])
          PROVE  c = b /\ \A k \in 1..Len(v) : ~IsReset(v[k])
      BY <1>2, <1>5, <2>1
    <2>2. ASSUME NEW i \in 1..Len(v), IsData(v[i])
          PROVE  /\ Number(v[i]) <= At(l, n)
                 /\ Number(v[i]) = At(l, n) =>
                      /\ Carries(l) /\ v[i].flag = l.nextWriteFCB
                      /\ \A k \in i..Len(v) : ~IsReset(v[k])
      <3> DEFINE j == i + 1
      <3>1. v[i] = w[j] /\ j \in 1..Len(w)
        BY <1>2
      <3>2. \A k \in i..Len(v) : v[k] = w[k + 1] /\ k + 1 \in j..Len(w)
        BY <1>2
      <3> HIDE DEF j
      <3>3. /\ Number(w[j]) <= At(l, n)
            /\ Number(w[j]) = At(l, n) =>
                 /\ Carries(l) /\ w[j].flag = l.nextWriteFCB
                 /\ \A k \in j..Len(w) : ~IsReset(w[k])
        BY <1>4, <2>2, <3>1 DEF Behind
      <3> QED
        BY <3>1, <3>2, <3>3
    <2>3. /\ last <= At(l, n)
          /\ last = At(l, n) =>
               Carries(l) /\ l.nextWriteFCB # b /\ \A k \in 1..Len(w) : ~IsReset(w[k])
      BY <1>4 DEF Behind
    <2> QED
      BY <2>1, <2>2, <2>3 DEF Behind
  <1>8. \A i \in 1..Len(v) : Legible(v[i])
    BY <1>1, <1>2
  <1> QED
    BY <1>1, <1>2, <1>3, <1>6, <1>7, <1>8 DEF Direction, v

\* A frame arrives with the bit that the peer expects: its segment is new, and was
\* asked for.
LEMMA WireDeliver ==
    ASSUME NEW w, NEW last, NEW b \in BOOLEAN, NEW l, NEW n, LInv(l), Speaks(l, n),
           Direction(w, last, b, l, n), w # <<>>, IsData(w[1]), w[1].flag = b
    PROVE  LET x == Number(w[1])
           IN  /\ last < x /\ x \in 1..n
               /\ Direction(Tail(w), x, ~b, l, n)
  <1> DEFINE v == Tail(w)
             x == Number(w[1])
  <1>1. w \in Seq(Frame) /\ last \in Nat /\ \A i \in 1..Len(w) : Legible(w[i])
    BY DEF Direction
  <1>2. /\ v \in Seq(Frame) /\ Len(v) + 1 = Len(w) /\ Len(v) \in Nat
        /\ \A i \in 1..Len(v) : v[i] = w[i + 1] /\ i + 1 \in 1..Len(w)
    BY <1>1, WireTail
  <1>3. Ordered(v)
    BY <1>1, OrderedTail DEF Direction
  <1>4. Behind(w, last, b, l, n) /\ Ahead(w, last, b) /\ Ordered(w)
    BY DEF Direction
  <1> HIDE DEF v
  <1>5. 1 \in 1..Len(w) /\ x \in Nat
    BY <1>1, <1>2 DEF Legible
  <1> HIDE DEF x
  <1>6. last < x
    BY <1>1, <1>4, <1>5 DEF Ahead, x
  <1>7. /\ x <= At(l, n)
        /\ x = At(l, n) =>
             /\ Carries(l) /\ w[1].flag = l.nextWriteFCB
             /\ \A k \in 1..Len(w) : ~IsReset(w[k])
    BY <1>4, <1>5 DEF Behind, x
  <1>8. x \in 1..n
    <2>1. Carries(l) => l.pSegments /\ l.segments # <<>>
      BY DEF Carries, Speaks, LInv, HasSegments
    <2>2. At(l, n) \in 1..n + 1 /\ (Carries(l) => At(l, n) <= n) /\ n \in Nat
      BY <2>1, AtType DEF Speaks
    <2> QED
      BY <1>1, <1>5, <1>6, <1>7, <2>2
  <1>9. Ahead(v, x, ~b)
    <2> SUFFICES ASSUME NEW i \in 1..Len(v), IsData(v[i])
                 PROVE  /\ x <= Number(v[i])
                        /\ x = Number(v[i]) => v[i].flag # ~b /\ \A k \in 1..i : ~IsReset(v[k])
      BY DEF Ahead
    <2> DEFINE j == i + 1
    <2>1. v[i] = w[j] /\ j \in 1..Len(w) /\ 1 < j
      BY <1>2
    <2>2. \A k \in 1..i : v[k] = w[k + 1] /\ k + 1 \in 1..j
      BY <1>2
    <2> HIDE DEF j
    <2>3. /\ x <= Number(w[j])
          /\ x = Number(w[j]) => w[1].flag = w[j].flag /\ \A k \in 1..j : ~IsReset(w[k])
      BY <1>4, <1>5, <2>1 DEF Ordered, x
    <2> QED
      BY <2>1, <2>2, <2>3
  <1>10. Behind(v, x, ~b, l, n)
    <2>1. ASSUME NEW i \in 1..Len(v), IsData(v[i])
          PROVE  /\ Number(v[i]) <= At(l, n)
                 /\ Number(v[i]) = At(l, n) =>
                      /\ Carries(l) /\ v[i].flag = l.nextWriteFCB
                      /\ \A k \in i..Len(v) : ~IsReset(v[k])
      <3> DEFINE j == i + 1
      <3>1. v[i] = w[j] /\ j \in 1..Len(w)
        BY <1>2
      <3>2. \A k \in i..Len(v) : v[k] = w[k + 1] /\ k + 1 \in j..Len(w)
        BY <1>2
      <3> HIDE DEF j
      <3>3. /\ Number(w[j]) <= At(l, n)
            /\ Number(w[j]) = At(l, n) =>
                 /\ Carries(l) /\ w[j].flag = l.nextWriteFCB
                 /\ \A k \in j..Len(w) : ~IsReset(w[k])
        BY <1>4, <2>1, <3>1 DEF Behind
      <3> QED
        BY <3>1, <3>2, <3>3
    <2>2. x = At(l, n) => /\ Carries(l) /\ l.nextWriteFCB # ~b
                          /\ \A k \in 1..Len(v) : ~IsReset(v[k])
      BY <1>2, <1>7
    <2> QED
      BY <1>7, <2>1, <2>2 DEF Behind
  <1>11. \A i \in 1..Len(v) : Legible(v[i])
    BY <1>1, <1>2
  <1>12. Direction(v, x, ~b, l, n)
    BY <1>2, <1>3, <1>5, <1>9, <1>10, <1>11 DEF Direction
  <1> QED
    BY <1>6, <1>8, <1>12 DEF v, x

-----------------------------------------------------------------------------
(***************************************************************************)
(* What the handlers do to the sender.                                     *)
(***************************************************************************)

\* The members that Speaks and the peer's direction read, apart from the buffers
SameSpeech(l, d) ==
    /\ d \in Station /\ SameSend(l, d)
    /\ d.useConfirms = l.useConfirms /\ d.keepAliveTimeout = l.keepAliveTimeout
    /\ d.timer["keepAlive"] = l.timer["keepAlive"]
    /\ d.nextWriteFCB = l.nextWriteFCB /\ d.nextReadFCB = l.nextReadFCB

\* and with them
Silent(l, d) == SameSpeech(l, d) /\ d.txBuffer = l.txBuffer

\* The sender goes on, and the station expects the same bit of its peer.
GoesOn(l, n, d, k) == Speaks(d, k) /\ Later(l, n, d, k) /\ d.nextReadFCB = l.nextReadFCB

\* Members of the sender that only its own exchange changes
SameLine(l, d) ==
    /\ d.isRemoteReset = l.isRemoteReset /\ d.status = l.status
    /\ d.nextWriteFCB = l.nextWriteFCB
    /\ d.timer["response"] = l.timer["response"]
    /\ d.orphans["response"] = l.orphans["response"]

\* and those of the secondary station
SameReader(l, d) == d.pSecState = l.pSecState /\ d.nextReadFCB = l.nextReadFCB

LEMMA SilentGoesOn ==
    ASSUME NEW l, NEW n, Speaks(l, n), NEW d, Silent(l, d)
    PROVE  GoesOn(l, n, d, n) /\ At(d, n) = At(l, n)
  BY DEF Silent, SameSpeech, SameSend, GoesOn, Speaks, Confirming, Numbered, Formatted, At, Later,
         Carries

LEMMA SilentTrans ==
    ASSUME NEW l, NEW d, NEW e, Silent(l, d), Silent(d, e)
    PROVE  Silent(l, e)
  BY DEF Silent, SameSpeech, SameSend

LEMMA GoesOnTrans ==
    ASSUME NEW l, NEW n, NEW d, NEW k, NEW e, NEW j,
           Speaks(l, n), GoesOn(l, n, d, k), GoesOn(d, k, e, j)
    PROVE  GoesOn(l, n, e, j)
  <1>1. At(l, n) \in Nat /\ At(d, k) \in Nat /\ At(e, j) \in Nat
    BY AtType DEF GoesOn, Speaks
  <1> QED
    BY <1>1 DEF GoesOn, Later

\* IOHandler::BeginTransmit
LEMMA BeginWriteSilent ==
    ASSUME NEW l \in Station, NEW side \in Sides, NEW f \in Frame
    PROVE  Silent(l, BeginWrite(l, side, f))
  <1> DEFINE q == Append(l.txQueue, [side |-> side, frame |-> f])
             d == BeginWrite(l, side, f)
  <1>1. d \in Station /\ SameSend(l, d)
    BY BeginWriteEffect DEF SamePri
  <1>2. d = IF l.channel THEN [l EXCEPT !.txMode = side, !.txQueue = q]
            ELSE [l EXCEPT !.txMode = side]
    BY DEF BeginWrite
  <1> HIDE DEF q, d
  <1>3. /\ d.useConfirms = l.useConfirms /\ d.keepAliveTimeout = l.keepAliveTimeout
        /\ d.timer = l.timer /\ d.txBuffer = l.txBuffer
        /\ d.nextWriteFCB = l.nextWriteFCB /\ d.nextReadFCB = l.nextReadFCB
    BY <1>2 DEF Station
  <1> QED
    BY <1>1, <1>3 DEF Silent, SameSpeech, d

\* Changes of one member
LEMMA MinorSilent ==
    ASSUME NEW l \in Station
    PROVE  /\ \A x \in [Sides -> Frame \cup {NoFrame}] : Silent(l, [l EXCEPT !.pending = x])
           /\ \A x \in {"Idle"} \cup Sides : Silent(l, [l EXCEPT !.txMode = x])
           /\ \A x \in Seq(Transmission) : Silent(l, [l EXCEPT !.txQueue = x])
           /\ \A x \in {"UNRESET", "RESET"} : Silent(l, [l EXCEPT !.status = x])
           /\ \A x \in 0..NumRetry : Silent(l, [l EXCEPT !.numRetryRemaining = x])
           /\ \A x \in SecState : Silent(l, [l EXCEPT !.pSecState = x])
           /\ \A x \in BOOLEAN : Silent(l, [l EXCEPT !.enabled = x])
           /\ \A x \in BOOLEAN : Silent(l, [l EXCEPT !.channel = x])
           /\ \A x \in Nat, y \in BOOLEAN : Silent(l, [l EXCEPT !.posted = x, !.isSending = y])
  <1>1. \A x \in [Sides -> Frame \cup {NoFrame}] : Silent(l, [l EXCEPT !.pending = x])
    BY DEF Silent, SameSpeech, SameSend, Station
  <1>2. \A x \in {"Idle"} \cup Sides : Silent(l, [l EXCEPT !.txMode = x])
    BY DEF Silent, SameSpeech, SameSend, Station
  <1>3. \A x \in Seq(Transmission) : Silent(l, [l EXCEPT !.txQueue = x])
    BY DEF Silent, SameSpeech, SameSend, Station
  <1>4. \A x \in {"UNRESET", "RESET"} : Silent(l, [l EXCEPT !.status = x])
    BY DEF Silent, SameSpeech, SameSend, Station
  <1>5. \A x \in 0..NumRetry : Silent(l, [l EXCEPT !.numRetryRemaining = x])
    BY DEF Silent, SameSpeech, SameSend, Station
  <1>6. \A x \in SecState : Silent(l, [l EXCEPT !.pSecState = x])
    BY DEF Silent, SameSpeech, SameSend, Station
  <1>7. \A x \in BOOLEAN : Silent(l, [l EXCEPT !.enabled = x])
    BY DEF Silent, SameSpeech, SameSend, Station
  <1>8. \A x \in BOOLEAN : Silent(l, [l EXCEPT !.channel = x])
    BY DEF Silent, SameSpeech, SameSend, Station
  <1>9. \A x \in Nat, y \in BOOLEAN : Silent(l, [l EXCEPT !.posted = x, !.isSending = y])
    BY DEF Silent, SameSpeech, SameSend, Station
  <1> QED
    BY <1>1, <1>2, <1>3, <1>4, <1>5, <1>6, <1>7, <1>8, <1>9

\* The response timer, and the start of the keep-alive timer
LEMMA TimersSilent ==
    ASSUME NEW l \in Station
    PROVE  /\ Silent(l, Start(l, "response"))
           /\ Silent(l, Cancel(l, "response"))
           /\ l.timer["response"] = "expired" \/ l.orphans["response"] > 0
                => Silent(l, Fired(l, "response"))
           /\ l.timer["response"] = "running" => Silent(l, Expired(l, "response"))
  <1>1. "response" \in Timers /\ "keepAlive" \in Timers
    BY DEF Timers
  <1>2. l.timer \in [Timers -> TimerStates] /\ l.orphans \in [Timers -> Nat]
    BY DEF Station
  <1>3. ASSUME NEW x \in [Timers -> TimerStates], NEW y \in [Timers -> Nat],
               x["keepAlive"] = l.timer["keepAlive"]
        PROVE  Silent(l, [l EXCEPT !.timer = x, !.orphans = y]) /\ Silent(l, [l EXCEPT !.timer = x])
    <2>1. Silent(l, [l EXCEPT !.timer = x, !.orphans = y])
      BY <1>3 DEF Silent, SameSpeech, SameSend, Station
    <2>2. Silent(l, [l EXCEPT !.timer = x])
      BY <1>3 DEF Silent, SameSpeech, SameSend, Station
    <2> QED
      BY <2>1, <2>2
  <1>4. ASSUME NEW s \in TimerStates, NEW n \in Nat
        PROVE  /\ Silent(l, [l EXCEPT !.timer["response"] = s])
               /\ Silent(l, [l EXCEPT !.timer["response"] = s, !.orphans["response"] = n])
    <2> DEFINE x == [l.timer EXCEPT !["response"] = s]
               y == [l.orphans EXCEPT !["response"] = n]
    <2>1. /\ x \in [Timers -> TimerStates] /\ y \in [Timers -> Nat]
          /\ x["keepAlive"] = l.timer["keepAlive"]
      BY <1>1, <1>2
    <2>2. /\ [l EXCEPT !.timer["response"] = s, !.orphans["response"] = n]
               = [l EXCEPT !.timer = x, !.orphans = y]
          /\ [l EXCEPT !.timer["response"] = s] = [l EXCEPT !.timer = x]
      OBVIOUS
    <2> HIDE DEF x, y
    <2> QED
      BY <1>3, <2>1, <2>2
  <1>5. /\ "none" \in TimerStates /\ "running" \in TimerStates /\ "expired" \in TimerStates
        /\ l.orphans["response"] \in Nat
    BY <1>1, <1>2 DEF TimerStates
  <1>6. Silent(l, l)
    BY DEF Silent, SameSpeech, SameSend
  <1>7. Silent(l, Start(l, "response"))
    BY <1>4, <1>5, <1>6 DEF Start
  <1>8. Silent(l, Cancel(l, "response"))
    <2> DEFINE n == IF l.timer["response"] = "expired" THEN l.orphans["response"] + 1
                    ELSE l.orphans["response"]
    <2>1. n \in Nat
      BY <1>5
    <2>2. Cancel(l, "response") = [l EXCEPT !.timer["response"] = "none", !.orphans["response"] = n]
      BY DEF Cancel
    <2> HIDE DEF n
    <2> QED
      BY <1>4, <1>5, <2>1, <2>2
  <1>9. ASSUME l.timer["response"] = "expired" \/ l.orphans["response"] > 0
        PROVE  Silent(l, Fired(l, "response"))
    <2> DEFINE n == IF l.timer["response"] = "none" THEN l.orphans["response"] - 1
                    ELSE l.orphans["response"]
    <2>1. n \in Nat
      BY <1>5, <1>9
    <2>2. Fired(l, "response") = [l EXCEPT !.timer["response"] = "none", !.orphans["response"] = n]
      BY DEF Fired
    <2> HIDE DEF n
    <2> QED
      BY <1>4, <1>5, <2>1, <2>2
  <1>10. Silent(l, Expired(l, "response"))
    BY <1>4, <1>5 DEF Expired
  <1> QED
    BY <1>7, <1>8, <1>9, <1>10

\* LinkContext::QueueTransmit formats the frame into the side's buffer.
LEMMA QueueTransmitSpeech ==
    ASSUME NEW l \in Station, NEW side \in Sides, NEW f \in Frame
    PROVE  LET d == QueueTransmit(l, side, f)
           IN  /\ SameSpeech(l, d) /\ d.txBuffer[side] = f
               /\ \A s \in Sides : s # side => d.txBuffer[s] = l.txBuffer[s]
  <1> DEFINE x == [l.txBuffer EXCEPT ![side] = f]
             e == [l EXCEPT !.txBuffer = x]
  <1>1. l.txBuffer \in [Sides -> Frame \cup {NoFrame}]
    BY DEF Station
  <1>2. /\ x \in [Sides -> Frame \cup {NoFrame}] /\ x[side] = f
        /\ \A s \in Sides : s # side => x[s] = l.txBuffer[s]
    BY <1>1
  <1>3. [l EXCEPT !.txBuffer[side] = f] = e
    OBVIOUS
  <1> HIDE DEF x
  <1>4. SameSpeech(l, e) /\ e.txBuffer = x /\ e \in Station
    BY <1>2 DEF Station, SameSpeech, SameSend
  <1>5. QueueTransmit(l, side, f) =
          IF l.txMode = "Idle" THEN BeginWrite(e, side, f) ELSE [e EXCEPT !.pending[side] = f]
    BY <1>3 DEF QueueTransmit
  <1> HIDE DEF e
  <1> DEFINE y == [e.pending EXCEPT ![side] = f]
  <1>6. y \in [Sides -> Frame \cup {NoFrame}]
    BY <1>4 DEF Station
  <1>7. [e EXCEPT !.pending[side] = f] = [e EXCEPT !.pending = y]
    OBVIOUS
  <1> HIDE DEF y
  <1>8. Silent(e, QueueTransmit(l, side, f))
    <2>1. Silent(e, BeginWrite(e, side, f))
      BY <1>4, BeginWriteSilent
    <2>2. Silent(e, [e EXCEPT !.pending = y])
      BY <1>4, <1>6, MinorSilent
    <2> QED
      BY <1>5, <1>7, <2>1, <2>2
  <1> QED
    BY <1>2, <1>4, <1>8 DEF Silent, SameSpeech, SameSend

\* LinkContext::TryPendingTx
LEMMA TryPendingSilent ==
    ASSUME NEW l \in Station, NEW side \in Sides
    PROVE  Silent(l, TryPendingTx(l, side))
  <1>1. CASE l.txMode = "Idle" /\ l.pending[side] # NoFrame
    <2> DEFINE e == BeginWrite(l, side, l.pending[side])
               y == [e.pending EXCEPT ![side] = NoFrame]
    <2>1. l.pending[side] \in Frame
      BY <1>1 DEF Station
    <2>2. Silent(l, e)
      BY <2>1, BeginWriteSilent
    <2>3. TryPendingTx(l, side) = [e EXCEPT !.pending = y]
      BY <1>1 DEF TryPendingTx
    <2> HIDE DEF e
    <2>4. y \in [Sides -> Frame \cup {NoFrame}] /\ e \in Station
      BY <2>2 DEF Silent, SameSpeech, Station
    <2> HIDE DEF y
    <2>5. Silent(e, [e EXCEPT !.pending = y])
      BY <2>4, MinorSilent
    <2> QED
      BY <2>2, <2>3, <2>5, SilentTrans
  <1>2. CASE ~(l.txMode = "Idle" /\ l.pending[side] # NoFrame)
    BY <1>2 DEF TryPendingTx, Silent, SameSpeech, SameSend
  <1> QED
    BY <1>1, <1>2

LEMMA WrittenSilent ==
    ASSUME NEW l \in Station
    PROVE  Silent(l, Written(l))
  <1> DEFINE i == [l EXCEPT !.txMode = "Idle"]
             s == TryPendingTx(i, "Secondary")
             n == TryPendingTx(s, "Primary")
  <1>1. Silent(l, i)
    BY MinorSilent
  <1>2. Written(l) = n
    BY DEF Written
  <1> HIDE DEF i
  <1>3. Silent(i, s)
    BY <1>1, TryPendingSilent DEF Sides, Silent, SameSpeech
  <1> HIDE DEF s
  <1>4. Silent(s, n)
    BY <1>3, TryPendingSilent DEF Sides, Silent, SameSpeech
  <1> HIDE DEF n
  <1> QED
    BY <1>1, <1>2, <1>3, <1>4, SilentTrans

\* The primary station moves to a state whose frame, if any, is in its buffer.
LEMMA MoveGoesOn ==
    ASSUME NEW l, NEW n, Speaks(l, n), l.pSegments,
           NEW e, SameSpeech(l, e), e.txBuffer["Secondary"] = l.txBuffer["Secondary"],
           NEW p \in ConfirmStates, Carries(l) => p \in {"ConfUserDataTransmitWait", "ConfDataWait"},
           p = "ConfUserDataTransmitWait" =>
             e.txBuffer["Primary"] = UserData("CONFIRMED_USER_DATA", l.nextWriteFCB, At(l, n)),
           p = "LinkResetTransmitWait" => e.txBuffer["Primary"] = Plain("RESET_LINK_STATES")
    PROVE  GoesOn(l, n, [e EXCEPT !.pPriState = p], n)
  <1> DEFINE d == [e EXCEPT !.pPriState = p]
  <1>1. p \in PriState
    BY DEF ConfirmStates, PriState, PriTransmitWait, PriResponseWait
  <1>2. /\ d \in Station /\ d.pPriState = p /\ d.pSegments = l.pSegments /\ d.segments = l.segments
        /\ d.useConfirms = l.useConfirms /\ d.keepAliveTimeout = l.keepAliveTimeout
        /\ d.timer["keepAlive"] = l.timer["keepAlive"]
        /\ d.nextWriteFCB = l.nextWriteFCB /\ d.nextReadFCB = l.nextReadFCB
        /\ d.txBuffer = e.txBuffer
    BY <1>1 DEF SameSpeech, SameSend, Station
  <1> HIDE DEF d
  <1>3. At(d, n) = At(l, n)
    BY <1>2 DEF At
  <1>4. Numbered(d, n) /\ Confirming(d)
    BY <1>2 DEF Speaks, Numbered, Confirming
  <1>5. Formatted(d, n)
    BY <1>2, <1>3 DEF Speaks, Formatted
  <1>6. Speaks(d, n)
    BY <1>2, <1>4, <1>5 DEF Speaks
  <1>7. Later(l, n, d, n)
    BY <1>2, <1>3 DEF Later, Carries
  <1> QED
    BY <1>2, <1>6, <1>7 DEF GoesOn, d

\* The current segment
LEMMA HeadAt ==
    ASSUME NEW l, NEW n, Speaks(l, n), l.pSegments, l.segments # <<>>
    PROVE  Head(l.segments) = At(l, n)
  <1> DEFINE m == Len(l.segments)
  <1>1. l.segments \in Seq(Segment) /\ n \in Nat
    BY DEF Speaks, Station
  <1>2. m \in Nat /\ m > 0 /\ Head(l.segments) = l.segments[1]
    BY <1>1
  <1>3. \A i \in 1..m : l.segments[i] = n - m + i
    BY DEF Speaks, Numbered
  <1>4. At(l, n) = n + 1 - m
    BY DEF At
  <1> HIDE DEF m
  <1>5. 1 \in 1..m
    BY <1>2
  <1> QED
    BY <1>1, <1>2, <1>3, <1>4, <1>5

\* is what LinkContext::QueueTransmit formats for ConfirmedUserData.
LEMMA QueueConfirmedGoesOn ==
    ASSUME NEW l, NEW n, Speaks(l, n), l.pSegments, l.segments # <<>>
    PROVE  GoesOn(l, n, QueueConfirmed(l), n)
  <1> DEFINE f == UserData("CONFIRMED_USER_DATA", l.nextWriteFCB, Head(l.segments))
             e == QueueTransmit(l, "Primary", f)
  <1>1. l \in Station /\ l.segments \in Seq(Segment) /\ l.nextWriteFCB \in BOOLEAN /\ n \in Nat
    BY DEF Speaks, Station
  <1>2. Head(l.segments) = At(l, n)
    BY HeadAt
  <1>3. Head(l.segments) \in Segment
    BY <1>1
  <1>4. f \in Frame
    BY <1>1, <1>3, UserDataType DEF PriFunction
  <1>5. f = UserData("CONFIRMED_USER_DATA", l.nextWriteFCB, At(l, n))
    BY <1>2
  <1>6. QueueConfirmed(l) = [e EXCEPT !.pPriState = "ConfUserDataTransmitWait"]
    BY DEF QueueConfirmed
  <1> HIDE DEF f
  <1>7. "Primary" \in Sides /\ "Secondary" \in Sides /\ "Secondary" # "Primary"
    BY DEF Sides
  <1>8. /\ SameSpeech(l, e) /\ e.txBuffer["Primary"] = f
        /\ e.txBuffer["Secondary"] = l.txBuffer["Secondary"]
    BY <1>1, <1>4, <1>7, QueueTransmitSpeech
  <1> HIDE DEF e
  <1>9. "ConfUserDataTransmitWait" \in ConfirmStates
    BY DEF ConfirmStates
  <1>10. GoesOn(l, n, [e EXCEPT !.pPriState = "ConfUserDataTransmitWait"], n)
    BY <1>5, <1>8, <1>9, MoveGoesOn
  <1> QED
    BY <1>6, <1>10

\* and of RESET_LINK_STATES, which never follows a data frame of the same segment
LEMMA QueueResetLinksGoesOn ==
    ASSUME NEW l, NEW n, Speaks(l, n), l.pSegments, ~Carries(l)
    PROVE  GoesOn(l, n, QueueResetLinks(l), n)
  <1> DEFINE f == Plain("RESET_LINK_STATES")
             e == QueueTransmit(l, "Primary", f)
  <1>1. l \in Station
    BY DEF Speaks
  <1>2. f \in Frame
    BY PlainType DEF PriFunction
  <1>3. QueueResetLinks(l) = [e EXCEPT !.pPriState = "LinkResetTransmitWait"]
    BY DEF QueueResetLinks
  <1> HIDE DEF f
  <1>4. "Primary" \in Sides /\ "Secondary" \in Sides /\ "Secondary" # "Primary"
    BY DEF Sides
  <1>5. /\ SameSpeech(l, e) /\ e.txBuffer["Primary"] = f
        /\ e.txBuffer["Secondary"] = l.txBuffer["Secondary"]
    BY <1>1, <1>2, <1>4, QueueTransmitSpeech
  <1> HIDE DEF e
  <1>6. "LinkResetTransmitWait" \in ConfirmStates
    BY DEF ConfirmStates
  <1>7. GoesOn(l, n, [e EXCEPT !.pPriState = "LinkResetTransmitWait"], n)
    BY <1>5, <1>6, MoveGoesOn DEF f
  <1> QED
    BY <1>3, <1>7

\* The end of a send, with or without success: the next message has a greater number.
LEMMA CompleteGoesOn ==
    ASSUME NEW l, NEW n, Speaks(l, n), l.pSegments
    PROVE  LET d == CompleteSendOperation(l)
           IN  /\ Speaks(d, n) /\ d.nextReadFCB = l.nextReadFCB /\ At(d, n) = n + 1
               /\ l.segments # <<>> => GoesOn(l, n, d, n)
  <1> DEFINE k == l.posted + 1
             d == [l EXCEPT !.pSegments = FALSE, !.posted = k, !.pPriState = "Idle"]
  <1>1. k \in Nat /\ l \in Station /\ n \in Nat
    BY DEF Speaks, Station
  <1>2. CompleteSendOperation(l) = d
    BY DEF CompleteSendOperation
  <1> HIDE DEF k
  <1>3. /\ d \in Station /\ d.pPriState = "Idle" /\ ~d.pSegments
        /\ d.useConfirms = l.useConfirms /\ d.keepAliveTimeout = l.keepAliveTimeout
        /\ d.timer = l.timer /\ d.txBuffer = l.txBuffer /\ d.nextReadFCB = l.nextReadFCB
    BY <1>1 DEF Station, PriState
  <1> HIDE DEF d
  <1>4. Speaks(d, n)
    BY <1>1, <1>3 DEF Speaks, Confirming, Numbered, Formatted, ConfirmStates
  <1>5. At(d, n) = n + 1
    BY <1>3 DEF At
  <1>6. l.segments # <<>> => Later(l, n, d, n)
    <2>1. l.segments # <<>> => At(l, n) \in Nat /\ At(l, n) <= n
      BY AtType
    <2> QED
      BY <1>1, <1>5, <2>1 DEF Later
  <1> QED
    BY <1>2, <1>3, <1>4, <1>5, <1>6 DEF GoesOn

\* TransportTx::Advance, whatever has become of the bit: another segment is sent next.
LEMMA AdvanceConfirmedGoesOn ==
    ASSUME NEW l, NEW n, Speaks(l, n), l.pPriState = "ConfDataWait", l.segments # <<>>,
           NEW b \in BOOLEAN
    PROVE  LET c == Cancel([l EXCEPT !.nextWriteFCB = b], "response")
           IN  GoesOn(l, n, AdvanceConfirmed(c), n)
  <1> DEFINE e == [l EXCEPT !.nextWriteFCB = b]
             c == Cancel(e, "response")
             q == Tail(c.segments)
             d == [c EXCEPT !.segments = q]
             m == Len(l.segments)
  <1>1. l \in Station /\ l.segments \in Seq(Segment) /\ n \in Nat /\ l.pSegments
    BY DEF Speaks, Station
  <1>2. /\ e \in Station /\ SameSend(l, e) /\ e.useConfirms = l.useConfirms
        /\ e.keepAliveTimeout = l.keepAliveTimeout /\ e.timer = l.timer
        /\ e.nextReadFCB = l.nextReadFCB /\ e.txBuffer = l.txBuffer
    BY <1>1 DEF Station, SameSend
  <1> HIDE DEF e
  <1>3. Silent(e, c)
    BY <1>2, TimersSilent
  <1> HIDE DEF c
  <1>4. q \in Seq(Segment) /\ Len(q) = m - 1 /\ m \in Nat /\ m > 0
        /\ \A i \in 1..Len(q) : q[i] = l.segments[i + 1] /\ i + 1 \in 1..m
    BY <1>1, <1>2, <1>3 DEF Silent, SameSpeech, SameSend
  <1> HIDE DEF q, m
  <1>5. /\ d \in Station /\ d.segments = q /\ d.pPriState = "ConfDataWait" /\ d.pSegments
        /\ d.useConfirms = l.useConfirms /\ d.keepAliveTimeout = l.keepAliveTimeout
        /\ d.timer["keepAlive"] = l.timer["keepAlive"]
        /\ d.nextReadFCB = l.nextReadFCB /\ d.txBuffer = l.txBuffer
    BY <1>1, <1>2, <1>3, <1>4 DEF Silent, SameSpeech, SameSend, Station
  <1>6. Advance(c) = d
    BY DEF Advance, q
  <1> HIDE DEF d
  <1>7. m <= n /\ \A i \in 1..m : l.segments[i] = n - m + i
    BY <1>1 DEF Speaks, Numbered, m
  <1>8. At(d, n) = n + 1 - Len(q) /\ At(l, n) = n + 1 - m
    BY <1>1, <1>5 DEF At, m
  <1>9. Speaks(d, n)
    <2>1. Numbered(d, n)
      <3>1. Len(q) <= n
        BY <1>1, <1>4, <1>7
      <3>2. \A i \in 1..Len(q) : q[i] = n - Len(q) + i
        BY <1>1, <1>4, <1>7
      <3> QED
        BY <1>5, <3>1, <3>2 DEF Numbered
    <2>2. Confirming(d) /\ Formatted(d, n)
      BY <1>5 DEF Speaks, Confirming, Formatted
    <2> QED
      BY <1>1, <1>5, <2>1, <2>2 DEF Speaks, ConfirmStates
  <1>10. At(l, n) < At(d, n) /\ At(l, n) < n + 1
    BY <1>1, <1>4, <1>7, <1>8
  <1>11. GoesOn(l, n, d, n)
    BY <1>5, <1>9, <1>10 DEF GoesOn, Later
  <1>12. d.segments # <<>> => GoesOn(l, n, QueueConfirmed(d), n)
    BY <1>5, <1>9, <1>11, QueueConfirmedGoesOn, GoesOnTrans
  <1>13. GoesOn(l, n, CompleteSendOperation(d), n)
    BY <1>5, <1>9, <1>10, CompleteGoesOn DEF GoesOn, Later
  <1> QED
    BY <1>6, <1>12, <1>13 DEF AdvanceConfirmed, c, e

\* What PLLS_Idle and the states that wait do then
LEMMA TryStartGoesOn ==
    ASSUME NEW l, NEW n, Speaks(l, n), HasSegments(l)
    PROVE  GoesOn(l, n, TryStartTransmission(l), n)
  <1>1. l \in Station /\ ~l.keepAliveTimeout /\ l.useConfirms
    BY DEF Speaks, Confirming
  <1>2. TryStartTransmission(l) =
          IF l.pSegments /\ l.pPriState = "Idle" THEN TrySendConfirmed(l) ELSE l
    BY <1>1 DEF TryStartTransmission, TrySendSegments
  <1>3. Silent(l, l)
    BY <1>1 DEF Silent, SameSpeech, SameSend
  <1>4. CASE l.pSegments /\ l.pPriState = "Idle"
    <2> DEFINE r == ResetRetry(l)
    <2>1. NumRetry \in 0..NumRetry
      BY ConfigAssumption
    <2>2. r = [l EXCEPT !.numRetryRemaining = NumRetry]
      BY DEF ResetRetry
    <2> HIDE DEF r
    <2>3. Silent(l, r)
      BY <1>1, <2>1, <2>2, MinorSilent
    <2>4. GoesOn(l, n, r, n) /\ r.pSegments /\ r.pPriState = "Idle" /\ r.segments # <<>>
      BY <1>4, <2>3, SilentGoesOn DEF Silent, SameSpeech, SameSend, HasSegments
    <2>5. Speaks(r, n) /\ ~Carries(r)
      BY <2>4 DEF GoesOn, Carries
    <2>6. GoesOn(r, n, QueueConfirmed(r), n) /\ GoesOn(r, n, QueueResetLinks(r), n)
      BY <2>4, <2>5, QueueConfirmedGoesOn, QueueResetLinksGoesOn
    <2>7. GoesOn(l, n, QueueConfirmed(r), n) /\ GoesOn(l, n, QueueResetLinks(r), n)
      BY <2>4, <2>6, GoesOnTrans
    <2> QED
      BY <1>2, <1>4, <2>7 DEF TrySendConfirmed, r
  <1>5. CASE ~(l.pSegments /\ l.pPriState = "Idle")
    BY <1>2, <1>3, <1>5, SilentGoesOn
  <1> QED
    BY <1>4, <1>5

\* with an ACK,
LEMMA PriOnAckGoesOn ==
    ASSUME NEW l, NEW n, Speaks(l, n), LInv(l)
    PROVE  GoesOn(l, n, PriOnAck(l), n)
  <1>1. /\ l \in Station /\ (l.pPriState # "Idle" => l.pSegments /\ l.segments # <<>>)
        /\ l.nextWriteFCB \in BOOLEAN
    BY DEF Speaks, LInv, HasSegments, Station
  <1>2. CASE l.pPriState = "ResetLinkWait"
    <2> DEFINE e == [l EXCEPT !.isRemoteReset = TRUE, !.nextWriteFCB = TRUE, !.status = "RESET"]
               c == Cancel(e, "response")
    <2>1. /\ e \in Station /\ SameSend(l, e) /\ e.useConfirms = l.useConfirms
          /\ e.keepAliveTimeout = l.keepAliveTimeout /\ e.timer = l.timer
          /\ e.nextReadFCB = l.nextReadFCB /\ e.txBuffer = l.txBuffer
      BY <1>1 DEF Station, SameSend
    <2>2. PriOnAck(l) = QueueConfirmed(c)
      BY <1>2 DEF PriOnAck
    <2> HIDE DEF e
    <2>3. GoesOn(l, n, e, n)
      BY <1>2, <2>1 DEF GoesOn, Speaks, Confirming, Numbered, Formatted, At, Later, Carries, SameSend
    <2>4. Silent(e, c)
      BY <2>1, TimersSilent
    <2> HIDE DEF c
    <2>5. GoesOn(l, n, c, n)
      BY <2>3, <2>4, SilentGoesOn, GoesOnTrans DEF GoesOn
    <2>6. c.pSegments /\ c.segments # <<>>
      BY <1>1, <1>2, <2>1, <2>4 DEF Silent, SameSpeech, SameSend
    <2> QED
      BY <2>2, <2>5, <2>6, QueueConfirmedGoesOn, GoesOnTrans DEF GoesOn
  <1>3. CASE l.pPriState = "ConfDataWait"
    <2> DEFINE b == ~l.nextWriteFCB
    <2>1. PriOnAck(l) = AdvanceConfirmed(Cancel([l EXCEPT !.nextWriteFCB = b], "response"))
      BY <1>3 DEF PriOnAck
    <2>2. b \in BOOLEAN
      OBVIOUS
    <2> HIDE DEF b
    <2> QED
      BY <1>1, <1>3, <2>1, <2>2, AdvanceConfirmedGoesOn
  <1>4. CASE l.pPriState \notin {"ResetLinkWait", "ConfDataWait"}
    <2>1. Silent(l, l)
      BY <1>1 DEF Silent, SameSpeech, SameSend
    <2>2. PriOnAck(l) = l
      BY <1>4 DEF PriOnAck
    <2> QED
      BY <2>1, <2>2, SilentGoesOn
  <1> QED
    BY <1>2, <1>3, <1>4

\* when the response timer's callback runs,
LEMMA PriOnTimeoutGoesOn ==
    ASSUME NEW l, NEW n, Speaks(l, n), HasSegments(l)
    PROVE  GoesOn(l, n, PriOnTimeout(l), n)
  <1>1. l \in Station /\ (l.pPriState # "Idle" => l.pSegments /\ l.segments # <<>>)
    BY DEF Speaks, HasSegments
  <1>2. Silent(l, l)
    BY <1>1 DEF Silent, SameSpeech, SameSend
  <1> DEFINE k == l.numRetryRemaining - 1
             r == [l EXCEPT !.numRetryRemaining = k]
             u == [l EXCEPT !.status = "UNRESET"]
  <1>3. l.numRetryRemaining > 0 => k \in 0..NumRetry
    BY <1>1, ConfigAssumption DEF Station
  <1>4. PriOnTimeout(l) =
          CASE l.pPriState = "ResetLinkWait" /\ l.numRetryRemaining > 0 -> QueueResetLinks(r)
            [] l.pPriState = "ResetLinkWait" /\ ~(l.numRetryRemaining > 0) -> CompleteSendOperation(l)
            [] l.pPriState = "ConfDataWait" /\ l.numRetryRemaining > 0 -> QueueConfirmed(r)
            [] l.pPriState = "ConfDataWait" /\ ~(l.numRetryRemaining > 0) -> CompleteSendOperation(u)
            [] l.pPriState = "RequestLinkStatusWait" -> [l EXCEPT !.pPriState = "Idle"]
            [] OTHER -> l
    BY DEF PriOnTimeout
  <1> HIDE DEF k
  <1>5. l.numRetryRemaining > 0 => Silent(l, r)
    BY <1>1, <1>3, MinorSilent
  <1>6. Silent(l, u)
    BY <1>1, MinorSilent
  <1> HIDE DEF r, u
  <1>7. ASSUME NEW d, Silent(l, d), l.pPriState # "Idle"
        PROVE  /\ GoesOn(l, n, QueueConfirmed(d), n)
               /\ GoesOn(l, n, CompleteSendOperation(d), n)
               /\ ~Carries(l) => GoesOn(l, n, QueueResetLinks(d), n)
    <2>1. /\ GoesOn(l, n, d, n) /\ Speaks(d, n) /\ d.pSegments /\ d.segments # <<>>
          /\ ~Carries(l) => ~Carries(d)
      BY <1>1, <1>7, SilentGoesOn DEF Silent, SameSpeech, SameSend, GoesOn, Carries
    <2>2. /\ GoesOn(d, n, QueueConfirmed(d), n)
          /\ GoesOn(d, n, CompleteSendOperation(d), n)
          /\ ~Carries(l) => GoesOn(d, n, QueueResetLinks(d), n)
      BY <2>1, QueueConfirmedGoesOn, CompleteGoesOn, QueueResetLinksGoesOn
    <2> QED
      BY <2>1, <2>2, GoesOnTrans
  <1>8. CASE l.pPriState = "ResetLinkWait"
    BY <1>2, <1>4, <1>5, <1>7, <1>8 DEF Carries
  <1>9. CASE l.pPriState = "ConfDataWait"
    BY <1>4, <1>5, <1>6, <1>7, <1>9
  <1>10. CASE l.pPriState \notin {"ResetLinkWait", "ConfDataWait"}
    <2>1. PriOnTimeout(l) = l
      BY <1>4, <1>10 DEF Speaks, ConfirmStates
    <2> QED
      BY <1>2, <2>1, SilentGoesOn
  <1> QED
    BY <1>8, <1>9, <1>10

\* and when its frame has been written.
LEMMA PriOnTxReadyGoesOn ==
    ASSUME NEW l, NEW n, Speaks(l, n)
    PROVE  GoesOn(l, n, PriOnTxReady(l), n)
  <1> DEFINE s == Start(l, "response")
  <1>1. l \in Station /\ Silent(l, l)
    BY DEF Speaks, Silent, SameSpeech, SameSend
  <1>2. Silent(l, s)
    BY <1>1, TimersSilent
  <1> HIDE DEF s
  <1>3. /\ SameSpeech(l, s) /\ s.txBuffer["Secondary"] = l.txBuffer["Secondary"]
        /\ "ResetLinkWait" \in ConfirmStates /\ "ConfDataWait" \in ConfirmStates
    BY <1>2 DEF Silent, ConfirmStates
  <1>4. CASE l.pPriState = "LinkResetTransmitWait"
    <2>1. l.pSegments /\ ~Carries(l)
      BY <1>4 DEF Speaks, Carries
    <2>2. GoesOn(l, n, [s EXCEPT !.pPriState = "ResetLinkWait"], n)
      BY <1>3, <2>1, MoveGoesOn
    <2> QED
      BY <1>4, <2>2 DEF PriOnTxReady, s
  <1>5. CASE l.pPriState = "ConfUserDataTransmitWait"
    <2>1. l.pSegments
      BY <1>5 DEF Speaks
    <2>2. GoesOn(l, n, [s EXCEPT !.pPriState = "ConfDataWait"], n)
      BY <1>3, <2>1, MoveGoesOn
    <2> QED
      BY <1>5, <2>2 DEF PriOnTxReady, s
  <1>6. CASE l.pPriState \notin PriTransmitWait
    <2>1. PriOnTxReady(l) = l
      BY <1>6 DEF PriOnTxReady, PriTransmitWait
    <2> QED
      BY <1>1, <2>1, SilentGoesOn
  <1> QED
    BY <1>4, <1>5, <1>6 DEF Speaks, ConfirmStates, PriTransmitWait

-----------------------------------------------------------------------------
(***************************************************************************)
(* Entry points.                                                           *)
(***************************************************************************)

\* The k segments of a message that follow the first n
Follows(m, n, k) ==
    k \in Nat /\ k > 0 /\ m \in Seq(Segment) /\ Len(m) = k /\ \A i \in 1..k : m[i] = n + i

\* are asked for, before the station begins to send them.
LEMMA Configured ==
    ASSUME NEW l, NEW n, Speaks(l, n), LInv(l), Works(l), ~l.isSending, NEW k, NEW m,
           Follows(m, n, k)
    PROVE  \E d : /\ BeginTransmit(l, m) = TryStartTransmission(d)
                 /\ Speaks(d, n + k) /\ HasSegments(d) /\ At(d, n + k) = At(l, n)
                 /\ l.pPriState = "Idle" /\ d.pPriState = "Idle"
                 /\ SameLine(l, d) /\ SameReader(l, d)
  <1>1. /\ l \in Station /\ l.isOnline /\ n \in Nat /\ k \in Nat /\ k > 0 /\ n + k \in Nat
        /\ m \in Seq(Segment) /\ Len(m) = k /\ \A i \in 1..k : m[i] = n + i
    BY DEF Speaks, Works, Alive, Follows
  <1>2. ~l.pSegments /\ l.pPriState = "Idle"
    BY DEF Works, Once, Speaks
  <1>3. m # <<>>
    BY <1>1
  <1> DEFINE d == [l EXCEPT !.isSending = TRUE, !.segments = m, !.pSegments = TRUE]
  <1>4. BeginTransmit(l, m) = TryStartTransmission(d)
    BY <1>1, <1>2, <1>3 DEF BeginTransmit
  <1>5. /\ d \in Station /\ d.pSegments /\ d.segments = m /\ d.pPriState = "Idle"
        /\ d.useConfirms = l.useConfirms /\ d.keepAliveTimeout = l.keepAliveTimeout
        /\ d.timer = l.timer /\ d.nextReadFCB = l.nextReadFCB /\ d.txBuffer = l.txBuffer
        /\ SameLine(l, d) /\ SameReader(l, d)
    BY <1>1, <1>2 DEF Station, SameLine, SameReader
  <1> HIDE DEF d
  <1>6. At(l, n) = n + 1 /\ At(d, n + k) = n + 1
    BY <1>1, <1>2, <1>5 DEF At
  <1>7. Numbered(d, n + k)
    BY <1>1, <1>5 DEF Numbered
  <1>8. Confirming(d) /\ Formatted(d, n + k)
    BY <1>5 DEF Speaks, Confirming, Formatted
  <1>9. Speaks(d, n + k)
    BY <1>1, <1>5, <1>7, <1>8 DEF Speaks, ConfirmStates
  <1>10. HasSegments(d)
    BY <1>3, <1>5 DEF HasSegments
  <1> QED
    BY <1>2, <1>4, <1>5, <1>6, <1>9, <1>10

LEMMA SendGoesOn ==
    ASSUME NEW l, NEW n, Speaks(l, n), LInv(l), Works(l), ~l.isSending, NEW k, NEW m,
           Follows(m, n, k)
    PROVE  GoesOn(l, n, BeginTransmit(l, m), n + k)
  <1>1. PICK d : /\ BeginTransmit(l, m) = TryStartTransmission(d)
                 /\ Speaks(d, n + k) /\ HasSegments(d) /\ At(d, n + k) = At(l, n)
                 /\ l.pPriState = "Idle" /\ d.pPriState = "Idle"
                 /\ SameLine(l, d) /\ SameReader(l, d)
    BY Configured
  <1>2. GoesOn(l, n, d, n + k)
    BY <1>1 DEF GoesOn, Later, Carries, SameReader
  <1> QED
    BY <1>1, <1>2, TryStartGoesOn, GoesOnTrans

\* The OnTxReady of a completed send, where nothing is sent
LEMMA CompletionRan ==
    ASSUME NEW l \in Station, l.posted > 0
    PROVE  \E k \in Nat, b \in BOOLEAN :
              TransportOnTxReady(l, <<>>) = [l EXCEPT !.posted = k, !.isSending = b]
  <1> DEFINE k == l.posted - 1
             b == IF l.isOnline /\ l.isSending THEN FALSE ELSE l.isSending
             r == [l EXCEPT !.posted = k]
             d == [l EXCEPT !.posted = k, !.isSending = b]
  <1>1. k \in Nat /\ b \in BOOLEAN
    <2>1. l.posted \in Nat /\ l.isSending \in BOOLEAN
      BY DEF Station
    <2>2. k \in Nat
      BY <2>1
    <2> QED
      BY <2>1, <2>2, Zenon
  <1>2. TransportOnTxReady(l, <<>>) = IF l.isOnline /\ l.isSending THEN [r EXCEPT !.isSending = FALSE] ELSE r
    BY DEF TransportOnTxReady, BeginTransmit
  <1>3. TransportOnTxReady(l, <<>>) = d
    <2> HIDE DEF k
    <2>1. CASE l.isOnline /\ l.isSending
      BY <1>2, <2>1
    <2>2. CASE ~(l.isOnline /\ l.isSending)
      BY <1>1, <1>2, <2>2 DEF Station
    <2> QED
      BY <2>1, <2>2
  <1> HIDE DEF k, b
  <1> QED
    BY <1>1, <1>3

LEMMA CompletionGoesOn ==
    ASSUME NEW l, NEW n, Speaks(l, n), l.posted > 0
    PROVE  GoesOn(l, n, TransportOnTxReady(l, <<>>), n)
  <1>1. l \in Station
    BY DEF Speaks
  <1>2. PICK k \in Nat, b \in BOOLEAN :
            TransportOnTxReady(l, <<>>) = [l EXCEPT !.posted = k, !.isSending = b]
    BY <1>1, CompletionRan
  <1>3. Silent(l, [l EXCEPT !.posted = k, !.isSending = b])
    BY <1>1, MinorSilent
  <1> QED
    BY <1>2, <1>3, SilentGoesOn

\* IOHandler::OnWriteComplete
LEMMA WriteGoesOn ==
    ASSUME NEW l, NEW n, Speaks(l, n), LInv(l), Works(l), l.txQueue # <<>>
    PROVE  GoesOn(l, n, OnWriteComplete(l), n)
  <1> DEFINE q == Tail(l.txQueue)
             d == [l EXCEPT !.txQueue = q]
             w == Written(d)
             t == IF d.txMode = "Primary" THEN PriOnTxReady(w) ELSE SecOnTxReady(w)
  <1>1. l \in Station /\ q \in Seq(Transmission)
    BY DEF Speaks, Station
  <1>2. OnWriteComplete(l) = IF d.txMode = "Idle" THEN d ELSE TryStartTransmission(t)
    BY DEF OnWriteComplete, OnTxReady, Written
  <1>3. Silent(l, d)
    BY <1>1, MinorSilent
  <1> HIDE DEF q
  <1>4. LInv(d)
    BY <1>1, TxQueueInv
  <1> HIDE DEF d
  <1>5. Silent(d, w) /\ LInv(w) /\ w \in Station
    BY <1>4, WrittenSilent, WrittenInv DEF LInv
  <1> HIDE DEF w
  <1>6. GoesOn(l, n, d, n) /\ GoesOn(l, n, w, n)
    BY <1>3, <1>5, SilentGoesOn, SilentTrans
  <1>7. GoesOn(l, n, SecOnTxReady(w), n) /\ HasSegments(SecOnTxReady(w))
    <2>1. SecOnTxReady(w) = w \/ \E x \in SecState : SecOnTxReady(w) = [w EXCEPT !.pSecState = x]
      BY DEF SecOnTxReady, SecState
    <2>2. Silent(w, w)
      BY <1>5 DEF Silent, SameSpeech, SameSend
    <2>3. Silent(w, SecOnTxReady(w))
      BY <1>5, <2>1, <2>2, MinorSilent
    <2>4. LInv(SecOnTxReady(w))
      BY <1>5, SecOnTxReadyInv
    <2> QED
      BY <1>6, <2>3, <2>4, SilentGoesOn, GoesOnTrans DEF GoesOn, LInv
  <1>8. GoesOn(l, n, PriOnTxReady(w), n) /\ HasSegments(PriOnTxReady(w))
    <2>1. GoesOn(l, n, PriOnTxReady(w), n)
      BY <1>6, PriOnTxReadyGoesOn, GoesOnTrans DEF GoesOn
    <2>2. LInv(PriOnTxReady(w))
      BY <1>5, PriOnTxReadyInv
    <2> QED
      BY <2>1, <2>2 DEF LInv
  <1>9. GoesOn(l, n, t, n) /\ HasSegments(t)
    BY <1>7, <1>8
  <1> HIDE DEF t
  <1> QED
    BY <1>2, <1>6, <1>9, TryStartGoesOn, GoesOnTrans DEF GoesOn

\* LinkContext::OnResponseTimeout
LEMMA TimeoutGoesOn ==
    ASSUME NEW l, NEW n, Speaks(l, n), LInv(l), Works(l),
           l.timer["response"] = "expired" \/ l.orphans["response"] > 0
    PROVE  GoesOn(l, n, OnResponseTimeout(l), n)
  <1> DEFINE d == Fired(l, "response")
             p == PriOnTimeout(d)
  <1>1. l \in Station
    BY DEF LInv
  <1>2. Silent(l, d) /\ Same(l, d)
    BY <1>1, TimersSilent, ResponseTimerSame
  <1>3. OnResponseTimeout(l) = TryStartTransmission(p)
    BY DEF OnResponseTimeout
  <1> HIDE DEF d
  <1>4. HasSegments(d) /\ Sending(d) /\ d \in Station
    BY <1>2 DEF Silent, SameSpeech, SameSend, LInv, HasSegments, Sending
  <1>5. GoesOn(l, n, d, n)
    BY <1>2, SilentGoesOn
  <1>6. GoesOn(l, n, p, n)
    BY <1>4, <1>5, PriOnTimeoutGoesOn, GoesOnTrans DEF GoesOn
  <1>7. LInv(p)
    BY <1>4, PriOnTimeoutInv
  <1> HIDE DEF p
  <1> QED
    BY <1>3, <1>6, <1>7, TryStartGoesOn, GoesOnTrans DEF GoesOn, LInv

\* An acknowledgement of a secondary station, and the bit it expects then
LEMMA RespondGoesOn ==
    ASSUME NEW l, NEW n, Speaks(l, n), NEW b \in BOOLEAN
    PROVE  LET a == Respond(l, "ACK", "TransmitWaitReset")
               d == [a EXCEPT !.nextReadFCB = b]
           IN  /\ GoesOn(l, n, a, n)
               /\ Speaks(d, n) /\ Later(l, n, d, n) /\ d.nextReadFCB = b
  <1> DEFINE f == Plain("ACK")
             e == QueueTransmit(l, "Secondary", f)
             a == [e EXCEPT !.pSecState = "TransmitWaitReset"]
             d == [a EXCEPT !.nextReadFCB = b]
  <1>1. l \in Station /\ f \in Frame /\ "TransmitWaitReset" \in SecState
    BY PlainType DEF Speaks, SecFunction, SecState, SecTransmitWait
  <1>2. "Primary" \in Sides /\ "Secondary" \in Sides /\ "Secondary" # "Primary"
    BY DEF Sides
  <1> HIDE DEF f
  <1>3. /\ SameSpeech(l, e) /\ e.txBuffer["Secondary"] = f
        /\ e.txBuffer["Primary"] = l.txBuffer["Primary"]
    BY <1>1, <1>2, QueueTransmitSpeech
  <1>4. Respond(l, "ACK", "TransmitWaitReset") = a
    BY DEF Respond, f
  <1> HIDE DEF e
  <1>5. Silent(e, a) /\ a \in Station
    BY <1>1, <1>3, MinorSilent DEF SameSpeech, Silent
  <1> HIDE DEF a
  <1>6. /\ d \in Station /\ SameSend(a, d) /\ d.useConfirms = a.useConfirms
        /\ d.keepAliveTimeout = a.keepAliveTimeout /\ d.timer = a.timer
        /\ d.nextWriteFCB = a.nextWriteFCB /\ d.txBuffer = a.txBuffer /\ d.nextReadFCB = b
    BY <1>5 DEF Station, SameSend
  <1> HIDE DEF d
  <1>7. ASSUME NEW x \in {a, d}
        PROVE  Speaks(x, n) /\ Later(l, n, x, n)
    <2>1. /\ x \in Station /\ SameSend(l, x)
          /\ x.useConfirms = l.useConfirms /\ x.keepAliveTimeout = l.keepAliveTimeout
          /\ x.timer["keepAlive"] = l.timer["keepAlive"] /\ x.nextWriteFCB = l.nextWriteFCB
          /\ x.txBuffer["Secondary"] = f /\ x.txBuffer["Primary"] = l.txBuffer["Primary"]
      BY <1>3, <1>5, <1>6 DEF Silent, SameSpeech, SameSend
    <2>2. At(x, n) = At(l, n)
      BY <2>1 DEF At, SameSend
    <2>3. Numbered(x, n) /\ Confirming(x)
      BY <2>1 DEF Speaks, Numbered, Confirming, SameSend
    <2>4. Formatted(x, n)
      BY <2>1, <2>2 DEF Speaks, Formatted, SameSend, f
    <2> QED
      BY <2>1, <2>2, <2>3, <2>4 DEF Speaks, SameSend, Later, Carries
  <1>8. a.nextReadFCB = l.nextReadFCB
    BY <1>3, <1>5 DEF Silent, SameSpeech
  <1>9. Speaks(a, n) /\ Later(l, n, a, n) /\ Speaks(d, n) /\ Later(l, n, d, n)
    BY <1>7
  <1> QED
    BY <1>4, <1>6, <1>8, <1>9 DEF GoesOn, d

\* LinkContext::OnFrame of what the peer sends: the station expects another bit after
\* new data and, unless it is still writing a response, after RESET_LINK_STATES.
LEMMA ReceiveGoesOn ==
    ASSUME NEW l, NEW n, Speaks(l, n), LInv(l), Works(l), NEW f, Legible(f)
    PROVE  LET d == OnFrame(l, f, <<>>)
           IN  /\ Speaks(d, n) /\ Later(l, n, d, n)
               /\ IF PushesDataUp(l, f) THEN IsData(f) /\ f.flag = l.nextReadFCB
                                             /\ d.nextReadFCB = ~l.nextReadFCB
                  ELSE d.nextReadFCB = l.nextReadFCB \/ IsReset(f)
  <1> DEFINE Reads(d) == IF PushesDataUp(l, f) THEN IsData(f) /\ f.flag = l.nextReadFCB
                                                    /\ d.nextReadFCB = ~l.nextReadFCB
                         ELSE d.nextReadFCB = l.nextReadFCB \/ IsReset(f)
             Takes(d) == Speaks(d, n) /\ Later(l, n, d, n) /\ HasSegments(d) /\ Reads(d)
             a == Respond(l, "ACK", "TransmitWaitReset")
  <1>1. /\ l \in Station /\ l.isOnline /\ f \in Frame /\ <<>> \in Seq(Segment)
        /\ l.nextReadFCB \in BOOLEAN
    BY DEF LInv, Works, Alive, Legible, Station
  <1>2. Silent(l, l) /\ Speaks(l, n) /\ Later(l, n, l, n) /\ HasSegments(l)
    BY <1>1, SilentGoesOn DEF Silent, SameSpeech, SameSend, GoesOn, LInv
  <1>3. PushesDataUp(l, f) => IsData(f) /\ f.flag = l.nextReadFCB /\ l.pSecState = "Reset"
    BY DEF PushesDataUp, Legible, IsData
  <1>4. ASSUME NEW h, Takes(h), OnFrame(l, f, <<>>) = TryStartTransmission(h)
        PROVE  LET d == OnFrame(l, f, <<>>)
               IN  /\ Speaks(d, n) /\ Later(l, n, d, n)
                   /\ IF PushesDataUp(l, f) THEN IsData(f) /\ f.flag = l.nextReadFCB
                                                 /\ d.nextReadFCB = ~l.nextReadFCB
                      ELSE d.nextReadFCB = l.nextReadFCB \/ IsReset(f)
    <2> DEFINE d == TryStartTransmission(h)
    <2>1. GoesOn(h, n, d, n)
      BY <1>4, TryStartGoesOn
    <2> HIDE DEF d
    <2>2. Speaks(d, n) /\ d.nextReadFCB = h.nextReadFCB
      BY <2>1 DEF GoesOn
    <2>3. Later(l, n, d, n)
      <3>1. At(l, n) \in Nat /\ At(h, n) \in Nat /\ At(d, n) \in Nat
        BY <1>4, <2>2, AtType DEF Speaks
      <3> QED
        BY <1>4, <2>1, <3>1 DEF GoesOn, Later
    <2> QED
      BY <1>4, <2>2, <2>3 DEF d
  <1>5. ASSUME NEW b \in BOOLEAN
        PROVE  LET d == [a EXCEPT !.nextReadFCB = b]
               IN  /\ Speaks(d, n) /\ Later(l, n, d, n) /\ HasSegments(d) /\ d.nextReadFCB = b
                   /\ GoesOn(l, n, a, n) /\ HasSegments(a)
    <2>1. LInv(a)
      BY RespondEffect DEF SecFunction, SecState, SecTransmitWait
    <2>2. LInv([a EXCEPT !.nextReadFCB = b])
      BY <2>1, ReadFCBInv
    <2> QED
      BY <2>1, <2>2, RespondGoesOn DEF LInv
  <1>6. GoesOn(l, n, a, n) /\ HasSegments(a) /\ a.nextReadFCB = l.nextReadFCB
    BY <1>5 DEF GoesOn
  <1> DEFINE b == ~a.nextReadFCB
             t == [a EXCEPT !.nextReadFCB = b]
             r == [a EXCEPT !.nextReadFCB = TRUE]
  <1>7. b \in BOOLEAN /\ b = ~l.nextReadFCB /\ t = [a EXCEPT !.nextReadFCB = ~@]
    BY <1>6
  <1>8. CASE f.func = "ACK"
    <2>1. OnFrame(l, f, <<>>) = TryStartTransmission(PriOnAck(l))
      BY <1>1, <1>8 DEF OnFrame
    <2>2. GoesOn(l, n, PriOnAck(l), n) /\ HasSegments(PriOnAck(l)) /\ ~PushesDataUp(l, f)
      BY <1>3, <1>8, PriOnAckGoesOn, PriOnAckInv DEF LInv, IsData
    <2> QED
      BY <1>4, <2>1, <2>2 DEF GoesOn
  <1>9. CASE f.func = "RESET_LINK_STATES"
    <2>1. OnFrame(l, f, <<>>) = TryStartTransmission(SecOnResetLinkStates(l))
      BY <1>1, <1>9 DEF OnFrame
    <2>2. SecOnResetLinkStates(l) = IF l.pSecState \in SecTransmitWait THEN l ELSE r
      BY DEF SecOnResetLinkStates
    <2>3. Takes(l) /\ Takes(r)
      BY <1>2, <1>3, <1>5, <1>9 DEF IsReset, IsData
    <2> HIDE DEF Takes, Reads, r
    <2> QED
      BY <1>4, <2>1, <2>2, <2>3
  <1>10. CASE f.func = "CONFIRMED_USER_DATA"
    <2> DEFINE h == SecOnConfirmedUserData(l, f, <<>>)
    <2>1. OnFrame(l, f, <<>>) = TryStartTransmission(h)
      BY <1>1, <1>10 DEF OnFrame
    <2>2. PushesDataUp(l, f) <=> l.pSecState = "Reset" /\ f.flag = l.nextReadFCB
      BY <1>1, <1>10 DEF PushesDataUp
    <2>3. BeginTransmit(t, <<>>) = t
      BY DEF BeginTransmit
    <2>4. CASE l.pSecState # "Reset"
      <3>1. h = l
        BY <2>4 DEF SecOnConfirmedUserData
      <3>2. Takes(l)
        BY <1>2, <2>2, <2>4
      <3> HIDE DEF Takes, Reads, h
      <3> QED
        BY <1>4, <2>1, <3>1, <3>2
    <2>5. CASE l.pSecState = "Reset" /\ ~PushesDataUp(l, f)
      <3>1. h = a
        BY <2>5 DEF SecOnConfirmedUserData
      <3>2. Takes(a)
        BY <1>6, <2>5 DEF GoesOn
      <3> HIDE DEF Takes, Reads, h, a
      <3> QED
        BY <1>4, <2>1, <3>1, <3>2
    <2>6. CASE PushesDataUp(l, f)
      <3>1. h = t
        BY <1>7, <2>2, <2>3, <2>6 DEF SecOnConfirmedUserData
      <3>2. Takes(t)
        <4> HIDE DEF a, b
        <4>1. /\ Speaks(t, n) /\ Later(l, n, t, n) /\ HasSegments(t) /\ t.nextReadFCB = b
          BY <1>5, <1>7
        <4> QED
          BY <1>7, <1>10, <2>2, <2>6, <4>1 DEF IsData
      <3> HIDE DEF Takes, Reads, h, t
      <3> QED
        BY <1>4, <2>1, <3>1, <3>2
    <2> QED
      BY <2>4, <2>5, <2>6
  <1> QED
    BY <1>8, <1>9, <1>10 DEF Legible

\* A link that goes down drops its send, and its upper layer has nothing to say when it
\* is up again.
LEMMA ResetGoesOn ==
    ASSUME NEW l, NEW n, Speaks(l, n), LInv(l), Quits(l) \/ Still(l)
    PROVE  GoesOn(l, n, Reset(l), n)
  <1> DEFINE p == [s \in Sides |-> NoFrame]
             d == [l EXCEPT !.isOnline = FALSE, !.keepAliveTimeout = FALSE,
                            !.isRemoteReset = FALSE, !.pSegments = FALSE, !.txMode = "Idle",
                            !.pending = p, !.pPriState = "Idle",
                            !.pSecState = "NotReset", !.status = "UNRESET", !.isSending = FALSE]
             c == Cancel(d, "response")
             e == Cancel(c, "keepAlive")
             w == IF l.channel THEN OnLowerLayerDown(l) ELSE l
             x == [w EXCEPT !.channel = FALSE, !.txQueue = <<>>]
  <1>1. p \in [Sides -> Frame \cup {NoFrame}] /\ l \in Station /\ n \in Nat
    BY DEF Speaks
  <1>2. OnLowerLayerDown(l) = IF ~l.isOnline THEN l ELSE e
    BY DEF OnLowerLayerDown
  <1>3. Reset(l) = x
    BY DEF Reset
  <1> HIDE DEF p
  <1>4. /\ d \in Station /\ ~d.pSegments /\ d.pPriState = "Idle"
        /\ d.useConfirms = l.useConfirms /\ ~d.keepAliveTimeout /\ d.timer = l.timer
        /\ d.nextReadFCB = l.nextReadFCB /\ d.txBuffer = l.txBuffer
    BY <1>1 DEF Station, PriState, SecState
  <1> HIDE DEF d
  <1>5. GoesOn(l, n, d, n)
    <2>1. At(d, n) = n + 1
      BY <1>4 DEF At
    <2>2. Speaks(d, n)
      BY <1>1, <1>4 DEF Speaks, Confirming, Numbered, Formatted, ConfirmStates
    <2>3. At(l, n) \in 1..n + 1 /\ (Carries(l) => At(l, n) <= n)
      BY AtType DEF Carries, Speaks, LInv, HasSegments
    <2>4. At(l, n) < At(d, n) \/ (At(l, n) = At(d, n) /\ ~Carries(l))
      BY <1>1, <2>1, <2>3
    <2> QED
      BY <1>4, <2>2, <2>4 DEF GoesOn, Later
  <1>6. Silent(d, c)
    BY <1>4, TimersSilent
  <1> HIDE DEF c
  <1>7. /\ e \in Station /\ SameSend(c, e) /\ e.keepAliveTimeout = c.keepAliveTimeout
        /\ e.timer["keepAlive"] = "none" /\ e.useConfirms = c.useConfirms
        /\ e.nextWriteFCB = c.nextWriteFCB /\ e.nextReadFCB = c.nextReadFCB
        /\ e.txBuffer = c.txBuffer
    <2> DEFINE k == IF c.timer["keepAlive"] = "expired" THEN c.orphans["keepAlive"] + 1
                    ELSE c.orphans["keepAlive"]
    <2>1. c \in Station /\ "keepAlive" \in Timers
      BY <1>6 DEF Silent, SameSpeech, Timers
    <2>2. e = [c EXCEPT !.timer["keepAlive"] = "none", !.orphans["keepAlive"] = k]
      BY DEF Cancel
    <2>3. e \in Station /\ SameSend(c, e)
      BY <2>1, CancelEffect
    <2>4. c.timer \in [Timers -> TimerStates]
      BY <2>1 DEF Station
    <2> HIDE DEF k, e
    <2> QED
      BY <2>1, <2>2, <2>3, <2>4 DEF Station
  <1> HIDE DEF e
  <1>8. GoesOn(d, n, e, n)
    BY <1>4, <1>5, <1>6, <1>7
       DEF Silent, SameSpeech, SameSend, GoesOn, Speaks, Confirming, Numbered, Formatted, At, Later,
           Carries
  <1>9. GoesOn(l, n, l, n)
    BY <1>1, SilentGoesOn DEF Silent, SameSpeech, SameSend
  <1>10. GoesOn(l, n, w, n)
    BY <1>2, <1>5, <1>8, <1>9, GoesOnTrans
  <1> HIDE DEF w
  <1>11. Silent(w, x)
    <2>1. <<>> \in Seq(Transmission) /\ w \in Station
      BY <1>10 DEF GoesOn, Speaks
    <2> QED
      BY <2>1 DEF Silent, SameSpeech, SameSend, Station
  <1> QED
    BY <1>3, <1>10, <1>11, SilentGoesOn, GoesOnTrans DEF GoesOn

\* The channel is opened, or replaced by another one.
LEMMA OpenedGoesOn ==
    ASSUME NEW l, NEW n, Speaks(l, n), LInv(l), Works(l) \/ Asleep(l), l.posted = 0
    PROVE  LInv(Opened(l)) /\ Works(Opened(l)) /\ GoesOn(l, n, Opened(l), n)
  <1> DEFINE e == [l EXCEPT !.enabled = TRUE]
             r == Reset(e)
             o == [r EXCEPT !.channel = TRUE]
             u == [o EXCEPT !.isOnline = TRUE, !.status = "UNRESET"]
             s == Start(u, "keepAlive")
  <1>1. l \in Station /\ <<>> \in Seq(Segment) /\ l.timer["keepAlive"] # "expired"
    BY DEF Speaks, Confirming
  <1>2. Still(l) \/ Quits(l)
    BY <1>1 DEF Works, Alive, Asleep, Quits
  <1>3. Silent(l, e) /\ e.enabled
    BY <1>1, MinorSilent DEF Station
  <1>4. LInv(e) /\ (Still(e) \/ Quits(e))
    BY <1>2, SetEnabled
  <1>5. Opened(l) = OnNewChannel(e, <<>>)
    BY DEF Opened
  <1> HIDE DEF e
  <1>6. LInv(Opened(l)) /\ Works(Opened(l))
    BY <1>1, <1>3, <1>4, <1>5, OnNewChannelInv, OnNewChannelWorks
  <1>7. GoesOn(l, n, e, n)
    BY <1>3, SilentGoesOn
  <1>8. GoesOn(l, n, r, n)
    BY <1>4, <1>7, ResetGoesOn, GoesOnTrans DEF GoesOn
  <1>9. OnNewChannel(e, <<>>) = IF o.isOnline THEN o ELSE s
    BY <1>3 DEF OnNewChannel, OnLowerLayerUp, BeginTransmit
  <1> HIDE DEF r
  <1>10. Silent(r, o) /\ r \in Station
    BY <1>8, MinorSilent DEF GoesOn, Speaks
  <1> HIDE DEF o
  <1>11. Silent(o, u)
    BY <1>10 DEF Silent, SameSpeech, SameSend, Station
  <1>12. GoesOn(l, n, o, n) /\ GoesOn(l, n, u, n)
    BY <1>8, <1>10, <1>11, SilentGoesOn, GoesOnTrans DEF GoesOn
  <1> HIDE DEF u
  <1>13. GoesOn(l, n, s, n)
    <2> DEFINE x == [u.timer EXCEPT !["keepAlive"] = "running"]
               d == [u EXCEPT !.timer = x]
    <2>1. s = IF u.timer["keepAlive"] = "none" THEN d ELSE u
      BY DEF Start
    <2>2. u \in Station /\ u.timer \in [Timers -> TimerStates] /\ "keepAlive" \in Timers
      BY <1>12 DEF GoesOn, Speaks, Station, Timers
    <2>3. x \in [Timers -> TimerStates] /\ x["keepAlive"] = "running"
      BY <2>2 DEF TimerStates
    <2> HIDE DEF x
    <2>4. /\ d \in Station /\ SameSend(u, d) /\ d.keepAliveTimeout = u.keepAliveTimeout
          /\ d.timer["keepAlive"] # "expired" /\ d.useConfirms = u.useConfirms
          /\ d.nextWriteFCB = u.nextWriteFCB /\ d.nextReadFCB = u.nextReadFCB
          /\ d.txBuffer = u.txBuffer
      BY <2>2, <2>3 DEF Station, SameSend
    <2> HIDE DEF d
    <2>5. GoesOn(u, n, d, n)
      BY <1>12, <2>4
         DEF SameSend, GoesOn, Speaks, Confirming, Numbered, Formatted, At, Later, Carries
    <2> QED
      BY <1>12, <2>1, <2>5, GoesOnTrans
  <1> QED
    BY <1>5, <1>6, <1>9, <1>12, <1>13

-----------------------------------------------------------------------------
(***************************************************************************)
(* The pair.                                                               *)
(***************************************************************************)

LEMMA Peers ==
    ASSUME NEW s \in Stations
    PROVE  /\ Peer(s) \in Stations /\ Peer(s) # s /\ Peer(Peer(s)) = s
           /\ \A r \in Stations : r = s \/ r = Peer(s)
  BY DEF Stations, Peer

\* What Delivery allows to happen in the direction from s
Delivers(s) ==
    \/ sent'[s] = sent[s] /\ received'[Peer(s)] = received[Peer(s)]
    \/ /\ \E n \in {1, 2} : sent'[s] = sent[s] + n
       /\ received'[Peer(s)] = received[Peer(s)]
    \/ /\ sent'[s] = sent[s]
       /\ \E n \in 1..sent[s] :
             /\ received[Peer(s)] # <<>> => Last(received[Peer(s)]) < n
             /\ received'[Peer(s)] = Append(received[Peer(s)], n)

\* The parts of the invariant that are types
Sizes ==
    /\ scenario \in Scenarios
    /\ DOMAIN station = Stations /\ left \in [Stations -> Nat] /\ sent \in [Stations -> Nat]
    /\ received \in [Stations -> Seq(Nat)] /\ wire \in [Stations -> Seq(Frame)]
    /\ \A s \in Stations : left[s] + sent[s] = scenario.load[s]

\* A step in which the receivers keep what the old senders rely on, and the senders go on
LEMMA PairStep ==
    ASSUME PairInv, Sizes',
           \A s \in Stations :
               /\ StationInv(s)'
               /\ Later(station[s], sent[s], station'[s], sent'[s])
               /\ Direction(wire'[Peer(s)], Latest(received'[Peer(s)]),
                            station'[Peer(s)].nextReadFCB, station[s], sent[s])
    PROVE  PairInv'
  <1>1. ASSUME NEW s \in Stations
        PROVE  DirectionInv(s)'
    <2>1. Speaks(station[s], sent[s])
      BY DEF PairInv, StationInv
    <2>2. Speaks(station'[s], sent'[s])
      BY DEF StationInv
    <2> QED
      BY <2>1, <2>2, SenderStep DEF DirectionInv
  <1> QED
    BY <1>1 DEF PairInv, Sizes

\* in particular one in which a station goes on, with another frame on the wire or none.
LEMMA SpeakerStep ==
    ASSUME PairInv, Sizes', NEW s \in Stations, NEW d, station' = [station EXCEPT ![s] = d],
           LInv(d), Works(d), GoesOn(station[s], sent[s], d, sent'[s]),
           sent'[Peer(s)] = sent[Peer(s)], UNCHANGED <<received, scenario>>,
           wire'[s] = wire[s],
           Direction(wire'[Peer(s)], Latest(received[Peer(s)]), station[Peer(s)].nextReadFCB,
                     station[s], sent[s])
    PROVE  PairInv'
  <1>1. /\ Peer(s) \in Stations /\ Peer(s) # s /\ Peer(Peer(s)) = s
        /\ \A r \in Stations : r = s \/ r = Peer(s)
    BY Peers
  <1>2. station'[s] = d /\ station'[Peer(s)] = station[Peer(s)]
    BY <1>1 DEF PairInv
  <1>3. StationInv(s)'
    BY <1>2 DEF GoesOn, StationInv
  <1>4. StationInv(Peer(s))'
    BY <1>1, <1>2 DEF PairInv, StationInv
  <1>5. /\ Later(station[s], sent[s], station'[s], sent'[s])
        /\ Later(station[Peer(s)], sent[Peer(s)], station'[Peer(s)], sent'[Peer(s)])
    BY <1>2 DEF GoesOn, Later
  <1>6. Direction(wire'[Peer(s)], Latest(received'[Peer(s)]), station'[Peer(s)].nextReadFCB,
                  station[s], sent[s])
    BY <1>2
  <1>7. DirectionInv(Peer(s))
    BY <1>1 DEF PairInv
  <1>8. Direction(wire'[s], Latest(received'[s]), station'[s].nextReadFCB,
                  station[Peer(s)], sent[Peer(s)])
    BY <1>1, <1>2, <1>7 DEF DirectionInv, GoesOn
  <1> QED
    BY <1>1, <1>3, <1>4, <1>5, <1>6, <1>8, PairStep

\* The segments of a message are numbered on from what was sent.
LEMMA SendFollows ==
    ASSUME PairInv, NEW s \in Stations, NEW n \in {1, 2}, n <= left[s]
    PROVE  Follows([i \in 1..n |-> sent[s] + i], sent[s], n)
  <1> DEFINE m == [i \in 1..n |-> sent[s] + i]
  <1>1. /\ left[s] \in Nat /\ sent[s] \in Nat /\ left[s] + sent[s] = scenario.load[s]
        /\ 1..scenario.load[s] \subseteq Segment
    BY PairAssumption DEF PairInv
  <1>2. \A i \in 1..n : m[i] = sent[s] + i /\ sent[s] + i \in 1..scenario.load[s]
    BY <1>1
  <1>3. m \in Seq(Segment) /\ Len(m) = n
    <2>1. \A i \in 1..n : sent[s] + i \in Segment
      BY <1>1, <1>2
    <2> QED
      BY <2>1
  <1> HIDE DEF m
  <1>4. Follows(m, sent[s], n)
    BY <1>2, <1>3 DEF Follows
  <1> QED
    BY <1>4 DEF m

\* The upper layer sends a message.
LEMMA SendPair ==
    ASSUME PairInv, NEW s \in Stations, Send(s)
    PROVE  PairInv' /\ \A r \in Stations : Delivers(r)
  <1>1. /\ Peer(s) \in Stations /\ Peer(s) # s /\ Peer(Peer(s)) = s
        /\ \A r \in Stations : r = s \/ r = Peer(s)
    BY Peers
  <1>2. PICK n \in {1, 2} :
            /\ n <= left[s]
            /\ left' = [left EXCEPT ![s] = @ - n]
            /\ Becomes(s, BeginTransmit(station[s], [i \in 1..n |-> sent[s] + i]), {})
            /\ sent' = [sent EXCEPT ![s] = @ + n]
    BY DEF Send
  <1> DEFINE m == [i \in 1..n |-> sent[s] + i]
             d == BeginTransmit(station[s], m)
  <1>3. /\ LInv(station[s]) /\ Works(station[s]) /\ Speaks(station[s], sent[s])
        /\ DirectionInv(s) /\ Sizes
    BY DEF PairInv, StationInv, Sizes
  <1>4. left[s] \in Nat /\ sent[s] \in Nat /\ left[s] + sent[s] = scenario.load[s]
    BY <1>3 DEF Sizes
  <1>5. Follows(m, sent[s], n)
    BY <1>2, SendFollows
  <1> HIDE DEF m
  <1>6. m \in Seq(Segment)
    BY <1>5 DEF Follows
  <1>7. ~station[s].isSending /\ UNCHANGED <<wire, received, outages, scenario>>
    BY DEF Send
  <1>8. GoesOn(station[s], sent[s], d, sent[s] + n)
    BY <1>3, <1>5, <1>7, SendGoesOn
  <1>9. LInv(d) /\ Works(d)
    BY <1>3, <1>6, BeginTransmitInv, BeginTransmitWorks
  <1>10. station' = [station EXCEPT ![s] = d]
    BY <1>2 DEF Becomes, m
  <1> HIDE DEF d
  <1>11. sent'[s] = sent[s] + n /\ sent'[Peer(s)] = sent[Peer(s)]
    BY <1>1, <1>2, <1>3 DEF Sizes
  <1>12. Sizes'
    <2>1. left' \in [Stations -> Nat] /\ sent' \in [Stations -> Nat]
      BY <1>2, <1>3, <1>4 DEF Sizes
    <2>2. left'[s] + sent'[s] = scenario.load[s]
      BY <1>2, <1>3, <1>4 DEF Sizes
    <2>3. left'[Peer(s)] + sent'[Peer(s)] = scenario.load[Peer(s)]
      BY <1>1, <1>2, <1>3 DEF Sizes
    <2>4. DOMAIN station' = Stations
      BY <1>3, <1>10 DEF Sizes
    <2>5. \A r \in Stations : left'[r] + sent'[r] = scenario'.load[r]
      BY <1>1, <1>7, <2>2, <2>3
    <2> QED
      BY <1>3, <1>7, <2>1, <2>4, <2>5 DEF Sizes
  <1>13. Direction(wire'[Peer(s)], Latest(received[Peer(s)]), station[Peer(s)].nextReadFCB,
                   station[s], sent[s])
    BY <1>3, <1>7 DEF DirectionInv
  <1>14. PairInv'
    BY <1>7, <1>8, <1>9, <1>10, <1>11, <1>12, <1>13, SpeakerStep
  <1>15. \A r \in Stations : Delivers(r)
    BY <1>1, <1>2, <1>7, <1>11 DEF Delivers
  <1> QED
    BY <1>14, <1>15

\* A task that asks for nothing more: the station goes on, and a frame of it goes on the
\* wire or not.
LEMMA TaskPair ==
    ASSUME PairInv, NEW s \in Stations, NEW d, station' = [station EXCEPT ![s] = d],
           LInv(d), Works(d), GoesOn(station[s], sent[s], d, sent[s]),
           UNCHANGED <<left, sent, received, scenario>>,
           \/ wire' = wire
           \/ \E f : /\ Legible(f) /\ Outgoing(station[s], f)
                     /\ IsData(f) => Number(f) = At(station[s], sent[s])
                     /\ wire' = [wire EXCEPT ![Peer(s)] = Append(@, f)]
    PROVE  PairInv' /\ \A r \in Stations : Delivers(r)
  <1>1. Peer(s) \in Stations /\ Peer(s) # s
    BY Peers
  <1>2. /\ LInv(station[s]) /\ Works(station[s]) /\ Speaks(station[s], sent[s])
        /\ DirectionInv(s) /\ Sizes
    BY DEF PairInv, StationInv, Sizes
  <1>3. /\ wire' \in [Stations -> Seq(Frame)] /\ wire'[s] = wire[s]
        /\ Direction(wire'[Peer(s)], Latest(received[Peer(s)]), station[Peer(s)].nextReadFCB,
                     station[s], sent[s])
    <2>1. CASE wire' = wire
      BY <1>2, <2>1 DEF Sizes, DirectionInv
    <2>2. ASSUME NEW f, Legible(f), Outgoing(station[s], f),
                 IsData(f) => Number(f) = At(station[s], sent[s]),
                 wire' = [wire EXCEPT ![Peer(s)] = Append(@, f)]
          PROVE  <1>3
      <3> DEFINE v == Append(wire[Peer(s)], f)
      <3>1. v \in Seq(Frame)
        BY <1>1, <1>2, <2>2 DEF Sizes, Legible
      <3>2. Direction(v, Latest(received[Peer(s)]), station[Peer(s)].nextReadFCB,
                      station[s], sent[s])
        BY <1>2, <2>2, WireAppend DEF DirectionInv
      <3>3. wire' = [wire EXCEPT ![Peer(s)] = v]
        BY <2>2
      <3> HIDE DEF v
      <3>4. wire' \in [Stations -> Seq(Frame)] /\ wire'[s] = wire[s] /\ wire'[Peer(s)] = v
        BY <1>1, <1>2, <3>1, <3>3 DEF Sizes
      <3> QED
        BY <3>2, <3>4
    <2> QED
      BY <2>1, <2>2
  <1>4. Sizes'
    <2>1. DOMAIN station' = Stations
      BY <1>2 DEF Sizes
    <2> QED
      BY <1>2, <1>3, <2>1 DEF Sizes
  <1>5. PairInv'
    BY <1>3, <1>4, SpeakerStep
  <1> QED
    BY <1>5 DEF Delivers

LEMMA RunCompletionPair ==
    ASSUME PairInv, NEW s \in Stations, RunCompletion(s)
    PROVE  PairInv' /\ \A r \in Stations : Delivers(r)
  <1>1. LInv(station[s]) /\ Works(station[s]) /\ Speaks(station[s], sent[s])
    BY DEF PairInv, StationInv
  <1> DEFINE d == TransportOnTxReady(station[s], <<>>)
  <1>2. <<>> \in Seq(Segment)
    OBVIOUS
  <1>3. station[s].posted > 0
    BY DEF RunCompletion
  <1>4. LInv(d) /\ Works(d) /\ GoesOn(station[s], sent[s], d, sent[s])
    BY <1>1, <1>2, <1>3, TransportOnTxReadyInv, TransportOnTxReadyWorks, CompletionGoesOn
  <1>5. station' = [station EXCEPT ![s] = d] /\ UNCHANGED <<left, wire, sent, received, scenario>>
    BY DEF RunCompletion, Becomes
  <1> HIDE DEF d
  <1> QED
    BY <1>4, <1>5, TaskPair

\* The channel has written what the buffer of the transmission holds.
LEMMA WrittenFrame ==
    ASSUME NEW l, NEW n, Speaks(l, n), LInv(l), Works(l), l.txQueue # <<>>
    PROVE  LET f == l.txBuffer[Head(l.txQueue).side]
           IN  /\ l.txMode \in Sides /\ Legible(f) /\ Outgoing(l, f)
               /\ IsData(f) => Number(f) = At(l, n)
               /\ l.txMode = "Secondary" => IsAck(f)
               /\ l.txMode = "Primary" =>
                    IF l.pPriState = "LinkResetTransmitWait" THEN IsReset(f)
                    ELSE IsData(f) /\ f.flag = l.nextWriteFCB
  <1> DEFINE side == Head(l.txQueue).side
             f == l.txBuffer[side]
  <1>1. side = l.txMode /\ f \in Frame /\ side \in Sides
    <2>1. l \in Station /\ l.txQueue \in Seq(Transmission)
      BY DEF LInv, Station
    <2>2. 1 \in 1..Len(l.txQueue) /\ Head(l.txQueue) = l.txQueue[1] /\ l.txQueue[1] \in Transmission
      BY <2>1
    <2>3. l.txQueue[1].frame = l.txBuffer[l.txQueue[1].side] /\ l.txQueue[1].side = l.txMode
      BY <2>2 DEF Works, Wire
    <2> QED
      BY <2>2, <2>3 DEF Transmission
  <1>2. CASE side = "Secondary"
    <2>1. f = Plain("ACK")
      BY <1>1, <1>2, NoFrameType DEF Speaks, Formatted
    <2>2. Legible(f) /\ Outgoing(l, f) /\ ~IsData(f) /\ IsAck(f)
      BY <1>1, <2>1 DEF Legible, Outgoing, IsData, IsAck, Plain
    <2> HIDE DEF f
    <2>3. l.txMode = "Secondary" /\ l.txMode # "Primary"
      BY <1>1, <1>2
    <2> QED
      BY <1>1, <2>2, <2>3 DEF f
  <1>3. CASE side = "Primary"
    <2>1. l.pPriState \in {"LinkResetTransmitWait", "ConfUserDataTransmitWait"}
      BY <1>1, <1>3 DEF Works, PriDue, Has, Speaks, ConfirmStates, PriTransmitWait
    <2>2. l.txMode = "Primary" /\ l.txMode # "Secondary"
      BY <1>1, <1>3
    <2>3. CASE l.pPriState = "LinkResetTransmitWait"
      <3>1. f = Plain("RESET_LINK_STATES")
        BY <1>1, <1>3, <2>3 DEF Speaks, Formatted
      <3>2. Legible(f) /\ Outgoing(l, f) /\ ~IsData(f) /\ IsReset(f)
        BY <1>1, <2>3, <3>1 DEF Legible, Outgoing, IsData, IsReset, Plain
      <3> HIDE DEF f
      <3> QED
        BY <1>1, <2>2, <2>3, <3>2 DEF f
    <2>4. CASE l.pPriState = "ConfUserDataTransmitWait"
      <3> DEFINE k == At(l, n)
      <3>1. f = UserData("CONFIRMED_USER_DATA", l.nextWriteFCB, k)
        BY <1>1, <1>3, <2>4 DEF Speaks, Formatted
      <3>2. k \in Nat
        BY AtType DEF Speaks
      <3> HIDE DEF k
      <3>3. f.func = "CONFIRMED_USER_DATA" /\ f.flag = l.nextWriteFCB /\ f.data = <<k>>
        BY <3>1 DEF UserData
      <3>4. Number(f) = k
        BY <3>3 DEF Number
      <3>5. Legible(f) /\ Outgoing(l, f) /\ Number(f) = At(l, n) /\ IsData(f)
        BY <1>1, <2>4, <3>2, <3>3, <3>4 DEF Legible, Outgoing, IsData, k
      <3> HIDE DEF f
      <3> QED
        BY <1>1, <2>2, <2>4, <3>3, <3>5 DEF f
    <2> QED
      BY <2>1, <2>3, <2>4
  <1> QED
    BY <1>1, <1>2, <1>3 DEF Sides

LEMMA WritePair ==
    ASSUME PairInv, NEW s \in Stations, Write(s)
    PROVE  PairInv' /\ \A r \in Stations : Delivers(r)
  <1> DEFINE l == station[s]
             f == l.txBuffer[Head(l.txQueue).side]
             d == OnWriteComplete(l)
  <1>1. LInv(l) /\ Works(l) /\ Speaks(l, sent[s])
    BY DEF PairInv, StationInv
  <1>2. l.txQueue # <<>>
    BY DEF Write
  <1>3. LInv(d) /\ Works(d) /\ GoesOn(l, sent[s], d, sent[s])
    BY <1>1, <1>2, OnWriteCompleteInv, OnWriteCompleteWorks, WriteGoesOn
  <1>4. /\ station' = [station EXCEPT ![s] = d] /\ UNCHANGED <<left, sent, received, scenario>>
        /\ wire' = wire \/ wire' = [wire EXCEPT ![Peer(s)] = Append(@, f)]
    BY DEF Write, Becomes
  <1>5. Legible(f) /\ Outgoing(l, f) /\ (IsData(f) => Number(f) = At(l, sent[s]))
    BY <1>1, <1>2, WrittenFrame
  <1> HIDE DEF d, f
  <1> QED
    BY <1>3, <1>4, <1>5, TaskPair DEF l

LEMMA TimerExpiresPair ==
    ASSUME PairInv, NEW s \in Stations, TimerExpires(s)
    PROVE  PairInv' /\ \A r \in Stations : Delivers(r)
  <1> DEFINE d == Expired(station[s], "response")
  <1>1. LInv(station[s]) /\ Works(station[s]) /\ Speaks(station[s], sent[s])
    BY DEF PairInv, StationInv
  <1>2. station[s].timer["response"] = "running" /\ "response" \in Timers
    BY DEF TimerExpires, Timers
  <1>3. LInv(d) /\ Works(d)
    BY <1>1, <1>2, ExpiredInv
  <1>4. GoesOn(station[s], sent[s], d, sent[s])
    BY <1>1, <1>2, TimersSilent, SilentGoesOn DEF LInv
  <1>5. station' = [station EXCEPT ![s] = d] /\ UNCHANGED <<left, wire, sent, received, scenario>>
    BY DEF TimerExpires, Becomes, Expired
  <1> HIDE DEF d
  <1> QED
    BY <1>3, <1>4, <1>5, TaskPair

LEMMA ResponseTimeoutPair ==
    ASSUME PairInv, NEW s \in Stations, ResponseTimeout(s)
    PROVE  PairInv' /\ \A r \in Stations : Delivers(r)
  <1> DEFINE d == OnResponseTimeout(station[s])
  <1>1. LInv(station[s]) /\ Works(station[s]) /\ Speaks(station[s], sent[s])
    BY DEF PairInv, StationInv
  <1>2. station[s].timer["response"] = "expired" \/ station[s].orphans["response"] > 0
    BY DEF ResponseTimeout
  <1>3. LInv(d) /\ Works(d) /\ GoesOn(station[s], sent[s], d, sent[s])
    BY <1>1, <1>2, OnResponseTimeoutInv, OnResponseTimeoutWorks, TimeoutGoesOn
  <1>4. station' = [station EXCEPT ![s] = d] /\ UNCHANGED <<left, wire, sent, received, scenario>>
    BY DEF ResponseTimeout, Becomes
  <1> HIDE DEF d
  <1> QED
    BY <1>3, <1>4, TaskPair

\* The next frame arrives: its segment goes up when the frame bears the bit expected.
LEMMA ReceivePair ==
    ASSUME PairInv, NEW s \in Stations, Receive(s)
    PROVE  PairInv' /\ \A r \in Stations : Delivers(r)
  <1> DEFINE l == station[s]
             p == Peer(s)
             w == wire[s]
             f == w[1]
             d == OnFrame(l, f, <<>>)
             last == Latest(received[s])
             x == Number(f)
             up == PushesDataUp(l, f)
  <1>1. p \in Stations /\ p # s /\ Peer(p) = s /\ \A r \in Stations : r = s \/ r = p
    BY Peers
  <1>2. /\ LInv(l) /\ Works(l) /\ Speaks(l, sent[s]) /\ DirectionInv(s) /\ Sizes
        /\ StationInv(p) /\ LInv(station[p]) /\ Speaks(station[p], sent[p])
        /\ Direction(w, last, l.nextReadFCB, station[p], sent[p])
    BY <1>1 DEF PairInv, StationInv, DirectionInv, Sizes
  <1>3. w # <<>> /\ w \in Seq(Frame) /\ Head(w) = f
    BY <1>2 DEF Receive, Sizes
  <1>4. Legible(f) /\ f \in Frame
    <2>1. 1 \in 1..Len(w)
      BY <1>3
    <2> QED
      BY <1>2, <2>1 DEF Direction, Legible
  <1>5. /\ station' = [station EXCEPT ![s] = d]
        /\ received' = IF up THEN [received EXCEPT ![s] = @ \o f.data] ELSE received
        /\ wire' = [wire EXCEPT ![s] = Tail(w)]
        /\ UNCHANGED <<left, sent, scenario>>
    BY <1>3 DEF Receive, Becomes
  <1>6. LInv(d) /\ Works(d)
    <2>1. <<>> \in Seq(Segment)
      OBVIOUS
    <2> QED
      BY <1>2, <1>4, <2>1, OnFrameInv, OnFrameWorks
  <1>7. /\ Speaks(d, sent[s]) /\ Later(l, sent[s], d, sent[s])
        /\ IF up THEN IsData(f) /\ f.flag = l.nextReadFCB /\ d.nextReadFCB = ~l.nextReadFCB
           ELSE d.nextReadFCB = l.nextReadFCB \/ IsReset(f)
    BY <1>2, <1>4, ReceiveGoesOn
  <1>8. l.nextReadFCB \in BOOLEAN
    BY <1>2 DEF Speaks, Station
  <1>9. /\ received[s] \in Seq(Nat) /\ received[p] \in Seq(Nat) /\ w \in Seq(Frame)
        /\ DOMAIN station = Stations
    BY <1>1, <1>2 DEF Sizes
  <1> HIDE DEF l, d, w, f, up, x, last, p
  <1>10. /\ station'[s] = d /\ station'[p] = station[p]
         /\ wire'[s] = Tail(w) /\ wire'[p] = wire[p] /\ sent' = sent
    BY <1>1, <1>2, <1>5, <1>9 DEF Sizes
  <1>11. Tail(w) \in Seq(Frame)
    BY <1>3
  <1>12. /\ received' \in [Stations -> Seq(Nat)] /\ received'[p] = received[p]
         /\ Direction(Tail(w), Latest(received'[s]), d.nextReadFCB, station[p], sent[p])
         /\ \/ received'[s] = received[s]
            \/ \E n \in 1..sent[p] : /\ received[s] # <<>> => Last(received[s]) < n
                                     /\ received'[s] = Append(received[s], n)
    <2>1. CASE ~up
      <3>1. received' = received
        BY <1>5, <2>1
      <3>2. Direction(Tail(w), last, d.nextReadFCB, station[p], sent[p])
        BY <1>2, <1>3, <1>7, <2>1, WireDrop DEF f
      <3> QED
        BY <1>2, <3>1, <3>2 DEF Sizes, last
    <2>2. CASE up
      <3>1. /\ last < x /\ x \in 1..sent[p]
            /\ Direction(Tail(w), x, ~l.nextReadFCB, station[p], sent[p])
        BY <1>2, <1>3, <1>7, <1>8, <2>2, WireDeliver DEF f, x
      <3>2. f.data = <<x>> /\ x \in Nat
        BY <1>4, <1>7, <2>2 DEF Legible, x
      <3> DEFINE q == Append(received[s], x)
      <3>3. received[s] \o f.data = q
        BY <1>9, <3>2
      <3>4. received' = [received EXCEPT ![s] = q]
        BY <1>5, <2>2, <3>3
      <3>5. q \in Seq(Nat) /\ Latest(q) = x
        <4>1. q \in Seq(Nat) /\ Len(q) = Len(received[s]) + 1 /\ q[Len(received[s]) + 1] = x
          BY <1>9, <3>2
        <4>2. Len(received[s]) \in Nat
          BY <1>9
        <4> HIDE DEF q
        <4>3. q # <<>>
          BY <4>1, <4>2
        <4> QED
          BY <4>1, <4>3 DEF Latest
      <3>6. received[s] # <<>> => Last(received[s]) < x
        BY <3>1 DEF Last, Latest, last
      <3>7. q = Append(received[s], x)
        OBVIOUS
      <3> HIDE DEF q
      <3>8. /\ received' \in [Stations -> Seq(Nat)] /\ received'[p] = received[p]
            /\ received'[s] = q
        BY <1>1, <1>2, <3>4, <3>5 DEF Sizes
      <3> QED
        BY <1>7, <2>2, <3>1, <3>5, <3>6, <3>7, <3>8
    <2> QED
      BY <2>1, <2>2
  <1>13. Sizes'
    <2>1. wire' \in [Stations -> Seq(Frame)]
      BY <1>2, <1>5, <1>11 DEF Sizes
    <2>2. DOMAIN station' = Stations
      BY <1>5, <1>9
    <2> QED
      BY <1>2, <1>5, <1>12, <2>1, <2>2 DEF Sizes
  <1>14. StationInv(s)' /\ StationInv(p)'
    <2>1. StationInv(s)'
      BY <1>6, <1>7, <1>10 DEF StationInv
    <2> QED
      BY <1>2, <1>10, <2>1 DEF StationInv
  <1>15. /\ Later(station[s], sent[s], station'[s], sent'[s])
         /\ Later(station[p], sent[p], station'[p], sent'[p])
    BY <1>7, <1>10 DEF Later, l
  <1>16. Direction(wire'[Peer(s)], Latest(received'[Peer(s)]), station'[Peer(s)].nextReadFCB,
                   station[s], sent[s])
    BY <1>2, <1>10, <1>12 DEF DirectionInv, p
  <1>17. Direction(wire'[Peer(p)], Latest(received'[Peer(p)]), station'[Peer(p)].nextReadFCB,
                   station[p], sent[p])
    BY <1>1, <1>10, <1>12
  <1>18. PairInv'
    BY <1>1, <1>13, <1>14, <1>15, <1>16, <1>17, PairStep
  <1>19. Delivers(s) /\ Delivers(p)
    <2>1. Delivers(s)
      BY <1>10, <1>12 DEF Delivers, p
    <2>2. Delivers(p)
      BY <1>1, <1>10, <1>12 DEF Delivers
    <2> QED
      BY <2>1, <2>2
  <1> QED
    BY <1>1, <1>18, <1>19

\* Some channels are replaced: all that was under way to their stations is lost.
LEMMA OutagePair ==
    ASSUME PairInv, Outage
    PROVE  PairInv' /\ \A r \in Stations : Delivers(r)
  <1>1. PICK S \in scenario.broken :
            /\ \A s \in S : station[s].posted = 0
            /\ station' = [s \in Stations |-> IF s \in S THEN Opened(station[s]) ELSE station[s]]
            /\ wire' = [s \in Stations |-> IF s \in S THEN <<>> ELSE wire[s]]
    BY DEF Outage
  <1>2. UNCHANGED <<left, sent, received, scenario>>
    BY DEF Outage
  <1>3. Sizes
    BY DEF PairInv, Sizes
  <1>4. Sizes'
    <2>1. wire' \in [Stations -> Seq(Frame)]
      BY <1>1, <1>3 DEF Sizes
    <2>2. DOMAIN station' = Stations
      BY <1>1
    <2> QED
      BY <1>2, <1>3, <2>1, <2>2 DEF Sizes
  <1>5. ASSUME NEW s \in Stations
        PROVE  StationInv(s)' /\ GoesOn(station[s], sent[s], station'[s], sent[s])
    <2>1. StationInv(s) /\ LInv(station[s]) /\ Works(station[s]) /\ Speaks(station[s], sent[s])
      BY DEF PairInv, StationInv
    <2>2. CASE s \in S
      <3>1. station'[s] = Opened(station[s])
        BY <1>1, <2>2
      <3>2. /\ LInv(Opened(station[s])) /\ Works(Opened(station[s]))
            /\ GoesOn(station[s], sent[s], Opened(station[s]), sent[s])
        BY <1>1, <2>1, <2>2, OpenedGoesOn
      <3> QED
        BY <1>2, <3>1, <3>2 DEF StationInv, GoesOn
    <2>3. CASE s \notin S
      <3>1. station'[s] = station[s]
        BY <1>1, <2>3
      <3>2. StationInv(s)'
        BY <1>2, <2>1, <3>1 DEF StationInv
      <3> QED
        BY <2>1, <3>1, <3>2 DEF GoesOn, Later
    <2> QED
      BY <2>2, <2>3
  <1>6. ASSUME NEW s \in Stations
        PROVE  Direction(wire'[Peer(s)], Latest(received'[Peer(s)]),
                         station'[Peer(s)].nextReadFCB, station[s], sent[s])
    <2>1. Peer(s) \in Stations
      BY Peers
    <2>2. /\ wire'[Peer(s)] = <<>> \/ wire'[Peer(s)] = wire[Peer(s)]
          /\ received'[Peer(s)] = received[Peer(s)]
      BY <1>1, <1>2, <2>1
    <2>3. station'[Peer(s)].nextReadFCB = station[Peer(s)].nextReadFCB
      BY <1>5, <2>1 DEF GoesOn
    <2>4. Direction(wire[Peer(s)], Latest(received[Peer(s)]), station[Peer(s)].nextReadFCB,
                    station[s], sent[s])
      BY DEF PairInv, DirectionInv
    <2>5. Direction(<<>>, Latest(received[Peer(s)]), station[Peer(s)].nextReadFCB,
                    station[s], sent[s])
      BY <2>4, WireLost
    <2> QED
      BY <2>2, <2>3, <2>4, <2>5
  <1>7. \A s \in Stations : Later(station[s], sent[s], station'[s], sent'[s])
    BY <1>2, <1>5 DEF GoesOn
  <1>8. PairInv'
    BY <1>4, <1>5, <1>6, <1>7, PairStep
  <1> QED
    BY <1>2, <1>8 DEF Delivers

LEMMA InitPair ==
    ASSUME Init
    PROVE  PairInv
  <1> DEFINE l == InitialStation(TRUE)
  <1>1. scenario \in Scenarios /\ left \in [Stations -> Nat] /\ left = scenario.load
    BY PairAssumption DEF Init, Scenario
  <1>2. LInv(l) /\ Asleep(l) /\ l.posted = 0 /\ Speaks(l, 0)
    <2>1. LInv(l) /\ Asleep(l)
      BY InitialStationInv, InitialStationAsleep
    <2>2. l \in Station
      BY <2>1 DEF LInv
    <2>3. /\ l.pPriState = "Idle" /\ l.useConfirms /\ ~l.keepAliveTimeout /\ ~l.pSegments
          /\ l.timer["keepAlive"] = "none" /\ l.txBuffer["Secondary"] = NoFrame /\ l.posted = 0
      BY DEF InitialStation, Timers, Sides
    <2> HIDE DEF l
    <2> QED
      BY <2>1, <2>2, <2>3 DEF Speaks, ConfirmStates, Confirming, Numbered, Formatted
  <1>3. LInv(Opened(l)) /\ Works(Opened(l)) /\ Speaks(Opened(l), 0)
    BY <1>2, OpenedGoesOn DEF GoesOn
  <1>4. /\ station = [s \in Stations |-> Opened(l)] /\ wire = [s \in Stations |-> <<>>]
        /\ sent = [s \in Stations |-> 0] /\ received = [s \in Stations |-> <<>>]
    BY DEF Init
  <1> HIDE DEF l
  <1>5. ASSUME NEW s \in Stations
        PROVE  StationInv(s) /\ DirectionInv(s) /\ left[s] + sent[s] = scenario.load[s]
    <2>1. Peer(s) \in Stations
      BY Peers
    <2>2. /\ station[s] = Opened(l) /\ sent[s] = 0 /\ wire[Peer(s)] = <<>>
          /\ received[Peer(s)] = <<>>
      BY <1>4, <2>1
    <2>3. StationInv(s)
      BY <1>3, <2>2 DEF StationInv
    <2>4. 0 < At(Opened(l), 0)
      BY <1>3, AtType
    <2>5. At(Opened(l), 0) \in Nat
      BY <1>3, AtType
    <2>6. Direction(<<>>, 0, station[Peer(s)].nextReadFCB, Opened(l), 0)
      BY <2>4, <2>5 DEF Direction, Ordered, Ahead, Behind
    <2>7. DirectionInv(s)
      BY <2>2, <2>6 DEF DirectionInv, Latest
    <2>8. left[s] + sent[s] = scenario.load[s]
      BY <1>1, <2>2
    <2> QED
      BY <2>3, <2>7, <2>8
  <1>6. sent \in [Stations -> Nat] /\ DOMAIN station = Stations
    BY <1>4
  <1>7. <<>> \in Seq(Nat) /\ <<>> \in Seq(Frame)
    OBVIOUS
  <1>8. received \in [Stations -> Seq(Nat)] /\ wire \in [Stations -> Seq(Frame)]
    BY <1>4, <1>7
  <1> QED
    BY <1>1, <1>5, <1>6, <1>8 DEF PairInv

LEMMA NextPair ==
    ASSUME PairInv, [Next]_vars
    PROVE  PairInv' /\ \A r \in Stations : Delivers(r)
  <1>1. ASSUME NEW s \in Stations,
               \/ Send(s) \/ RunCompletion(s) \/ Write(s) \/ Receive(s) \/ TimerExpires(s)
               \/ ResponseTimeout(s)
        PROVE  PairInv' /\ \A r \in Stations : Delivers(r)
    BY <1>1, SendPair, RunCompletionPair, WritePair, ReceivePair, TimerExpiresPair,
       ResponseTimeoutPair
  <1>2. CASE Outage
    BY <1>2, OutagePair
  <1>3. CASE UNCHANGED vars
    BY <1>3 DEF vars, PairInv, StationInv, DirectionInv, Delivers
  <1> QED
    BY <1>1, <1>2, <1>3 DEF Next

LEMMA PairInvariant == Spec => []PairInv
  <1>1. PairInv /\ [Next]_vars => PairInv'
    BY NextPair
  <1> QED
    BY InitPair, <1>1, PTL DEF Spec

-----------------------------------------------------------------------------
\* The sender numbers its segments; the receiver passes up a frame whose frame count bit
\* is the one it expects and flips that bit, in LinkContext::OnFrame and SLLS_Reset, and
\* PLLS_ConfDataWait retransmits with the same bit. Whatever is lost, however often the
\* sender retries and however early its timer fires, also after outages: what reaches the
\* peer was submitted, and no segment is delivered twice or after a later one.
THEOREM DeliversAtMostOnceInOrder == Spec => AtMostOnceInOrder
  <1> USE DEF AtoB!Spec, AtoB!Init, AtoB!Next, AtoB!Submit, AtoB!Deliver,
              BtoA!Spec, BtoA!Init, BtoA!Next, BtoA!Submit, BtoA!Deliver
  <1>1. /\ "A" \in Stations /\ "B" \in Stations /\ Peer("A") = "B" /\ Peer("B") = "A"
    BY DEF Stations, Peer
  <1>2. Init => AtoB!Init /\ BtoA!Init
    BY <1>1 DEF Init
  <1>3. ASSUME PairInv, [Next]_vars
        PROVE  [AtoB!Next]_<<sent["A"], received["B"]>> /\ [BtoA!Next]_<<sent["B"], received["A"]>>
    <2>1. Delivers("A") /\ Delivers("B")
      BY <1>1, <1>3, NextPair
    <2> QED
      BY <1>1, <2>1 DEF Delivers, Last, AtoB!Last, BtoA!Last
  <1>4. PairInv /\ [Next]_vars =>
          [AtoB!Next]_<<sent["A"], received["B"]>> /\ [BtoA!Next]_<<sent["B"], received["A"]>>
    BY <1>3
  <1> QED
    BY <1>2, <1>4, PairInvariant, PTL DEF Spec, AtMostOnceInOrder

-----------------------------------------------------------------------------
(***************************************************************************)
(* Timers that are not early.  In such a scenario there is one thing of an *)
(* exchange under way at most: the sender's frame, the acknowledgement     *)
(* that the peer is about to write, or the acknowledgement.  w and v are   *)
(* the frames under way to the peer and back, q and b the state of the     *)
(* peer's secondary station and the bit that it expects, r what the peer   *)
(* has received.                                                           *)
(***************************************************************************)
NoAck(v) == \A i \in 1..Len(v) : ~IsAck(v[i])
OneAck(v) == \A i \in 1..Len(v), j \in 1..Len(v) : IsAck(v[i]) /\ IsAck(v[j]) => i = j

NoRequest(w) == \A i \in 1..Len(w) : IsAck(w[i])
OneRequest(w) == \A i \in 1..Len(w), j \in 1..Len(w) : IsAck(w[i]) \/ IsAck(w[j]) \/ i = j

\* Nothing of an exchange is under way.
Over(w, v, q) == NoRequest(w) /\ NoAck(v) /\ q \notin SecTransmitWait

AtMostOne(w, v, q) ==
    /\ OneRequest(w) /\ OneAck(v)
    /\ NoRequest(w) \/ (NoAck(v) /\ q \notin SecTransmitWait)
    /\ NoAck(v) \/ q \notin SecTransmitWait

Waits(l) == l.pPriState \in {"ResetLinkWait", "ConfDataWait"}

\* A timer runs only while the station waits, no late callback of one is queued, and the
\* link is reset before data is sent.
Patient(l) ==
    /\ l.orphans["response"] = 0
    /\ l.timer["response"] # "none" => Waits(l)
    /\ l.status = "RESET" => l.isRemoteReset
    /\ l.pPriState \in {"LinkResetTransmitWait", "ResetLinkWait"} => ~l.isRemoteReset

\* The sender waits for the answer to f.
Asks(l, n, f) ==
    IF l.pPriState = "ResetLinkWait" THEN IsReset(f)
    ELSE IsData(f) /\ f.flag = l.nextWriteFCB /\ Number(f) = At(l, n)

\* The peer's secondary station has been reset.
Ready(q) == q \in {"Reset", "TransmitWaitReset"}

\* The peer has answered the sender.
Answered(l, q, b) ==
    /\ Ready(q)
    /\ IF l.pPriState = "ResetLinkWait" THEN b
       ELSE l.status = "RESET" => b # l.nextWriteFCB

\* While the link is reported RESET the peer expects the bit that the sender's next frame
\* bears, unless it has received the segment already.
InStep(l, n, q, b, r) ==
    l.status = "RESET" =>
        /\ Ready(q)
        /\ b # l.nextWriteFCB => Carries(l) /\ At(l, n) \in ToSet(r)

Exchange(l, n, w, v, q, b, r) ==
    /\ ~Waits(l) \/ l.timer["response"] = "expired" => Over(w, v, q)
    /\ AtMostOne(w, v, q)
    /\ \A i \in 1..Len(w) : ~IsAck(w[i]) => Asks(l, n, w[i])
    /\ ~NoAck(v) \/ q \in SecTransmitWait => Answered(l, q, b)
    /\ InStep(l, n, q, b, r)

ExchangeInv(s) ==
    /\ Patient(station[s])
    /\ Exchange(station[s], sent[s], wire[Peer(s)], wire[s], station[Peer(s)].pSecState,
                station[Peer(s)].nextReadFCB, received[Peer(s)])
    /\ acked[s] \subseteq IF station[s].status = "RESET" THEN ToSet(received[Peer(s)]) ELSE {}

Exchanging == DOMAIN acked = Stations /\ \A s \in Stations : ExchangeInv(s)

PromptInv == scenario.prompt => Exchanging

\* A frame has arrived.
LEMMA TailWire ==
    ASSUME NEW w, w \in Seq(Frame), w # <<>>
    PROVE  /\ \A i \in 1..Len(Tail(w)) : Tail(w)[i] = w[i + 1] /\ i + 1 \in 1..Len(w)
           /\ NoAck(w) => NoAck(Tail(w)) /\ ~IsAck(w[1])
           /\ OneAck(w) => OneAck(Tail(w)) /\ (IsAck(w[1]) => NoAck(Tail(w)))
           /\ NoRequest(w) => NoRequest(Tail(w)) /\ IsAck(w[1])
           /\ OneRequest(w) => OneRequest(Tail(w)) /\ (IsAck(w[1]) \/ NoRequest(Tail(w)))
  <1> DEFINE v == Tail(w)
  <1>1. /\ Len(v) + 1 = Len(w) /\ Len(v) \in Nat
        /\ \A i \in 1..Len(v) : v[i] = w[i + 1] /\ i + 1 \in 1..Len(w)
    BY WireTail
  <1> HIDE DEF v
  <1>2. 1 \in 1..Len(w) /\ \A i \in 1..Len(v) : i + 1 # 1
    BY <1>1
  <1>3. \A i \in 1..Len(v), j \in 1..Len(v) : i + 1 = j + 1 => i = j
    BY <1>1
  <1>4. NoAck(w) => NoAck(v) /\ ~IsAck(w[1])
    BY <1>1, <1>2 DEF NoAck
  <1>5. OneAck(w) => OneAck(v) /\ (IsAck(w[1]) => NoAck(v))
    BY <1>1, <1>2, <1>3 DEF OneAck, NoAck
  <1>6. NoRequest(w) => NoRequest(v) /\ IsAck(w[1])
    BY <1>1, <1>2 DEF NoRequest
  <1>7. OneRequest(w) => OneRequest(v) /\ (IsAck(w[1]) \/ NoRequest(v))
    BY <1>1, <1>2, <1>3 DEF OneRequest, NoRequest
  <1> QED
    BY <1>1, <1>4, <1>5, <1>6, <1>7 DEF v

\* A frame was written.
LEMMA AppendWire ==
    ASSUME NEW w, w \in Seq(Frame), NEW f \in Frame
    PROVE  LET v == Append(w, f)
           IN  /\ \A i \in 1..Len(v) : v[i] = f \/ (i \in 1..Len(w) /\ v[i] = w[i])
               /\ IsAck(f) => /\ NoRequest(w) => NoRequest(v)
                              /\ OneRequest(w) => OneRequest(v)
                              /\ NoAck(w) => OneAck(v)
               /\ ~IsAck(f) => /\ NoAck(w) => NoAck(v)
                               /\ OneAck(w) => OneAck(v)
                               /\ NoRequest(w) => OneRequest(v)
  <1> DEFINE v == Append(w, f)
             m == Len(w)
  <1>1. Len(v) = m + 1 /\ m \in Nat /\ v[m + 1] = f /\ \A i \in 1..m : v[i] = w[i]
    OBVIOUS
  <1> HIDE DEF v, m
  <1>2. \A i \in 1..Len(v) : (i = m + 1 /\ v[i] = f) \/ (i \in 1..m /\ v[i] = w[i])
    BY <1>1
  <1>3. IsAck(f) => (NoRequest(w) => NoRequest(v)) /\ (OneRequest(w) => OneRequest(v))
    BY <1>2 DEF NoRequest, OneRequest, m
  <1>4. IsAck(f) => (NoAck(w) => OneAck(v))
    BY <1>2 DEF NoAck, OneAck, m
  <1>5. ~IsAck(f) => (NoAck(w) => NoAck(v)) /\ (OneAck(w) => OneAck(v))
    BY <1>2 DEF NoAck, OneAck, m
  <1>6. ~IsAck(f) => (NoRequest(w) => OneRequest(v))
    BY <1>2 DEF NoRequest, OneRequest, m
  <1> QED
    BY <1>2, <1>3, <1>4, <1>5, <1>6 DEF v, m

-----------------------------------------------------------------------------
(***************************************************************************)
(* Steps of an exchange.                                                   *)
(***************************************************************************)

\* The sender stays where it is, or begins with the next segment.
Steady(l, n, d, k) ==
    /\ SameLine(l, d) /\ At(d, k) = At(l, n)
    /\ \/ d.pPriState = l.pPriState
       \/ /\ l.pPriState = "Idle"
          /\ d.pPriState = IF l.isRemoteReset THEN "ConfUserDataTransmitWait"
                           ELSE "LinkResetTransmitWait"

LEMMA SteadyExchange ==
    ASSUME NEW l, NEW n, NEW w, NEW v, NEW q, NEW b, NEW r, Exchange(l, n, w, v, q, b, r),
           Patient(l), NEW d, NEW k, Steady(l, n, d, k)
    PROVE  Patient(d) /\ Exchange(d, k, w, v, q, b, r)
  <1>1. CASE d.pPriState = l.pPriState
    <2>1. Patient(d) /\ InStep(d, k, q, b, r)
      BY <1>1 DEF Patient, Steady, SameLine, Waits, Exchange, InStep, Carries
    <2>2. \A i \in 1..Len(w) : ~IsAck(w[i]) => Asks(d, k, w[i])
      BY <1>1 DEF Steady, SameLine, Exchange, Asks
    <2>3. ~NoAck(v) \/ q \in SecTransmitWait => Answered(d, q, b)
      BY <1>1 DEF Steady, SameLine, Exchange, Answered
    <2> QED
      BY <1>1, <2>1, <2>2, <2>3 DEF Steady, SameLine, Exchange, Waits
  <1>2. CASE /\ l.pPriState = "Idle"
             /\ d.pPriState = IF l.isRemoteReset THEN "ConfUserDataTransmitWait"
                              ELSE "LinkResetTransmitWait"
    <2>1. Over(w, v, q)
      BY <1>2 DEF Exchange, Waits
    <2>2. Patient(d)
      BY <1>2 DEF Patient, Steady, SameLine, Waits
    <2>3. InStep(d, k, q, b, r)
      BY <1>2 DEF Steady, SameLine, Exchange, InStep, Carries
    <2> QED
      BY <2>1, <2>2, <2>3 DEF Exchange, Over, NoRequest
  <1> QED
    BY <1>1, <1>2 DEF Steady

\* What arrives is gone.
LEMMA TailExchange ==
    ASSUME NEW l, NEW n, NEW w, NEW v, NEW q, NEW b, NEW r, Exchange(l, n, w, v, q, b, r),
           w \in Seq(Frame), v \in Seq(Frame)
    PROVE  /\ v # <<>> => Exchange(l, n, w, Tail(v), q, b, r)
           /\ w # <<>> => Exchange(l, n, Tail(w), v, q, b, r)
  <1>1. ASSUME v # <<>>
        PROVE  Exchange(l, n, w, Tail(v), q, b, r)
    BY <1>1, TailWire DEF Exchange, Over, AtMostOne
  <1>2. ASSUME w # <<>>
        PROVE  Exchange(l, n, Tail(w), v, q, b, r)
    <2>1. \A i \in 1..Len(Tail(w)) : ~IsAck(Tail(w)[i]) => Asks(l, n, Tail(w)[i])
      BY <1>2, TailWire DEF Exchange
    <2>2. /\ NoRequest(w) => NoRequest(Tail(w))
          /\ OneRequest(w) => OneRequest(Tail(w))
      BY <1>2, TailWire
    <2> QED
      BY <2>1, <2>2 DEF Exchange, Over, AtMostOne
  <1> QED
    BY <1>1, <1>2

\* The frames of the exchange in the other direction
LEMMA OtherExchange ==
    ASSUME NEW l, NEW n, NEW w, NEW v, NEW q, NEW b, NEW r, Exchange(l, n, w, v, q, b, r),
           w \in Seq(Frame), v \in Seq(Frame), NEW f \in Frame
    PROVE  /\ IsAck(f) => Exchange(l, n, Append(w, f), v, q, b, r)
           /\ ~IsAck(f) => Exchange(l, n, w, Append(v, f), q, b, r)
  <1>1. ASSUME IsAck(f)
        PROVE  Exchange(l, n, Append(w, f), v, q, b, r)
    <2> DEFINE u == Append(w, f)
    <2>1. /\ \A i \in 1..Len(u) : u[i] = f \/ (i \in 1..Len(w) /\ u[i] = w[i])
          /\ NoRequest(w) => NoRequest(u)
          /\ OneRequest(w) => OneRequest(u)
      BY <1>1, AppendWire
    <2> HIDE DEF u
    <2>2. \A i \in 1..Len(u) : ~IsAck(u[i]) => Asks(l, n, u[i])
      BY <1>1, <2>1 DEF Exchange
    <2>3. Exchange(l, n, u, v, q, b, r)
      BY <2>1, <2>2 DEF Exchange, Over, AtMostOne
    <2> QED
      BY <2>3 DEF u
  <1>2. ASSUME ~IsAck(f)
        PROVE  Exchange(l, n, w, Append(v, f), q, b, r)
    <2>1. (NoAck(v) => NoAck(Append(v, f))) /\ (OneAck(v) => OneAck(Append(v, f)))
      BY <1>2, AppendWire
    <2> QED
      BY <2>1 DEF Exchange, Over, AtMostOne
  <1> QED
    BY <1>1, <1>2

\* The sender's frame is written, and may get lost.
LEMMA RequestExchange ==
    ASSUME NEW l, NEW n, NEW w, NEW v, NEW q, NEW b, NEW r, Exchange(l, n, w, v, q, b, r),
           Patient(l), w \in Seq(Frame), NEW d,
           l.pPriState \in {"LinkResetTransmitWait", "ConfUserDataTransmitWait"},
           d.pPriState = IF l.pPriState = "LinkResetTransmitWait" THEN "ResetLinkWait"
                         ELSE "ConfDataWait",
           d.isRemoteReset = l.isRemoteReset, d.status = l.status,
           d.nextWriteFCB = l.nextWriteFCB, At(d, n) = At(l, n),
           d.timer["response"] = "running", d.orphans["response"] = l.orphans["response"]
    PROVE  /\ Patient(d) /\ Exchange(d, n, w, v, q, b, r)
           /\ \A f \in Frame : ~IsAck(f) /\ Asks(d, n, f) => Exchange(d, n, Append(w, f), v, q, b, r)
  <1>1. Over(w, v, q)
    BY DEF Exchange, Waits
  <1>2. Patient(d)
    BY DEF Patient, Waits
  <1>3. InStep(d, n, q, b, r)
    BY DEF Exchange, InStep, Carries, Patient
  <1>4. Waits(d) /\ d.timer["response"] # "expired"
    BY DEF Waits
  <1>5. Exchange(d, n, w, v, q, b, r)
    BY <1>1, <1>3, <1>4 DEF Exchange, Over, AtMostOne, NoRequest
  <1>6. ASSUME NEW f \in Frame, ~IsAck(f), Asks(d, n, f)
        PROVE  Exchange(d, n, Append(w, f), v, q, b, r)
    <2> DEFINE u == Append(w, f)
    <2>1. /\ \A i \in 1..Len(u) : u[i] = f \/ (i \in 1..Len(w) /\ u[i] = w[i])
          /\ OneRequest(u)
      BY <1>1, <1>6, AppendWire DEF Over
    <2> HIDE DEF u
    <2>2. \A i \in 1..Len(u) : ~IsAck(u[i]) => Asks(d, n, u[i])
      BY <1>1, <1>6, <2>1 DEF Over, NoRequest
    <2>3. Exchange(d, n, u, v, q, b, r)
      BY <1>1, <1>3, <1>4, <1>5, <2>1, <2>2 DEF Exchange, Over, AtMostOne
    <2> QED
      BY <2>3 DEF u
  <1> QED
    BY <1>2, <1>5, <1>6

\* The peer has written an acknowledgement, which may get lost.
LEMMA AnswerExchange ==
    ASSUME NEW l, NEW n, NEW w, NEW v, NEW q, NEW b, NEW r, Exchange(l, n, w, v, q, b, r),
           v \in Seq(Frame), q \in SecTransmitWait
    PROVE  /\ q = "TransmitWaitReset" /\ Exchange(l, n, w, v, "Reset", b, r)
           /\ \A f \in Frame : IsAck(f) => Exchange(l, n, w, Append(v, f), "Reset", b, r)
  <1>1. /\ Answered(l, q, b) /\ NoAck(v) /\ NoRequest(w) /\ Waits(l)
        /\ l.timer["response"] # "expired" /\ OneRequest(w) /\ OneAck(v)
    BY DEF Exchange, Over, AtMostOne
  <1>2. q = "TransmitWaitReset" /\ "Reset" \notin SecTransmitWait
    BY <1>1 DEF Answered, Ready, SecTransmitWait
  <1>3. Answered(l, "Reset", b) /\ InStep(l, n, "Reset", b, r)
    BY <1>1 DEF Answered, Ready, Exchange, InStep
  <1>4. Exchange(l, n, w, v, "Reset", b, r)
    BY <1>1, <1>2, <1>3 DEF Exchange, Over, AtMostOne
  <1>5. ASSUME NEW f \in Frame, IsAck(f)
        PROVE  Exchange(l, n, w, Append(v, f), "Reset", b, r)
    <2>1. OneAck(Append(v, f))
      BY <1>1, <1>5, AppendWire
    <2> QED
      BY <1>1, <1>2, <1>3, <2>1 DEF Exchange, Over, AtMostOne, NoRequest
  <1> QED
    BY <1>2, <1>4, <1>5

LEMMA AppendReceived ==
    ASSUME NEW r \in Seq(Nat), NEW x \in Nat
    PROVE  ToSet(r) \subseteq ToSet(Append(r, x)) /\ x \in ToSet(Append(r, x))
  <1> DEFINE v == Append(r, x)
             m == Len(r)
  <1>1. /\ DOMAIN r = 1..m /\ DOMAIN v = 1..m + 1 /\ m \in Nat
        /\ v[m + 1] = x /\ \A i \in 1..m : v[i] = r[i]
    OBVIOUS
  <1> HIDE DEF v, m
  <1>2. m + 1 \in DOMAIN v /\ \A i \in DOMAIN r : i \in DOMAIN v /\ v[i] = r[i]
    BY <1>1
  <1> QED
    BY <1>1, <1>2 DEF ToSet, v

\* The peer is about to write an acknowledgement.
LEMMA AnsweringExchange ==
    ASSUME NEW l, NEW n, NEW w, NEW v, NEW q, NEW b, NEW r, Waits(l), l.timer["response"] # "expired",
           NoRequest(w), OneRequest(w), NoAck(v), OneAck(v), Answered(l, q, b),
           InStep(l, n, q, b, r)
    PROVE  Exchange(l, n, w, v, q, b, r)
  <1>1. AtMostOne(w, v, q)
    BY DEF AtMostOne
  <1> QED
    BY <1>1 DEF Exchange, NoRequest

\* A secondary station (q, b) whose reader has been given r takes the request f.
Takes(f, q, b, r, p, c, e) ==
    /\ IsReset(f) => p = "TransmitWaitReset" /\ c = TRUE /\ e = r
    /\ IsData(f) =>
         IF q = "Reset"
         THEN /\ p = "TransmitWaitReset"
              /\ IF f.flag = b THEN c = ~b /\ e = Append(r, Number(f)) ELSE c = b /\ e = r
         ELSE p = q /\ c = b /\ e = r

\* The sender's frame arrives. The peer acknowledges data when it was reset, and data that
\* it has received before again.
LEMMA ArrivalExchange ==
    ASSUME NEW l, NEW n, NEW w, NEW v, NEW q, NEW b, NEW r, Exchange(l, n, w, v, q, b, r),
           Patient(l), w \in Seq(Frame), v \in Seq(Frame), w # <<>>, ~IsAck(w[1]), Legible(w[1]),
           b \in BOOLEAN, l.nextWriteFCB \in BOOLEAN, r \in Seq(Nat), NEW c, NEW p, NEW e,
           Takes(w[1], q, b, r, p, c, e)
    PROVE  Exchange(l, n, Tail(w), v, p, c, e)
  <1> DEFINE f == w[1]
             u == Tail(w)
  <1>1. /\ 1 \in 1..Len(w) /\ (IsReset(f) \/ IsData(f)) /\ ~(IsReset(f) /\ IsData(f))
        /\ Legible(f)
    BY DEF Legible, IsAck, IsReset, IsData
  <1>2. ~NoRequest(w) /\ Asks(l, n, f)
    BY <1>1 DEF NoRequest, Exchange
  <1>3. Waits(l) /\ l.timer["response"] # "expired" /\ NoAck(v) /\ q \notin SecTransmitWait
    BY <1>2 DEF Exchange, Over, AtMostOne
  <1>4. OneRequest(w) /\ OneAck(v)
    BY DEF Exchange, AtMostOne
  <1>5. NoRequest(u)
    BY <1>4, TailWire
  <1>6. OneRequest(u)
    BY <1>4, TailWire
  <1>7. Exchange(l, n, u, v, q, b, r)
    BY TailExchange
  <1> HIDE DEF u, f
  <1>8. ASSUME Answered(l, p, c), InStep(l, n, p, c, e)
        PROVE  Exchange(l, n, u, v, p, c, e)
    BY <1>3, <1>4, <1>5, <1>6, <1>8, AnsweringExchange
  <1>9. CASE IsReset(f)
    <2>1. l.pPriState = "ResetLinkWait"
      BY <1>1, <1>2, <1>9 DEF Asks
    <2>2. l.status # "RESET"
      BY <2>1 DEF Patient
    <2>3. Answered(l, p, c) /\ InStep(l, n, p, c, e)
      BY <1>9, <2>1, <2>2 DEF Answered, Ready, InStep, Takes, f
    <2>4. Exchange(l, n, u, v, p, c, e)
      BY <1>8, <2>3
    <2> QED
      BY <2>4 DEF u
  <1>10. CASE IsData(f) /\ q = "Reset"
    <2>1. /\ l.pPriState = "ConfDataWait" /\ f.flag = l.nextWriteFCB /\ Number(f) = At(l, n)
          /\ Number(f) \in Nat
      BY <1>1, <1>2, <1>3, <1>10 DEF Asks, Waits, Legible
    <2>2. c # l.nextWriteFCB /\ p = "TransmitWaitReset"
      BY <1>10, <2>1 DEF Takes, f
    <2>3. l.status = "RESET" => At(l, n) \in ToSet(e)
      <3>1. CASE f.flag = b
        BY <1>10, <2>1, <3>1, AppendReceived DEF Takes, f
      <3>2. CASE f.flag # b
        BY <1>10, <2>1, <3>2 DEF Exchange, InStep, Takes, f
      <3> QED
        BY <3>1, <3>2
    <2>4. Answered(l, p, c) /\ InStep(l, n, p, c, e)
      BY <2>1, <2>2, <2>3 DEF Answered, Ready, InStep, Carries
    <2>5. Exchange(l, n, u, v, p, c, e)
      BY <1>8, <2>4
    <2> QED
      BY <2>5 DEF u
  <1>11. CASE IsData(f) /\ q # "Reset"
    BY <1>1, <1>7, <1>11 DEF Takes, u, f
  <1> QED
    BY <1>1, <1>9, <1>10, <1>11

\* The acknowledgement arrives: what it acknowledges was received.
LEMMA AckExchange ==
    ASSUME NEW l, NEW n, NEW w, NEW v, NEW q, NEW b, NEW r, Exchange(l, n, w, v, q, b, r),
           Patient(l), v \in Seq(Frame), v # <<>>, IsAck(v[1]),
           b \in BOOLEAN, l.nextWriteFCB \in BOOLEAN, NEW d, NEW k,
           d.timer["response"] = "none", d.orphans["response"] = l.orphans["response"],
           l.pPriState = "ResetLinkWait" =>
             /\ d.pPriState = "ConfUserDataTransmitWait" /\ d.isRemoteReset
             /\ d.nextWriteFCB = TRUE /\ d.status = "RESET",
           l.pPriState = "ConfDataWait" =>
             /\ d.pPriState \in {"ConfUserDataTransmitWait", "Idle"}
             /\ d.isRemoteReset = l.isRemoteReset /\ d.status = l.status
             /\ d.nextWriteFCB = ~l.nextWriteFCB
    PROVE  /\ Patient(d) /\ Exchange(d, k, w, Tail(v), q, b, r)
           /\ l.pPriState = "ConfDataWait" /\ l.status = "RESET" => At(l, n) \in ToSet(r)
  <1>1. 1 \in 1..Len(v)
    OBVIOUS
  <1>2. ~NoAck(v)
    BY <1>1 DEF NoAck
  <1>3. /\ Waits(l) /\ NoRequest(w) /\ q \notin SecTransmitWait /\ Answered(l, q, b)
        /\ OneRequest(w) /\ OneAck(v)
    BY <1>2 DEF Exchange, Over, AtMostOne
  <1>4. NoAck(Tail(v)) /\ OneAck(Tail(v))
    BY <1>3, TailWire
  <1>5. CASE l.pPriState = "ResetLinkWait"
    <2>1. Ready(q) /\ b = TRUE
      BY <1>3, <1>5 DEF Answered
    <2>2. Patient(d) /\ InStep(d, k, q, b, r)
      BY <1>5, <2>1 DEF Patient, InStep
    <2> QED
      BY <1>3, <1>4, <1>5, <2>2 DEF Exchange, Over, AtMostOne, NoRequest
  <1>6. CASE l.pPriState = "ConfDataWait"
    <2>1. l.status = "RESET" => Ready(q) /\ b # l.nextWriteFCB
      BY <1>3, <1>6 DEF Answered
    <2>2. Patient(d) /\ InStep(d, k, q, b, r)
      BY <1>6, <2>1 DEF Patient, InStep
    <2>3. l.status = "RESET" => At(l, n) \in ToSet(r)
      BY <2>1 DEF Exchange, InStep
    <2> QED
      BY <1>3, <1>4, <1>6, <2>2, <2>3 DEF Exchange, Over, AtMostOne, NoRequest
  <1> QED
    BY <1>3, <1>5, <1>6 DEF Waits

\* The timer's callback runs: the frame is sent again, or the send is given up, of which
\* the listener learns unless the link was not reset at all.
LEMMA TimeoutExchange ==
    ASSUME NEW l, NEW n, NEW w, NEW v, NEW q, NEW b, NEW r, Exchange(l, n, w, v, q, b, r),
           Patient(l), l.timer["response"] = "expired", NEW d,
           d.timer["response"] = "none", d.orphans["response"] = l.orphans["response"],
           d.isRemoteReset = l.isRemoteReset, d.nextWriteFCB = l.nextWriteFCB,
           \/ /\ l.pPriState = "ResetLinkWait" => d.pPriState = "LinkResetTransmitWait"
              /\ l.pPriState = "ConfDataWait" => d.pPriState = "ConfUserDataTransmitWait"
              /\ d.status = l.status /\ At(d, n) = At(l, n)
           \/ /\ d.pPriState = "Idle"
              /\ d.status = IF l.pPriState = "ConfDataWait" THEN "UNRESET" ELSE l.status
    PROVE  Patient(d) /\ Exchange(d, n, w, v, q, b, r)
  <1>1. Over(w, v, q) /\ Waits(l)
    BY DEF Exchange, Patient
  <1>2. Patient(d)
    BY <1>1 DEF Patient, Waits
  <1>3. InStep(d, n, q, b, r)
    BY <1>1 DEF Patient, Waits, Exchange, InStep, Carries
  <1> QED
    BY <1>1, <1>2, <1>3 DEF Exchange, Over, NoRequest

\* Both channels are new.
LEMMA NewExchange ==
    ASSUME NEW d, NEW n, NEW b, NEW r,
           d.pPriState = "Idle", d.status = "UNRESET", ~d.isRemoteReset,
           d.timer["response"] = "none", d.orphans["response"] = 0
    PROVE  Patient(d) /\ Exchange(d, n, <<>>, <<>>, "NotReset", b, r)
  BY DEF Patient, Exchange, Over, AtMostOne, NoRequest, OneRequest, NoAck, OneAck, InStep,
         SecTransmitWait

-----------------------------------------------------------------------------
(***************************************************************************)
(* What the handlers do to an exchange.                                    *)
(***************************************************************************)
Unmoved(l, d) == SameSend(l, d) /\ SameLine(l, d) /\ SameReader(l, d)

LEMMA UnmovedTrans ==
    ASSUME NEW l, NEW d, NEW e, Unmoved(l, d), Unmoved(d, e)
    PROVE  Unmoved(l, e)
  BY DEF Unmoved, SameSend, SameLine, SameReader

LEMMA UnmovedSteady ==
    ASSUME NEW l, NEW n, NEW d, Unmoved(l, d)
    PROVE  Steady(l, n, d, n) /\ SameReader(l, d)
  BY DEF Unmoved, SameSend, Steady, At

\* Members that an exchange does not read
LEMMA MinorUnmoved ==
    ASSUME NEW l \in Station
    PROVE  /\ \A x : Unmoved(l, [l EXCEPT !.txBuffer = x])
           /\ \A x : Unmoved(l, [l EXCEPT !.pending = x])
           /\ \A x : Unmoved(l, [l EXCEPT !.txMode = x])
           /\ \A x : Unmoved(l, [l EXCEPT !.txQueue = x])
           /\ \A x : Unmoved(l, [l EXCEPT !.numRetryRemaining = x])
           /\ \A x, y : Unmoved(l, [l EXCEPT !.posted = x, !.isSending = y])
  BY DEF Station, Unmoved, SameSend, SameLine, SameReader

\* IOHandler::BeginTransmit
LEMMA BeginWriteUnmoved ==
    ASSUME NEW l \in Station, NEW side, NEW f
    PROVE  Unmoved(l, BeginWrite(l, side, f))
  <1> DEFINE q == Append(l.txQueue, [side |-> side, frame |-> f])
             d == BeginWrite(l, side, f)
  <1>1. d = IF l.channel THEN [l EXCEPT !.txMode = side, !.txQueue = q]
            ELSE [l EXCEPT !.txMode = side]
    BY DEF BeginWrite
  <1> HIDE DEF q, d
  <1>2. Unmoved(l, d)
    BY <1>1 DEF Station, Unmoved, SameSend, SameLine, SameReader
  <1> QED
    BY <1>2 DEF d

\* LinkContext::QueueTransmit
LEMMA QueueTransmitUnmoved ==
    ASSUME NEW l \in Station, NEW side \in Sides, NEW f \in Frame
    PROVE  QueueTransmit(l, side, f) \in Station /\ Unmoved(l, QueueTransmit(l, side, f))
  <1> DEFINE x == [l.txBuffer EXCEPT ![side] = f]
             e == [l EXCEPT !.txBuffer = x]
             y == [e.pending EXCEPT ![side] = f]
  <1>1. x \in [Sides -> Frame \cup {NoFrame}]
    BY DEF Station
  <1>2. QueueTransmit(l, side, f) =
          IF l.txMode = "Idle" THEN BeginWrite(e, side, f) ELSE [e EXCEPT !.pending = y]
    BY DEF QueueTransmit
  <1> HIDE DEF x, y
  <1>3. e \in Station
    BY <1>1 DEF Station
  <1>4. Unmoved(l, e)
    BY MinorUnmoved
  <1> HIDE DEF e
  <1>5. Unmoved(e, BeginWrite(e, side, f))
    BY <1>3, BeginWriteUnmoved
  <1>6. Unmoved(e, [e EXCEPT !.pending = y])
    BY <1>3, MinorUnmoved
  <1>7. Unmoved(l, QueueTransmit(l, side, f))
    BY <1>2, <1>4, <1>5, <1>6, UnmovedTrans
  <1>8. QueueTransmit(l, side, f) \in Station
    BY QueueTransmitEffect
  <1> QED
    BY <1>7, <1>8

\* LinkContext::TryPendingTx
LEMMA TryPendingUnmoved ==
    ASSUME NEW l \in Station, NEW side \in Sides
    PROVE  TryPendingTx(l, side) \in Station /\ Unmoved(l, TryPendingTx(l, side))
  <1> DEFINE f == l.pending[side]
             e == BeginWrite(l, side, f)
             y == [e.pending EXCEPT ![side] = NoFrame]
  <1>1. TryPendingTx(l, side) =
          IF l.txMode = "Idle" /\ f # NoFrame THEN [e EXCEPT !.pending = y] ELSE l
    BY DEF TryPendingTx
  <1>2. TryPendingTx(l, side) \in Station
    BY TryPendingSilent DEF Silent, SameSpeech
  <1>3. f # NoFrame => f \in Frame
    BY DEF Station
  <1> HIDE DEF f
  <1>4. f # NoFrame => e \in Station
    BY <1>3, BeginWriteSilent DEF Silent, SameSpeech
  <1>5. Unmoved(l, e)
    BY BeginWriteUnmoved
  <1> HIDE DEF e, y
  <1>6. f # NoFrame => Unmoved(e, [e EXCEPT !.pending = y])
    BY <1>4, MinorUnmoved
  <1>7. Unmoved(l, l)
    BY DEF Unmoved, SameSend, SameLine, SameReader
  <1> QED
    BY <1>1, <1>2, <1>5, <1>6, <1>7, UnmovedTrans

LEMMA WrittenUnmoved ==
    ASSUME NEW l \in Station
    PROVE  Written(l) \in Station /\ Unmoved(l, Written(l))
  <1> DEFINE i == [l EXCEPT !.txMode = "Idle"]
             s == TryPendingTx(i, "Secondary")
             n == TryPendingTx(s, "Primary")
  <1>1. i \in Station
    BY DEF Station
  <1>2. Unmoved(l, i)
    BY MinorUnmoved
  <1>3. Written(l) = n
    BY DEF Written
  <1> HIDE DEF i
  <1>4. s \in Station /\ Unmoved(i, s)
    BY <1>1, TryPendingUnmoved DEF Sides
  <1> HIDE DEF s
  <1>5. n \in Station /\ Unmoved(s, n)
    BY <1>4, TryPendingUnmoved DEF Sides
  <1> HIDE DEF n
  <1> QED
    BY <1>2, <1>3, <1>4, <1>5, UnmovedTrans

\* The state that the station moves to
Moved(l, d, p) ==
    /\ SameLine(l, d) /\ SameReader(l, d) /\ d.pPriState = p
    /\ d.pSegments = l.pSegments /\ d.segments = l.segments

LEMMA QueueConfirmedMoves ==
    ASSUME NEW l \in Station, l.segments # <<>>
    PROVE  Moved(l, QueueConfirmed(l), "ConfUserDataTransmitWait")
  <1> DEFINE f == UserData("CONFIRMED_USER_DATA", l.nextWriteFCB, Head(l.segments))
             e == QueueTransmit(l, "Primary", f)
  <1>1. f \in Frame
    <2>1. l.segments \in Seq(Segment) /\ l.nextWriteFCB \in BOOLEAN
      BY DEF Station
    <2>2. Head(l.segments) \in Segment
      BY <2>1
    <2> QED
      BY <2>1, <2>2, UserDataType DEF PriFunction
  <1>2. QueueConfirmed(l) = [e EXCEPT !.pPriState = "ConfUserDataTransmitWait"]
    BY DEF QueueConfirmed
  <1> HIDE DEF f
  <1>3. e \in Station /\ Unmoved(l, e)
    BY <1>1, QueueTransmitUnmoved DEF Sides
  <1> HIDE DEF e
  <1> QED
    BY <1>2, <1>3 DEF Unmoved, SameSend, SameLine, SameReader, Moved, Station

LEMMA QueueResetLinksMoves ==
    ASSUME NEW l \in Station
    PROVE  Moved(l, QueueResetLinks(l), "LinkResetTransmitWait")
  <1> DEFINE f == Plain("RESET_LINK_STATES")
             e == QueueTransmit(l, "Primary", f)
  <1>1. f \in Frame
    BY PlainType DEF PriFunction
  <1>2. QueueResetLinks(l) = [e EXCEPT !.pPriState = "LinkResetTransmitWait"]
    BY DEF QueueResetLinks
  <1> HIDE DEF f
  <1>3. e \in Station /\ Unmoved(l, e)
    BY <1>1, QueueTransmitUnmoved DEF Sides
  <1> HIDE DEF e
  <1> QED
    BY <1>2, <1>3 DEF Unmoved, SameSend, SameLine, SameReader, Moved, Station

LEMMA CompleteMoves ==
    ASSUME NEW l \in Station
    PROVE  LET d == CompleteSendOperation(l)
           IN  /\ SameLine(l, d) /\ SameReader(l, d) /\ d.pPriState = "Idle" /\ ~d.pSegments
  BY DEF CompleteSendOperation, SameLine, SameReader, Station

\* Only an idle station with something to send begins.
LEMMA TryStartSteady ==
    ASSUME NEW l, NEW n, Speaks(l, n), HasSegments(l)
    PROVE  /\ Steady(l, n, TryStartTransmission(l), n) /\ SameReader(l, TryStartTransmission(l))
           /\ l.pPriState # "Idle" \/ ~l.pSegments => TryStartTransmission(l) = l
  <1>1. l \in Station /\ ~l.keepAliveTimeout /\ l.useConfirms
    BY DEF Speaks, Confirming
  <1>2. TryStartTransmission(l) =
          IF l.pSegments /\ l.pPriState = "Idle" THEN TrySendConfirmed(l) ELSE l
    BY <1>1 DEF TryStartTransmission, TrySendSegments
  <1>3. CASE l.pSegments /\ l.pPriState = "Idle"
    <2> DEFINE r == ResetRetry(l)
               c == QueueConfirmed(r)
               s == QueueResetLinks(r)
    <2>1. r = [l EXCEPT !.numRetryRemaining = NumRetry]
      BY DEF ResetRetry
    <2>2. TrySendConfirmed(l) = IF l.isRemoteReset THEN c ELSE s
      BY DEF TrySendConfirmed
    <2> HIDE DEF r
    <2>3. Unmoved(l, r)
      BY <1>1, <2>1, MinorUnmoved
    <2>4. r \in Station
      BY <1>1, ResetRetryEffect DEF r
    <2>5. r.segments # <<>>
      BY <1>3, <2>3 DEF Unmoved, SameSend, HasSegments
    <2>6. Moved(r, c, "ConfUserDataTransmitWait") /\ Moved(r, s, "LinkResetTransmitWait")
      BY <2>4, <2>5, QueueConfirmedMoves, QueueResetLinksMoves
    <2> HIDE DEF c, s
    <2>7. /\ Moved(l, c, "ConfUserDataTransmitWait") /\ Moved(l, s, "LinkResetTransmitWait")
      BY <2>3, <2>6 DEF Unmoved, SameSend, Moved, SameLine, SameReader
    <2>8. /\ l.isRemoteReset => Steady(l, n, c, n) /\ SameReader(l, c)
          /\ ~l.isRemoteReset => Steady(l, n, s, n) /\ SameReader(l, s)
      BY <1>3, <2>7 DEF Moved, Steady, At
    <2> QED
      BY <1>2, <1>3, <2>2, <2>8
  <1>4. CASE ~(l.pSegments /\ l.pPriState = "Idle")
    <2>1. Unmoved(l, l)
      BY DEF Unmoved, SameSend, SameLine, SameReader
    <2> QED
      BY <1>2, <1>4, <2>1, UnmovedSteady
  <1> QED
    BY <1>3, <1>4

\* A message to send,
LEMMA SendSteady ==
    ASSUME NEW l, NEW n, Speaks(l, n), LInv(l), Works(l), ~l.isSending, NEW k, NEW m,
           Follows(m, n, k)
    PROVE  /\ Steady(l, n, BeginTransmit(l, m), n + k)
           /\ SameReader(l, BeginTransmit(l, m))
  <1>1. PICK d : /\ BeginTransmit(l, m) = TryStartTransmission(d)
                 /\ Speaks(d, n + k) /\ HasSegments(d) /\ At(d, n + k) = At(l, n)
                 /\ l.pPriState = "Idle" /\ d.pPriState = "Idle"
                 /\ SameLine(l, d) /\ SameReader(l, d)
    BY Configured
  <1> DEFINE e == TryStartTransmission(d)
  <1>2. Steady(d, n + k, e, n + k) /\ SameReader(d, e)
    BY <1>1, TryStartSteady
  <1> HIDE DEF e
  <1>3. Steady(l, n, e, n + k) /\ SameReader(l, e)
    BY <1>1, <1>2 DEF Steady, SameLine, SameReader
  <1> QED
    BY <1>1, <1>3 DEF e

\* and the end of a send
LEMMA CompletionSteady ==
    ASSUME NEW l, NEW n, Speaks(l, n), l.posted > 0
    PROVE  /\ Steady(l, n, TransportOnTxReady(l, <<>>), n)
           /\ SameReader(l, TransportOnTxReady(l, <<>>))
  <1>1. l \in Station
    BY DEF Speaks
  <1>2. PICK k \in Nat, b \in BOOLEAN :
            TransportOnTxReady(l, <<>>) = [l EXCEPT !.posted = k, !.isSending = b]
    BY <1>1, CompletionRan
  <1>3. Unmoved(l, [l EXCEPT !.posted = k, !.isSending = b])
    BY <1>1, MinorUnmoved
  <1> QED
    BY <1>2, <1>3, UnmovedSteady

\* The primary station's frame has been written: it waits, with the timer running.
LEMMA RequestWritten ==
    ASSUME NEW l, NEW n, Speaks(l, n), LInv(l), Works(l), Patient(l), l.txQueue # <<>>,
           l.txMode = "Primary"
    PROVE  LET d == OnWriteComplete(l)
           IN  /\ l.pPriState \in {"LinkResetTransmitWait", "ConfUserDataTransmitWait"}
               /\ d.pPriState = IF l.pPriState = "LinkResetTransmitWait" THEN "ResetLinkWait"
                                ELSE "ConfDataWait"
               /\ d.isRemoteReset = l.isRemoteReset /\ d.status = l.status
               /\ d.nextWriteFCB = l.nextWriteFCB /\ At(d, n) = At(l, n)
               /\ d.timer["response"] = "running" /\ d.orphans["response"] = l.orphans["response"]
               /\ SameReader(l, d)
  <1> DEFINE q == Tail(l.txQueue)
             i == [l EXCEPT !.txQueue = q]
             w == Written(i)
             p == IF l.pPriState = "LinkResetTransmitWait" THEN "ResetLinkWait" ELSE "ConfDataWait"
             x == [w.timer EXCEPT !["response"] = "running"]
             e == [w EXCEPT !.timer = x, !.pPriState = p]
  <1>1. l \in Station /\ q \in Seq(Transmission)
    BY DEF Speaks, Station
  <1>2. l.pPriState \in {"LinkResetTransmitWait", "ConfUserDataTransmitWait"}
    BY DEF Works, PriDue, Has, Speaks, ConfirmStates, PriTransmitWait
  <1>3. OnWriteComplete(l) = TryStartTransmission(PriOnTxReady(w))
    BY <1>1 DEF OnWriteComplete, OnTxReady, Written, Station
  <1>4. i \in Station /\ Unmoved(l, i) /\ Silent(l, i)
    BY <1>1, MinorUnmoved, MinorSilent DEF Station
  <1> HIDE DEF i, q
  <1>5. w \in Station /\ Unmoved(i, w) /\ Silent(i, w)
    BY <1>4, WrittenUnmoved, WrittenSilent
  <1>6. Unmoved(l, w) /\ Speaks(w, n) /\ w.keepAliveTimeout = l.keepAliveTimeout
    BY <1>4, <1>5, UnmovedTrans, SilentTrans, SilentGoesOn DEF GoesOn, Silent, SameSpeech
  <1> HIDE DEF w
  <1>7. w.timer["response"] = "none" /\ w.pPriState = l.pPriState
    BY <1>2, <1>6 DEF Patient, Unmoved, SameSend, SameLine, Waits
  <1>8. PriOnTxReady(w) = e
    BY <1>2, <1>7 DEF PriOnTxReady, Start
  <1>9. x["response"] = "running"
    BY <1>5 DEF Station, Timers
  <1> HIDE DEF x, p
  <1>10. /\ e.pPriState = p /\ e.timer = x /\ e.orphans = w.orphans
         /\ e.isRemoteReset = w.isRemoteReset /\ e.status = w.status
         /\ e.nextWriteFCB = w.nextWriteFCB /\ e.pSegments = w.pSegments
         /\ e.segments = w.segments /\ e.pSecState = w.pSecState
         /\ e.nextReadFCB = w.nextReadFCB /\ e.keepAliveTimeout = w.keepAliveTimeout
    BY <1>5 DEF Station
  <1> HIDE DEF e
  <1>11. TryStartTransmission(e) = e
    BY <1>6, <1>10 DEF TryStartTransmission, TrySendSegments, Speaks, Confirming, p
  <1>12. /\ e.isRemoteReset = l.isRemoteReset /\ e.status = l.status
         /\ e.nextWriteFCB = l.nextWriteFCB /\ At(e, n) = At(l, n)
         /\ e.orphans["response"] = l.orphans["response"] /\ SameReader(l, e)
    BY <1>6, <1>10 DEF Unmoved, SameSend, SameLine, SameReader, At
  <1>13. OnWriteComplete(l) = e
    BY <1>3, <1>8, <1>11
  <1> QED
    BY <1>2, <1>9, <1>10, <1>12, <1>13 DEF p

\* The acknowledgement has been written.
LEMMA AnswerWritten ==
    ASSUME NEW l, NEW n, Speaks(l, n), LInv(l), Works(l), l.txQueue # <<>>,
           l.txMode = "Secondary"
    PROVE  LET d == OnWriteComplete(l)
           IN  /\ l.pSecState \in SecTransmitWait /\ Steady(l, n, d, n)
               /\ d.nextReadFCB = l.nextReadFCB
               /\ l.pSecState = "TransmitWaitReset" => d.pSecState = "Reset"
  <1> DEFINE q == Tail(l.txQueue)
             i == [l EXCEPT !.txQueue = q]
             w == Written(i)
             p == IF l.pSecState = "TransmitWaitReset" THEN "Reset" ELSE "NotReset"
             e == [w EXCEPT !.pSecState = p]
             d == TryStartTransmission(e)
  <1>1. l \in Station /\ q \in Seq(Transmission) /\ HasSegments(l)
    BY DEF Speaks, Station, LInv
  <1>2. l.pSecState \in SecTransmitWait
    BY DEF Works, SecDue, Has
  <1>3. OnWriteComplete(l) = TryStartTransmission(SecOnTxReady(w))
    BY <1>1 DEF OnWriteComplete, OnTxReady, Written, Station
  <1>4. i \in Station /\ Unmoved(l, i) /\ Silent(l, i)
    BY <1>1, MinorUnmoved, MinorSilent DEF Station
  <1> HIDE DEF i, q
  <1>5. w \in Station /\ Unmoved(i, w) /\ Silent(i, w)
    BY <1>4, WrittenUnmoved, WrittenSilent
  <1>6. Unmoved(l, w) /\ Silent(l, w)
    BY <1>4, <1>5, UnmovedTrans, SilentTrans
  <1> HIDE DEF w
  <1>7. w.pSecState = l.pSecState
    BY <1>6 DEF Unmoved, SameReader
  <1>8. SecOnTxReady(w) = e
    BY <1>2, <1>7 DEF SecOnTxReady, SecTransmitWait
  <1>9. p \in SecState /\ (l.pSecState = "TransmitWaitReset" => p = "Reset")
    BY DEF SecState
  <1> HIDE DEF p
  <1>10. Silent(w, e)
    BY <1>5, <1>9, MinorSilent
  <1>11. SameSend(w, e) /\ SameLine(w, e) /\ e.pSecState = p /\ e.nextReadFCB = w.nextReadFCB
    BY <1>5 DEF Station, SameSend, SameLine
  <1> HIDE DEF e
  <1>12. Speaks(e, n) /\ HasSegments(e)
    BY <1>1, <1>6, <1>10, <1>11, SilentTrans, SilentGoesOn
       DEF GoesOn, Unmoved, SameSend, HasSegments
  <1>13. Steady(e, n, d, n) /\ SameReader(e, d)
    BY <1>12, TryStartSteady
  <1> HIDE DEF d
  <1>14. /\ Steady(l, n, d, n) /\ d.nextReadFCB = l.nextReadFCB /\ d.pSecState = p
    BY <1>6, <1>11, <1>13 DEF Steady, Unmoved, SameSend, SameLine, SameReader, At
  <1>15. OnWriteComplete(l) = d
    BY <1>3, <1>8 DEF d
  <1> QED
    BY <1>2, <1>9, <1>14, <1>15

\* Members that the cancelled response timer leaves alone
LEMMA CancelLine ==
    ASSUME NEW l \in Station, l.timer["response"] # "expired"
    PROVE  LET d == Cancel(l, "response")
           IN  /\ d \in Station /\ SameSend(l, d) /\ SameReader(l, d)
               /\ d.isRemoteReset = l.isRemoteReset /\ d.status = l.status
               /\ d.nextWriteFCB = l.nextWriteFCB
               /\ d.timer["response"] = "none" /\ d.orphans["response"] = l.orphans["response"]
  <1> DEFINE x == [l.timer EXCEPT !["response"] = "none"]
             y == [l.orphans EXCEPT !["response"] = l.orphans["response"]]
             d == [l EXCEPT !.timer = x, !.orphans = y]
             c == Cancel(l, "response")
  <1>1. "response" \in Timers /\ l.timer \in [Timers -> TimerStates] /\ l.orphans \in [Timers -> Nat]
    BY DEF Timers, Station
  <1>2. c = d
    BY DEF Cancel
  <1>3. x["response"] = "none" /\ y["response"] = l.orphans["response"]
    BY <1>1
  <1>4. c \in Station /\ SameSend(l, c)
    BY <1>1, CancelEffect
  <1> HIDE DEF x, y, c
  <1>5. /\ SameReader(l, d) /\ d.isRemoteReset = l.isRemoteReset /\ d.status = l.status
        /\ d.nextWriteFCB = l.nextWriteFCB /\ d.timer = x /\ d.orphans = y
    BY DEF SameReader, Station
  <1> HIDE DEF d
  <1>6. /\ c \in Station /\ SameSend(l, c) /\ SameReader(l, c)
        /\ c.isRemoteReset = l.isRemoteReset /\ c.status = l.status
        /\ c.nextWriteFCB = l.nextWriteFCB
        /\ c.timer["response"] = "none" /\ c.orphans["response"] = l.orphans["response"]
    BY <1>2, <1>3, <1>4, <1>5
  <1> QED
    BY <1>6 DEF c

\* The acknowledgement arrives: data follows a reset, and the next segment or the end of
\* the send an acknowledged one.
LEMMA AckArrives ==
    ASSUME NEW l, NEW n, Speaks(l, n), LInv(l), Works(l), Waits(l), l.timer["response"] # "expired",
           NEW f, IsAck(f)
    PROVE  LET d == OnFrame(l, f, <<>>)
           IN  /\ d.timer["response"] = "none" /\ d.orphans["response"] = l.orphans["response"]
               /\ SameReader(l, d)
               /\ l.pPriState = "ResetLinkWait" =>
                    /\ d.pPriState = "ConfUserDataTransmitWait" /\ d.isRemoteReset
                    /\ d.nextWriteFCB = TRUE /\ d.status = "RESET"
               /\ l.pPriState = "ConfDataWait" =>
                    /\ d.pPriState \in {"ConfUserDataTransmitWait", "Idle"}
                    /\ d.isRemoteReset = l.isRemoteReset /\ d.status = l.status
                    /\ d.nextWriteFCB = ~l.nextWriteFCB
  <1> DEFINE h == PriOnAck(l)
  <1>1. l \in Station /\ l.isOnline /\ l.pSegments /\ l.segments # <<>>
    BY DEF LInv, HasSegments, Sending, Waits, UsesSegments, Works, Alive
  <1>2. OnFrame(l, f, <<>>) = TryStartTransmission(h)
    BY <1>1 DEF OnFrame, IsAck
  <1>3. Speaks(h, n) /\ HasSegments(h)
    BY PriOnAckGoesOn, PriOnAckInv DEF GoesOn, LInv
  <1>4. CASE l.pPriState = "ResetLinkWait"
    <2> DEFINE k == [l EXCEPT !.isRemoteReset = TRUE, !.nextWriteFCB = TRUE, !.status = "RESET"]
               c == Cancel(k, "response")
               e == QueueConfirmed(c)
    <2>1. h = e
      BY <1>4 DEF PriOnAck
    <2>2. /\ k \in Station /\ SameSend(l, k) /\ SameReader(l, k) /\ k.isRemoteReset
          /\ k.nextWriteFCB = TRUE /\ k.status = "RESET" /\ k.timer = l.timer /\ k.orphans = l.orphans
      BY <1>1 DEF Station, SameSend, SameReader
    <2> HIDE DEF k
    <2>3. /\ c \in Station /\ SameSend(k, c) /\ SameReader(k, c)
          /\ c.isRemoteReset = k.isRemoteReset /\ c.status = k.status
          /\ c.nextWriteFCB = k.nextWriteFCB
          /\ c.timer["response"] = "none" /\ c.orphans["response"] = k.orphans["response"]
      BY <2>2, CancelLine
    <2> HIDE DEF c
    <2>4. c.segments # <<>>
      BY <1>1, <2>2, <2>3 DEF SameSend
    <2>5. Moved(c, e, "ConfUserDataTransmitWait")
      BY <2>3, <2>4, QueueConfirmedMoves
    <2> HIDE DEF e, h
    <2>6. TryStartTransmission(h) = e
      BY <1>3, <2>1, <2>5, TryStartSteady DEF Moved
    <2>7. /\ e.timer["response"] = "none" /\ e.orphans["response"] = l.orphans["response"]
          /\ SameReader(l, e) /\ e.pPriState = "ConfUserDataTransmitWait" /\ e.isRemoteReset
          /\ e.nextWriteFCB = TRUE /\ e.status = "RESET"
      BY <2>2, <2>3, <2>5 DEF Moved, SameLine, SameReader
    <2> QED
      BY <1>2, <1>4, <2>6, <2>7
  <1>5. CASE l.pPriState = "ConfDataWait"
    <2> DEFINE k == [l EXCEPT !.nextWriteFCB = ~l.nextWriteFCB]
               c == Cancel(k, "response")
               a == [c EXCEPT !.segments = Tail(c.segments)]
               q == QueueConfirmed(a)
               o == CompleteSendOperation(a)
    <2>1. h = IF a.segments # <<>> THEN q ELSE o
      BY <1>5 DEF PriOnAck, AdvanceConfirmed, Advance
    <2>2. /\ k \in Station /\ SameSend(l, k) /\ SameReader(l, k)
          /\ k.isRemoteReset = l.isRemoteReset /\ k.status = l.status
          /\ k.nextWriteFCB = ~l.nextWriteFCB /\ k.timer = l.timer /\ k.orphans = l.orphans
      BY <1>1 DEF Station, SameSend, SameReader
    <2> HIDE DEF k
    <2>3. /\ c \in Station /\ SameSend(k, c) /\ SameReader(k, c)
          /\ c.isRemoteReset = k.isRemoteReset /\ c.status = k.status
          /\ c.nextWriteFCB = k.nextWriteFCB
          /\ c.timer["response"] = "none" /\ c.orphans["response"] = k.orphans["response"]
      BY <2>2, CancelLine
    <2> HIDE DEF c
    <2>4. a \in Station /\ SameLine(c, a) /\ SameReader(c, a)
      <3>1. c.segments \in Seq(Segment) /\ c.segments # <<>>
        BY <1>1, <2>2, <2>3 DEF Station, SameSend
      <3>2. Tail(c.segments) \in Seq(Segment)
        BY <3>1
      <3> QED
        BY <2>3, <3>2 DEF Station, SameLine, SameReader
    <2> HIDE DEF a
    <2>5. a.segments # <<>> => Moved(a, q, "ConfUserDataTransmitWait")
      BY <2>4, QueueConfirmedMoves
    <2>6. SameLine(a, o) /\ SameReader(a, o) /\ o.pPriState = "Idle" /\ ~o.pSegments
      BY <2>4, CompleteMoves
    <2> HIDE DEF q, o, h
    <2>7. /\ SameLine(a, h) /\ SameReader(a, h)
          /\ \/ h.pPriState = "ConfUserDataTransmitWait"
             \/ h.pPriState = "Idle" /\ ~h.pSegments
      BY <2>1, <2>5, <2>6 DEF Moved
    <2>8. TryStartTransmission(h) = h
      BY <1>3, <2>7, TryStartSteady
    <2>9. /\ h.timer["response"] = "none" /\ h.orphans["response"] = l.orphans["response"]
          /\ SameReader(l, h) /\ h.isRemoteReset = l.isRemoteReset /\ h.status = l.status
          /\ h.nextWriteFCB = ~l.nextWriteFCB
      BY <2>2, <2>3, <2>4, <2>7 DEF SameLine, SameReader
    <2> QED
      BY <1>2, <1>5, <2>7, <2>8, <2>9
  <1> QED
    BY <1>4, <1>5 DEF Waits

\* The station answers.
LEMMA RespondUnmoved ==
    ASSUME NEW l \in Station, NEW b \in BOOLEAN
    PROVE  LET a == Respond(l, "ACK", "TransmitWaitReset")
               d == [a EXCEPT !.nextReadFCB = b]
           IN  /\ SameSend(l, a) /\ SameLine(l, a) /\ a.pSecState = "TransmitWaitReset"
               /\ a.nextReadFCB = l.nextReadFCB
               /\ SameSend(l, d) /\ SameLine(l, d) /\ d.pSecState = "TransmitWaitReset"
               /\ d.nextReadFCB = b
  <1> DEFINE f == Plain("ACK")
             e == QueueTransmit(l, "Secondary", f)
             a == [e EXCEPT !.pSecState = "TransmitWaitReset"]
             d == [a EXCEPT !.nextReadFCB = b]
  <1>1. f \in Frame /\ "Secondary" \in Sides /\ "TransmitWaitReset" \in SecState
    BY PlainType DEF SecFunction, Sides, SecState, SecTransmitWait
  <1>2. Respond(l, "ACK", "TransmitWaitReset") = a
    BY DEF Respond
  <1> HIDE DEF f
  <1>3. e \in Station /\ Unmoved(l, e)
    BY <1>1, QueueTransmitUnmoved
  <1> HIDE DEF e
  <1>4. /\ a \in Station /\ SameSend(e, a) /\ SameLine(e, a) /\ a.pSecState = "TransmitWaitReset"
        /\ a.nextReadFCB = e.nextReadFCB
    BY <1>1, <1>3 DEF Station, SameSend, SameLine
  <1> HIDE DEF a
  <1>5. /\ SameSend(a, d) /\ SameLine(a, d) /\ d.pSecState = a.pSecState /\ d.nextReadFCB = b
    BY <1>4 DEF Station, SameSend, SameLine
  <1> HIDE DEF d
  <1>6. /\ SameSend(l, a) /\ SameLine(l, a) /\ a.pSecState = "TransmitWaitReset"
        /\ a.nextReadFCB = l.nextReadFCB
        /\ SameSend(l, d) /\ SameLine(l, d) /\ d.pSecState = "TransmitWaitReset"
        /\ d.nextReadFCB = b
    BY <1>3, <1>4, <1>5 DEF Unmoved, SameSend, SameLine, SameReader
  <1> QED
    BY <1>2, <1>6 DEF d

\* What the peer asks for arrives: the secondary station acknowledges a reset unless it is
\* still writing a response, and data once it was reset.
LEMMA RequestArrives ==
    ASSUME NEW l, NEW n, Speaks(l, n), LInv(l), Works(l), NEW f, Legible(f), ~IsAck(f)
    PROVE  LET d == OnFrame(l, f, <<>>)
           IN  /\ Steady(l, n, d, n)
               /\ IF (IF IsReset(f) THEN l.pSecState \in SecTransmitWait ELSE l.pSecState # "Reset")
                  THEN SameReader(l, d)
                  ELSE /\ d.pSecState = "TransmitWaitReset"
                       /\ d.nextReadFCB = IF IsReset(f) THEN TRUE
                                          ELSE IF f.flag = l.nextReadFCB THEN ~l.nextReadFCB
                                          ELSE l.nextReadFCB
  <1> DEFINE Deaf == IF IsReset(f) THEN l.pSecState \in SecTransmitWait ELSE l.pSecState # "Reset"
             c == IF IsReset(f) THEN TRUE
                  ELSE IF f.flag = l.nextReadFCB THEN ~l.nextReadFCB ELSE l.nextReadFCB
             a == Respond(l, "ACK", "TransmitWaitReset")
  <1>1. l \in Station /\ l.isOnline /\ l.nextReadFCB \in BOOLEAN /\ HasSegments(l)
    BY DEF LInv, Works, Alive, Station
  <1>2. ASSUME NEW h, OnFrame(l, f, <<>>) = TryStartTransmission(h), Speaks(h, n), HasSegments(h),
               SameSend(l, h), SameLine(l, h),
               IF Deaf THEN SameReader(l, h) ELSE h.pSecState = "TransmitWaitReset" /\ h.nextReadFCB = c
        PROVE  LET d == OnFrame(l, f, <<>>)
               IN  /\ Steady(l, n, d, n)
                   /\ IF Deaf THEN SameReader(l, d)
                      ELSE d.pSecState = "TransmitWaitReset" /\ d.nextReadFCB = c
    <2> DEFINE d == TryStartTransmission(h)
    <2>1. Steady(h, n, d, n) /\ SameReader(h, d)
      BY <1>2, TryStartSteady
    <2> HIDE DEF d, Deaf, c
    <2>2. Steady(l, n, d, n)
      BY <1>2, <2>1 DEF Steady, SameSend, SameLine, At
    <2>3. IF Deaf THEN SameReader(l, d) ELSE d.pSecState = "TransmitWaitReset" /\ d.nextReadFCB = c
      BY <1>2, <2>1 DEF SameReader
    <2> QED
      BY <1>2, <2>2, <2>3 DEF d
  <1>3. ASSUME NEW b \in BOOLEAN
        PROVE  LET d == [a EXCEPT !.nextReadFCB = b]
               IN  /\ Speaks(d, n) /\ HasSegments(d) /\ SameSend(l, d) /\ SameLine(l, d)
                   /\ d.pSecState = "TransmitWaitReset" /\ d.nextReadFCB = b
                   /\ Speaks(a, n) /\ HasSegments(a) /\ SameSend(l, a) /\ SameLine(l, a)
                   /\ a.pSecState = "TransmitWaitReset" /\ a.nextReadFCB = l.nextReadFCB
    <2>1. LInv(a)
      BY RespondEffect DEF SecFunction, SecState, SecTransmitWait
    <2>2. LInv([a EXCEPT !.nextReadFCB = b])
      BY <2>1, ReadFCBInv
    <2> QED
      BY <1>1, <2>1, <2>2, RespondGoesOn, RespondUnmoved DEF LInv, GoesOn
  <1> DEFINE b == ~a.nextReadFCB
             t == [a EXCEPT !.nextReadFCB = b]
             r == [a EXCEPT !.nextReadFCB = TRUE]
  <1>4. /\ Speaks(a, n) /\ HasSegments(a) /\ SameSend(l, a) /\ SameLine(l, a)
        /\ a.pSecState = "TransmitWaitReset" /\ a.nextReadFCB = l.nextReadFCB
    BY <1>3
  <1>5. b \in BOOLEAN /\ b = ~l.nextReadFCB /\ t = [a EXCEPT !.nextReadFCB = ~@]
    BY <1>1, <1>4
  <1>6. /\ Speaks(r, n) /\ HasSegments(r) /\ SameSend(l, r) /\ SameLine(l, r)
        /\ r.pSecState = "TransmitWaitReset" /\ r.nextReadFCB = TRUE
    BY <1>3
  <1>7. /\ Speaks(t, n) /\ HasSegments(t) /\ SameSend(l, t) /\ SameLine(l, t)
        /\ t.pSecState = "TransmitWaitReset" /\ t.nextReadFCB = ~l.nextReadFCB
    <2> HIDE DEF a, b
    <2> QED
      BY <1>3, <1>5
  <1>8. SameSend(l, l) /\ SameLine(l, l) /\ SameReader(l, l) /\ Speaks(l, n) /\ HasSegments(l)
    BY <1>1 DEF SameSend, SameLine, SameReader
  <1>9. CASE IsReset(f)
    <2> DEFINE h == SecOnResetLinkStates(l)
    <2>1. OnFrame(l, f, <<>>) = TryStartTransmission(h)
      BY <1>1, <1>9 DEF OnFrame, IsReset
    <2>2. h = IF Deaf THEN l ELSE r
      BY <1>9 DEF SecOnResetLinkStates
    <2>3. IF Deaf THEN SameReader(l, h) ELSE h.pSecState = "TransmitWaitReset" /\ h.nextReadFCB = c
      <3> HIDE DEF r, h
      <3> QED
        BY <1>6, <1>8, <1>9, <2>2
    <2>4. Speaks(h, n) /\ HasSegments(h) /\ SameSend(l, h) /\ SameLine(l, h)
      <3> HIDE DEF r, h, Deaf
      <3> QED
        BY <1>6, <1>8, <2>2
    <2> HIDE DEF h, a
    <2> QED
      BY <1>2, <2>1, <2>3, <2>4
  <1>10. CASE ~IsReset(f)
    <2> DEFINE h == SecOnConfirmedUserData(l, f, <<>>)
    <2>1. f.func = "CONFIRMED_USER_DATA"
      BY <1>10 DEF Legible, IsAck, IsReset
    <2>2. OnFrame(l, f, <<>>) = TryStartTransmission(h)
      BY <1>1, <2>1 DEF OnFrame
    <2>3. PushesDataUp(l, f) <=> l.pSecState = "Reset" /\ f.flag = l.nextReadFCB
      BY <1>1, <2>1 DEF PushesDataUp
    <2>4. BeginTransmit(t, <<>>) = t
      BY DEF BeginTransmit
    <2>5. h = IF Deaf THEN l ELSE IF f.flag = l.nextReadFCB THEN t ELSE a
      <3> HIDE DEF a
      <3>1. CASE l.pSecState # "Reset"
        BY <1>10, <3>1 DEF SecOnConfirmedUserData
      <3>2. CASE l.pSecState = "Reset" /\ f.flag # l.nextReadFCB
        BY <1>10, <2>3, <3>2 DEF SecOnConfirmedUserData, a
      <3>3. CASE l.pSecState = "Reset" /\ f.flag = l.nextReadFCB
        <4>1. h = BeginTransmit(t, <<>>)
          BY <1>5, <2>3, <3>3 DEF SecOnConfirmedUserData, a
        <4> HIDE DEF h, t
        <4> QED
          BY <1>10, <2>4, <3>3, <4>1
      <3> QED
        BY <3>1, <3>2, <3>3
    <2>6. IF Deaf THEN SameReader(l, h) ELSE h.pSecState = "TransmitWaitReset" /\ h.nextReadFCB = c
      <3> HIDE DEF a, t, h
      <3> QED
        BY <1>4, <1>7, <1>8, <1>10, <2>5
    <2>7. Speaks(h, n) /\ HasSegments(h) /\ SameSend(l, h) /\ SameLine(l, h)
      <3> HIDE DEF a, t, h, Deaf
      <3> QED
        BY <1>4, <1>7, <1>8, <2>5
    <2> HIDE DEF h, a
    <2> QED
      BY <1>2, <2>2, <2>6, <2>7
  <1> QED
    BY <1>9, <1>10

\* The callback of the response timer runs in time.
LEMMA FiredLine ==
    ASSUME NEW l \in Station, l.timer["response"] = "expired"
    PROVE  LET d == Fired(l, "response")
           IN  /\ d \in Station /\ SameSend(l, d) /\ SameReader(l, d)
               /\ d.isRemoteReset = l.isRemoteReset /\ d.status = l.status
               /\ d.nextWriteFCB = l.nextWriteFCB
               /\ d.timer["response"] = "none" /\ d.orphans["response"] = l.orphans["response"]
  <1> DEFINE x == [l.timer EXCEPT !["response"] = "none"]
             y == [l.orphans EXCEPT !["response"] = l.orphans["response"]]
             d == [l EXCEPT !.timer = x, !.orphans = y]
             c == Fired(l, "response")
  <1>1. "response" \in Timers /\ l.timer \in [Timers -> TimerStates] /\ l.orphans \in [Timers -> Nat]
    BY DEF Timers, Station
  <1>2. c = d
    BY DEF Fired
  <1>3. x["response"] = "none" /\ y["response"] = l.orphans["response"]
    BY <1>1
  <1>4. c \in Station /\ SameSend(l, c)
    BY <1>1, FiredEffect
  <1> HIDE DEF x, y, c
  <1>5. /\ SameReader(l, d) /\ d.isRemoteReset = l.isRemoteReset /\ d.status = l.status
        /\ d.nextWriteFCB = l.nextWriteFCB /\ d.timer = x /\ d.orphans = y
    BY DEF SameReader, Station
  <1> HIDE DEF d
  <1>6. /\ c \in Station /\ SameSend(l, c) /\ SameReader(l, c)
        /\ c.isRemoteReset = l.isRemoteReset /\ c.status = l.status
        /\ c.nextWriteFCB = l.nextWriteFCB
        /\ c.timer["response"] = "none" /\ c.orphans["response"] = l.orphans["response"]
    BY <1>2, <1>3, <1>4, <1>5
  <1> QED
    BY <1>6 DEF c

LEMMA TimedOut ==
    ASSUME NEW l, NEW n, Speaks(l, n), LInv(l), Waits(l), l.timer["response"] = "expired"
    PROVE  LET d == OnResponseTimeout(l)
           IN  /\ d.timer["response"] = "none" /\ d.orphans["response"] = l.orphans["response"]
               /\ d.isRemoteReset = l.isRemoteReset /\ d.nextWriteFCB = l.nextWriteFCB
               /\ SameReader(l, d)
               /\ \/ /\ l.pPriState = "ResetLinkWait" => d.pPriState = "LinkResetTransmitWait"
                     /\ l.pPriState = "ConfDataWait" => d.pPriState = "ConfUserDataTransmitWait"
                     /\ d.status = l.status /\ At(d, n) = At(l, n)
                  \/ /\ d.pPriState = "Idle"
                     /\ d.status = IF l.pPriState = "ConfDataWait" THEN "UNRESET" ELSE l.status
  <1> DEFINE d == Fired(l, "response")
             p == PriOnTimeout(d)
             x == d.numRetryRemaining - 1
             r == [d EXCEPT !.numRetryRemaining = x]
             u == [d EXCEPT !.status = "UNRESET"]
  <1>1. l \in Station /\ l.pSegments /\ l.segments # <<>>
    BY DEF LInv, HasSegments, Sending, Waits, UsesSegments
  <1>2. OnResponseTimeout(l) = TryStartTransmission(p)
    BY DEF OnResponseTimeout
  <1>3. /\ d \in Station /\ SameSend(l, d) /\ SameReader(l, d)
        /\ d.isRemoteReset = l.isRemoteReset /\ d.status = l.status
        /\ d.nextWriteFCB = l.nextWriteFCB
        /\ d.timer["response"] = "none" /\ d.orphans["response"] = l.orphans["response"]
    BY <1>1, FiredLine
  <1>4. Silent(l, d)
    BY <1>1, TimersSilent
  <1> HIDE DEF d
  <1>5. HasSegments(d) /\ Sending(d)
    BY <1>3 DEF SameSend, LInv, HasSegments, Sending
  <1>6. Speaks(p, n) /\ HasSegments(p)
    BY <1>3, <1>4, <1>5, SilentGoesOn, PriOnTimeoutGoesOn, PriOnTimeoutInv DEF GoesOn, LInv
  <1>7. d.pPriState = l.pPriState /\ d.pSegments = l.pSegments /\ d.segments = l.segments
    BY <1>3 DEF SameSend
  <1>8. u \in Station /\ SameSend(d, u) /\ SameReader(d, u) /\ u.status = "UNRESET"
        /\ u.isRemoteReset = d.isRemoteReset /\ u.nextWriteFCB = d.nextWriteFCB
        /\ u.timer = d.timer /\ u.orphans = d.orphans
    BY <1>3 DEF Station, SameSend, SameReader
  <1>9. d.numRetryRemaining > 0 => r \in Station /\ Unmoved(d, r)
    <2>1. d.numRetryRemaining > 0 => x \in 0..NumRetry
      BY <1>3, ConfigAssumption DEF Station
    <2> HIDE DEF x
    <2>2. Unmoved(d, r)
      BY <1>3, MinorUnmoved
    <2> QED
      BY <1>3, <2>1, <2>2 DEF Station
  <1>10. \/ /\ d.numRetryRemaining > 0
            /\ \/ l.pPriState = "ResetLinkWait" /\ p = QueueResetLinks(r)
               \/ l.pPriState = "ConfDataWait" /\ p = QueueConfirmed(r)
         \/ l.pPriState = "ResetLinkWait" /\ p = CompleteSendOperation(d)
         \/ l.pPriState = "ConfDataWait" /\ p = CompleteSendOperation(u)
    BY <1>7 DEF PriOnTimeout, Waits
  <1> HIDE DEF r, u, p
  <1>11. CASE /\ d.numRetryRemaining > 0
              /\ \/ l.pPriState = "ResetLinkWait" /\ p = QueueResetLinks(r)
                 \/ l.pPriState = "ConfDataWait" /\ p = QueueConfirmed(r)
    <2>1. r \in Station /\ Unmoved(d, r)
      BY <1>9, <1>11
    <2>2. r.segments # <<>>
      BY <1>1, <1>7, <2>1 DEF Unmoved, SameSend
    <2>3. \/ l.pPriState = "ResetLinkWait" /\ Moved(r, p, "LinkResetTransmitWait")
          \/ l.pPriState = "ConfDataWait" /\ Moved(r, p, "ConfUserDataTransmitWait")
      BY <1>11, <2>1, <2>2, QueueResetLinksMoves, QueueConfirmedMoves
    <2>4. TryStartTransmission(p) = p
      BY <1>6, <2>3, TryStartSteady DEF Moved
    <2>5. /\ SameLine(d, p) /\ SameReader(d, p) /\ p.pSegments = d.pSegments
          /\ p.segments = d.segments
      BY <2>1, <2>3 DEF Unmoved, Moved, SameSend, SameLine, SameReader
    <2>6. /\ p.timer["response"] = "none" /\ p.orphans["response"] = l.orphans["response"]
          /\ p.isRemoteReset = l.isRemoteReset /\ p.nextWriteFCB = l.nextWriteFCB
          /\ SameReader(l, p) /\ p.status = l.status /\ At(p, n) = At(l, n)
      BY <1>3, <1>7, <2>5 DEF SameLine, SameReader, At
    <2>7. /\ l.pPriState = "ResetLinkWait" => p.pPriState = "LinkResetTransmitWait"
          /\ l.pPriState = "ConfDataWait" => p.pPriState = "ConfUserDataTransmitWait"
      BY <2>3 DEF Moved
    <2> QED
      BY <1>2, <2>4, <2>6, <2>7
  <1>12. CASE \/ l.pPriState = "ResetLinkWait" /\ p = CompleteSendOperation(d)
              \/ l.pPriState = "ConfDataWait" /\ p = CompleteSendOperation(u)
    <2>1. /\ p.timer["response"] = "none" /\ p.orphans["response"] = l.orphans["response"]
          /\ p.isRemoteReset = l.isRemoteReset /\ p.nextWriteFCB = l.nextWriteFCB
          /\ SameReader(l, p) /\ p.pPriState = "Idle" /\ ~p.pSegments
          /\ p.status = IF l.pPriState = "ConfDataWait" THEN "UNRESET" ELSE l.status
      <3>1. CASE l.pPriState = "ResetLinkWait" /\ p = CompleteSendOperation(d)
        BY <1>3, <3>1, CompleteMoves DEF SameLine, SameReader
      <3>2. CASE l.pPriState = "ConfDataWait" /\ p = CompleteSendOperation(u)
        BY <1>3, <1>8, <3>2, CompleteMoves DEF SameLine, SameReader
      <3> QED
        BY <1>12, <3>1, <3>2
    <2>2. TryStartTransmission(p) = p
      BY <1>6, <2>1, TryStartSteady
    <2> QED
      BY <1>2, <2>1, <2>2
  <1> QED
    BY <1>10, <1>11, <1>12

\* The members of a station with a new channel
New(d) ==
    /\ d.pPriState = "Idle" /\ d.pSecState = "NotReset" /\ d.status = "UNRESET"
    /\ ~d.isRemoteReset /\ d.timer["response"] = "none" /\ d.orphans["response"] = 0

\* whose old link went down while no callback of its timer was queued.
LEMMA DownFields ==
    ASSUME NEW l, l \in Station
    PROVE  \E d : /\ OnLowerLayerDown(l) =
                       IF ~l.isOnline THEN l ELSE Cancel(Cancel(d, "response"), "keepAlive")
                  /\ d \in Station /\ ~d.isOnline /\ d.pPriState = "Idle"
                  /\ d.pSecState = "NotReset" /\ d.status = "UNRESET" /\ ~d.isRemoteReset
                  /\ d.timer = l.timer /\ d.orphans = l.orphans /\ d.enabled = l.enabled
  <1> DEFINE p == [s \in Sides |-> NoFrame]
             d == [l EXCEPT !.isOnline = FALSE, !.keepAliveTimeout = FALSE,
                            !.isRemoteReset = FALSE, !.pSegments = FALSE, !.txMode = "Idle",
                            !.pending = p, !.pPriState = "Idle",
                            !.pSecState = "NotReset", !.status = "UNRESET", !.isSending = FALSE]
  <1>1. p \in [Sides -> Frame \cup {NoFrame}]
    OBVIOUS
  <1>2. OnLowerLayerDown(l) =
          IF ~l.isOnline THEN l ELSE Cancel(Cancel(d, "response"), "keepAlive")
    BY DEF OnLowerLayerDown
  <1> HIDE DEF p
  <1>3. /\ d \in Station /\ ~d.isOnline /\ d.pPriState = "Idle" /\ d.pSecState = "NotReset"
        /\ d.status = "UNRESET" /\ ~d.isRemoteReset /\ d.timer = l.timer /\ d.orphans = l.orphans
        /\ d.enabled = l.enabled
    BY <1>1 DEF Station, PriState, SecState
  <1> HIDE DEF d
  <1> QED
    BY <1>2, <1>3

LEMMA DownNew ==
    ASSUME NEW l \in Station, l.isOnline, l.timer["response"] # "expired",
           l.orphans["response"] = 0
    PROVE  LET d == OnLowerLayerDown(l)
           IN  d \in Station /\ ~d.isOnline /\ d.enabled = l.enabled /\ New(d)
  <1>1. PICK d : /\ OnLowerLayerDown(l) = Cancel(Cancel(d, "response"), "keepAlive")
                 /\ d \in Station /\ ~d.isOnline /\ d.pPriState = "Idle"
                 /\ d.pSecState = "NotReset" /\ d.status = "UNRESET" /\ ~d.isRemoteReset
                 /\ d.timer = l.timer /\ d.orphans = l.orphans /\ d.enabled = l.enabled
    BY DownFields
  <1> DEFINE c == Cancel(d, "response")
             k == Cancel(c, "keepAlive")
             n == IF c.timer["keepAlive"] = "expired" THEN c.orphans["keepAlive"] + 1
                  ELSE c.orphans["keepAlive"]
             x == [c.timer EXCEPT !["keepAlive"] = "none"]
             y == [c.orphans EXCEPT !["keepAlive"] = n]
             g == [c EXCEPT !.timer = x, !.orphans = y]
  <1>2. OnLowerLayerDown(l) = k
    BY <1>1
  <1>3. c \in Station /\ New(c) /\ c.enabled = l.enabled
    BY <1>1, CancelLine, CancelFields DEF New, SameSend, SameReader
  <1>4. ~c.isOnline
    BY <1>1 DEF Cancel, Station
  <1> HIDE DEF c
  <1>5. k = g
    BY DEF Cancel
  <1>6. k \in Station
    BY <1>3, CancelEffect DEF Timers
  <1>7. /\ c.timer \in [Timers -> TimerStates] /\ c.orphans \in [Timers -> Nat]
        /\ "response" \in Timers /\ "keepAlive" # "response"
    BY <1>3 DEF Station, Timers
  <1> HIDE DEF n, k
  <1>8. x["response"] = c.timer["response"] /\ y["response"] = c.orphans["response"]
    BY <1>7
  <1> HIDE DEF x, y
  <1>9. /\ g.timer = x /\ g.orphans = y /\ g.isOnline = c.isOnline /\ g.enabled = c.enabled
         /\ g.pPriState = c.pPriState /\ g.pSecState = c.pSecState /\ g.status = c.status
         /\ g.isRemoteReset = c.isRemoteReset
    BY <1>3 DEF Station
  <1> HIDE DEF g
  <1>10. k \in Station /\ New(k) /\ ~k.isOnline /\ k.enabled = l.enabled
    BY <1>3, <1>4, <1>5, <1>6, <1>8, <1>9 DEF New
  <1> QED
    BY <1>2, <1>10

\* whose link was up, or is up for the first time.
LEMMA OpenedNew ==
    ASSUME NEW l \in Station, l.orphans["response"] = 0,
           \/ l.isOnline /\ l.channel /\ l.timer["response"] # "expired"
           \/ ~l.isOnline /\ ~l.channel /\ New(l)
    PROVE  New(Opened(l))
  <1> DEFINE e == [l EXCEPT !.enabled = TRUE]
             w == IF e.channel THEN OnLowerLayerDown(e) ELSE e
             r == [w EXCEPT !.channel = FALSE, !.txQueue = <<>>]
             o == [r EXCEPT !.channel = TRUE]
             u == [o EXCEPT !.isOnline = TRUE, !.status = "UNRESET"]
             s == Start(u, "keepAlive")
             z == [u.timer EXCEPT !["keepAlive"] = "running"]
             f == [u EXCEPT !.timer = z]
  <1>1. /\ e \in Station /\ e.isOnline = l.isOnline /\ e.channel = l.channel /\ e.timer = l.timer
        /\ e.orphans = l.orphans /\ (New(l) => New(e)) /\ e.enabled
    BY DEF Station, New
  <1>2. Opened(l) = OnNewChannel(e, <<>>)
    BY DEF Opened
  <1> HIDE DEF e
  <1>3. Reset(e) = r
    BY DEF Reset
  <1>4. w \in Station /\ ~w.isOnline /\ New(w) /\ w.enabled
    <2>1. CASE e.isOnline /\ e.channel /\ e.timer["response"] # "expired"
      BY <1>1, <2>1, DownNew
    <2>2. CASE ~e.isOnline /\ ~e.channel /\ New(e)
      BY <1>1, <2>2
    <2> QED
      BY <1>1, <2>1, <2>2
  <1> HIDE DEF w
  <1>5. <<>> \in Seq(Transmission)
    OBVIOUS
  <1>6. r \in Station /\ ~r.isOnline /\ New(r) /\ r.enabled
    BY <1>4, <1>5 DEF Station, New
  <1>7. OnNewChannel(e, <<>>) = IF o.enabled THEN OnLowerLayerUp(o, <<>>) ELSE o
    BY <1>1, <1>3, <1>6 DEF OnNewChannel, Station
  <1> HIDE DEF r
  <1>8. o \in Station /\ ~o.isOnline /\ New(o) /\ o.enabled
    BY <1>6 DEF Station, New
  <1> HIDE DEF o
  <1>9. OnLowerLayerUp(o, <<>>) = s
    BY <1>8 DEF OnLowerLayerUp, BeginTransmit
  <1>10. u \in Station /\ New(u)
    BY <1>8 DEF Station, New
  <1> HIDE DEF u
  <1>11. s = IF u.timer["keepAlive"] = "none" THEN f ELSE u
    BY DEF Start
  <1>12. z["response"] = u.timer["response"]
    <2>1. u.timer \in [Timers -> TimerStates] /\ "response" \in Timers /\ "keepAlive" # "response"
      BY <1>10 DEF Station, Timers
    <2> QED
      BY <2>1
  <1> HIDE DEF z
  <1>13. New(f)
    BY <1>10, <1>12 DEF Station, New
  <1> HIDE DEF f, s
  <1> QED
    BY <1>2, <1>7, <1>8, <1>9, <1>10, <1>11, <1>13

\* A timer that expires leaves the rest of the station alone.
LEMMA ExpiredLine ==
    ASSUME NEW l \in Station
    PROVE  LET d == Expired(l, "response")
           IN  /\ SameSend(l, d) /\ SameReader(l, d) /\ d.isRemoteReset = l.isRemoteReset
               /\ d.status = l.status /\ d.nextWriteFCB = l.nextWriteFCB
               /\ d.orphans = l.orphans
  BY DEF Expired, Station, SameSend, SameReader

-----------------------------------------------------------------------------
(***************************************************************************)
(* The exchanges of the pair.                                              *)
(***************************************************************************)

\* A station becomes d and the exchanges of both go on.
LEMMA ExchangeStep ==
    ASSUME PairInv, Exchanging, NEW s \in Stations, NEW d, NEW a, Becomes(s, d, a),
           Patient(d),
           Exchange(d, sent'[s], wire'[Peer(s)], wire'[s], station[Peer(s)].pSecState,
                    station[Peer(s)].nextReadFCB, received'[Peer(s)]),
           Exchange(station[Peer(s)], sent'[Peer(s)], wire'[s], wire'[Peer(s)], d.pSecState,
                    d.nextReadFCB, received'[s]),
           d.status = "RESET" => a \subseteq ToSet(received'[Peer(s)]),
           ToSet(received[s]) \subseteq ToSet(received'[s]),
           ToSet(received[Peer(s)]) \subseteq ToSet(received'[Peer(s)])
    PROVE  Exchanging'
  <1> DEFINE p == Peer(s)
  <1>1. p \in Stations /\ p # s /\ Peer(p) = s /\ \A r \in Stations : r = s \/ r = p
    BY Peers
  <1>2. DOMAIN station = Stations /\ DOMAIN acked = Stations /\ ExchangeInv(s) /\ ExchangeInv(p)
    BY <1>1 DEF PairInv, Exchanging
  <1> HIDE DEF p
  <1>3. station'[s] = d /\ station'[p] = station[p]
    BY <1>1, <1>2 DEF Becomes
  <1> DEFINE x == IF d.status = "RESET" THEN acked[s] \cup a ELSE {}
  <1>4. acked' = [acked EXCEPT ![s] = x]
    BY DEF Becomes
  <1>5. x \subseteq IF d.status = "RESET" THEN ToSet(received'[p]) ELSE {}
    <2>1. acked[s] \subseteq ToSet(received[p])
      BY <1>2 DEF ExchangeInv, p
    <2> QED
      BY <2>1 DEF p
  <1> HIDE DEF x
  <1>6. DOMAIN acked' = Stations /\ acked'[s] = x /\ acked'[p] = acked[p]
    BY <1>1, <1>2, <1>4
  <1>7. ExchangeInv(s)'
    BY <1>3, <1>5, <1>6 DEF ExchangeInv, p
  <1>8. ExchangeInv(p)'
    <2>1. acked[p] \subseteq IF station[p].status = "RESET" THEN ToSet(received'[s]) ELSE {}
      BY <1>1, <1>2 DEF ExchangeInv
    <2>2. Patient(station[p])
      BY <1>2 DEF ExchangeInv
    <2> QED
      BY <1>1, <1>3, <1>6, <2>1, <2>2 DEF ExchangeInv, p
  <1> QED
    BY <1>1, <1>6, <1>7, <1>8 DEF Exchanging

\* Nothing is written or received.
LEMMA SteadyStep ==
    ASSUME PairInv, Exchanging, NEW s \in Stations, NEW d, Becomes(s, d, {}),
           Steady(station[s], sent[s], d, sent'[s]), SameReader(station[s], d),
           sent'[Peer(s)] = sent[Peer(s)], UNCHANGED <<wire, received>>
    PROVE  Exchanging'
  <1>1. Peer(s) \in Stations /\ Peer(Peer(s)) = s
    BY Peers
  <1>2. ExchangeInv(s) /\ ExchangeInv(Peer(s))
    BY <1>1 DEF Exchanging
  <1>3. /\ Patient(d)
        /\ Exchange(d, sent'[s], wire[Peer(s)], wire[s], station[Peer(s)].pSecState,
                    station[Peer(s)].nextReadFCB, received[Peer(s)])
    BY <1>2, SteadyExchange DEF ExchangeInv
  <1>4. Exchange(station[Peer(s)], sent[Peer(s)], wire[s], wire[Peer(s)], d.pSecState,
                 d.nextReadFCB, received[s])
    BY <1>1, <1>2 DEF ExchangeInv, SameReader
  <1> QED
    BY <1>3, <1>4, ExchangeStep

LEMMA SendExchange ==
    ASSUME PairInv, Exchanging, NEW s \in Stations, Send(s)
    PROVE  Exchanging'
  <1>1. PICK n \in {1, 2} :
            /\ n <= left[s]
            /\ Becomes(s, BeginTransmit(station[s], [i \in 1..n |-> sent[s] + i]), {})
            /\ sent' = [sent EXCEPT ![s] = @ + n]
    BY DEF Send
  <1> DEFINE m == [i \in 1..n |-> sent[s] + i]
             d == BeginTransmit(station[s], m)
  <1>2. LInv(station[s]) /\ Works(station[s]) /\ Speaks(station[s], sent[s])
    BY DEF PairInv, StationInv
  <1>3. Follows(m, sent[s], n)
    BY <1>1, SendFollows
  <1> HIDE DEF m
  <1>4. ~station[s].isSending /\ UNCHANGED <<wire, received>>
    BY DEF Send
  <1>5. Steady(station[s], sent[s], d, sent[s] + n) /\ SameReader(station[s], d)
    BY <1>2, <1>3, <1>4, SendSteady
  <1>6. Becomes(s, d, {})
    BY <1>1 DEF m
  <1> HIDE DEF d
  <1>7. sent'[s] = sent[s] + n /\ sent'[Peer(s)] = sent[Peer(s)]
    BY <1>1, Peers DEF PairInv
  <1> QED
    BY <1>4, <1>5, <1>6, <1>7, SteadyStep

LEMMA RunCompletionExchange ==
    ASSUME PairInv, Exchanging, NEW s \in Stations, RunCompletion(s)
    PROVE  Exchanging'
  <1> DEFINE d == TransportOnTxReady(station[s], <<>>)
  <1>1. Speaks(station[s], sent[s])
    BY DEF PairInv, StationInv
  <1>2. Steady(station[s], sent[s], d, sent[s]) /\ SameReader(station[s], d)
    BY <1>1, CompletionSteady DEF RunCompletion
  <1>3. Becomes(s, d, {}) /\ UNCHANGED <<sent, wire, received>>
    BY DEF RunCompletion
  <1> HIDE DEF d
  <1> QED
    BY <1>2, <1>3, SteadyStep

LEMMA WriteExchange ==
    ASSUME PairInv, Exchanging, NEW s \in Stations, Write(s)
    PROVE  Exchanging'
  <1> DEFINE l == station[s]
             p == Peer(s)
             o == station[p]
             n == sent[s]
             f == l.txBuffer[Head(l.txQueue).side]
             d == OnWriteComplete(l)
             w == wire[p]
             v == wire[s]
             x == wire'[p]
  <1>1. p \in Stations /\ p # s /\ Peer(p) = s
    BY Peers
  <1>2. /\ LInv(l) /\ Works(l) /\ Speaks(l, n) /\ l.txQueue # <<>>
        /\ wire \in [Stations -> Seq(Frame)]
    BY DEF PairInv, StationInv, Write
  <1>3. /\ Patient(l) /\ Exchange(l, n, w, v, o.pSecState, o.nextReadFCB, received[p])
        /\ Exchange(o, sent[p], v, w, l.pSecState, l.nextReadFCB, received[s])
    BY <1>1 DEF Exchanging, ExchangeInv
  <1>4. /\ l.txMode \in Sides /\ Legible(f)
        /\ IsData(f) => Number(f) = At(l, n)
        /\ l.txMode = "Secondary" => IsAck(f)
        /\ l.txMode = "Primary" => IF l.pPriState = "LinkResetTransmitWait" THEN IsReset(f)
                                   ELSE IsData(f) /\ f.flag = l.nextWriteFCB
    BY <1>2, WrittenFrame
  <1>5. Becomes(s, d, {}) /\ UNCHANGED <<sent, received>>
    BY DEF Write
  <1>6. v \in Seq(Frame) /\ w \in Seq(Frame) /\ f \in Frame
    BY <1>1, <1>2, <1>4 DEF Legible
  <1>7. wire'[s] = v /\ (x = w \/ x = Append(w, f))
    BY <1>1, <1>2 DEF Write
  <1>8. CASE l.txMode = "Primary"
    <2>1. /\ l.pPriState \in {"LinkResetTransmitWait", "ConfUserDataTransmitWait"}
          /\ d.pPriState = IF l.pPriState = "LinkResetTransmitWait" THEN "ResetLinkWait"
                           ELSE "ConfDataWait"
          /\ d.isRemoteReset = l.isRemoteReset /\ d.status = l.status
          /\ d.nextWriteFCB = l.nextWriteFCB /\ At(d, n) = At(l, n)
          /\ d.timer["response"] = "running" /\ d.orphans["response"] = l.orphans["response"]
          /\ SameReader(l, d)
      BY <1>2, <1>3, <1>8, RequestWritten
    <2> HIDE DEF l, p, o, n, f, d, w, v, x
    <2>2. ~IsAck(f) /\ Asks(d, n, f)
      BY <1>4, <1>8, <2>1 DEF IsAck, IsReset, IsData, Asks
    <2>3. /\ Patient(d) /\ Exchange(d, n, w, v, o.pSecState, o.nextReadFCB, received[p])
          /\ Exchange(d, n, Append(w, f), v, o.pSecState, o.nextReadFCB, received[p])
      BY <1>3, <1>6, <2>1, <2>2, RequestExchange
    <2>4. Exchange(d, n, x, v, o.pSecState, o.nextReadFCB, received[p])
      BY <1>7, <2>3
    <2>5. Exchange(o, sent[p], v, Append(w, f), l.pSecState, l.nextReadFCB, received[s])
      BY <1>3, <1>6, <2>2, OtherExchange
    <2>6. Exchange(o, sent[p], v, x, d.pSecState, d.nextReadFCB, received[s])
      BY <1>3, <1>7, <2>1, <2>5 DEF SameReader
    <2> QED
      BY <1>5, <1>7, <2>3, <2>4, <2>6, ExchangeStep DEF p, n, o, x
  <1>9. CASE l.txMode = "Secondary"
    <2>1. /\ l.pSecState \in SecTransmitWait /\ Steady(l, n, d, n)
          /\ d.nextReadFCB = l.nextReadFCB
          /\ l.pSecState = "TransmitWaitReset" => d.pSecState = "Reset"
      BY <1>2, <1>9, AnswerWritten
    <2> HIDE DEF l, p, o, n, f, d, w, v, x
    <2>2. IsAck(f)
      BY <1>4, <1>9
    <2>3. Exchange(l, n, Append(w, f), v, o.pSecState, o.nextReadFCB, received[p])
      BY <1>3, <1>6, <2>2, OtherExchange
    <2>4. Exchange(l, n, x, v, o.pSecState, o.nextReadFCB, received[p])
      BY <1>3, <1>7, <2>3
    <2>5. Patient(d) /\ Exchange(d, n, x, v, o.pSecState, o.nextReadFCB, received[p])
      BY <1>3, <2>1, <2>4, SteadyExchange
    <2>6. /\ l.pSecState = "TransmitWaitReset"
          /\ Exchange(o, sent[p], v, w, "Reset", l.nextReadFCB, received[s])
          /\ Exchange(o, sent[p], v, Append(w, f), "Reset", l.nextReadFCB, received[s])
      BY <1>3, <1>6, <2>1, <2>2, AnswerExchange
    <2>7. Exchange(o, sent[p], v, x, d.pSecState, d.nextReadFCB, received[s])
      BY <1>7, <2>1, <2>6
    <2> QED
      BY <1>5, <1>7, <2>5, <2>7, ExchangeStep DEF p, n, o, x
  <1> QED
    BY <1>4, <1>8, <1>9 DEF Sides

LEMMA TimerExpiresExchange ==
    ASSUME PairInv, Exchanging, scenario.prompt, NEW s \in Stations, TimerExpires(s)
    PROVE  Exchanging'
  <1> DEFINE l == station[s]
             p == Peer(s)
             o == station[p]
             n == sent[s]
             d == Expired(l, "response")
             q == o.pSecState
             b == o.nextReadFCB
             r == received[p]
  <1>1. p \in Stations /\ p # s /\ Peer(p) = s
    BY Peers
  <1>2. l \in Station /\ Works(o)
    BY <1>1 DEF PairInv, StationInv, LInv
  <1>3. /\ Patient(l) /\ Exchange(l, n, wire[p], wire[s], q, b, r)
        /\ Exchange(o, sent[p], wire[s], wire[p], l.pSecState, l.nextReadFCB, received[s])
    BY <1>1 DEF Exchanging, ExchangeInv
  <1>4. /\ l.timer["response"] = "running" /\ wire[p] = <<>> /\ wire[s] = <<>> /\ o.txQueue = <<>>
        /\ Becomes(s, d, {}) /\ UNCHANGED <<wire, sent, received>>
    BY <1>1 DEF TimerExpires, ExchangeIsDead, Expired
  <1>5. q \notin SecTransmitWait
    <2>1. o.txMode = "Idle" /\ \A side \in Sides : o.pending[side] = NoFrame
      BY <1>2, <1>4 DEF Works, Wire
    <2>2. ~Has(o, "Secondary")
      BY <2>1 DEF Has, Sides
    <2> QED
      BY <1>2, <2>2 DEF Works, SecDue
  <1>6. /\ SameSend(l, d) /\ SameReader(l, d) /\ d.isRemoteReset = l.isRemoteReset
        /\ d.status = l.status /\ d.nextWriteFCB = l.nextWriteFCB
        /\ d.orphans = l.orphans
    BY <1>2, ExpiredLine
  <1> HIDE DEF d, l, o, p, n, q, b, r
  <1>7. Over(<<>>, <<>>, q)
    BY <1>5 DEF Over, NoRequest, NoAck
  <1>8. /\ d.pPriState = l.pPriState /\ At(d, n) = At(l, n)
    BY <1>6 DEF SameSend, At
  <1>9. Patient(d)
    BY <1>3, <1>4, <1>6, <1>8 DEF Patient, Waits
  <1>10. Exchange(d, n, wire[p], wire[s], q, b, r)
    <2>1. InStep(d, n, q, b, r)
      BY <1>3, <1>6, <1>8 DEF Exchange, InStep, Carries
    <2>2. AtMostOne(<<>>, <<>>, q) /\ NoAck(<<>>)
      BY <1>3, <1>4 DEF Exchange, NoAck
    <2> QED
      BY <1>4, <1>5, <1>7, <2>1, <2>2 DEF Exchange
  <1>11. Exchange(o, sent[p], wire[s], wire[p], d.pSecState, d.nextReadFCB, received[s])
    BY <1>3, <1>6 DEF SameReader
  <1> QED
    BY <1>4, <1>9, <1>10, <1>11, ExchangeStep DEF p, o, n, q, b, r

LEMMA ResponseTimeoutExchange ==
    ASSUME PairInv, Exchanging, NEW s \in Stations, ResponseTimeout(s)
    PROVE  Exchanging'
  <1> DEFINE l == station[s]
             p == Peer(s)
             o == station[p]
             n == sent[s]
             d == OnResponseTimeout(l)
             q == o.pSecState
             b == o.nextReadFCB
             r == received[p]
  <1>1. p \in Stations /\ p # s /\ Peer(p) = s
    BY Peers
  <1>2. LInv(l) /\ Speaks(l, n)
    BY DEF PairInv, StationInv
  <1>3. /\ Patient(l) /\ Exchange(l, n, wire[p], wire[s], q, b, r)
        /\ Exchange(o, sent[p], wire[s], wire[p], l.pSecState, l.nextReadFCB, received[s])
    BY <1>1 DEF Exchanging, ExchangeInv
  <1>4. Becomes(s, d, {}) /\ UNCHANGED <<wire, sent, received>>
    BY DEF ResponseTimeout
  <1>5. l.timer["response"] = "expired" /\ Waits(l)
    BY <1>3 DEF ResponseTimeout, Patient
  <1>6. /\ d.timer["response"] = "none" /\ d.orphans["response"] = l.orphans["response"]
        /\ d.isRemoteReset = l.isRemoteReset /\ d.nextWriteFCB = l.nextWriteFCB
        /\ SameReader(l, d)
        /\ \/ /\ l.pPriState = "ResetLinkWait" => d.pPriState = "LinkResetTransmitWait"
              /\ l.pPriState = "ConfDataWait" => d.pPriState = "ConfUserDataTransmitWait"
              /\ d.status = l.status /\ At(d, n) = At(l, n)
           \/ /\ d.pPriState = "Idle"
              /\ d.status = IF l.pPriState = "ConfDataWait" THEN "UNRESET" ELSE l.status
    BY <1>2, <1>5, TimedOut
  <1> HIDE DEF d, l, o, p, n, q, b, r
  <1>7. Patient(d) /\ Exchange(d, n, wire[p], wire[s], q, b, r)
    BY <1>3, <1>5, <1>6, TimeoutExchange
  <1>8. Exchange(o, sent[p], wire[s], wire[p], d.pSecState, d.nextReadFCB, received[s])
    BY <1>3, <1>6 DEF SameReader
  <1> QED
    BY <1>4, <1>7, <1>8, ExchangeStep DEF p, o, n, q, b, r

\* An acknowledgement arrives.
LEMMA AckExchanged ==
    ASSUME PairInv, Exchanging, NEW s \in Stations, Receive(s), IsAck(Head(wire[s]))
    PROVE  Exchanging'
  <1> DEFINE l == station[s]
             p == Peer(s)
             o == station[p]
             n == sent[s]
             v == wire[s]
             w == wire[p]
             f == Head(v)
             d == OnFrame(l, f, <<>>)
             a == IF l.pPriState = "ConfDataWait" THEN {Head(l.segments)} ELSE {}
             q == o.pSecState
             b == o.nextReadFCB
             r == received[p]
  <1>1. p \in Stations /\ p # s /\ Peer(p) = s
    BY Peers
  <1>2. /\ LInv(l) /\ Works(l) /\ Speaks(l, n) /\ Speaks(o, sent[p])
        /\ wire \in [Stations -> Seq(Frame)] /\ v # <<>>
    BY <1>1 DEF PairInv, StationInv, Receive
  <1>3. /\ Patient(l) /\ Exchange(l, n, w, v, q, b, r)
        /\ Exchange(o, sent[p], v, w, l.pSecState, l.nextReadFCB, received[s])
    BY <1>1 DEF Exchanging, ExchangeInv
  <1>4. v \in Seq(Frame) /\ w \in Seq(Frame) /\ b \in BOOLEAN /\ l.nextWriteFCB \in BOOLEAN
    BY <1>1, <1>2 DEF Speaks, Station
  <1>5. 1 \in 1..Len(v) /\ f = v[1]
    BY <1>2, <1>4
  <1>6. ~PushesDataUp(l, f)
    BY DEF PushesDataUp, IsAck
  <1>7. /\ Becomes(s, d, a) /\ wire' = [wire EXCEPT ![s] = Tail(v)]
        /\ received' = received /\ sent' = sent
    BY <1>6 DEF Receive, IsAck
  <1>8. wire'[s] = Tail(v) /\ wire'[p] = w
    BY <1>1, <1>2, <1>7
  <1>9. IsAck(f)
    OBVIOUS
  <1>10. Waits(l) /\ l.timer["response"] # "expired"
    <2>1. ~NoAck(v)
      BY <1>5, <1>9 DEF NoAck
    <2> QED
      BY <1>3, <2>1 DEF Exchange, Over
  <1>11. /\ d.timer["response"] = "none" /\ d.orphans["response"] = l.orphans["response"]
         /\ SameReader(l, d)
         /\ l.pPriState = "ResetLinkWait" =>
              /\ d.pPriState = "ConfUserDataTransmitWait" /\ d.isRemoteReset
              /\ d.nextWriteFCB = TRUE /\ d.status = "RESET"
         /\ l.pPriState = "ConfDataWait" =>
              /\ d.pPriState \in {"ConfUserDataTransmitWait", "Idle"}
              /\ d.isRemoteReset = l.isRemoteReset /\ d.status = l.status
              /\ d.nextWriteFCB = ~l.nextWriteFCB
    BY <1>2, <1>9, <1>10, AckArrives
  <1>12. l.pPriState = "ConfDataWait" => Head(l.segments) = At(l, n)
    <2>1. l.pPriState = "ConfDataWait" => l.pSegments /\ l.segments # <<>>
      BY <1>2 DEF LInv, Sending, HasSegments, UsesSegments
    <2> QED
      BY <1>2, <2>1, HeadAt
  <1> HIDE DEF l, p, o, n, v, w, f, d, q, b, r
  <1>13. IsAck(v[1])
    BY <1>5, <1>9
  <1>14. /\ Patient(d) /\ Exchange(d, n, w, Tail(v), q, b, r)
         /\ l.pPriState = "ConfDataWait" /\ l.status = "RESET" => At(l, n) \in ToSet(r)
    BY <1>2, <1>3, <1>4, <1>11, <1>13, AckExchange
  <1>15. Exchange(o, sent[p], Tail(v), w, d.pSecState, d.nextReadFCB, received[s])
    BY <1>2, <1>3, <1>4, <1>11, TailExchange DEF SameReader
  <1>16. d.status = "RESET" => a \subseteq ToSet(r)
    BY <1>11, <1>12, <1>14
  <1> HIDE DEF a
  <1> QED
    BY <1>7, <1>8, <1>14, <1>15, <1>16, ExchangeStep DEF p, o, n, q, b, r

\* The segment of a legible frame is one number.
LEMMA LegibleData ==
    ASSUME NEW f, Legible(f), IsData(f), NEW r, r \in Seq(Nat)
    PROVE  r \o f.data = Append(r, Number(f))
  <1> DEFINE k == Number(f)
             g == f.data
  <1>1. k \in Nat /\ g = <<k>>
    BY DEF Legible
  <1> HIDE DEF k, g
  <1>2. r \o <<k>> = Append(r, k)
    BY <1>1
  <1> QED
    BY <1>1, <1>2 DEF k, g

\* A frame of the peer's primary station arrives.
LEMMA RequestExchanged ==
    ASSUME PairInv, Exchanging, NEW s \in Stations, Receive(s), ~IsAck(Head(wire[s]))
    PROVE  Exchanging'
  <1> DEFINE l == station[s]
             p == Peer(s)
             o == station[p]
             n == sent[s]
             v == wire[s]
             w == wire[p]
             f == Head(v)
             d == OnFrame(l, f, <<>>)
             q == o.pSecState
             b == o.nextReadFCB
             r == received[p]
             e == IF l.pSecState = "Reset" /\ IsData(f) /\ f.flag = l.nextReadFCB
                  THEN Append(received[s], Number(f)) ELSE received[s]
  <1>1. p \in Stations /\ p # s /\ Peer(p) = s
    BY Peers
  <1>2. /\ LInv(l) /\ Works(l) /\ Speaks(l, n) /\ Speaks(o, sent[p])
        /\ wire \in [Stations -> Seq(Frame)] /\ received \in [Stations -> Seq(Nat)] /\ v # <<>>
    BY <1>1 DEF PairInv, StationInv, Receive
  <1>3. /\ Patient(l) /\ Exchange(l, n, w, v, q, b, r) /\ Patient(o)
        /\ Exchange(o, sent[p], v, w, l.pSecState, l.nextReadFCB, received[s])
    BY <1>1 DEF Exchanging, ExchangeInv
  <1>4. /\ v \in Seq(Frame) /\ w \in Seq(Frame) /\ l.nextReadFCB \in BOOLEAN
        /\ o.nextWriteFCB \in BOOLEAN /\ l.isOnline /\ received[s] \in Seq(Nat)
    BY <1>1, <1>2 DEF Speaks, Station, Works, Alive
  <1>5. 1 \in 1..Len(v) /\ f = v[1]
    BY <1>2, <1>4
  <1>6. Legible(f)
    <2>1. DirectionInv(p)
      BY <1>1 DEF PairInv
    <2> QED
      BY <1>1, <1>5, <2>1 DEF DirectionInv, Direction
  <1>7. PushesDataUp(l, f) <=> l.pSecState = "Reset" /\ IsData(f) /\ f.flag = l.nextReadFCB
    BY <1>4, <1>6 DEF PushesDataUp, Legible, IsData
  <1>8. /\ Becomes(s, d, {}) /\ wire' = [wire EXCEPT ![s] = Tail(v)] /\ sent' = sent
        /\ received' = IF PushesDataUp(l, f) THEN [received EXCEPT ![s] = @ \o f.data] ELSE received
    BY DEF Receive, IsAck
  <1>9. wire'[s] = Tail(v) /\ wire'[p] = w
    BY <1>1, <1>2, <1>8
  <1>10. ~IsAck(f)
    OBVIOUS
  <1>11. received'[s] = e /\ received'[p] = r
    <2>1. IsData(f) => received[s] \o f.data = Append(received[s], Number(f))
      BY <1>4, <1>6, LegibleData
    <2> HIDE DEF f, l, p
    <2>2. CASE PushesDataUp(l, f)
      BY <1>1, <1>2, <1>7, <1>8, <2>1, <2>2
    <2>3. CASE ~PushesDataUp(l, f)
      BY <1>7, <1>8, <2>3
    <2> QED
      BY <2>2, <2>3
  <1>12. /\ Steady(l, n, d, n)
         /\ IF (IF IsReset(f) THEN l.pSecState \in SecTransmitWait ELSE l.pSecState # "Reset")
            THEN SameReader(l, d)
            ELSE /\ d.pSecState = "TransmitWaitReset"
                 /\ d.nextReadFCB = IF IsReset(f) THEN TRUE
                                    ELSE IF f.flag = l.nextReadFCB THEN ~l.nextReadFCB
                                    ELSE l.nextReadFCB
    BY <1>2, <1>6, <1>10, RequestArrives
  <1>13. l.pSecState \notin SecTransmitWait
    <2>1. ~NoRequest(v)
      BY <1>5, <1>10 DEF NoRequest
    <2> QED
      BY <1>3, <2>1 DEF Exchange, AtMostOne
  <1> HIDE DEF l, p, o, n, v, w, f, d, q, b, r
  <1>14. Patient(d) /\ Exchange(d, n, w, Tail(v), q, b, r)
    <2>1. Exchange(l, n, w, Tail(v), q, b, r)
      BY <1>2, <1>3, <1>4, TailExchange
    <2> QED
      BY <1>3, <1>12, <2>1, SteadyExchange
  <1>15. Takes(f, l.pSecState, l.nextReadFCB, received[s], d.pSecState, d.nextReadFCB, e)
    BY <1>12, <1>13 DEF IsReset, IsData, SameReader, Takes
  <1>16. ToSet(received[s]) \subseteq ToSet(e)
    <2>1. IsData(f) => Number(f) \in Nat
      BY <1>6 DEF Legible
    <2> QED
      BY <1>4, <2>1, AppendReceived
  <1> HIDE DEF e
  <1>17. Exchange(o, sent[p], Tail(v), w, d.pSecState, d.nextReadFCB, e)
    <2>1. v # <<>> /\ ~IsAck(v[1]) /\ Legible(v[1])
      BY <1>2, <1>5, <1>6, <1>10
    <2>2. Takes(v[1], l.pSecState, l.nextReadFCB, received[s], d.pSecState, d.nextReadFCB, e)
      BY <1>5, <1>15
    <2> QED
      BY <1>3, <1>4, <2>1, <2>2, ArrivalExchange
  <1> QED
    BY <1>8, <1>9, <1>11, <1>14, <1>16, <1>17, ExchangeStep DEF p, o, n, q, b, r

\* Both ends are new and nothing is under way.
LEMMA AnewExchange ==
    ASSUME NEW d, New(d), NEW o, New(o), NEW n, NEW r
    PROVE  /\ Patient(d) /\ Exchange(d, n, <<>>, <<>>, o.pSecState, o.nextReadFCB, r)
           /\ d.status = "UNRESET"
  BY NewExchange DEF New

\* Both channels are closed and opened again.
LEMMA OutageExchange ==
    ASSUME PairInv, Exchanging, scenario.prompt, scenario.broken \subseteq {Stations}, Outage
    PROVE  Exchanging'
  <1>1. /\ \A s \in Stations : station[s].timer["response"] # "expired"
        /\ station' = [s \in Stations |-> Opened(station[s])]
        /\ wire' = [s \in Stations |-> <<>>]
        /\ acked' = [s \in Stations |-> {}]
    BY DEF Outage
  <1>2. ASSUME NEW s \in Stations
        PROVE  New(Opened(station[s]))
    <2> DEFINE l == station[s]
    <2>1. l \in Station /\ l.isOnline /\ l.channel
      BY DEF PairInv, StationInv, Works, Alive, Speaks
    <2>2. l.orphans["response"] = 0
      BY DEF Exchanging, ExchangeInv, Patient
    <2>3. l.timer["response"] # "expired"
      BY <1>1
    <2> HIDE DEF l
    <2>4. New(Opened(l))
      BY <2>1, <2>2, <2>3, OpenedNew
    <2> QED
      BY <2>4 DEF l
  <1>3. /\ DOMAIN acked' = Stations
        /\ \A s \in Stations : New(station'[s]) /\ wire'[s] = <<>> /\ acked'[s] = {}
    BY <1>1, <1>2
  <1>4. ASSUME NEW s \in Stations
        PROVE  ExchangeInv(s)'
    <2>1. Peer(s) \in Stations
      BY Peers
    <2>2. New(station'[s]) /\ New(station'[Peer(s)])
      BY <1>3, <2>1
    <2>3. wire'[s] = <<>> /\ wire'[Peer(s)] = <<>> /\ acked'[s] = {}
      BY <1>3, <2>1
    <2> QED
      BY <2>2, <2>3, AnewExchange DEF ExchangeInv
  <1> QED
    BY <1>3, <1>4 DEF Exchanging

LEMMA InitExchange ==
    ASSUME Init
    PROVE  Exchanging
  <1> DEFINE l == InitialStation(TRUE)
  <1>1. l \in Station /\ ~l.isOnline /\ ~l.channel /\ l.orphans["response"] = 0 /\ New(l)
    <2>1. l \in Station
      BY InitialStationInv DEF LInv
    <2>2. ~l.isOnline /\ ~l.channel /\ l.orphans["response"] = 0 /\ New(l)
      BY DEF InitialStation, New, Timers
    <2> QED
      BY <2>1, <2>2
  <1>2. /\ station = [s \in Stations |-> Opened(l)] /\ wire = [s \in Stations |-> <<>>]
        /\ acked = [s \in Stations |-> {}]
    BY DEF Init
  <1> HIDE DEF l
  <1>3. New(Opened(l))
    BY <1>1, OpenedNew
  <1>4. ASSUME NEW s \in Stations
        PROVE  ExchangeInv(s)
    <2>1. Peer(s) \in Stations
      BY Peers
    <2>2. New(station[s]) /\ New(station[Peer(s)])
      BY <1>2, <1>3, <2>1
    <2>3. wire[s] = <<>> /\ wire[Peer(s)] = <<>> /\ acked[s] = {}
      BY <1>2, <2>1
    <2> QED
      BY <2>2, <2>3, AnewExchange DEF ExchangeInv
  <1> QED
    BY <1>2, <1>4 DEF Exchanging

LEMMA NextExchange ==
    ASSUME PairInv, Exchanging, scenario.prompt, scenario.broken \subseteq {Stations},
           [Next]_vars
    PROVE  Exchanging'
  <1>1. ASSUME NEW s \in Stations, Receive(s)
        PROVE  Exchanging'
    BY <1>1, AckExchanged, RequestExchanged
  <1>2. ASSUME NEW s \in Stations,
               \/ Send(s) \/ RunCompletion(s) \/ Write(s) \/ Receive(s) \/ TimerExpires(s)
               \/ ResponseTimeout(s)
        PROVE  Exchanging'
    BY <1>1, <1>2, SendExchange, RunCompletionExchange, WriteExchange, TimerExpiresExchange,
       ResponseTimeoutExchange
  <1>3. CASE Outage
    BY <1>3, OutageExchange
  <1>4. CASE UNCHANGED vars
    BY <1>4 DEF vars, Exchanging, ExchangeInv
  <1> QED
    BY <1>2, <1>3, <1>4 DEF Next

\* The scenario never changes.
LEMMA SameScenario ==
    ASSUME [Next]_vars
    PROVE  scenario' = scenario
  BY DEF Next, Send, RunCompletion, Write, Receive, TimerExpires, ResponseTimeout, Outage, vars

\* PLLS_ConfDataWait::OnAck completes a segment on any ACK: an acknowledgement bears no
\* number. Where a response timer expires only when no answer can come any more, and an
\* outage breaks both ends of the connection, the ACK that the sender takes is the answer
\* to the segment it is at: whatever was acknowledged while the link is reported RESET has
\* been passed up at the peer, also when frames are lost and links go down.
THEOREM AcknowledgedIsReceived ==
    ASSUME \A c \in Scenarios : c.prompt => c.broken \subseteq {Stations}
    PROVE  Spec => []AckedIsReceived
  <1> DEFINE J == PairInv /\ PromptInv
  <1>1. Init => J
    BY InitPair, InitExchange DEF PromptInv
  <1>2. ASSUME J, [Next]_vars
        PROVE  J'
    <2>1. PairInv' /\ scenario' = scenario
      BY <1>2, NextPair, SameScenario
    <2>2. CASE scenario.prompt
      <3>1. Exchanging /\ scenario.broken \subseteq {Stations}
        BY <1>2, <2>2 DEF PromptInv, PairInv
      <3>2. Exchanging'
        BY <1>2, <2>2, <3>1, NextExchange
      <3> QED
        BY <2>1, <3>2 DEF PromptInv
    <2>3. CASE ~scenario.prompt
      BY <2>1, <2>3 DEF PromptInv
    <2> QED
      BY <2>2, <2>3
  <1>3. J => AckedIsReceived
    BY DEF PromptInv, Exchanging, ExchangeInv, AckedIsReceived
  <1>4. J /\ [Next]_vars => J'
    BY <1>2
  <1> QED
    BY <1>1, <1>3, <1>4, PTL DEF Spec
=============================================================================
