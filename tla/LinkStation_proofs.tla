------------------------- MODULE LinkStation_proofs -------------------------
(***************************************************************************)
(* What the handlers of a link station keep, for any peer, configuration,  *)
(* number of retries and late callbacks: one lemma per handler says that   *)
(* it leaves a station of the invariant, or what it leaves alone.  LInv    *)
(* holds whatever is late or shared; DInv tells a station whose link is up *)
(* (Works) from one whose link is down (Asleep).  LinkLayer_proofs and     *)
(* LinkPair_proofs use the same lemmas.                                    *)
(***************************************************************************)
EXTENDS LinkStation, TLAPS

\* A send in progress has a segment to send.
HasSegments(l) == l.pSegments => l.segments # <<>>

\* The states of a send occur only during one.
Sending(l) == l.pPriState \in UsesSegments => l.pSegments

\* A wait for the peer has a timer.
Timed(l) == l.pPriState \in PriResponseWait => l.timer["response"] # "none"

\* The inductive invariant, on a station.
LInv(l) == l \in Station /\ HasSegments(l) /\ Sending(l) /\ Timed(l)

\* The members of the station that the invariant speaks of.
SameSend(l, m) ==
    m.pPriState = l.pPriState /\ m.pSegments = l.pSegments /\ m.segments = l.segments
SamePri(l, m) == SameSend(l, m) /\ m.timer = l.timer

\* A handler that leaves them alone keeps the invariant.
LEMMA SameInv ==
    ASSUME NEW l, LInv(l), NEW m \in Station, SamePri(l, m)
    PROVE  LInv(m)
  BY DEF LInv, HasSegments, Sending, Timed, SamePri, SameSend

-----------------------------------------------------------------------------
(***************************************************************************)
(* Frames, timers, transmit queue.                                         *)
(***************************************************************************)

\* A frame without user data.
LEMMA PlainType ==
    ASSUME NEW f \in SecFunction \cup PriFunction
    PROVE  Plain(f) \in Frame
  BY DEF Plain, Frame

\* A frame with one segment of user data.
LEMMA UserDataType ==
    ASSUME NEW f \in PriFunction, NEW b \in BOOLEAN, NEW s \in Segment
    PROVE  UserData(f, b, s) \in Frame
  <1>1. <<s>> \in Seq(Segment)
    OBVIOUS
  <1> QED
    BY <1>1 DEF UserData, Frame

\* TimerRef::Start leaves a referenced timer and touches nothing else.
LEMMA StartEffect ==
    ASSUME NEW l \in Station, NEW t \in Timers
    PROVE  LET d == Start(l, t)
           IN  /\ d \in Station /\ SameSend(l, d) /\ d.timer[t] # "none"
               /\ \A u \in Timers : u # t => d.timer[u] = l.timer[u]
  <1>1. l.timer \in [Timers -> TimerStates]
    BY DEF Station
  <1>2. CASE l.timer[t] = "none"
    <2> DEFINE x == [l.timer EXCEPT ![t] = "running"]
               d == [l EXCEPT !.timer = x]
    <2>1. /\ x \in [Timers -> TimerStates] /\ x[t] = "running"
          /\ \A u \in Timers : u # t => x[u] = l.timer[u]
      BY <1>1 DEF TimerStates
    <2>2. Start(l, t) = d
      BY <1>2 DEF Start
    <2> HIDE DEF x
    <2>3. d \in Station /\ SameSend(l, d) /\ d.timer = x
      BY <2>1 DEF Station, SameSend
    <2> QED
      BY <2>1, <2>2, <2>3
  <1>3. CASE l.timer[t] # "none"
    BY <1>3 DEF Start, SameSend
  <1> QED
    BY <1>2, <1>3

\* Setting a timer's state and the number of late callbacks.
LEMMA TimerFields ==
    ASSUME NEW l \in Station, NEW t \in Timers, NEW n \in Nat
    PROVE  LET d == [l EXCEPT !.timer[t] = "none", !.orphans[t] = n]
           IN  d \in Station /\ SameSend(l, d)
               /\ \A u \in Timers : u # t => d.timer[u] = l.timer[u]
  <1> DEFINE x == [l.timer EXCEPT ![t] = "none"]
             y == [l.orphans EXCEPT ![t] = n]
             d == [l EXCEPT !.timer = x, !.orphans = y]
  <1>1. l.timer \in [Timers -> TimerStates] /\ l.orphans \in [Timers -> Nat]
    BY DEF Station
  <1>2. /\ x \in [Timers -> TimerStates] /\ y \in [Timers -> Nat]
        /\ \A u \in Timers : u # t => x[u] = l.timer[u]
    BY <1>1 DEF TimerStates
  <1>3. [l EXCEPT !.timer[t] = "none", !.orphans[t] = n] = d
    OBVIOUS
  <1> HIDE DEF x, y
  <1>4. d \in Station /\ SameSend(l, d) /\ d.timer = x
    BY <1>2 DEF Station, SameSend
  <1> QED
    BY <1>2, <1>3, <1>4

\* TimerRef::Cancel touches nothing but its timer.
LEMMA CancelEffect ==
    ASSUME NEW l \in Station, NEW t \in Timers
    PROVE  LET d == Cancel(l, t)
           IN  d \in Station /\ SameSend(l, d)
  <1> DEFINE n == IF l.timer[t] = "expired" THEN l.orphans[t] + 1 ELSE l.orphans[t]
  <1>1. l.orphans[t] \in Nat
    BY DEF Station
  <1>2. n \in Nat
    BY <1>1
  <1> DEFINE d == [l EXCEPT !.timer[t] = "none", !.orphans[t] = n]
  <1>3. Cancel(l, t) = d
    BY DEF Cancel
  <1> HIDE DEF n
  <1>4. /\ d \in Station /\ SameSend(l, d)
    BY <1>2, TimerFields
  <1> HIDE DEF d
  <1> QED
    BY <1>3, <1>4

\* The callback of a timer, late or not, drops the reference.
LEMMA FiredEffect ==
    ASSUME NEW l \in Station, NEW t \in Timers,
           l.timer[t] = "expired" \/ l.orphans[t] > 0
    PROVE  LET d == Fired(l, t)
           IN  d \in Station /\ SameSend(l, d)
               /\ \A u \in Timers : u # t => d.timer[u] = l.timer[u]
  <1> DEFINE n == IF l.timer[t] = "none" THEN l.orphans[t] - 1 ELSE l.orphans[t]
  <1>1. l.orphans[t] \in Nat
    BY DEF Station
  <1>2. n \in Nat
    BY <1>1
  <1> DEFINE d == [l EXCEPT !.timer[t] = "none", !.orphans[t] = n]
  <1>3. Fired(l, t) = d
    BY DEF Fired
  <1> HIDE DEF n
  <1>4. /\ d \in Station /\ SameSend(l, d)
        /\ \A u \in Timers : u # t => d.timer[u] = l.timer[u]
    BY <1>2, TimerFields
  <1> HIDE DEF d
  <1> QED
    BY <1>3, <1>4

\* IOHandler::BeginTransmit queues a frame.
LEMMA BeginWriteEffect ==
    ASSUME NEW l \in Station, NEW side \in Sides, NEW f \in Frame
    PROVE  LET d == BeginWrite(l, side, f)
           IN  d \in Station /\ SamePri(l, d) /\ d.pending = l.pending
  <1> DEFINE q == Append(l.txQueue, [side |-> side, frame |-> f])
  <1>1. q \in Seq(Transmission)
    <2>1. l.txQueue \in Seq(Transmission) /\ [side |-> side, frame |-> f] \in Transmission
      BY DEF Station, Transmission
    <2> QED
      BY <2>1
  <1>2. side \in {"Idle"} \cup Sides
    OBVIOUS
  <1> HIDE DEF q
  <1>3. LET d == [l EXCEPT !.txMode = side, !.txQueue = q]
        IN  d \in Station /\ SamePri(l, d) /\ d.pending = l.pending
    BY <1>1, <1>2 DEF Station, SamePri, SameSend
  <1>4. LET d == [l EXCEPT !.txMode = side]
        IN  d \in Station /\ SamePri(l, d) /\ d.pending = l.pending
    BY <1>2 DEF Station, SamePri, SameSend
  <1> QED
    BY <1>3, <1>4 DEF BeginWrite, q

\* Setting a side's pending frame.
LEMMA PendingEffect ==
    ASSUME NEW l \in Station, NEW side \in Sides, NEW f \in Frame \cup {NoFrame}
    PROVE  LET d == [l EXCEPT !.pending[side] = f]
           IN  d \in Station /\ SamePri(l, d)
  <1> DEFINE x == [l.pending EXCEPT ![side] = f]
             d == [l EXCEPT !.pending = x]
  <1>1. l.pending \in [Sides -> Frame \cup {NoFrame}]
    BY DEF Station
  <1>2. x \in [Sides -> Frame \cup {NoFrame}]
    BY <1>1
  <1>3. [l EXCEPT !.pending[side] = f] = d
    OBVIOUS
  <1> HIDE DEF x
  <1>4. d \in Station /\ SamePri(l, d)
    BY <1>2 DEF Station, SamePri, SameSend
  <1> QED
    BY <1>3, <1>4

\* LinkContext::QueueTransmit writes the frame or leaves it pending.
LEMMA QueueTransmitEffect ==
    ASSUME NEW l \in Station, NEW side \in Sides, NEW f \in Frame
    PROVE  LET d == QueueTransmit(l, side, f)
           IN  d \in Station /\ SamePri(l, d)
  <1> DEFINE x == [l.txBuffer EXCEPT ![side] = f]
             e == [l EXCEPT !.txBuffer = x]
  <1>1. l.txBuffer \in [Sides -> Frame \cup {NoFrame}]
    BY DEF Station
  <1>2. x \in [Sides -> Frame \cup {NoFrame}]
    BY <1>1
  <1>3. [l EXCEPT !.txBuffer[side] = f] = e
    OBVIOUS
  <1>4. e \in Station /\ SamePri(l, e)
    <2> HIDE DEF x
    <2> QED
      BY <1>2 DEF Station, SamePri, SameSend
  <1>5. QueueTransmit(l, side, f) =
          IF l.txMode = "Idle" THEN BeginWrite(e, side, f) ELSE [e EXCEPT !.pending[side] = f]
    BY <1>3 DEF QueueTransmit
  <1> HIDE DEF e
  <1>6. LET d == BeginWrite(e, side, f) IN d \in Station /\ SamePri(l, d)
    BY <1>4, BeginWriteEffect DEF SamePri, SameSend
  <1>7. LET d == [e EXCEPT !.pending[side] = f] IN d \in Station /\ SamePri(l, d)
    BY <1>4, PendingEffect DEF SamePri, SameSend
  <1> QED
    BY <1>5, <1>6, <1>7

\* LinkContext::TryPendingTx writes what is pending.
LEMMA TryPendingTxEffect ==
    ASSUME NEW l \in Station, NEW side \in Sides
    PROVE  LET d == TryPendingTx(l, side)
           IN  d \in Station /\ SamePri(l, d)
  <1>1. CASE l.txMode = "Idle" /\ l.pending[side] # NoFrame
    <2> DEFINE e == BeginWrite(l, side, l.pending[side])
    <2>1. l.pending[side] \in Frame
      BY <1>1 DEF Station
    <2>2. e \in Station /\ SamePri(l, e)
      BY <2>1, BeginWriteEffect
    <2>3. TryPendingTx(l, side) = [e EXCEPT !.pending[side] = NoFrame]
      BY <1>1 DEF TryPendingTx
    <2> HIDE DEF e
    <2> QED
      BY <2>2, <2>3, PendingEffect DEF SamePri, SameSend
  <1>2. CASE ~(l.txMode = "Idle" /\ l.pending[side] # NoFrame)
    BY <1>2 DEF TryPendingTx, SamePri, SameSend
  <1> QED
    BY <1>1, <1>2

-----------------------------------------------------------------------------
(***************************************************************************)
(* Primary station.                                                        *)
(***************************************************************************)

\* A change of the primary state in a station that sends.
LEMMA MoveWhileSending ==
    ASSUME NEW l \in Station, l.pSegments, l.segments # <<>>, NEW p \in PriTransmitWait
    PROVE  LInv([l EXCEPT !.pPriState = p])
  <1> DEFINE d == [l EXCEPT !.pPriState = p]
  <1>1. p \in PriState /\ p \notin PriResponseWait
    BY DEF PriState, PriTransmitWait, PriResponseWait
  <1>2. d \in Station /\ d.pPriState = p /\ d.pSegments /\ d.segments # <<>>
    BY <1>1 DEF Station
  <1> HIDE DEF d
  <1>3. LInv(d)
    BY <1>1, <1>2 DEF LInv, HasSegments, Sending, Timed
  <1> QED
    BY <1>3 DEF d

\* LinkContext::QueueResetLinks.
LEMMA QueueResetLinksInv ==
    ASSUME NEW l \in Station, l.pSegments, l.segments # <<>>
    PROVE  LInv(QueueResetLinks(l))
  <1> DEFINE e == QueueTransmit(l, "Primary", Plain("RESET_LINK_STATES"))
  <1>1. e \in Station /\ SamePri(l, e)
    BY PlainType, QueueTransmitEffect DEF PriFunction, Sides
  <1>2. QueueResetLinks(l) = [e EXCEPT !.pPriState = "LinkResetTransmitWait"]
    BY DEF QueueResetLinks
  <1> HIDE DEF e
  <1> QED
    BY <1>1, <1>2, MoveWhileSending DEF PriTransmitWait, SamePri, SameSend

\* Sending the current segment, confirmed or not.
LEMMA QueueSegmentInv ==
    ASSUME NEW l \in Station, l.pSegments, l.segments # <<>>
    PROVE  LInv(QueueConfirmed(l)) /\ LInv(QueueUnconfirmed(l))
  <1>1. Head(l.segments) \in Segment /\ l.nextWriteFCB \in BOOLEAN
    BY DEF Station
  <1> DEFINE f == UserData("CONFIRMED_USER_DATA", l.nextWriteFCB, Head(l.segments))
             g == UserData("UNCONFIRMED_USER_DATA", FALSE, Head(l.segments))
             c == QueueTransmit(l, "Primary", f)
             u == QueueTransmit(l, "Primary", g)
  <1>2. f \in Frame /\ g \in Frame
    BY <1>1, UserDataType DEF PriFunction
  <1>3. c \in Station /\ SamePri(l, c) /\ u \in Station /\ SamePri(l, u)
    <2> HIDE DEF f, g
    <2> QED
      BY <1>2, QueueTransmitEffect DEF Sides
  <1>4. /\ QueueConfirmed(l) = [c EXCEPT !.pPriState = "ConfUserDataTransmitWait"]
        /\ QueueUnconfirmed(l) = [u EXCEPT !.pPriState = "SendUnconfirmedTransmitWait"]
    BY DEF QueueConfirmed, QueueUnconfirmed
  <1> HIDE DEF c, u
  <1> QED
    BY <1>3, <1>4, MoveWhileSending DEF PriTransmitWait, SamePri, SameSend

\* LinkContext::CompleteSendOperation leaves an idle station without segments.
LEMMA CompleteInv ==
    ASSUME NEW l \in Station
    PROVE  LInv(CompleteSendOperation(l))
  <1> DEFINE n == l.posted + 1
             d == [l EXCEPT !.pSegments = FALSE, !.posted = n, !.pPriState = "Idle"]
  <1>1. n \in Nat
    BY DEF Station
  <1>2. CompleteSendOperation(l) = d
    BY DEF CompleteSendOperation
  <1> HIDE DEF n
  <1>3. d \in Station /\ ~d.pSegments /\ d.pPriState = "Idle"
    BY <1>1 DEF Station, PriState
  <1> HIDE DEF d
  <1> QED
    BY <1>2, <1>3 DEF LInv, HasSegments, Sending, Timed, UsesSegments, PriResponseWait

\* The end of an exchange that carries no message.
LEMMA BackToIdle ==
    ASSUME NEW l \in Station, HasSegments(l)
    PROVE  LInv([l EXCEPT !.pPriState = "Idle"])
  <1> DEFINE d == [l EXCEPT !.pPriState = "Idle"]
  <1>1. /\ d \in Station /\ d.pPriState = "Idle" /\ d.pSegments = l.pSegments
        /\ d.segments = l.segments
    BY DEF Station, PriState
  <1> HIDE DEF d
  <1>2. LInv(d)
    BY <1>1 DEF LInv, HasSegments, Sending, Timed, UsesSegments, PriResponseWait
  <1> QED
    BY <1>2 DEF d

\* LinkContext::ResetRetry
LEMMA ResetRetryEffect ==
    ASSUME NEW l \in Station
    PROVE  LET d == ResetRetry(l) IN d \in Station /\ SamePri(l, d)
  <1>1. NumRetry \in 0..NumRetry
    BY ConfigAssumption
  <1> QED
    BY <1>1 DEF ResetRetry, Station, SamePri, SameSend

\* PLLS_Idle starts a send.
LEMMA TrySendSegmentsInv ==
    ASSUME NEW l, LInv(l), l.pSegments
    PROVE  LInv(TrySendSegments(l))
  <1>1. l \in Station /\ l.segments # <<>>
    BY DEF LInv, HasSegments
  <1> DEFINE r == ResetRetry(l)
  <1>2. r \in Station /\ r.pSegments /\ r.segments # <<>>
    BY <1>1, ResetRetryEffect DEF SamePri, SameSend
  <1> HIDE DEF r
  <1>3. LInv(QueueConfirmed(r)) /\ LInv(QueueResetLinks(r)) /\ LInv(QueueUnconfirmed(l))
    BY <1>1, <1>2, QueueSegmentInv, QueueResetLinksInv
  <1> QED
    BY <1>3 DEF TrySendSegments, TrySendConfirmed, r

\* PLLS_Idle asks for the link status.
LEMMA TrySendRequestLinkStatusInv ==
    ASSUME NEW l, LInv(l)
    PROVE  LInv(TrySendRequestLinkStatus(l))
  <1>1. CASE l.pPriState = "Idle"
    <2> DEFINE k == [l EXCEPT !.keepAliveTimeout = FALSE]
               e == QueueTransmit(k, "Primary", Plain("REQUEST_LINK_STATUS"))
               d == [e EXCEPT !.pPriState = "RequestLinkStatusTransmitWait"]
    <2>1. k \in Station /\ SamePri(l, k)
      BY DEF LInv, Station, SamePri, SameSend
    <2> HIDE DEF k
    <2>2. e \in Station /\ SamePri(k, e)
      BY <2>1, PlainType, QueueTransmitEffect DEF PriFunction, Sides
    <2> HIDE DEF e
    <2>3. /\ d \in Station /\ d.pPriState = "RequestLinkStatusTransmitWait"
          /\ d.pSegments = e.pSegments /\ d.segments = e.segments
      BY <2>2 DEF Station, PriState, PriTransmitWait
    <2> HIDE DEF d
    <2>4. LInv(d)
      BY <2>1, <2>2, <2>3 DEF LInv, HasSegments, Sending, Timed, SamePri, SameSend,
                              UsesSegments, PriResponseWait
    <2> QED
      BY <1>1, <2>4 DEF TrySendRequestLinkStatus, k, e, d
  <1>2. CASE l.pPriState # "Idle"
    BY <1>2 DEF TrySendRequestLinkStatus
  <1> QED
    BY <1>1, <1>2

\* LinkContext::TryStartTransmission keeps the invariant.
LEMMA TryStartInv ==
    ASSUME NEW l, LInv(l)
    PROVE  LInv(TryStartTransmission(l))
  <1> DEFINE asked == IF l.keepAliveTimeout THEN TrySendRequestLinkStatus(l) ELSE l
  <1>1. LInv(asked)
    BY TrySendRequestLinkStatusInv
  <1>2. TryStartTransmission(l) = IF asked.pSegments THEN TrySendSegments(asked) ELSE asked
    BY DEF TryStartTransmission
  <1> HIDE DEF asked
  <1> QED
    BY <1>1, <1>2, TrySendSegmentsInv

\* TransportTx::Advance, then the next segment or the end of the send.
LEMMA AdvanceInv ==
    ASSUME NEW l \in Station, l.pSegments, l.segments # <<>>
    PROVE  LInv(AdvanceConfirmed(l)) /\ LInv(AdvanceUnconfirmed(l))
  <1> DEFINE q == Tail(l.segments)
             d == [l EXCEPT !.segments = q]
  <1>1. q \in Seq(Segment)
    BY DEF Station
  <1>2. Advance(l) = d
    BY DEF Advance
  <1> HIDE DEF q
  <1>3. d \in Station /\ d.pSegments = l.pSegments
    BY <1>1 DEF Station
  <1> HIDE DEF d
  <1>4. LInv(CompleteSendOperation(d))
    BY <1>3, CompleteInv
  <1>5. d.segments # <<>> => LInv(QueueConfirmed(d)) /\ LInv(QueueUnconfirmed(d))
    BY <1>3, QueueSegmentInv
  <1> QED
    BY <1>2, <1>4, <1>5 DEF AdvanceConfirmed, AdvanceUnconfirmed

\* A transmission of the primary station has been written.
LEMMA PriOnTxReadyInv ==
    ASSUME NEW l, LInv(l)
    PROVE  LInv(PriOnTxReady(l))
  <1>1. l \in Station /\ HasSegments(l) /\ Sending(l)
    BY DEF LInv
  <1> DEFINE s == Start(l, "response")
  <1>2. s \in Station /\ SameSend(l, s) /\ s.timer["response"] # "none"
    BY <1>1, StartEffect DEF Timers
  <1>3. ASSUME NEW p \in PriResponseWait, p \in UsesSegments => l.pSegments
        PROVE  LInv([s EXCEPT !.pPriState = p])
    <2> HIDE DEF s
    <2> DEFINE d == [s EXCEPT !.pPriState = p]
    <2>1. p \in PriState
      BY DEF PriState
    <2>2. /\ d \in Station /\ d.pPriState = p /\ d.pSegments = s.pSegments
          /\ d.segments = s.segments /\ d.timer = s.timer
      BY <1>2, <2>1 DEF Station
    <2> HIDE DEF d
    <2>3. LInv(d)
      BY <1>1, <1>2, <1>3, <2>2 DEF LInv, HasSegments, Sending, Timed, SameSend
    <2> QED
      BY <2>3 DEF d
  <1> HIDE DEF s
  <1>4. CASE l.pPriState = "SendUnconfirmedTransmitWait"
    <2>1. l.pSegments /\ l.segments # <<>>
      BY <1>1, <1>4 DEF HasSegments, Sending, UsesSegments
    <2>2. PriOnTxReady(l) = AdvanceUnconfirmed(l)
      BY <1>4 DEF PriOnTxReady
    <2> QED
      BY <1>1, <2>1, <2>2, AdvanceInv
  <1>5. CASE l.pPriState = "LinkResetTransmitWait"
    <2>1. PriOnTxReady(l) = [s EXCEPT !.pPriState = "ResetLinkWait"]
      BY <1>5 DEF PriOnTxReady, s
    <2>2. l.pSegments
      BY <1>1, <1>5 DEF Sending, UsesSegments
    <2> QED
      BY <1>3, <2>1, <2>2 DEF PriResponseWait
  <1>6. CASE l.pPriState = "ConfUserDataTransmitWait"
    <2>1. PriOnTxReady(l) = [s EXCEPT !.pPriState = "ConfDataWait"]
      BY <1>6 DEF PriOnTxReady, s
    <2>2. l.pSegments
      BY <1>1, <1>6 DEF Sending, UsesSegments
    <2> QED
      BY <1>3, <2>1, <2>2 DEF PriResponseWait
  <1>7. CASE l.pPriState = "RequestLinkStatusTransmitWait"
    <2>1. PriOnTxReady(l) = [s EXCEPT !.pPriState = "RequestLinkStatusWait"]
      BY <1>7 DEF PriOnTxReady, s
    <2> QED
      BY <1>3, <2>1 DEF PriResponseWait, UsesSegments
  <1>8. CASE l.pPriState \notin PriTransmitWait
    <2>1. PriOnTxReady(l) = l
      BY <1>8 DEF PriOnTxReady, PriTransmitWait
    <2> QED
      BY <2>1
  <1> QED
    BY <1>4, <1>5, <1>6, <1>7, <1>8 DEF PriTransmitWait

\* The end of a send by a failure.
LEMMA PriFailureInv ==
    ASSUME NEW l \in Station
    PROVE  LInv(PriFailure(l))
  BY CancelEffect, CompleteInv DEF PriFailure, Timers

\* Setting what the listener was told.
LEMMA StatusEffect ==
    ASSUME NEW l \in Station, NEW x \in {"UNRESET", "RESET"}
    PROVE  LET d == [l EXCEPT !.status = x] IN d \in Station /\ SamePri(l, d)
  BY DEF Station, SamePri, SameSend

\* Cancelling the timer of an exchange without a message, and back to idle.
LEMMA CancelToIdle ==
    ASSUME NEW l \in Station, HasSegments(l)
    PROVE  LInv([Cancel(l, "response") EXCEPT !.pPriState = "Idle"])
  <1> DEFINE e == Cancel(l, "response")
  <1>1. e \in Station /\ HasSegments(e)
    BY CancelEffect DEF Timers, SameSend, HasSegments
  <1> HIDE DEF e
  <1> QED
    BY <1>1, BackToIdle DEF e

\* An ACK arrives.
LEMMA PriOnAckInv ==
    ASSUME NEW l, LInv(l)
    PROVE  LInv(PriOnAck(l))
  <1>1. l \in Station
    BY DEF LInv
  <1>2. ASSUME l.pPriState \in UsesSegments
        PROVE  l.pSegments /\ l.segments # <<>>
    BY <1>2 DEF LInv, HasSegments, Sending
  <1>3. CASE l.pPriState = "ResetLinkWait"
    <2> DEFINE e == [l EXCEPT !.isRemoteReset = TRUE, !.nextWriteFCB = TRUE, !.status = "RESET"]
               c == Cancel(e, "response")
    <2>1. e \in Station /\ SameSend(l, e)
      BY <1>1 DEF Station, SameSend
    <2> HIDE DEF e
    <2>2. c \in Station /\ c.pSegments /\ c.segments # <<>>
      BY <1>2, <1>3, <2>1, CancelEffect DEF Timers, SameSend, UsesSegments
    <2>3. PriOnAck(l) = QueueConfirmed(c)
      BY <1>3 DEF PriOnAck, e
    <2> HIDE DEF c
    <2> QED
      BY <2>2, <2>3, QueueSegmentInv
  <1>4. CASE l.pPriState = "ConfDataWait"
    <2> DEFINE e == [l EXCEPT !.nextWriteFCB = ~@]
               c == Cancel(e, "response")
    <2>1. e \in Station /\ SameSend(l, e)
      BY <1>1 DEF Station, SameSend
    <2> HIDE DEF e
    <2>2. c \in Station /\ c.pSegments /\ c.segments # <<>>
      BY <1>2, <1>4, <2>1, CancelEffect DEF Timers, SameSend, UsesSegments
    <2>3. PriOnAck(l) = AdvanceConfirmed(c)
      BY <1>4 DEF PriOnAck, e
    <2> HIDE DEF c
    <2> QED
      BY <2>2, <2>3, AdvanceInv
  <1>5. CASE l.pPriState \notin {"ResetLinkWait", "ConfDataWait"}
    BY <1>5 DEF PriOnAck
  <1> QED
    BY <1>3, <1>4, <1>5

\* A NACK arrives.
LEMMA PriOnNackInv ==
    ASSUME NEW l, LInv(l), NEW full \in BOOLEAN
    PROVE  LInv(PriOnNack(l, full))
  <1>1. l \in Station /\ HasSegments(l)
    BY DEF LInv
  <1> DEFINE u == [l EXCEPT !.status = "UNRESET"]
  <1>2. u \in Station /\ SamePri(l, u)
    BY <1>1, StatusEffect
  <1> HIDE DEF u
  <1>3. CASE l.pPriState = "ResetLinkWait"
    BY <1>1, <1>3, PriFailureInv DEF PriOnNack
  <1>4. CASE l.pPriState = "ConfDataWait" /\ full
    BY <1>2, <1>4, PriFailureInv DEF PriOnNack, u
  <1>5. CASE l.pPriState = "ConfDataWait" /\ ~full
    <2> DEFINE r == ResetRetry(u)
               c == Cancel(r, "response")
    <2>1. r \in Station /\ SamePri(u, r)
      BY <1>2, ResetRetryEffect
    <2> HIDE DEF r
    <2>2. c \in Station /\ SameSend(r, c)
      BY <2>1, CancelEffect DEF Timers
    <2>3. l.pSegments /\ l.segments # <<>>
      BY <1>5 DEF LInv, HasSegments, Sending, UsesSegments
    <2>4. PriOnNack(l, full) = QueueResetLinks(c)
      BY <1>5 DEF PriOnNack, u, r
    <2> HIDE DEF c
    <2> QED
      BY <1>2, <2>1, <2>2, <2>3, <2>4, QueueResetLinksInv DEF SamePri, SameSend
  <1>6. CASE l.pPriState = "RequestLinkStatusWait"
    BY <1>1, <1>6, CancelToIdle DEF PriOnNack
  <1>7. CASE l.pPriState \notin PriResponseWait
    BY <1>7 DEF PriOnNack, PriResponseWait
  <1> QED
    BY <1>3, <1>4, <1>5, <1>6, <1>7 DEF PriResponseWait

\* LINK_STATUS or NOT_SUPPORTED arrives.
LEMMA PriOnOtherInv ==
    ASSUME NEW l, LInv(l)
    PROVE  LInv(PriOnOther(l))
  <1>1. l \in Station /\ HasSegments(l)
    BY DEF LInv
  <1>2. CASE l.pPriState \in {"ResetLinkWait", "ConfDataWait"}
    BY <1>1, <1>2, PriFailureInv DEF PriOnOther
  <1>3. CASE l.pPriState = "RequestLinkStatusWait"
    BY <1>1, <1>3, CancelToIdle DEF PriOnOther
  <1>4. CASE l.pPriState \notin PriResponseWait
    BY <1>4 DEF PriOnOther, PriResponseWait
  <1> QED
    BY <1>2, <1>3, <1>4 DEF PriResponseWait

\* The response timer's callback, late or not: the station need not be timed any more,
\* as every state that waits for the timer is left.
LEMMA PriOnTimeoutInv ==
    ASSUME NEW l \in Station, HasSegments(l), Sending(l)
    PROVE  LInv(PriOnTimeout(l))
  <1>1. ASSUME l.pPriState \in UsesSegments
        PROVE  l.pSegments /\ l.segments # <<>>
    BY <1>1 DEF HasSegments, Sending
  <1> DEFINE n == l.numRetryRemaining - 1
             r == [l EXCEPT !.numRetryRemaining = n]
  <1>2. ASSUME l.numRetryRemaining > 0
        PROVE  r \in Station /\ SameSend(l, r)
    <2>1. n \in 0..NumRetry
      BY <1>2, ConfigAssumption DEF Station
    <2> HIDE DEF n
    <2> QED
      BY <2>1 DEF Station, SameSend
  <1>3. r = [l EXCEPT !.numRetryRemaining = @ - 1]
    OBVIOUS
  <1> HIDE DEF r
  <1>4. CASE l.pPriState = "ResetLinkWait" /\ l.numRetryRemaining > 0
    <2>1. PriOnTimeout(l) = QueueResetLinks(r)
      BY <1>3, <1>4 DEF PriOnTimeout
    <2> QED
      BY <1>1, <1>2, <1>4, <2>1, QueueResetLinksInv DEF UsesSegments, SameSend
  <1>5. CASE l.pPriState = "ResetLinkWait" /\ ~(l.numRetryRemaining > 0)
    BY <1>5, CompleteInv DEF PriOnTimeout
  <1>6. CASE l.pPriState = "ConfDataWait" /\ l.numRetryRemaining > 0
    <2>1. PriOnTimeout(l) = QueueConfirmed(r)
      BY <1>3, <1>6 DEF PriOnTimeout
    <2> QED
      BY <1>1, <1>2, <1>6, <2>1, QueueSegmentInv DEF UsesSegments, SameSend
  <1>7. CASE l.pPriState = "ConfDataWait" /\ ~(l.numRetryRemaining > 0)
    <2> DEFINE u == [l EXCEPT !.status = "UNRESET"]
    <2>1. u \in Station
      BY StatusEffect
    <2>2. PriOnTimeout(l) = CompleteSendOperation(u)
      BY <1>7 DEF PriOnTimeout
    <2> HIDE DEF u
    <2> QED
      BY <2>1, <2>2, CompleteInv
  <1>8. CASE l.pPriState = "RequestLinkStatusWait"
    BY <1>8, BackToIdle DEF PriOnTimeout
  <1>9. CASE l.pPriState \notin PriResponseWait
    <2>1. PriOnTimeout(l) = l
      BY <1>9 DEF PriOnTimeout, PriResponseWait
    <2> QED
      BY <1>9, <2>1 DEF LInv, Timed
  <1> QED
    BY <1>4, <1>5, <1>6, <1>7, <1>8, <1>9 DEF PriResponseWait

-----------------------------------------------------------------------------
(***************************************************************************)
(* Transport layer and secondary station.                                  *)
(***************************************************************************)

\* TransportLayer::BeginTransmit, and LinkLayer::Send in it.
LEMMA BeginTransmitInv ==
    ASSUME NEW l, LInv(l), NEW m \in Seq(Segment)
    PROVE  LInv(BeginTransmit(l, m))
  <1> DEFINE c == [l EXCEPT !.isSending = TRUE, !.segments = m]
             d == [c EXCEPT !.pSegments = TRUE]
  <1>1. /\ c \in Station /\ c.pPriState = l.pPriState /\ c.pSegments = l.pSegments
        /\ c.segments = m /\ c.timer = l.timer
    BY DEF LInv, Station
  <1>2. CASE ~l.isOnline \/ m = <<>> \/ l.isSending
    BY <1>2 DEF BeginTransmit
  <1>3. CASE l.isOnline /\ m # <<>> /\ ~l.isSending /\ l.pSegments
    <2>1. BeginTransmit(l, m) = c
      BY <1>3 DEF BeginTransmit
    <2> HIDE DEF c
    <2> QED
      BY <1>1, <1>3, <2>1 DEF LInv, HasSegments, Sending, Timed
  <1>4. CASE l.isOnline /\ m # <<>> /\ ~l.isSending /\ ~l.pSegments
    <2>1. BeginTransmit(l, m) = TryStartTransmission(d)
      BY <1>4 DEF BeginTransmit
    <2> HIDE DEF c
    <2>2. /\ d \in Station /\ d.pPriState = c.pPriState /\ d.pSegments
          /\ d.segments = c.segments /\ d.timer = c.timer
      BY <1>1 DEF Station
    <2> HIDE DEF d
    <2>3. LInv(d)
      BY <1>1, <1>4, <2>2 DEF LInv, HasSegments, Sending, Timed
    <2> QED
      BY <2>1, <2>3, TryStartInv
  <1> QED
    BY <1>2, <1>3, <1>4

\* TransportLayer::OnTxReady
LEMMA TransportOnTxReadyInv ==
    ASSUME NEW l, LInv(l), l.posted > 0, NEW m \in Seq(Segment)
    PROVE  LInv(TransportOnTxReady(l, m))
  <1> DEFINE n == l.posted - 1
             r == [l EXCEPT !.posted = n]
             e == [r EXCEPT !.isSending = FALSE]
  <1>1. n \in Nat
    BY DEF LInv, Station
  <1>2. TransportOnTxReady(l, m) = IF l.isOnline /\ l.isSending THEN BeginTransmit(e, m) ELSE r
    BY DEF TransportOnTxReady
  <1> HIDE DEF n
  <1>3. r \in Station /\ SamePri(l, r)
    BY <1>1 DEF LInv, Station, SamePri, SameSend
  <1>4. LInv(r)
    BY <1>3, SameInv
  <1> HIDE DEF r
  <1>5. e \in Station /\ SamePri(r, e)
    BY <1>3 DEF Station, SamePri, SameSend
  <1>6. LInv(e)
    BY <1>4, <1>5, SameInv
  <1> HIDE DEF e
  <1> QED
    BY <1>2, <1>4, <1>6, BeginTransmitInv

\* A response of the secondary station.
LEMMA RespondEffect ==
    ASSUME NEW l, LInv(l), NEW f \in SecFunction, NEW next \in SecState
    PROVE  LInv(Respond(l, f, next))
  <1> DEFINE e == QueueTransmit(l, "Secondary", Plain(f))
             d == [e EXCEPT !.pSecState = next]
  <1>1. l \in Station
    BY DEF LInv
  <1>2. e \in Station /\ SamePri(l, e)
    BY <1>1, PlainType, QueueTransmitEffect DEF Sides
  <1>3. LInv(e)
    BY <1>2, SameInv
  <1> HIDE DEF e
  <1>4. d \in Station /\ SamePri(e, d)
    BY <1>2 DEF Station, SamePri, SameSend
  <1>5. LInv(d)
    BY <1>3, <1>4, SameInv
  <1> QED
    BY <1>5 DEF Respond, e

\* The frame count bit expected next.
LEMMA ReadFCBInv ==
    ASSUME NEW l, LInv(l), NEW x \in BOOLEAN
    PROVE  LInv([l EXCEPT !.nextReadFCB = x])
  <1> DEFINE d == [l EXCEPT !.nextReadFCB = x]
  <1>1. d \in Station /\ SamePri(l, d)
    BY DEF LInv, Station, SamePri, SameSend
  <1> HIDE DEF d
  <1>2. LInv(d)
    BY <1>1, SameInv
  <1> QED
    BY <1>2 DEF d

\* Every frame that the secondary station handles.
LEMMA SecondaryInv ==
    ASSUME NEW l, LInv(l), NEW f \in Frame, NEW m \in Seq(Segment)
    PROVE  /\ LInv(SecOnResetLinkStates(l)) /\ LInv(SecOnRequestLinkStatus(l))
           /\ LInv(SecOnTestLinkStatus(l, f.flag)) /\ LInv(SecOnConfirmedUserData(l, f, m))
  <1> DEFINE a == Respond(l, "ACK", "TransmitWaitReset")
  <1>1. /\ LInv(a) /\ LInv(Respond(l, "LINK_STATUS", "TransmitWaitNotReset"))
        /\ LInv(Respond(l, "LINK_STATUS", "TransmitWaitReset"))
    BY RespondEffect DEF SecFunction, SecState, SecTransmitWait
  <1> HIDE DEF a
  <1>2. a.nextReadFCB \in BOOLEAN
    BY <1>1 DEF LInv, Station
  <1> DEFINE b == ~a.nextReadFCB
             t == [a EXCEPT !.nextReadFCB = b]
  <1>3. LInv([a EXCEPT !.nextReadFCB = TRUE]) /\ LInv(t)
    BY <1>1, <1>2, ReadFCBInv
  <1>4. t = [a EXCEPT !.nextReadFCB = ~@]
    OBVIOUS
  <1> HIDE DEF t
  <1>5. LInv(SecOnResetLinkStates(l))
    BY <1>3 DEF SecOnResetLinkStates, a
  <1>6. LInv(SecOnRequestLinkStatus(l))
    BY <1>1 DEF SecOnRequestLinkStatus
  <1>7. LInv(SecOnTestLinkStatus(l, f.flag))
    BY <1>3, <1>4 DEF SecOnTestLinkStatus, a
  <1>8. LInv(SecOnConfirmedUserData(l, f, m))
    <2>1. LInv(BeginTransmit(t, m))
      BY <1>3, BeginTransmitInv
    <2> HIDE DEF b
    <2>2. \/ SecOnConfirmedUserData(l, f, m) = l
          \/ SecOnConfirmedUserData(l, f, m) = a
          \/ SecOnConfirmedUserData(l, f, m) = BeginTransmit(t, m)
      BY <1>4 DEF SecOnConfirmedUserData, a
    <2> QED
      BY <1>1, <2>1, <2>2
  <1> QED
    BY <1>5, <1>6, <1>7, <1>8

\* A transmission of the secondary station has been written.
LEMMA SecOnTxReadyInv ==
    ASSUME NEW l, LInv(l)
    PROVE  LInv(SecOnTxReady(l))
  <1>1. ASSUME NEW x \in SecState
        PROVE  LInv([l EXCEPT !.pSecState = x])
    <2> DEFINE d == [l EXCEPT !.pSecState = x]
    <2>1. d \in Station /\ SamePri(l, d)
      BY DEF LInv, Station, SamePri, SameSend
    <2> HIDE DEF d
    <2>2. LInv(d)
      BY <2>1, SameInv
    <2> QED
      BY <2>2 DEF d
  <1>2. LInv([l EXCEPT !.pSecState = "Reset"]) /\ LInv([l EXCEPT !.pSecState = "NotReset"])
    BY <1>1 DEF SecState
  <1> QED
    BY <1>2 DEF SecOnTxReady

-----------------------------------------------------------------------------
(***************************************************************************)
(* Entry points.                                                           *)
(***************************************************************************)

\* LinkContext::OnFrame
LEMMA OnFrameInv ==
    ASSUME NEW l, LInv(l), NEW f \in Frame, NEW m \in Seq(Segment)
    PROVE  LInv(OnFrame(l, f, m))
  <1>1. f.func \in SecFunction \cup PriFunction /\ f.flag \in BOOLEAN
    BY DEF Frame
  <1> DEFINE h == CASE f.func = "ACK" -> PriOnAck(l)
                    [] f.func = "NACK" -> PriOnNack(l, f.flag)
                    [] f.func \in {"LINK_STATUS", "NOT_SUPPORTED"} -> PriOnOther(l)
                    [] f.func = "TEST_LINK_STATES" -> SecOnTestLinkStatus(l, f.flag)
                    [] f.func = "RESET_LINK_STATES" -> SecOnResetLinkStates(l)
                    [] f.func = "REQUEST_LINK_STATUS" -> SecOnRequestLinkStatus(l)
                    [] f.func = "CONFIRMED_USER_DATA" -> SecOnConfirmedUserData(l, f, m)
                    [] f.func = "UNCONFIRMED_USER_DATA" -> BeginTransmit(l, m)
  <1>2. /\ LInv(PriOnAck(l)) /\ LInv(PriOnNack(l, f.flag)) /\ LInv(PriOnOther(l))
        /\ LInv(BeginTransmit(l, m))
    BY <1>1, PriOnAckInv, PriOnNackInv, PriOnOtherInv, BeginTransmitInv
  <1>3. LInv(h)
    BY <1>1, <1>2, SecondaryInv DEF SecFunction, PriFunction
  <1>4. OnFrame(l, f, m) = IF l.isOnline THEN TryStartTransmission(h) ELSE l
    BY DEF OnFrame
  <1> HIDE DEF h
  <1> QED
    BY <1>3, <1>4, TryStartInv

\* LinkContext::OnTxReady
LEMMA OnTxReadyInv ==
    ASSUME NEW l, LInv(l)
    PROVE  LInv(OnTxReady(l))
  <1> DEFINE i == [l EXCEPT !.txMode = "Idle"]
             s == TryPendingTx(i, "Secondary")
             n == TryPendingTx(s, "Primary")
  <1>1. i \in Station /\ SamePri(l, i)
    BY DEF LInv, Station, SamePri, SameSend
  <1> HIDE DEF i
  <1>2. s \in Station /\ SamePri(i, s)
    BY <1>1, TryPendingTxEffect DEF Sides
  <1> HIDE DEF s
  <1>3. n \in Station /\ SamePri(s, n)
    BY <1>2, TryPendingTxEffect DEF Sides
  <1> HIDE DEF n
  <1>4. LInv(n)
    BY <1>1, <1>2, <1>3, SameInv DEF SamePri, SameSend
  <1>5. LInv(TryStartTransmission(PriOnTxReady(n))) /\ LInv(TryStartTransmission(SecOnTxReady(n)))
    BY <1>4, PriOnTxReadyInv, SecOnTxReadyInv, TryStartInv
  <1> QED
    BY <1>5 DEF OnTxReady, i, s, n

\* LinkContext::OnResponseTimeout
LEMMA OnResponseTimeoutInv ==
    ASSUME NEW l, LInv(l), l.timer["response"] = "expired" \/ l.orphans["response"] > 0
    PROVE  LInv(OnResponseTimeout(l))
  <1> DEFINE d == Fired(l, "response")
  <1>1. d \in Station /\ SameSend(l, d)
    BY FiredEffect DEF LInv, Timers
  <1>2. HasSegments(d) /\ Sending(d)
    BY <1>1 DEF LInv, HasSegments, Sending, SameSend
  <1> HIDE DEF d
  <1> QED
    BY <1>1, <1>2, PriOnTimeoutInv, TryStartInv DEF OnResponseTimeout, d

\* LinkContext::OnKeepAliveTimeout
LEMMA OnKeepAliveTimeoutInv ==
    ASSUME NEW l, LInv(l), l.timer["keepAlive"] = "expired" \/ l.orphans["keepAlive"] > 0,
           NEW elapsed \in BOOLEAN
    PROVE  LInv(OnKeepAliveTimeout(l, elapsed))
  <1> DEFINE d == Fired(l, "keepAlive")
             k == [d EXCEPT !.keepAliveTimeout = @ \/ elapsed]
             s == Start(k, "keepAlive")
  <1>1. d \in Station /\ SameSend(l, d) /\ d.timer["response"] = l.timer["response"]
    BY FiredEffect DEF LInv, Timers
  <1> HIDE DEF d
  <1>2. k \in Station /\ SamePri(d, k)
    <2>1. ASSUME NEW x \in BOOLEAN
          PROVE  LET e == [d EXCEPT !.keepAliveTimeout = x] IN e \in Station /\ SamePri(d, e)
      BY <1>1 DEF Station, SamePri, SameSend
    <2>2. (d.keepAliveTimeout \/ elapsed) \in BOOLEAN
      OBVIOUS
    <2> QED
      BY <2>1, <2>2
  <1> HIDE DEF k
  <1>3. s \in Station /\ SameSend(k, s) /\ s.timer["response"] = k.timer["response"]
    BY <1>2, StartEffect DEF Timers
  <1> HIDE DEF s
  <1>4. LInv(s)
    BY <1>1, <1>2, <1>3 DEF LInv, HasSegments, Sending, Timed, SamePri, SameSend
  <1>5. OnKeepAliveTimeout(l, elapsed) = TryStartTransmission(s)
    BY DEF OnKeepAliveTimeout, d, k, s
  <1> QED
    BY <1>4, <1>5, TryStartInv

\* LinkContext::OnLowerLayerUp
LEMMA OnLowerLayerUpInv ==
    ASSUME NEW l, LInv(l), NEW m \in Seq(Segment)
    PROVE  LInv(OnLowerLayerUp(l, m))
  <1> DEFINE u == [l EXCEPT !.isOnline = TRUE, !.status = "UNRESET"]
             s == Start(u, "keepAlive")
  <1>1. u \in Station /\ SamePri(l, u)
    BY DEF LInv, Station, SamePri, SameSend
  <1> HIDE DEF u
  <1>2. s \in Station /\ SameSend(u, s) /\ s.timer["response"] = u.timer["response"]
    BY <1>1, StartEffect DEF Timers
  <1> HIDE DEF s
  <1>3. LInv(s)
    BY <1>1, <1>2 DEF LInv, HasSegments, Sending, Timed, SamePri, SameSend
  <1> QED
    BY <1>3, BeginTransmitInv DEF OnLowerLayerUp, u, s

\* LinkContext::OnLowerLayerDown
LEMMA OnLowerLayerDownInv ==
    ASSUME NEW l, LInv(l)
    PROVE  LInv(OnLowerLayerDown(l))
  <1> DEFINE p == [s \in Sides |-> NoFrame]
             d == [l EXCEPT !.isOnline = FALSE, !.keepAliveTimeout = FALSE,
                            !.isRemoteReset = FALSE, !.pSegments = FALSE, !.txMode = "Idle",
                            !.pending = p, !.pPriState = "Idle",
                            !.pSecState = "NotReset", !.status = "UNRESET", !.isSending = FALSE]
             c == Cancel(d, "response")
             e == Cancel(c, "keepAlive")
  <1>1. p \in [Sides -> Frame \cup {NoFrame}]
    OBVIOUS
  <1>2. OnLowerLayerDown(l) = IF ~l.isOnline THEN l ELSE e
    BY DEF OnLowerLayerDown
  <1> HIDE DEF p
  <1>3. d \in Station /\ ~d.pSegments /\ d.pPriState = "Idle"
    BY <1>1 DEF LInv, Station, PriState, SecState
  <1> HIDE DEF d
  <1>4. c \in Station /\ SameSend(d, c)
    BY <1>3, CancelEffect DEF Timers
  <1> HIDE DEF c
  <1>5. e \in Station /\ SameSend(c, e)
    BY <1>4, CancelEffect DEF Timers
  <1> HIDE DEF e
  <1>6. LInv(e)
    BY <1>3, <1>4, <1>5 DEF LInv, HasSegments, Sending, Timed, SameSend, UsesSegments,
                            PriResponseWait
  <1> QED
    BY <1>2, <1>6

\* IOHandler's own members do not enter the invariant.
LEMMA ChannelInv ==
    ASSUME NEW l, LInv(l), NEW x \in BOOLEAN
    PROVE  LInv([l EXCEPT !.channel = x])
  <1> DEFINE d == [l EXCEPT !.channel = x]
  <1>1. d \in Station /\ SamePri(l, d)
    BY DEF LInv, Station, SamePri, SameSend
  <1> HIDE DEF d
  <1>2. LInv(d)
    BY <1>1, SameInv
  <1> QED
    BY <1>2 DEF d

LEMMA TxQueueInv ==
    ASSUME NEW l, LInv(l), NEW q \in Seq(Transmission)
    PROVE  LInv([l EXCEPT !.txQueue = q])
  <1> DEFINE d == [l EXCEPT !.txQueue = q]
  <1>1. d \in Station /\ SamePri(l, d)
    BY DEF LInv, Station, SamePri, SameSend
  <1> HIDE DEF d
  <1>2. LInv(d)
    BY <1>1, SameInv
  <1> QED
    BY <1>2 DEF d

LEMMA EnabledInv ==
    ASSUME NEW l, LInv(l), NEW x \in BOOLEAN
    PROVE  LInv([l EXCEPT !.enabled = x])
  <1> DEFINE d == [l EXCEPT !.enabled = x]
  <1>1. d \in Station /\ SamePri(l, d)
    BY DEF LInv, Station, SamePri, SameSend
  <1> HIDE DEF d
  <1>2. LInv(d)
    BY <1>1, SameInv
  <1> QED
    BY <1>2 DEF d

\* IOHandler::Reset
LEMMA ResetInv ==
    ASSUME NEW l, LInv(l)
    PROVE  LInv(Reset(l))
  <1> DEFINE d == IF l.channel THEN OnLowerLayerDown(l) ELSE l
  <1>1. LInv(d)
    BY OnLowerLayerDownInv
  <1> DEFINE c == [d EXCEPT !.channel = FALSE]
             e == [c EXCEPT !.txQueue = <<>>]
  <1>2. Reset(l) = e
    BY DEF Reset
  <1> HIDE DEF d
  <1>3. LInv(c)
    BY <1>1, ChannelInv
  <1> HIDE DEF c
  <1>4. <<>> \in Seq(Transmission)
    OBVIOUS
  <1>5. LInv(e)
    BY <1>3, <1>4, TxQueueInv
  <1> QED
    BY <1>2, <1>5

\* IOHandler::OnNewChannel
LEMMA OnNewChannelInv ==
    ASSUME NEW l, LInv(l), NEW m \in Seq(Segment)
    PROVE  LInv(OnNewChannel(l, m))
  <1> DEFINE r == Reset(l)
             o == [r EXCEPT !.channel = TRUE]
  <1>1. LInv(r)
    BY ResetInv
  <1> HIDE DEF r
  <1>2. LInv(o)
    BY <1>1, ChannelInv
  <1> HIDE DEF o
  <1> QED
    BY <1>2, OnLowerLayerUpInv DEF OnNewChannel, r, o

\* IOHandler::OnWriteComplete
LEMMA OnWriteCompleteInv ==
    ASSUME NEW l, LInv(l), l.txQueue # <<>>
    PROVE  LInv(OnWriteComplete(l))
  <1> DEFINE q == Tail(l.txQueue)
             d == [l EXCEPT !.txQueue = q]
  <1>1. q \in Seq(Transmission)
    BY DEF LInv, Station
  <1>2. OnWriteComplete(l) = OnTxReady(d)
    BY DEF OnWriteComplete
  <1> HIDE DEF q
  <1>3. LInv(d)
    BY <1>1, TxQueueInv
  <1> HIDE DEF d
  <1> QED
    BY <1>2, <1>3, OnTxReadyInv

\* IOHandler::Enable
LEMMA EnableSessionInv ==
    ASSUME NEW l, LInv(l), NEW m \in Seq(Segment)
    PROVE  LInv(EnableSession(l, m))
  <1> DEFINE d == [l EXCEPT !.enabled = TRUE]
  <1>1. LInv(d)
    BY EnabledInv
  <1> HIDE DEF d
  <1> QED
    BY <1>1, OnLowerLayerUpInv DEF EnableSession, d

\* IOHandler::Disable
LEMMA DisableSessionInv ==
    ASSUME NEW l, LInv(l)
    PROVE  LInv(DisableSession(l))
  <1> DEFINE d == [l EXCEPT !.enabled = FALSE]
             w == IF l.channel THEN OnLowerLayerDown(d) ELSE d
  <1>1. LInv(d)
    BY EnabledInv
  <1> HIDE DEF d
  <1>2. LInv(w) /\ LInv(Reset(w))
    BY <1>1, OnLowerLayerDownInv, ResetInv
  <1>3. DisableSession(l) = IF Shared THEN w ELSE Reset(w)
    BY DEF DisableSession, d
  <1> HIDE DEF w
  <1> QED
    BY <1>2, <1>3

-----------------------------------------------------------------------------
(***************************************************************************)
(* A link that is up or down, with a channel of its own.                   *)
(*                                                                         *)
(* Within a handler the primary station is between states: Mid says what   *)
(* holds then, Works what holds after it.                                  *)
(***************************************************************************)

\* A transmission of the side is being written or is pending.
Has(l, side) == l.txMode = side \/ l.pending[side] # NoFrame

\* One transmission is written at a time, what is pending waits for that of the other
\* side, and both are still in the buffers.
Wire(l) ==
    /\ \A s \in Sides : l.pending[s] # NoFrame => l.txMode \notin {"Idle", s}
    /\ IF l.txMode = "Idle" THEN l.txQueue = <<>>
       ELSE Len(l.txQueue) = 1 /\ l.txQueue[1].side = l.txMode
    /\ \A s \in Sides : l.pending[s] # NoFrame => l.pending[s] = l.txBuffer[s]
    /\ \A i \in 1..Len(l.txQueue) : l.txQueue[i].frame = l.txBuffer[l.txQueue[i].side]

PriDue(l) == l.pPriState \in PriTransmitWait <=> Has(l, "Primary")

SecDue(l) == l.pSecState \in SecTransmitWait <=> Has(l, "Secondary")

\* The transport layer and the link layer agree on whether there is a send.
Once(l) ==
    /\ l.isSending <=> l.pSegments \/ l.posted > 0
    /\ l.posted <= IF l.pSegments THEN 0 ELSE 1

Alive(l) == l.isOnline /\ l.channel /\ l.enabled /\ l.orphans["keepAlive"] = 0

\* A link that is down has nothing to send or to wait for.
Still(l) ==
    /\ ~l.isOnline /\ ~l.keepAliveTimeout /\ ~l.pSegments /\ ~l.isSending /\ l.posted = 0
    /\ l.pPriState = "Idle" /\ l.pSecState = "NotReset"
    /\ l.txMode = "Idle" /\ \A s \in Sides : l.pending[s] = NoFrame
    /\ l.timer["keepAlive"] = "none" /\ l.orphans["keepAlive"] = 0

Works(l) == Alive(l) /\ Wire(l) /\ PriDue(l) /\ SecDue(l) /\ Once(l)

Asleep(l) == Still(l) /\ ~l.channel /\ l.txQueue = <<>>

\* The inductive invariant, on a station.
DInv(l) == LInv(l) /\ (Works(l) \/ Asleep(l))

\* The primary station is between two states.
Mid(l) == l \in Station /\ Alive(l) /\ Wire(l) /\ ~Has(l, "Primary") /\ SecDue(l) /\ Once(l)

-----------------------------------------------------------------------------
(***************************************************************************)
(* The parts of a station that a handler leaves alone.                     *)
(***************************************************************************)
SameLink(l, d) ==
    /\ d.isOnline = l.isOnline /\ d.channel = l.channel /\ d.enabled = l.enabled
    /\ d.orphans["keepAlive"] = l.orphans["keepAlive"]

SameSec(l, d) == d.pSecState = l.pSecState

SameUse(l, d) ==
    /\ SameLink(l, d)
    /\ d.pSegments = l.pSegments /\ d.posted = l.posted /\ d.isSending = l.isSending

SameTx(l, d) ==
    /\ d.txMode = l.txMode /\ d.txBuffer = l.txBuffer
    /\ d.pending = l.pending /\ d.txQueue = l.txQueue

Same(l, d) == d \in Station /\ SameSec(l, d) /\ SameUse(l, d) /\ SameTx(l, d)

LEMMA SameMid ==
    ASSUME NEW l, NEW d, Mid(l), Same(l, d)
    PROVE  Mid(d)
  BY DEF Mid, Same, SameSec, SameUse, SameLink, SameTx, Alive, Wire, Has, SecDue, Once

LEMMA SameWorks ==
    ASSUME NEW l, NEW d, Works(l), Same(l, d), d.pPriState = l.pPriState
    PROVE  Works(d)
  BY DEF Works, Same, SameSec, SameUse, SameLink, SameTx, Alive, Wire, Has, PriDue, SecDue, Once

\* A primary station that waits for no transmission has none.
LEMMA WorksMid ==
    ASSUME NEW l \in Station, Works(l), l.pPriState \notin PriTransmitWait
    PROVE  Mid(l)
  BY DEF Works, Mid, PriDue

\* It may go to any state that waits for none.
LEMMA MidMove ==
    ASSUME NEW l, Mid(l), NEW p, p \notin PriTransmitWait
    PROVE  Works([l EXCEPT !.pPriState = p])
  <1> DEFINE d == [l EXCEPT !.pPriState = p]
  <1>1. /\ SameSec(l, d) /\ SameUse(l, d) /\ SameTx(l, d) /\ d.pPriState = p
    BY DEF Mid, Station, SameSec, SameUse, SameLink, SameTx
  <1> HIDE DEF d
  <1>2. Works(d)
    BY <1>1 DEF Mid, Works, SameSec, SameUse, SameLink, SameTx, Alive, Wire, Has, PriDue, SecDue, Once
  <1> QED
    BY <1>2 DEF d

-----------------------------------------------------------------------------
(***************************************************************************)
(* The transmit queue.                                                     *)
(***************************************************************************)

LEMMA NoFrameType == NoFrame \notin Frame
  BY DEF NoFrame, Frame, SecFunction, PriFunction

\* IOHandler::BeginTransmit
LEMMA BeginWriteFields ==
    ASSUME NEW l \in Station, l.channel, NEW side \in Sides, NEW f \in Frame
    PROVE  LET d == BeginWrite(l, side, f)
           IN  /\ d \in Station /\ SameSec(l, d) /\ SameUse(l, d) /\ d.pPriState = l.pPriState
               /\ d.txMode = side /\ d.txBuffer = l.txBuffer /\ d.pending = l.pending
               /\ d.txQueue = Append(l.txQueue, [side |-> side, frame |-> f])
  <1> DEFINE q == Append(l.txQueue, [side |-> side, frame |-> f])
             d == [l EXCEPT !.txMode = side, !.txQueue = q]
  <1>1. BeginWrite(l, side, f) = d
    BY DEF BeginWrite
  <1>2. d \in Station
    BY <1>1, BeginWriteEffect
  <1> HIDE DEF q
  <1>3. /\ SameSec(l, d) /\ SameUse(l, d) /\ d.pPriState = l.pPriState
        /\ d.txMode = side /\ d.txBuffer = l.txBuffer /\ d.pending = l.pending
        /\ d.txQueue = q
    BY DEF Station, SameSec, SameUse, SameLink
  <1> HIDE DEF d
  <1> QED
    BY <1>1, <1>2, <1>3 DEF q

\* A station that has no transmission gets one, and the other keeps what it has.
LEMMA QueueTransmitWorks ==
    ASSUME NEW l \in Station, l.channel, Wire(l), NEW side \in Sides, ~Has(l, side),
           NEW f \in Frame
    PROVE  LET d == QueueTransmit(l, side, f)
           IN  /\ d \in Station /\ SameSec(l, d) /\ SameUse(l, d) /\ d.pPriState = l.pPriState
               /\ Wire(d) /\ Has(d, side)
               /\ \A s \in Sides : s # side => (Has(d, s) <=> Has(l, s))
  <1> DEFINE x == [l.txBuffer EXCEPT ![side] = f]
             e == [l EXCEPT !.txBuffer = x]
             r == [side |-> side, frame |-> f]
             w == BeginWrite(e, side, f)
             p == [l.pending EXCEPT ![side] = f]
             y == [e EXCEPT !.pending = p]
  <1>1. /\ l.txBuffer \in [Sides -> Frame \cup {NoFrame}]
        /\ l.pending \in [Sides -> Frame \cup {NoFrame}]
        /\ l.txMode \in {"Idle"} \cup Sides /\ "Idle" \notin Sides
    BY DEF Station, Sides
  <1>2. /\ x \in [Sides -> Frame \cup {NoFrame}] /\ x[side] = f
        /\ \A s \in Sides : s # side => x[s] = l.txBuffer[s]
    BY <1>1
  <1>3. /\ p \in [Sides -> Frame \cup {NoFrame}] /\ p[side] = f /\ p[side] # NoFrame
        /\ \A s \in Sides : s # side => p[s] = l.pending[s]
    BY <1>1, NoFrameType
  <1>4. QueueTransmit(l, side, f) = IF l.txMode = "Idle" THEN w ELSE y
    BY DEF QueueTransmit, Station
  <1> HIDE DEF x, p
  <1>5. /\ e \in Station /\ SameSec(l, e) /\ SameUse(l, e) /\ e.pPriState = l.pPriState
        /\ e.txMode = l.txMode /\ e.txBuffer = x /\ e.pending = l.pending
        /\ e.txQueue = l.txQueue
    BY <1>2 DEF Station, SameSec, SameUse, SameLink
  <1> HIDE DEF e
  <1>6. CASE l.txMode = "Idle"
    <2>1. /\ w \in Station /\ SameSec(e, w) /\ SameUse(e, w) /\ w.pPriState = e.pPriState
          /\ w.txMode = side /\ w.txBuffer = e.txBuffer /\ w.pending = e.pending
          /\ w.txQueue = Append(e.txQueue, r)
      BY <1>5, BeginWriteFields DEF SameUse, SameLink
    <2>2. l.txQueue = <<>> /\ \A s \in Sides : l.pending[s] = NoFrame
      BY <1>6 DEF Wire
    <2> HIDE DEF w
    <2>3. w.txQueue = <<r>> /\ Len(w.txQueue) = 1 /\ w.txQueue[1] = r
      BY <1>5, <2>1, <2>2
    <2>4. Wire(w)
      BY <1>1, <1>2, <1>5, <2>1, <2>2, <2>3 DEF Wire
    <2>5. Has(w, side) /\ \A s \in Sides : s # side => ~Has(w, s) /\ ~Has(l, s)
      BY <1>1, <1>5, <1>6, <2>1, <2>2 DEF Has
    <2> QED
      BY <1>4, <1>5, <1>6, <2>1, <2>4, <2>5 DEF SameSec, SameUse, SameLink
  <1>7. CASE l.txMode # "Idle"
    <2>1. /\ y \in Station /\ SameSec(e, y) /\ SameUse(e, y) /\ y.pPriState = e.pPriState
          /\ y.txMode = e.txMode /\ y.txBuffer = e.txBuffer /\ y.pending = p
          /\ y.txQueue = e.txQueue
      BY <1>3, <1>5 DEF Station, SameSec, SameUse, SameLink
    <2> HIDE DEF y
    <2>2. l.txMode \in Sides /\ l.txMode # side
      BY <1>1, <1>7 DEF Has
    <2>3. Wire(y)
      <3>1. \A s \in Sides : y.pending[s] # NoFrame => y.txMode \notin {"Idle", s}
        BY <1>1, <1>3, <1>5, <2>1, <2>2 DEF Wire
      <3>2. Len(y.txQueue) = 1 /\ y.txQueue[1].side = y.txMode
        BY <1>5, <1>7, <2>1 DEF Wire
      <3>3. \A s \in Sides : y.pending[s] # NoFrame => y.pending[s] = y.txBuffer[s]
        BY <1>2, <1>3, <1>5, <2>1 DEF Wire
      <3>4. \A i \in 1..Len(y.txQueue) : y.txQueue[i].frame = y.txBuffer[y.txQueue[i].side]
        <4>1. l.txQueue[1].frame = l.txBuffer[l.txMode]
          BY <1>5, <1>7, <2>1, <3>2 DEF Wire
        <4> QED
          BY <1>2, <1>5, <2>1, <2>2, <3>2, <4>1
      <3> QED
        BY <1>7, <1>5, <2>1, <3>1, <3>2, <3>3, <3>4 DEF Wire
    <2>4. Has(y, side) /\ \A s \in Sides : s # side => (Has(y, s) <=> Has(l, s))
      BY <1>3, <1>5, <2>1 DEF Has
    <2> QED
      BY <1>4, <1>5, <1>7, <2>1, <2>3, <2>4 DEF SameSec, SameUse, SameLink
  <1> QED
    BY <1>6, <1>7

\* LinkContext::TryPendingTx with nothing under way: what is pending is written.
LEMMA TryPendingFields ==
    ASSUME NEW l \in Station, l.channel, NEW side \in Sides
    PROVE  LET d == TryPendingTx(l, side)
           IN  /\ d \in Station /\ SameSec(l, d) /\ SameUse(l, d) /\ d.pPriState = l.pPriState
               /\ d.txBuffer = l.txBuffer
               /\ IF l.txMode = "Idle" /\ l.pending[side] # NoFrame
                  THEN /\ d.txMode = side /\ d.pending[side] = NoFrame
                       /\ \A s \in Sides : s # side => d.pending[s] = l.pending[s]
                       /\ d.txQueue = Append(l.txQueue, [side |-> side, frame |-> l.pending[side]])
                  ELSE SameTx(l, d)
  <1>1. CASE l.txMode = "Idle" /\ l.pending[side] # NoFrame
    <2> DEFINE f == l.pending[side]
               w == BeginWrite(l, side, f)
               p == [w.pending EXCEPT ![side] = NoFrame]
               d == [w EXCEPT !.pending = p]
    <2>1. f \in Frame
      BY <1>1 DEF Station
    <2>2. /\ w \in Station /\ SameSec(l, w) /\ SameUse(l, w) /\ w.pPriState = l.pPriState
          /\ w.txMode = side /\ w.txBuffer = l.txBuffer /\ w.pending = l.pending
          /\ w.txQueue = Append(l.txQueue, [side |-> side, frame |-> f])
      BY <2>1, BeginWriteFields
    <2>3. TryPendingTx(l, side) = d
      BY <1>1 DEF TryPendingTx
    <2> HIDE DEF w
    <2>4. /\ p \in [Sides -> Frame \cup {NoFrame}] /\ p[side] = NoFrame
          /\ \A s \in Sides : s # side => p[s] = l.pending[s]
      BY <2>2 DEF Station
    <2> HIDE DEF p
    <2>5. /\ d \in Station /\ SameSec(w, d) /\ SameUse(w, d) /\ d.pPriState = w.pPriState
          /\ d.txMode = w.txMode /\ d.txBuffer = w.txBuffer /\ d.pending = p
          /\ d.txQueue = w.txQueue
      BY <2>2, <2>4 DEF Station, SameSec, SameUse, SameLink
    <2> HIDE DEF d, f
    <2> QED
      BY <1>1, <2>2, <2>3, <2>4, <2>5 DEF SameSec, SameUse, SameLink, f
  <1>2. CASE ~(l.txMode = "Idle" /\ l.pending[side] # NoFrame)
    BY <1>2 DEF TryPendingTx, SameSec, SameUse, SameLink, SameTx
  <1> QED
    BY <1>1, <1>2

\* The end of a write: the side that was written has no transmission any more, and the
\* other side's, if it was pending, is written now.
Written(l) == TryPendingTx(TryPendingTx([l EXCEPT !.txMode = "Idle"], "Secondary"), "Primary")

LEMMA WrittenEffect ==
    ASSUME NEW l \in Station, l.channel, l.txMode \in Sides, l.txQueue = <<>>,
           \A s \in Sides : l.pending[s] # NoFrame => s # l.txMode /\ l.pending[s] = l.txBuffer[s]
    PROVE  LET d == Written(l)
           IN  /\ d \in Station /\ SameSec(l, d) /\ SameUse(l, d) /\ d.pPriState = l.pPriState
               /\ Wire(d) /\ ~Has(d, l.txMode)
               /\ \A s \in Sides : s # l.txMode => (Has(d, s) <=> Has(l, s))
  <1> DEFINE i == [l EXCEPT !.txMode = "Idle"]
             a == TryPendingTx(i, "Secondary")
             d == TryPendingTx(a, "Primary")
             r(s) == [side |-> s, frame |-> l.pending[s]]
  <1>1. "Idle" \notin Sides /\ "Primary" \in Sides /\ "Secondary" \in Sides
        /\ \A s \in Sides : s = "Primary" \/ s = "Secondary"
    BY DEF Sides
  <1>2. /\ i \in Station /\ SameSec(l, i) /\ SameUse(l, i) /\ i.pPriState = l.pPriState
        /\ i.txMode = "Idle" /\ i.txBuffer = l.txBuffer /\ i.pending = l.pending
        /\ i.txQueue = <<>> /\ i.channel
    BY DEF Station, SameSec, SameUse, SameLink
  <1> HIDE DEF i
  <1>3. /\ a \in Station /\ SameSec(i, a) /\ SameUse(i, a) /\ a.pPriState = i.pPriState
        /\ a.txBuffer = i.txBuffer
        /\ IF i.pending["Secondary"] # NoFrame
           THEN /\ a.txMode = "Secondary" /\ a.pending["Secondary"] = NoFrame
                /\ a.pending["Primary"] = i.pending["Primary"]
                /\ a.txQueue = Append(i.txQueue, [side |-> "Secondary", frame |-> i.pending["Secondary"]])
           ELSE SameTx(i, a)
    BY <1>1, <1>2, TryPendingFields
  <1> HIDE DEF a
  <1>4. /\ d \in Station /\ SameSec(a, d) /\ SameUse(a, d) /\ d.pPriState = a.pPriState
        /\ d.txBuffer = a.txBuffer
        /\ IF a.txMode = "Idle" /\ a.pending["Primary"] # NoFrame
           THEN /\ d.txMode = "Primary" /\ d.pending["Primary"] = NoFrame
                /\ d.pending["Secondary"] = a.pending["Secondary"]
                /\ d.txQueue = Append(a.txQueue, [side |-> "Primary", frame |-> a.pending["Primary"]])
           ELSE SameTx(a, d)
    <2>1. a.channel
      BY <1>2, <1>3 DEF SameUse, SameLink
    <2> QED
      BY <1>1, <1>3, <2>1, TryPendingFields
  <1>5. Written(l) = d
    BY DEF Written, a, i
  <1> HIDE DEF d
  <1>6. SameSec(l, d) /\ SameUse(l, d) /\ d.pPriState = l.pPriState /\ d.txBuffer = l.txBuffer
    BY <1>2, <1>3, <1>4 DEF SameSec, SameUse, SameLink
  <1>7. CASE l.pending["Secondary"] # NoFrame
    <2>1. l.txMode = "Primary" /\ l.pending["Primary"] = NoFrame
      BY <1>1, <1>7
    <2>2. /\ d.txMode = "Secondary" /\ d.pending["Secondary"] = NoFrame
          /\ d.pending["Primary"] = NoFrame /\ d.txQueue = <<r("Secondary")>>
      BY <1>2, <1>3, <1>4, <1>7, <2>1 DEF SameTx
    <2>3. d.txQueue[1] = r("Secondary") /\ Len(d.txQueue) = 1
      BY <2>2
    <2>4. Wire(d)
      BY <1>1, <1>6, <1>7, <2>2, <2>3 DEF Wire
    <2>5. ~Has(d, "Primary") /\ Has(d, "Secondary") /\ Has(l, "Secondary")
      BY <1>7, <2>2 DEF Has
    <2> QED
      BY <1>1, <1>4, <1>5, <1>6, <2>1, <2>4, <2>5
  <1>8. CASE l.pending["Secondary"] = NoFrame /\ l.pending["Primary"] # NoFrame
    <2>1. l.txMode = "Secondary"
      BY <1>1, <1>8
    <2>2. /\ d.txMode = "Primary" /\ d.pending["Secondary"] = NoFrame
          /\ d.pending["Primary"] = NoFrame /\ d.txQueue = <<r("Primary")>>
      BY <1>2, <1>3, <1>4, <1>8 DEF SameTx
    <2>3. d.txQueue[1] = r("Primary") /\ Len(d.txQueue) = 1
      BY <2>2
    <2>4. Wire(d)
      BY <1>1, <1>6, <1>8, <2>2, <2>3 DEF Wire
    <2>5. Has(d, "Primary") /\ ~Has(d, "Secondary") /\ Has(l, "Primary")
      BY <1>8, <2>2 DEF Has
    <2> QED
      BY <1>1, <1>4, <1>5, <1>6, <2>1, <2>4, <2>5
  <1>9. CASE l.pending["Secondary"] = NoFrame /\ l.pending["Primary"] = NoFrame
    <2>1. /\ d.txMode = "Idle" /\ d.pending["Secondary"] = NoFrame
          /\ d.pending["Primary"] = NoFrame /\ d.txQueue = <<>>
      BY <1>2, <1>3, <1>4, <1>9 DEF SameTx
    <2>2. Wire(d)
      BY <1>1, <2>1 DEF Wire
    <2>3. \A s \in Sides : ~Has(d, s) /\ (s # l.txMode => ~Has(l, s))
      BY <1>1, <1>9, <2>1 DEF Has
    <2> QED
      BY <1>4, <1>5, <1>6, <2>2, <2>3
  <1> QED
    BY <1>7, <1>8, <1>9

-----------------------------------------------------------------------------
(***************************************************************************)
(* Primary station.                                                        *)
(***************************************************************************)

\* A frame is queued and its transmission waited for.
LEMMA QueuePrimary ==
    ASSUME NEW l, Mid(l), NEW f \in Frame, NEW p \in PriTransmitWait
    PROVE  Works([QueueTransmit(l, "Primary", f) EXCEPT !.pPriState = p])
  <1> DEFINE e == QueueTransmit(l, "Primary", f)
             d == [e EXCEPT !.pPriState = p]
  <1>1. /\ e \in Station /\ SameSec(l, e) /\ SameUse(l, e)
        /\ Wire(e) /\ Has(e, "Primary") /\ (Has(e, "Secondary") <=> Has(l, "Secondary"))
    BY QueueTransmitWorks DEF Mid, Alive, Sides
  <1> HIDE DEF e
  <1>2. SameSec(e, d) /\ SameUse(e, d) /\ SameTx(e, d) /\ d.pPriState = p
    BY <1>1 DEF Station, SameSec, SameUse, SameLink, SameTx
  <1> HIDE DEF d
  <1>3. Wire(d) /\ Has(d, "Primary") /\ (Has(d, "Secondary") <=> Has(l, "Secondary"))
    BY <1>1, <1>2 DEF SameTx, Wire, Has
  <1>4. SecDue(d) /\ PriDue(d)
    BY <1>1, <1>2, <1>3 DEF Mid, SecDue, PriDue, SameSec
  <1>5. Alive(d) /\ Once(d)
    BY <1>1, <1>2 DEF Mid, Alive, Once, SameUse, SameLink
  <1> QED
    BY <1>3, <1>4, <1>5 DEF Works, d, e

LEMMA QueueResetLinksWorks ==
    ASSUME NEW l, Mid(l)
    PROVE  Works(QueueResetLinks(l))
  BY QueuePrimary, PlainType DEF QueueResetLinks, PriFunction, PriTransmitWait

LEMMA QueueSegmentWorks ==
    ASSUME NEW l, Mid(l), l.segments # <<>>
    PROVE  Works(QueueConfirmed(l)) /\ Works(QueueUnconfirmed(l))
  <1> DEFINE f == UserData("CONFIRMED_USER_DATA", l.nextWriteFCB, Head(l.segments))
             g == UserData("UNCONFIRMED_USER_DATA", FALSE, Head(l.segments))
  <1>1. Head(l.segments) \in Segment /\ l.nextWriteFCB \in BOOLEAN
    BY DEF Mid, Station
  <1>2. f \in Frame /\ g \in Frame
    BY <1>1, UserDataType DEF PriFunction
  <1>3. /\ QueueConfirmed(l) = [QueueTransmit(l, "Primary", f) EXCEPT !.pPriState = "ConfUserDataTransmitWait"]
        /\ QueueUnconfirmed(l) = [QueueTransmit(l, "Primary", g) EXCEPT !.pPriState = "SendUnconfirmedTransmitWait"]
    BY DEF QueueConfirmed, QueueUnconfirmed
  <1> HIDE DEF f, g
  <1>4. /\ "ConfUserDataTransmitWait" \in PriTransmitWait
        /\ "SendUnconfirmedTransmitWait" \in PriTransmitWait
    BY DEF PriTransmitWait
  <1>5. Works(QueueConfirmed(l))
    BY <1>2, <1>3, <1>4, QueuePrimary
  <1>6. Works(QueueUnconfirmed(l))
    BY <1>2, <1>3, <1>4, QueuePrimary
  <1> QED
    BY <1>5, <1>6

\* The one send in progress is completed once.
LEMMA CompleteWorks ==
    ASSUME NEW l, Mid(l), l.pSegments
    PROVE  Works(CompleteSendOperation(l))
  <1> DEFINE n == l.posted + 1
             d == [l EXCEPT !.pSegments = FALSE, !.posted = n, !.pPriState = "Idle"]
  <1>1. l.posted = 0 /\ l.isSending /\ n = 1
    BY DEF Mid, Station, Once
  <1>2. CompleteSendOperation(l) = d
    BY DEF CompleteSendOperation
  <1> HIDE DEF n
  <1>3. /\ SameSec(l, d) /\ SameLink(l, d) /\ SameTx(l, d) /\ d.isSending = l.isSending
        /\ ~d.pSegments /\ d.posted = n /\ d.pPriState = "Idle"
    BY DEF Mid, Station, SameSec, SameLink, SameTx
  <1> HIDE DEF d
  <1>4. Once(d)
    BY <1>1, <1>3 DEF Once
  <1>5. Works(d)
    BY <1>3, <1>4 DEF Mid, Works, SameSec, SameLink, SameTx, Alive, Wire, Has, PriDue, SecDue,
                      PriTransmitWait
  <1> QED
    BY <1>2, <1>5

\* Changes that nothing of this depends on.
LEMMA MinorSame ==
    ASSUME NEW l \in Station
    PROVE  /\ Same(l, ResetRetry(l))
           /\ \A x \in {"UNRESET", "RESET"} : Same(l, [l EXCEPT !.status = x])
           /\ \A x \in BOOLEAN : Same(l, [l EXCEPT !.keepAliveTimeout = x])
           /\ \A x \in BOOLEAN : Same(l, [l EXCEPT !.nextReadFCB = x])
           /\ \A x \in BOOLEAN : Same(l, [l EXCEPT !.nextWriteFCB = x])
           /\ Same(l, [l EXCEPT !.isRemoteReset = TRUE, !.nextWriteFCB = TRUE, !.status = "RESET"])
           /\ \A q \in Seq(Segment) : Same(l, [l EXCEPT !.segments = q])
           /\ \A n \in 0..NumRetry : Same(l, [l EXCEPT !.numRetryRemaining = n])
  <1>1. NumRetry \in 0..NumRetry
    BY ConfigAssumption
  <1>2. Same(l, ResetRetry(l))
    BY <1>1 DEF ResetRetry, Same, Station, SameSec, SameUse, SameLink, SameTx
  <1>3. \A x \in {"UNRESET", "RESET"} : Same(l, [l EXCEPT !.status = x])
    BY DEF Same, Station, SameSec, SameUse, SameLink, SameTx
  <1>4. \A x \in BOOLEAN : Same(l, [l EXCEPT !.keepAliveTimeout = x])
    BY DEF Same, Station, SameSec, SameUse, SameLink, SameTx
  <1>5. \A x \in BOOLEAN : Same(l, [l EXCEPT !.nextReadFCB = x])
    BY DEF Same, Station, SameSec, SameUse, SameLink, SameTx
  <1>6. \A x \in BOOLEAN : Same(l, [l EXCEPT !.nextWriteFCB = x])
    BY DEF Same, Station, SameSec, SameUse, SameLink, SameTx
  <1>7. Same(l, [l EXCEPT !.isRemoteReset = TRUE, !.nextWriteFCB = TRUE, !.status = "RESET"])
    BY DEF Same, Station, SameSec, SameUse, SameLink, SameTx
  <1>8. \A q \in Seq(Segment) : Same(l, [l EXCEPT !.segments = q])
    BY DEF Same, Station, SameSec, SameUse, SameLink, SameTx
  <1>9. \A n \in 0..NumRetry : Same(l, [l EXCEPT !.numRetryRemaining = n])
    BY DEF Same, Station, SameSec, SameUse, SameLink, SameTx
  <1> QED
    BY <1>2, <1>3, <1>4, <1>5, <1>6, <1>7, <1>8, <1>9

\* The response timer is started, cancelled, or its callback runs.
LEMMA ResponseTimerSame ==
    ASSUME NEW l \in Station
    PROVE  /\ Same(l, Start(l, "response")) /\ Same(l, Cancel(l, "response"))
           /\ l.timer["response"] = "expired" \/ l.orphans["response"] > 0
                => Same(l, Fired(l, "response"))
  <1>1. "response" \in Timers /\ "keepAlive" \in Timers
    BY DEF Timers
  <1>2. /\ l.timer \in [Timers -> TimerStates] /\ l.orphans \in [Timers -> Nat]
    BY DEF Station
  <1>3. ASSUME NEW x \in [Timers -> TimerStates], NEW y \in [Timers -> Nat],
               y["keepAlive"] = l.orphans["keepAlive"]
        PROVE  Same(l, [l EXCEPT !.timer = x, !.orphans = y])
    BY <1>3 DEF Same, Station, SameSec, SameUse, SameLink, SameTx
  <1>4. ASSUME NEW x \in [Timers -> TimerStates]
        PROVE  Same(l, [l EXCEPT !.timer = x])
    BY DEF Same, Station, SameSec, SameUse, SameLink, SameTx
  <1>5. Same(l, l)
    BY DEF Same, SameSec, SameUse, SameLink, SameTx
  <1>6. Same(l, Start(l, "response"))
    <2> DEFINE x == [l.timer EXCEPT !["response"] = "running"]
    <2>1. x \in [Timers -> TimerStates]
      BY <1>2 DEF TimerStates
    <2>2. Start(l, "response") = IF l.timer["response"] = "none" THEN [l EXCEPT !.timer = x] ELSE l
      BY DEF Start
    <2> HIDE DEF x
    <2> QED
      BY <1>4, <1>5, <2>1, <2>2
  <1>7. ASSUME NEW n \in Nat
        PROVE  Same(l, [l EXCEPT !.timer["response"] = "none", !.orphans["response"] = n])
    <2> DEFINE x == [l.timer EXCEPT !["response"] = "none"]
               y == [l.orphans EXCEPT !["response"] = n]
    <2>1. /\ x \in [Timers -> TimerStates] /\ y \in [Timers -> Nat]
          /\ y["keepAlive"] = l.orphans["keepAlive"]
      BY <1>1, <1>2 DEF TimerStates
    <2>2. [l EXCEPT !.timer["response"] = "none", !.orphans["response"] = n]
            = [l EXCEPT !.timer = x, !.orphans = y]
      OBVIOUS
    <2> HIDE DEF x, y
    <2> QED
      BY <1>3, <2>1, <2>2
  <1>8. Same(l, Cancel(l, "response"))
    <2> DEFINE n == IF l.timer["response"] = "expired" THEN l.orphans["response"] + 1
                    ELSE l.orphans["response"]
    <2>1. n \in Nat
      BY <1>1, <1>2
    <2>2. Cancel(l, "response") = [l EXCEPT !.timer["response"] = "none", !.orphans["response"] = n]
      BY DEF Cancel
    <2> HIDE DEF n
    <2> QED
      BY <1>7, <2>1, <2>2
  <1>9. ASSUME l.timer["response"] = "expired" \/ l.orphans["response"] > 0
        PROVE  Same(l, Fired(l, "response"))
    <2> DEFINE n == IF l.timer["response"] = "none" THEN l.orphans["response"] - 1
                    ELSE l.orphans["response"]
    <2>1. n \in Nat
      BY <1>1, <1>2, <1>9
    <2>2. Fired(l, "response") = [l EXCEPT !.timer["response"] = "none", !.orphans["response"] = n]
      BY DEF Fired
    <2> HIDE DEF n
    <2> QED
      BY <1>7, <2>1, <2>2
  <1> QED
    BY <1>6, <1>8, <1>9

\* PLLS_Idle starts a send.
LEMMA TrySendSegmentsWorks ==
    ASSUME NEW l, LInv(l), Works(l), l.pSegments
    PROVE  Works(TrySendSegments(l))
  <1>1. l \in Station /\ l.segments # <<>>
    BY DEF LInv, HasSegments
  <1>2. CASE l.pPriState = "Idle"
    <2> DEFINE r == ResetRetry(l)
    <2>1. Mid(l)
      BY <1>1, <1>2, WorksMid DEF PriTransmitWait
    <2>2. Same(l, r) /\ r.segments = l.segments
      BY <1>1, MinorSame, ResetRetryEffect DEF SamePri, SameSend
    <2> HIDE DEF r
    <2>3. Mid(r) /\ r.segments # <<>>
      BY <1>1, <2>1, <2>2, SameMid
    <2>4. /\ Works(QueueConfirmed(r)) /\ Works(QueueResetLinks(r)) /\ Works(QueueUnconfirmed(l))
      BY <1>1, <2>1, <2>3, QueueSegmentWorks, QueueResetLinksWorks
    <2> QED
      BY <2>4 DEF TrySendSegments, TrySendConfirmed, r
  <1>3. CASE l.pPriState # "Idle"
    BY <1>3 DEF TrySendSegments
  <1> QED
    BY <1>2, <1>3

\* PLLS_Idle asks for the link status.
LEMMA TrySendRequestLinkStatusWorks ==
    ASSUME NEW l, LInv(l), Works(l)
    PROVE  Works(TrySendRequestLinkStatus(l))
  <1>1. CASE l.pPriState = "Idle"
    <2> DEFINE k == [l EXCEPT !.keepAliveTimeout = FALSE]
               f == Plain("REQUEST_LINK_STATUS")
    <2>1. Mid(l) /\ Same(l, k)
      BY <1>1, WorksMid, MinorSame DEF PriTransmitWait, LInv
    <2> HIDE DEF k
    <2>2. Mid(k) /\ f \in Frame
      BY <2>1, SameMid, PlainType DEF PriFunction
    <2>3. TrySendRequestLinkStatus(l) =
            [QueueTransmit(k, "Primary", f) EXCEPT !.pPriState = "RequestLinkStatusTransmitWait"]
      BY <1>1 DEF TrySendRequestLinkStatus, k
    <2> HIDE DEF f
    <2>4. "RequestLinkStatusTransmitWait" \in PriTransmitWait
      BY DEF PriTransmitWait
    <2>5. Works([QueueTransmit(k, "Primary", f) EXCEPT !.pPriState = "RequestLinkStatusTransmitWait"])
      BY <2>2, <2>4, QueuePrimary
    <2> QED
      BY <2>3, <2>5
  <1>2. CASE l.pPriState # "Idle"
    BY <1>2 DEF TrySendRequestLinkStatus
  <1> QED
    BY <1>1, <1>2

\* LinkContext::TryStartTransmission
LEMMA TryStartWorks ==
    ASSUME NEW l, LInv(l), Works(l)
    PROVE  Works(TryStartTransmission(l))
  <1> DEFINE asked == IF l.keepAliveTimeout THEN TrySendRequestLinkStatus(l) ELSE l
  <1>1. LInv(asked) /\ Works(asked)
    BY TrySendRequestLinkStatusInv, TrySendRequestLinkStatusWorks
  <1>2. TryStartTransmission(l) = IF asked.pSegments THEN TrySendSegments(asked) ELSE asked
    BY DEF TryStartTransmission
  <1> HIDE DEF asked
  <1> QED
    BY <1>1, <1>2, TrySendSegmentsWorks

\* TransportTx::Advance, then the next segment or the end of the send
LEMMA AdvanceWorks ==
    ASSUME NEW l, Mid(l), l.pSegments
    PROVE  l.segments # <<>> => Works(AdvanceConfirmed(l)) /\ Works(AdvanceUnconfirmed(l))
  <1> SUFFICES ASSUME l.segments # <<>>
               PROVE  Works(AdvanceConfirmed(l)) /\ Works(AdvanceUnconfirmed(l))
    OBVIOUS
  <1> DEFINE q == Tail(l.segments)
             d == [l EXCEPT !.segments = q]
  <1>1. q \in Seq(Segment) /\ l \in Station
    BY DEF Mid, Station
  <1>2. Advance(l) = d
    BY DEF Advance
  <1> HIDE DEF q
  <1>3. Same(l, d)
    BY <1>1, MinorSame
  <1> HIDE DEF d
  <1>4. Mid(d) /\ d.pSegments
    BY <1>3, SameMid DEF Same, SameUse
  <1>5. Works(CompleteSendOperation(d))
    BY <1>4, CompleteWorks
  <1>6. d.segments # <<>> => Works(QueueConfirmed(d)) /\ Works(QueueUnconfirmed(d))
    BY <1>4, QueueSegmentWorks
  <1> QED
    BY <1>2, <1>5, <1>6 DEF AdvanceConfirmed, AdvanceUnconfirmed

\* The transmission of a primary station has been written, which leaves it between states.
LEMMA PriOnTxReadyWorks ==
    ASSUME NEW l, LInv(l), Mid(l), l.pPriState \in PriTransmitWait
    PROVE  Works(PriOnTxReady(l))
  <1> DEFINE s == Start(l, "response")
  <1>1. Same(l, s)
    BY ResponseTimerSame DEF Mid
  <1> HIDE DEF s
  <1>2. Mid(s)
    BY <1>1, SameMid
  <1>3. /\ Works([s EXCEPT !.pPriState = "ResetLinkWait"])
        /\ Works([s EXCEPT !.pPriState = "ConfDataWait"])
        /\ Works([s EXCEPT !.pPriState = "RequestLinkStatusWait"])
    BY <1>2, MidMove DEF PriTransmitWait
  <1>4. CASE l.pPriState = "SendUnconfirmedTransmitWait"
    <2>1. l.pSegments /\ l.segments # <<>>
      BY <1>4 DEF LInv, HasSegments, Sending, UsesSegments
    <2>2. PriOnTxReady(l) = AdvanceUnconfirmed(l)
      BY <1>4 DEF PriOnTxReady
    <2> QED
      BY <2>1, <2>2, AdvanceWorks
  <1>5. CASE l.pPriState = "LinkResetTransmitWait"
    BY <1>3, <1>5 DEF PriOnTxReady, s
  <1>6. CASE l.pPriState = "ConfUserDataTransmitWait"
    BY <1>3, <1>6 DEF PriOnTxReady, s
  <1>7. CASE l.pPriState = "RequestLinkStatusTransmitWait"
    BY <1>3, <1>7 DEF PriOnTxReady, s
  <1> QED
    BY <1>4, <1>5, <1>6, <1>7 DEF PriTransmitWait

\* A station that waits for its peer has no transmission, and one that waits with a
\* segment has a send.
LEMMA WaitFacts ==
    ASSUME NEW l, LInv(l), Works(l), l.pPriState \in PriResponseWait
    PROVE  /\ Mid(l)
           /\ l.pPriState \in {"ResetLinkWait", "ConfDataWait"} => l.pSegments /\ l.segments # <<>>
  <1>1. l \in Station /\ l.pPriState \notin PriTransmitWait
    BY DEF LInv, PriResponseWait, PriTransmitWait
  <1> QED
    BY <1>1, WorksMid DEF LInv, HasSegments, Sending, UsesSegments

\* The end of an exchange by a failure, and of one without a message
LEMMA PriFailureWorks ==
    ASSUME NEW l, Mid(l), l.pSegments
    PROVE  Works(PriFailure(l))
  <1> DEFINE c == Cancel(l, "response")
  <1>1. Same(l, c)
    BY ResponseTimerSame DEF Mid
  <1> HIDE DEF c
  <1>2. Mid(c) /\ c.pSegments
    BY <1>1, SameMid DEF Same, SameUse
  <1> QED
    BY <1>2, CompleteWorks DEF PriFailure, c

LEMMA CancelToIdleWorks ==
    ASSUME NEW l, Mid(l)
    PROVE  Works([Cancel(l, "response") EXCEPT !.pPriState = "Idle"])
  <1> DEFINE c == Cancel(l, "response")
  <1>1. Same(l, c)
    BY ResponseTimerSame DEF Mid
  <1> HIDE DEF c
  <1>2. Mid(c)
    BY <1>1, SameMid
  <1> QED
    BY <1>2, MidMove DEF PriTransmitWait, c

\* An ACK arrives.
LEMMA PriOnAckWorks ==
    ASSUME NEW l, LInv(l), Works(l)
    PROVE  Works(PriOnAck(l))
  <1>1. CASE l.pPriState = "ResetLinkWait"
    <2> DEFINE e == [l EXCEPT !.isRemoteReset = TRUE, !.nextWriteFCB = TRUE, !.status = "RESET"]
               c == Cancel(e, "response")
    <2>1. Mid(l) /\ l \in Station /\ l.pSegments /\ l.segments # <<>>
      BY <1>1, WaitFacts DEF LInv, PriResponseWait
    <2>2. Same(l, e) /\ e.segments = l.segments
      BY <2>1, MinorSame DEF Station
    <2> HIDE DEF e
    <2>3. Mid(e)
      BY <2>1, <2>2, SameMid
    <2>4. Same(e, c) /\ c.segments = e.segments
      BY <2>3, ResponseTimerSame, CancelEffect DEF Mid, Timers, SameSend
    <2>5. PriOnAck(l) = QueueConfirmed(c)
      BY <1>1 DEF PriOnAck, e
    <2> HIDE DEF c
    <2>6. Mid(c) /\ c.segments # <<>>
      BY <2>1, <2>2, <2>3, <2>4, SameMid
    <2> QED
      BY <2>5, <2>6, QueueSegmentWorks
  <1>2. CASE l.pPriState = "ConfDataWait"
    <2> DEFINE b == ~l.nextWriteFCB
               e == [l EXCEPT !.nextWriteFCB = b]
               c == Cancel(e, "response")
    <2>1. Mid(l) /\ l \in Station /\ l.pSegments /\ l.segments # <<>>
      BY <1>2, WaitFacts DEF LInv, PriResponseWait
    <2>2. e = [l EXCEPT !.nextWriteFCB = ~@]
      OBVIOUS
    <2>3. Same(l, e)
      BY <2>1, MinorSame
    <2>4. e.segments = l.segments
      BY <2>1 DEF Station
    <2> HIDE DEF e, b
    <2>5. Mid(e)
      BY <2>1, <2>3, SameMid
    <2>6. Same(e, c) /\ c.segments = e.segments
      BY <2>5, ResponseTimerSame, CancelEffect DEF Mid, Timers, SameSend
    <2>7. PriOnAck(l) = AdvanceConfirmed(c)
      BY <1>2, <2>2 DEF PriOnAck
    <2> HIDE DEF c
    <2>8. Mid(c) /\ c.segments # <<>> /\ c.pSegments
      BY <2>1, <2>3, <2>4, <2>5, <2>6, SameMid DEF Same, SameUse
    <2> QED
      BY <2>7, <2>8, AdvanceWorks
  <1>3. CASE l.pPriState \notin {"ResetLinkWait", "ConfDataWait"}
    BY <1>3 DEF PriOnAck
  <1> QED
    BY <1>1, <1>2, <1>3

\* A NACK arrives.
LEMMA PriOnNackWorks ==
    ASSUME NEW l, LInv(l), Works(l), NEW full \in BOOLEAN
    PROVE  Works(PriOnNack(l, full))
  <1> DEFINE u == [l EXCEPT !.status = "UNRESET"]
  <1>1. l \in Station
    BY DEF LInv
  <1>2. Same(l, u)
    BY <1>1, MinorSame
  <1> HIDE DEF u
  <1>3. CASE l.pPriState = "ResetLinkWait"
    BY <1>3, WaitFacts, PriFailureWorks DEF PriOnNack, PriResponseWait
  <1>4. CASE l.pPriState = "ConfDataWait"
    <2>1. Mid(l) /\ l.pSegments
      BY <1>4, WaitFacts DEF PriResponseWait
    <2>2. Mid(u) /\ u.pSegments
      BY <1>2, <2>1, SameMid DEF Same, SameUse
    <2>3. CASE full
      <3>1. PriOnNack(l, full) = PriFailure(u)
        BY <1>4, <2>3 DEF PriOnNack, u
      <3> QED
        BY <2>2, <3>1, PriFailureWorks
    <2>4. CASE ~full
      <3> DEFINE r == ResetRetry(u)
                 c == Cancel(r, "response")
      <3>1. Same(u, r)
        BY <2>2, MinorSame DEF Mid
      <3> HIDE DEF r
      <3>2. Mid(r)
        BY <2>2, <3>1, SameMid
      <3>3. Same(r, c)
        BY <3>2, ResponseTimerSame DEF Mid
      <3>4. PriOnNack(l, full) = QueueResetLinks(c)
        BY <1>4, <2>4 DEF PriOnNack, u, r
      <3> HIDE DEF c
      <3>5. Mid(c)
        BY <3>2, <3>3, SameMid
      <3> QED
        BY <3>4, <3>5, QueueResetLinksWorks
    <2> QED
      BY <2>3, <2>4
  <1>5. CASE l.pPriState = "RequestLinkStatusWait"
    BY <1>5, WaitFacts, CancelToIdleWorks DEF PriOnNack, PriResponseWait
  <1>6. CASE l.pPriState \notin PriResponseWait
    BY <1>6 DEF PriOnNack, PriResponseWait
  <1> QED
    BY <1>3, <1>4, <1>5, <1>6 DEF PriResponseWait

\* LINK_STATUS or NOT_SUPPORTED arrives.
LEMMA PriOnOtherWorks ==
    ASSUME NEW l, LInv(l), Works(l)
    PROVE  Works(PriOnOther(l))
  <1>1. CASE l.pPriState \in {"ResetLinkWait", "ConfDataWait"}
    BY <1>1, WaitFacts, PriFailureWorks DEF PriOnOther, PriResponseWait
  <1>2. CASE l.pPriState = "RequestLinkStatusWait"
    BY <1>2, WaitFacts, CancelToIdleWorks DEF PriOnOther, PriResponseWait
  <1>3. CASE l.pPriState \notin PriResponseWait
    BY <1>3 DEF PriOnOther, PriResponseWait
  <1> QED
    BY <1>1, <1>2, <1>3 DEF PriResponseWait

\* The response timer's callback, late or not. The wait has no timer any more.
LEMMA PriOnTimeoutWorks ==
    ASSUME NEW l \in Station, HasSegments(l), Sending(l), Works(l)
    PROVE  Works(PriOnTimeout(l))
  <1>1. ASSUME l.pPriState \in PriResponseWait
        PROVE  Mid(l)
    BY <1>1, WorksMid DEF PriResponseWait, PriTransmitWait
  <1>2. ASSUME l.pPriState \in {"ResetLinkWait", "ConfDataWait"}
        PROVE  l.pSegments /\ l.segments # <<>>
    BY <1>2 DEF HasSegments, Sending, UsesSegments
  <1> DEFINE n == l.numRetryRemaining - 1
             r == [l EXCEPT !.numRetryRemaining = n]
  <1>3. ASSUME l.numRetryRemaining > 0
        PROVE  Same(l, r) /\ r.segments = l.segments
    <2>1. n \in 0..NumRetry
      BY <1>3, ConfigAssumption DEF Station
    <2> HIDE DEF n
    <2> QED
      BY <2>1, MinorSame DEF Station
  <1>4. r = [l EXCEPT !.numRetryRemaining = @ - 1]
    OBVIOUS
  <1> HIDE DEF r
  <1>5. CASE l.pPriState = "ResetLinkWait" /\ l.numRetryRemaining > 0
    <2>1. PriOnTimeout(l) = QueueResetLinks(r)
      BY <1>4, <1>5 DEF PriOnTimeout
    <2>2. Mid(r)
      BY <1>1, <1>3, <1>5, SameMid DEF PriResponseWait
    <2> QED
      BY <2>1, <2>2, QueueResetLinksWorks
  <1>6. CASE l.pPriState = "ResetLinkWait" /\ ~(l.numRetryRemaining > 0)
    BY <1>1, <1>2, <1>6, CompleteWorks DEF PriOnTimeout, PriResponseWait
  <1>7. CASE l.pPriState = "ConfDataWait" /\ l.numRetryRemaining > 0
    <2>1. PriOnTimeout(l) = QueueConfirmed(r)
      BY <1>4, <1>7 DEF PriOnTimeout
    <2>2. Mid(r) /\ r.segments # <<>>
      BY <1>1, <1>2, <1>3, <1>7, SameMid DEF PriResponseWait
    <2> QED
      BY <2>1, <2>2, QueueSegmentWorks
  <1>8. CASE l.pPriState = "ConfDataWait" /\ ~(l.numRetryRemaining > 0)
    <2> DEFINE u == [l EXCEPT !.status = "UNRESET"]
    <2>1. Same(l, u)
      BY MinorSame
    <2>2. PriOnTimeout(l) = CompleteSendOperation(u)
      BY <1>8 DEF PriOnTimeout
    <2> HIDE DEF u
    <2>3. Mid(u) /\ u.pSegments
      BY <1>1, <1>2, <1>8, <2>1, SameMid DEF PriResponseWait, Same, SameUse
    <2> QED
      BY <2>2, <2>3, CompleteWorks
  <1>9. CASE l.pPriState = "RequestLinkStatusWait"
    BY <1>1, <1>9, MidMove DEF PriOnTimeout, PriResponseWait, PriTransmitWait
  <1>10. CASE l.pPriState \notin PriResponseWait
    BY <1>10 DEF PriOnTimeout, PriResponseWait
  <1> QED
    BY <1>5, <1>6, <1>7, <1>8, <1>9, <1>10 DEF PriResponseWait

-----------------------------------------------------------------------------
(***************************************************************************)
(* Transport layer and secondary station.                                  *)
(***************************************************************************)

\* A change of the send and of its segments that keeps the two layers in agreement.
LEMMA UseWorks ==
    ASSUME NEW l, LInv(l), Works(l), NEW d \in Station, SameTx(l, d), SameSec(l, d),
           SameLink(l, d), d.pPriState = l.pPriState, d.timer = l.timer, Once(d),
           l.pSegments => d.pSegments, HasSegments(d)
    PROVE  LInv(d) /\ Works(d)
  <1>1. LInv(d)
    BY DEF LInv, Sending, Timed
  <1>2. Works(d)
    BY DEF Works, SameSec, SameLink, SameTx, Alive, Wire, Has, PriDue, SecDue
  <1> QED
    BY <1>1, <1>2

\* TransportLayer::BeginTransmit: while the transport layer is not sending the link
\* layer has no segments, so they are always taken.
LEMMA BeginTransmitWorks ==
    ASSUME NEW l, LInv(l), Works(l), NEW m \in Seq(Segment)
    PROVE  Works(BeginTransmit(l, m))
  <1>1. l \in Station /\ Once(l)
    BY DEF LInv, Works
  <1>2. CASE ~l.isOnline \/ m = <<>> \/ l.isSending
    BY <1>2 DEF BeginTransmit
  <1>3. CASE l.isOnline /\ m # <<>> /\ ~l.isSending
    <2> DEFINE d == [l EXCEPT !.isSending = TRUE, !.segments = m, !.pSegments = TRUE]
    <2>1. ~l.pSegments /\ l.posted = 0
      BY <1>1, <1>3 DEF Once, Station
    <2>2. BeginTransmit(l, m) = TryStartTransmission(d)
      BY <1>3, <2>1 DEF BeginTransmit
    <2>3. /\ d \in Station /\ SameTx(l, d) /\ SameSec(l, d) /\ SameLink(l, d)
          /\ d.pPriState = l.pPriState /\ d.timer = l.timer /\ d.posted = l.posted
          /\ d.pSegments /\ d.isSending /\ d.segments = m
      BY <1>1 DEF Station, SameTx, SameSec, SameLink
    <2> HIDE DEF d
    <2>4. Once(d) /\ HasSegments(d)
      BY <1>3, <2>1, <2>3 DEF Once, HasSegments
    <2>5. LInv(d) /\ Works(d)
      BY <2>3, <2>4, UseWorks
    <2> QED
      BY <2>2, <2>5, TryStartWorks
  <1> QED
    BY <1>2, <1>3

\* TransportLayer::OnTxReady: the one completion that was due.
LEMMA TransportOnTxReadyWorks ==
    ASSUME NEW l, LInv(l), Works(l), l.posted > 0, NEW m \in Seq(Segment)
    PROVE  Works(TransportOnTxReady(l, m))
  <1> DEFINE n == l.posted - 1
             r == [l EXCEPT !.posted = n]
             e == [r EXCEPT !.isSending = FALSE]
  <1>1. l \in Station /\ ~l.pSegments /\ l.isSending /\ l.isOnline /\ n = 0
    BY DEF LInv, Station, Works, Once, Alive
  <1>2. TransportOnTxReady(l, m) = BeginTransmit(e, m)
    BY <1>1 DEF TransportOnTxReady
  <1> HIDE DEF n
  <1>3. /\ e \in Station /\ SameTx(l, e) /\ SameSec(l, e) /\ SameLink(l, e)
        /\ e.pPriState = l.pPriState /\ e.timer = l.timer /\ e.posted = 0
        /\ ~e.pSegments /\ ~e.isSending
    BY <1>1 DEF Station, SameTx, SameSec, SameLink
  <1> HIDE DEF e
  <1>4. Once(e) /\ HasSegments(e)
    BY <1>3 DEF Once, HasSegments
  <1>5. LInv(e) /\ Works(e)
    BY <1>1, <1>3, <1>4, UseWorks
  <1> QED
    BY <1>2, <1>5, BeginTransmitWorks

\* A response of a secondary station that waits for no transmission
LEMMA RespondWorks ==
    ASSUME NEW l, LInv(l), Works(l), l.pSecState \notin SecTransmitWait,
           NEW f \in SecFunction, NEW next \in SecTransmitWait
    PROVE  LInv(Respond(l, f, next)) /\ Works(Respond(l, f, next))
  <1> DEFINE e == QueueTransmit(l, "Secondary", Plain(f))
             d == [e EXCEPT !.pSecState = next]
  <1>1. l \in Station /\ l.channel /\ Wire(l) /\ ~Has(l, "Secondary")
    BY DEF LInv, Works, Alive, SecDue
  <1>2. Plain(f) \in Frame
    BY PlainType
  <1>3. /\ e \in Station /\ SameSec(l, e) /\ SameUse(l, e) /\ e.pPriState = l.pPriState
        /\ Wire(e) /\ Has(e, "Secondary") /\ (Has(e, "Primary") <=> Has(l, "Primary"))
    BY <1>1, <1>2, QueueTransmitWorks DEF Sides
  <1> HIDE DEF e
  <1>4. SameUse(e, d) /\ SameTx(e, d) /\ d.pPriState = e.pPriState /\ d.pSecState = next
    BY <1>3 DEF Station, SameUse, SameLink, SameTx
  <1> HIDE DEF d
  <1>5. /\ Wire(d) /\ Has(d, "Secondary") /\ (Has(d, "Primary") <=> Has(l, "Primary"))
    BY <1>3, <1>4 DEF SameTx, Wire, Has
  <1>6. SecDue(d) /\ PriDue(d)
    BY <1>3, <1>4, <1>5 DEF Works, SecDue, PriDue
  <1>7. Alive(d) /\ Once(d)
    BY <1>3, <1>4 DEF Works, Alive, Once, SameUse, SameLink
  <1>8. next \in SecState
    BY DEF SecState
  <1>9. LInv(Respond(l, f, next))
    BY <1>8, RespondEffect
  <1> QED
    BY <1>5, <1>6, <1>7, <1>9 DEF Works, Respond, d, e

\* Every frame that the secondary station handles. A station that waits for the
\* transmission of a response does not respond.
LEMMA SecondaryWorks ==
    ASSUME NEW l, LInv(l), Works(l), NEW f \in Frame, NEW m \in Seq(Segment)
    PROVE  /\ Works(SecOnResetLinkStates(l)) /\ Works(SecOnRequestLinkStatus(l))
           /\ Works(SecOnTestLinkStatus(l, f.flag)) /\ Works(SecOnConfirmedUserData(l, f, m))
  <1>1. CASE l.pSecState \in SecTransmitWait
    <2>1. l.pSecState \notin {"NotReset", "Reset"}
      BY <1>1 DEF SecTransmitWait
    <2> QED
      BY <1>1, <2>1 DEF SecOnResetLinkStates, SecOnRequestLinkStatus, SecOnTestLinkStatus,
                        SecOnConfirmedUserData
  <1>2. CASE l.pSecState \notin SecTransmitWait
    <2> DEFINE a == Respond(l, "ACK", "TransmitWaitReset")
    <2>1. /\ "TransmitWaitReset" \in SecTransmitWait /\ "TransmitWaitNotReset" \in SecTransmitWait
          /\ "ACK" \in SecFunction /\ "LINK_STATUS" \in SecFunction
      BY DEF SecTransmitWait, SecFunction
    <2>2. LInv(a) /\ Works(a)
      BY <1>2, <2>1, RespondWorks
    <2>3. /\ Works(Respond(l, "LINK_STATUS", "TransmitWaitNotReset"))
          /\ Works(Respond(l, "LINK_STATUS", "TransmitWaitReset"))
      BY <1>2, <2>1, RespondWorks
    <2>4. ASSUME NEW x \in BOOLEAN
          PROVE  LET d == [a EXCEPT !.nextReadFCB = x] IN LInv(d) /\ Works(d)
      <3> DEFINE d == [a EXCEPT !.nextReadFCB = x]
      <3>1. a \in Station
        BY <2>2 DEF LInv
      <3> HIDE DEF a
      <3>2. LInv(d) /\ Same(a, d) /\ d.pPriState = a.pPriState
        BY <2>2, <3>1, ReadFCBInv, MinorSame DEF Station
      <3> QED
        BY <2>2, <3>2, SameWorks
    <2>5. a.nextReadFCB \in BOOLEAN
      BY <2>2 DEF LInv, Station
    <2> DEFINE b == ~a.nextReadFCB
               t == [a EXCEPT !.nextReadFCB = b]
    <2>6. LInv(t) /\ Works(t) /\ Works([a EXCEPT !.nextReadFCB = TRUE])
      BY <2>4, <2>5
    <2>7. t = [a EXCEPT !.nextReadFCB = ~@]
      OBVIOUS
    <2> HIDE DEF t
    <2>8. Works(BeginTransmit(t, m))
      BY <2>6, BeginTransmitWorks
    <2>9. Works(SecOnResetLinkStates(l))
      BY <2>6 DEF SecOnResetLinkStates, a
    <2>10. Works(SecOnRequestLinkStatus(l))
      BY <2>3 DEF SecOnRequestLinkStatus
    <2>11. Works(SecOnTestLinkStatus(l, f.flag))
      BY <2>6, <2>7 DEF SecOnTestLinkStatus, a
    <2>12. \/ SecOnConfirmedUserData(l, f, m) = l
           \/ SecOnConfirmedUserData(l, f, m) = a
           \/ SecOnConfirmedUserData(l, f, m) = BeginTransmit(t, m)
      BY <2>7 DEF SecOnConfirmedUserData, a
    <2> QED
      BY <2>2, <2>8, <2>9, <2>10, <2>11, <2>12
  <1> QED
    BY <1>1, <1>2

\* The transmission of a secondary station has been written, which leaves it between
\* two states.
LEMMA SecOnTxReadyWorks ==
    ASSUME NEW l \in Station, Alive(l), Wire(l), PriDue(l), Once(l), ~Has(l, "Secondary"),
           l.pSecState \in SecTransmitWait
    PROVE  Works(SecOnTxReady(l))
  <1>1. ASSUME NEW x, x \notin SecTransmitWait
        PROVE  Works([l EXCEPT !.pSecState = x])
    <2> DEFINE d == [l EXCEPT !.pSecState = x]
    <2>1. SameUse(l, d) /\ SameTx(l, d) /\ d.pPriState = l.pPriState /\ d.pSecState = x
      BY DEF Station, SameUse, SameLink, SameTx
    <2> HIDE DEF d
    <2>2. Works(d)
      BY <1>1, <2>1 DEF Works, SameUse, SameLink, SameTx, Alive, Wire, Has, PriDue, SecDue, Once
    <2> QED
      BY <2>2 DEF d
  <1>2. Works([l EXCEPT !.pSecState = "Reset"]) /\ Works([l EXCEPT !.pSecState = "NotReset"])
    BY <1>1 DEF SecTransmitWait
  <1> QED
    BY <1>2 DEF SecOnTxReady, SecTransmitWait

-----------------------------------------------------------------------------
(***************************************************************************)
(* Entry points of a link that is up.                                      *)
(***************************************************************************)

\* LinkContext::OnFrame
LEMMA OnFrameWorks ==
    ASSUME NEW l, LInv(l), Works(l), NEW f \in Frame, NEW m \in Seq(Segment)
    PROVE  Works(OnFrame(l, f, m))
  <1>1. f.func \in SecFunction \cup PriFunction /\ f.flag \in BOOLEAN
    BY DEF Frame
  <1> DEFINE h == CASE f.func = "ACK" -> PriOnAck(l)
                    [] f.func = "NACK" -> PriOnNack(l, f.flag)
                    [] f.func \in {"LINK_STATUS", "NOT_SUPPORTED"} -> PriOnOther(l)
                    [] f.func = "TEST_LINK_STATES" -> SecOnTestLinkStatus(l, f.flag)
                    [] f.func = "RESET_LINK_STATES" -> SecOnResetLinkStates(l)
                    [] f.func = "REQUEST_LINK_STATUS" -> SecOnRequestLinkStatus(l)
                    [] f.func = "CONFIRMED_USER_DATA" -> SecOnConfirmedUserData(l, f, m)
                    [] f.func = "UNCONFIRMED_USER_DATA" -> BeginTransmit(l, m)
             Good(d) == LInv(d) /\ Works(d)
  <1>2. /\ Good(PriOnAck(l)) /\ Good(PriOnNack(l, f.flag)) /\ Good(PriOnOther(l))
        /\ Good(BeginTransmit(l, m))
    BY <1>1, PriOnAckInv, PriOnNackInv, PriOnOtherInv, BeginTransmitInv,
       PriOnAckWorks, PriOnNackWorks, PriOnOtherWorks, BeginTransmitWorks
  <1>3. /\ Good(SecOnResetLinkStates(l)) /\ Good(SecOnRequestLinkStatus(l))
        /\ Good(SecOnTestLinkStatus(l, f.flag)) /\ Good(SecOnConfirmedUserData(l, f, m))
    BY SecondaryInv, SecondaryWorks
  <1> HIDE DEF Good
  <1>4. Good(h)
    BY <1>1, <1>2, <1>3 DEF SecFunction, PriFunction
  <1>5. OnFrame(l, f, m) = TryStartTransmission(h)
    BY DEF OnFrame, Works, Alive
  <1> HIDE DEF h
  <1> QED
    BY <1>4, <1>5, TryStartWorks DEF Good

\* The end of a write leaves LInv alone.
LEMMA WrittenInv ==
    ASSUME NEW l, LInv(l)
    PROVE  LInv(Written(l))
  <1> DEFINE i == [l EXCEPT !.txMode = "Idle"]
             s == TryPendingTx(i, "Secondary")
             n == TryPendingTx(s, "Primary")
  <1>1. i \in Station /\ SamePri(l, i)
    BY DEF LInv, Station, SamePri, SameSend
  <1>2. Written(l) = n
    BY DEF Written
  <1> HIDE DEF i
  <1>3. s \in Station /\ SamePri(i, s)
    BY <1>1, TryPendingTxEffect DEF Sides
  <1> HIDE DEF s
  <1>4. n \in Station /\ SamePri(s, n)
    BY <1>3, TryPendingTxEffect DEF Sides
  <1> HIDE DEF n
  <1> QED
    BY <1>1, <1>2, <1>3, <1>4, SameInv DEF SamePri, SameSend

\* IOHandler::OnWriteComplete: the completion is that of the station that waits for it.
LEMMA OnWriteCompleteWorks ==
    ASSUME NEW l, LInv(l), Works(l), l.txQueue # <<>>
    PROVE  Works(OnWriteComplete(l))
  <1> DEFINE q == Tail(l.txQueue)
             d == [l EXCEPT !.txQueue = q]
             n == Written(d)
  <1>1. l \in Station /\ Wire(l)
    BY DEF LInv, Works
  <1>2. l.txMode \in Sides /\ l.txMode # "Idle" /\ Len(l.txQueue) = 1 /\ l.txQueue[1].side = l.txMode
    BY <1>1 DEF Wire, Station
  <1>3. q = <<>> /\ q \in Seq(Transmission)
    <2>1. l.txQueue \in Seq(Transmission)
      BY <1>1 DEF Station
    <2>2. q \in Seq(Transmission) /\ Len(q) = 0
      BY <1>2, <2>1
    <2> HIDE DEF q
    <2> QED
      BY <2>2
  <1> HIDE DEF q
  <1>4. /\ d \in Station /\ SameSec(l, d) /\ SameUse(l, d) /\ d.pPriState = l.pPriState
        /\ d.txMode = l.txMode /\ d.txBuffer = l.txBuffer /\ d.pending = l.pending
        /\ d.txQueue = <<>>
    BY <1>1, <1>3 DEF Station, SameSec, SameUse, SameLink
  <1>5. LInv(d)
    BY <1>3, TxQueueInv
  <1>6. OnWriteComplete(l) = OnTxReady(d)
    BY DEF OnWriteComplete, q
  <1> HIDE DEF d
  <1>7. OnTxReady(d) = TryStartTransmission(IF d.txMode = "Primary" THEN PriOnTxReady(n)
                                                                    ELSE SecOnTxReady(n))
    BY <1>2, <1>4 DEF OnTxReady, Written
  <1>8. /\ d.channel /\ d.txMode \in Sides
        /\ \A s \in Sides : d.pending[s] # NoFrame => s # d.txMode /\ d.pending[s] = d.txBuffer[s]
    BY <1>1, <1>2, <1>4 DEF Wire, Works, Alive, SameUse, SameLink
  <1>9. /\ n \in Station /\ SameSec(d, n) /\ SameUse(d, n) /\ n.pPriState = d.pPriState
        /\ Wire(n) /\ ~Has(n, d.txMode)
        /\ \A s \in Sides : s # d.txMode => (Has(n, s) <=> Has(d, s))
    BY <1>4, <1>8, WrittenEffect
  <1>10. LInv(n)
    BY <1>5, WrittenInv
  <1> HIDE DEF n
  <1>11. Alive(n) /\ Once(n)
    BY <1>4, <1>9 DEF Works, Alive, Once, SameUse, SameLink
  <1>12. \A s \in Sides : Has(d, s) <=> Has(l, s)
    BY <1>4 DEF Has
  <1>13. CASE d.txMode = "Primary"
    <2>1. Has(n, "Secondary") <=> Has(l, "Secondary")
      BY <1>9, <1>12, <1>13 DEF Sides
    <2>2. SecDue(n)
      BY <1>4, <1>9, <2>1 DEF Works, SecDue, SameSec
    <2>3. Mid(n)
      BY <1>9, <1>11, <1>13, <2>2 DEF Mid
    <2>4. n.pPriState \in PriTransmitWait
      BY <1>4, <1>9, <1>13 DEF Works, PriDue, Has
    <2>5. LInv(PriOnTxReady(n)) /\ Works(PriOnTxReady(n))
      BY <1>10, <2>3, <2>4, PriOnTxReadyInv, PriOnTxReadyWorks
    <2> QED
      BY <1>6, <1>7, <1>13, <2>5, TryStartWorks
  <1>14. CASE d.txMode = "Secondary"
    <2>1. Has(n, "Primary") <=> Has(l, "Primary")
      BY <1>9, <1>12, <1>14 DEF Sides
    <2>2. PriDue(n)
      BY <1>4, <1>9, <2>1 DEF Works, PriDue
    <2>3. ~Has(n, "Secondary")
      BY <1>9, <1>14
    <2>4. n.pSecState \in SecTransmitWait
      BY <1>4, <1>9, <1>14 DEF Works, SecDue, Has, SameSec
    <2>5. Works(SecOnTxReady(n))
      BY <1>9, <1>11, <2>2, <2>3, <2>4, SecOnTxReadyWorks
    <2>6. LInv(SecOnTxReady(n))
      BY <1>10, SecOnTxReadyInv
    <2>7. OnWriteComplete(l) = TryStartTransmission(SecOnTxReady(n))
      BY <1>6, <1>7, <1>14
    <2> QED
      BY <2>5, <2>6, <2>7, TryStartWorks
  <1> QED
    BY <1>8, <1>13, <1>14 DEF Sides

\* The members that OnLowerLayerDown resets, and the callbacks of keep-alives.
LEMMA FiredFields ==
    ASSUME NEW l \in Station
    PROVE  LET d == Fired(l, "response")
           IN  /\ d.keepAliveTimeout = l.keepAliveTimeout
               /\ d.timer["keepAlive"] = l.timer["keepAlive"]
  <1> DEFINE n == IF l.timer["response"] = "none" THEN l.orphans["response"] - 1
                  ELSE l.orphans["response"]
  <1>1. Fired(l, "response") = [l EXCEPT !.timer["response"] = "none", !.orphans["response"] = n]
    BY DEF Fired
  <1> HIDE DEF n
  <1>2. "keepAlive" \in Timers /\ "keepAlive" # "response" /\ l.timer \in [Timers -> TimerStates]
    BY DEF Timers, Station
  <1> QED
    BY <1>1, <1>2 DEF Station

\* LinkContext::OnResponseTimeout of a link that is up, for a timer that may have been
\* cancelled
LEMMA OnResponseTimeoutWorks ==
    ASSUME NEW l, LInv(l), Works(l), l.timer["response"] = "expired" \/ l.orphans["response"] > 0
    PROVE  Works(OnResponseTimeout(l))
  <1> DEFINE d == Fired(l, "response")
  <1>1. l \in Station
    BY DEF LInv
  <1>2. d \in Station /\ SameSend(l, d) /\ Same(l, d)
    BY <1>1, FiredEffect, ResponseTimerSame DEF Timers
  <1>3. OnResponseTimeout(l) = TryStartTransmission(PriOnTimeout(d))
    BY DEF OnResponseTimeout
  <1> HIDE DEF d
  <1>4. HasSegments(d) /\ Sending(d)
    BY <1>2 DEF LInv, HasSegments, Sending, SameSend
  <1>5. Works(d)
    BY <1>2, SameWorks DEF SameSend
  <1>6. LInv(PriOnTimeout(d)) /\ Works(PriOnTimeout(d))
    BY <1>2, <1>4, <1>5, PriOnTimeoutInv, PriOnTimeoutWorks
  <1> QED
    BY <1>3, <1>6, TryStartWorks

\* of a link that is down: nothing happens.
LEMMA OnResponseTimeoutAsleep ==
    ASSUME NEW l, LInv(l), Asleep(l), l.timer["response"] = "expired" \/ l.orphans["response"] > 0
    PROVE  Asleep(OnResponseTimeout(l))
  <1> DEFINE d == Fired(l, "response")
  <1>1. l \in Station
    BY DEF LInv
  <1>2. d \in Station /\ SameSend(l, d) /\ Same(l, d)
    BY <1>1, FiredEffect, ResponseTimerSame DEF Timers
  <1>3. d.keepAliveTimeout = l.keepAliveTimeout /\ d.timer["keepAlive"] = l.timer["keepAlive"]
    BY <1>1, FiredFields
  <1>4. OnResponseTimeout(l) = TryStartTransmission(PriOnTimeout(d))
    BY DEF OnResponseTimeout
  <1> HIDE DEF d
  <1>5. Asleep(d)
    BY <1>2, <1>3 DEF Asleep, Still, Same, SameSec, SameUse, SameLink, SameTx, SameSend
  <1>6. PriOnTimeout(d) = d
    BY <1>5 DEF Asleep, Still, PriOnTimeout
  <1>7. TryStartTransmission(d) = d
    BY <1>5 DEF Asleep, Still, TryStartTransmission
  <1> QED
    BY <1>4, <1>5, <1>6, <1>7

\* The keep-alive timer is started, cancelled, or its callback runs. Only a callback of
\* the timer that is set leaves none behind.
LEMMA KeepAliveTimerSame ==
    ASSUME NEW l \in Station
    PROVE  /\ Same(l, Start(l, "keepAlive"))
           /\ l.timer["keepAlive"] = "expired" => Same(l, Fired(l, "keepAlive"))
           /\ l.timer["keepAlive"] # "expired"
                => Same(l, Cancel(l, "keepAlive")) /\ Cancel(l, "keepAlive").timer["keepAlive"] = "none"
  <1>1. "keepAlive" \in Timers
    BY DEF Timers
  <1>2. /\ l.timer \in [Timers -> TimerStates] /\ l.orphans \in [Timers -> Nat]
    BY DEF Station
  <1>3. ASSUME NEW x \in [Timers -> TimerStates]
        PROVE  Same(l, [l EXCEPT !.timer = x]) /\ [l EXCEPT !.timer = x].timer = x
    BY DEF Same, Station, SameSec, SameUse, SameLink, SameTx
  <1>4. Same(l, l)
    BY DEF Same, SameSec, SameUse, SameLink, SameTx
  <1>5. Same(l, Start(l, "keepAlive"))
    <2> DEFINE x == [l.timer EXCEPT !["keepAlive"] = "running"]
    <2>1. x \in [Timers -> TimerStates]
      BY <1>2 DEF TimerStates
    <2>2. Start(l, "keepAlive") = IF l.timer["keepAlive"] = "none" THEN [l EXCEPT !.timer = x] ELSE l
      BY DEF Start
    <2> HIDE DEF x
    <2> QED
      BY <1>3, <1>4, <2>1, <2>2
  <1> DEFINE x == [l.timer EXCEPT !["keepAlive"] = "none"]
             y == [l.orphans EXCEPT !["keepAlive"] = l.orphans["keepAlive"]]
  <1>6. /\ x \in [Timers -> TimerStates] /\ x["keepAlive"] = "none" /\ y = l.orphans
    BY <1>1, <1>2 DEF TimerStates
  <1>7. ASSUME l.timer["keepAlive"] = "expired"
        PROVE  Fired(l, "keepAlive") = [l EXCEPT !.timer = x, !.orphans = y]
    BY <1>7 DEF Fired
  <1>8. ASSUME l.timer["keepAlive"] # "expired"
        PROVE  Cancel(l, "keepAlive") = [l EXCEPT !.timer = x, !.orphans = y]
    BY <1>8 DEF Cancel
  <1> HIDE DEF x, y
  <1>9. [l EXCEPT !.timer = x, !.orphans = y] = [l EXCEPT !.timer = x]
    BY <1>6 DEF Station
  <1> DEFINE d == [l EXCEPT !.timer = x]
  <1>10. Same(l, d) /\ d.timer["keepAlive"] = "none"
    BY <1>3, <1>6
  <1> HIDE DEF d
  <1>11. ASSUME l.timer["keepAlive"] = "expired"
         PROVE  Same(l, Fired(l, "keepAlive"))
    BY <1>7, <1>9, <1>10, <1>11 DEF d
  <1>12. ASSUME l.timer["keepAlive"] # "expired"
         PROVE  Same(l, Cancel(l, "keepAlive")) /\ Cancel(l, "keepAlive").timer["keepAlive"] = "none"
    BY <1>8, <1>9, <1>10, <1>12 DEF d
  <1> QED
    BY <1>5, <1>11, <1>12

\* LinkContext::OnKeepAliveTimeout, of the timer that is set
LEMMA OnKeepAliveTimeoutWorks ==
    ASSUME NEW l, LInv(l), Works(l), l.timer["keepAlive"] = "expired", NEW elapsed \in BOOLEAN
    PROVE  Works(OnKeepAliveTimeout(l, elapsed))
  <1> DEFINE d == Fired(l, "keepAlive")
             b == d.keepAliveTimeout \/ elapsed
             k == [d EXCEPT !.keepAliveTimeout = b]
             s == Start(k, "keepAlive")
  <1>1. /\ d \in Station /\ SameSend(l, d) /\ d.timer["response"] = l.timer["response"]
        /\ Same(l, d)
    BY FiredEffect, KeepAliveTimerSame DEF LInv, Timers
  <1>2. OnKeepAliveTimeout(l, elapsed) = TryStartTransmission(s)
    BY DEF OnKeepAliveTimeout
  <1> HIDE DEF d
  <1>3. b \in BOOLEAN
    OBVIOUS
  <1> HIDE DEF b
  <1>4. k \in Station /\ SamePri(d, k) /\ Same(d, k)
    BY <1>1, <1>3, MinorSame DEF Station, SamePri, SameSend
  <1> HIDE DEF k
  <1>5. /\ s \in Station /\ SameSend(k, s) /\ s.timer["response"] = k.timer["response"]
        /\ Same(k, s)
    BY <1>4, StartEffect, KeepAliveTimerSame DEF Timers
  <1> HIDE DEF s
  <1>6. LInv(s)
    BY <1>1, <1>4, <1>5 DEF LInv, HasSegments, Sending, Timed, SamePri, SameSend
  <1>7. Works(d) /\ Works(k) /\ Works(s)
    BY <1>1, <1>4, <1>5, SameWorks DEF SamePri, SameSend
  <1> QED
    BY <1>2, <1>6, <1>7, TryStartWorks

-----------------------------------------------------------------------------
(***************************************************************************)
(* The link goes up and down.                                              *)
(***************************************************************************)

\* LinkContext::OnLowerLayerUp on a fresh channel
LEMMA OnLowerLayerUpWorks ==
    ASSUME NEW l, LInv(l), Still(l), l.channel, l.enabled, l.txQueue = <<>>,
           NEW m \in Seq(Segment)
    PROVE  Works(OnLowerLayerUp(l, m))
  <1> DEFINE u == [l EXCEPT !.isOnline = TRUE, !.status = "UNRESET"]
             s == Start(u, "keepAlive")
  <1>1. l \in Station /\ ~l.isOnline
    BY DEF LInv, Still
  <1>2. OnLowerLayerUp(l, m) = BeginTransmit(s, m)
    BY <1>1 DEF OnLowerLayerUp
  <1>3. /\ u \in Station /\ SamePri(l, u) /\ SameTx(l, u) /\ SameSec(l, u) /\ u.isOnline
        /\ u.channel = l.channel /\ u.enabled = l.enabled /\ u.orphans = l.orphans
        /\ u.posted = l.posted /\ u.isSending = l.isSending
    BY <1>1 DEF Station, SamePri, SameSend, SameTx, SameSec
  <1> HIDE DEF u
  <1>4. Works(u)
    <2>1. /\ u.pPriState = "Idle" /\ u.pSecState = "NotReset" /\ u.txMode = "Idle"
          /\ ~u.pSegments /\ ~u.isSending /\ u.posted = 0 /\ u.txQueue = <<>>
          /\ \A s1 \in Sides : u.pending[s1] = NoFrame
      BY <1>3 DEF Still, SamePri, SameSend, SameTx, SameSec
    <2>2. Alive(u) /\ Once(u)
      BY <1>3, <2>1 DEF Still, Alive, Once
    <2>3. Wire(u)
      BY <2>1 DEF Wire
    <2>4. PriDue(u) /\ SecDue(u)
      BY <2>1 DEF PriDue, SecDue, Has, PriTransmitWait, SecTransmitWait, Sides
    <2> QED
      BY <2>2, <2>3, <2>4 DEF Works
  <1>5. /\ s \in Station /\ SameSend(u, s) /\ s.timer["response"] = u.timer["response"]
        /\ Same(u, s)
    BY <1>3, StartEffect, KeepAliveTimerSame DEF Timers
  <1> HIDE DEF s
  <1>6. LInv(s)
    BY <1>3, <1>5 DEF LInv, HasSegments, Sending, Timed, SamePri, SameSend
  <1>7. Works(s)
    BY <1>4, <1>5, SameWorks DEF SameSend
  <1> QED
    BY <1>2, <1>6, <1>7, BeginTransmitWorks

\* TimerRef::Cancel touches only its own timer.
LEMMA CancelFields ==
    ASSUME NEW l \in Station
    PROVE  /\ Cancel(l, "response").keepAliveTimeout = l.keepAliveTimeout
           /\ Cancel(l, "keepAlive").keepAliveTimeout = l.keepAliveTimeout
           /\ Cancel(l, "response").enabled = l.enabled
           /\ Cancel(l, "keepAlive").enabled = l.enabled
           /\ Cancel(l, "response").timer["keepAlive"] = l.timer["keepAlive"]
  <1>1. ASSUME NEW t \in Timers
        PROVE  LET d == Cancel(l, t)
               IN  /\ d.keepAliveTimeout = l.keepAliveTimeout /\ d.enabled = l.enabled
                   /\ \A u \in Timers : u # t => d.timer[u] = l.timer[u]
    <2> DEFINE n == IF l.timer[t] = "expired" THEN l.orphans[t] + 1 ELSE l.orphans[t]
    <2>1. Cancel(l, t) = [l EXCEPT !.timer[t] = "none", !.orphans[t] = n]
      BY DEF Cancel
    <2>2. l.timer \in [Timers -> TimerStates]
      BY DEF Station
    <2> HIDE DEF n
    <2> QED
      BY <2>1, <2>2 DEF Station
  <1>2. "response" \in Timers /\ "keepAlive" \in Timers
    BY DEF Timers
  <1> QED
    BY <1>1, <1>2

\* A link that is up and may go down: no callback of its keep-alive timer and no
\* completion is queued.
Quits(l) ==
    /\ l.isOnline /\ l.channel /\ l.orphans["keepAlive"] = 0
    /\ l.posted = 0 /\ l.timer["keepAlive"] # "expired"

\* LinkContext::OnLowerLayerDown
LEMMA OnLowerLayerDownStill ==
    ASSUME NEW l, LInv(l), Still(l) \/ Quits(l)
    PROVE  Still(OnLowerLayerDown(l))
  <1> DEFINE p == [s \in Sides |-> NoFrame]
             d == [l EXCEPT !.isOnline = FALSE, !.keepAliveTimeout = FALSE,
                            !.isRemoteReset = FALSE, !.pSegments = FALSE, !.txMode = "Idle",
                            !.pending = p, !.pPriState = "Idle",
                            !.pSecState = "NotReset", !.status = "UNRESET", !.isSending = FALSE]
             c == Cancel(d, "response")
             e == Cancel(c, "keepAlive")
  <1>1. l \in Station
    BY DEF LInv
  <1>2. p \in [Sides -> Frame \cup {NoFrame}] /\ \A s \in Sides : p[s] = NoFrame
    OBVIOUS
  <1>3. OnLowerLayerDown(l) = IF ~l.isOnline THEN l ELSE e
    BY DEF OnLowerLayerDown
  <1>4. CASE ~l.isOnline
    BY <1>3, <1>4 DEF Quits
  <1>5. CASE l.isOnline
    <2>1. Quits(l)
      BY <1>5 DEF Still
    <2> HIDE DEF p
    <2>2. /\ d \in Station /\ ~d.isOnline /\ ~d.keepAliveTimeout /\ ~d.pSegments /\ ~d.isSending
          /\ d.posted = l.posted /\ d.pPriState = "Idle" /\ d.pSecState = "NotReset"
          /\ d.txMode = "Idle" /\ d.pending = p
          /\ d.timer = l.timer /\ d.orphans = l.orphans
      BY <1>1, <1>2 DEF Station, PriState, SecState
    <2> HIDE DEF d
    <2>3. /\ c \in Station /\ Same(d, c) /\ SameSend(d, c)
      BY <2>2, ResponseTimerSame, CancelEffect DEF Timers
    <2>4. c.timer["keepAlive"] = d.timer["keepAlive"] /\ c.keepAliveTimeout = d.keepAliveTimeout
      BY <2>2, CancelFields
    <2> HIDE DEF c
    <2>5. /\ e \in Station /\ Same(c, e) /\ SameSend(c, e) /\ e.timer["keepAlive"] = "none"
      BY <2>1, <2>2, <2>3, <2>4, KeepAliveTimerSame, CancelEffect DEF Quits, Timers
    <2>6. e.keepAliveTimeout = c.keepAliveTimeout
      BY <2>3, CancelFields
    <2> HIDE DEF e
    <2>7. Still(e)
      BY <1>2, <2>1, <2>2, <2>3, <2>4, <2>5, <2>6
         DEF Still, Quits, Same, SameSec, SameUse, SameLink, SameTx, SameSend
    <2> QED
      BY <1>3, <1>5, <2>7
  <1> QED
    BY <1>4, <1>5

\* IOHandler::Reset
LEMMA ResetAsleep ==
    ASSUME NEW l, LInv(l), Still(l) \/ Quits(l)
    PROVE  Asleep(Reset(l))
  <1> DEFINE d == IF l.channel THEN OnLowerLayerDown(l) ELSE l
             e == [d EXCEPT !.channel = FALSE, !.txQueue = <<>>]
  <1>1. LInv(d)
    BY OnLowerLayerDownInv
  <1>2. Still(d)
    BY OnLowerLayerDownStill DEF Quits
  <1>3. Reset(l) = e
    BY DEF Reset
  <1> HIDE DEF d
  <1>4. /\ ~e.channel /\ e.txQueue = <<>> /\ e.isOnline = d.isOnline
        /\ e.keepAliveTimeout = d.keepAliveTimeout
        /\ e.pSegments = d.pSegments /\ e.isSending = d.isSending /\ e.posted = d.posted
        /\ e.pPriState = d.pPriState /\ e.pSecState = d.pSecState /\ e.txMode = d.txMode
        /\ e.pending = d.pending /\ e.timer = d.timer /\ e.orphans = d.orphans
    BY <1>1 DEF LInv, Station
  <1> HIDE DEF e
  <1>5. Asleep(e)
    BY <1>2, <1>4 DEF Asleep, Still
  <1> QED
    BY <1>3, <1>5

\* Going down, and IOHandler::Reset, leave the session enabled.
LEMMA ResetEnabled ==
    ASSUME NEW l, LInv(l)
    PROVE  Reset(l).enabled = l.enabled
  <1> DEFINE p == [s \in Sides |-> NoFrame]
             d == [l EXCEPT !.isOnline = FALSE, !.keepAliveTimeout = FALSE,
                            !.isRemoteReset = FALSE, !.pSegments = FALSE, !.txMode = "Idle",
                            !.pending = p, !.pPriState = "Idle",
                            !.pSecState = "NotReset", !.status = "UNRESET", !.isSending = FALSE]
             c == Cancel(d, "response")
             e == Cancel(c, "keepAlive")
             w == IF l.channel THEN OnLowerLayerDown(l) ELSE l
  <1>1. p \in [Sides -> Frame \cup {NoFrame}]
    OBVIOUS
  <1>2. OnLowerLayerDown(l) = IF ~l.isOnline THEN l ELSE e
    BY DEF OnLowerLayerDown
  <1> HIDE DEF p
  <1>3. d \in Station /\ d.enabled = l.enabled
    BY <1>1 DEF LInv, Station, PriState, SecState
  <1> HIDE DEF d
  <1>4. c \in Station /\ c.enabled = d.enabled
    BY <1>3, CancelEffect, CancelFields DEF Timers
  <1> HIDE DEF c
  <1>5. e.enabled = c.enabled
    BY <1>4, CancelFields
  <1> HIDE DEF e
  <1>6. LInv(w) /\ w.enabled = l.enabled
    BY <1>2, <1>3, <1>4, <1>5, OnLowerLayerDownInv
  <1>7. Reset(l) = [w EXCEPT !.channel = FALSE, !.txQueue = <<>>]
    BY DEF Reset
  <1> HIDE DEF w
  <1> QED
    BY <1>6, <1>7 DEF LInv, Station

\* IOHandler::OnNewChannel, of an enabled session
LEMMA OnNewChannelWorks ==
    ASSUME NEW l, LInv(l), Still(l) \/ Quits(l), l.enabled, NEW m \in Seq(Segment)
    PROVE  Works(OnNewChannel(l, m))
  <1> DEFINE r == Reset(l)
             o == [r EXCEPT !.channel = TRUE]
  <1>1. LInv(r) /\ Asleep(r) /\ r.enabled
    BY ResetInv, ResetAsleep, ResetEnabled
  <1>2. OnNewChannel(l, m) = IF l.enabled THEN OnLowerLayerUp(o, m) ELSE o
    BY DEF OnNewChannel
  <1> HIDE DEF r
  <1>3. LInv(o)
    BY <1>1, ChannelInv
  <1>4. /\ o.channel /\ o.enabled /\ o.txQueue = r.txQueue /\ o.isOnline = r.isOnline
        /\ o.keepAliveTimeout = r.keepAliveTimeout
        /\ o.pSegments = r.pSegments /\ o.isSending = r.isSending /\ o.posted = r.posted
        /\ o.pPriState = r.pPriState /\ o.pSecState = r.pSecState /\ o.txMode = r.txMode
        /\ o.pending = r.pending /\ o.timer = r.timer /\ o.orphans = r.orphans
    BY <1>1 DEF LInv, Station
  <1> HIDE DEF o
  <1>5. Still(o) /\ o.txQueue = <<>>
    BY <1>1, <1>4 DEF Asleep, Still
  <1> QED
    BY <1>2, <1>3, <1>4, <1>5, OnLowerLayerUpWorks

\* The session's flag does not matter to a link that is down, nor to going down.
LEMMA SetEnabled ==
    ASSUME NEW l, LInv(l), NEW x \in BOOLEAN
    PROVE  LET d == [l EXCEPT !.enabled = x]
           IN  /\ LInv(d) /\ d.channel = l.channel
               /\ Still(l) => Still(d)
               /\ Asleep(l) => Asleep(d)
               /\ Quits(l) => Quits(d)
  <1> DEFINE d == [l EXCEPT !.enabled = x]
  <1>1. LInv(d)
    BY EnabledInv
  <1>2. /\ d.channel = l.channel /\ d.txQueue = l.txQueue /\ d.isOnline = l.isOnline
        /\ d.keepAliveTimeout = l.keepAliveTimeout
        /\ d.pSegments = l.pSegments /\ d.isSending = l.isSending /\ d.posted = l.posted
        /\ d.pPriState = l.pPriState /\ d.pSecState = l.pSecState /\ d.txMode = l.txMode
        /\ d.pending = l.pending /\ d.timer = l.timer /\ d.orphans = l.orphans
    BY DEF LInv, Station
  <1> HIDE DEF d
  <1>3. /\ Still(l) => Still(d)
        /\ Asleep(l) => Asleep(d)
        /\ Quits(l) => Quits(d)
    BY <1>2 DEF Still, Asleep, Quits
  <1> QED
    BY <1>1, <1>2, <1>3 DEF d

\* IOHandler::Enable, of a session whose channel is closed
LEMMA EnableSessionAsleep ==
    ASSUME NEW l, LInv(l), Asleep(l), NEW m \in Seq(Segment)
    PROVE  Asleep(EnableSession(l, m))
  <1> DEFINE d == [l EXCEPT !.enabled = TRUE]
  <1>1. ~l.channel
    BY DEF Asleep
  <1>2. EnableSession(l, m) = d
    BY <1>1 DEF EnableSession
  <1> QED
    BY <1>2, SetEnabled

\* IOHandler::Disable, of the only session of a channel
LEMMA DisableSessionAsleep ==
    ASSUME NEW l, LInv(l), Still(l) \/ Quits(l), ~Shared
    PROVE  Asleep(DisableSession(l))
  <1> DEFINE d == [l EXCEPT !.enabled = FALSE]
             w == IF l.channel THEN OnLowerLayerDown(d) ELSE d
  <1>1. LInv(d) /\ (Still(d) \/ Quits(d)) /\ d.channel = l.channel
    BY SetEnabled
  <1>2. DisableSession(l) = Reset(w)
    BY DEF DisableSession
  <1> HIDE DEF d
  <1>3. LInv(w) /\ Still(w)
    BY <1>1, OnLowerLayerDownInv, OnLowerLayerDownStill DEF Quits
  <1> HIDE DEF w
  <1> QED
    BY <1>2, <1>3, ResetAsleep

-----------------------------------------------------------------------------
(***************************************************************************)
(* A station as constructed, and timers that expire.                       *)
(***************************************************************************)

\* A station as constructed satisfies the invariant
LEMMA InitialStationInv ==
    ASSUME NEW c \in BOOLEAN
    PROVE  LInv(InitialStation(c))
  <1> DEFINE d == InitialStation(c)
  <1>1. /\ 0 \in 0..NumRetry
        /\ [s \in Sides |-> NoFrame] \in [Sides -> Frame \cup {NoFrame}]
        /\ [t \in Timers |-> "none"] \in [Timers -> TimerStates]
        /\ [t \in Timers |-> 0] \in [Timers -> Nat]
    BY ConfigAssumption DEF TimerStates
  <1>2. d \in Station /\ d.pPriState = "Idle" /\ ~d.pSegments
    BY <1>1 DEF InitialStation, Station, PriState, SecState
  <1> HIDE DEF d
  <1>3. LInv(d)
    BY <1>2 DEF LInv, HasSegments, Sending, Timed, UsesSegments, PriResponseWait
  <1> QED
    BY <1>3 DEF d

\* and has no link.
LEMMA InitialStationAsleep ==
    ASSUME NEW c
    PROVE  Asleep(InitialStation(c))
  BY DEF Asleep, Still, InitialStation, Timers

\* A timer has expired: its callback is queued.
Expired(l, t) == [l EXCEPT !.timer[t] = "expired"]

\* Until the callback runs nothing has happened to the station.
LEMMA ExpiredInv ==
    ASSUME NEW l, LInv(l), NEW t \in Timers, l.timer[t] = "running"
    PROVE  /\ LInv(Expired(l, t))
           /\ Works(l) => Works(Expired(l, t))
           /\ Asleep(l) => Asleep(Expired(l, t))
  <1> DEFINE x == [l.timer EXCEPT ![t] = "expired"]
             d == [l EXCEPT !.timer = x]
  <1>1. l.timer \in [Timers -> TimerStates] /\ l \in Station
    BY DEF LInv, Station
  <1>2. /\ x \in [Timers -> TimerStates]
        /\ \A u \in Timers : x[u] = "none" => l.timer[u] = "none"
        /\ l.timer["keepAlive"] = "none" => x["keepAlive"] = "none"
    BY <1>1 DEF TimerStates, Timers
  <1>3. Expired(l, t) = d
    BY DEF Expired
  <1> HIDE DEF x
  <1>4. /\ d \in Station /\ SameSend(l, d) /\ Same(l, d) /\ d.timer = x
        /\ d.keepAliveTimeout = l.keepAliveTimeout
    BY <1>1, <1>2 DEF Station, SameSend, Same, SameSec, SameUse, SameLink, SameTx
  <1> HIDE DEF d
  <1>5. LInv(d)
    BY <1>2, <1>4 DEF LInv, HasSegments, Sending, Timed, SameSend, Timers
  <1>6. Works(l) => Works(d)
    BY <1>4, SameWorks DEF SameSend
  <1>7. Asleep(l) => Asleep(d)
    BY <1>2, <1>4 DEF Asleep, Still, Same, SameSec, SameUse, SameLink, SameTx, SameSend
  <1> QED
    BY <1>3, <1>5, <1>6, <1>7
=============================================================================
