-------------------------- MODULE LinkLayer_proofs --------------------------
(***************************************************************************)
(* A link station never dereferences null segments and never waits for its *)
(* peer without a timer, for any peer, any configuration, any number of    *)
(* retries, and whichever callbacks run late.                              *)
(*                                                                         *)
(* Its completions reach the one of its two stations that waits for it,    *)
(* its buffers are written before they are formatted again, and every send *)
(* is completed once.  This only holds for a channel of its own, when      *)
(* neither keep-alives nor completions come late (the runs show that it    *)
(* fails when keep-alives do).                                             *)
(***************************************************************************)
EXTENDS LinkLayer, LinkStation_proofs

-----------------------------------------------------------------------------
(***************************************************************************)
(* Whatever is late or shared.                                             *)
(***************************************************************************)

\* The inductive invariant, as a state predicate.
IInv == LInv(link)

\* A station as constructed satisfies the invariant.
LEMMA InitInv == Init => IInv
  BY EnvironmentAssumption, InitialStationInv DEF Init, IInv

\* Every task of the strand keeps it: one step per action.
LEMMA NextInv == IInv /\ [Next]_vars => IInv'
  <1> SUFFICES ASSUME LInv(link), [Next]_vars PROVE LInv(link')
    BY DEF IInv
  <1>1. Messages \subseteq Seq(Segment) /\ Answers \subseteq Seq(Segment) /\ PeerFrames \subseteq Frame
    <2>1. <<>> \in Seq(Segment)
      OBVIOUS
    <2>2. Messages \subseteq Seq(Segment) /\ PeerFrames \subseteq Frame
      BY EnvironmentAssumption
    <2> QED
      BY <2>1, <2>2, Zenon DEF Answers
  <1>2. CASE Send
    BY <1>1, <1>2, BeginTransmitInv DEF Send
  <1>3. CASE RunCompletion
    BY <1>1, <1>3, TransportOnTxReadyInv DEF RunCompletion
  <1>4. CASE WriteComplete
    BY <1>4, OnWriteCompleteInv DEF WriteComplete
  <1>5. CASE ReceiveFrame
    BY <1>1, <1>5, OnFrameInv DEF ReceiveFrame
  <1>6. ASSUME NEW t \in Timers, TimerExpires(t)
        PROVE  LInv(link')
    BY <1>6, ExpiredInv DEF TimerExpires, Expired
  <1>7. CASE ResponseTimeout
    BY <1>7, OnResponseTimeoutInv DEF ResponseTimeout, CallbackQueued
  <1>8. CASE KeepAliveTimeout
    BY <1>8, OnKeepAliveTimeoutInv DEF KeepAliveTimeout, CallbackQueued
  <1>9. CASE NewChannel
    BY <1>1, <1>9, OnNewChannelInv DEF NewChannel
  <1>10. CASE ChannelLost
    BY <1>10, ResetInv DEF ChannelLost
  <1>11. CASE Enable
    BY <1>1, <1>11, EnableSessionInv DEF Enable
  <1>12. CASE Disable
    BY <1>12, DisableSessionInv DEF Disable
  <1>13. CASE UNCHANGED vars
    BY <1>13 DEF vars
  <1> QED
    BY <1>2, <1>3, <1>4, <1>5, <1>6, <1>7, <1>8, <1>9, <1>10, <1>11, <1>12, <1>13 DEF Next

\* The invariant holds throughout.
LEMMA Invariant == Spec => []IInv
  BY InitInv, NextInv, PTL DEF Spec

\* The members of LinkContext, TransportLayer and the session keep their types; in
\* particular the retry counter and the counts of queued callbacks never go below zero.
THEOREM TypeCorrect == Spec => []TypeOK
  <1>1. IInv => TypeOK
    BY DEF IInv, LInv, TypeOK
  <1> QED
    BY <1>1, Invariant, PTL

\* Whatever the peer sends, whichever callbacks run late and however sessions share the
\* channel, no handler of the primary station finds pSegments null or its message used up.
THEOREM SegmentsNeverNull == Spec => []SegmentsWhileSending
  <1>1. IInv => SegmentsWhileSending
    BY DEF IInv, LInv, HasSegments, Sending, SegmentsWhileSending
  <1> QED
    BY <1>1, Invariant, PTL

\* Under the same conditions the primary station never waits for the peer without a
\* response timer.
THEOREM ResponseWaitsAreTimed == Spec => []ResponseWaitIsTimed
  <1>1. IInv => ResponseWaitIsTimed
    BY DEF IInv, LInv, Timed, ResponseWaitIsTimed
  <1> QED
    BY <1>1, Invariant, PTL

-----------------------------------------------------------------------------
(***************************************************************************)
(* With a channel of its own, and response timers the only ones late.      *)
(***************************************************************************)

\* The inductive invariant, as a state predicate.
TransmitInv == DInv(link)

\* A station as constructed has no link.
LEMMA InitTransmit == Init => TransmitInv
  <1> SUFFICES ASSUME NEW c \in BOOLEAN, Init, link = InitialStation(c)
               PROVE  TransmitInv
    BY EnvironmentAssumption DEF Init
  <1> QED
    BY InitInv, InitialStationAsleep DEF TransmitInv, DInv, IInv

\* The conditions under which the link goes down, for the callbacks that may be late
LEMMA GoingDown ==
    ASSUME LInv(link), Works(link) \/ Asleep(link), MayGoDown, Late \subseteq {"response"}
    PROVE  Still(link) \/ Quits(link)
  <1>1. CASE Works(link)
    <2>1. link.timer["keepAlive"] # "expired"
      BY DEF MayGoDown, Timers
    <2>2. link.posted = 0
      BY DEF MayGoDown, LInv, Station
    <2> QED
      BY <1>1, <2>1, <2>2 DEF Works, Alive, Quits
  <1>2. CASE Asleep(link)
    BY <1>2 DEF Asleep
  <1> QED
    BY <1>1, <1>2

\* Every task of the strand keeps it: one step per action.
LEMMA NextTransmit ==
    ASSUME ~Shared, Late \subseteq {"response"}
    PROVE  TransmitInv /\ [Next]_vars => TransmitInv'
  <1> SUFFICES ASSUME LInv(link), Works(link) \/ Asleep(link), [Next]_vars
               PROVE  Works(link') \/ Asleep(link')
    BY NextInv DEF TransmitInv, DInv, IInv
  <1>1. Messages \subseteq Seq(Segment) /\ Answers \subseteq Seq(Segment) /\ PeerFrames \subseteq Frame
    <2>1. <<>> \in Seq(Segment)
      OBVIOUS
    <2>2. Messages \subseteq Seq(Segment) /\ PeerFrames \subseteq Frame
      BY EnvironmentAssumption
    <2> QED
      BY <2>1, <2>2, Zenon DEF Answers
  <1>2. link.isOnline \/ link.channel \/ link.posted > 0 => Works(link)
    BY DEF Asleep, Still
  <1>3. CASE Send
    BY <1>1, <1>2, <1>3, BeginTransmitWorks DEF Send
  <1>4. CASE RunCompletion
    BY <1>1, <1>2, <1>4, TransportOnTxReadyWorks DEF RunCompletion
  <1>5. CASE WriteComplete
    BY <1>2, <1>5, OnWriteCompleteWorks DEF WriteComplete
  <1>6. CASE ReceiveFrame
    BY <1>1, <1>2, <1>6, OnFrameWorks DEF ReceiveFrame
  <1>7. ASSUME NEW t \in Timers, TimerExpires(t)
        PROVE  Works(link') \/ Asleep(link')
    BY <1>7, ExpiredInv DEF TimerExpires, Expired
  <1>8. CASE ResponseTimeout
    BY <1>8, OnResponseTimeoutWorks, OnResponseTimeoutAsleep DEF ResponseTimeout, CallbackQueued
  <1>9. CASE KeepAliveTimeout
    <2>1. link.timer["keepAlive"] = "expired"
      BY <1>9 DEF KeepAliveTimeout, CallbackQueued, Works, Alive, Asleep, Still
    <2>2. Works(link)
      BY <2>1 DEF Asleep, Still
    <2> QED
      BY <1>9, <2>1, <2>2, OnKeepAliveTimeoutWorks DEF KeepAliveTimeout
  <1>10. CASE NewChannel
    BY <1>1, <1>10, GoingDown, OnNewChannelWorks DEF NewChannel
  <1>11. CASE ChannelLost
    BY <1>11, GoingDown, ResetAsleep DEF ChannelLost
  <1>12. CASE Enable
    <2>1. Asleep(link)
      BY <1>12 DEF Enable, Works, Alive
    <2> QED
      BY <1>1, <1>12, <2>1, EnableSessionAsleep DEF Enable
  <1>13. CASE Disable
    BY <1>13, GoingDown, DisableSessionAsleep DEF Disable
  <1>14. CASE UNCHANGED vars
    BY <1>14 DEF vars
  <1> QED
    BY <1>3, <1>4, <1>5, <1>6, <1>7, <1>8, <1>9, <1>10, <1>11, <1>12, <1>13, <1>14 DEF Next

\* The invariant holds throughout.
LEMMA TransmitInvariant ==
    ASSUME ~Shared, Late \subseteq {"response"}
    PROVE  Spec => []TransmitInv
  BY InitTransmit, NextTransmit, PTL DEF Spec

\* LinkContext::OnTxReady always hands a completion to the station that waits for it,
\* and no station waits for one that is not due: with a channel of its own, whatever
\* the peer sends and whenever response timers fire, even after they were cancelled.
\* (A keep-alive that runs after the link went down starts a transmission that is never
\* written; a session that leaves a shared channel leaves its transmission there.)
THEOREM CompletionsAreDue ==
    ASSUME ~Shared, Late \subseteq {"response"}
    PROVE  Spec => []CompletionIsDue
  <1>1. TransmitInv => CompletionIsDue
    <2> SUFFICES ASSUME LInv(link), Works(link) \/ Asleep(link)
                 PROVE  CompletionIsDue
      BY DEF TransmitInv, DInv
    <2>1. CASE Works(link)
      BY <2>1 DEF Works, Wire, PriDue, SecDue, Has, CompletionIsDue
    <2>2. CASE Asleep(link)
      BY <2>2 DEF Asleep, Still, CompletionIsDue, PriTransmitWait, SecTransmitWait, Sides
    <2> QED
      BY <2>1, <2>2
  <1> QED
    BY <1>1, TransmitInvariant, PTL

\* Neither priTxBuffer nor secTxBuffer is formatted again before the frame in it has
\* been written, under the same conditions.
THEOREM BuffersStayIntact ==
    ASSUME ~Shared, Late \subseteq {"response"}
    PROVE  Spec => []BuffersIntact
  <1>1. TransmitInv => BuffersIntact
    <2> SUFFICES ASSUME LInv(link), Works(link) \/ Asleep(link)
                 PROVE  BuffersIntact
      BY DEF TransmitInv, DInv
    <2>1. CASE Works(link)
      BY <2>1 DEF Works, Wire, BuffersIntact
    <2>2. CASE Asleep(link)
      BY <2>2 DEF Asleep, Still, BuffersIntact
    <2> QED
      BY <2>1, <2>2
  <1> QED
    BY <1>1, TransmitInvariant, PTL

\* Every message the transport layer hands down comes back by one OnTxReady, under the
\* same conditions.
THEOREM CompletionsMatchSends ==
    ASSUME ~Shared, Late \subseteq {"response"}
    PROVE  Spec => []OneCompletionPerSend
  <1>1. TransmitInv => OneCompletionPerSend
    <2> SUFFICES ASSUME LInv(link), Works(link) \/ Asleep(link)
                 PROVE  OneCompletionPerSend
      BY DEF TransmitInv, DInv
    <2>1. CASE Works(link)
      BY <2>1 DEF Works, Once, OneCompletionPerSend
    <2>2. CASE Asleep(link)
      BY <2>2 DEF Asleep, Still, OneCompletionPerSend
    <2> QED
      BY <2>1, <2>2
  <1> QED
    BY <1>1, TransmitInvariant, PTL
=============================================================================
