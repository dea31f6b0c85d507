------------------------------ MODULE LinkLayer ------------------------------
(***************************************************************************)
(* One link station between an upper layer that sends whenever it may, a   *)
(* channel that opens, breaks and is replaced, and a peer that sends any   *)
(* frame at any time.  Every action is one task of the executor's strand.  *)
(*                                                                         *)
(* Late names the callbacks that may already be queued on the strand when  *)
(* the layer goes down and therefore run after it: "response" and          *)
(* "keepAlive" are the timers', "completion" is the OnTxReady posted by    *)
(* CompleteSendOperation.                                                  *)
(***************************************************************************)
EXTENDS LinkStation

CONSTANTS
    UseConfirms,  \* the values of LinkConfig::UseConfirms to consider
    Messages,     \* fragments the upper layer sends, as sequences of segments
    PeerFrames,   \* frames the peer may send
    KeepAlive,    \* when the keep-alive timer may expire: "never", "between" sends, "any"
    Late,         \* see above
    MaxOrphans,   \* bound on queued callbacks of cancelled timers
    MaxStale      \* bound on transmissions a session finds queued when it is enabled

ASSUME EnvironmentAssumption ==
    /\ UseConfirms \subseteq BOOLEAN
    /\ Messages \subseteq Seq(Segment) \ {<<>>}
    /\ PeerFrames \subseteq Frame
    /\ KeepAlive \in {"never", "between", "any"}
    /\ Late \subseteq Timers \cup {"completion"}
    /\ MaxOrphans \in Nat /\ MaxStale \in Nat

VARIABLE link

vars == <<link>>

\* What the upper layer does when it is called: it may send a message, or nothing.
Answers == Messages \cup {<<>>}

Init == \E c \in UseConfirms : link = InitialStation(c)

-----------------------------------------------------------------------------
\* The upper layer starts a send of its own accord.
Send ==
    /\ link.isOnline /\ ~link.isSending
    /\ \E m \in Messages : link' = BeginTransmit(link, m)

\* The OnTxReady that CompleteSendOperation posted.
RunCompletion ==
    /\ link.posted > 0
    /\ \E m \in Answers : link' = TransportOnTxReady(link, m)

\* The channel has written the frame at the head of its queue. No primary frame is
\* being written when a completion is posted, so the strand runs the completion
\* before the end of a primary write that started later.
WriteComplete ==
    /\ link.channel /\ link.txQueue # <<>>
    /\ Head(link.txQueue).side = "Primary" => link.posted = 0
    /\ link' = OnWriteComplete(link)

ReceiveFrame ==
    /\ link.channel /\ link.enabled
    /\ \E f \in PeerFrames, m \in Answers : link' = OnFrame(link, f, m)

TimerExpires(t) ==
    /\ link.timer[t] = "running"
    /\ t = "keepAlive" => \/ KeepAlive = "any"
                          \/ KeepAlive = "between" /\ ~link.isSending
    /\ link.orphans[t] < MaxOrphans
    /\ link' = [link EXCEPT !.timer[t] = "expired"]

\* The timer's callback, or that of a timer that was cancelled after it had expired.
CallbackQueued(t) == link.timer[t] = "expired" \/ link.orphans[t] > 0

ResponseTimeout ==
    /\ CallbackQueued("response")
    /\ link' = OnResponseTimeout(link)

KeepAliveTimeout ==
    /\ CallbackQueued("keepAlive")
    /\ \E elapsed \in BOOLEAN : link' = OnKeepAliveTimeout(link, elapsed)

\* May the layer go down now, with the callbacks that are queued?
MayGoDown ==
    /\ \A t \in Timers : link.timer[t] = "expired" => t \in Late
    /\ link.posted > 0 => "completion" \in Late /\ link.posted = 1

NewChannel ==
    /\ link.enabled \/ Shared
    /\ MayGoDown
    /\ \E m \in Answers : link' = OnNewChannel(link, m)

\* A read or a write has failed.
ChannelLost ==
    /\ link.channel /\ MayGoDown
    /\ link' = Reset(link)

Enable ==
    /\ ~link.enabled
    /\ Len(link.txQueue) <= MaxStale
    /\ \E m \in Answers : link' = EnableSession(link, m)

Disable ==
    /\ link.enabled /\ MayGoDown
    /\ link' = DisableSession(link)

Next ==
    \/ Send
    \/ RunCompletion
    \/ WriteComplete
    \/ ReceiveFrame
    \/ \E t \in Timers : TimerExpires(t)
    \/ ResponseTimeout
    \/ KeepAliveTimeout
    \/ NewChannel
    \/ ChannelLost
    \/ Enable
    \/ Disable

Spec == Init /\ [][Next]_vars

\* Tasks of the strand run, writes end, and timers expire.
FairSpec ==
    /\ Spec
    /\ WF_vars(RunCompletion)
    /\ WF_vars(WriteComplete)
    /\ WF_vars(TimerExpires("response"))
    /\ WF_vars(ResponseTimeout)
-----------------------------------------------------------------------------
(***************************************************************************)
(* Properties.                                                             *)
(***************************************************************************)

\* The station is a LinkContext whose members have their declared types.
TypeOK == link \in Station

\* The handlers of a primary station that is sending dereference pSegments without a
\* test and read a segment of it: whatever frames, timeouts and completions arrive,
\* the pointer is set and a segment is left.
SegmentsWhileSending ==
    /\ link.pPriState \in UsesSegments => link.pSegments
    /\ link.pSegments => link.segments # <<>>

\* A primary station that waits for the peer has a response timer that will end the
\* wait, although TimerRef::Start is a no-op while an older timer is referenced and
\* the callback of a cancelled timer can still run.
ResponseWaitIsTimed ==
    link.pPriState \in PriResponseWait => link.timer["response"] # "none"

\* LinkContext::OnTxReady only tells its two stations apart by txMode. Each station
\* that waits for a transmission has exactly one, written or pending, nobody else
\* has one, and the channel holds the one that txMode says is being written.
CompletionIsDue ==
    /\ link.pPriState \in PriTransmitWait
          <=> link.txMode = "Primary" \/ link.pending["Primary"] # NoFrame
    /\ link.pSecState \in SecTransmitWait
          <=> link.txMode = "Secondary" \/ link.pending["Secondary"] # NoFrame
    /\ \A s \in Sides : link.pending[s] # NoFrame => link.txMode \notin {"Idle", s}
    /\ IF link.txMode = "Idle" THEN link.txQueue = <<>>
       ELSE Len(link.txQueue) = 1 /\ Head(link.txQueue).side = link.txMode

\* priTxBuffer and secTxBuffer are single buffers that queued and pending
\* transmissions refer to: none is formatted again before it has been written.
BuffersIntact ==
    \A s \in Sides :
        /\ link.pending[s] # NoFrame => link.pending[s] = link.txBuffer[s]
        /\ \A i \in 1..Len(link.txQueue) :
              link.txQueue[i].side = s => link.txQueue[i].frame = link.txBuffer[s]

\* TransportLayer::isSending is true exactly while the link layer has the segments
\* or has posted the one OnTxReady that gives them back.
OneCompletionPerSend ==
    /\ link.isSending <=> link.pSegments \/ link.posted > 0
    /\ link.posted <= IF link.pSegments THEN 0 ELSE 1

\* Every send ends and the segments are given back: by acknowledgement, by
\* failure or by the last retry's timeout, unless the channel is replaced for ever.
SendEnds == <>[][~NewChannel]_vars => (link.pSegments ~> ~link.pSegments)
=============================================================================
