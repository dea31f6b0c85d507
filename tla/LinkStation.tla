----------------------------- MODULE LinkStation -----------------------------
(***************************************************************************)
(* One DNP3 link-layer station with what is directly attached to it: the   *)
(* sending side of the transport function above it and the transmit queue  *)
(* of the channel below it.                                                *)
(*                                                                         *)
(* The module has no variables.  A station is a record, and every handler  *)
(* of LinkContext, LinkLayer, the primary and secondary station states,    *)
(* TransportLayer and IOHandler is an operator from stations to stations,  *)
(* so that one station (LinkLayer) and a pair of them (LinkPair) use the   *)
(* same definitions.                                                       *)
(***************************************************************************)
EXTENDS Naturals, Sequences, FiniteSets

CONSTANTS
    Segment,      \* what one link frame carries of an application fragment
    NumRetry,     \* LinkConfig::NumRetry
    Shared        \* another session is enabled on the same channel

ASSUME ConfigAssumption ==
    NumRetry \in Nat /\ Shared \in BOOLEAN

-----------------------------------------------------------------------------
(***************************************************************************)
(* Frames and stations.                                                    *)
(***************************************************************************)
SecFunction == {"ACK", "NACK", "LINK_STATUS", "NOT_SUPPORTED"}
PriFunction == {"RESET_LINK_STATES", "TEST_LINK_STATES", "REQUEST_LINK_STATUS",
                "CONFIRMED_USER_DATA", "UNCONFIRMED_USER_DATA"}

\* flag is the frame count bit of a primary frame and the data flow control bit
\* of a secondary one; data is empty except in frames that carry user data.
Frame == [func : SecFunction \cup PriFunction, flag : BOOLEAN, data : Seq(Segment)]

Plain(func) == [func |-> func, flag |-> FALSE, data |-> <<>>]
UserData(func, fcb, segment) == [func |-> func, flag |-> fcb, data |-> <<segment>>]

NoFrame == [func |-> "NONE", flag |-> FALSE, data |-> <<>>]

\* States of the primary station that wait for the channel, and for the peer.
PriTransmitWait == {"SendUnconfirmedTransmitWait", "LinkResetTransmitWait",
                    "ConfUserDataTransmitWait", "RequestLinkStatusTransmitWait"}
PriResponseWait == {"ResetLinkWait", "ConfDataWait", "RequestLinkStatusWait"}
PriState == {"Idle"} \cup PriTransmitWait \cup PriResponseWait

\* States of the primary station whose handlers dereference pSegments.
UsesSegments == {"SendUnconfirmedTransmitWait", "LinkResetTransmitWait",
                 "ConfUserDataTransmitWait", "ResetLinkWait", "ConfDataWait"}

SecTransmitWait == {"TransmitWaitReset", "TransmitWaitNotReset"}
SecState == {"NotReset", "Reset"} \cup SecTransmitWait

Sides == {"Primary", "Secondary"}

\* The two TimerRef members. A timer is not started, running, or has expired with
\* its callback queued on the strand.
Timers == {"response", "keepAlive"}
TimerStates == {"none", "running", "expired"}

\* A transmission in the channel's queue refers to a buffer of the station; frame
\* remembers what the buffer held when the transmission was queued.
Transmission == [side : Sides, frame : Frame]

Station ==
    [useConfirms : BOOLEAN,                        \* LinkConfig::UseConfirms
     isOnline : BOOLEAN,
     pPriState : PriState,
     pSecState : SecState,
     txMode : {"Idle"} \cup Sides,
     txBuffer : [Sides -> Frame \cup {NoFrame}],   \* priTxBuffer, secTxBuffer
     pending : [Sides -> Frame \cup {NoFrame}],    \* pendingPriTx, pendingSecTx
     pSegments : BOOLEAN,                          \* pSegments is not null
     numRetryRemaining : 0..NumRetry,
     timer : [Timers -> TimerStates],
     orphans : [Timers -> Nat],                    \* callbacks no TimerRef can cancel
     nextReadFCB : BOOLEAN,
     nextWriteFCB : BOOLEAN,
     isRemoteReset : BOOLEAN,
     keepAliveTimeout : BOOLEAN,
     status : {"UNRESET", "RESET"},                \* last ILinkListener::OnStateChange
     posted : Nat,                                 \* OnTxReady calls posted upwards
     isSending : BOOLEAN,                          \* TransportLayer::isSending
     segments : Seq(Segment),                      \* TransportTx: segments not advanced over
     channel : BOOLEAN,                            \* IOHandler::channel is not null
     enabled : BOOLEAN,                            \* IOHandler::Session::enabled
     txQueue : Seq(Transmission)]                  \* IOHandler::txQueue, this session's part

InitialStation(useConfirms) ==
    [useConfirms |-> useConfirms, isOnline |-> FALSE, pPriState |-> "Idle", pSecState |-> "NotReset",
     txMode |-> "Idle", txBuffer |-> [s \in Sides |-> NoFrame],
     pending |-> [s \in Sides |-> NoFrame], pSegments |-> FALSE,
     numRetryRemaining |-> 0, timer |-> [t \in Timers |-> "none"],
     orphans |-> [t \in Timers |-> 0], nextReadFCB |-> FALSE, nextWriteFCB |-> FALSE,
     isRemoteReset |-> FALSE, keepAliveTimeout |-> FALSE, status |-> "UNRESET",
     posted |-> 0, isSending |-> FALSE, segments |-> <<>>, channel |-> FALSE,
     enabled |-> FALSE, txQueue |-> <<>>]

-----------------------------------------------------------------------------
(***************************************************************************)
(* Timers, retries and the transmit queue.                                 *)
(***************************************************************************)

\* TimerRef::Start does nothing while the reference is set.
Start(l, t) == IF l.timer[t] = "none" THEN [l EXCEPT !.timer[t] = "running"] ELSE l

\* TimerRef::Cancel. A callback that is already queued runs all the same.
Cancel(l, t) ==
    [l EXCEPT !.timer[t] = "none",
              !.orphans[t] = IF l.timer[t] = "expired" THEN @ + 1 ELSE @]

\* A timer callback clears the reference before its action runs. When it belongs to
\* a timer that was cancelled, the timer started since is left without a reference.
Fired(l, t) ==
    [l EXCEPT !.timer[t] = "none",
              !.orphans[t] = IF l.timer[t] = "none" THEN @ - 1 ELSE @]

ResetRetry(l) == [l EXCEPT !.numRetryRemaining = NumRetry]

\* ILinkTx::BeginTransmit as IOHandler implements it.
BeginWrite(l, side, frame) ==
    IF l.channel
    THEN [l EXCEPT !.txMode = side,
                   !.txQueue = Append(@, [side |-> side, frame |-> frame])]
    ELSE [l EXCEPT !.txMode = side]

\* Mutant of QueueTransmit: both stations format their frames into one buffer.
QueueTransmit_OneBuffer(l, side, frame) ==
    LET formatted == [l EXCEPT !.txBuffer = [s \in Sides |-> frame]]
    IN  IF l.txMode = "Idle"
        THEN BeginWrite(formatted, side, frame)
        ELSE [formatted EXCEPT !.pending[side] = frame]

\* Format the frame into the side's buffer, and send it or leave it pending.
QueueTransmit(l, side, frame) ==
    LET formatted == [l EXCEPT !.txBuffer[side] = frame]
    IN  IF l.txMode = "Idle"
        THEN BeginWrite(formatted, side, frame)
        ELSE [formatted EXCEPT !.pending[side] = frame]

TryPendingTx(l, side) ==
    IF l.txMode = "Idle" /\ l.pending[side] # NoFrame
    THEN [BeginWrite(l, side, l.pending[side]) EXCEPT !.pending[side] = NoFrame]
    ELSE l

QueueResetLinks(l) ==
    [QueueTransmit(l, "Primary", Plain("RESET_LINK_STATES"))
        EXCEPT !.pPriState = "LinkResetTransmitWait"]

QueueConfirmed(l) ==
    [QueueTransmit(l, "Primary", UserData("CONFIRMED_USER_DATA", l.nextWriteFCB, Head(l.segments)))
        EXCEPT !.pPriState = "ConfUserDataTransmitWait"]

QueueUnconfirmed(l) ==
    [QueueTransmit(l, "Primary", UserData("UNCONFIRMED_USER_DATA", FALSE, Head(l.segments)))
        EXCEPT !.pPriState = "SendUnconfirmedTransmitWait"]

\* The transport layer learns of the end of a send by a task of its own.
CompleteSendOperation(l) ==
    [l EXCEPT !.pSegments = FALSE, !.posted = @ + 1, !.pPriState = "Idle"]

-----------------------------------------------------------------------------
(***************************************************************************)
(* Primary station.                                                        *)
(***************************************************************************)
TrySendRequestLinkStatus(l) ==
    IF l.pPriState = "Idle"
    THEN [QueueTransmit([l EXCEPT !.keepAliveTimeout = FALSE],
                        "Primary", Plain("REQUEST_LINK_STATUS"))
            EXCEPT !.pPriState = "RequestLinkStatusTransmitWait"]
    ELSE l

TrySendConfirmed(l) ==
    IF l.isRemoteReset THEN QueueConfirmed(ResetRetry(l)) ELSE QueueResetLinks(ResetRetry(l))

TrySendSegments(l) ==
    IF l.pPriState = "Idle"
    THEN IF l.useConfirms THEN TrySendConfirmed(l) ELSE QueueUnconfirmed(l)
    ELSE l

TryStartTransmission(l) ==
    LET asked == IF l.keepAliveTimeout THEN TrySendRequestLinkStatus(l) ELSE l
    IN  IF asked.pSegments THEN TrySendSegments(asked) ELSE asked

\* TransportTx::Advance: one segment less. Then the next one is sent, or the send ends.
Advance(l) == [l EXCEPT !.segments = Tail(@)]

AdvanceUnconfirmed(l) ==
    IF Advance(l).segments # <<>> THEN QueueUnconfirmed(Advance(l))
                                  ELSE CompleteSendOperation(Advance(l))

AdvanceConfirmed(l) ==
    IF Advance(l).segments # <<>> THEN QueueConfirmed(Advance(l))
                                  ELSE CompleteSendOperation(Advance(l))

PriOnTxReady(l) ==
    LET await(state) == [Start(l, "response") EXCEPT !.pPriState = state]
    IN  CASE l.pPriState = "SendUnconfirmedTransmitWait" -> AdvanceUnconfirmed(l)
          [] l.pPriState = "LinkResetTransmitWait" -> await("ResetLinkWait")
          [] l.pPriState = "ConfUserDataTransmitWait" -> await("ConfDataWait")
          [] l.pPriState = "RequestLinkStatusTransmitWait" -> await("RequestLinkStatusWait")
          [] OTHER -> l

PriOnAck(l) ==
    CASE l.pPriState = "ResetLinkWait" ->
           QueueConfirmed(Cancel([l EXCEPT !.isRemoteReset = TRUE, !.nextWriteFCB = TRUE,
                                           !.status = "RESET"], "response"))
      [] l.pPriState = "ConfDataWait" ->
           AdvanceConfirmed(Cancel([l EXCEPT !.nextWriteFCB = ~@], "response"))
      [] OTHER -> l

PriFailure(l) == CompleteSendOperation(Cancel(l, "response"))

PriOnNack(l, rxBuffFull) ==
    LET unreset == [l EXCEPT !.status = "UNRESET"]
    IN  CASE l.pPriState = "ResetLinkWait" -> PriFailure(l)
          [] l.pPriState = "ConfDataWait" /\ rxBuffFull -> PriFailure(unreset)
          [] l.pPriState = "ConfDataWait" /\ ~rxBuffFull ->
               QueueResetLinks(Cancel(ResetRetry(unreset), "response"))
          [] l.pPriState = "RequestLinkStatusWait" ->
               [Cancel(l, "response") EXCEPT !.pPriState = "Idle"]
          [] OTHER -> l

\* Mutant of PriOnOther: the failure of a keep-alive request completes a send.
PriOnOther_CompletesSend(l) ==
    IF l.pPriState \in PriResponseWait THEN PriFailure(l) ELSE l

\* LINK_STATUS and NOT_SUPPORTED end whatever exchange the station waits in.
PriOnOther(l) ==
    CASE l.pPriState \in {"ResetLinkWait", "ConfDataWait"} -> PriFailure(l)
      [] l.pPriState = "RequestLinkStatusWait" ->
           [Cancel(l, "response") EXCEPT !.pPriState = "Idle"]
      [] OTHER -> l

\* Mutant of PriOnTimeout: nobody handles the timeout of a link status request.
PriOnTimeout_StatusStays(l) ==
    LET retried == [l EXCEPT !.numRetryRemaining = @ - 1]
        retry == l.numRetryRemaining > 0
    IN  CASE l.pPriState = "ResetLinkWait" /\ retry -> QueueResetLinks(retried)
          [] l.pPriState = "ConfDataWait" /\ retry -> QueueConfirmed(retried)
          [] l.pPriState \in {"ResetLinkWait", "ConfDataWait"} /\ ~retry -> CompleteSendOperation(l)
          [] OTHER -> l

\* Mutant of PriOnTimeout: the listener is not told of the last timeout.
PriOnTimeout_Silent(l) ==
    LET retried == [l EXCEPT !.numRetryRemaining = @ - 1]
        retry == l.numRetryRemaining > 0
    IN  CASE l.pPriState = "ResetLinkWait" /\ retry -> QueueResetLinks(retried)
          [] l.pPriState = "ConfDataWait" /\ retry -> QueueConfirmed(retried)
          [] l.pPriState \in {"ResetLinkWait", "ConfDataWait"} /\ ~retry -> CompleteSendOperation(l)
          [] l.pPriState = "RequestLinkStatusWait" -> [l EXCEPT !.pPriState = "Idle"]
          [] OTHER -> l

PriOnTimeout(l) ==
    LET retried == [l EXCEPT !.numRetryRemaining = @ - 1]
        retry == l.numRetryRemaining > 0
    IN  CASE l.pPriState = "ResetLinkWait" /\ retry -> QueueResetLinks(retried)
          [] l.pPriState = "ResetLinkWait" /\ ~retry -> CompleteSendOperation(l)
          [] l.pPriState = "ConfDataWait" /\ retry -> QueueConfirmed(retried)
          [] l.pPriState = "ConfDataWait" /\ ~retry ->
               CompleteSendOperation([l EXCEPT !.status = "UNRESET"])
          [] l.pPriState = "RequestLinkStatusWait" -> [l EXCEPT !.pPriState = "Idle"]
          [] OTHER -> l

-----------------------------------------------------------------------------
(***************************************************************************)
(* Transport layer, sending side.                                          *)
(***************************************************************************)

\* TransportLayer::BeginTransmit of a fragment of one or more segments; <<>> is an
\* upper layer with nothing to say. TransportLayer::isOnline follows the link's.
\* LinkLayer::Send keeps the segments it already has, and returns true.
BeginTransmit(l, message) ==
    LET configured == [l EXCEPT !.isSending = TRUE, !.segments = message]
    IN  CASE ~l.isOnline \/ message = <<>> \/ l.isSending -> l
          [] l.isOnline /\ message # <<>> /\ ~l.isSending /\ l.pSegments -> configured
          [] OTHER -> TryStartTransmission([configured EXCEPT !.pSegments = TRUE])

\* TransportLayer::OnTxReady, when the posted call runs.
TransportOnTxReady(l, message) ==
    LET ran == [l EXCEPT !.posted = @ - 1]
    IN  IF l.isOnline /\ l.isSending
        THEN BeginTransmit([ran EXCEPT !.isSending = FALSE], message)
        ELSE ran

-----------------------------------------------------------------------------
(***************************************************************************)
(* Secondary station.                                                      *)
(***************************************************************************)
Respond(l, func, next) ==
    [QueueTransmit(l, "Secondary", Plain(func)) EXCEPT !.pSecState = next]

\* Mutant of PushesDataUp: the frame count bit is not compared.
PushesDataUp_AnyFCB(l, f) ==
    /\ l.isOnline
    /\ \/ f.func = "UNCONFIRMED_USER_DATA"
       \/ f.func = "CONFIRMED_USER_DATA" /\ l.pSecState = "Reset"

\* Does this frame's user data reach the transport layer?
PushesDataUp(l, f) ==
    /\ l.isOnline
    /\ \/ f.func = "UNCONFIRMED_USER_DATA"
       \/ f.func = "CONFIRMED_USER_DATA" /\ l.pSecState = "Reset" /\ f.flag = l.nextReadFCB

SecOnResetLinkStates(l) ==
    IF l.pSecState \in SecTransmitWait THEN l
    ELSE [Respond(l, "ACK", "TransmitWaitReset") EXCEPT !.nextReadFCB = TRUE]

SecOnRequestLinkStatus(l) ==
    CASE l.pSecState = "NotReset" -> Respond(l, "LINK_STATUS", "TransmitWaitNotReset")
      [] l.pSecState = "Reset" -> Respond(l, "LINK_STATUS", "TransmitWaitReset")
      [] OTHER -> l

SecOnTestLinkStatus(l, fcb) ==
    IF l.pSecState = "Reset" /\ fcb = l.nextReadFCB
    THEN [Respond(l, "ACK", "TransmitWaitReset") EXCEPT !.nextReadFCB = ~@]
    ELSE l

\* The acknowledgement is queued before the data goes up, where it may be answered.
SecOnConfirmedUserData(l, f, answer) ==
    LET acked == Respond(l, "ACK", "TransmitWaitReset")
    IN  CASE l.pSecState # "Reset" -> l
          [] l.pSecState = "Reset" /\ ~PushesDataUp(l, f) -> acked
          [] OTHER -> BeginTransmit([acked EXCEPT !.nextReadFCB = ~@], answer)

SecOnTxReady(l) ==
    CASE l.pSecState = "TransmitWaitReset" -> [l EXCEPT !.pSecState = "Reset"]
      [] l.pSecState = "TransmitWaitNotReset" -> [l EXCEPT !.pSecState = "NotReset"]
      [] OTHER -> l

-----------------------------------------------------------------------------
(***************************************************************************)
(* Entry points of the link layer.                                         *)
(***************************************************************************)

\* A frame with this station's addresses; answer is what the upper layer sends in
\* return when the frame carries data up.
OnFrame(l, f, answer) ==
    LET handled ==
          CASE f.func = "ACK" -> PriOnAck(l)
            [] f.func = "NACK" -> PriOnNack(l, f.flag)
            [] f.func \in {"LINK_STATUS", "NOT_SUPPORTED"} -> PriOnOther(l)
            [] f.func = "TEST_LINK_STATES" -> SecOnTestLinkStatus(l, f.flag)
            [] f.func = "RESET_LINK_STATES" -> SecOnResetLinkStates(l)
            [] f.func = "REQUEST_LINK_STATUS" -> SecOnRequestLinkStatus(l)
            [] f.func = "CONFIRMED_USER_DATA" -> SecOnConfirmedUserData(l, f, answer)
            [] f.func = "UNCONFIRMED_USER_DATA" -> BeginTransmit(l, answer)
    IN  IF l.isOnline THEN TryStartTransmission(handled) ELSE l

\* LinkLayer::OnTxReady: the channel has written a frame of this station.
OnTxReady(l) ==
    LET idle == [l EXCEPT !.txMode = "Idle"]
        next == TryPendingTx(TryPendingTx(idle, "Secondary"), "Primary")
    IN  IF l.txMode = "Idle" THEN l
        ELSE TryStartTransmission(IF l.txMode = "Primary" THEN PriOnTxReady(next)
                                                          ELSE SecOnTxReady(next))

\* Mutant of OnResponseTimeout: what waited for the exchange to end is not started.
OnResponseTimeout_NoStart(l) == PriOnTimeout(Fired(l, "response"))

OnResponseTimeout(l) == TryStartTransmission(PriOnTimeout(Fired(l, "response")))

\* elapsed: no frame has arrived for a keep-alive interval.
OnKeepAliveTimeout(l, elapsed) ==
    LET fired == Fired(l, "keepAlive")
    IN  TryStartTransmission(
            Start([fired EXCEPT !.keepAliveTimeout = @ \/ elapsed], "keepAlive"))

OnLowerLayerUp(l, message) ==
    IF l.isOnline THEN l
    ELSE BeginTransmit(
            Start([l EXCEPT !.isOnline = TRUE, !.status = "UNRESET"], "keepAlive"), message)

\* Mutant of OnLowerLayerDown: the primary station stays in its state.
OnLowerLayerDown_KeepsState(l) ==
    IF ~l.isOnline THEN l
    ELSE Cancel(Cancel(
            [l EXCEPT !.isOnline = FALSE, !.keepAliveTimeout = FALSE,
                      !.isRemoteReset = FALSE, !.pSegments = FALSE, !.txMode = "Idle",
                      !.pending = [s \in Sides |-> NoFrame],
                      !.pSecState = "NotReset", !.status = "UNRESET", !.isSending = FALSE],
            "response"), "keepAlive")

\* Mutant of OnLowerLayerDown: pending transmissions are not cleared.
OnLowerLayerDown_KeepsPending(l) ==
    IF ~l.isOnline THEN l
    ELSE Cancel(Cancel(
            [l EXCEPT !.isOnline = FALSE, !.keepAliveTimeout = FALSE,
                      !.isRemoteReset = FALSE, !.pSegments = FALSE, !.txMode = "Idle",
                      !.pPriState = "Idle",
                      !.pSecState = "NotReset", !.status = "UNRESET", !.isSending = FALSE],
            "response"), "keepAlive")

OnLowerLayerDown(l) ==
    IF ~l.isOnline THEN l
    ELSE Cancel(Cancel(
            [l EXCEPT !.isOnline = FALSE, !.keepAliveTimeout = FALSE,
                      !.isRemoteReset = FALSE, !.pSegments = FALSE, !.txMode = "Idle",
                      !.pending = [s \in Sides |-> NoFrame], !.pPriState = "Idle",
                      !.pSecState = "NotReset", !.status = "UNRESET", !.isSending = FALSE],
            "response"), "keepAlive")

-----------------------------------------------------------------------------
(***************************************************************************)
(* Entry points of the channel, for one session.                           *)
(***************************************************************************)

\* IOHandler::Reset
Reset(l) ==
    [(IF l.channel THEN OnLowerLayerDown(l) ELSE l) EXCEPT !.channel = FALSE, !.txQueue = <<>>]

\* IOHandler::OnNewChannel, which may replace a channel that is still open.
OnNewChannel(l, message) ==
    LET opened == [Reset(l) EXCEPT !.channel = TRUE]
    IN  IF l.enabled THEN OnLowerLayerUp(opened, message) ELSE opened

\* IOHandler::OnWriteComplete without an error.
OnWriteComplete(l) == OnTxReady([l EXCEPT !.txQueue = Tail(@)])

\* IOHandler::Enable
EnableSession(l, message) ==
    LET on == [l EXCEPT !.enabled = TRUE]
    IN  IF l.channel THEN OnLowerLayerUp(on, message) ELSE on

\* IOHandler::Disable. The channel, with whatever this session has queued on it,
\* stays when another session needs it.
DisableSession(l) ==
    LET off == [l EXCEPT !.enabled = FALSE]
        down == IF l.channel THEN OnLowerLayerDown(off) ELSE off
    IN  IF Shared THEN down ELSE Reset(down)
=============================================================================
