----------------------------- MODULE Outstation -----------------------------
(***************************************************************************)
(* The outstation's application layer: OContext with its three channel     *)
(* states, request history, deferred request, select-before-operate and    *)
(* time-synchronisation state, response fragmentation and unsolicited      *)
(* reporting (cpp/libs/src/opendnp3/outstation).                           *)
(*                                                                         *)
(* All of OContext runs on one strand, so each entry point is one atomic   *)
(* step: the handler, the state transition it takes and the trailing       *)
(* CheckForTaskStart. The methods are operators from a context to a        *)
(* context, named as in the source; an action applies one to `ctx'.        *)
(*                                                                         *)
(* Requests are abstract: a function code, a sequence number, the UNS bit  *)
(* and the objects, reduced to what the handlers tell apart. A response is *)
(* reduced to its control field and the points and events it carries.      *)
(***************************************************************************)
EXTENDS EventStorage

CONSTANTS
    SeqModulus,     \* application sequence numbers are modulo this (16 in the code)
    Requests,       \* the application fragments a master may send
    NoRequest,      \* "no request", for the history and the deferred slot
    Controls,       \* object contents of command requests
    Rejected,       \* the controls the user's command handler refuses to select
    StaticPoints,   \* static points, numbered in the order DatabaseBuffers loads them
    OctetPoints,    \* those that are octet strings
    FragmentSize,   \* how many objects fit in one fragment
    allowUnsolicited, ConfiguredMask,  \* OutstationParams: unsolicited reporting and its classes
    MaxArrivals,    \* bound: events recorded in one behaviour
    MaxOrphans      \* bound: expired timers whose callback outlives the reference

Seqs == 0..(SeqModulus - 1)

\* AppSeqNum::Next
Next1(seq) == (seq + 1) % SeqModulus

\* The function codes that OContext handles in different ways. OTHER stands for
\* the codes whose handler changes no state of the context: DIRECT_OPERATE,
\* restarts, DELAY_MEASURE, ASSIGN_CLASS and the unsupported ones.
FunctionCode ==
    {"CONFIRM", "READ", "WRITE", "SELECT", "OPERATE", "DIRECT_OPERATE_NR",
     "ENABLE_UNSOLICITED", "DISABLE_UNSOLICITED", "RECORD_CURRENT_TIME", "OTHER"}

\* Objects other than a command that a request may carry. A malformed request
\* fails the parser's first pass, before any handler sees it.
OtherObjects == {"none", "malformed", "restartIIN", "lanTime"}

RequestType ==
    [function : FunctionCode, seq : Seqs, uns : BOOLEAN,
     classes : SUBSET Classes,      \* event classes of a READ, ENABLE or DISABLE
     points  : SUBSET StaticPoints, \* static points of a READ
     object  : Controls \cup OtherObjects]

\* A transmitted response: sequence number, FIR and CON, and what it carries.
ResponseType ==
    [seq : Seqs, fir : BOOLEAN, con : BOOLEAN,
     events : SUBSET Nat, classes : SUBSET Classes, points : SUBSET StaticPoints,
     answers : Requests \cup {NoRequest}]

NoResponse ==
    [seq |-> 0, fir |-> FALSE, con |-> FALSE, events |-> {}, classes |-> {},
     points |-> {}, answers |-> NoRequest]

ASSUME SeqAssumption == SeqModulus \in Nat \ {0}
ASSUME RequestsAssumption == Requests \subseteq RequestType /\ NoRequest \notin Requests
ASSUME StaticAssumption == StaticPoints \subseteq Nat /\ IsFiniteSet(StaticPoints)
ASSUME FragmentAssumption == FragmentSize \in Nat \ {0}
ASSUME UnsolicitedAssumption == allowUnsolicited \in BOOLEAN /\ ConfiguredMask \subseteq Classes
ASSUME OutstationBounds == MaxArrivals \in Nat /\ MaxOrphans \in Nat \ {0}

VARIABLES
    ctx,      \* the OContext
    applying  \* an update transaction is being applied on the strand

vars == <<ctx, applying>>

States == {"Idle", "SolicitedConfirmWait", "UnsolicitedConfirmWait"}

\* The confirm timer as TimerRef sees it: no timer, one that is running, or one
\* that has expired and whose callback is queued on the strand but has not run.
TimerStates == {"none", "running", "expired"}

IsContext(c) ==
    /\ c \in
        [isOnline : BOOLEAN, isTransmitting : BOOLEAN, state : States,
         deviceRestart : BOOLEAN,               \* the only bit of staticIIN
         confirmTimer : TimerStates,
         orphans : Nat,                         \* callbacks no TimerRef can cancel
         lastRequest : Requests \cup {NoRequest},  \* RequestHistory
         deferred : Requests \cup {NoRequest},     \* DeferredRequest
         control : [seq : Seqs, object : Controls \cup OtherObjects, valid : BOOLEAN],
         operated : 0..2,                       \* history: OPERATEs run for this selection
         time : [seq : Seqs, valid : BOOLEAN],  \* TimeSyncState
         solNum : Seqs, solConfirmNum : Seqs, solTx : ResponseType,
         unsolNum : Seqs, unsolConfirmNum : Seqs, unsolTx : ResponseType,
         completedNull : BOOLEAN, unsolClassMask : SUBSET Classes,
         firstFragment : BOOLEAN,               \* ResponseContext: fragmentCount = 0
         static : SUBSET StaticPoints,          \* points selected in the database
         overlapped : BOOLEAN,                  \* history: BeginTransmit while transmitting
         buffer : {c.buffer}]
    /\ IsBuffer(c.buffer)

\* The context as constructed.
InitialContext ==
    [isOnline |-> FALSE, isTransmitting |-> FALSE, state |-> "Idle",
     deviceRestart |-> TRUE, confirmTimer |-> "none", orphans |-> 0,
     lastRequest |-> NoRequest, deferred |-> NoRequest,
     control |-> [seq |-> 0, object |-> "none", valid |-> FALSE], operated |-> 0,
     time |-> [seq |-> 0, valid |-> FALSE],
     solNum |-> 0, solConfirmNum |-> 0, solTx |-> NoResponse,
     unsolNum |-> 0, unsolConfirmNum |-> 0, unsolTx |-> NoResponse,
     completedNull |-> FALSE, unsolClassMask |-> ConfiguredMask,
     firstFragment |-> TRUE, static |-> {}, overlapped |-> FALSE,
     buffer |-> EmptyBuffer]

-----------------------------------------------------------------------------
(***************************************************************************)
(* Timer, transmission, and what a fragment carries.                       *)
(***************************************************************************)

\* TimerRef::Cancel. A callback that is already queued runs all the same.
CancelConfirmTimer(c) ==
    [c EXCEPT !.confirmTimer = "none",
              !.orphans = IF c.confirmTimer = "expired" THEN @ + 1 ELSE @]

RestartConfirmTimer(c) == [CancelConfirmTimer(c) EXCEPT !.confirmTimer = "running"]

CanTransmit(c) == c.isOnline /\ ~c.isTransmitting

BeginTx(c) == [c EXCEPT !.isTransmitting = TRUE,
                        !.overlapped = @ \/ ~c.isOnline \/ c.isTransmitting]

BeginResponseTx(c, rsp) == BeginTx([c EXCEPT !.solTx = rsp])

\* Mutant of BeginUnsolTx: the number is advanced before it is kept for the confirm.
BeginUnsolTx_IncrementFirst(c, rsp) ==
    BeginTx([c EXCEPT !.unsolTx = rsp,
                      !.unsolConfirmNum = Next1(c.unsolNum),
                      !.unsolNum = Next1(@)])

BeginUnsolTx(c, rsp) ==
    BeginTx([c EXCEPT !.unsolTx = rsp,
                      !.unsolConfirmNum = c.unsolNum,
                      !.unsolNum = Next1(@)])

\* GetResponseIIN has one effect on the context: it may clear the overflow flag.
GetResponseIIN(c) == [c EXCEPT !.buffer = QueryOverflow(@)]

HasSelection(c) == c.static # {} \/ NumSelected(c.buffer) > 0

\* ResponseContext::LoadResponse, and the tail that RespondToReadRequest and
\* ContinueMultiFragResponse share: events first, static points in the room
\* that is left, a confirm asked for unless this is a final event-free fragment.
SendFragment(c, seq, request) ==
    LET loaded == Loaded(c.buffer, FragmentSize)
        after  == Load(c.buffer, FragmentSize)
        full   == NumSelected(after) # 0
        points == IF full THEN {}
                  ELSE First(c.static, FragmentSize - Cardinality(loaded))
        fin    == ~full /\ c.static \subseteq points
        con    == ~fin \/ loaded # {}
        rsp    == [seq |-> seq, fir |-> c.firstFragment, con |-> con,
                   events |-> loaded,
                   classes |-> {c.buffer.events[i].clazz : i \in loaded},
                   points |-> points, answers |-> request]
        sent   == BeginResponseTx(
                    GetResponseIIN([c EXCEPT !.buffer = after, !.static = @ \ points,
                                             !.firstFragment = FALSE,
                                             !.solConfirmNum = seq]),
                    rsp)
    IN  IF con
        THEN [RestartConfirmTimer(sent) EXCEPT !.state = "SolicitedConfirmWait"]
        ELSE [sent EXCEPT !.state = "Idle"]

-----------------------------------------------------------------------------
(***************************************************************************)
(* Handlers of the function codes.                                         *)
(***************************************************************************)

\* Mutant of UnselectStatic: the static selection of the last read is kept.
UnselectStatic_Keep(c) == c

\* IStaticSelector::Unselect goes through eight of the nine static types.
UnselectStatic(c) == [c EXCEPT !.static = @ \cap OctetPoints]

\* HandleRead up to the loading of the response: a new read starts from a
\* clean selection.
SelectForRead(c, r) ==
    LET clean == UnselectStatic([c EXCEPT !.firstFragment = TRUE,
                                          !.buffer = Unselect(@)])
    IN  [clean EXCEPT
           !.buffer = SelectByClass(@, r.classes, Cardinality(Ids(@))),
           !.static = @ \cup r.points]

EmptyResponse(r) ==
    [seq |-> r.seq, fir |-> TRUE, con |-> FALSE, events |-> {}, classes |-> {},
     points |-> {}, answers |-> r]

RespondToReadRequest(c, r) ==
    LET recorded == [c EXCEPT !.lastRequest = r]
        rejected == UnselectStatic([recorded EXCEPT !.firstFragment = TRUE,
                                                    !.buffer = Unselect(@),
                                                    !.solConfirmNum = r.seq])
    IN  IF r.object = "malformed"
        THEN [BeginResponseTx(GetResponseIIN(rejected), EmptyResponse(r))
                EXCEPT !.state = "Idle"]
        ELSE SendFragment(SelectForRead(recorded, r), r.seq, r)

\* WriteHandler: the restart bit can only be cleared; a LAN time needs the
\* recorded time of the request with the preceding sequence number.
HandleWrite(c, r) ==
    [c EXCEPT !.deviceRestart = @ /\ r.object # "restartIIN",
              !.time = [seq |-> @.seq,
                        valid |-> @.valid /\ ~(r.object = "lanTime" /\ @.seq = c.solNum)]]

HandleSelect(c, r) ==
    IF r.object \in Controls \ Rejected
    THEN [c EXCEPT !.control = [seq |-> Next1(c.solNum), object |-> r.object, valid |-> TRUE],
                   !.operated = 0]
    ELSE c

\* ControlState::ValidateSelection
ValidSelection(c, r) ==
    c.control.valid /\ c.control.seq = c.solNum /\ c.control.object = r.object

HandleOperate(c, r) ==
    IF ValidSelection(c, r)
    THEN [c EXCEPT !.operated = IF @ = 2 THEN 2 ELSE @ + 1]
    ELSE c

HandleEnableUnsolicited(c, r) ==
    IF allowUnsolicited /\ r.object # "malformed"
    THEN [c EXCEPT !.unsolClassMask = @ \cup r.classes] ELSE c

HandleDisableUnsolicited(c, r) ==
    IF allowUnsolicited /\ r.object # "malformed"
    THEN [c EXCEPT !.unsolClassMask = @ \ r.classes] ELSE c

HandleRecordCurrentTime(c, r) ==
    IF r.object = "none"
    THEN [c EXCEPT !.time = [seq |-> Next1(c.solNum), valid |-> TRUE]] ELSE c

HandleNonReadResponse(c, r) ==
    CASE r.function = "WRITE"               -> HandleWrite(c, r)
      [] r.function = "SELECT"              -> HandleSelect(c, r)
      [] r.function = "OPERATE"             -> HandleOperate(c, r)
      [] r.function = "ENABLE_UNSOLICITED"  -> HandleEnableUnsolicited(c, r)
      [] r.function = "DISABLE_UNSOLICITED" -> HandleDisableUnsolicited(c, r)
      [] r.function = "RECORD_CURRENT_TIME" -> HandleRecordCurrentTime(c, r)
      [] OTHER                              -> c

RespondToNonReadRequest(c, r) ==
    LET handled == HandleNonReadResponse([c EXCEPT !.lastRequest = r], r)
    IN  BeginResponseTx(GetResponseIIN(handled), EmptyResponse(r))

-----------------------------------------------------------------------------
(***************************************************************************)
(* The channel states: OutstationStates.cpp.                               *)
(***************************************************************************)

RepeatLastResponse(c) == BeginResponseTx(c, c.solTx)

OnNewReadRequest(c, r) ==
    CASE c.state = "Idle" -> RespondToReadRequest(c, r)
      [] c.state = "SolicitedConfirmWait" -> RespondToReadRequest(CancelConfirmTimer(c), r)
      [] c.state = "UnsolicitedConfirmWait" -> [c EXCEPT !.deferred = r]

\* Mutant of OnNewNonReadRequest: the wait goes on without its timer.
OnNewNonReadRequest_StillWaits(c, r) ==
    CASE c.state = "Idle" -> RespondToNonReadRequest(c, r)
      [] c.state = "SolicitedConfirmWait" -> RespondToNonReadRequest(CancelConfirmTimer(c), r)
      [] c.state = "UnsolicitedConfirmWait" ->
           RespondToNonReadRequest([c EXCEPT !.deferred = NoRequest], r)

OnNewNonReadRequest(c, r) ==
    CASE c.state = "Idle" -> RespondToNonReadRequest(c, r)
      [] c.state = "SolicitedConfirmWait" ->
           [RespondToNonReadRequest(CancelConfirmTimer(c), r) EXCEPT !.state = "Idle"]
      [] c.state = "UnsolicitedConfirmWait" ->
           RespondToNonReadRequest([c EXCEPT !.deferred = NoRequest], r)

OnRepeatReadRequest(c, r) ==
    CASE c.state = "Idle" -> RepeatLastResponse(c)
      [] c.state = "SolicitedConfirmWait" -> RepeatLastResponse(RestartConfirmTimer(c))
      [] c.state = "UnsolicitedConfirmWait" -> [c EXCEPT !.deferred = r]

OnRepeatNonReadRequest(c) ==
    RepeatLastResponse(IF c.state = "SolicitedConfirmWait" THEN CancelConfirmTimer(c) ELSE c)

\* Mutant of OnSolicitedConfirm: the request history survives the confirm.
OnSolicitedConfirm_KeepsHistory(c, r) ==
    LET cleared == CancelConfirmTimer([c EXCEPT !.buffer = ClearWritten(@)])
    IN  CASE r.uns \/ r.seq # c.solConfirmNum -> c
          [] OTHER -> IF HasSelection(cleared)
                      THEN SendFragment(cleared, Next1(r.seq), c.solTx.answers)
                      ELSE [cleared EXCEPT !.state = "Idle"]

OnSolicitedConfirm(c, r) ==
    LET cleared == CancelConfirmTimer([c EXCEPT !.lastRequest = NoRequest,
                                                !.buffer = ClearWritten(@)])
    IN  CASE r.uns \/ r.seq # c.solConfirmNum -> c
          [] OTHER -> IF HasSelection(cleared)
                      THEN SendFragment(cleared, Next1(r.seq), c.solTx.answers)
                      ELSE [cleared EXCEPT !.state = "Idle"]

OnUnsolicitedConfirm(c, r) ==
    IF ~r.uns \/ r.seq # c.unsolConfirmNum THEN c
    ELSE CancelConfirmTimer(
           [c EXCEPT !.lastRequest = NoRequest,
                     !.buffer = IF c.completedNull THEN ClearWritten(@) ELSE @,
                     !.completedNull = TRUE,
                     !.state = "Idle"])

ProcessConfirm(c, r) ==
    CASE c.state = "Idle" -> c
      [] c.state = "SolicitedConfirmWait" -> OnSolicitedConfirm(c, r)
      [] c.state = "UnsolicitedConfirmWait" -> OnUnsolicitedConfirm(c, r)

\* Mutant of OnConfirmTimeout: the events of the response are given up.
OnConfirmTimeout_Clears(c) ==
    [c EXCEPT !.buffer = IF c.state = "UnsolicitedConfirmWait" /\ c.completedNull
                         THEN ClearWritten(@) ELSE @,
              !.state = "Idle"]

OnConfirmTimeout(c) ==
    [c EXCEPT !.buffer = IF c.state = "UnsolicitedConfirmWait" /\ c.completedNull
                         THEN Unselect(@) ELSE @,
              !.state = "Idle"]

-----------------------------------------------------------------------------
(***************************************************************************)
(* Dispatch of a received fragment.                                        *)
(***************************************************************************)

ProcessNewRequest(c, r) ==
    LET numbered == [c EXCEPT !.solNum = r.seq]
    IN  IF r.function = "READ" THEN OnNewReadRequest(numbered, r)
                               ELSE OnNewNonReadRequest(numbered, r)

OnReceiveSolRequest(c, r) ==
    CASE c.lastRequest = NoRequest \/ c.solNum # r.seq \/ c.lastRequest # r ->
           ProcessNewRequest(c, r)
      [] OTHER -> IF r.function = "READ" THEN OnRepeatReadRequest(c, r)
                                         ELSE OnRepeatNonReadRequest(c)

\* A request with the UNS bit is ignored.
ProcessRequest(c, r) == IF r.uns THEN c ELSE OnReceiveSolRequest(c, r)

\* Mutant of ProcessObjects: requests are served during a transmission.
ProcessObjects_NoDefer(c, r) ==
    CASE r.function = "DIRECT_OPERATE_NR" -> c
      [] r.function = "CONFIRM" -> ProcessConfirm(c, r)
      [] OTHER -> ProcessRequest(c, r)

\* DIRECT_OPERATE_NR, the only code served during a transmission, goes to the
\* user's command handler and changes nothing here.
ProcessObjects(c, r) ==
    CASE r.function = "DIRECT_OPERATE_NR" -> c
      [] c.isTransmitting /\ r.function # "DIRECT_OPERATE_NR" -> [c EXCEPT !.deferred = r]
      [] ~c.isTransmitting /\ r.function = "CONFIRM" -> ProcessConfirm(c, r)
      [] OTHER -> ProcessRequest(c, r)

\* A deferred READ stays deferred until the channel is idle.
CheckForDeferredRequest(c) ==
    LET r == c.deferred
    IN  IF ~CanTransmit(c) \/ r = NoRequest THEN c
        ELSE CASE r.function = "CONFIRM" ->
                    [ProcessConfirm(c, r) EXCEPT !.deferred = NoRequest]
               [] r.function = "READ" /\ c.state # "Idle" -> c
               [] OTHER -> [ProcessRequest(c, r) EXCEPT !.deferred = NoRequest]

SendUnsolicited(c, loaded) ==
    LET rsp == [seq |-> c.unsolNum, fir |-> TRUE, con |-> TRUE, events |-> loaded,
                classes |-> {c.buffer.events[i].clazz : i \in loaded},
                points |-> {}, answers |-> NoRequest]
    IN  BeginUnsolTx([RestartConfirmTimer(GetResponseIIN(c))
                        EXCEPT !.state = "UnsolicitedConfirmWait"], rsp)

\* Mutant of CheckForUnsolicited: events written for an abandoned read stay written.
CheckForUnsolicited_NoUnselect(c) ==
    LET chosen == SelectByClass(c.buffer, c.unsolClassMask, Cardinality(Ids(c.buffer)))
        loaded == Loaded(chosen, FragmentSize)
    IN  CASE ~(CanTransmit(c) /\ c.state = "Idle" /\ allowUnsolicited) -> c
          [] OTHER ->
               IF ~c.completedNull THEN SendUnsolicited(c, {})
               ELSE IF c.unsolClassMask \cap UnwrittenClassField(c.buffer) = {} THEN c
               ELSE SendUnsolicited([c EXCEPT !.buffer = Load(chosen, FragmentSize)], loaded)

\* The first unsolicited response after the link comes up is empty; later ones
\* carry the events of the enabled classes.
CheckForUnsolicited(c) ==
    LET chosen == SelectByClass(Unselect(c.buffer), c.unsolClassMask,
                                Cardinality(Ids(c.buffer)))
        loaded == Loaded(chosen, FragmentSize)
    IN  CASE ~(CanTransmit(c) /\ c.state = "Idle" /\ allowUnsolicited) -> c
          [] OTHER ->
               IF ~c.completedNull THEN SendUnsolicited(c, {})
               ELSE IF c.unsolClassMask \cap UnwrittenClassField(c.buffer) = {} THEN c
               ELSE SendUnsolicited([c EXCEPT !.buffer = Load(chosen, FragmentSize)], loaded)

\* Mutant of CheckForTaskStart: unsolicited responses go before deferred requests.
CheckForTaskStart_UnsolFirst(c) == CheckForDeferredRequest(CheckForUnsolicited(c))

CheckForTaskStart(c) == CheckForUnsolicited(CheckForDeferredRequest(c))

-----------------------------------------------------------------------------
(***************************************************************************)
(* Actions: the entry points of OContext, each a task of the strand. While *)
(* an update transaction is being applied the strand runs nothing else.    *)
(***************************************************************************)

Handler == ~applying /\ UNCHANGED applying

OnLowerLayerUp ==
    /\ Handler
    /\ ~ctx.isOnline
    /\ ctx' = CheckForTaskStart([ctx EXCEPT !.isOnline = TRUE])

\* Sequence numbers, the selection of controls and the static selection survive.
LowerLayerDown(c) ==
    CancelConfirmTimer(
        [c EXCEPT !.state = "Idle", !.isOnline = FALSE, !.isTransmitting = FALSE,
                  !.completedNull = FALSE, !.lastRequest = NoRequest,
                  !.deferred = NoRequest, !.firstFragment = TRUE,
                  !.buffer = Unselect(@)])

OnLowerLayerDown ==
    /\ Handler
    /\ ctx.isOnline
    /\ ctx' = LowerLayerDown(ctx)

OnTxReady ==
    /\ Handler
    /\ ctx.isOnline /\ ctx.isTransmitting
    /\ ctx' = CheckForTaskStart([ctx EXCEPT !.isTransmitting = FALSE])

OnReceive(r) ==
    /\ Handler
    /\ ctx.isOnline
    /\ ctx' = CheckForTaskStart(ProcessObjects(ctx, r))

\* The timer runs out: its callback is queued on the strand ...
TimerExpires ==
    /\ ctx.confirmTimer = "running"
    /\ ctx.orphans < MaxOrphans
    /\ ctx' = [ctx EXCEPT !.confirmTimer = "expired"]
    /\ UNCHANGED applying

\* ... and runs.
ConfirmTimeout ==
    /\ Handler
    /\ ctx.confirmTimer = "expired"
    /\ ctx' = CheckForTaskStart(OnConfirmTimeout([ctx EXCEPT !.confirmTimer = "none"]))

\* A callback whose timer was cancelled too late runs: it drops the reference to
\* whatever timer is current, which goes on running without one.
OrphanTimeout ==
    /\ Handler
    /\ ctx.orphans > 0
    /\ ctx' = CheckForTaskStart(OnConfirmTimeout(
                [ctx EXCEPT !.confirmTimer = "none",
                            !.orphans = IF ctx.confirmTimer = "none" THEN @ - 1 ELSE @]))

\* selectTimeout passes.
SelectExpires ==
    /\ ctx.control.valid
    /\ ctx' = [ctx EXCEPT !.control = [@ EXCEPT !.valid = FALSE]]
    /\ UNCHANGED applying

\* OutstationStack::SetRestartIIN
SetRestartIIN ==
    /\ Handler
    /\ ctx' = [ctx EXCEPT !.deviceRestart = TRUE]

\* OutstationStack::Apply: the updates of one transaction are recorded one after
\* the other, and then the outstation checks for something to report.
RecordEvent(t, c, v) ==
    /\ ctx.buffer.next < MaxArrivals
    /\ ctx' = [ctx EXCEPT !.buffer = Update(@, t, c, v)]
    /\ applying' = TRUE

\* Mutant of EndTransaction: the updates are applied without the check that follows.
EndTransaction_NoCheck ==
    /\ applying
    /\ applying' = FALSE
    /\ UNCHANGED ctx

EndTransaction ==
    /\ applying
    /\ ctx' = CheckForTaskStart(ctx)
    /\ applying' = FALSE

Init ==
    /\ ctx = InitialContext
    /\ applying = FALSE

Next ==
    \/ OnLowerLayerUp
    \/ OnLowerLayerDown
    \/ OnTxReady
    \/ \E r \in Requests : OnReceive(r)
    \/ TimerExpires
    \/ ConfirmTimeout
    \/ OrphanTimeout
    \/ SelectExpires
    \/ SetRestartIIN
    \/ \E t \in Types, c \in Classes, v \in Variations : RecordEvent(t, c, v)
    \/ EndTransaction

\* The strand runs every queued task; timers expire; the lower layer finishes
\* every transmission it accepted.
Fairness ==
    /\ WF_vars(OnTxReady)
    /\ WF_vars(TimerExpires)
    /\ WF_vars(ConfirmTimeout)
    /\ WF_vars(OrphanTimeout)
    /\ WF_vars(EndTransaction)

Spec == Init /\ [][Next]_vars /\ Fairness

-----------------------------------------------------------------------------
(***************************************************************************)
(* Properties.                                                             *)
(***************************************************************************)

\* Every entry point of OContext leaves sequence numbers within the modulus, and the
\* rest of the context within its types.
TypeOK == IsContext(ctx) /\ applying \in BOOLEAN

\* While the outstation waits for a confirm the link is up and a confirm timer
\* is referenced, so the wait always ends. StateSolicitedConfirmWait's answer to a
\* repeated non-read request cancels the timer and stays: no history of requests,
\* stale timer callbacks included, may get there.
WaitIsTimed ==
    ctx.state # "Idle" => ctx.isOnline /\ ctx.confirmTimer # "none"

\* The lower layer is never handed a fragment while it is still sending one or
\* while it is down; it would drop the fragment.
NeverOverlapped == ~ctx.overlapped

\* When the outstation recognises a repeated request, the response it resends
\* is the one it gave to that very request.
RepeatAnswersSameRequest ==
    ctx.lastRequest # NoRequest => /\ ctx.solTx.answers = ctx.lastRequest
                                   /\ ctx.solTx.seq = ctx.lastRequest.seq
                                   /\ ctx.solTx.fir

\* The confirm the outstation waits for is that of the fragment it last sent.
ConfirmMatchesFragment ==
    /\ ctx.state = "SolicitedConfirmWait" =>
         ctx.solTx.con /\ ctx.solTx.seq = ctx.solConfirmNum
    /\ ctx.state = "UnsolicitedConfirmWait" => ctx.unsolTx.seq = ctx.unsolConfirmNum

\* The events a confirm would delete are among those the awaited fragment carries,
\* although updates may overflow the buffer, reads may be abandoned, and NULL
\* unsolicited responses may be confirmed in between.
WrittenInFragment ==
    /\ ctx.state = "SolicitedConfirmWait" =>
         IdsIn(ctx.buffer, "written") \subseteq ctx.solTx.events
    /\ ctx.state = "UnsolicitedConfirmWait" /\ ctx.completedNull =>
         IdsIn(ctx.buffer, "written") \subseteq ctx.unsolTx.events

\* The events that a request confirms: those of the fragment that is awaited, if it is
\* a confirm of the fragment's kind and number.
ConfirmedBy(c, r) ==
    {i \in c.solTx.events :
        /\ c.state = "SolicitedConfirmWait"
        /\ r.function = "CONFIRM" /\ ~r.uns /\ r.seq = c.solTx.seq}
    \cup
    {i \in c.unsolTx.events :
        /\ c.state = "UnsolicitedConfirmWait"
        /\ r.function = "CONFIRM" /\ r.uns /\ r.seq = c.unsolTx.seq}

\* Every event that a step removes is confirmed by the request that is received in this
\* step, or by the one that was deferred until the transmission ended; or it is the
\* oldest of a full type, and an event of that type arrives.
Removal ==
    \A i \in Ids(ctx.buffer) \ Ids(ctx'.buffer) :
        \/ \E r \in Requests : OnReceive(r) /\ i \in ConfirmedBy(ctx, r)
        \/ OnTxReady /\ ctx.deferred # NoRequest /\ i \in ConfirmedBy(ctx, ctx.deferred)
        \/ \E t \in Types, c \in Classes, v \in Variations :
              /\ RecordEvent(t, c, v) /\ IsFull(ctx.buffer, t)
              /\ i \in IdsOf(ctx.buffer, t) /\ \A j \in IdsOf(ctx.buffer, t) : i <= j

\* An event leaves the buffer only in a step that handles the confirm, with the right
\* number, of the fragment that carried it, or as the oldest of a full type that a new
\* event displaces: no timeout, link loss, new request or other confirm deletes any.
RemovedOnlyIfConfirmed == [][Removal]_vars

\* When a handler returns and the channel is free, nothing the outstation could start
\* is left behind: no deferred request that may be served, no NULL response that is
\* due, no reportable event of an enabled class. Every path ends in CheckForTaskStart,
\* and one pass over it is enough.
NothingLeftPending ==
    ~applying /\ CanTransmit(ctx) =>
        /\ ctx.deferred # NoRequest => ctx.deferred.function = "READ" /\ ctx.state # "Idle"
        /\ ctx.state = "Idle" /\ allowUnsolicited =>
             /\ ctx.completedNull
             /\ ctx.unsolClassMask \cap UnwrittenClassField(ctx.buffer) = {}

\* A response carries only static points and event classes that its request asked
\* for: HandleRead starts every read from a clean selection.
AnswersOnlyTheRequest ==
    ctx.solTx.answers # NoRequest =>
        /\ ctx.solTx.points \subseteq ctx.solTx.answers.points
        /\ ctx.solTx.classes \subseteq ctx.solTx.answers.classes

\* One successful SELECT authorises one OPERATE: a repeated OPERATE is answered
\* again but not executed again.
OperatedAtMostOnce == ctx.operated <= 1

\* The buffer's counters agree with its list at every point of the protocol.
CountersMatchList == CountersAgree(ctx.buffer)

\* A request that was deferred is served, replaced or dropped with the link, even
\* if unsolicited responses are never confirmed: it goes before their retries.
DeferredIsServed == ctx.deferred # NoRequest ~> ctx.deferred = NoRequest
=============================================================================
