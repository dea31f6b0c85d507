# opendnp3: a TLA+ model of the protocol stack

This directory holds a TLA+ model of the core of opendnp3, the C++ implementation of the
DNP3 (IEEE 1815) SCADA protocol in `src/cpp/libs`, the TLC configurations that check it on
small instances, and TLAPS proofs of its most important invariants for every instance.

## 1. The system

A DNP3 *master* polls *outstations* (field devices) for measurements and sends them
commands. Both ends run the same stack:

    user code (measurements, commands)
      application layer   master tasks and scheduler / outstation context, database, event buffer
      transport function  segments of 249 octets, sequence numbers modulo 64
      link layer          framing, optional acknowledgement with a frame count bit, keep-alive
      IOHandler           one per channel: routes frames to sessions, serialises transmissions
      asiopal             strands, timers, sockets, serial ports

Every object of a channel runs on one asio *strand*: handlers never run concurrently, but
the order of timers, received frames, transmit completions, posted callbacks and user
transactions is arbitrary. What is hard to test is therefore not data races but orders of
events: a timer that expired before it was cancelled, a request that arrives during a
transmission, a confirm that crosses a retransmission, an update between two fragments, a
link that drops in the middle of anything.

### Components, state, operations

| component | state | operations | correct when |
|---|---|---|---|
| event buffer (`outstation/event`) | list of all events in arrival order, a list per type, class counters, overflow flag | `Update`, `SelectByClass`, `SelectByType`, `Load`, `ClearWritten`, `Unselect`, `IsOverflown` | counters equal what the lists hold; no list exceeds its capacity |
| outstation (`OutstationContext`, `OutstationStates`) | channel state (idle, waiting for a solicited or an unsolicited confirm), confirm timer, sequence numbers, last response, request history, deferred request, select-before-operate, recorded time, unsolicited mask, IIN | link up/down, `OnTxReady`, `OnReceive` of every function code, confirm timeout, `CheckForTaskStart` after each | every wait ends; one transmission at a time; repeats get the original response; only confirmed events are deleted; nothing startable is forgotten |
| database (`Database`, `DatabaseBuffers`) | static values and the selection of the current read | update, select, load, deselect | a response holds exactly the points asked for |
| frame parser (`LinkLayerParser`, `ShiftableBuffer`, `LinkFrame`) | bytes read, position, state of the search, header | `OnRead`, `Reset` | finds the frames that were sent, however the stream is cut and wherever it is damaged |
| link layer (`link`) | primary and secondary state, frame count bits, pending frames, response and keep-alive timers | `Send`, `OnFrame`, `OnTxReady`, timeouts, link up/down | confirmed data is delivered once and in order |
| transport (`transport`) | segment in transit, reassembly buffer, sequence numbers | `BeginTransmit`, `OnReceive`, `OnTxReady` | a message is delivered whole or not at all |
| master (`MasterContext`, tasks) | task state, active task, confirm queue, sequence number, response timer; per task: when it is due, retry delay | link up/down, `OnTxReady`, `OnReceive`, response timeout, scans and commands of users | every wait ends; one transmission at a time; an answer is taken for its own request; every confirm that is due is sent; every command is answered for |
| scheduler (`MasterSchedulerBackend`), one per channel | running task, scheduled tasks, pending check, two timers | `Add`, `Demand`, `Evaluate`, `CompleteCurrentFor`, `SetRunnerOffline`, check, start timeout, `Shutdown` | agrees with the masters on what runs; no task lost or doubled; never sleeps over a task that is due |
| IOHandler, stacks (`asiodnp3`) | sessions, transmit queue, channel, attempt to connect, retry timer, server | add/remove, enable/disable, new channel, error, retry, transmit, shutdown | sessions are up with the connection; the queue moves; a lost connection is replaced; a closed channel stays closed |
| asiopal | strands, timers, sockets | post, start, cancel | - |
| parsers, object encoding, decoder, bindings | - | - | not modelled: no protocol state |

The outstation calls the event buffer and the database synchronously; the layers below call
it (`OnLowerLayerUp`, `OnReceive`, `OnTxReady`); user threads post update transactions to
its strand; timers post their callbacks to the same strand. A master is driven in the same way by
the layers below, and by the scheduler that all masters of a channel share: the scheduler calls
`Run`, the master calls back when its task has ended, and either of them may be interrupted by the
loss of the link. The IOHandler calls the parser with what was read and the parser calls back with
frames, which go to the sessions' link layers and on to their transport layers.

## 2. Modules

| module | models | extends |
|---|---|---|
| `EventStorage` | `EventLists`, `EventClassCounters` and every operation on them, as operators on a buffer value | - |
| `EventBuffer` | the buffer as a component that is called in any order | `EventStorage` |
| `Outstation` | `OContext`, its three states, timer, database selection and update transactions | `EventStorage` |
| `LinkStation` | `LinkContext`, `LinkLayer`, the states of both stations, the sending side of the transport layer and a session's part of `IOHandler`, as operators on a station | - |
| `LinkLayer` | one station against a peer that may send anything | `LinkStation` |
| `Delivery` | abstract: a link that delivers each segment at most once and in order | - |
| `LinkPair` | two stations over channels that lose frames; implements `Delivery` both ways | `LinkStation` |
| `MasterTask` | `IMasterTask` and its subclasses, `TaskBehavior`: what a task is, when it is due, what it makes of a response | - |
| `MasterScheduler` | `MContext`, `MasterSchedulerBackend`, `MasterTasks`, `TaskContext`, as operators on all of them | `MasterTask` |
| `Master` | masters on one channel with users, peers, a lossy link and time | `MasterScheduler` |
| `Framing` | `TransportTx`, `TransportRx`, `LinkFrame`, `LinkLayerParser`, `ShiftableBuffer` | - |
| `IOHandler` | `IOHandler` and its client, server and serial subclasses, as operators on a handler | - |
| `Channel` | a channel: handler, parser and receiving transport layers, with peers, a network and users | `Framing`, `IOHandler` |
| `EventStorage_proofs` | one lemma per operation: it keeps counters and capacities | `EventStorage` |
| `EventBuffer_proofs` | the theorems about `EventBuffer` | `EventBuffer`, `EventStorage_proofs` |
| `Outstation_proofs` | the theorems about `Outstation`: waits, transmissions, requests and confirms; what it reports and what becomes of the events | `Outstation`, `EventStorage_proofs` |
| `LinkStation_proofs` | what every handler of a link station preserves: one lemma per handler | `LinkStation` |
| `LinkLayer_proofs` | the theorems about `LinkLayer` | `LinkLayer`, `LinkStation_proofs` |
| `LinkPair_proofs` | `LinkPair` implements `Delivery` in both directions; what is acknowledged was received | `LinkPair`, `LinkStation_proofs` |
| `Master_proofs` | the theorems about `Master` | `Master` |
| `Channel_proofs` | the theorems about `Channel`: connections; what the parser finds; what the sessions get | `Channel` |
| `MCEventBuffer`, `MCOutstation`, `MCLinkLayer`, `MCLinkPair`, `MCMaster`, `MCChannel` | instances for TLC | |

Type correctness of the event buffer, the outstation and the link layer, and the counters in every state of
the outstation, are proved for every instance (section 4) and not checked again by a run.

Definitions named `X_What` are mutated forms of `X`: each is what a plausible slip in the code
would make of it, and a property of a run fails when it takes the place of `X`.

### EventStorage and EventBuffer

A buffer is a record: `events` maps the arrival number of an event to its record (type,
class, state, default and selected variation), and the domain in increasing order is the
list `EventLists::events`; the list of a type is its sub-domain, since both are appended at
the tail and removed from anywhere. `total`, `written` and `selected` are the counters of
`EventClassCounters`, kept separately from the list, as in the code: `UnwrittenClassField`
(IIN class bits, unsolicited reporting) and the end of a fragmented response are computed
from the counters, and the events sent from the list. `First(S, n)` is a walk over the list
that stops after n hits. Measurement values and indices are left out.

### Outstation

`ctx` is the `OContext`; each of its methods is an operator from a context to a context with
the method's name; an action applies the method of an entry point followed by the
`CheckForTaskStart` that ends it. `applying` says that `OutstationStack::Apply` is in the
middle of a transaction: the updates are separate steps, in which no handler runs, so that
bursts of any length and the overflow in their middle are covered.

* Requests are records with a function code, a sequence number, the UNS bit, and the objects
  reduced to what handlers tell apart: event classes, static points, a control, or one of a
  few marks (`malformed`, `restartIIN`, `lanTime`). Two requests have equal digests exactly
  if they are equal. `OTHER` stands for the function codes whose handlers change nothing in
  the context.
* A response is its sequence number, FIR, CON and the events, classes and points it carries;
  `answers` is a history field: the request it answers. FIN, the IIN bits and the octets are
  left out (composing the IIN can clear the overflow flag, and does so here).
* A fragment has room for `FragmentSize` objects, all of one size.
* The confirm timer is `none`, `running`, or `expired`: the callback is on the strand's queue
  but has not run. `TimerRef::Cancel` cannot recall it, so a cancelled expired timer becomes
  one of the `orphans`, whose callback runs later, in whatever state the context is then. It
  first clears `TimerRef::pTimer`, so the timer that is current by then becomes an orphan too.
* `operated` and `overlapped` are history: how often the current selection was operated
  (saturating at 2), and whether a transmission was ever begun during another or offline.
* What survives `OnLowerLayerDown` is what the code leaves: sequence numbers, selected
  control, recorded time, unsolicited mask, static selection, last responses.

### LinkStation, LinkLayer and LinkPair

A station is a record: the members of `LinkContext`, with `TransportLayer::isSending`, the
segments `TransportTx` has not advanced over, and this session's part of `IOHandler` (is there a
channel, is the session enabled, what has it queued). Each handler is an operator from a station
to a station; the handlers of the state classes are one operator per event, by cases of
`pPriState` or `pSecState`.

* A frame is its function, one flag (the frame count bit of a primary frame, the data flow
  control bit of a secondary one) and its segment, if any. Frames with foreign addresses or the
  wrong direction are left out: they only count in statistics.
* `txQueue` is what the channel has yet to write. In the code an entry refers to `priTxBuffer` or
  `secTxBuffer`; here it also remembers the frame that was meant, so that `BuffersIntact` can
  say that the buffer was not formatted again. `LinkPair` puts the buffer's content on the wire.
* `posted` counts the `OnTxReady` calls that `CompleteSendOperation` has posted. A posted call runs
  before the end of a primary write that began later (`WriteComplete`), since the write's
  completion is queued behind it on the strand. On a shared channel the frame that ends may be one
  that was queued before; the model runs the posted call first there, too, and the two
  steps commute.
* Timers are as in `Outstation`: `none`, `running`, `expired`, and `orphans` that were cancelled
  when they had expired. Whether a keep-alive interval has elapsed when the timer's callback
  runs is a free choice, as it depends on when the last frame arrived.
* `Late` names the callbacks that may be queued when the layer goes down. The code makes no
  provision against them, so what holds depends on it: `link_layer` and `link_ends` let response
  timers be late, `link_hang` shows what a late keep-alive does. Of the theorems, those about
  types, segments and timers hold whatever is late, late completions included; those about
  transmissions and completions when only response timers are.
* `Shared` says that another session is enabled on the channel, so that `IOHandler::Disable` keeps
  the channel and whatever this session has queued.
* The upper layer sends whenever it may: of its own accord, when it is told that it is up or that
  it may send more, and in answer to received data.
* `LinkPair` has no keep-alive exchange: neither station sends REQUEST_LINK_STATUS or answers one.
  `LinkLayer` has it, against any peer.
* In `LinkPair` frames are lost when they are written, and those in transit with a channel that is
  replaced; they are not reordered, as channels are streams. Segments are numbered in
  the order of submission, which the refinement mapping to `Delivery` uses. `acked` is history:
  the segments acknowledged since the link was last reported unreset. A `scenario`, chosen at the
  start, says how much each station sends, which ends may restart and whether timers are longer than
  a round trip (`prompt`).

### MasterTask, MasterScheduler and Master

`system` holds the masters (`MContext`), the state of their tasks and the scheduler; each handler is
an operator on all of it, because one handler calls from a master to its task, on to the
scheduler and back. Where the code calls a virtual method of a task, the operator tells the kinds
of tasks apart: the startup tasks of `MasterTasks`, a user's recurring scan, and one-shot tasks
(SELECT and OPERATE, direct operate, scan, write, restart).

* Times are distances from now and `Tick` shortens them; `Never` is `MonotonicTimestamp::Max()`. A
  timer's callback runs some time after its distance has become 0. Nothing depends on how long a
  tick is, only on the order of what is due.
* A response is FIR, FIN, CON, whether its objects are what the task wants, and the indications
  that masters react to. `answers` are solicited responses in transit: the peer answers what is
  waited for, at any time or not at all, and an answer ages with each request that is given up.
* `confirmQueue` counts confirms; those left by an earlier connection are counted apart, since the
  code keeps the queue over a link loss and sends them later.
* `tasks` counts how often the scheduler's vector holds a task, so that a task that is scheduled
  twice can be seen. The vector's order matters only between equal tasks: `BestTasks` is the set
  of those that a pass over any order may end with.
* `posted` says that a check is on the strand's queue. `Stray` runs checks that late timers leave
  there; a check is harmless at any time, and that is what the run shows.
* `owed`, `overlapped` and `refused` are history: callbacks that users still have to get, a violated
  assertion of `Transmit`, a task that `Run` did not take.
* A request that does not fit its buffer fails its task (`fits`), as `ResumeActiveTask` does.

### Framing, IOHandler and Channel

Bytes are records: `0x05`, `0x64`, the header's fields as one byte, a CRC that knows what it was
computed of, the n-th byte of a message, or noise. So equality of CRCs is equality of the contents,
and a header needs 4 bytes rather than 10; block size, largest frame, segment size and sequence
modulus are constants. The parser is the code's: a buffer with read and write positions, `Sync`,
one step at a time until there is nothing more to do, user data unpacked into the receive buffer,
and a shift at the end of a read.

A handler is a record with the members of `IOHandler` and of its three subclasses: `client`,
`retrytimer` and `server`. `stale` counts attempts of clients that were replaced and not cancelled,
`late` retry callbacks that were queued when their timer was cancelled. Which sessions have been
told that the layer is up is `online`.

A server has any number of accepts under way (`accepts`): each that ends with a connection is followed
by another, one that ends with an error is not (`OnAccept`, `OnAcceptError`), and enabling a session without
a connection starts one more on the same socket, which is how a second one comes about. Beside
`listening`, `server` may be `broken` (it could not listen; further accepts fail at once) or `deaf` (its last
accept has failed). In the code there is no server object in two cases that the model tells
apart, so that `Recovers` can name one of them: `none`, and `gone`, when it was closed with the last
enabled session while the connection was kept.

Each action of `Channel` applies one operation to the
handler and lets the consequences follow: the parser is reset with the connection and each
receiver when its session goes down.

* The stream of a connection is one of a set: messages of several segments to two sessions, link
  status requests in between, or the same with damaged and truncated frames and a stray start byte.
  A read takes any number of bytes that the buffer has room for, so every way of cutting
  the stream is covered. Bytes differ by connection, so that data of an earlier one is recognised.
* A stream is a record: its `bytes`; the messages that the peer `sent`, each with the session it
  is for, the number of segments sent to it before and the bytes where it begins and ends; the `number` of
  the segment that each frame in it carries; and whether it is `clean`. `PeerAssumption` says that
  these belong together: messages are cut as `TransportTx` does and sent in turn, frames arrive in order
  and may be missing, though never a whole round of sequence numbers in the middle of a message;
  on a clean stream nothing is missing and no message is too long for the receive buffer.
* `FramesIn` is the reference that `FramesAsSent` compares the parser with: the frames of the whole
  byte sequence, found position by position, without a buffer, state or reads.
* The link layer between parser and transport layer passes unconfirmed user data up; confirmed
  data is the subject of `LinkPair`.

## 3. Runs

| run | question | result |
|---|---|---|
| `event_buffer` | do counters and capacities hold under any order of operations, for a type of capacity 2, one of 1 and one of 0? | pass |
| `outstation` | all safety properties, for reads of events and points, a write, confirms, unsolicited reporting, link loss, timeouts, late callbacks, updates | pass |
| `outstation_commands` | is nothing left pending, for every other kind of request? | pass |
| `outstation_deferred` | is a deferred request always served? | pass |
| `outstation_operate` | is an OPERATE executed once per SELECT? | violated (finding) |
| `outstation_octets` | does a response hold only what was asked for, when some points are octet strings? | violated (finding) |
| `link_layer` | all safety properties of a station, with confirmed and with unconfirmed data, against any peer, with retries, keep-alives, late response callbacks and lost channels | pass |
| `link_ends` | does every send end, on a shared channel, against a silent, wrong or flooding peer? | pass |
| `link_hang` | the same when a keep-alive callback may be late | violated (finding) |
| `link_pair` | do two stations implement `Delivery` in both directions, with lost frames, early timeouts and restarts? With timers longer than a round trip, has what was acknowledged been received? | pass |
| `master` | two masters on a scheduler, with startup tasks, a scan and a two-step command, against late, lost, wrong and unsolicited responses, late timers and link loss: all safety properties, and does every command end? | pass |
| `channel` | two sessions on a client, a server or a serial port, over streams that are cut anywhere, damaged and broken off: all safety properties, and does an enabled session go online? | pass |

### Properties of the event buffer and the outstation

* `WaitIsTimed`: in a wait state the link is up and a timer is referenced. A release note
  records a hang of exactly this kind (`src/CHANGELOG.markdown`, 2.2.0-RC4), and
  `StateSolicitedConfirmWait::OnRepeatNonReadRequest` cancels the timer and stays; it is
  unreachable, which takes the invariant `WaitsForRead` to see.
* `NeverOverlapped`: `BeginTransmit` is called only when the lower layer is up and idle.
* `RepeatAnswersSameRequest`: the response that would be resent belongs to the recorded request.
* `ConfirmMatchesFragment`: the number a confirm is compared with is that of the fragment in flight.
* `WrittenInFragment`: what a confirm would delete is in the fragment that it confirms.
* `RemovedOnlyIfConfirmed`: an action property. A step that deletes an event is the arrival of a confirm of
  the awaited fragment's kind and number, or the end of a transmission until which such a confirm was
  deferred, and the event was in that fragment (`ConfirmedBy`); or it records an event of a full type, and
  the one deleted is the oldest of that type. Timeouts, link loss, new requests and confirms of anything
  else delete none.
* `NothingLeftPending`: when a handler returns with the channel free, no deferred request,
  NULL response or reportable event waits for an event that may never come.
* `AnswersOnlyTheRequest`: a response holds nothing its request did not ask for (for a
  database without octet strings).
* `CountersMatchList`, `NeverOverCapacity`: see above.
* `DeferredIsServed`: liveness of the deferred slot.

### Properties of the link layer

* `SegmentsWhileSending`: the primary states dereference `pSegments` and take a segment from it
  without a test; there is one in each state that does.
* `ResponseWaitIsTimed`: a station that waits for its peer has a response timer, although
  `TimerRef::Start` does nothing while an older timer is referenced.
* `CompletionIsDue`: `txMode`, the pending frames, the channel's queue and the transmit-wait states
  of the two stations agree, so a completion reaches the station that waits for it and no
  station waits for one that will not come.
* `BuffersIntact`: no frame is formatted over one that has not been written.
* `OneCompletionPerSend`: each send is completed once; the transport layer neither waits for ever
  nor starts a second send.
* `SendEnds`: liveness of a send; every way back to the idle state looks for work.
* `AtMostOnceInOrder`: the refinement. Data can be lost: after the last retry the stations may
  disagree on the frame count bit, and the next segment is then acknowledged but dropped.
* `AckedIsReceived`: such a loss always follows a report of UNRESET to the listener.

### Properties of the master

* `SchedulerAgrees`: the task that the scheduler takes to be running is the one that a master has
  active, through every way in which a task can end. A scheduler that waits for a task that nobody
  runs stops all masters of the channel.
* `ScheduledOnce`: while its master is online a recurring task is with the scheduler exactly once,
  and a one-shot task exactly until its user has been called back.
* `NeverOverlapped`: the assertion in `MContext::Transmit`. A task that finds the transmitter busy with
  a confirm waits in `TASK_READY`.
* `ResponseWaitIsTimed`: a wait for a response has a timer, although late callbacks of old timers drop
  the reference to the current one.
* `AnswersItsRequest`: the answer to a request that was given up does not carry the number that is
  waited for now, unless it is late by a whole round of numbers (`MaxAge` < `SeqModulus`).
* `ConfirmNotStranded`: a confirm of this connection that is not sent yet waits for a transmission in
  progress, whose end sends it. Confirms of an earlier connection wait for the first transmission.
* `SchedulerWakes`: when nothing runs and an enabled task is scheduled, a check is posted or the timer
  is set early enough, so the scheduler never sleeps over a task.
* `StartIsTimed`: the same for the start timeout of one-shot tasks.
* `CommandEnds`: liveness; a user's command gets its callback, whatever happens.

### Properties of the channel

* `ReadHasRoom`: there is always room for a read.
* `FramesAsSent`: the parser's frames are those of the reference, for each prefix of the stream.
* `MessagesWhole`, `NothingLost`: sessions get whole messages that were sent to them on this
  connection, in order and once; on an undisturbed stream they get all that were sent since they
  went online, past the wrap of the segments' numbers and up to the exact size of the buffer.
* `OnlineMeansOpen`: the sessions that are up are the enabled ones, while there is a connection.
* `TransmissionsProgress`: whatever is queued is being written or will be.
* `SomethingOpens`: without a connection and with an enabled session, an attempt, a retry timer or a
  accept is under way. Three states of a server are excluded (`Recovers`), because it is not so in them, see below.
* `ClosedForGood`: after shutdown no late callback of a client or a server leads to a connection.
* `SessionOpens`: liveness; an enabled session goes online, or the handler gets into one of those states.

### Bounds

`SeqModulus` is 2 instead of 16, so that wrap-around and stale confirms happen after two
fragments; a smaller modulus only makes more numbers collide. `FragmentSize` is 1, so that
every response with two objects is fragmented. Capacity is 2 and 2 to 4 events arrive
(`MaxArrivals`), so buffers fill and, in `event_buffer`, overflow repeatedly; `outstation` has a second
type, of capacity 1, whose second event displaces one that may be in a fragment in flight. `MaxOrphans` is
1: two late callbacks at once need a timer to expire within a handler's run twice. Requests
differ by run and include, for each function code, a new and a repeatable one.

Link layer: messages of one and two segments, so that both ends of `Advance` occur; `NumRetry`
is 1, so that a first and a last timeout do. `MaxOrphans` is 1 as above; `MaxStale` bounds the
transmissions that a session finds queued when it is enabled again (1; each needs another
disabling while a frame is being written). In `LinkPair` the scenarios have a sender of four segments
(the frame count bit comes round twice) and a pair of senders, `MaxWire` is 2 (an answer and
a retransmission behind it), `MaxOutages` is 1. The pair run does not check for deadlock: it stops
when the load has been sent.

Master: numbers modulo 2 and delays up to 2, the smallest values at which a late answer can
be mistaken, retries back off and a due task and a later one differ. The four scenarios are a
command with everything that can happen to it, a command among scans, scans of several fragments
with confirms, and two masters of which one polls at startup. `MaxFlight`, `MaxConfirms` and
`MaxOrphans` are at most 1: a second one meets the same handlers in the same states. Deadlock is not
checked: a scheduler that was shut down stops.

Channel: a block of 2, frames of up to 3 bytes of user data, segments of 2 and a buffer of 3, so
that a frame has a full and a partial block, messages have one and two segments, and a message
exactly fills the receive buffer; segment numbers modulo 4 wrap within a stream. Six scenarios
separate what does not interact: connections (client, serial port, server with either policy, two
sessions, a queue of 1 or 2, one stale attempt, one late callback, two accepts, of which one or both
fail) and streams (two sessions with a clean stream on a server with one accept that does not fail,
and one session with a damaged one). Deadlock is not checked: a channel that was shut
down stops.

### Fairness

`WF` of `OnTxReady` (the lower layer completes or fails every transmission: a failure takes
the link down), of `TimerExpires`, `ConfirmTimeout` and `OrphanTimeout` (asio timers expire
and strands run what is queued) and of `EndTransaction` (user transactions are finite).
Nothing is assumed of the master or of the link: it may never confirm, never send and drop.

Link layer: `WF` of `RunCompletion`, `WriteComplete`, `TimerExpires("response")` and
`ResponseTimeout`, for the same reasons. Nothing is assumed of the peer. `SendEnds` has three
limits, each of which the code has too: the channel is not replaced for ever; the keep-alive
timer does not expire during a send (`KeepAlive = "between"`: an interval that is shorter than an
exchange lets keep-alive requests overtake a message again and again); and the peer does not
answer confirmed data with NACK for ever, each of which resets the retry counter (`MCLibraryFrames`:
this library never sends a NACK).

Master: `WF` of `TxReady` (the lower layer completes every transmission or goes down), `TimerExpires`,
`ResponseTimeout`, `RunCheck`, `TaskTimer`, `StartTimeout` and `Tick`: strands run what is queued and
time passes. Nothing is assumed of the peer, the link or other users.

Channel: attempts to connect end, timers expire and their callbacks run (`WF`); the network does not
refuse every attempt (`SF` of `ConnectResult(TRUE)` and `Retry(TRUE)`) and peers go on
connecting to a server while it has an accept under way (`WF` of `Accept`). The last two are about the
environment: without them no session can be promised a connection. `Accept` may be disabled for
good by an `AcceptError`, of which nothing is assumed; `SessionOpens` then says no more of that server. Connections may break at any time and users
enable, disable and remove sessions as they like.

### Findings

1. *An OPERATE can be executed twice for one SELECT* (`outstation_operate`). Every accepted
   confirm resets the request history; a retransmitted OPERATE then is a new request, and
   the selection is still valid, since nothing clears it.
2. *Octet strings are not deselected* (`outstation_octets`). `DatabaseBuffers::Unselect` lists
   eight of nine types.
3. *A late keep-alive callback blocks the next session* (`link_hang`). `OnKeepAliveTimeout` does not
   test `isOnline`; when its callback is queued as the layer goes down, it begins a transmission
   that `IOHandler` drops, and nothing resets `txMode` and the primary state when the layer comes
   up again.

Seen while modelling, without a run:

* `SelectByClass` leaves the variation that an earlier typed read gave an event (a TODO at
  `EventSelection.cpp:38`).
* When confirmed data runs out of retries the listener is told UNRESET but `isRemoteReset` stays set
  (`PriLinkLayerStates.cpp:287`).
* The `OnTxReady` that `CompleteSendOperation` posts (`LinkContext.cpp:259`) can run after the channel was
  replaced, where the transport layer takes it for the completion of a new send. `Late` with
  `completion` shows it.
* `IOHandler::Disable` and `Remove` leave the session's queued frames in the queue (`IOHandler.cpp:173`).
* `IOHandler::Remove` of the last enabled session suspends accepting and keeps the connection
  (`IOHandler.cpp:206`), which `Disable` closes. A server that then gets another session uses
  the kept connection and does not listen again when it breaks, although `TCPServerIOHandler.h:91` says
  "always accepting new connections". `Recovers` excludes this server (`gone`), until it is opened again.
* An accept that fails is not followed by another (`TCPServer.cpp:109`): the callback calls `OnShutdown`,
  which is empty (`TCPServerIOHandler.h:62`). The server object stays, and accepts again only when
  another session is enabled without a connection. `Recovers` excludes a server whose every accept has failed (`deaf`).
* Each session that is enabled before there is a connection starts another `async_accept` with the same
  socket and endpoint members (`TCPServerIOHandler.cpp:74`, `TCPServer.cpp:144`).
* A server that cannot bind never tries again (a TODO at `TCPServerIOHandler.cpp:85`). `Recovers` excludes it (`broken`).
* A serial port's retry callback that was queued when the channel was suspended or shut down opens the
  port again (`SerialIOHandler.cpp:78`). `ClosedForGood` excludes serial ports.
* `TCPClientIOHandler::BeginChannelAccept` replaces a client that is connecting without cancelling it, so
  that two attempts may run; a connection that breaks while no session exists is replaced all the
  same. Both are harmless, as the run shows.
* A master's queue of confirms is kept over a link loss; the old confirms are sent in the next session.
  A solicited response is confirmed even if its processing failed, an unsolicited one is not.
* `IMasterTask.h:184` says that lower priority tasks cannot run until a blocking task has completed. A
  blocking task that is disabled does not hold them back; a test ("AdhocScanWorksWithUnsolicitedDisabled")
  relies on that.
* A demand that comes while its task is running is lost when the task succeeds, as `OnSuccess` sets the
  next expiration.

## 4. Proofs

All constants are arbitrary, subject to the named assumptions of the modules (capacities are
naturals, the modulus is positive, requests are well-typed, classes of the mask exist, streams are what
peers send: `PeerAssumption`).

* `EventStorage_proofs`: `BufferInv` (type and `CountersAgree`) and `CapacityRespected` are kept
  by each operation. The counters are compared with cardinalities of subsets of the list,
  so each operation is an identity on cardinalities of differences or disjoint unions.
  `FirstNonEmpty` (a full list has an oldest event) rests on the well-foundedness of `<`.
* `EventBuffer_proofs`: `CountersAlwaysMatch`, `NeverOverflows`, `TypeCorrect`.
* `Outstation_proofs`: `CInv` on a context is type correctness, `BufferInv`, `Timed`,
  `Answered`, `Awaited`, `WaitsForRead`, transmission only while online, no overlap. None of
  `Timed`, `Answered` and `Awaited` is inductive alone: a repeated non-read request in
  `SolicitedConfirmWait` would break `Timed`, and `WaitsForRead` (a recorded request there is a
  READ) rules it out. One lemma per method says what it needs and changes (`Sendable`: what a
  method that transmits may rely on; `CoreInv`: what a timeout starts from), and `NextInv` has
  one step per entry point. The theorems are `TypeCorrect`, `WaitsAreTimed`,
  `TransmissionsNeverOverlap`, `RepeatsAnswerSameRequest`, `ConfirmsMatchFragments` and
  `CountersAlwaysMatch`.
  For the events, `EventsInv` adds to that what the buffer and the database have selected. `Carried` is
  `WrittenInFragment` on a context. `Faithful` strengthens `AnswersOnlyTheRequest`, which is not inductive: the
  next fragment is made of what is still selected, so while a confirm is awaited all of that must have been asked
  for (`Remaining`). `Settled` is the part of `NothingLeftPending` that holds between the updates of a
  transaction, too; `RemovedOnlyIfConfirmed` needs it, because a confirm that was deferred must be served by the
  step that ends the transmission and by no other. It also needs `Awaited` (`ConfirmMatchesFragment`), as the
  code compares a confirm with the number it keeps and not with that of the fragment. Each operation of the buffer
  has a lemma about the records it leaves written and selected, each method one about the events that are
  `Gone`. The theorems are `WrittenAreInFragment`, `EventsRemovedOnlyIfConfirmed` (an action property),
  `NothingIsLeftPending` and `ResponsesAnswerOnlyTheRequest`. Only the last has a hypothesis: no static
  point is an octet string, since finding 2 refutes it otherwise.
* `LinkStation_proofs`, `LinkLayer_proofs`: `LInv` on a station is the type, `HasSegments` and `Sending` (together
  `SegmentsWhileSending`), and `Timed`. It is inductive: `Sending` needs `HasSegments` because
  handlers take the head of the segments, and `Timed` stands because a timer's callback leaves
  every state that waits for it. One lemma per handler says that it leaves such a station or
  what it leaves alone. The theorems hold for every `Late`, `Shared` and `KeepAlive`, peer and number
  of retries: `TypeCorrect`, `SegmentsNeverNull`, `ResponseWaitsAreTimed`.
  `CompletionsAreDue`, `BuffersStayIntact` and `CompletionsMatchSends` hold for every peer,
  configuration and number of retries, from two hypotheses: the session has its channel to itself
  (`~Shared`) and of the late callbacks only response timers occur (`Late \subseteq {"response"}`). Both
  are needed and are about the code, not the proof: a session that leaves a shared channel leaves its
  frames in the queue, a late keep-alive begins a transmission that is never written
  (`link_hang` shows it), and a late completion is taken for that of the next send. The
  three properties are one fact in three parts, so they are proved by one invariant: `LInv` and the link is
  up (`Works`) or down (`Asleep`). `Works` says that what is being written, what is pending and what the
  buffers hold fit together (`Wire`), that each of the two stations waits for a completion
  exactly if it has a transmission (`PriDue`, `SecDue`), and that the transport layer has a send exactly
  if the link layer has one or has posted its completion (`Once`). Within a handler the primary
  station is between two states; `Mid` is what holds of it then. Each handler has a lemma that takes
  it from `Works` or `Mid` to `Works`.
* `LinkPair_proofs`: `DeliversAtMostOnceInOrder`, the refinement of `Delivery` in both directions, for
  every scenario and bound. Frames may be lost, response timers may expire at any moment however
  early, their callbacks may come late, and either end's channel may be replaced. That the frame
  count bit then suffices is not obvious, as it is one bit: copies of a segment, acknowledgements of
  earlier ones and `RESET_LINK_STATES`, which makes the receiver expect a fixed bit, may all be under way
  at once. The invariant (`DirectionInv`) is about one direction as a line: what the peer has received
  last, the frames under way to it, the segment the sender is at. Numbers never decrease
  along that line (`Ordered`, `Ahead`, `Behind`), and where a number occurs twice on it both occurrences bear
  the same bit, the receiver expects the other one, and no `RESET_LINK_STATES` lies between them. It holds
  because the sender formats `RESET_LINK_STATES` only before the first frame of a segment: it would do so
  in the middle of one only on a NACK, and no station of the pair sends any.
  `WireDeliver` draws the conclusion: a frame with the bit that is expected has a
  number that is greater than the last. Each handler has a lemma that its sender goes on to another
  segment or still carries the same one with the same bit (`Later`), and that an answer or a
  timeout leaves the reading side alone (`GoesOn`); one lemma per action of the pair puts both sides
  together (`PairStep`). What a handler needs of its station is `LInv` and `Works` from `LinkStation_proofs`.

  `AcknowledgedIsReceived` is the other half: an ACK bears no number, so the sender takes any ACK for
  the answer to the segment it is at. `AckedIsReceived` is about the scenarios whose response timers
  expire only when no answer can come any more (`prompt`); the theorem's one hypothesis is that an
  outage in such a scenario breaks both ends, as when a connection is lost. It is needed: when only
  the sender's end is replaced, the peer still answers the `RESET_LINK_STATES` from before. The sender takes that
  ACK for the answer to its new reset, and the ACK of the new reset for that of a segment that was lost (TLC finds
  this in twelve steps). The invariant (`ExchangeInv`,
  on top of `PairInv`) says that of each exchange one thing at most is under way: the request, the answer that the
  peer is about to write, or the answer (`AtMostOne`); that a request under way is the one the sender waits
  for (`Asks`); that an answer under way was given to that request (`Answered`); and that while the
  link is reported RESET the peer either expects the bit of the sender's next frame or has received the
  segment already (`InStep`). `Patient` has what the timers contribute. One lemma for each thing that may
  happen to an exchange (`RequestExchange`, `AnswerExchange`, `ArrivalExchange`, `AckExchange`, `TimeoutExchange`,
  `TailExchange` for a loss), and one for each handler that says which of them it is.
* `Master_proofs`: all nine safety properties of the run, for every number of masters and tasks, every
  modulus, delay and bound. The invariant is a conjunction of three layers. `Base` is the type and
  what masters and scheduler agree on (`Agree`, `Accounted`: how often the scheduler's vector holds a
  task follows from its kind, its master and what is owed to its user; `Quiet`: an offline master has
  nothing; `Blameless`: no assertion has failed). `Local` is about each master: `Busy`, `Timed` and `Unstranded`
  (a confirm waits only for a transmission). The last layer is about the scheduler's sleep:
  `Pending` (`SchedulerWakes` and `StartIsTimed` are its parts) is kept because every handler either
  posts a check or leaves what is scheduled alone (`Woken`). A handler calls from a master through its
  task to the scheduler and back, so `Base` is broken in the middle of it; the lemmas follow the calls
  and say what each needs and restores. `AnswersItsRequest` rests on `Flight` and `Dated`: an answer in transit
  that is k requests late has a number that is k behind the one waited for, which cannot be equal
  before a whole round of the modulus.
* `Channel_proofs`: for every set of sessions, scenario, stream and number of late callbacks. The
  invariant `HInv` on a handler is its type, `Online`, `Writing`, `Closed`, `Kinds` (a handler uses only the
  members of its own kind) and `Opening`. `SomethingOpens` is not inductive: while a client has
  an enabled session and no connection it must also still exist, else its result is ignored, and a server
  must be kept while it has a connection, too, because it does nothing when that breaks, with an accept
  under way exactly as long as it is `listening` (in `Kinds`). One
  lemma per operation of the handler, one step per action. The theorems are `OnlineTheorem`,
  `TransmissionsTheorem`, `OpeningTheorem`, `ClosedTheorem`.

  `TypeTheorem`, `RoomTheorem` and `FramesTheorem` are about the parser, for any bytes (`StreamAssumption`
  asks only that they are a sequence), block and frame sizes and any way of cutting them into reads.
  `FramesAsSent` is not inductive: it compares what was found with the frames in the bytes
  read so far, and a read may end in the middle of a frame or of a false start. The invariant `Parses` says that
  however the stream goes on, its frames are those found so far followed by those from the parser's
  position on (`FoundSoFar`); that the bytes that may be parsed again are still those of the
  stream (`BytesKept`; unpacking a body may overwrite the frame it came from, no more); and what each
  state knows of the bytes ahead (`StateHolds`). One lemma per step of the parser, and `Skips` for those
  that pass over bytes in which no frame starts, `FailFrame` with its one byte included: they lose no
  frame that begins later. `StepsLeft` decreases with
  each step that does anything, so the bound on steps in `ParseUntilComplete` is never what ends it (`StepsBounded`),
  and a parser that waits has found all there is (`WaitsFoundAll`) and has room (`WaitsHasRoom`).

  `MessagesTheorem` and `NothingLostTheorem` are about the receivers, from `PeerAssumption`. Its bound on
  missing segments is needed: `TransportRx` keeps its buffer when a number is not the one that it
  expects, so after the loss of exactly a round of segments it would put together parts of two
  messages. `HearInv` says of each session what it has of the stream (`Hears`). Its buffer is the
  beginning of one message, up to a segment that arrived, with no first segment since (`Partial`); what it
  passed up are messages whose last segment has arrived, in order (`Delivered`). On a clean stream, of
  the messages that began after it went online, the buffer has all that arrived of the one that is incomplete
  (`Kept`), and the complete ones were all passed up (`Got`). `SequenceNumbers` says why a number that
  wraps suffices: of the segments that may arrive next only one has the expected number.
  `OnFrameWhole` and `OnFrameKept` are about one frame, `FramesHeard` about all the frames of a
  read, `BecomesHears` about sessions that go online and offline.

  These proofs need induction over positions, steps and frames. The library's induction theorems
  take an operator, so `Induction` is stated for a set of numbers instead, from its least element (`Least`), and a
  recursive function is shown to exist as the solution of its equation (`FromExists`, `RunExists`,
  `HearingExists`) before its definition is used.

All safety properties of the passing runs are proved. Only model-checked: `DeferredIsServed`, `SendEnds`,
`CommandEnds` and `SessionOpens` (liveness is out of the prover's reach).

## 5. Plan

Done: event buffer, outstation, link layer alone and in pairs, master with its scheduler, channel
with parser, transport layer and IOHandler, and a proof for every instance of each safety property that the
passing runs check. Next: listener sessions (`LinkSession`, `MasterSessionStack`), each with a
channel of its own.

## 6. Not modelled

* Application-layer parsing and encoding (`app/parsing`, `objects`, `gen`): conversions between octets and
  typed values with no state, most of it generated; handlers get what a parse yields (good,
  malformed, refused).
* Values of measurements, deadbands, ranges and `ASSIGN_CLASS` of the outstation's database, and the
  translation of command headers to user callbacks: they decide what a response contains, not how the
  protocol proceeds.
* `LinkSession` and `MasterSessionStack` (a listener that makes a channel for each connection that it
  accepts), the thread pool, sockets, name resolution and TLS.
* User callbacks that call back into the stack. Some of these are fragile: a callback that shuts the
  channel down from within `OnFrame` resets the buffer that `PushFrame` then advances.
* The decoder, the Java and .NET bindings, the Scala code generators, tests and examples, which are most
  of the repository's lines: they hold no protocol state, so the map covers the C++ core and
  a small share of the whole.
