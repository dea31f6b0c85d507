------------------------------- MODULE Channel -------------------------------
(***************************************************************************)
(* A channel: the handler of its connection, the link parser, and for each *)
(* session the receiving side of its transport layer.  The peer of every   *)
(* connection sends one of a set of byte streams; connections are refused, *)
(* break and are replaced; users add, enable, disable and remove sessions. *)
(* Every action is one task of the executor's strand, but for those of     *)
(* timers.                                                                 *)
(***************************************************************************)
EXTENDS Framing, IOHandler

CONSTANTS
    Scenarios,      \* what may happen, see IsScenario
    Lives,          \* numbers of connections, counted round
    StreamOf(_, _)  \* the stream of that name on a connection

\* The kind of handler and whether a server's new connections replace old ones; whether
\* sessions are removed and accepts fail; the sessions in use; the names of the streams
\* that peers send; bounds on queued transmissions, on clients that were replaced while
\* connecting, on callbacks of cancelled retry timers and on the accepts of a server.
IsScenario(c) ==
    /\ c.kind \in HandlerKinds /\ {c.closeExisting, c.removes, c.fails} \subseteq BOOLEAN
    /\ c.used \subseteq Sessions /\ c.streams # {}
    /\ {c.MaxQueue, c.MaxStale, c.MaxLate, c.MaxAccepts} \subseteq Nat

ASSUME ChannelAssumption ==
    /\ \A c \in Scenarios : IsScenario(c)
    /\ Lives \in Nat /\ Lives > 1

IsSequence(s) == s \in Seq({s[i] : i \in DOMAIN s})

ASSUME StreamAssumption ==
    \A c \in Scenarios : \A name \in c.streams, life \in 0..(Lives - 1) :
        IsSequence(StreamOf(name, life).bytes)

VARIABLES
    io,             \* the handler
    parser,         \* its LinkLayerParser
    rx,             \* rx[s]: the TransportRx of session s
    peer,           \* number of the connection, name of its stream, bytes read of it
    received,       \* what came up: frames since the connection was opened, for each
                    \* session the messages since it went online and the bytes read then
    scenario        \* never changes

vars == <<io, parser, rx, peer, received, scenario>>

Stream == StreamOf(peer.stream, peer.life)

Nothing == [frames |-> <<>>, messages |-> [s \in Sessions |-> <<>>],
            since |-> [s \in Sessions |-> 0]]

Init ==
    /\ scenario \in Scenarios
    /\ io = InitialHandler(scenario.kind, scenario.closeExisting)
    /\ parser = InitialParser
    /\ rx = [s \in Sessions |-> InitialRx]
    /\ \E name \in scenario.streams : peer = [life |-> 0, stream |-> name, read |-> 0]
    /\ received = Nothing

WithinBounds(h) ==
    /\ Len(h.txQueue) <= scenario.MaxQueue
    /\ h.stale <= scenario.MaxStale /\ h.late <= scenario.MaxLate
    /\ h.accepts <= scenario.MaxAccepts

\* Mutant: the segments received so far are kept.
OnLowerLayerDown_KeepsRx(r) == r

\* TransportLayer::OnLowerLayerDown
OnLowerLayerDown(r) == InitialRx

\* The handler becomes h, without a new connection. The parser is reset with the
\* connection, a receiver when its session goes down.
Keeps(h) ==
    LET down == io.online \ h.online
        up == h.online \ io.online
    IN  /\ WithinBounds(h)
        /\ io' = h
        /\ parser' = IF h.channel THEN parser ELSE InitialParser
        /\ rx' = [s \in Sessions |-> IF s \in down THEN OnLowerLayerDown(rx[s]) ELSE rx[s]]
        /\ peer' = IF h.channel THEN peer ELSE [peer EXCEPT !.read = 0]
        /\ received' =
              IF ~h.channel THEN Nothing
              ELSE [received EXCEPT
                      !.messages = [s \in Sessions |-> IF s \in down \cup up THEN <<>> ELSE @[s]],
                      !.since = [s \in Sessions |-> IF s \in up THEN peer.read
                                                    ELSE IF s \in down THEN 0 ELSE @[s]]]
        /\ UNCHANGED scenario

\* The handler becomes h and has a new connection. Every session that was online goes
\* down first.
Connects(h) ==
    /\ WithinBounds(h)
    /\ io' = h
    /\ parser' = InitialParser
    /\ rx' = [s \in Sessions |-> IF s \in io.online THEN OnLowerLayerDown(rx[s]) ELSE rx[s]]
    /\ \E name \in scenario.streams :
          peer' = [life |-> (peer.life + 1) % Lives, stream |-> name, read |-> 0]
    /\ received' = Nothing
    /\ UNCHANGED scenario

\* A step of the handler that may open a connection
Becomes(opens, h) ==
    \E next \in {h} : IF opens /\ next.channel THEN Connects(next) ELSE Keeps(next)

-----------------------------------------------------------------------------
AddSession(s) ==
    /\ s \in scenario.used \ io.sessions /\ ~io.isShutdown
    /\ Becomes(FALSE, AddContext(io, s))

EnableSession(s) ==
    /\ s \in io.sessions \ io.enabled
    /\ \E ok \in BOOLEAN : Becomes(~io.channel, Enable(io, s, ok))

DisableSession(s) ==
    /\ s \in io.enabled
    /\ Becomes(FALSE, Disable(io, s))

RemoveSession(s) ==
    /\ scenario.removes /\ s \in io.sessions
    /\ Becomes(FALSE, Remove(io, s))

ShutdownChannel ==
    /\ ~io.isShutdown
    /\ Becomes(FALSE, Shutdown(io))

-----------------------------------------------------------------------------
Transmit(s) ==
    /\ s \in io.online
    /\ Becomes(FALSE, BeginTransmit(io, s))

WriteComplete ==
    /\ io.writing
    /\ Becomes(FALSE, OnWriteComplete(io))

\* A frame goes on to the transport layer of the session that it is addressed to; now
\* has its receiver and the messages that this read has completed.
Accepts(s, frame) == frame.header.dest = s /\ frame.header.func = "UNCONFIRMED_USER_DATA"

OnFrame(s, now, frame) ==
    LET next == ProcessReceive(now.rx, frame.header.src, frame.data)
    IN  IF ~Accepts(s, frame) THEN now
        ELSE [rx |-> [next EXCEPT !.message = <<>>],
              messages |-> IF next.message = <<>> THEN now.messages
                           ELSE Append(now.messages, next.message)]

OnFrames(s, now, frames) ==
    LET after[i \in 0..Len(frames)] ==
            IF i = 0 THEN now ELSE OnFrame(s, after[i - 1], frames[i])
    IN  after[Len(frames)]

\* Some of the bytes that are there are read; the parser's buffer limits their number.
\* Every frame goes to all enabled sessions.
Read(n) ==
    /\ io.channel
    /\ n <= NumWriteBytes(parser) /\ peer.read + n <= Len(Stream.bytes)
    /\ \E p \in {OnRead(parser, SubSeq(Stream.bytes, peer.read + 1, peer.read + n))} :
       \E up \in {[s \in Sessions |->
                    OnFrames(s, [rx |-> rx[s], messages |-> <<>>],
                             IF s \in io.enabled THEN p.frames ELSE <<>>)]} :
          /\ parser' = [p EXCEPT !.frames = <<>>]
          /\ rx' = [s \in Sessions |-> up[s].rx]
          /\ received' = [received EXCEPT
                !.frames = @ \o p.frames,
                !.messages = [s \in Sessions |-> @[s] \o up[s].messages]]
    /\ peer' = [peer EXCEPT !.read = @ + n]
    /\ UNCHANGED <<io, scenario>>

\* A read or a write fails.
ChannelError ==
    /\ io.channel
    /\ \E ok \in BOOLEAN : Becomes(TRUE, OnChannelError(io, ok))

-----------------------------------------------------------------------------
\* The attempt of the client ends, or that of one that it replaced.
ConnectResult(ok) ==
    /\ io.client = "connecting"
    /\ Becomes(ok /\ Admits(io), OnConnectResult([io EXCEPT !.client = "idle"], ok))

StaleConnectResult(ok) ==
    /\ io.stale > 0
    /\ Becomes(ok /\ Admits(io) /\ io.client # "none",
               OnConnectResult([io EXCEPT !.stale = @ - 1], ok))

\* A server's accept ends with a connection, or fails.
Accept ==
    /\ io.accepts > 0
    /\ Becomes(Admits(io), OnAccept(io))

AcceptError ==
    /\ scenario.fails /\ io.accepts > 0
    /\ Becomes(FALSE, OnAcceptError(io))

RetryExpires ==
    /\ io.retrytimer = "running"
    /\ Becomes(FALSE, [io EXCEPT !.retrytimer = "expired"])

Retry(ok) ==
    /\ io.retrytimer = "expired" \/ io.late > 0
    /\ Becomes(io.kind = "serial" /\ ok /\ Admits(io), OnRetry(io, ok))

Next ==
    \/ \E s \in Sessions :
          AddSession(s) \/ EnableSession(s) \/ DisableSession(s) \/ RemoveSession(s) \/ Transmit(s)
    \/ ShutdownChannel
    \/ WriteComplete
    \/ \E n \in 1..BufferSize : Read(n)
    \/ ChannelError
    \/ \E ok \in BOOLEAN : ConnectResult(ok) \/ StaleConnectResult(ok) \/ Retry(ok)
    \/ Accept
    \/ AcceptError
    \/ RetryExpires

\* Attempts end and timers expire, peers connect to a server while it accepts, and the
\* network does not refuse every attempt.
Fairness ==
    /\ WF_vars(\E ok \in BOOLEAN : ConnectResult(ok)) /\ SF_vars(ConnectResult(TRUE))
    /\ WF_vars(\E ok \in BOOLEAN : Retry(ok)) /\ SF_vars(Retry(TRUE))
    /\ WF_vars(RetryExpires)
    /\ WF_vars(Accept)

Spec == Init /\ [][Next]_vars /\ Fairness

-----------------------------------------------------------------------------
(***************************************************************************)
(* Properties.                                                             *)
(***************************************************************************)

\* The handler and what is kept of a connection have their declared types.
TypeOK ==
    /\ io \in Handler
    /\ parser.state \in {"FindSync", "ReadHeader", "ReadBody"} /\ parser.readPos = 0
    /\ peer.life \in 0..(Lives - 1) /\ peer.read \in 0..Len(Stream.bytes)
    /\ scenario \in Scenarios

\* The parser's buffer always has room for another read: an incomplete frame never
\* fills it. (A read into an empty slice would complete at once, for ever.)
ReadHasRoom == NumWriteBytes(parser) > 0

\* Is there a header at byte i? Its frame, if it is all there
HeaderAt(bytes, i) ==
    /\ i + HeaderSize - 1 <= Len(bytes) /\ SubSeq(bytes, i, i + 1) = Start
    /\ ReadHeader(SubSeq(bytes, i, i + HeaderSize - 1))

SizeAt(bytes, i) == CalcFrameSize(bytes[i + 2].len)

BodyAt(bytes, i) == SubSeq(bytes, i + HeaderSize, i + SizeAt(bytes, i) - 1)

FrameAt(bytes, i) ==
    [header |-> bytes[i + 2], data |-> ReadUserData(BodyAt(bytes, i), bytes[i + 2].len)]

\* The frames from each byte on, found by looking at each of them in turn
FramesFrom(bytes) ==
    LET from[i \in 1..(Len(bytes) + 1)] ==
            IF i > Len(bytes) THEN <<>>
            ELSE IF ~HeaderAt(bytes, i) THEN from[i + 1]
            ELSE IF i + SizeAt(bytes, i) - 1 > Len(bytes) THEN <<>>
            ELSE IF ValidateBodyCRC(BodyAt(bytes, i))
                 THEN <<FrameAt(bytes, i)>> \o from[i + SizeAt(bytes, i)]
            ELSE from[i + 1]
    IN  from

FramesIn(bytes) == FramesFrom(bytes)[1]

\* The frames that the parser has pushed are those in the bytes of this connection, in
\* spite of the ways in which the bytes may be cut into reads, of what the previous
\* connection left behind and of user data that is unpacked into the read buffer.
FramesAsSent ==
    io.channel => received.frames = FramesIn(SubSeq(Stream.bytes, 1, peer.read))

-----------------------------------------------------------------------------
(***************************************************************************)
(* What the peer of a stream x sends.  x.sent has its messages, each with  *)
(* the bytes where it starts and ends and the number of segments that were *)
(* sent to that session before; x.number has the number of segments that   *)
(* were sent up to each of the frames.                                     *)
(***************************************************************************)

FramesTo(s, frames) == {i \in DOMAIN frames : Accepts(s, frames[i])}

IsFirst(frame) == frame.data[1].fir

LastNumber(m) == m.seq + SegmentCount(m.message)

\* A frame is the segment of message m that has this number.
IsSegment(frame, number, m) ==
    /\ number > m.seq /\ number <= LastNumber(m)
    /\ frame.data = Segments(m.message, m.seq)[number - m.seq]

\* Messages are sent one after the other.
SendsInTurn(x) ==
    /\ IsSequence(x.sent)
    /\ \A j \in DOMAIN x.sent :
          x.sent[j].seq \in Nat /\ x.sent[j].first \in Nat \ {0} /\ IsSequence(x.sent[j].message)
    /\ \A j, k \in DOMAIN x.sent :
          j < k /\ x.sent[j].to = x.sent[k].to => LastNumber(x.sent[j]) <= x.sent[k].seq

\* What arrives are segments of these messages, in order. Some may be missing, but never
\* so many in the middle of a message that sequence numbers come round.
ArrivesInOrder(x, frames) ==
    /\ x.number \in [DOMAIN frames -> Nat]
    /\ \A s \in Sessions : \A i \in FramesTo(s, frames) :
          \E j \in DOMAIN x.sent :
              x.sent[j].to = s /\ IsSegment(frames[i], x.number[i], x.sent[j])
    /\ \A s \in Sessions : \A i, k \in FramesTo(s, frames) : i < k =>
          /\ x.number[i] < x.number[k]
          /\ \/ x.number[k] - x.number[i] <= SegmentModulus
             \/ \E n \in FramesTo(s, frames) : i < n /\ n <= k /\ IsFirst(frames[n])

\* The last segment of a message ends where the message does.
EndsWithLast(x, frames) ==
    \A n \in 0..Len(x.bytes) : \A i \in 1..Len(FramesIn(SubSeq(x.bytes, 1, n))) :
        \A s \in Sessions : \A j \in DOMAIN x.sent :
            (/\ i \in FramesTo(s, frames) /\ x.sent[j].to = s
             /\ x.number[i] = LastNumber(x.sent[j])) => x.sent[j].last <= n

\* Nothing is missing and nothing is too long; the segments of a message are between
\* the bytes where it starts and ends.
ArrivesWhole(x, frames) ==
    /\ \A j \in DOMAIN x.sent : Len(x.sent[j].message) \in 1..maxRxFragSize
    /\ \A s \in Sessions : \A i, k \in FramesTo(s, frames) :
          frames[i].header.src = frames[k].header.src
    /\ \A s \in Sessions : \A j \in DOMAIN x.sent : x.sent[j].to = s =>
          \A number \in (x.sent[j].seq + 1)..LastNumber(x.sent[j]) :
              \E i \in FramesTo(s, frames) :
                  /\ x.number[i] = number
                  /\ \A n \in 0..Len(x.bytes) :
                        /\ i <= Len(FramesIn(SubSeq(x.bytes, 1, n))) => x.sent[j].first <= n
                        /\ x.sent[j].last <= n => i <= Len(FramesIn(SubSeq(x.bytes, 1, n)))

Carries(x) ==
    /\ SendsInTurn(x) /\ x.clean \in BOOLEAN
    /\ ArrivesInOrder(x, FramesIn(x.bytes)) /\ EndsWithLast(x, FramesIn(x.bytes))
    /\ x.clean => ArrivesWhole(x, FramesIn(x.bytes))

ASSUME PeerAssumption ==
    \A c \in Scenarios : \A name \in c.streams, life \in 0..(Lives - 1) :
        Carries(StreamOf(name, life))

\* The messages that the peer sends to s in whole between two bytes of this connection
SentTo(s, from, upTo) ==
    {j \in DOMAIN Stream.sent :
        LET m == Stream.sent[j] IN m.to = s /\ m.first > from /\ m.last <= upTo}

Increases(at) == \A i, j \in DOMAIN at : i < j => at[i] < at[j]

\* What is passed up to a session are whole messages that were sent to it on this
\* connection, each at most once and in order, also when frames are damaged, when the
\* connection breaks in the middle of a message and when the session is disabled and
\* enabled again in the middle of one.
MessagesWhole ==
    \A s \in Sessions :
        LET up == received.messages[s] IN
        \E at \in [DOMAIN up -> SentTo(s, 0, peer.read)] :
            Increases(at) /\ \A n \in DOMAIN up : up[n] = Stream.sent[at[n]].message

\* Nothing is lost on an undisturbed connection: a session gets every message that was
\* sent after it went online, in order.
NothingLost ==
    \A s \in io.online : Stream.clean =>
        LET up == received.messages[s]
            due == SentTo(s, received.since[s], peer.read)
        IN  \E at \in [due -> DOMAIN up] :
                Increases(at) /\ \A j \in due : up[at[j]] = Stream.sent[j].message

\* The sessions that were told that the layer below is up are those that are enabled,
\* while there is a connection.
OnlineMeansOpen == io.online = IF io.channel THEN io.enabled ELSE {}

\* A transmission in the queue is being written or follows one that is.
TransmissionsProgress == io.txQueue # <<>> => io.channel /\ io.writing

\* Does the handler always get a connection again? A server that could not listen does
\* not try again, nor does one whose accepts have failed; and one that is closed with its
\* last enabled session, while the connection is kept, is not opened again when another
\* session is enabled on that connection.
Recovers == io.server \notin {"broken", "deaf", "gone"}

\* While a session is enabled and there is no connection, something is under way to get
\* one.
SomethingOpens ==
    io.enabled # {} /\ ~io.channel /\ Recovers =>
        \/ io.client = "connecting"
        \/ io.retrytimer # "none"
        \/ io.accepts > 0

\* There is no connection after the channel was shut down, nor will there be one: no
\* late callback of a client's attempt, of its timer or of a server opens one.
ClosedForGood ==
    io.isShutdown /\ io.kind # "serial" =>
        ~io.channel /\ io.client = "none" /\ io.server = "none"

\* A session that is enabled goes online, or is disabled or removed before.
SessionOpens ==
    \A s \in Sessions :
        s \in io.enabled ~> s \in io.online \/ s \notin io.enabled \/ ~Recovers
=============================================================================
