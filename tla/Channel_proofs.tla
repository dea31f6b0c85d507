--------------------------- MODULE Channel_proofs ---------------------------
(***************************************************************************)
(* The connection of a channel, for any set of sessions, any scenario and  *)
(* any number of late callbacks: the sessions that are online are the      *)
(* enabled ones of an open channel, a queued transmission is being         *)
(* written, something is always under way to replace a lost connection,    *)
(* and a channel that was shut down stays closed.  Only the handler        *)
(* matters: every action applies one of its operations to io, and one      *)
(* lemma per operation says that it keeps the invariant.                   *)
(*                                                                         *)
(* What is read from the connection, for any streams, sizes and ways of    *)
(* cutting a stream into reads: the parser has room for a read and finds   *)
(* the frames that are there, and the transport layers make whole          *)
(* messages of them and lose none.  One lemma per step of the parser says  *)
(* that it keeps its place in the stream, one per frame that a receiver    *)
(* keeps its place in what its peer sends.                                 *)
(***************************************************************************)
EXTENDS Channel, TLAPS, WellFoundedInduction, SequenceTheorems

Online(h) == h.online = IF h.channel THEN h.enabled ELSE {}

Writing(h) == h.txQueue # <<>> => h.channel /\ h.writing

Closed(h) ==
    h.isShutdown =>
        /\ h.sessions = {}
        /\ h.kind # "serial" => ~h.channel /\ h.client = "none" /\ h.server = "none"

\* The members that belong to one way of getting a connection
Kinds(h) ==
    /\ h.kind # "client" => h.client = "none" /\ h.stale = 0
    /\ IF h.kind = "server" THEN h.retrytimer = "none" /\ h.late = 0 ELSE h.server = "none"
    /\ h.server = "listening" <=> h.accepts > 0

\* The invariant but for what is under way
Open(h) ==
    /\ h \in Handler /\ h.enabled \subseteq h.sessions
    /\ Online(h) /\ Writing(h) /\ Closed(h) /\ Kinds(h)

\* What is under way to get a connection. A client that is connecting or idle survives
\* as long as it is wanted; a server is kept with a connection, too, unless it is closed
\* with the last session.
Opening(h) ==
    CASE h.kind = "client" ->
            h.enabled # {} /\ ~h.channel =>
                /\ h.client # "none"
                /\ h.client = "connecting" \/ h.retrytimer # "none"
      [] h.kind = "serial" -> h.enabled # {} /\ ~h.channel => h.retrytimer # "none"
      [] h.kind = "server" -> h.enabled # {} \/ h.channel => h.server # "none"

\* The inductive invariant, on a handler.
HInv(h) == Open(h) /\ Opening(h)

-----------------------------------------------------------------------------
(***************************************************************************)
(* The connection.                                                         *)
(***************************************************************************)

\* Reset leaves a handler without a connection and changes nothing else.
LEMMA ResetEffect ==
    ASSUME NEW h \in Handler
    PROVE  /\ Reset(h) \in Handler
           /\ Reset(h).channel = FALSE /\ Reset(h).online = {} /\ Reset(h).writing = FALSE
           /\ Reset(h).txQueue = <<>>
           /\ Reset(h).kind = h.kind /\ Reset(h).sessions = h.sessions
           /\ Reset(h).enabled = h.enabled /\ Reset(h).isShutdown = h.isShutdown
           /\ Reset(h).client = h.client /\ Reset(h).stale = h.stale
           /\ Reset(h).retrytimer = h.retrytimer /\ Reset(h).late = h.late
           /\ Reset(h).server = h.server /\ Reset(h).accepts = h.accepts
           /\ Reset(h).closeExisting = h.closeExisting
  <1>1. {} \in SUBSET Sessions /\ <<>> \in Seq(Sessions)
    OBVIOUS
  <1>2. Reset(h) \in Handler
    BY <1>1 DEF Reset, Handler
  <1> QED
    BY <1>2 DEF Reset, Handler

\* CheckForSend may begin to write, which changes nothing else.
LEMMA CheckForSendEffect ==
    ASSUME NEW h \in Handler
    PROVE  /\ CheckForSend(h) \in Handler
           /\ \E w \in BOOLEAN : CheckForSend(h) = [h EXCEPT !.writing = w]
           /\ h.channel => Writing(CheckForSend(h))
  BY DEF CheckForSend, Handler, Writing

LEMMA BeginTransmitInv ==
    ASSUME NEW h, HInv(h), NEW s \in Sessions
    PROVE  HInv(BeginTransmit(h, s))
  <1>1. CASE ~h.channel
    BY <1>1 DEF BeginTransmit
  <1>2. CASE h.channel
    <2> DEFINE q == [h EXCEPT !.txQueue = Append(@, s)]
    <2>1. Append(h.txQueue, s) \in Seq(Sessions)
      BY DEF HInv, Open, Handler
    <2>2. q \in Handler /\ q.channel
      BY <1>2, <2>1 DEF HInv, Open, Handler
    <2>3. PICK w \in BOOLEAN : CheckForSend(q) = [q EXCEPT !.writing = w]
      BY <2>2, CheckForSendEffect
    <2>4. CheckForSend(q) \in Handler /\ Writing(CheckForSend(q))
      BY <2>2, CheckForSendEffect
    <2>5. BeginTransmit(h, s) = CheckForSend(q)
      BY <1>2 DEF BeginTransmit
    <2>6. HInv([q EXCEPT !.writing = w])
      BY <2>3, <2>4 DEF HInv, Open, Handler, Online, Closed, Kinds, Opening
    <2> QED
      BY <2>3, <2>5, <2>6
  <1> QED
    BY <1>1, <1>2

LEMMA OnWriteCompleteInv ==
    ASSUME NEW h, HInv(h), h.writing
    PROVE  HInv(OnWriteComplete(h))
  <1> DEFINE q == [h EXCEPT !.writing = FALSE, !.txQueue = IF @ = <<>> THEN @ ELSE Tail(@)]
  <1>1. (IF h.txQueue = <<>> THEN h.txQueue ELSE Tail(h.txQueue)) \in Seq(Sessions)
    BY DEF HInv, Open, Handler
  <1>2. q \in Handler
    BY <1>1 DEF HInv, Open, Handler
  <1>3. PICK w \in BOOLEAN : CheckForSend(q) = [q EXCEPT !.writing = w]
    BY <1>2, CheckForSendEffect
  <1>4. CheckForSend(q) \in Handler
    BY <1>2, CheckForSendEffect
  <1>5. Writing(CheckForSend(q))
    <2>1. CASE h.channel
      BY <2>1, <1>2, CheckForSendEffect DEF HInv, Open, Handler
    <2>2. CASE ~h.channel
      <3>1. q.txQueue = <<>>
        BY <2>2 DEF HInv, Open, Handler, Writing
      <3> QED
        BY <3>1 DEF CheckForSend, Writing
    <2> QED
      BY <2>1, <2>2
  <1>6. HInv([q EXCEPT !.writing = w])
    BY <1>3, <1>4, <1>5 DEF HInv, Open, Handler, Online, Closed, Kinds, Opening
  <1> QED
    BY <1>3, <1>6 DEF OnWriteComplete

-----------------------------------------------------------------------------
(***************************************************************************)
(* Getting a connection. A handler that has lost its connection satisfies  *)
(* the invariant but for what is under way; these operations see to it.    *)
(***************************************************************************)

\* The members that an operation may leave alone
SameSessions(h, g) ==
    /\ g.kind = h.kind /\ g.sessions = h.sessions /\ g.enabled = h.enabled
    /\ g.online = h.online /\ g.channel = h.channel /\ g.writing = h.writing
    /\ g.txQueue = h.txQueue /\ g.isShutdown = h.isShutdown

LEMMA OpenReset ==
    ASSUME NEW h, Open(h)
    PROVE  Open(Reset(h))
  BY ResetEffect DEF Open, Online, Writing, Closed, Kinds

LEMMA TimerEffect ==
    ASSUME NEW h \in Handler
    PROVE  /\ StartRetryTimer(h) \in Handler /\ SameSessions(h, StartRetryTimer(h))
           /\ StartRetryTimer(h).retrytimer # "none"
           /\ StartRetryTimer(h).client = h.client
           /\ StartRetryTimer(h).server = h.server /\ StartRetryTimer(h).accepts = h.accepts
           /\ StartRetryTimer(h).stale = h.stale /\ StartRetryTimer(h).late = h.late
           /\ CancelRetryTimer(h) \in Handler /\ SameSessions(h, CancelRetryTimer(h))
           /\ CancelRetryTimer(h).client = h.client
           /\ CancelRetryTimer(h).server = h.server /\ CancelRetryTimer(h).accepts = h.accepts
           /\ CancelRetryTimer(h).stale = h.stale
  <1>1. StartRetryTimer(h) \in Handler /\ StartRetryTimer(h).retrytimer # "none"
    BY DEF StartRetryTimer, Handler, TimerStates
  <1>2. /\ SameSessions(h, StartRetryTimer(h))
        /\ StartRetryTimer(h).client = h.client
        /\ StartRetryTimer(h).server = h.server /\ StartRetryTimer(h).accepts = h.accepts
        /\ StartRetryTimer(h).stale = h.stale /\ StartRetryTimer(h).late = h.late
    BY DEF StartRetryTimer, Handler, SameSessions
  <1>3. CancelRetryTimer(h) \in Handler
    <2>1. PICK n \in Nat : n = IF h.retrytimer = "expired" THEN h.late + 1 ELSE h.late
      BY DEF Handler
    <2>2. CancelRetryTimer(h) = [h EXCEPT !.retrytimer = "none", !.late = n]
      BY <2>1 DEF CancelRetryTimer
    <2>3. [h EXCEPT !.retrytimer = "none", !.late = n] \in Handler
      BY DEF Handler, TimerStates
    <2> QED
      BY <2>2, <2>3
  <1>4. /\ SameSessions(h, CancelRetryTimer(h))
        /\ CancelRetryTimer(h).client = h.client
        /\ CancelRetryTimer(h).server = h.server /\ CancelRetryTimer(h).accepts = h.accepts
        /\ CancelRetryTimer(h).stale = h.stale
    BY DEF CancelRetryTimer, Handler, SameSessions
  <1> QED
    BY <1>1, <1>2, <1>3, <1>4

\* A new connection is announced to the enabled sessions, or closed at once.
LEMMA OnNewChannelInv ==
    ASSUME NEW h, Open(h), ~h.isShutdown \/ h.kind = "serial",
           h.kind = "server" => h.server # "none"
    PROVE  Open(OnNewChannel(h)) /\ Opening(OnNewChannel(h))
  <1>1. CASE Admits(h)
    <2> DEFINE g == [Reset(h) EXCEPT !.channel = TRUE, !.online = h.enabled]
    <2>1. OnNewChannel(h) = g
      BY <1>1 DEF OnNewChannel
    <2>2. Reset(h) \in Handler /\ h \in Handler
      BY ResetEffect DEF Open
    <2>3. g \in Handler
      BY <2>2 DEF Handler
    <2>4. /\ g.channel = TRUE /\ g.online = h.enabled /\ g.txQueue = <<>> /\ g.kind = h.kind
          /\ g.enabled = h.enabled /\ g.sessions = h.sessions /\ g.isShutdown = h.isShutdown
          /\ g.server = h.server /\ g.accepts = h.accepts
          /\ g.client = h.client /\ g.stale = h.stale
          /\ g.retrytimer = h.retrytimer /\ g.late = h.late
      BY <2>2, ResetEffect DEF Handler
    <2> HIDE DEF g
    <2>5. Open(g)
      BY <2>3, <2>4 DEF Open, Online, Writing, Closed, Kinds
    <2>6. Opening(g)
      BY <2>3, <2>4 DEF Opening, Handler, HandlerKinds
    <2> QED
      BY <2>1, <2>5, <2>6
  <1>2. CASE ~Admits(h)
    <2>1. OnNewChannel(h) = h /\ h.channel
      BY <1>2 DEF OnNewChannel, Admits
    <2>2. Opening(h)
      BY <2>1 DEF Opening, Open, Handler, HandlerKinds
    <2> QED
      BY <2>1, <2>2
  <1> QED
    BY <1>1, <1>2

\* Another accept is under way, and nothing else changes.
LEMMA StartAcceptEffect ==
    ASSUME NEW h \in Handler
    PROVE  LET g == StartAccept(h)
           IN  /\ g \in Handler /\ SameSessions(h, g) /\ g.server = "listening"
               /\ g.accepts > 0 /\ g.client = h.client /\ g.stale = h.stale
               /\ g.retrytimer = h.retrytimer /\ g.late = h.late
  <1>1. PICK n \in Nat : n = h.accepts + 1 /\ n > 0
    BY DEF Handler
  <1>2. StartAccept(h) = [h EXCEPT !.server = "listening", !.accepts = n]
    BY <1>1 DEF StartAccept
  <1> QED
    BY <1>1, <1>2 DEF Handler, SameSessions

\* A port is open after an attempt, or another attempt will follow.
LEMMA TryOpenInv ==
    ASSUME NEW h, Open(h), h.kind = "serial", NEW ok \in BOOLEAN
    PROVE  Open(TryOpen(h, ok)) /\ Opening(TryOpen(h, ok))
  <1>1. CASE ok
    BY <1>1, OnNewChannelInv DEF TryOpen
  <1>2. CASE ~ok
    BY <1>2, TimerEffect DEF TryOpen, Open, Opening, SameSessions, Online, Writing, Closed, Kinds
  <1> QED
    BY <1>1, <1>2

\* Trying to get a connection keeps the invariant, whatever was under way before. A
\* channel that was shut down has no enabled session and does not try, unless it is a
\* serial port whose retry comes too late.
LEMMA BeginChannelAcceptInv ==
    ASSUME NEW h, Open(h), ~h.isShutdown, NEW ok \in BOOLEAN
    PROVE  Open(BeginChannelAccept(h, ok)) /\ Opening(BeginChannelAccept(h, ok))
  <1> DEFINE g == BeginChannelAccept(h, ok)
  <1>0. h \in Handler
    BY DEF Open
  <1>1. CASE h.kind = "client"
    <2>1. PICK n \in Nat : n = IF h.client = "connecting" THEN h.stale + 1 ELSE h.stale
      BY <1>0 DEF Handler
    <2> DEFINE i == [h EXCEPT !.client = "idle", !.stale = n]
    <2>2. g = StartConnect(i)
      BY <1>1, <2>1 DEF BeginChannelAccept
    <2>3. /\ i \in Handler /\ SameSessions(h, i) /\ i.client = "idle"
          /\ i.server = h.server /\ i.accepts = h.accepts
      BY <1>0 DEF Handler, SameSessions
    <2> HIDE DEF i
    <2>4. g = [i EXCEPT !.client = "connecting"]
      BY <2>2, <2>3 DEF StartConnect
    <2>5. /\ g \in Handler /\ SameSessions(h, g) /\ g.client = "connecting"
          /\ g.server = h.server /\ g.accepts = h.accepts
      BY <2>3, <2>4 DEF Handler, SameSessions
    <2> QED
      BY <2>5, <1>1 DEF Open, Opening, SameSessions, Online, Writing, Closed, Kinds
  <1>2. CASE h.kind = "server"
    <2>1. g = StartAcceptingConnection(h, ok)
      BY <1>2 DEF BeginChannelAccept
    <2> DEFINE broken == [h EXCEPT !.server = "broken"]
    <2>2. \/ g = h /\ h.server = "broken"
          \/ g = broken /\ h.accepts = 0
          \/ g = StartAccept(h)
      BY <1>0, <2>1 DEF StartAcceptingConnection, Open, Kinds, Handler
    <2>3. /\ g \in Handler /\ SameSessions(h, g) /\ g.server # "none"
          /\ g.client = h.client /\ g.stale = h.stale
          /\ g.retrytimer = h.retrytimer /\ g.late = h.late
          /\ g.server = "listening" <=> g.accepts > 0
      <3>1. CASE g = h /\ h.server = "broken"
        BY <1>0, <3>1 DEF SameSessions, Open, Kinds
      <3>2. CASE g = broken /\ h.accepts = 0
        <4>1. /\ broken \in Handler /\ SameSessions(h, broken) /\ broken.server = "broken"
              /\ broken.client = h.client /\ broken.stale = h.stale
              /\ broken.retrytimer = h.retrytimer /\ broken.late = h.late
              /\ broken.accepts = h.accepts
          BY <1>0 DEF Handler, SameSessions
        <4> HIDE DEF broken, g
        <4> QED
          BY <3>2, <4>1
      <3>3. CASE g = StartAccept(h)
        BY <1>0, <3>3, StartAcceptEffect
      <3> QED
        BY <2>2, <3>1, <3>2, <3>3
    <2> QED
      BY <2>3, <1>2 DEF Open, Opening, SameSessions, Online, Writing, Closed, Kinds
  <1>3. CASE h.kind = "serial"
    <2>1. g = TryOpen(h, ok)
      BY <1>3 DEF BeginChannelAccept
    <2> QED
      BY <2>1, <1>3, TryOpenInv
  <1> QED
    BY <1>0, <1>1, <1>2, <1>3 DEF Handler, HandlerKinds

\* The loss of a connection.
LEMMA OnChannelErrorInv ==
    ASSUME NEW h, HInv(h), h.channel, NEW ok \in BOOLEAN
    PROVE  HInv(OnChannelError(h, ok))
  <1>1. Open(h) /\ Opening(h) /\ h \in Handler
    BY DEF HInv, Open
  <1>2. Open(Reset(h))
    BY <1>1, OpenReset
  <1>3. CASE h.kind = "server"
    <2>1. OnChannelError(h, ok) = Reset(h)
      BY <1>1, <1>3, ResetEffect DEF OnChannelError, OnChannelShutdown
    <2>2. Opening(Reset(h))
      BY <1>1, <1>3, ResetEffect DEF Opening
    <2> QED
      BY <2>1, <2>2, <1>2 DEF HInv, Open
  <1>4. CASE h.kind # "server" /\ ~h.isShutdown
    <2>1. OnChannelError(h, ok) = BeginChannelAccept(Reset(h), ok)
      BY <1>1, <1>4, ResetEffect DEF OnChannelError, OnChannelShutdown
    <2>2. ~Reset(h).isShutdown
      BY <1>1, <1>4, ResetEffect
    <2>3. Open(BeginChannelAccept(Reset(h), ok)) /\ Opening(BeginChannelAccept(Reset(h), ok))
      BY <1>2, <2>2, BeginChannelAcceptInv
    <2> QED
      BY <2>1, <2>3 DEF HInv, Open
  <1>5. CASE h.kind = "serial" /\ h.isShutdown
    <2>1. OnChannelError(h, ok) = TryOpen(Reset(h), ok) /\ Reset(h).kind = "serial"
      BY <1>1, <1>5, ResetEffect DEF OnChannelError, OnChannelShutdown, BeginChannelAccept
    <2>2. Open(TryOpen(Reset(h), ok)) /\ Opening(TryOpen(Reset(h), ok))
      BY <1>2, <2>1, TryOpenInv
    <2> QED
      BY <2>1, <2>2 DEF HInv, Open
  <1>6. h.kind = "client" /\ h.isShutdown => FALSE
    BY <1>1 DEF Open, Closed
  <1> QED
    BY <1>1, <1>3, <1>4, <1>5, <1>6 DEF Handler, HandlerKinds

\* A connection attempt ends, that of the client or that of one that it replaced.
LEMMA OnConnectResultInv ==
    ASSUME NEW h, Open(h), h.kind = "client", h.client = "none" => Opening(h),
           NEW ok \in BOOLEAN
    PROVE  HInv(OnConnectResult(h, ok))
  <1>1. CASE h.client = "none"
    BY <1>1 DEF OnConnectResult, HInv
  <1>2. CASE h.client # "none" /\ ok
    <2>1. ~h.isShutdown
      BY <1>2 DEF Open, Closed
    <2> QED
      BY <1>2, <2>1, OnNewChannelInv DEF OnConnectResult, HInv
  <1>3. CASE h.client # "none" /\ ~ok
    <2>1. OnConnectResult(h, ok) = StartRetryTimer(h)
      BY <1>3 DEF OnConnectResult
    <2> DEFINE g == StartRetryTimer(h)
    <2>2. /\ g \in Handler /\ SameSessions(h, g) /\ g.retrytimer # "none"
          /\ g.client = h.client /\ g.server = h.server /\ g.accepts = h.accepts
      BY TimerEffect DEF Open
    <2> HIDE DEF g
    <2>3. Open(g)
      BY <2>2 DEF Open, SameSessions, Online, Writing, Closed, Kinds
    <2>4. Opening(g)
      BY <1>3, <2>2 DEF Opening, SameSessions
    <2> QED
      BY <2>1, <2>3, <2>4 DEF HInv, g
  <1> QED
    BY <1>1, <1>2, <1>3

\* A retry, which may be that of a timer that was cancelled too late.
LEMMA OnRetryInv ==
    ASSUME NEW h, HInv(h), h.retrytimer = "expired" \/ h.late > 0,
           NEW ok \in BOOLEAN
    PROVE  HInv(OnRetry(h, ok))
  <1>0. h \in Handler /\ h.kind # "server"
    BY DEF HInv, Open, Kinds, Handler
  <1>1. PICK n \in Nat : n = IF h.retrytimer = "none" THEN h.late - 1 ELSE h.late
    BY <1>0 DEF Handler
  <1> DEFINE f == [h EXCEPT !.retrytimer = "none", !.late = n]
  <1>2. OnRetry(h, ok) = IF h.kind = "client" THEN StartConnect(f) ELSE TryOpen(f, ok)
    BY <1>1 DEF OnRetry
  <1>3. f \in Handler
    BY <1>0 DEF Handler, TimerStates
  <1>4. /\ SameSessions(h, f) /\ f.client = h.client
        /\ f.server = h.server /\ f.accepts = h.accepts /\ f.stale = h.stale
    BY <1>0 DEF Handler, SameSessions
  <1> HIDE DEF f
  <1>5. Open(f)
    BY <1>0, <1>3, <1>4 DEF HInv, Open, SameSessions, Online, Writing, Closed, Kinds
  <1>6. CASE h.kind = "client"
    <2>1. CASE f.client = "none"
      <3>1. OnRetry(h, ok) = f
        BY <1>2, <1>6, <2>1 DEF StartConnect
      <3>2. Opening(f)
        BY <1>4, <1>6, <2>1 DEF HInv, Opening, SameSessions
      <3> QED
        BY <3>1, <3>2, <1>5 DEF HInv
    <2>2. CASE f.client # "none"
      <3> DEFINE g == [f EXCEPT !.client = "connecting"]
      <3>1. OnRetry(h, ok) = g
        BY <1>2, <1>6, <2>2 DEF StartConnect
      <3>2. /\ g \in Handler /\ SameSessions(f, g) /\ g.client = "connecting"
            /\ g.server = f.server /\ g.accepts = f.accepts
        BY <1>3 DEF Handler, SameSessions
      <3>3. f.kind = "client" /\ ~f.isShutdown
        BY <1>4, <1>5, <1>6, <2>2 DEF SameSessions, Open, Closed
      <3> HIDE DEF g
      <3>4. Open(g) /\ Opening(g)
        BY <1>5, <3>2, <3>3 DEF Open, Opening, SameSessions, Online, Writing, Closed, Kinds
      <3> QED
        BY <3>1, <3>4 DEF HInv
    <2> QED
      BY <2>1, <2>2
  <1>7. CASE h.kind = "serial"
    <2>1. f.kind = "serial" /\ OnRetry(h, ok) = TryOpen(f, ok)
      BY <1>2, <1>4, <1>7 DEF SameSessions
    <2> QED
      BY <1>5, <2>1, TryOpenInv DEF HInv
  <1> QED
    BY <1>0, <1>6, <1>7 DEF Handler, HandlerKinds

\* Only a server accepts, one that is not shut down.
LEMMA Accepting ==
    ASSUME NEW h, HInv(h), h.accepts > 0
    PROVE  /\ h \in Handler /\ h.kind = "server" /\ h.server = "listening" /\ ~h.isShutdown
           /\ h.accepts \in Nat /\ h.accepts - 1 \in Nat
  BY DEF HInv, Open, Kinds, Closed, Handler

\* A server that has accepted a connection accepts the next.
LEMMA OnAcceptInv ==
    ASSUME NEW h, HInv(h), h.accepts > 0
    PROVE  HInv(OnAccept(h))
  <1>0. h \in Handler /\ h.kind = "server" /\ ~h.isShutdown
    BY Accepting
  <1>1. PICK n \in Nat : n = h.accepts - 1
    BY Accepting
  <1> DEFINE f == [h EXCEPT !.accepts = n]
             c == OnNewChannel(f)
             g == StartAccept(c)
  <1>2. OnAccept(h) = g
    BY <1>1 DEF OnAccept
  <1>3. /\ f \in Handler /\ SameSessions(h, f) /\ f.client = h.client /\ f.stale = h.stale
        /\ f.retrytimer = h.retrytimer /\ f.late = h.late
    BY <1>0 DEF Handler, SameSessions
  <1> HIDE DEF f
  <1>4. /\ c \in Handler /\ c.kind = h.kind /\ c.sessions = h.sessions
        /\ c.enabled = h.enabled /\ c.isShutdown = h.isShutdown
        /\ c.client = h.client /\ c.stale = h.stale
        /\ c.retrytimer = h.retrytimer /\ c.late = h.late
        /\ Online(c) /\ Writing(c)
    <2>1. CASE Admits(f)
      <3> DEFINE d == [Reset(f) EXCEPT !.channel = TRUE, !.online = f.enabled]
      <3>1. c = d
        BY <2>1 DEF OnNewChannel
      <3>2. Reset(f) \in Handler
        BY <1>3, ResetEffect
      <3>3. d \in Handler
        BY <1>3, <3>2 DEF Handler
      <3> HIDE DEF c
      <3>4. /\ c.channel = TRUE /\ c.online = f.enabled /\ c.txQueue = <<>>
            /\ c.kind = f.kind /\ c.sessions = f.sessions
            /\ c.enabled = f.enabled /\ c.isShutdown = f.isShutdown
            /\ c.client = f.client /\ c.stale = f.stale
            /\ c.retrytimer = f.retrytimer /\ c.late = f.late
        BY <1>3, <3>1, ResetEffect DEF Handler
      <3> QED
        BY <1>3, <3>1, <3>3, <3>4 DEF SameSessions, Online, Writing
    <2>2. CASE ~Admits(f)
      <3>1. c = f
        BY <2>2 DEF OnNewChannel
      <3> HIDE DEF c
      <3> QED
        BY <1>3, <3>1 DEF SameSessions, HInv, Open, Online, Writing
    <2> QED
      BY <2>1, <2>2
  <1> HIDE DEF c
  <1>5. /\ g \in Handler /\ SameSessions(c, g) /\ g.server = "listening" /\ g.accepts > 0
        /\ g.client = c.client /\ g.stale = c.stale
        /\ g.retrytimer = c.retrytimer /\ g.late = c.late
    BY <1>4, StartAcceptEffect
  <1> HIDE DEF g
  <1>6. Open(g)
    BY <1>0, <1>4, <1>5 DEF HInv, Open, SameSessions, Online, Writing, Closed, Kinds
  <1>7. Opening(g)
    BY <1>0, <1>4, <1>5 DEF Opening, SameSessions
  <1> QED
    BY <1>2, <1>6, <1>7 DEF HInv

\* An accept that fails is given up.
LEMMA OnAcceptErrorInv ==
    ASSUME NEW h, HInv(h), h.accepts > 0
    PROVE  HInv(OnAcceptError(h))
  <1>0. h \in Handler /\ h.kind = "server" /\ ~h.isShutdown /\ h.server = "listening"
    BY Accepting
  <1>1. PICK n \in Nat : n = h.accepts - 1
    BY Accepting
  <1> DEFINE x == IF n = 0 THEN "deaf" ELSE "listening"
             g == [h EXCEPT !.accepts = n, !.server = x]
  <1>2. OnAcceptError(h) = g
    <2>1. n = 0 <=> h.accepts = 1
      BY <1>1, Accepting
    <2> QED
      BY <1>0, <1>1, <2>1 DEF OnAcceptError
  <1>3. /\ g \in Handler /\ SameSessions(h, g) /\ g.server = x /\ g.accepts = n
        /\ g.client = h.client /\ g.stale = h.stale
        /\ g.retrytimer = h.retrytimer /\ g.late = h.late
    BY <1>0 DEF Handler, SameSessions
  <1> HIDE DEF g
  <1>4. Open(g)
    BY <1>0, <1>3 DEF HInv, Open, SameSessions, Online, Writing, Closed, Kinds
  <1>5. Opening(g)
    BY <1>0, <1>3 DEF Opening, SameSessions
  <1> QED
    BY <1>2, <1>4, <1>5 DEF HInv

-----------------------------------------------------------------------------
(***************************************************************************)
(* Sessions.                                                               *)
(***************************************************************************)

\* Whatever is under way is given up.
LEMMA SuspendEffect ==
    ASSUME NEW h, Open(h)
    PROVE  /\ Open(SuspendChannelAccept(h))
           /\ SameSessions(h, SuspendChannelAccept(h))
           /\ SuspendChannelAccept(h).client = "none"
           /\ ~h.channel => SuspendChannelAccept(h).server = "none"
           /\ h.kind = "server" /\ h.channel => SuspendChannelAccept(h).server # "none"
  <1> DEFINE g == SuspendChannelAccept(h)
  <1>0. h \in Handler
    BY DEF Open
  <1>1. CASE h.kind = "client"
    <2> DEFINE c == CancelRetryTimer(h)
    <2>1. /\ c \in Handler /\ SameSessions(h, c)
          /\ c.server = h.server /\ c.accepts = h.accepts
      BY <1>0, TimerEffect
    <2>2. g = [c EXCEPT !.client = "none"]
      BY <1>1 DEF SuspendChannelAccept
    <2> HIDE DEF c
    <2>3. /\ g \in Handler /\ SameSessions(h, g) /\ g.client = "none"
          /\ g.server = h.server /\ g.accepts = h.accepts
      BY <2>1, <2>2 DEF Handler, SameSessions
    <2> QED
      BY <1>1, <2>3 DEF Open, SameSessions, Online, Writing, Closed, Kinds
  <1>2. CASE h.kind = "server"
    <2> DEFINE x == IF h.channel THEN "gone" ELSE "none"
               y == [h EXCEPT !.server = x, !.accepts = 0]
    <2>0. g = y /\ x \in {"gone", "none"} /\ (x = "gone" <=> h.channel)
      BY <1>2 DEF SuspendChannelAccept
    <2> HIDE DEF x
    <2>1. /\ y \in Handler /\ SameSessions(h, y) /\ y.server = x /\ y.accepts = 0
          /\ y.client = h.client /\ y.stale = h.stale
          /\ y.retrytimer = h.retrytimer /\ y.late = h.late
      BY <1>0, <2>0 DEF Handler, SameSessions
    <2> HIDE DEF y, g
    <2>2. /\ g \in Handler /\ SameSessions(h, g) /\ g.server = x /\ g.accepts = 0
          /\ g.client = h.client /\ g.stale = h.stale
          /\ g.retrytimer = h.retrytimer /\ g.late = h.late
      BY <2>0, <2>1
    <2>3. Open(g)
      BY <1>2, <2>0, <2>2 DEF Open, SameSessions, Online, Writing, Closed, Kinds
    <2> QED
      BY <1>2, <2>0, <2>2, <2>3 DEF g, Open, Kinds
  <1>3. CASE h.kind = "serial"
    <2>1. g = CancelRetryTimer(h)
      BY <1>3 DEF SuspendChannelAccept
    <2>2. /\ g \in Handler /\ SameSessions(h, g) /\ g.client = h.client
          /\ g.server = h.server /\ g.accepts = h.accepts /\ g.stale = h.stale
      BY <1>0, <2>1, TimerEffect
    <2> HIDE DEF g
    <2> QED
      BY <1>3, <2>2 DEF Open, SameSessions, Online, Writing, Closed, Kinds, g
  <1> QED
    BY <1>0, <1>1, <1>2, <1>3 DEF Handler, HandlerKinds

\* Nothing need be under way when no session wants a connection.
LEMMA SuspendInv ==
    ASSUME NEW h, Open(h), h.enabled = {}
    PROVE  HInv(SuspendChannelAccept(h))
  <1> DEFINE g == SuspendChannelAccept(h)
  <1>1. /\ Open(g) /\ g.enabled = {} /\ g.kind = h.kind /\ g.channel = h.channel
        /\ h.kind = "server" /\ h.channel => g.server # "none"
    BY SuspendEffect DEF SameSessions
  <1> HIDE DEF g
  <1>2. Opening(g)
    BY <1>1 DEF Open, Opening, Handler, HandlerKinds
  <1> QED
    BY <1>1, <1>2 DEF HInv, g

LEMMA AddContextInv ==
    ASSUME NEW h, HInv(h), ~h.isShutdown, NEW s \in Sessions
    PROVE  HInv(AddContext(h, s))
  <1> DEFINE g == AddContext(h, s)
  <1>1. g \in Handler /\ g.sessions = h.sessions \cup {s} /\ g = [h EXCEPT !.sessions = g.sessions]
    BY DEF AddContext, HInv, Open, Handler
  <1> QED
    BY <1>1 DEF HInv, Open, Handler, Online, Writing, Closed, Kinds, Opening

\* A session that is enabled goes online, or a connection is sought.
LEMMA EnableInv ==
    ASSUME NEW h, HInv(h), NEW s \in h.sessions \ h.enabled, NEW ok \in BOOLEAN
    PROVE  HInv(Enable(h, s, ok))
  <1> DEFINE w == [h EXCEPT !.enabled = @ \cup {s}]
  <1>0. h \in Handler /\ ~h.isShutdown /\ s \in Sessions
    BY DEF HInv, Open, Closed, Handler
  <1>1. /\ w \in Handler /\ w.enabled = h.enabled \cup {s} /\ w.sessions = h.sessions
        /\ w.kind = h.kind /\ w.online = h.online /\ w.channel = h.channel
        /\ w.writing = h.writing /\ w.txQueue = h.txQueue /\ w.isShutdown = h.isShutdown
        /\ w.client = h.client
        /\ w.server = h.server /\ w.accepts = h.accepts /\ w.stale = h.stale
        /\ w.retrytimer = h.retrytimer /\ w.late = h.late
    BY <1>0 DEF Handler
  <1>2. Enable(h, s, ok) = IF h.channel THEN [w EXCEPT !.online = @ \cup {s}]
                           ELSE BeginChannelAccept(w, ok)
    BY DEF Enable
  <1> HIDE DEF w
  <1>3. CASE h.channel
    <2> DEFINE g == [w EXCEPT !.online = @ \cup {s}]
    <2>1. /\ g \in Handler /\ g.enabled = w.enabled /\ g.sessions = w.sessions
          /\ g.kind = w.kind /\ g.online = w.online \cup {s} /\ g.channel = w.channel
          /\ g.writing = w.writing /\ g.txQueue = w.txQueue /\ g.isShutdown = w.isShutdown
          /\ g.client = w.client
          /\ g.server = w.server /\ g.accepts = w.accepts /\ g.stale = w.stale
          /\ g.retrytimer = w.retrytimer /\ g.late = w.late
      BY <1>0, <1>1 DEF Handler
    <2> HIDE DEF g
    <2>2. Open(g)
      BY <1>0, <1>1, <1>3, <2>1 DEF HInv, Open, Online, Writing, Closed, Kinds
    <2>3. Opening(g)
      BY <1>0, <1>1, <1>3, <2>1 DEF HInv, Opening, Handler, HandlerKinds
    <2> QED
      BY <1>2, <1>3, <2>2, <2>3 DEF HInv, g
  <1>4. CASE ~h.channel
    <2>1. Open(w) /\ ~w.isShutdown
      BY <1>0, <1>1, <1>4 DEF HInv, Open, Online, Writing, Closed, Kinds
    <2> QED
      BY <1>2, <1>4, <2>1, BeginChannelAcceptInv DEF HInv
  <1> QED
    BY <1>3, <1>4

\* A handler with one session less
Without(h, g, s) ==
    /\ g.sessions \subseteq h.sessions /\ g.enabled = h.enabled \ {s}
    /\ g.online = h.online \ {s} /\ g.enabled \subseteq g.sessions
    /\ g.kind = h.kind /\ g.channel = h.channel
    /\ g.writing = h.writing /\ g.txQueue = h.txQueue /\ g.isShutdown = h.isShutdown
    /\ g.client = h.client
    /\ g.server = h.server /\ g.accepts = h.accepts /\ g.stale = h.stale
    /\ g.retrytimer = h.retrytimer /\ g.late = h.late

LEMMA WithoutInv ==
    ASSUME NEW h, HInv(h), NEW s, NEW g \in Handler, Without(h, g, s)
    PROVE  HInv(g)
  <1>1. Open(g)
    BY DEF HInv, Open, Online, Writing, Closed, Kinds, Without
  <1>2. Opening(g)
    BY DEF HInv, Open, Opening, Without, Handler, HandlerKinds
  <1> QED
    BY <1>1, <1>2 DEF HInv

LEMMA DisableInv ==
    ASSUME NEW h, HInv(h), NEW s \in h.enabled
    PROVE  HInv(Disable(h, s))
  <1> DEFINE d == [h EXCEPT !.enabled = @ \ {s}, !.online = @ \ {s}]
  <1>0. h \in Handler
    BY DEF HInv, Open
  <1>1. d \in Handler
    BY <1>0 DEF Handler
  <1>2. Without(h, d, s)
    BY <1>0 DEF Handler, Without, HInv, Open
  <1>3. Disable(h, s) = IF d.enabled = {} THEN SuspendChannelAccept(Reset(d)) ELSE d
    BY DEF Disable
  <1> HIDE DEF d
  <1>4. HInv(d)
    BY <1>1, <1>2, WithoutInv
  <1>5. CASE d.enabled = {}
    <2>1. Open(Reset(d)) /\ Reset(d).enabled = {} /\ ~Reset(d).channel
      BY <1>1, <1>4, <1>5, OpenReset, ResetEffect DEF HInv
    <2> QED
      BY <1>3, <1>5, <2>1, SuspendInv
  <1> QED
    BY <1>3, <1>4, <1>5

LEMMA RemoveInv ==
    ASSUME NEW h, HInv(h), NEW s \in h.sessions
    PROVE  HInv(Remove(h, s))
  <1> DEFINE d == [h EXCEPT !.sessions = @ \ {s}, !.enabled = @ \ {s}, !.online = @ \ {s}]
  <1>0. h \in Handler
    BY DEF HInv, Open
  <1>1. d \in Handler
    BY <1>0 DEF Handler
  <1>2. Without(h, d, s)
    BY <1>0 DEF Handler, Without, HInv, Open
  <1>3. Remove(h, s) = IF d.enabled = {} THEN SuspendChannelAccept(d) ELSE d
    BY DEF Remove
  <1> HIDE DEF d
  <1>4. HInv(d)
    BY <1>1, <1>2, WithoutInv
  <1>5. CASE d.enabled = {}
    BY <1>3, <1>4, <1>5, SuspendInv DEF HInv
  <1> QED
    BY <1>3, <1>4, <1>5

LEMMA ShutdownInv ==
    ASSUME NEW h, HInv(h)
    PROVE  HInv(Shutdown(h))
  <1> DEFINE c == SuspendChannelAccept(Reset(h))
             g == [c EXCEPT !.isShutdown = TRUE, !.sessions = {}, !.enabled = {}]
  <1>1. Open(Reset(h)) /\ ~Reset(h).channel /\ Reset(h).online = {} /\ Reset(h).txQueue = <<>>
    BY OpenReset, ResetEffect DEF HInv, Open
  <1>2. /\ Open(c) /\ ~c.channel /\ c.online = {} /\ c.txQueue = <<>>
        /\ c.client = "none" /\ c.server = "none"
    BY <1>1, SuspendEffect DEF SameSessions
  <1>3. g = Shutdown(h)
    BY DEF Shutdown
  <1> HIDE DEF c
  <1>4. c \in Handler /\ {} \in SUBSET Sessions
    BY <1>2 DEF Open
  <1>5. /\ g \in Handler /\ g.sessions = {} /\ g.enabled = {} /\ g.kind = c.kind
        /\ g.channel = c.channel /\ g.online = c.online /\ g.txQueue = c.txQueue
        /\ g.client = c.client
        /\ g.server = c.server /\ g.accepts = c.accepts /\ g.stale = c.stale
        /\ g.retrytimer = c.retrytimer /\ g.late = c.late
    BY <1>4 DEF Handler
  <1> HIDE DEF g
  <1>6. Open(g)
    BY <1>2, <1>5 DEF Open, Online, Writing, Closed, Kinds
  <1>7. Opening(g)
    BY <1>2, <1>5 DEF Opening, Handler, HandlerKinds
  <1> QED
    BY <1>3, <1>6, <1>7 DEF HInv

-----------------------------------------------------------------------------
(***************************************************************************)
(* The specification.                                                      *)
(***************************************************************************)

Inv == scenario \in Scenarios /\ HInv(io)

\* An operation of the handler decides what io becomes.
LEMMA BecomesEffect ==
    ASSUME NEW opens, NEW h, Becomes(opens, h)
    PROVE  io' = h /\ scenario' = scenario
  BY DEF Becomes, Keeps, Connects

\* A new handler satisfies the invariant.
LEMMA InitInv == Init => Inv
  <1> SUFFICES ASSUME Init PROVE Inv
    OBVIOUS
  <1>1. /\ scenario \in Scenarios /\ IsScenario(scenario)
        /\ io = InitialHandler(scenario.kind, scenario.closeExisting)
    BY ChannelAssumption DEF Init
  <1>2. scenario.kind \in HandlerKinds /\ scenario.closeExisting \in BOOLEAN
    BY <1>1 DEF IsScenario
  <1>3. {} \in SUBSET Sessions /\ <<>> \in Seq(Sessions)
    OBVIOUS
  <1>4. io \in Handler
    BY <1>1, <1>2, <1>3 DEF InitialHandler, Handler, TimerStates
  <1>5. Open(io)
    BY <1>1, <1>4 DEF InitialHandler, Open, Online, Writing, Closed, Kinds
  <1>6. Opening(io)
    BY <1>1, <1>2 DEF InitialHandler, Opening, HandlerKinds
  <1> QED
    BY <1>1, <1>5, <1>6 DEF Inv, HInv

\* Every action applies one operation to the handler, or leaves it alone.
LEMMA NextInv == Inv /\ [Next]_vars => Inv'
  <1> SUFFICES ASSUME Inv, [Next]_vars PROVE Inv'
    OBVIOUS
  <1>0. HInv(io) /\ io \in Handler
    BY DEF Inv, HInv, Open
  <1>q. ASSUME NEW h, HInv(h), io' = h, scenario' = scenario PROVE Inv'
    BY <1>q DEF Inv
  <1>1. ASSUME NEW s \in Sessions, AddSession(s) PROVE Inv'
    <2>1. \E opens : Becomes(opens, AddContext(io, s))
      BY <1>1 DEF AddSession
    <2>2. HInv(AddContext(io, s))
      BY <1>0, <1>1, AddContextInv DEF AddSession
    <2> QED
      BY <1>q, <2>1, <2>2, BecomesEffect
  <1>2. ASSUME NEW s \in Sessions, EnableSession(s) PROVE Inv'
    <2>1. PICK ok \in BOOLEAN : Becomes(~io.channel, Enable(io, s, ok))
      BY <1>2 DEF EnableSession
    <2>2. HInv(Enable(io, s, ok))
      BY <1>0, <1>2, EnableInv DEF EnableSession
    <2> QED
      BY <1>q, <2>1, <2>2, BecomesEffect
  <1>3. ASSUME NEW s \in Sessions, DisableSession(s) PROVE Inv'
    <2>1. \E opens : Becomes(opens, Disable(io, s))
      BY <1>3 DEF DisableSession
    <2>2. HInv(Disable(io, s))
      BY <1>0, <1>3, DisableInv DEF DisableSession
    <2> QED
      BY <1>q, <2>1, <2>2, BecomesEffect
  <1>4. ASSUME NEW s \in Sessions, RemoveSession(s) PROVE Inv'
    <2>1. \E opens : Becomes(opens, Remove(io, s))
      BY <1>4 DEF RemoveSession
    <2>2. HInv(Remove(io, s))
      BY <1>0, <1>4, RemoveInv DEF RemoveSession
    <2> QED
      BY <1>q, <2>1, <2>2, BecomesEffect
  <1>5. ASSUME NEW s \in Sessions, Transmit(s) PROVE Inv'
    <2>1. \E opens : Becomes(opens, BeginTransmit(io, s))
      BY <1>5 DEF Transmit
    <2>2. HInv(BeginTransmit(io, s))
      BY <1>0, <1>5, BeginTransmitInv DEF Transmit
    <2> QED
      BY <1>q, <2>1, <2>2, BecomesEffect
  <1>6. CASE ShutdownChannel
    <2>1. \E opens : Becomes(opens, Shutdown(io))
      BY <1>6 DEF ShutdownChannel
    <2>2. HInv(Shutdown(io))
      BY <1>0, <1>6, ShutdownInv DEF ShutdownChannel
    <2> QED
      BY <1>q, <2>1, <2>2, BecomesEffect
  <1>7. CASE WriteComplete
    <2>1. \E opens : Becomes(opens, OnWriteComplete(io))
      BY <1>7 DEF WriteComplete
    <2>2. HInv(OnWriteComplete(io))
      BY <1>0, <1>7, OnWriteCompleteInv DEF WriteComplete
    <2> QED
      BY <1>q, <2>1, <2>2, BecomesEffect
  <1>8. ASSUME NEW n \in 1..BufferSize, Read(n) PROVE Inv'
    BY <1>0, <1>8, <1>q DEF Read
  <1>9. CASE ChannelError
    <2>1. PICK ok \in BOOLEAN : Becomes(TRUE, OnChannelError(io, ok))
      BY <1>9 DEF ChannelError
    <2>2. HInv(OnChannelError(io, ok))
      BY <1>0, <1>9, OnChannelErrorInv DEF ChannelError
    <2> QED
      BY <1>q, <2>1, <2>2, BecomesEffect
  <1>10. ASSUME NEW ok \in BOOLEAN, ConnectResult(ok) PROVE Inv'
    <2> DEFINE h == [io EXCEPT !.client = "idle"]
    <2>1. io.kind = "client" /\ io.client = "connecting" /\ Becomes(ok /\ Admits(io), OnConnectResult(h, ok))
      BY <1>0, <1>10 DEF ConnectResult, HInv, Open, Kinds
    <2>2. /\ h \in Handler /\ SameSessions(io, h) /\ h.client = "idle"
          /\ h.server = io.server /\ h.accepts = io.accepts
      BY <1>0 DEF Handler, SameSessions
    <2> HIDE DEF h
    <2>3. Open(h) /\ h.kind = "client"
      BY <1>0, <2>1, <2>2 DEF HInv, Open, SameSessions, Online, Writing, Closed, Kinds
    <2>4. HInv(OnConnectResult(h, ok))
      BY <2>2, <2>3, OnConnectResultInv
    <2> QED
      BY <1>q, <2>1, <2>4, BecomesEffect
  <1>11. ASSUME NEW ok \in BOOLEAN, StaleConnectResult(ok) PROVE Inv'
    <2>0. io.stale \in Nat /\ io.stale > 0
      BY <1>0, <1>11 DEF StaleConnectResult, Handler
    <2>1. PICK n \in Nat : n = io.stale - 1
      BY <2>0
    <2> DEFINE h == [io EXCEPT !.stale = n]
    <2>2. \E opens : Becomes(opens, OnConnectResult(h, ok))
      BY <1>11, <2>1 DEF StaleConnectResult
    <2>3. /\ h \in Handler /\ SameSessions(io, h) /\ h.client = io.client
          /\ h.server = io.server /\ h.accepts = io.accepts /\ h.retrytimer = io.retrytimer
      BY <1>0 DEF Handler, SameSessions
    <2>4. io.kind = "client"
      BY <1>0, <2>0 DEF HInv, Open, Kinds
    <2> HIDE DEF h
    <2>5. Open(h) /\ h.kind = "client"
      BY <1>0, <2>3, <2>4 DEF HInv, Open, SameSessions, Online, Writing, Closed, Kinds
    <2>6. Opening(h)
      BY <1>0, <2>3, <2>4 DEF HInv, Opening, SameSessions
    <2>7. HInv(OnConnectResult(h, ok))
      BY <2>5, <2>6, OnConnectResultInv
    <2> QED
      BY <1>q, <2>2, <2>7, BecomesEffect
  <1>12. ASSUME NEW ok \in BOOLEAN, Retry(ok) PROVE Inv'
    <2>1. \E opens : Becomes(opens, OnRetry(io, ok))
      BY <1>12 DEF Retry
    <2>2. HInv(OnRetry(io, ok))
      BY <1>0, <1>12, OnRetryInv DEF Retry
    <2> QED
      BY <1>q, <2>1, <2>2, BecomesEffect
  <1>13. CASE Accept
    <2>1. \E opens : Becomes(opens, OnAccept(io))
      BY <1>13 DEF Accept
    <2>2. HInv(OnAccept(io))
      BY <1>0, <1>13, OnAcceptInv DEF Accept
    <2> QED
      BY <1>q, <2>1, <2>2, BecomesEffect
  <1>14. CASE RetryExpires
    <2> DEFINE h == [io EXCEPT !.retrytimer = "expired"]
    <2>1. /\ h \in Handler /\ SameSessions(io, h) /\ h.retrytimer # "none"
          /\ h.client = io.client
          /\ h.server = io.server /\ h.accepts = io.accepts /\ h.stale = io.stale
          /\ io.retrytimer # "none"
      BY <1>0, <1>14 DEF RetryExpires, Handler, TimerStates, SameSessions
    <2>2. Becomes(FALSE, h)
      BY <1>14 DEF RetryExpires
    <2> HIDE DEF h
    <2>3. Open(h)
      BY <1>0, <2>1 DEF HInv, Open, SameSessions, Online, Writing, Closed, Kinds
    <2>4. Opening(h)
      BY <1>0, <2>1 DEF HInv, Open, Opening, SameSessions, Handler, HandlerKinds
    <2> QED
      BY <1>q, <2>2, <2>3, <2>4, BecomesEffect DEF HInv
  <1>15. CASE AcceptError
    <2>1. \E opens : Becomes(opens, OnAcceptError(io))
      BY <1>15 DEF AcceptError
    <2>2. HInv(OnAcceptError(io))
      BY <1>0, <1>15, OnAcceptErrorInv DEF AcceptError
    <2> QED
      BY <1>q, <2>1, <2>2, BecomesEffect
  <1>16. CASE UNCHANGED vars
    BY <1>0, <1>16, <1>q DEF vars
  <1> QED
    BY <1>1, <1>2, <1>3, <1>4, <1>5, <1>6, <1>7, <1>8, <1>9, <1>10, <1>11, <1>12, <1>13,
       <1>14, <1>15, <1>16 DEF Next

\* The invariant is an invariant of the channel.
LEMMA ChannelInv == Spec => []Inv
  BY InitInv, NextInv, PTL DEF Spec

\* The sessions that IOHandler has told that the layer below is up are the enabled ones
\* of an open channel, for any number of sessions that share it.
THEOREM OnlineTheorem == Spec => []OnlineMeansOpen
  <1>1. Inv => OnlineMeansOpen
    BY DEF Inv, HInv, Open, Online, OnlineMeansOpen
  <1> QED
    BY <1>1, ChannelInv, PTL

\* What IOHandler has queued is being written or follows what is, however long the
\* queue.
THEOREM TransmissionsTheorem == Spec => []TransmissionsProgress
  <1>1. Inv => TransmissionsProgress
    BY DEF Inv, HInv, Open, Writing, TransmissionsProgress
  <1> QED
    BY <1>1, ChannelInv, PTL

\* A handler without the connection that a session wants has an attempt, a retry or an
\* accept under way, however many attempts were replaced and whichever callbacks come
\* late; but for a server that could not listen, one whose every accept has failed, and
\* one that was closed with a session that was removed while the connection was kept.
THEOREM OpeningTheorem == Spec => []SomethingOpens
  <1>1. Inv => SomethingOpens
    <2> SUFFICES ASSUME Inv, io.enabled # {}, ~io.channel, Recovers
                 PROVE  \/ io.client = "connecting"
                        \/ io.retrytimer # "none"
                        \/ io.accepts > 0
      BY DEF SomethingOpens
    <2> QED
      BY DEF Inv, HInv, Open, Opening, Kinds, Recovers, Handler, HandlerKinds
  <1> QED
    BY <1>1, ChannelInv, PTL

\* After DNP3Channel's shutdown no callback of a client or of a server opens a
\* connection.
THEOREM ClosedTheorem == Spec => []ClosedForGood
  <1>1. Inv => ClosedForGood
    BY DEF Inv, HInv, Open, Closed, ClosedForGood
  <1> QED
    BY <1>1, ChannelInv, PTL

-----------------------------------------------------------------------------
(***************************************************************************)
(* Induction.                                                              *)
(***************************************************************************)

\* A set of natural numbers that is not empty has a least member.
LEMMA Least ==
    ASSUME NEW T, T \subseteq Nat, T # {}
    PROVE  \E m \in T : \A k \in T : m <= k
  <1> DEFINE R == OpToRel(<, Nat)
  <1>1. IsWellFoundedOn(R, Nat)
    BY NatLessThanWellFounded
  <1>2. \A i \in Nat, j \in Nat : <<i, j>> \in R <=> i < j
    BY DEF OpToRel
  <1> HIDE DEF R
  <1>3. PICK m \in T : \A k \in T : ~(<<k, m>> \in R)
    BY <1>1, WFMin
  <1>4. ASSUME NEW k \in T
        PROVE  m <= k
    <2>1. ~(<<k, m>> \in R) /\ k \in Nat /\ m \in Nat
      BY <1>3
    <2>2. ~(k < m)
      BY <1>2, <2>1, Zenon
    <2> QED
      BY <2>1, <2>2
  <1> QED
    BY <1>4

\* Induction, as a fact about the set of numbers for which a claim holds.
LEMMA Induction ==
    ASSUME NEW T, 0 \in T, \A n \in Nat : n \in T => n + 1 \in T
    PROVE  \A n \in Nat : n \in T
  <1> DEFINE U == Nat \ T
  <1>1. SUFFICES ASSUME U # {} PROVE FALSE
    OBVIOUS
  <1>2. PICK m \in U : \A k \in U : m <= k
    BY <1>1, Least
  <1>3. m # 0 /\ m - 1 \in Nat /\ m - 1 \in T
    BY <1>2
  <1> QED
    BY <1>2, <1>3

-----------------------------------------------------------------------------
(***************************************************************************)
(* Sequences of any kind.                                                  *)
(***************************************************************************)

\* A sequence is a function on the numbers up to its length.
LEMMA SequenceFacts ==
    ASSUME NEW s, IsSequence(s)
    PROVE  /\ Len(s) \in Nat /\ DOMAIN s = 1..Len(s)
           /\ s = [i \in 1..Len(s) |-> s[i]]
  BY LenProperties DEF IsSequence

\* A sequence over some set is a sequence over its own members.
LEMMA MakesSequence ==
    ASSUME NEW S, NEW s, s \in Seq(S)
    PROVE  IsSequence(s)
  <1> DEFINE T == {s[i] : i \in DOMAIN s}
  <1>1. s \in [1..Len(s) -> S] /\ Len(s) \in Nat /\ DOMAIN s = 1..Len(s)
    BY LenProperties
  <1>2. s \in [1..Len(s) -> T]
    BY <1>1
  <1> HIDE DEF T
  <1>3. s \in Seq(T)
    BY <1>1, <1>2, SeqDef
  <1> QED
    BY <1>3 DEF IsSequence, T

\* A function on the numbers up to n is a sequence of length n.
LEMMA FunctionSequence ==
    ASSUME NEW s, NEW n \in Nat, s = [i \in 1..n |-> s[i]]
    PROVE  IsSequence(s) /\ Len(s) = n
  <1> DEFINE T == {s[i] : i \in DOMAIN s}
  <1>1. s \in [1..n -> T]
    OBVIOUS
  <1> HIDE DEF T
  <1>2. s \in Seq(T)
    BY <1>1, SeqDef
  <1>3. DOMAIN s = 1..Len(s) /\ Len(s) \in Nat
    BY <1>2, LenProperties
  <1>4. 1..n = 1..Len(s)
    BY <1>1, <1>3
  <1>5. n = Len(s)
    BY <1>3, <1>4
  <1> QED
    BY <1>2, <1>5 DEF IsSequence, T

\* A part of a sequence: its length and its members.
LEMMA Part ==
    ASSUME NEW s, NEW m \in Int, NEW n \in Int
    PROVE  /\ IsSequence(SubSeq(s, m, n))
           /\ Len(SubSeq(s, m, n)) = IF m <= n THEN n - m + 1 ELSE 0
           /\ \A i \in 1..(n - m + 1) : SubSeq(s, m, n)[i] = s[m + i - 1]
  <1> DEFINE S == {s[i] : i \in m..n}
  <1>1. \A i \in m..n : s[i] \in S
    OBVIOUS
  <1> HIDE DEF S
  <1>2. /\ SubSeq(s, m, n) \in Seq(S)
        /\ Len(SubSeq(s, m, n)) = IF m <= n THEN n - m + 1 ELSE 0
        /\ \A i \in 1..(n - m + 1) : SubSeq(s, m, n)[i] = s[m + i - 1]
    BY <1>1, SubSeqProperties
  <1> QED
    BY <1>2, MakesSequence, Zenon

\* Sequences with the same members are equal.
LEMMA SameSequence ==
    ASSUME NEW s, IsSequence(s), NEW t, IsSequence(t), Len(s) = Len(t),
           \A i \in 1..Len(s) : s[i] = t[i]
    PROVE  s = t
  BY SequenceFacts

\* Parts of two sequences that agree there are equal.
LEMMA SamePart ==
    ASSUME NEW s, NEW t, NEW m \in Int, NEW n \in Int, NEW d \in Int,
           \A i \in m..n : s[i] = t[d + i]
    PROVE  SubSeq(s, m, n) = SubSeq(t, d + m, d + n)
  <1> DEFINE u == SubSeq(s, m, n)
             v == SubSeq(t, d + m, d + n)
  <1>1. /\ IsSequence(u) /\ Len(u) = (IF m <= n THEN n - m + 1 ELSE 0)
        /\ \A i \in 1..(n - m + 1) : u[i] = s[m + i - 1]
    BY Part
  <1>2. /\ IsSequence(v) /\ Len(v) = (IF m <= n THEN n - m + 1 ELSE 0)
        /\ \A i \in 1..(n - m + 1) : v[i] = t[d + m + i - 1]
    <2>1. d + m \in Int /\ d + n \in Int /\ (d + n) - (d + m) + 1 = n - m + 1
          /\ (d + m <= d + n <=> m <= n)
      OBVIOUS
    <2> QED
      BY <2>1, Part
  <1> HIDE DEF u, v
  <1>3. \A i \in 1..Len(u) : u[i] = v[i]
    <2> SUFFICES ASSUME NEW i \in 1..Len(u) PROVE u[i] = v[i]
      OBVIOUS
    <2>1. m <= n /\ i \in 1..(n - m + 1) /\ m + i - 1 \in m..n
      BY <1>1
    <2>2. s[m + i - 1] = t[d + (m + i - 1)]
      BY <2>1
    <2> QED
      BY <1>1, <1>2, <2>1, <2>2
  <1>4. u = v
    BY <1>1, <1>2, <1>3, SameSequence
  <1> QED
    BY <1>4 DEF u, v

-----------------------------------------------------------------------------
(***************************************************************************)
(* The sizes of frames.                                                    *)
(***************************************************************************)

\* CalcUserDataSize, with the blocks counted by a quotient and a remainder.
LEMMA UserDataSize ==
    ASSUME NEW len \in Nat
    PROVE  \E q \in Nat, r \in 0..(BlockSize - 1) :
             /\ len = BlockSize * q + r
             /\ CalcUserDataSize(len) = q * (BlockSize + 1) + (IF r > 0 THEN r + 1 ELSE 0)
  <1> DEFINE q == len \div BlockSize
             r == len % BlockSize
  <1>0. BlockSize \in Nat /\ BlockSize > 0
    BY FramingAssumption
  <1>1. q \in Nat /\ r \in 0..(BlockSize - 1) /\ len = BlockSize * q + r
    BY <1>0
  <1>2. CalcUserDataSize(len) = IF r > 0 THEN q * (BlockSize + 1) + r + 1 ELSE q * (BlockSize + 1)
    BY DEF CalcUserDataSize
  <1> HIDE DEF q, r
  <1>3. q * (BlockSize + 1) \in Nat
    BY <1>0, <1>1
  <1>4. CalcUserDataSize(len) = q * (BlockSize + 1) + (IF r > 0 THEN r + 1 ELSE 0)
    <2> DEFINE z == q * (BlockSize + 1)
    <2>1. z \in Nat /\ r \in Nat
      BY <1>0, <1>1, <1>3
    <2> HIDE DEF z
    <2>2. CalcUserDataSize(len) = IF r > 0 THEN z + r + 1 ELSE z
      BY <1>2 DEF z
    <2>3. CalcUserDataSize(len) = z + (IF r > 0 THEN r + 1 ELSE 0)
      BY <2>1, <2>2
    <2> QED
      BY <2>3 DEF z
  <1> QED
    BY <1>1, <1>4

\* CRCs add to user data, and less user data takes no more room.
LEMMA SmallerSize ==
    ASSUME NEW len \in Nat, NEW max \in Nat, len <= max
    PROVE  /\ CalcUserDataSize(len) \in Nat /\ len <= CalcUserDataSize(len)
           /\ CalcUserDataSize(len) <= CalcUserDataSize(max)
  <1>0. BlockSize \in Nat /\ BlockSize > 0
    BY FramingAssumption
  <1>1. PICK q \in Nat, r \in 0..(BlockSize - 1) :
             /\ len = BlockSize * q + r
             /\ CalcUserDataSize(len) = q * (BlockSize + 1) + (IF r > 0 THEN r + 1 ELSE 0)
    BY UserDataSize
  <1>2. PICK u \in Nat, v \in 0..(BlockSize - 1) :
             /\ max = BlockSize * u + v
             /\ CalcUserDataSize(max) = u * (BlockSize + 1) + (IF v > 0 THEN v + 1 ELSE 0)
    BY UserDataSize
  <1> DEFINE x == BlockSize * q
             y == BlockSize * u
  <1>3. x \in Nat /\ y \in Nat /\ q * (BlockSize + 1) = x + q /\ u * (BlockSize + 1) = y + u
    BY <1>0
  <1>4. q <= u
    <2> SUFFICES ASSUME u + 1 <= q PROVE FALSE
      OBVIOUS
    <2>1. BlockSize * (u + 1) <= x
      BY <1>0
    <2>2. BlockSize * (u + 1) = y + BlockSize
      BY <1>0
    <2> HIDE DEF x, y
    <2> QED
      BY <1>0, <1>1, <1>2, <1>3, <2>1, <2>2 DEF x, y
  <1>5. q < u => x + BlockSize <= y
    <2> SUFFICES ASSUME q + 1 <= u PROVE x + BlockSize <= y
      OBVIOUS
    <2>1. BlockSize * (q + 1) <= y
      BY <1>0
    <2>2. BlockSize * (q + 1) = x + BlockSize
      BY <1>0
    <2> QED
      BY <2>1, <2>2
  <1>6. len = x + r /\ max = y + v
    BY <1>1, <1>2
  <1>7. /\ CalcUserDataSize(len) = x + q + (IF r > 0 THEN r + 1 ELSE 0)
        /\ CalcUserDataSize(max) = y + u + (IF v > 0 THEN v + 1 ELSE 0)
    BY <1>1, <1>2, <1>3
  <1>8. q = u => x = y
    OBVIOUS
  <1> HIDE DEF x, y
  <1> QED
    BY <1>0, <1>3, <1>4, <1>5, <1>6, <1>7, <1>8

\* A frame that LinkHeader can describe fits into the parser's buffer.
LEMMA FrameSizes ==
    ASSUME NEW len \in 0..MaxUserData
    PROVE  /\ CalcFrameSize(len) \in Nat /\ HeaderSize + len <= CalcFrameSize(len)
           /\ CalcFrameSize(len) <= BufferSize
  <1>1. MaxUserData \in Nat /\ len \in Nat /\ len <= MaxUserData
    BY FramingAssumption
  <1> QED
    BY <1>1, SmallerSize DEF CalcFrameSize, BufferSize, HeaderSize

\* The buffer is larger than a header.
LEMMA BufferHasRoom == BufferSize \in Nat /\ BufferSize > HeaderSize
  <1>1. MaxUserData \in Nat /\ MaxUserData > 0
    BY FramingAssumption
  <1>2. MaxUserData \in 0..MaxUserData
    BY <1>1
  <1> QED
    BY <1>1, <1>2, FrameSizes DEF BufferSize, HeaderSize

-----------------------------------------------------------------------------
(***************************************************************************)
(* The frames in a stream, from each of its bytes on.                      *)
(***************************************************************************)

\* A header that the parser accepts gives its frame a size that fits into the buffer.
LEMMA HeaderSizes ==
    ASSUME NEW b, NEW i \in Nat, HeaderAt(b, i)
    PROVE  /\ b[i + 2].len \in 0..MaxUserData /\ SizeAt(b, i) \in Nat
           /\ HeaderSize + b[i + 2].len <= SizeAt(b, i) /\ SizeAt(b, i) <= BufferSize
  <1> DEFINE h == SubSeq(b, i, i + HeaderSize - 1)
  <1>1. HeaderSize = 4 /\ i + HeaderSize - 1 \in Int /\ i \in Int
    BY DEF HeaderSize
  <1>2. \A j \in 1..(i + HeaderSize - 1 - i + 1) : h[j] = b[i + j - 1]
    BY <1>1, Part
  <1>3. h[3] = b[i + 2]
    BY <1>1, <1>2
  <1> HIDE DEF h
  <1>4. ReadHeader(h)
    BY DEF HeaderAt, h
  <1>5. b[i + 2].len \in 0..MaxUserData
    BY <1>3, <1>4 DEF ReadHeader, ValidateHeaderParameters
  <1> QED
    BY <1>5, FrameSizes DEF SizeAt

\* What FramesFrom makes of byte i, when g has what follows.
NextFrom(b, g, i) ==
    IF i > Len(b) THEN <<>>
    ELSE IF ~HeaderAt(b, i) THEN g[i + 1]
    ELSE IF i + SizeAt(b, i) - 1 > Len(b) THEN <<>>
    ELSE IF ValidateBodyCRC(BodyAt(b, i)) THEN <<FrameAt(b, i)>> \o g[i + SizeAt(b, i)]
    ELSE g[i + 1]

IsFrom(b, g) == g = [i \in 1..(Len(b) + 1) |-> NextFrom(b, g, i)]

\* What is found at a byte depends on what follows only.
LEMMA NextFromSame ==
    ASSUME NEW b, Len(b) \in Nat, NEW i \in 1..(Len(b) + 1), NEW g, NEW h,
           \A x \in (i + 1)..(Len(b) + 1) : g[x] = h[x]
    PROVE  NextFrom(b, g, i) = NextFrom(b, h, i)
  <1>1. i <= Len(b) => g[i + 1] = h[i + 1]
    OBVIOUS
  <1>2. ASSUME HeaderAt(b, i), i + SizeAt(b, i) - 1 <= Len(b)
        PROVE  g[i + SizeAt(b, i)] = h[i + SizeAt(b, i)]
    <2>1. SizeAt(b, i) \in Nat /\ SizeAt(b, i) > 0
      BY <1>2, HeaderSizes DEF HeaderSize
    <2> QED
      BY <1>2, <2>1
  <1> DEFINE z == SizeAt(b, i)
  <1>3. HeaderAt(b, i) => z \in Nat
    BY HeaderSizes
  <1>4. CASE i <= Len(b) /\ HeaderAt(b, i) /\ i + z - 1 <= Len(b)
    BY <1>1, <1>2, <1>3, <1>4 DEF NextFrom
  <1>5. CASE ~(i <= Len(b) /\ HeaderAt(b, i) /\ i + z - 1 <= Len(b))
    BY <1>1, <1>3, <1>5 DEF NextFrom
  <1> QED
    BY <1>4, <1>5

\* The recursion of FramesFrom has a solution.
LEMMA FromExists ==
    ASSUME NEW b, Len(b) \in Nat
    PROVE  \E g : IsFrom(b, g)
  <1> DEFINE n == Len(b) + 1
             Good(g, d) == /\ g = [i \in 1..n |-> g[i]]
                           /\ \A i \in 1..n : i + d > n => g[i] = NextFrom(b, g, i)
             T == {d \in Nat : d <= n => \E g : Good(g, d)}
  <1>0. n \in Nat /\ n > 0
    OBVIOUS
  <1> HIDE DEF n
  <1>1. 0 \in T
    <2> DEFINE g == [i \in 1..n |-> <<>>]
    <2>1. Good(g, 0)
      BY <1>0
    <2> QED
      BY <2>1
  <1>2. ASSUME NEW d \in Nat, d \in T
        PROVE  d + 1 \in T
    <2> SUFFICES ASSUME d + 1 <= n PROVE \E g : Good(g, d + 1)
      OBVIOUS
    <2>1. PICK g : Good(g, d)
      BY <1>0, <1>2
    <2> DEFINE j == n - d
               v == NextFrom(b, g, j)
               h == [i \in 1..n |-> IF i = j THEN v ELSE g[i]]
    <2>2. j \in 1..n
      BY <1>0
    <2>3. ASSUME NEW i \in 1..n, i >= j
          PROVE  NextFrom(b, h, i) = NextFrom(b, g, i)
      <3>1. \A x \in (i + 1)..n : h[x] = g[x]
        BY <2>2, <2>3
      <3> HIDE DEF h, j
      <3> QED
        BY <3>1, NextFromSame DEF n
    <2>4. ASSUME NEW i \in 1..n, i + (d + 1) > n
          PROVE  h[i] = NextFrom(b, h, i)
      <3>1. i >= j
        BY <1>0, <2>4
      <3>2. NextFrom(b, h, i) = NextFrom(b, g, i)
        BY <2>3, <3>1
      <3>3. CASE i = j
        BY <3>2, <3>3
      <3>4. CASE i # j
        <4>1. i + d > n
          BY <1>0, <2>2, <3>1, <3>4
        <4>2. g[i] = NextFrom(b, g, i)
          BY <2>1, <4>1
        <4> QED
          BY <3>2, <3>4, <4>2
      <3> QED
        BY <3>3, <3>4
    <2>5. h = [i \in 1..n |-> h[i]]
      OBVIOUS
    <2> HIDE DEF h
    <2>6. Good(h, d + 1)
      BY <2>4, <2>5
    <2> QED
      BY <2>6
  <1>3. n \in T
    <2> HIDE DEF T
    <2> QED
      BY <1>0, <1>1, <1>2, Induction
  <1>4. PICK g : Good(g, n)
    BY <1>0, <1>3
  <1>5. \A i \in 1..n : g[i] = NextFrom(b, g, i)
    BY <1>0, <1>4
  <1>6. g = [i \in 1..n |-> NextFrom(b, g, i)]
    BY <1>4, <1>5
  <1> QED
    BY <1>6 DEF IsFrom, n

\* FramesFrom satisfies its equation.
LEMMA FromDefined ==
    ASSUME NEW b, Len(b) \in Nat
    PROVE  IsFrom(b, FramesFrom(b))
  <1> DEFINE h == CHOOSE g : IsFrom(b, g)
  <1>1. FramesFrom(b) = h
    BY DEF FramesFrom, IsFrom, NextFrom
  <1>2. IsFrom(b, h)
    BY FromExists
  <1> QED
    BY <1>1, <1>2

-----------------------------------------------------------------------------
(***************************************************************************)
(* The frames in the first m bytes of y.                                   *)
(***************************************************************************)

Prefix(y, m) == SubSeq(y, 1, m)

FramesOf(y) == {FrameAt(y, i) : i \in Nat}

\* The first bytes of a stream and their parts are the stream's.
LEMMA PrefixBytes ==
    ASSUME NEW y, NEW m \in Nat
    PROVE  /\ IsSequence(Prefix(y, m)) /\ Len(Prefix(y, m)) = m
           /\ \A i \in 1..m : Prefix(y, m)[i] = y[i]
           /\ \A i \in Nat \ {0}, j \in 0..m : SubSeq(Prefix(y, m), i, j) = SubSeq(y, i, j)
  <1> DEFINE b == Prefix(y, m)
  <1>1. /\ IsSequence(b) /\ Len(b) = IF 1 <= m THEN m - 1 + 1 ELSE 0
        /\ \A i \in 1..(m - 1 + 1) : b[i] = y[1 + i - 1]
    <2>1. 1 \in Int /\ m \in Int
      OBVIOUS
    <2> QED
      BY <2>1, Part DEF Prefix
  <1>2. Len(b) = m /\ \A i \in 1..m : b[i] = y[i]
    BY <1>1
  <1> HIDE DEF b
  <1>3. ASSUME NEW i \in Nat \ {0}, NEW j \in 0..m
        PROVE  SubSeq(b, i, j) = SubSeq(y, i, j)
    <2>1. \A x \in i..j : b[x] = y[0 + x]
      BY <1>2
    <2>2. SubSeq(b, i, j) = SubSeq(y, 0 + i, 0 + j)
      BY <2>1, SamePart
    <2> QED
      BY <2>2
  <1> QED
    BY <1>1, <1>2, <1>3 DEF b

\* A header, its size, its body and its frame are the same in the first m bytes as in the
\* whole, when they are all there.
LEMMA PrefixHeader ==
    ASSUME NEW y, IsSequence(y), NEW m \in 0..Len(y), NEW i \in 1..m
    PROVE  /\ HeaderAt(Prefix(y, m), i) <=> i + 3 <= m /\ HeaderAt(y, i)
           /\ HeaderAt(Prefix(y, m), i) => SizeAt(Prefix(y, m), i) = SizeAt(y, i)
           /\ HeaderAt(Prefix(y, m), i) /\ i + SizeAt(y, i) - 1 <= m =>
                /\ BodyAt(Prefix(y, m), i) = BodyAt(y, i)
                /\ FrameAt(Prefix(y, m), i) = FrameAt(y, i)
  <1> DEFINE b == Prefix(y, m)
  <1>0. Len(y) \in Nat /\ m \in Nat /\ m <= Len(y)
    BY SequenceFacts
  <1>1. /\ Len(b) = m /\ \A x \in 1..m : b[x] = y[x]
        /\ \A x \in Nat \ {0}, j \in 0..m : SubSeq(b, x, j) = SubSeq(y, x, j)
    BY <1>0, PrefixBytes
  <1> HIDE DEF b
  <1>2. i + HeaderSize - 1 = i + 3 /\ i + HeaderSize = i + 4
    BY DEF HeaderSize
  <1>3. HeaderAt(b, i) <=> i + 3 <= m /\ HeaderAt(y, i)
    <2>1. CASE i + 3 <= m
      <3>1. SubSeq(b, i, i + 1) = SubSeq(y, i, i + 1) /\ SubSeq(b, i, i + 3) = SubSeq(y, i, i + 3)
        BY <1>0, <1>1, <2>1
      <3>2. i + 3 <= Len(y)
        BY <1>0, <2>1
      <3> QED
        BY <1>1, <1>2, <2>1, <3>1, <3>2 DEF HeaderAt
    <2>2. CASE ~(i + 3 <= m)
      BY <1>1, <1>2, <2>2 DEF HeaderAt
    <2> QED
      BY <2>1, <2>2
  <1>4. HeaderAt(b, i) => b[i + 2] = y[i + 2]
    BY <1>0, <1>1, <1>3
  <1>5. HeaderAt(b, i) => SizeAt(b, i) = SizeAt(y, i)
    BY <1>4 DEF SizeAt
  <1>6. ASSUME HeaderAt(b, i), i + SizeAt(y, i) - 1 <= m
        PROVE  BodyAt(b, i) = BodyAt(y, i) /\ FrameAt(b, i) = FrameAt(y, i)
    <2>0. HeaderAt(y, i)
      BY <1>3, <1>6
    <2>1. SizeAt(y, i) \in Nat /\ SizeAt(y, i) >= 4
      BY <2>0, HeaderSizes DEF HeaderSize
    <2>2. i + SizeAt(y, i) - 1 \in 0..m /\ i + 4 \in Nat \ {0}
      BY <1>0, <1>6, <2>1
    <2>3. SubSeq(b, i + 4, i + SizeAt(y, i) - 1) = SubSeq(y, i + 4, i + SizeAt(y, i) - 1)
      BY <1>1, <2>2
    <2>4. BodyAt(b, i) = BodyAt(y, i)
      BY <1>2, <1>5, <1>6, <2>3 DEF BodyAt
    <2> QED
      BY <1>4, <1>6, <2>4 DEF FrameAt
  <1> QED
    BY <1>3, <1>5, <1>6 DEF b

\* What is found from byte i on, in terms of the whole stream.
LEMMA FromHere ==
    ASSUME NEW y, IsSequence(y), NEW m \in 0..Len(y), NEW i \in 1..(m + 1)
    PROVE  LET f == FramesFrom(Prefix(y, m)) IN
           /\ i > m => f[i] = <<>>
           /\ i <= m /\ ~(i + 3 <= m /\ HeaderAt(y, i)) => f[i] = f[i + 1]
           /\ i + 3 <= m /\ HeaderAt(y, i) =>
                IF i + SizeAt(y, i) - 1 > m THEN f[i] = <<>>
                ELSE IF ValidateBodyCRC(BodyAt(y, i))
                THEN f[i] = <<FrameAt(y, i)>> \o f[i + SizeAt(y, i)]
                ELSE f[i] = f[i + 1]
  <1> DEFINE b == Prefix(y, m)
             f == FramesFrom(b)
  <1>0. Len(y) \in Nat /\ m \in Nat /\ m <= Len(y)
    BY SequenceFacts
  <1>1. Len(b) = m
    BY <1>0, PrefixBytes
  <1>2. IsFrom(b, f)
    BY <1>0, <1>1, FromDefined
  <1> HIDE DEF f
  <1>3. f[i] = NextFrom(b, f, i)
    BY <1>1, <1>2 DEF IsFrom
  <1> HIDE DEF b
  <1>4. i > m => f[i] = <<>>
    BY <1>1, <1>3 DEF NextFrom
  <1>5. i <= m => /\ HeaderAt(b, i) <=> i + 3 <= m /\ HeaderAt(y, i)
                  /\ HeaderAt(b, i) => SizeAt(b, i) = SizeAt(y, i)
                  /\ HeaderAt(b, i) /\ i + SizeAt(y, i) - 1 <= m =>
                       BodyAt(b, i) = BodyAt(y, i) /\ FrameAt(b, i) = FrameAt(y, i)
    BY <1>0, PrefixHeader DEF b
  <1>6. i <= m /\ ~(i + 3 <= m /\ HeaderAt(y, i)) => f[i] = f[i + 1]
    BY <1>0, <1>1, <1>3, <1>5 DEF NextFrom
  <1>7. ASSUME i + 3 <= m, HeaderAt(y, i)
        PROVE  IF i + SizeAt(y, i) - 1 > m THEN f[i] = <<>>
               ELSE IF ValidateBodyCRC(BodyAt(y, i))
               THEN f[i] = <<FrameAt(y, i)>> \o f[i + SizeAt(y, i)]
               ELSE f[i] = f[i + 1]
    <2>1. SizeAt(y, i) \in Nat /\ i <= m
      BY <1>0, <1>7, HeaderSizes
    <2>2. HeaderAt(b, i) /\ SizeAt(b, i) = SizeAt(y, i)
      BY <1>5, <1>7, <2>1
    <2>3. CASE i + SizeAt(y, i) - 1 > m
      BY <1>0, <1>1, <1>3, <2>1, <2>2, <2>3 DEF NextFrom
    <2>4. CASE ~(i + SizeAt(y, i) - 1 > m)
      <3>1. BodyAt(b, i) = BodyAt(y, i) /\ FrameAt(b, i) = FrameAt(y, i)
        BY <1>0, <1>5, <2>1, <2>2, <2>4
      <3> QED
        BY <1>0, <1>1, <1>3, <2>1, <2>2, <2>4, <3>1 DEF NextFrom
    <2> QED
      BY <2>3, <2>4
  <1> QED
    BY <1>4, <1>6, <1>7 DEF f, b

\* What is found are frames of the stream.
LEMMA FromType ==
    ASSUME NEW y, IsSequence(y), NEW m \in 0..Len(y), NEW i \in 1..(m + 1)
    PROVE  FramesFrom(Prefix(y, m))[i] \in Seq(FramesOf(y))
  <1> DEFINE f == FramesFrom(Prefix(y, m))
             S == Seq(FramesOf(y))
             T == {d \in Nat : \A x \in 1..(m + 1) : x + d > m => f[x] \in S}
  <1>0. Len(y) \in Nat /\ m \in Nat /\ m <= Len(y)
    BY SequenceFacts
  <1>1. <<>> \in S
    OBVIOUS
  <1>2. 0 \in T
    <2> SUFFICES ASSUME NEW x \in 1..(m + 1), x + 0 > m PROVE f[x] \in S
      OBVIOUS
    <2>1. x > m
      BY <1>0
    <2>2. f[x] = <<>>
      BY <2>1, FromHere
    <2> HIDE DEF f
    <2> QED
      BY <1>1, <2>2
  <1>3. ASSUME NEW d \in Nat, d \in T
        PROVE  d + 1 \in T
    <2> SUFFICES ASSUME NEW x \in 1..(m + 1), x + (d + 1) > m PROVE f[x] \in S
      OBVIOUS
    <2>1. \A z \in 1..(m + 1) : z + d > m => f[z] \in S
      BY <1>3
    <2> HIDE DEF f, T
    <2>2. x <= m => f[x + 1] \in S
      BY <1>0, <2>1
    <2>3. CASE x > m
      BY <1>0, <1>1, <2>3, FromHere DEF f
    <2>4. CASE x <= m /\ ~(x + 3 <= m /\ HeaderAt(y, x))
      BY <1>0, <2>2, <2>4, FromHere DEF f
    <2>5. CASE x + 3 <= m /\ HeaderAt(y, x)
      <3> DEFINE z == SizeAt(y, x)
      <3>1. z \in Nat /\ z >= 4
        BY <2>5, HeaderSizes DEF HeaderSize
      <3>2. IF x + z - 1 > m THEN f[x] = <<>>
            ELSE IF ValidateBodyCRC(BodyAt(y, x)) THEN f[x] = <<FrameAt(y, x)>> \o f[x + z]
            ELSE f[x] = f[x + 1]
        BY <2>5, FromHere DEF f
      <3> HIDE DEF z
      <3>3. x + z - 1 <= m => f[x + z] \in S
        BY <1>0, <2>1, <3>1
      <3>4. <<FrameAt(y, x)>> \in S
        <4>1. FrameAt(y, x) \in FramesOf(y)
          BY DEF FramesOf
        <4> QED
          BY <4>1
      <3>5. x + z - 1 <= m => <<FrameAt(y, x)>> \o f[x + z] \in S
        BY <3>3, <3>4, ConcatProperties
      <3> QED
        <4> HIDE DEF S
        <4>1. CASE x + z - 1 > m
          BY <1>1, <3>2, <4>1
        <4>2. CASE ~(x + z - 1 > m) /\ ValidateBodyCRC(BodyAt(y, x))
          <5>1. f[x] = <<FrameAt(y, x)>> \o f[x + z]
            BY <3>2, <4>2, Zenon
          <5>2. x + z - 1 <= m
            BY <1>0, <3>1, <4>2
          <5> QED
            BY <3>5, <5>1, <5>2, Zenon
        <4>3. CASE ~(x + z - 1 > m) /\ ~ValidateBodyCRC(BodyAt(y, x))
          BY <1>0, <2>2, <2>5, <3>1, <3>2, <4>3
        <4> QED
          BY <4>1, <4>2, <4>3
    <2> QED
      BY <1>0, <2>3, <2>4, <2>5
  <1>4. m \in T
    <2> HIDE DEF T
    <2> QED
      BY <1>0, <1>2, <1>3, Induction
  <1> QED
    BY <1>0, <1>4

\* Bytes that start no frame are passed over.
LEMMA FromSkips ==
    ASSUME NEW y, IsSequence(y), NEW m \in 0..Len(y), NEW i \in 1..(m + 1), NEW j \in i..(m + 1),
           \A x \in i..(j - 1) : ~(x + 3 <= m /\ HeaderAt(y, x))
    PROVE  FramesFrom(Prefix(y, m))[i] = FramesFrom(Prefix(y, m))[j]
  <1> DEFINE f == FramesFrom(Prefix(y, m))
             T == {d \in Nat : i + d <= j => f[i] = f[i + d]}
  <1>0. Len(y) \in Nat /\ m \in Nat /\ m <= Len(y)
    BY SequenceFacts
  <1>1. 0 \in T
    OBVIOUS
  <1>2. ASSUME NEW d \in Nat, d \in T
        PROVE  d + 1 \in T
    <2> SUFFICES ASSUME i + (d + 1) <= j PROVE f[i] = f[i + (d + 1)]
      OBVIOUS
    <2> DEFINE x == i + d
    <2>1. x \in 1..(m + 1) /\ x <= m /\ x \in i..(j - 1) /\ i + (d + 1) = x + 1
      BY <1>0
    <2>2. f[i] = f[x]
      BY <1>2, <2>1
    <2> HIDE DEF x, f
    <2>3. f[x] = f[x + 1]
      BY <2>1, FromHere DEF f
    <2> QED
      BY <2>1, <2>2, <2>3
  <1>3. j - i \in T
    <2> HIDE DEF T
    <2>1. j - i \in Nat
      BY <1>0
    <2> QED
      BY <1>1, <1>2, <2>1, Induction
  <1>4. i + (j - i) = j
    BY <1>0
  <1> HIDE DEF f
  <1> QED
    BY <1>3, <1>4 DEF f

-----------------------------------------------------------------------------
(***************************************************************************)
(* A step of the parser.                                                   *)
(***************************************************************************)

\* A parser when k bytes of y were read of which it still has the last, and when the
\* reads before this one found the frames F
IsParser(p) ==
    /\ DOMAIN p = {"state", "frameSize", "header", "buffer", "readPos", "userData", "frames"}
    /\ p = [field \in DOMAIN p |-> p[field]]

\* The bytes that are no longer in the buffer; the bytes that were parsed
Gone(p, k) == k - Len(p.buffer)

Consumed(p, k) == Gone(p, k) + p.readPos

ParserTypes(p, y, k) ==
    /\ IsParser(p) /\ IsSequence(y) /\ k \in 0..Len(y)
    /\ IsSequence(p.buffer) /\ Len(p.buffer) <= BufferSize /\ Len(p.buffer) <= k
    /\ p.readPos \in 0..Len(p.buffer)
    /\ p.state \in {"FindSync", "ReadHeader", "ReadBody", "Complete"}
    /\ p.frames \in Seq(FramesOf(y))

\* The bytes that may be parsed again are those of y; the frame that is complete may
\* have been overwritten.
BytesKept(p, y, k) ==
    \A i \in (p.readPos + 1)..Len(p.buffer) :
        (p.state = "Complete" => i > p.readPos + p.frameSize) => p.buffer[i] = y[Gone(p, k) + i]

\* However y goes on, its frames are those found so far and those from here.
FoundSoFar(p, y, k, F) ==
    /\ F \in Seq(FramesOf(y))
    /\ \A m \in k..Len(y) :
          FramesIn(Prefix(y, m)) = (F \o p.frames) \o FramesFrom(Prefix(y, m))[Consumed(p, k) + 1]

\* What each state knows of the bytes from here on
StateHolds(p, y, k) ==
    LET a == Consumed(p, k) + 1 IN
    /\ p.state = "ReadHeader" => SubSeq(y, a, a + 1) = Start /\ a + 1 <= k
    /\ p.state \in {"ReadBody", "Complete"} =>
          /\ HeaderAt(y, a) /\ a + 3 <= k
          /\ p.header = y[a + 2] /\ p.frameSize = SizeAt(y, a)
    /\ p.state = "Complete" =>
          /\ a + p.frameSize - 1 <= k /\ ValidateBodyCRC(BodyAt(y, a))
          /\ p.userData = FrameAt(y, a).data

Parses(p, y, k, F) ==
    /\ ParserTypes(p, y, k) /\ BytesKept(p, y, k) /\ FoundSoFar(p, y, k, F) /\ StateHolds(p, y, k)

Rank(state) ==
    IF state = "FindSync" THEN 3 ELSE IF state = "ReadHeader" THEN 2
    ELSE IF state = "ReadBody" THEN 1 ELSE 0

\* Steps that are left at most
StepsLeft(p) == 4 * NumBytesRead(p) + Rank(p.state)

\* Is the parser waiting for more bytes?
Waits(p) ==
    \/ p.state \in {"FindSync", "ReadHeader"} /\ NumBytesRead(p) < HeaderSize
    \/ p.state = "ReadBody" /\ NumBytesRead(p) < p.frameSize

Advances(p, q) == StepsLeft(q) < StepsLeft(p) \/ (q = p /\ Waits(p))

\* The numbers that go with a parser.
LEMMA ParserNumbers ==
    ASSUME NEW p, NEW y, NEW k, ParserTypes(p, y, k)
    PROVE  /\ Len(y) \in Nat /\ k \in Nat /\ k <= Len(y)
           /\ Len(p.buffer) \in Nat /\ p.readPos \in Nat /\ p.readPos <= Len(p.buffer)
           /\ Gone(p, k) \in Nat /\ Gone(p, k) = k - Len(p.buffer)
           /\ Consumed(p, k) \in Nat /\ Consumed(p, k) = k - Len(p.buffer) + p.readPos
           /\ Consumed(p, k) <= k
           /\ NumBytesRead(p) \in Nat /\ NumBytesRead(p) = k - Consumed(p, k)
  <1>1. Len(y) \in Nat /\ Len(p.buffer) \in Nat
    BY SequenceFacts DEF ParserTypes
  <1>2. k \in 0..Len(y) /\ Len(p.buffer) <= k /\ p.readPos \in 0..Len(p.buffer)
    BY DEF ParserTypes
  <1> QED
    BY <1>1, <1>2 DEF Gone, Consumed, NumBytesRead

\* What a part of the buffer is of y
UnreadIsPart(p, y, k) ==
    \A i \in Nat, j \in Nat : p.readPos < i /\ j <= Len(p.buffer) =>
        SubSeq(p.buffer, i, j) = SubSeq(y, Gone(p, k) + i, Gone(p, k) + j)

\* What is not read of the buffer is part of the stream.
LEMMA UnreadPart ==
    ASSUME NEW p, NEW y, NEW k, ParserTypes(p, y, k), BytesKept(p, y, k), p.state # "Complete"
    PROVE  UnreadIsPart(p, y, k)
  <1> SUFFICES ASSUME NEW i \in Nat, NEW j \in Nat, p.readPos < i, j <= Len(p.buffer)
               PROVE  SubSeq(p.buffer, i, j) = SubSeq(y, Gone(p, k) + i, Gone(p, k) + j)
    BY DEF UnreadIsPart
  <1>1. Gone(p, k) \in Int /\ p.readPos \in Nat /\ Len(p.buffer) \in Nat
    BY ParserNumbers
  <1>2. ASSUME NEW x \in i..j
        PROVE  p.buffer[x] = y[Gone(p, k) + x]
    <2>1. x \in (p.readPos + 1)..Len(p.buffer)
      BY <1>1
    <2> QED
      BY <2>1 DEF BytesKept
  <1> DEFINE b == p.buffer
             d == Gone(p, k)
  <1>3. \A x \in i..j : b[x] = y[d + x]
    BY <1>2
  <1>4. d \in Int /\ i \in Int /\ j \in Int
    BY <1>1
  <1> HIDE DEF b, d
  <1>5. SubSeq(b, i, j) = SubSeq(y, d + i, d + j)
    BY <1>3, <1>4, SamePart
  <1> QED
    BY <1>5 DEF b, d

\* What FailFrame changes.
LEMMA FailFrameFields ==
    ASSUME NEW p, IsParser(p)
    PROVE  \E q : /\ q = FailFrame(p) /\ IsParser(q)
                  /\ q.readPos = p.readPos + 1 /\ q.state = "FindSync"
                  /\ q.buffer = p.buffer /\ q.frames = p.frames
  <1> DEFINE q == [p EXCEPT !.readPos = p.readPos + 1, !.state = "FindSync"]
  <1>1. q = FailFrame(p)
    BY DEF FailFrame
  <1>2. q.readPos = p.readPos + 1 /\ q.state = "FindSync" /\ q.buffer = p.buffer
        /\ q.frames = p.frames
    BY DEF IsParser
  <1>3. DOMAIN q = DOMAIN p
    OBVIOUS
  <1>4. q = [field \in DOMAIN q |-> q[field]]
    OBVIOUS
  <1> HIDE DEF q
  <1>5. IsParser(q)
    BY <1>3, <1>4, Zenon DEF IsParser
  <1> QED
    BY <1>1, <1>2, <1>5

\* A step that reads bytes in which no frame starts
LEMMA Skips ==
    ASSUME NEW p, NEW y, NEW k, NEW F, Parses(p, y, k, F), p.state # "Complete",
           NEW q, IsParser(q), q.buffer = p.buffer, q.frames = p.frames,
           q.readPos \in p.readPos..Len(p.buffer), q.state \in {"FindSync", "ReadHeader"},
           q.state = "ReadHeader" =>
              q.readPos + 2 <= Len(p.buffer) /\ SubSeq(p.buffer, q.readPos + 1, q.readPos + 2) = Start,
           \A m \in k..Len(y) : FramesFrom(Prefix(y, m))[Consumed(p, k) + 1]
                                  = FramesFrom(Prefix(y, m))[Gone(p, k) + q.readPos + 1]
    PROVE  Parses(q, y, k, F)
  <1>1. ParserTypes(p, y, k) /\ BytesKept(p, y, k) /\ FoundSoFar(p, y, k, F)
    BY DEF Parses
  <1>2. /\ Len(y) \in Nat /\ k \in Nat /\ k <= Len(y) /\ Len(p.buffer) \in Nat /\ p.readPos \in Nat
        /\ Gone(p, k) \in Nat /\ Gone(p, k) = k - Len(p.buffer)
    BY <1>1, ParserNumbers
  <1>3. Gone(q, k) = Gone(p, k) /\ Consumed(q, k) = Gone(p, k) + q.readPos
    BY DEF Gone, Consumed
  <1>8. UnreadIsPart(p, y, k)
    BY <1>1, UnreadPart
  <1>4. ParserTypes(q, y, k)
    <2>1. q.readPos \in 0..Len(q.buffer)
      BY <1>2
    <2> QED
      BY <1>1, <2>1 DEF ParserTypes
  <1>5. BytesKept(q, y, k)
    <2> SUFFICES ASSUME NEW i \in (q.readPos + 1)..Len(q.buffer)
                 PROVE  q.buffer[i] = y[Gone(q, k) + i]
      BY DEF BytesKept
    <2>1. i \in (p.readPos + 1)..Len(p.buffer)
      BY <1>2
    <2>2. p.buffer[i] = y[Gone(p, k) + i]
      BY <1>1, <2>1 DEF BytesKept
    <2> QED
      BY <1>3, <2>2
  <1>6. FoundSoFar(q, y, k, F)
    BY <1>1, <1>3 DEF FoundSoFar
  <1>7. StateHolds(q, y, k)
    <2>1. q.state # "ReadBody" /\ q.state # "Complete"
      OBVIOUS
    <2>2. ASSUME q.state = "ReadHeader"
          PROVE  LET a == Consumed(q, k) + 1 IN SubSeq(y, a, a + 1) = Start /\ a + 1 <= k
      <3> DEFINE r == q.readPos
      <3>1. r \in Nat /\ r + 1 \in Nat /\ r + 2 \in Nat /\ p.readPos < r + 1 /\ r + 2 <= Len(p.buffer)
        BY <1>2, <2>2
      <3> HIDE DEF r
      <3>2. Consumed(q, k) = Gone(p, k) + r
        BY <1>3 DEF r
      <3> DEFINE u == r + 1
                 v == r + 2
                 d == Gone(p, k)
                 a == Consumed(q, k) + 1
      <3>3. d + u = a /\ d + v = a + 1 /\ d + v <= k
        BY <1>2, <3>1, <3>2
      <3>4. SubSeq(p.buffer, u, v) = Start
        BY <2>2 DEF r
      <3>5. u \in Nat /\ v \in Nat /\ p.readPos < u /\ v <= Len(p.buffer)
        BY <3>1
      <3> HIDE DEF u, v, d, a
      <3>6. SubSeq(p.buffer, u, v) = SubSeq(y, d + u, d + v)
        BY <1>8, <3>5 DEF d, UnreadIsPart
      <3>7. SubSeq(y, a, a + 1) = Start /\ a + 1 <= k
        BY <3>3, <3>4, <3>6
      <3> QED
        BY <3>7 DEF a
    <2> QED
      BY <2>1, <2>2 DEF StateHolds
  <1> QED
    BY <1>4, <1>5, <1>6, <1>7 DEF Parses

\* FailFrame goes on with the byte after the one that started no frame.
LEMMA FailFrameParses ==
    ASSUME NEW p, NEW y, NEW k, NEW F, Parses(p, y, k, F), p.state \in {"ReadHeader", "ReadBody"},
           p.readPos < Len(p.buffer),
           \A m \in k..Len(y) : FramesFrom(Prefix(y, m))[Consumed(p, k) + 1]
                                  = FramesFrom(Prefix(y, m))[Consumed(p, k) + 2]
    PROVE  Parses(FailFrame(p), y, k, F) /\ Advances(p, FailFrame(p))
  <1>1. ParserTypes(p, y, k) /\ IsParser(p)
    BY DEF Parses, ParserTypes
  <1>2. /\ Len(p.buffer) \in Nat /\ p.readPos \in Nat /\ Gone(p, k) \in Nat
        /\ Consumed(p, k) = Gone(p, k) + p.readPos
    BY <1>1, ParserNumbers DEF Consumed
  <1>3. PICK q : /\ q = FailFrame(p) /\ IsParser(q)
                 /\ q.readPos = p.readPos + 1 /\ q.state = "FindSync"
                 /\ q.buffer = p.buffer /\ q.frames = p.frames
    BY <1>1, FailFrameFields
  <1>4. Consumed(p, k) + 2 = Gone(p, k) + q.readPos + 1
    BY <1>2, <1>3
  <1>5. q.readPos \in p.readPos..Len(p.buffer) /\ p.state # "Complete"
    BY <1>2, <1>3
  <1>6. Parses(q, y, k, F)
    BY <1>3, <1>4, <1>5, Skips
  <1>7. StepsLeft(q) < StepsLeft(p)
    <2>1. Rank(q.state) = 3 /\ Rank(p.state) \in {1, 2}
      BY <1>3 DEF Rank
    <2> QED
      BY <1>2, <1>3, <2>1 DEF StepsLeft, NumBytesRead
  <1> QED
    BY <1>3, <1>6, <1>7 DEF Advances

\* Up to the first start of a frame there is none.
SkipsTo(p, y, k, r) ==
    \A m \in k..Len(y) : FramesFrom(Prefix(y, m))[Consumed(p, k) + 1]
                           = FramesFrom(Prefix(y, m))[Gone(p, k) + r + 1]

\* No frame starts before the first two bytes that look like a start.
LEMMA NoStart ==
    ASSUME NEW p, NEW y, NEW k, NEW F, Parses(p, y, k, F), p.state # "Complete",
           NEW r \in p.readPos..(Len(p.buffer) - 1),
           \A x \in p.readPos..(r - 1) : SubSeq(p.buffer, x + 1, x + 2) # Start
    PROVE  SkipsTo(p, y, k, r)
  <1>1. ParserTypes(p, y, k) /\ BytesKept(p, y, k) /\ IsSequence(y)
    BY DEF Parses, ParserTypes
  <1>2. /\ Len(y) \in Nat /\ k \in Nat /\ k <= Len(y) /\ Len(p.buffer) \in Nat /\ p.readPos \in Nat
        /\ Gone(p, k) \in Nat /\ Gone(p, k) = k - Len(p.buffer)
        /\ Consumed(p, k) = Gone(p, k) + p.readPos
    BY <1>1, ParserNumbers DEF Consumed
  <1>3. UnreadIsPart(p, y, k)
    BY <1>1, UnreadPart
  <1>7. r \in Nat /\ p.readPos <= r /\ r + 1 <= Len(p.buffer)
    BY <1>2
  <1> DEFINE d == Gone(p, k)
             z == p.readPos
             n == Len(p.buffer)
             a == Consumed(p, k) + 1
             b == Gone(p, k) + r + 1
  <1>8. /\ d \in Nat /\ z \in Nat /\ n \in Nat /\ k \in Nat /\ r \in Nat
        /\ d + n = k /\ a = d + z + 1 /\ b = d + r + 1 /\ z <= r /\ r + 1 <= n
    BY <1>2, <1>7
  <1> HIDE DEF d, z, n, a, b
  <1>4. a \in Nat /\ a >= 1 /\ b \in Nat /\ a <= b /\ b <= k
    BY <1>8
  <1>5. ASSUME NEW x \in a..(b - 1)
        PROVE  ~HeaderAt(y, x)
    <2> DEFINE w == x - 1 - d
               u == w + 1
               v == w + 2
    <2>1. w \in z..(r - 1) /\ u \in Nat /\ v \in Nat /\ z < u /\ v <= n
          /\ d + u = x /\ d + v = x + 1
      BY <1>4, <1>8
    <2>2. SubSeq(p.buffer, u, v) # Start
      BY <2>1 DEF z
    <2> HIDE DEF w, u, v
    <2>3. SubSeq(p.buffer, u, v) = SubSeq(y, d + u, d + v)
      BY <1>3, <2>1 DEF d, z, n, UnreadIsPart
    <2>4. SubSeq(y, x, x + 1) # Start
      BY <2>1, <2>2, <2>3
    <2> QED
      BY <2>4 DEF HeaderAt
  <1>6. ASSUME NEW m \in k..Len(y)
        PROVE  FramesFrom(Prefix(y, m))[a] = FramesFrom(Prefix(y, m))[b]
    <2>1. m \in 0..Len(y) /\ a \in 1..(m + 1) /\ b \in a..(m + 1)
      BY <1>2, <1>4
    <2>2. \A x \in a..(b - 1) : ~(x + 3 <= m /\ HeaderAt(y, x))
      BY <1>5
    <2> QED
      BY <1>1, <2>1, <2>2, FromSkips
  <1> QED
    BY <1>6 DEF SkipsTo, a, b

\* ParseSync passes over bytes that start no frame, or waits.
LEMMA ParseSyncParses ==
    ASSUME NEW p, NEW y, NEW k, NEW F, Parses(p, y, k, F), p.state = "FindSync"
    PROVE  Parses(ParseSync(p), y, k, F) /\ Advances(p, ParseSync(p))
  <1>1. ParserTypes(p, y, k) /\ IsParser(p)
    BY DEF Parses, ParserTypes
  <1>2. /\ Len(p.buffer) \in Nat /\ p.readPos \in Nat /\ p.readPos <= Len(p.buffer)
        /\ NumBytesRead(p) = Len(p.buffer) - p.readPos
    BY <1>1, ParserNumbers DEF NumBytesRead
  <1> DEFINE starts == {r \in p.readPos..(Len(p.buffer) - 2) :
                          SubSeq(p.buffer, r + 1, r + 2) = Start}
  <1>3. CASE NumBytesRead(p) < HeaderSize
    <2>1. ParseSync(p) = p
      BY <1>3 DEF ParseSync
    <2>2. Waits(p)
      BY <1>3 DEF Waits
    <2> QED
      BY <2>1, <2>2 DEF Advances
  <1>4. CASE ~(NumBytesRead(p) < HeaderSize) /\ starts = {}
    <2> DEFINE q == [p EXCEPT !.readPos = Len(p.buffer) - 1]
    <2>1. ParseSync(p) = q
      BY <1>4 DEF ParseSync
    <2>2. /\ q.readPos = Len(p.buffer) - 1 /\ q.state = "FindSync" /\ q.buffer = p.buffer
          /\ q.frames = p.frames /\ DOMAIN q = DOMAIN p /\ q = [field \in DOMAIN q |-> q[field]]
      BY <1>1 DEF IsParser
    <2> HIDE DEF q
    <2>3. IsParser(q)
      BY <1>1, <2>2, Zenon DEF IsParser
    <2>4. p.readPos + 4 <= Len(p.buffer)
      BY <1>2, <1>4 DEF HeaderSize
    <2>5. q.readPos \in p.readPos..(Len(p.buffer) - 1) /\ q.readPos \in p.readPos..Len(p.buffer)
      BY <1>2, <2>2, <2>4
    <2>6. \A x \in p.readPos..(q.readPos - 1) : SubSeq(p.buffer, x + 1, x + 2) # Start
      <3>1. \A x \in p.readPos..(Len(p.buffer) - 2) : SubSeq(p.buffer, x + 1, x + 2) # Start
        BY <1>4
      <3>2. q.readPos - 1 = Len(p.buffer) - 2
        BY <1>2, <2>2
      <3> QED
        BY <3>1, <3>2
    <2>7. SkipsTo(p, y, k, q.readPos)
      BY <2>5, <2>6, NoStart
    <2>8. Parses(q, y, k, F)
      BY <2>2, <2>3, <2>5, <2>7, Skips DEF SkipsTo
    <2>9. StepsLeft(q) < StepsLeft(p)
      <3>1. Rank(q.state) = 3 /\ Rank(p.state) = 3
        BY <2>2 DEF Rank
      <3> QED
        BY <1>2, <2>2, <2>4, <3>1 DEF StepsLeft, NumBytesRead
    <2> QED
      BY <2>1, <2>8, <2>9 DEF Advances
  <1>5. CASE ~(NumBytesRead(p) < HeaderSize) /\ starts # {}
    <2> DEFINE r == Min(starts)
               q == [p EXCEPT !.readPos = r, !.state = "ReadHeader"]
    <2>1. ParseSync(p) = q
      BY <1>5 DEF ParseSync
    <2>2. r \in starts /\ \A x \in starts : r <= x
      <3>1. starts \subseteq Nat
        BY <1>2
      <3> HIDE DEF starts
      <3>2. \E x \in starts : \A z \in starts : x <= z
        BY <1>5, <3>1, Least
      <3> QED
        BY <3>2 DEF Min
    <2> HIDE DEF r
    <2>3. /\ q.readPos = r /\ q.state = "ReadHeader" /\ q.buffer = p.buffer
          /\ q.frames = p.frames /\ DOMAIN q = DOMAIN p /\ q = [field \in DOMAIN q |-> q[field]]
      BY <1>1 DEF IsParser
    <2> HIDE DEF q
    <2>4. IsParser(q)
      BY <1>1, <2>3, Zenon DEF IsParser
    <2>5. /\ r \in p.readPos..(Len(p.buffer) - 1) /\ r \in p.readPos..Len(p.buffer) /\ r \in Nat
          /\ r + 2 <= Len(p.buffer) /\ SubSeq(p.buffer, r + 1, r + 2) = Start
      BY <1>2, <2>2
    <2>6. ASSUME NEW x \in p.readPos..(r - 1)
          PROVE  SubSeq(p.buffer, x + 1, x + 2) # Start
      <3>1. x \in p.readPos..(Len(p.buffer) - 2) /\ ~(r <= x)
        BY <1>2, <2>5
      <3>2. x \notin starts
        BY <2>2, <3>1
      <3> QED
        BY <3>1, <3>2
    <2>7. SkipsTo(p, y, k, r)
      <3> HIDE DEF starts
      <3> QED
        BY <2>5, <2>6, NoStart
    <2> HIDE DEF starts
    <2>8. Parses(q, y, k, F)
      BY <2>3, <2>4, <2>5, <2>7, Skips DEF SkipsTo
    <2>9. StepsLeft(q) < StepsLeft(p)
      <3>1. Rank(q.state) = 2 /\ Rank(p.state) = 3
        BY <2>3 DEF Rank
      <3> QED
        BY <1>2, <2>3, <2>5, <3>1 DEF StepsLeft, NumBytesRead
    <2> QED
      BY <2>1, <2>8, <2>9 DEF Advances
  <1> QED
    BY <1>3, <1>4, <1>5

\* A step that reads nothing
LEMMA Stays ==
    ASSUME NEW p, NEW y, NEW k, NEW F, Parses(p, y, k, F),
           NEW q, IsParser(q), q.frames = p.frames, q.readPos = p.readPos,
           IsSequence(q.buffer), Len(q.buffer) = Len(p.buffer),
           q.state \in {"ReadBody", "Complete"}, BytesKept(q, y, k), StateHolds(q, y, k)
    PROVE  Parses(q, y, k, F)
  <1>1. ParserTypes(p, y, k) /\ FoundSoFar(p, y, k, F)
    BY DEF Parses
  <1>2. Gone(q, k) = Gone(p, k) /\ Consumed(q, k) = Consumed(p, k)
    BY DEF Gone, Consumed
  <1>3. ParserTypes(q, y, k)
    BY <1>1 DEF ParserTypes
  <1>4. FoundSoFar(q, y, k, F)
    BY <1>1, <1>2 DEF FoundSoFar
  <1> QED
    BY <1>3, <1>4 DEF Parses

\* The places of the parser in the buffer (z) and in y (a)
HasPlaces(p, y, k) ==
    \E d \in Nat, n \in Nat, z \in Nat, a \in Nat, l \in Nat :
        /\ d = Gone(p, k) /\ n = Len(p.buffer) /\ z = p.readPos /\ a = Consumed(p, k) + 1
        /\ l = Len(y) /\ NumBytesRead(p) = n - z
        /\ k \in Nat /\ d + n = k /\ a = d + z + 1 /\ z <= n /\ a >= 1 /\ k <= l

\* The numbers of a parser have names: d bytes are gone, n are in the buffer, z of them are
\* read, byte a of the l in the stream is next.
LEMMA Places ==
    ASSUME NEW p, NEW y, NEW k, ParserTypes(p, y, k)
    PROVE  HasPlaces(p, y, k)
  <1> DEFINE d == Gone(p, k)
             n == Len(p.buffer)
             z == p.readPos
             a == Consumed(p, k) + 1
  <1>1. /\ d \in Nat /\ n \in Nat /\ z \in Nat /\ z <= n /\ d = k - n
        /\ k \in Nat /\ Len(y) \in Nat /\ k <= Len(y)
    BY ParserNumbers
  <1>2. a = d + z + 1 /\ NumBytesRead(p) = n - z
    BY DEF Consumed, NumBytesRead
  <1> HIDE DEF d, n, z, a
  <1>3. a \in Nat /\ a >= 1 /\ d + n = k
    BY <1>1, <1>2
  <1> QED
    BY <1>1, <1>2, <1>3 DEF d, n, z, a, HasPlaces

\* ParseHeader accepts a header, gives a byte up or waits.
LEMMA ParseHeaderParses ==
    ASSUME NEW p, NEW y, NEW k, NEW F, Parses(p, y, k, F), p.state = "ReadHeader"
    PROVE  Parses(ParseHeader(p), y, k, F) /\ Advances(p, ParseHeader(p))
  <1>1. ParserTypes(p, y, k) /\ BytesKept(p, y, k) /\ IsParser(p) /\ IsSequence(y)
    BY DEF Parses, ParserTypes
  <1>0. HasPlaces(p, y, k)
    BY <1>1, Places
  <1>2. PICK d \in Nat, n \in Nat, z \in Nat, a \in Nat, l \in Nat :
             /\ d = Gone(p, k) /\ n = Len(p.buffer) /\ z = p.readPos /\ a = Consumed(p, k) + 1
             /\ l = Len(y) /\ NumBytesRead(p) = n - z
             /\ k \in Nat /\ d + n = k /\ a = d + z + 1 /\ z <= n /\ a >= 1 /\ k <= l
    BY <1>0, Zenon DEF HasPlaces
  <1>20. k \in Nat /\ d + n = k /\ a = d + z + 1 /\ z <= n /\ a >= 1 /\ k <= l
    BY <1>2
  <1>3. CASE NumBytesRead(p) < HeaderSize
    <2>1. ParseHeader(p) = p
      BY <1>3 DEF ParseHeader
    <2>2. Waits(p)
      BY <1>3 DEF Waits
    <2> QED
      BY <2>1, <2>2 DEF Advances
  <1>4. CASE ~(NumBytesRead(p) < HeaderSize)
    <2>0. ~(n - z < 4)
      BY <1>2, <1>4 DEF HeaderSize
    <2>1. z + 4 <= n /\ a + 3 <= k /\ a + 3 <= l
      BY <1>20, <2>0
    <2>2. UnreadIsPart(p, y, k)
      BY <1>1, UnreadPart
    <2> DEFINE h == SubSeq(p.buffer, p.readPos + 1, p.readPos + HeaderSize)
    <2>3. h = SubSeq(y, a, a + HeaderSize - 1)
      <3> DEFINE u == z + 1
                 v == z + 4
      <3>1. u \in Nat /\ v \in Nat /\ z < u /\ v <= n /\ d + u = a /\ d + v = a + HeaderSize - 1
        BY <1>20, <2>1 DEF HeaderSize
      <3>2. h = SubSeq(p.buffer, u, v)
        BY <1>2 DEF HeaderSize
      <3> HIDE DEF u, v, h
      <3>3. SubSeq(p.buffer, u, v) = SubSeq(y, d + u, d + v)
        BY <1>2, <2>2, <3>1 DEF UnreadIsPart
      <3> QED
        BY <3>1, <3>2, <3>3
    <2>4. SubSeq(y, a, a + 1) = Start
      BY <1>2 DEF Parses, StateHolds
    <2>5. HeaderAt(y, a) <=> ReadHeader(h)
      <3> HIDE DEF h
      <3>1. a + HeaderSize - 1 <= Len(y)
        BY <1>2, <2>1 DEF HeaderSize
      <3> QED
        BY <2>3, <2>4, <3>1 DEF HeaderAt
    <2>6. CASE ~ReadHeader(h)
      <3>1. ParseHeader(p) = FailFrame(p)
        BY <1>4, <2>6 DEF ParseHeader
      <3> HIDE DEF h
      <3>2. ASSUME NEW m \in k..Len(y)
            PROVE  FramesFrom(Prefix(y, m))[a] = FramesFrom(Prefix(y, m))[a + 1]
        <4>0. m \in k..l
          BY <1>2
        <4>1. m \in 0..l /\ a \in 1..(m + 1) /\ a <= m
          BY <1>20, <2>1, <4>0
        <4>2. ~(a + 3 <= m /\ HeaderAt(y, a))
          BY <2>5, <2>6
        <4> QED
          BY <1>1, <1>2, <4>1, <4>2, FromHere
      <3>3. Consumed(p, k) + 1 = a /\ Consumed(p, k) + 2 = a + 1 /\ p.readPos < Len(p.buffer)
        <4> DEFINE c == Consumed(p, k)
        <4>1. c \in Nat /\ a = c + 1
          BY <1>1, <1>2, ParserNumbers
        <4> HIDE DEF c
        <4>2. c + 2 = a + 1 /\ z < n
          BY <1>20, <2>1, <4>1
        <4> QED
          BY <1>2, <4>1, <4>2 DEF c
      <3> QED
        BY <3>1, <3>2, <3>3, FailFrameParses
    <2>7. CASE ReadHeader(h)
      <3> DEFINE e == Unread(p, 3)
                 q == [p EXCEPT !.header = e, !.frameSize = CalcFrameSize(e.len),
                                !.state = "ReadBody"]
      <3>1. ParseHeader(p) = q
        BY <1>4, <2>7 DEF ParseHeader
      <3>2. e = y[a + 2]
        <4>1. z + 3 \in (z + 1)..n /\ d + (z + 3) = a + 2
          BY <1>20, <2>1
        <4>2. p.buffer[z + 3] = y[d + (z + 3)]
          BY <1>1, <1>2, <4>1 DEF BytesKept
        <4> QED
          BY <1>2, <4>1, <4>2 DEF Unread
      <3> HIDE DEF e
      <3>3. /\ q.header = e /\ q.frameSize = CalcFrameSize(e.len) /\ q.readPos = p.readPos
            /\ q.state = "ReadBody" /\ q.buffer = p.buffer
            /\ q.frames = p.frames /\ DOMAIN q = DOMAIN p /\ q = [field \in DOMAIN q |-> q[field]]
        BY <1>1 DEF IsParser
      <3> HIDE DEF q, h
      <3>4. IsParser(q)
        BY <1>1, <3>3, Zenon DEF IsParser
      <3>5. BytesKept(q, y, k)
        BY <1>1, <3>3 DEF BytesKept, Gone
      <3>6. StateHolds(q, y, k)
        <4>1. Consumed(q, k) + 1 = a
          <5>1. Consumed(q, k) = Consumed(p, k)
            BY <3>3 DEF Consumed, Gone
          <5> QED
            BY <1>2, <5>1
        <4>2. q.frameSize = SizeAt(y, a)
          BY <3>2, <3>3 DEF SizeAt
        <4> QED
          BY <2>1, <2>5, <2>7, <3>2, <3>3, <4>1, <4>2 DEF StateHolds
      <3>7. Parses(q, y, k, F)
        BY <1>1, <3>3, <3>4, <3>5, <3>6, Stays DEF ParserTypes
      <3>8. StepsLeft(q) < StepsLeft(p)
        <4>1. Rank(q.state) = 1 /\ Rank(p.state) = 2
          BY <3>3 DEF Rank
        <4>2. NumBytesRead(q) = NumBytesRead(p) /\ NumBytesRead(p) \in Nat
          BY <1>2, <3>3 DEF NumBytesRead
        <4> QED
          BY <4>1, <4>2 DEF StepsLeft
      <3> QED
        BY <3>1, <3>7, <3>8 DEF Advances
    <2> QED
      BY <2>6, <2>7
  <1> QED
    BY <1>3, <1>4

Overwritten(buffer, data) ==
    [i \in DOMAIN buffer |-> IF i <= Len(data) THEN data[i] ELSE buffer[i]]

\* What TransferUserData and the change to Complete leave alone.
LEMMA TransferFields ==
    ASSUME NEW p, IsParser(p), NEW data
    PROVE  \E q : /\ q = [TransferUserData(p, data) EXCEPT !.state = "Complete"] /\ IsParser(q)
                  /\ q.readPos = p.readPos /\ q.state = "Complete" /\ q.frames = p.frames
                  /\ q.header = p.header /\ q.frameSize = p.frameSize /\ q.userData = data
                  /\ q.buffer = Overwritten(p.buffer, data)
  <1> DEFINE b == Overwritten(p.buffer, data)
             o == [p EXCEPT !.buffer = b, !.userData = data]
             q == [o EXCEPT !.state = "Complete"]
  <1>1. o = TransferUserData(p, data)
    <2> HIDE DEF o
    <2> QED
      BY DEF IsParser, TransferUserData, o, Overwritten
  <1> HIDE DEF b
  <1>2. DOMAIN o = DOMAIN p /\ DOMAIN q = DOMAIN p
    OBVIOUS
  <1>3. /\ q.readPos = p.readPos /\ q.state = "Complete" /\ q.frames = p.frames
        /\ q.header = p.header /\ q.frameSize = p.frameSize /\ q.userData = data
        /\ q.buffer = b
    BY DEF IsParser
  <1>4. q = [field \in DOMAIN q |-> q[field]]
    OBVIOUS
  <1>5. q = [TransferUserData(p, data) EXCEPT !.state = "Complete"]
    BY <1>1
  <1> HIDE DEF q, o
  <1>6. IsParser(q)
    BY <1>2, <1>4, Zenon DEF IsParser
  <1> QED
    BY <1>3, <1>5, <1>6 DEF b

\* ParseBody overwrites only bytes of the frame that it has accepted.
LEMMA ParseBodyParses ==
    ASSUME NEW p, NEW y, NEW k, NEW F, Parses(p, y, k, F), p.state = "ReadBody"
    PROVE  Parses(ParseBody(p), y, k, F) /\ Advances(p, ParseBody(p))
  <1>1. ParserTypes(p, y, k) /\ BytesKept(p, y, k) /\ IsParser(p) /\ IsSequence(y)
    BY DEF Parses, ParserTypes
  <1>10. IsSequence(p.buffer)
    BY <1>1 DEF ParserTypes
  <1>0. HasPlaces(p, y, k)
    BY <1>1, Places
  <1>2. PICK d \in Nat, n \in Nat, z \in Nat, a \in Nat, l \in Nat :
             /\ d = Gone(p, k) /\ n = Len(p.buffer) /\ z = p.readPos /\ a = Consumed(p, k) + 1
             /\ l = Len(y) /\ NumBytesRead(p) = n - z
             /\ k \in Nat /\ d + n = k /\ a = d + z + 1 /\ z <= n /\ a >= 1 /\ k <= l
    BY <1>0, Zenon DEF HasPlaces
  <1>20. k \in Nat /\ d + n = k /\ a = d + z + 1 /\ z <= n /\ a >= 1 /\ k <= l
    BY <1>2
  <1>3. HeaderAt(y, a) /\ a + 3 <= k /\ p.header = y[a + 2] /\ p.frameSize = SizeAt(y, a)
    <2>1. StateHolds(p, y, k) /\ p.state \in {"ReadBody", "Complete"}
      BY DEF Parses
    <2>2. LET x == Consumed(p, k) + 1 IN
          HeaderAt(y, x) /\ x + 3 <= k /\ p.header = y[x + 2] /\ p.frameSize = SizeAt(y, x)
      BY <2>1, Zenon DEF StateHolds
    <2> QED
      BY <1>2, <2>2, Zenon
  <1> DEFINE w == p.frameSize
             len == p.header.len
             body == SubSeq(p.buffer, p.readPos + HeaderSize + 1, p.readPos + p.frameSize)
  <1>4. w \in Nat /\ len \in Nat /\ 4 + len <= w /\ w = SizeAt(y, a) /\ len = y[a + 2].len
    <2>1. /\ y[a + 2].len \in 0..MaxUserData /\ SizeAt(y, a) \in Nat
          /\ HeaderSize + y[a + 2].len <= SizeAt(y, a)
      BY <1>3, HeaderSizes
    <2> QED
      BY <1>3, <2>1 DEF HeaderSize
  <1>5. CASE NumBytesRead(p) < p.frameSize
    <2>1. ParseBody(p) = p
      BY <1>5 DEF ParseBody
    <2>2. Waits(p)
      BY <1>5 DEF Waits
    <2> QED
      BY <2>1, <2>2 DEF Advances
  <1>6. CASE ~(NumBytesRead(p) < p.frameSize)
    <2> HIDE DEF w
    <2>0. ~(n - z < w)
      BY <1>2, <1>6 DEF w
    <2>1. z + w <= n /\ a + w - 1 <= k /\ z + 1 <= n
      BY <1>20, <1>4, <2>0
    <2>2. body = BodyAt(y, a)
      <3>0. UnreadIsPart(p, y, k)
        BY <1>1, UnreadPart
      <3> DEFINE u == z + 5
                 v == z + w
      <3>1. /\ u \in Nat /\ v \in Nat /\ z < u /\ v <= n
            /\ d + u = a + 4 /\ d + v = a + w - 1
        BY <1>20, <1>4, <2>1
      <3>2. body = SubSeq(p.buffer, u, v)
        <4>1. z + HeaderSize + 1 = u
          BY DEF HeaderSize
        <4> QED
          BY <1>2, <4>1 DEF w
      <3> HIDE DEF u, v, body
      <3>3. SubSeq(p.buffer, u, v) = SubSeq(y, d + u, d + v)
        BY <1>2, <3>0, <3>1 DEF UnreadIsPart
      <3>4. BodyAt(y, a) = SubSeq(y, a + 4, a + w - 1)
        BY <1>4 DEF BodyAt, HeaderSize
      <3> QED
        BY <3>1, <3>2, <3>3, <3>4
    <2>3. CASE ~ValidateBodyCRC(body)
      <3>1. ParseBody(p) = FailFrame(p)
        BY <1>6, <2>3 DEF ParseBody
      <3> HIDE DEF body
      <3>2. ASSUME NEW m \in k..Len(y)
            PROVE  FramesFrom(Prefix(y, m))[a] = FramesFrom(Prefix(y, m))[a + 1]
        <4>0. m \in k..l
          BY <1>2
        <4>1. m \in 0..l /\ a \in 1..(m + 1) /\ a + 3 <= m /\ ~(a + w - 1 > m)
          BY <1>20, <1>3, <1>4, <2>1, <4>0
        <4>2. m \in 0..Len(y) /\ ~(a + SizeAt(y, a) - 1 > m) /\ ~ValidateBodyCRC(BodyAt(y, a))
          BY <1>2, <1>4, <2>2, <2>3, <4>1
        <4> QED
          BY <1>1, <1>3, <4>1, <4>2, FromHere
      <3>3. Consumed(p, k) + 1 = a /\ Consumed(p, k) + 2 = a + 1 /\ p.readPos < Len(p.buffer)
        <4> DEFINE c == Consumed(p, k)
        <4>1. c \in Nat /\ a = c + 1
          BY <1>1, <1>2, ParserNumbers
        <4> HIDE DEF c
        <4>2. c + 2 = a + 1 /\ z < n
          BY <1>20, <2>1, <4>1
        <4> QED
          BY <1>2, <4>1, <4>2 DEF c
      <3> QED
        BY <3>1, <3>2, <3>3, FailFrameParses
    <2>4. CASE ValidateBodyCRC(body)
      <3> DEFINE data == ReadUserData(body, len)
      <3>1. ParseBody(p) = [TransferUserData(p, data) EXCEPT !.state = "Complete"]
        BY <1>6, <2>4 DEF ParseBody
      <3>2. data = FrameAt(y, a).data
        BY <1>4, <2>2 DEF FrameAt
      <3>3. IsSequence(data) /\ Len(data) = len
        <4>1. data = [i \in 1..len |-> data[i]]
          BY DEF ReadUserData
        <4> HIDE DEF data, len
        <4> QED
          BY <1>4, <4>1, FunctionSequence
      <3> HIDE DEF data, body, len
      <3>4. PICK q : /\ q = [TransferUserData(p, data) EXCEPT !.state = "Complete"] /\ IsParser(q)
                  /\ q.readPos = p.readPos /\ q.state = "Complete" /\ q.frames = p.frames
                  /\ q.header = p.header /\ q.frameSize = p.frameSize /\ q.userData = data
                  /\ q.buffer = Overwritten(p.buffer, data)
        BY <1>1, TransferFields
      <3>5. DOMAIN p.buffer = 1..n
        BY <1>10, <1>2, SequenceFacts
      <3>6. IsSequence(q.buffer) /\ Len(q.buffer) = n
        <4>1. q.buffer = [i \in 1..n |-> q.buffer[i]]
          BY <3>4, <3>5 DEF Overwritten
        <4> QED
          BY <4>1, FunctionSequence
      <3>7. Gone(q, k) = d /\ Consumed(q, k) + 1 = a
        <4>1. Gone(q, k) = Gone(p, k) /\ Consumed(q, k) = Consumed(p, k)
          BY <1>2, <3>4, <3>6 DEF Gone, Consumed
        <4> QED
          BY <1>2, <4>1
      <3>8. BytesKept(q, y, k)
        <4> SUFFICES ASSUME NEW i \in (z + 1)..n, i > z + w
                     PROVE  q.buffer[i] = y[d + i]
          BY <1>2, <3>4, <3>6, <3>7 DEF BytesKept, w
        <4>1. i \in 1..n /\ ~(i <= len)
          BY <1>20, <1>4
        <4>2. q.buffer[i] = p.buffer[i]
          BY <3>3, <3>4, <3>5, <4>1 DEF Overwritten
        <4>3. p.buffer[i] = y[d + i]
          BY <1>1, <1>2 DEF BytesKept
        <4> QED
          BY <4>2, <4>3
      <3>9. StateHolds(q, y, k)
        <4>1. a + q.frameSize - 1 <= k
          BY <2>1, <3>4 DEF w
        <4> QED
          BY <1>3, <2>2, <2>4, <3>2, <3>4, <3>7, <4>1 DEF StateHolds
      <3>10. Parses(q, y, k, F)
        BY <1>2, <3>4, <3>6, <3>8, <3>9, Stays
      <3>11. StepsLeft(q) < StepsLeft(p)
        <4>1. Rank(q.state) = 0 /\ Rank(p.state) = 1
          BY <3>4 DEF Rank
        <4>2. NumBytesRead(q) = NumBytesRead(p)
          BY <1>2, <3>4, <3>6 DEF NumBytesRead
        <4>3. NumBytesRead(p) \in Nat
          BY <1>1, ParserNumbers
        <4> QED
          BY <4>1, <4>2, <4>3 DEF StepsLeft
      <3> QED
        BY <3>1, <3>4, <3>10, <3>11 DEF Advances
    <2> QED
      BY <2>3, <2>4
  <1> QED
    BY <1>5, <1>6

Associates(s, t, u) == (s \o t) \o u = s \o (t \o u)

\* Concatenation is associative.
LEMMA Associative ==
    ASSUME NEW S, NEW s \in Seq(S), NEW t \in Seq(S), NEW u \in Seq(S)
    PROVE  Associates(s, t, u)
  BY ConcatAssociative DEF Associates

\* PushFrame pushes the frame that follows those found before.
LEMMA PushFrameParses ==
    ASSUME NEW p, NEW y, NEW k, NEW F, Parses(p, y, k, F), p.state = "Complete"
    PROVE  Parses(PushFrame(p), y, k, F) /\ Advances(p, PushFrame(p))
  <1>1. ParserTypes(p, y, k) /\ BytesKept(p, y, k) /\ IsParser(p) /\ IsSequence(y)
    BY DEF Parses, ParserTypes
  <1>0. HasPlaces(p, y, k)
    BY <1>1, Places
  <1>2. PICK d \in Nat, n \in Nat, z \in Nat, a \in Nat, l \in Nat :
             /\ d = Gone(p, k) /\ n = Len(p.buffer) /\ z = p.readPos /\ a = Consumed(p, k) + 1
             /\ l = Len(y) /\ NumBytesRead(p) = n - z
             /\ k \in Nat /\ d + n = k /\ a = d + z + 1 /\ z <= n /\ a >= 1 /\ k <= l
    BY <1>0, Zenon DEF HasPlaces
  <1>20. k \in Nat /\ d + n = k /\ a = d + z + 1 /\ z <= n /\ a >= 1 /\ k <= l
    BY <1>2
  <1>3. /\ HeaderAt(y, a) /\ a + 3 <= k /\ p.header = y[a + 2] /\ p.frameSize = SizeAt(y, a)
        /\ a + p.frameSize - 1 <= k /\ ValidateBodyCRC(BodyAt(y, a))
        /\ p.userData = FrameAt(y, a).data
    <2>1. StateHolds(p, y, k) /\ p.state \in {"ReadBody", "Complete"}
      BY DEF Parses
    <2>2. LET x == Consumed(p, k) + 1 IN
          /\ HeaderAt(y, x) /\ x + 3 <= k /\ p.header = y[x + 2] /\ p.frameSize = SizeAt(y, x)
          /\ x + p.frameSize - 1 <= k /\ ValidateBodyCRC(BodyAt(y, x))
          /\ p.userData = FrameAt(y, x).data
      BY <2>1, Zenon DEF StateHolds
    <2> QED
      BY <1>2, <2>2, Zenon
  <1> DEFINE w == p.frameSize
             frame == [header |-> p.header, data |-> p.userData]
             frames == Append(p.frames, frame)
             q == [p EXCEPT !.frames = frames, !.readPos = p.readPos + p.frameSize,
                            !.state = "FindSync"]
  <1>4. q = PushFrame(p)
    BY <1>1 DEF PushFrame, IsParser
  <1>5. frame = FrameAt(y, a)
    BY <1>3 DEF FrameAt
  <1> HIDE DEF frames
  <1>6. /\ q.frames = frames /\ q.readPos = p.readPos + p.frameSize /\ q.state = "FindSync"
        /\ q.buffer = p.buffer /\ DOMAIN q = DOMAIN p /\ q = [field \in DOMAIN q |-> q[field]]
    BY <1>1 DEF IsParser
  <1> HIDE DEF q, w
  <1>7. IsParser(q)
    BY <1>1, <1>6, Zenon DEF IsParser
  <1>8. w \in Nat /\ w >= 4 /\ w = SizeAt(y, a) /\ a + w - 1 <= k
    <2>1. SizeAt(y, a) \in Nat /\ HeaderSize + y[a + 2].len <= SizeAt(y, a)
          /\ y[a + 2].len \in 0..MaxUserData
      BY <1>3, HeaderSizes
    <2> QED
      BY <1>3, <2>1 DEF HeaderSize, w
  <1>9. z + w <= n /\ z + w \in Nat
    BY <1>20, <1>8
  <1>10. q.readPos = z + w
    BY <1>2, <1>6 DEF w
  <1>11. Gone(q, k) = d /\ Consumed(q, k) + 1 = a + w
    <2>1. Gone(q, k) = d
      BY <1>2, <1>6 DEF Gone
    <2>2. Consumed(q, k) = d + (z + w)
      BY <1>10, <2>1 DEF Consumed
    <2> QED
      BY <1>20, <1>8, <2>1, <2>2
  <1>12. FrameAt(y, a) \in FramesOf(y)
    BY DEF FramesOf
  <1>13. p.frames \in Seq(FramesOf(y)) /\ F \in Seq(FramesOf(y))
    BY <1>1 DEF Parses, ParserTypes, FoundSoFar
  <1> DEFINE S == FramesOf(y)
             e == FrameAt(y, a)
  <1>14. frames = Append(p.frames, e) /\ frames = p.frames \o <<e>> /\ frames \in Seq(S)
    <2>1. frames = Append(p.frames, e)
      BY <1>5 DEF frames
    <2> HIDE DEF e, S
    <2>2. e \in S /\ p.frames \in Seq(S)
      BY <1>12, <1>13 DEF e, S
    <2> QED
      BY <2>1, <2>2, AppendIsConcat
  <1>15. ParserTypes(q, y, k)
    <2>1. q.readPos \in 0..Len(q.buffer)
      BY <1>2, <1>6, <1>9, <1>10
    <2> HIDE DEF frame
    <2> QED
      BY <1>1, <1>6, <1>7, <1>14, <2>1 DEF ParserTypes
  <1>16. BytesKept(q, y, k)
    <2> SUFFICES ASSUME NEW i \in (z + w + 1)..n
                 PROVE  p.buffer[i] = y[d + i]
      BY <1>2, <1>6, <1>10, <1>11 DEF BytesKept
    <2>1. i \in (z + 1)..n /\ i > z + w
      BY <1>20, <1>8, <1>9
    <2> QED
      BY <1>1, <1>2, <2>1 DEF BytesKept, w
  <1>17. FoundSoFar(q, y, k, F)
    <2> SUFFICES ASSUME NEW m \in k..Len(y)
                 PROVE  FramesIn(Prefix(y, m)) = (F \o frames) \o FramesFrom(Prefix(y, m))[a + w]
      BY <1>6, <1>11, <1>13 DEF FoundSoFar
    <2> DEFINE f == FramesFrom(Prefix(y, m))
               g == f[a + w]
    <2>1. FramesIn(Prefix(y, m)) = (F \o p.frames) \o f[a]
      BY <1>2 DEF Parses, FoundSoFar
    <2>2. m \in k..l
      BY <1>2
    <2>3. /\ m \in 0..l /\ a \in 1..(m + 1) /\ a + 3 <= m /\ ~(a + w - 1 > m)
          /\ a + w \in 1..(m + 1)
      BY <1>20, <1>3, <1>8, <2>2
    <2>4. m \in 0..Len(y) /\ ~(a + SizeAt(y, a) - 1 > m)
      BY <1>2, <1>8, <2>3
    <2>5. f[a] = <<e>> \o g
      BY <1>1, <1>3, <1>8, <2>3, <2>4, FromHere
    <2>6. g \in Seq(S)
      BY <1>1, <2>3, <2>4, FromType
    <2>7. <<e>> \in Seq(S)
      BY <1>12
    <2> HIDE DEF S, e, g, f, frame
    <2>8. F \in Seq(S) /\ p.frames \in Seq(S)
      BY <1>13 DEF S
    <2>9. (F \o p.frames) \o (<<e>> \o g) = (F \o (p.frames \o <<e>>)) \o g
      <3> DEFINE s == p.frames
                 t == <<e>>
                 r == F \o s
      <3>1. F \in Seq(S) /\ s \in Seq(S) /\ t \in Seq(S) /\ r \in Seq(S)
        BY <2>7, <2>8, ConcatProperties
      <3> HIDE DEF s, t, r
      <3>2. Associates(r, t, g) /\ Associates(F, s, t)
        BY <2>6, <3>1, Associative
      <3> QED
        BY <3>2 DEF s, t, r, Associates
    <2>11. FramesIn(Prefix(y, m)) = (F \o frames) \o g
      BY <1>14, <2>1, <2>5, <2>9
    <2> QED
      BY <2>11 DEF f, g
  <1>18. StateHolds(q, y, k)
    BY <1>6 DEF StateHolds
  <1>19. StepsLeft(q) < StepsLeft(p)
    <2>1. Rank(q.state) = 3 /\ Rank(p.state) = 0
      BY <1>6 DEF Rank
    <2>2. NumBytesRead(q) = n - (z + w) /\ NumBytesRead(p) = n - z
      BY <1>2, <1>6, <1>10 DEF NumBytesRead
    <2> QED
      BY <1>8, <1>9, <1>20, <2>1, <2>2 DEF StepsLeft
  <1> QED
    BY <1>4, <1>15, <1>16, <1>17, <1>18, <1>19 DEF Parses, Advances

\* Every step keeps the invariant and comes nearer to waiting.
LEMMA StepParses ==
    ASSUME NEW p, NEW y, NEW k, NEW F, Parses(p, y, k, F)
    PROVE  Parses(ParseOneStep(p), y, k, F) /\ Advances(p, ParseOneStep(p))
  <1>1. p.state \in {"FindSync", "ReadHeader", "ReadBody", "Complete"}
    BY DEF Parses, ParserTypes
  <1>2. CASE p.state = "FindSync"
    BY <1>2, ParseSyncParses DEF ParseOneStep
  <1>3. CASE p.state = "ReadHeader"
    BY <1>3, ParseHeaderParses DEF ParseOneStep
  <1>4. CASE p.state = "ReadBody"
    BY <1>4, ParseBodyParses DEF ParseOneStep
  <1>5. CASE p.state = "Complete"
    BY <1>5, PushFrameParses DEF ParseOneStep
  <1> QED
    BY <1>1, <1>2, <1>3, <1>4, <1>5

-----------------------------------------------------------------------------
(***************************************************************************)
(* All of its steps.                                                       *)
(***************************************************************************)

\* The parser after each of its first steps
IsRun(p, last, g) ==
    g = [n \in 0..last |-> ParseOneStep(IF n = 0 THEN p ELSE g[n - 1])]

\* The recursion of ParseUntilComplete has a solution.
LEMMA RunExists ==
    ASSUME NEW p, NEW last \in Nat
    PROVE  \E g : IsRun(p, last, g)
  <1> DEFINE T == {d \in Nat : \E g : IsRun(p, d, g)}
  <1>1. 0 \in T
    <2> DEFINE g == [n \in 0..0 |-> ParseOneStep(p)]
    <2>1. g = [n \in 0..0 |-> ParseOneStep(IF n = 0 THEN p ELSE g[n - 1])]
      OBVIOUS
    <2> HIDE DEF g
    <2>2. IsRun(p, 0, g)
      BY <2>1, Zenon DEF IsRun
    <2> QED
      BY <2>2
  <1>2. ASSUME NEW d \in Nat, d \in T
        PROVE  d + 1 \in T
    <2>1. PICK g : IsRun(p, d, g)
      BY <1>2
    <2> DEFINE v == ParseOneStep(g[d])
               h == [n \in 0..(d + 1) |-> IF n <= d THEN g[n] ELSE v]
    <2>2. \A n \in 0..d : h[n] = g[n]
      OBVIOUS
    <2>3. h[d + 1] = v
      OBVIOUS
    <2>4. h = [n \in 0..(d + 1) |-> h[n]]
      OBVIOUS
    <2> HIDE DEF h
    <2>5. ASSUME NEW n \in 0..(d + 1)
          PROVE  h[n] = ParseOneStep(IF n = 0 THEN p ELSE h[n - 1])
      <3>1. CASE n = 0
        <4>1. g[0] = ParseOneStep(p)
          BY <2>1 DEF IsRun
        <4> QED
          BY <2>2, <3>1, <4>1
      <3>2. CASE n # 0 /\ n <= d
        <4>1. n \in 0..d /\ n - 1 \in 0..d
          BY <3>2
        <4>2. g[n] = ParseOneStep(g[n - 1])
          BY <2>1, <3>2, <4>1 DEF IsRun
        <4>3. h[n] = g[n] /\ h[n - 1] = g[n - 1]
          BY <2>2, <4>1
        <4> QED
          BY <3>2, <4>2, <4>3
      <3>3. CASE n = d + 1
        <4>1. n - 1 = d /\ d \in 0..d /\ n # 0
          BY <3>3
        <4>2. h[n - 1] = g[d]
          BY <2>2, <4>1
        <4>3. h[n] = ParseOneStep(g[d])
          BY <2>3, <3>3
        <4> QED
          BY <4>1, <4>2, <4>3
      <3> QED
        BY <3>1, <3>2, <3>3
    <2>6. IsRun(p, d + 1, h)
      BY <2>4, <2>5 DEF IsRun
    <2> QED
      BY <2>6
  <1> HIDE DEF T
  <1>3. last \in T
    BY <1>1, <1>2, Induction
  <1> QED
    BY <1>3 DEF T

\* A parser that waits does nothing.
LEMMA WaitsStays ==
    ASSUME NEW p, Waits(p)
    PROVE  ParseOneStep(p) = p
  <1>1. CASE p.state = "FindSync" /\ NumBytesRead(p) < HeaderSize
    BY <1>1 DEF ParseOneStep, ParseSync
  <1>2. CASE p.state = "ReadHeader" /\ NumBytesRead(p) < HeaderSize
    BY <1>2 DEF ParseOneStep, ParseHeader
  <1>3. CASE p.state = "ReadBody" /\ NumBytesRead(p) < p.frameSize
    BY <1>3 DEF ParseOneStep, ParseBody
  <1> QED
    BY <1>1, <1>2, <1>3 DEF Waits

\* What is in the buffer bounds the steps that are left.
LEMMA StepsBounded ==
    ASSUME NEW p, NEW y, NEW k, NEW F, Parses(p, y, k, F)
    PROVE  StepsLeft(p) \in Nat /\ StepsLeft(p) <= 4 * BufferSize + 3
  <1>1. ParserTypes(p, y, k)
    BY DEF Parses
  <1>2. Len(p.buffer) \in Nat /\ p.readPos \in Nat /\ p.readPos <= Len(p.buffer)
        /\ NumBytesRead(p) = Len(p.buffer) - p.readPos
    BY <1>1, ParserNumbers DEF NumBytesRead
  <1>3. Len(p.buffer) <= BufferSize /\ BufferSize \in Nat
    BY <1>1, BufferHasRoom DEF ParserTypes
  <1>4. Rank(p.state) \in 0..3
    BY DEF Rank
  <1> QED
    BY <1>2, <1>3, <1>4 DEF StepsLeft

\* ParseUntilComplete takes enough steps: once it is done the parser waits for bytes.
LEMMA UntilCompleteParses ==
    ASSUME NEW p, NEW y, NEW k, NEW F, Parses(p, y, k, F)
    PROVE  Parses(ParseUntilComplete(p), y, k, F) /\ Waits(ParseUntilComplete(p))
  <1> DEFINE last == 4 * (BufferSize + 1)
             g == CHOOSE h : IsRun(p, last, h)
  <1>0. BufferSize \in Nat /\ last \in Nat
    BY BufferHasRoom
  <1>1. ParseUntilComplete(p) = g[last]
    BY DEF ParseUntilComplete, IsRun
  <1>2. last = 4 * BufferSize + 4
    BY <1>0
  <1> HIDE DEF last
  <1>3. IsRun(p, last, g)
    BY <1>0, RunExists
  <1> HIDE DEF g
  <1>4. g[0] = ParseOneStep(p)
    BY <1>0, <1>3 DEF IsRun
  <1>5. ASSUME NEW n \in Nat, n + 1 <= last
        PROVE  g[n + 1] = ParseOneStep(g[n])
    <2>1. n + 1 \in 0..last /\ n + 1 # 0 /\ (n + 1) - 1 = n
      BY <1>0, <1>5
    <2> QED
      BY <1>3, <2>1 DEF IsRun
  <1> DEFINE Good(x, n) == /\ Parses(x, y, k, F)
                           /\ Waits(x) \/ StepsLeft(x) + n + 1 <= StepsLeft(p)
             T == {n \in Nat : n <= last => Good(g[n], n)}
  <1>6. StepsLeft(p) \in Nat /\ StepsLeft(p) <= 4 * BufferSize + 3
    BY StepsBounded
  <1>7. 0 \in T
    <2>1. Parses(g[0], y, k, F) /\ Advances(p, g[0])
      BY <1>4, StepParses
    <2>2. StepsLeft(g[0]) \in Nat
      BY <2>1, StepsBounded
    <2>3. Waits(g[0]) \/ StepsLeft(g[0]) + 0 + 1 <= StepsLeft(p)
      BY <1>6, <2>1, <2>2 DEF Advances
    <2> QED
      BY <2>1, <2>3
  <1>8. ASSUME NEW n \in Nat, n \in T
        PROVE  n + 1 \in T
    <2> SUFFICES ASSUME n + 1 <= last PROVE Good(g[n + 1], n + 1)
      OBVIOUS
    <2> DEFINE x == g[n]
               q == g[n + 1]
    <2>1. Good(x, n)
      BY <1>0, <1>8
    <2>2. q = ParseOneStep(x)
      BY <1>5
    <2> HIDE DEF x, q
    <2>3. Parses(q, y, k, F) /\ Advances(x, q)
      BY <2>1, <2>2, StepParses
    <2>4. StepsLeft(q) \in Nat /\ StepsLeft(x) \in Nat
      BY <2>1, <2>3, StepsBounded
    <2>5. Waits(q) \/ StepsLeft(q) + (n + 1) + 1 <= StepsLeft(p)
      <3>1. CASE Waits(x)
        BY <2>2, <3>1, WaitsStays
      <3>2. CASE ~Waits(x)
        BY <1>6, <2>1, <2>3, <2>4, <3>2 DEF Advances
      <3> QED
        BY <3>1, <3>2
    <2> QED
      BY <2>3, <2>5 DEF q
  <1> HIDE DEF T
  <1>9. last \in T
    BY <1>0, <1>7, <1>8, Induction
  <1>10. Good(g[last], last)
    BY <1>0, <1>9 DEF T
  <1>11. StepsLeft(g[last]) \in Nat
    BY <1>10, StepsBounded
  <1> QED
    BY <1>0, <1>1, <1>2, <1>6, <1>10, <1>11

-----------------------------------------------------------------------------
(***************************************************************************)
(* From read to read.                                                      *)
(***************************************************************************)

\* A parser between two reads
Between(p, y, k, F) ==
    Parses(p, y, k, F) /\ Waits(p) /\ p.readPos = 0 /\ p.frames = <<>>

\* A parser that was reset has found what is in no bytes.
LEMMA InitiallyBetween ==
    ASSUME NEW y, IsSequence(y)
    PROVE  Between(InitialParser, y, 0, <<>>)
  <1> DEFINE p == InitialParser
  <1>1. /\ p.state = "FindSync" /\ p.buffer = <<>> /\ p.readPos = 0 /\ p.frames = <<>>
        /\ DOMAIN p = {"state", "frameSize", "header", "buffer", "readPos", "userData", "frames"}
        /\ p = [field \in DOMAIN p |-> p[field]]
    BY DEF InitialParser
  <1> HIDE DEF p
  <1>2. IsParser(p)
    BY <1>1, Zenon DEF IsParser
  <1>3. IsSequence(<<>>) /\ Len(<<>>) = 0
    <2>1. <<>> \in Seq({})
      OBVIOUS
    <2> QED
      BY <2>1, MakesSequence
  <1>4. Len(y) \in Nat /\ BufferSize \in Nat
    BY SequenceFacts, BufferHasRoom
  <1>5. <<>> \in Seq(FramesOf(y))
    OBVIOUS
  <1>6. ParserTypes(p, y, 0)
    BY <1>1, <1>2, <1>3, <1>4, <1>5 DEF ParserTypes
  <1>7. BytesKept(p, y, 0)
    BY <1>1, <1>3 DEF BytesKept
  <1>8. Consumed(p, 0) + 1 = 1
    BY <1>1, <1>3 DEF Consumed, Gone
  <1>9. ASSUME NEW m \in 0..Len(y)
        PROVE  FramesIn(Prefix(y, m)) = (<<>> \o <<>>) \o FramesFrom(Prefix(y, m))[1]
    <2> DEFINE g == FramesFrom(Prefix(y, m))[1]
               S == FramesOf(y)
    <2>1. g \in Seq(S)
      <3>1. 1 \in 1..(m + 1)
        BY <1>4
      <3> QED
        BY <3>1, FromType
    <2> HIDE DEF g, S
    <2>2. (<<>> \o <<>>) \o g = g
      BY <2>1
    <2> QED
      BY <2>2 DEF g, FramesIn
  <1>10. FoundSoFar(p, y, 0, <<>>)
    BY <1>1, <1>5, <1>8, <1>9 DEF FoundSoFar
  <1>11. StateHolds(p, y, 0)
    BY <1>1 DEF StateHolds
  <1>12. Waits(p)
    BY <1>1, <1>3 DEF Waits, NumBytesRead, HeaderSize
  <1>13. Between(p, y, 0, <<>>)
    BY <1>1, <1>6, <1>7, <1>10, <1>11, <1>12 DEF Between, Parses
  <1> QED
    BY <1>13 DEF p

\* A parser that waits has found every frame in what was read.
LEMMA WaitsFoundAll ==
    ASSUME NEW p, NEW y, NEW k, NEW F, Between(p, y, k, F)
    PROVE  F = FramesIn(Prefix(y, k))
  <1>1. Parses(p, y, k, F) /\ Waits(p) /\ p.frames = <<>> /\ p.readPos = 0
    BY DEF Between
  <1>2. ParserTypes(p, y, k) /\ IsSequence(y) /\ StateHolds(p, y, k) /\ FoundSoFar(p, y, k, F)
    BY <1>1 DEF Parses, ParserTypes
  <1>3. PICK d \in Nat, n \in Nat, z \in Nat, a \in Nat, l \in Nat :
             /\ d = Gone(p, k) /\ n = Len(p.buffer) /\ z = p.readPos /\ a = Consumed(p, k) + 1
             /\ l = Len(y) /\ NumBytesRead(p) = n - z
             /\ k \in Nat /\ d + n = k /\ a = d + z + 1 /\ z <= n /\ a >= 1 /\ k <= l
    <2>1. ParserTypes(p, y, k)
      BY <1>2
    <2> QED
      <3>1. HasPlaces(p, y, k)
        BY <2>1, Places
      <3> QED
        BY <3>1, Zenon DEF HasPlaces
  <1>4. k \in Nat /\ d + n = k /\ a = d + z + 1 /\ z <= n /\ a >= 1 /\ k <= l
    BY <1>3
  <1>5. k \in 0..l /\ k \in k..l /\ a \in 1..(k + 1) /\ k + 1 \in a..(k + 1) /\ k + 1 \in 1..(k + 1)
        /\ k + 1 > k
    BY <1>4
  <1> DEFINE f == FramesFrom(Prefix(y, k))
  <1>6. f[a] = <<>>
    <2>1. CASE p.state \in {"FindSync", "ReadHeader"} /\ NumBytesRead(p) < HeaderSize
      <3>1. n - z < 4
        BY <1>3, <2>1 DEF HeaderSize
      <3>2. \A x \in a..(k + 1 - 1) : ~(x + 3 <= k /\ HeaderAt(y, x))
        BY <1>4, <3>1
      <3>3. f[a] = f[k + 1]
        BY <1>2, <1>3, <1>5, <3>2, FromSkips
      <3>4. f[k + 1] = <<>>
        BY <1>2, <1>3, <1>5, FromHere
      <3> QED
        BY <3>3, <3>4
    <2>2. CASE p.state = "ReadBody" /\ NumBytesRead(p) < p.frameSize
      <3>1. HeaderAt(y, a) /\ a + 3 <= k /\ p.frameSize = SizeAt(y, a)
        <4>1. LET x == Consumed(p, k) + 1 IN
              HeaderAt(y, x) /\ x + 3 <= k /\ p.frameSize = SizeAt(y, x)
          BY <1>2, <2>2 DEF StateHolds
        <4> QED
          BY <1>3, <4>1, Zenon
      <3> DEFINE w == SizeAt(y, a)
      <3>2. w \in Nat
        BY <3>1, HeaderSizes
      <3> HIDE DEF w
      <3>3. n - z < w
        BY <1>3, <2>2, <3>1 DEF w
      <3>4. a + w - 1 > k
        BY <1>4, <3>2, <3>3
      <3> QED
        BY <1>2, <1>3, <1>5, <3>1, <3>4, FromHere DEF w
    <2> QED
      BY <1>1, <2>1, <2>2 DEF Waits
  <1>7. FramesIn(Prefix(y, k)) = (F \o p.frames) \o f[a]
    BY <1>2, <1>3, <1>5 DEF FoundSoFar
  <1> DEFINE S == FramesOf(y)
  <1>8. F \in Seq(S)
    BY <1>2 DEF FoundSoFar
  <1> HIDE DEF S, f
  <1>9. (F \o <<>>) \o <<>> = F
    BY <1>8
  <1> QED
    BY <1>1, <1>6, <1>7, <1>9

\* A parser that waits has room for another byte.
LEMMA WaitsHasRoom ==
    ASSUME NEW p, NEW y, NEW k, NEW F, Between(p, y, k, F)
    PROVE  NumWriteBytes(p) > 0
  <1>1. Parses(p, y, k, F) /\ Waits(p) /\ p.readPos = 0
    BY DEF Between
  <1>2. ParserTypes(p, y, k) /\ StateHolds(p, y, k)
    BY <1>1 DEF Parses
  <1>3. Len(p.buffer) \in Nat /\ NumBytesRead(p) = Len(p.buffer)
    BY <1>1, <1>2, ParserNumbers DEF NumBytesRead
  <1>4. BufferSize \in Nat /\ HeaderSize < BufferSize /\ HeaderSize = 4
    BY BufferHasRoom DEF HeaderSize
  <1>5. CASE p.state \in {"FindSync", "ReadHeader"} /\ NumBytesRead(p) < HeaderSize
    BY <1>3, <1>4, <1>5 DEF NumWriteBytes
  <1>6. CASE p.state = "ReadBody" /\ NumBytesRead(p) < p.frameSize
    <2> DEFINE a == Consumed(p, k) + 1
    <2>1. HeaderAt(y, a) /\ p.frameSize = SizeAt(y, a)
      BY <1>2, <1>6 DEF StateHolds
    <2>2. a \in Nat
      BY <1>2, ParserNumbers
    <2> HIDE DEF a
    <2>3. SizeAt(y, a) \in Nat /\ SizeAt(y, a) <= BufferSize
      BY <2>1, <2>2, HeaderSizes
    <2>4. Len(p.buffer) < BufferSize
      BY <1>3, <1>4, <1>6, <2>1, <2>3
    <2> QED
      BY <1>3, <1>4, <2>4 DEF NumWriteBytes
  <1> QED
    BY <1>1, <1>5, <1>6 DEF Waits

Concatenates(s, t, S) ==
    /\ s \o t \in Seq(S) /\ Len(s \o t) = Len(s) + Len(t)
    /\ \A i \in 1..(Len(s) + Len(t)) : (s \o t)[i] = IF i <= Len(s) THEN s[i] ELSE t[i - Len(s)]

\* Concatenation: its length and its members.
LEMMA Concatenation ==
    ASSUME NEW S, NEW s \in Seq(S), NEW t \in Seq(S)
    PROVE  Concatenates(s, t, S)
  BY ConcatProperties DEF Concatenates

\* The bytes of a read are added to those that are left of the previous ones.
LEMMA WrittenParses ==
    ASSUME NEW x, NEW y, NEW k, NEW F, Between(x, y, k, F),
           NEW n \in Nat, n <= NumWriteBytes(x), k + n <= Len(y)
    PROVE  Parses([x EXCEPT !.buffer = @ \o SubSeq(y, k + 1, k + n), !.frames = <<>>], y, k + n, F)
  <1>1. Parses(x, y, k, F) /\ Waits(x) /\ x.frames = <<>> /\ x.readPos = 0
    BY DEF Between
  <1>2. /\ ParserTypes(x, y, k) /\ BytesKept(x, y, k) /\ StateHolds(x, y, k)
        /\ FoundSoFar(x, y, k, F)
    BY <1>1 DEF Parses
  <1>3. IsParser(x) /\ IsSequence(y) /\ IsSequence(x.buffer)
    BY <1>2 DEF ParserTypes
  <1> DEFINE b == x.buffer
             t == SubSeq(y, k + 1, k + n)
             c == b \o t
             j == Len(b)
             l == Len(y)
             p == [x EXCEPT !.buffer = c, !.frames = <<>>]
  <1>4. k \in Nat /\ j \in Nat /\ l \in Nat /\ j <= k /\ k <= l
    <2>1. j <= k
      BY <1>2 DEF ParserTypes
    <2> QED
      BY <1>2, <2>1, ParserNumbers
  <1>5. BufferSize \in Nat /\ j + n <= BufferSize
    <2>1. BufferSize \in Nat /\ n <= BufferSize - j
      BY BufferHasRoom DEF NumWriteBytes
    <2> HIDE DEF j
    <2> QED
      BY <1>4, <2>1
  <1>6. IsSequence(t) /\ Len(t) = n /\ \A i \in 1..n : t[i] = y[k + i]
    <2> DEFINE u == k + 1
               v == k + n
    <2>0. u \in Int /\ v \in Int /\ v - u + 1 = n
      BY <1>4
    <2>1. t = SubSeq(y, u, v)
      OBVIOUS
    <2> HIDE DEF u, v, t
    <2>2. /\ IsSequence(t) /\ Len(t) = (IF u <= v THEN v - u + 1 ELSE 0)
          /\ \A i \in 1..(v - u + 1) : t[i] = y[u + i - 1]
      BY <2>0, <2>1, Part
    <2>3. Len(t) = n
      BY <2>0, <2>2
    <2>4. ASSUME NEW i \in 1..n
          PROVE  t[i] = y[k + i]
      <3>1. u + i - 1 = k + i
        BY <1>4 DEF u
      <3> QED
        BY <2>0, <2>2, <3>1
    <2> QED
      BY <2>2, <2>3, <2>4
  <1>7. IsSequence(c) /\ Len(c) = j + n /\ \A i \in 1..(j + n) : c[i] = IF i <= j THEN b[i] ELSE t[i - j]
    <2> DEFINE S == {b[i] : i \in DOMAIN b} \cup {t[i] : i \in DOMAIN t}
    <2>1. b \in Seq(S) /\ t \in Seq(S)
      <3>1. b \in Seq({b[i] : i \in DOMAIN b}) /\ t \in Seq({t[i] : i \in DOMAIN t})
        BY <1>3, <1>6 DEF IsSequence
      <3> DEFINE U == {b[i] : i \in DOMAIN b}
                 V == {t[i] : i \in DOMAIN t}
      <3>2. U \subseteq S /\ V \subseteq S
        OBVIOUS
      <3>3. b \in Seq(U) /\ t \in Seq(V)
        BY <3>1
      <3> HIDE DEF S, U, V, b, t
      <3> QED
        BY <3>2, <3>3
    <2> HIDE DEF S, b, t
    <2>2. /\ c \in Seq(S) /\ Len(c) = Len(b) + Len(t)
          /\ \A i \in 1..(Len(b) + Len(t)) : c[i] = IF i <= Len(b) THEN b[i] ELSE t[i - Len(b)]
      <3>1. Concatenates(b, t, S)
        BY <2>1, Concatenation
      <3> QED
        BY ONLY <3>1 DEF Concatenates
    <2> HIDE DEF c
    <2>3. IsSequence(c)
      BY <2>2, MakesSequence
    <2>4. Len(b) = j /\ Len(t) = n
      BY <1>6
    <2> HIDE DEF j
    <2> QED
      BY <2>2, <2>3, <2>4
  <1>8. /\ p.buffer = c /\ p.frames = <<>> /\ p.readPos = 0 /\ p.state = x.state
        /\ p.header = x.header /\ p.frameSize = x.frameSize
        /\ DOMAIN p = DOMAIN x /\ p = [field \in DOMAIN p |-> p[field]]
    <2> HIDE DEF c
    <2> QED
      BY <1>1, <1>3 DEF IsParser
  <1>9. p = [x EXCEPT !.buffer = @ \o SubSeq(y, k + 1, k + n), !.frames = <<>>]
    BY <1>3 DEF IsParser
  <1> HIDE DEF p, c, t, b, j, l
  <1>10. IsParser(p)
    BY <1>3, <1>8, Zenon DEF IsParser
  <1>11. x.state \in {"FindSync", "ReadHeader", "ReadBody"}
    BY <1>1 DEF Waits
  <1>12. Gone(x, k) = k - j /\ Gone(p, k + n) = k - j /\ Consumed(x, k) = k - j /\ Consumed(p, k + n) = k - j
    <2>1. Gone(x, k) = k - j /\ Gone(p, k + n) = (k + n) - (j + n)
      BY <1>7, <1>8 DEF Gone, j, b
    <2>2. (k + n) - (j + n) = k - j /\ k - j + 0 = k - j
      BY <1>4
    <2> QED
      BY <1>1, <1>8, <2>1, <2>2 DEF Consumed
  <1>13. ParserTypes(p, y, k + n)
    <2>1. k + n \in 0..l /\ j + n <= k + n /\ 0 \in 0..(j + n)
      BY <1>4 DEF l
    <2>2. p.frames \in Seq(FramesOf(y))
      BY <1>8
    <2> QED
      BY <1>3, <1>5, <1>7, <1>8, <1>10, <1>11, <2>1, <2>2 DEF ParserTypes, l
  <1>14. BytesKept(p, y, k + n)
    <2> SUFFICES ASSUME NEW i \in 1..(j + n)
                 PROVE  c[i] = y[(k - j) + i]
      BY <1>7, <1>8, <1>12 DEF BytesKept
    <2>1. CASE i <= j
      <3>1. i \in 1..j /\ c[i] = b[i]
        BY <1>4, <1>7, <2>1
      <3>2. b[i] = y[Gone(x, k) + i]
        BY <1>1, <1>2, <1>11, <3>1 DEF BytesKept, b, j
      <3> QED
        BY <1>12, <3>1, <3>2
    <2>2. CASE ~(i <= j)
      <3>1. i - j \in 1..n /\ k + (i - j) = (k - j) + i
        BY <1>4, <2>2
      <3>2. c[i] = t[i - j] /\ t[i - j] = y[k + (i - j)]
        BY <1>6, <1>7, <2>2, <3>1
      <3> QED
        BY <3>1, <3>2
    <2> QED
      BY <2>1, <2>2
  <1>15. FoundSoFar(p, y, k + n, F)
    <2> SUFFICES ASSUME NEW m \in (k + n)..l
                 PROVE  FramesIn(Prefix(y, m))
                          = (F \o <<>>) \o FramesFrom(Prefix(y, m))[(k - j) + 1]
      BY <1>2, <1>8, <1>12 DEF FoundSoFar, l
    <2>1. m \in k..l
      BY <1>4
    <2> QED
      BY <1>1, <1>2, <1>12, <2>1 DEF FoundSoFar, l
  <1>16. StateHolds(p, y, k + n)
    <2> DEFINE a == (k - j) + 1
    <2>1. a \in Int /\ (a + 1 <= k => a + 1 <= k + n) /\ (a + 3 <= k => a + 3 <= k + n)
      BY <1>4
    <2>2. /\ x.state = "ReadHeader" => SubSeq(y, a, a + 1) = Start /\ a + 1 <= k
          /\ x.state = "ReadBody" =>
                HeaderAt(y, a) /\ a + 3 <= k /\ x.header = y[a + 2] /\ x.frameSize = SizeAt(y, a)
      BY <1>2, <1>12 DEF StateHolds
    <2> HIDE DEF a
    <2>3. Consumed(p, k + n) + 1 = a
      BY <1>12 DEF a
    <2>4. p.state # "Complete"
      BY <1>8, <1>11
    <2>5. /\ p.state = "ReadHeader" => SubSeq(y, a, a + 1) = Start /\ a + 1 <= k + n
          /\ p.state = "ReadBody" =>
                HeaderAt(y, a) /\ a + 3 <= k + n /\ p.header = y[a + 2] /\ p.frameSize = SizeAt(y, a)
      BY <1>8, <2>1, <2>2
    <2> QED
      BY <2>3, <2>4, <2>5 DEF StateHolds
  <1>17. Parses(p, y, k + n, F)
    BY <1>13, <1>14, <1>15, <1>16 DEF Parses
  <1> QED
    BY <1>9, <1>17

\* What Shift leaves alone.
LEMMA ShiftFields ==
    ASSUME NEW q, IsParser(q)
    PROVE  \E s : /\ s = [Shift(q) EXCEPT !.frames = <<>>] /\ IsParser(s)
                  /\ s.buffer = SubSeq(q.buffer, q.readPos + 1, Len(q.buffer)) /\ s.readPos = 0
                  /\ s.state = q.state /\ s.frames = <<>> /\ Shift(q).frames = q.frames
                  /\ q.state = "ReadBody" => s.header = q.header /\ s.frameSize = q.frameSize
  <1> DEFINE b == SubSeq(q.buffer, q.readPos + 1, Len(q.buffer))
             h == IF q.state = "ReadBody" THEN q.header ELSE <<>>
             f == IF q.state = "ReadBody" THEN q.frameSize ELSE 0
             o == [q EXCEPT !.buffer = b, !.readPos = 0, !.userData = <<>>,
                            !.header = h, !.frameSize = f]
             s == [o EXCEPT !.frames = <<>>]
  <1>1. o = Shift(q)
    BY DEF IsParser, Shift
  <1> HIDE DEF b, h, f
  <1>2. DOMAIN o = DOMAIN q /\ o.frames = q.frames /\ o.state = q.state /\ o.buffer = b
        /\ o.readPos = 0 /\ o.header = h /\ o.frameSize = f
    BY DEF IsParser
  <1> HIDE DEF o
  <1>3. /\ s.readPos = 0 /\ s.state = q.state /\ s.frames = <<>>
        /\ s.header = h /\ s.frameSize = f /\ s.buffer = b
        /\ DOMAIN s = DOMAIN q /\ s = [field \in DOMAIN s |-> s[field]]
    BY <1>2 DEF IsParser
  <1>4. s = [Shift(q) EXCEPT !.frames = <<>>]
    BY <1>1
  <1>5. q.state = "ReadBody" => s.header = q.header /\ s.frameSize = q.frameSize
    BY <1>3 DEF h, f
  <1> HIDE DEF s
  <1>6. IsParser(s)
    BY <1>3, Zenon DEF IsParser
  <1> QED
    BY <1>1, <1>2, <1>3, <1>4, <1>5, <1>6 DEF b

\* Shift drops what was read and nothing else.
LEMMA ShiftBetween ==
    ASSUME NEW q, NEW y, NEW k, NEW F, Parses(q, y, k, F), Waits(q)
    PROVE  Between([Shift(q) EXCEPT !.frames = <<>>], y, k, F \o Shift(q).frames)
  <1>1. ParserTypes(q, y, k)
    BY DEF Parses
  <1>2. IsParser(q) /\ IsSequence(y) /\ BytesKept(q, y, k) /\ FoundSoFar(q, y, k, F)
        /\ StateHolds(q, y, k)
    BY <1>1 DEF Parses, ParserTypes
  <1>3. PICK d \in Nat, n \in Nat, z \in Nat, a \in Nat, l \in Nat :
             /\ d = Gone(q, k) /\ n = Len(q.buffer) /\ z = q.readPos /\ a = Consumed(q, k) + 1
             /\ l = Len(y) /\ NumBytesRead(q) = n - z
             /\ k \in Nat /\ d + n = k /\ a = d + z + 1 /\ z <= n /\ a >= 1 /\ k <= l
    <2>1. HasPlaces(q, y, k)
      BY <1>1, Places
    <2> QED
      BY <2>1, Zenon DEF HasPlaces
  <1>4. k \in Nat /\ d + n = k /\ a = d + z + 1 /\ z <= n /\ a >= 1 /\ k <= l
    BY <1>3
  <1>5. PICK s : /\ s = [Shift(q) EXCEPT !.frames = <<>>] /\ IsParser(s)
                 /\ s.buffer = SubSeq(q.buffer, q.readPos + 1, Len(q.buffer)) /\ s.readPos = 0
                 /\ s.state = q.state /\ s.frames = <<>> /\ Shift(q).frames = q.frames
                 /\ q.state = "ReadBody" => s.header = q.header /\ s.frameSize = q.frameSize
    BY <1>2, ShiftFields
  <1>6. q.state \in {"FindSync", "ReadHeader", "ReadBody"}
    BY DEF Waits
  <1> DEFINE b == s.buffer
             G == F \o q.frames
  <1>7. IsSequence(b) /\ Len(b) = n - z /\ \A i \in 1..(n - z) : b[i] = q.buffer[z + i]
    <2> DEFINE u == z + 1
    <2>0. u \in Int /\ n \in Int /\ n - u + 1 = n - z
      BY <1>4
    <2>1. b = SubSeq(q.buffer, u, n)
      BY <1>3, <1>5
    <2> DEFINE c == q.buffer
    <2> HIDE DEF u, b, c
    <2>2. /\ IsSequence(b) /\ Len(b) = (IF u <= n THEN n - u + 1 ELSE 0)
          /\ \A i \in 1..(n - u + 1) : b[i] = c[u + i - 1]
      BY <2>0, <2>1, Part DEF c
    <2>3. Len(b) = n - z
      BY <1>4, <2>0, <2>2 DEF u
    <2>4. ASSUME NEW i \in 1..(n - z)
          PROVE  b[i] = c[z + i]
      <3>1. u + i - 1 = z + i
        BY <1>4 DEF u
      <3> QED
        BY <2>0, <2>2, <3>1
    <2> QED
      BY <2>2, <2>3, <2>4 DEF c
  <1>8. Gone(s, k) = d + z /\ Consumed(s, k) + 1 = a /\ NumBytesRead(s) = n - z
    <2>1. Gone(s, k) = k - (n - z)
      BY <1>7 DEF Gone
    <2>2. k - (n - z) = d + z /\ d + z + 0 + 1 = a /\ n - z - 0 = n - z
      BY <1>4
    <2> QED
      BY <1>5, <1>7, <2>1, <2>2 DEF Consumed, NumBytesRead
  <1>9. q.frames \in Seq(FramesOf(y)) /\ F \in Seq(FramesOf(y))
    BY <1>1, <1>2 DEF ParserTypes, FoundSoFar
  <1>10. G \in Seq(FramesOf(y)) /\ G \o <<>> = G
    <2> DEFINE S == FramesOf(y)
               t == q.frames
    <2>1. t \in Seq(S) /\ F \in Seq(S)
      BY <1>9
    <2> HIDE DEF S, t
    <2>2. F \o t \in Seq(S)
      BY <2>1
    <2>3. (F \o t) \o <<>> = F \o t
      BY <2>2
    <2> QED
      BY <2>2, <2>3 DEF S, t
  <1> HIDE DEF G
  <1>11. ParserTypes(s, y, k)
    <2>1. k \in 0..l /\ n - z \in Nat /\ n - z <= k /\ 0 \in 0..(n - z)
      BY <1>4
    <2>2. n <= BufferSize /\ BufferSize \in Nat
      BY <1>1, <1>3, BufferHasRoom DEF ParserTypes
    <2>3. n - z <= BufferSize
      BY <1>4, <2>2
    <2>4. <<>> \in Seq(FramesOf(y))
      OBVIOUS
    <2> QED
      BY <1>2, <1>3, <1>5, <1>6, <1>7, <2>1, <2>3, <2>4 DEF ParserTypes
  <1>12. BytesKept(s, y, k)
    <2> SUFFICES ASSUME NEW i \in 1..(n - z)
                 PROVE  b[i] = y[(d + z) + i]
      BY <1>5, <1>7, <1>8 DEF BytesKept
    <2>1. z + i \in (z + 1)..n /\ d + (z + i) = (d + z) + i
      BY <1>4
    <2>2. q.buffer[z + i] = y[d + (z + i)]
      BY <1>2, <1>3, <1>6, <2>1 DEF BytesKept
    <2> QED
      BY <1>7, <2>1, <2>2
  <1>13. FoundSoFar(s, y, k, G)
    <2> SUFFICES ASSUME NEW m \in k..Len(y)
                 PROVE  FramesIn(Prefix(y, m)) = (G \o <<>>) \o FramesFrom(Prefix(y, m))[a]
      BY <1>5, <1>8, <1>10 DEF FoundSoFar
    <2> QED
      BY <1>2, <1>3, <1>10 DEF FoundSoFar, G
  <1>14. StateHolds(s, y, k)
    <2>1. /\ q.state = "ReadHeader" => SubSeq(y, a, a + 1) = Start /\ a + 1 <= k
          /\ q.state = "ReadBody" =>
                HeaderAt(y, a) /\ a + 3 <= k /\ q.header = y[a + 2] /\ q.frameSize = SizeAt(y, a)
      BY <1>2, <1>3 DEF StateHolds
    <2>2. s.state # "Complete"
      BY <1>5, <1>6
    <2> QED
      BY <1>5, <1>8, <2>1, <2>2 DEF StateHolds
  <1>15. Waits(s)
    BY <1>3, <1>5, <1>8 DEF Waits
  <1>16. Between(s, y, k, G)
    BY <1>5, <1>11, <1>12, <1>13, <1>14, <1>15 DEF Between, Parses
  <1> QED
    BY <1>5, <1>16 DEF G

\* A read finds the frames that its bytes complete.
LEMMA OnReadBetween ==
    ASSUME NEW x, NEW y, NEW k, NEW F, Between(x, y, k, F),
           NEW n \in Nat, n <= NumWriteBytes(x), k + n <= Len(y),
           NEW p, p = OnRead(x, SubSeq(y, k + 1, k + n))
    PROVE  Between([p EXCEPT !.frames = <<>>], y, k + n, F \o p.frames)
  <1> DEFINE w == [x EXCEPT !.buffer = @ \o SubSeq(y, k + 1, k + n), !.frames = <<>>]
             q == ParseUntilComplete(w)
  <1>1. p = Shift(q)
    BY DEF OnRead
  <1>2. Parses(w, y, k + n, F)
    BY WrittenParses
  <1> HIDE DEF w
  <1>3. Parses(q, y, k + n, F) /\ Waits(q)
    BY <1>2, UntilCompleteParses
  <1> HIDE DEF q
  <1> QED
    BY <1>1, <1>3, ShiftBetween

-----------------------------------------------------------------------------
(***************************************************************************)
(* The parser of the channel.                                              *)
(***************************************************************************)

\* The connection x of scenario c sends one of its streams; the parser p is between two
\* reads and r has the frames that it found.
Receives(c, p, x, r) ==
    /\ DOMAIN x = {"life", "stream", "read"} /\ DOMAIN r = {"frames", "messages", "since"}
    /\ x.life \in 0..(Lives - 1) /\ x.stream \in c.streams
    /\ Between(p, StreamOf(x.stream, x.life).bytes, x.read, r.frames)

ParserInv == scenario \in Scenarios /\ Receives(scenario, parser, peer, received)

\* A new connection starts with a parser that was reset.
LEMMA NewReceives ==
    ASSUME NEW c \in Scenarios, NEW x, DOMAIN x = {"life", "stream", "read"},
           x.life \in 0..(Lives - 1), x.stream \in c.streams, x.read = 0
    PROVE  Receives(c, InitialParser, x, Nothing)
  <1>1. IsSequence(StreamOf(x.stream, x.life).bytes)
    BY StreamAssumption
  <1>2. Between(InitialParser, StreamOf(x.stream, x.life).bytes, 0, <<>>)
    BY <1>1, InitiallyBetween
  <1>3. DOMAIN Nothing = {"frames", "messages", "since"} /\ Nothing.frames = <<>>
    BY DEF Nothing
  <1> QED
    BY <1>2, <1>3 DEF Receives

\* Whatever the handler does, the parser goes on with the connection or is reset with it.
LEMMA BecomesReceives ==
    ASSUME ParserInv, NEW opens, NEW h, Becomes(opens, h)
    PROVE  ParserInv'
  <1> DEFINE c == scenario
  <1>0. c \in Scenarios /\ Receives(c, parser, peer, received)
    BY DEF ParserInv
  <1>1. /\ DOMAIN peer = {"life", "stream", "read"} /\ DOMAIN received = {"frames", "messages", "since"}
        /\ peer.life \in 0..(Lives - 1) /\ peer.stream \in c.streams
    BY <1>0 DEF Receives
  <1>2. CASE Keeps(h) /\ h.channel
    <2>1. parser' = parser /\ peer' = peer /\ scenario' = scenario
      BY <1>2 DEF Keeps
    <2>2. \E a, b : received' = [received EXCEPT !.messages = a, !.since = b]
      BY <1>2 DEF Keeps
    <2>3. received'.frames = received.frames /\ DOMAIN received' = DOMAIN received
      BY <1>1, <2>2
    <2> QED
      BY <1>0, <1>1, <2>1, <2>3 DEF ParserInv, Receives
  <1>3. CASE Keeps(h) /\ ~h.channel
    <2> DEFINE x == [peer EXCEPT !.read = 0]
    <2>1. parser' = InitialParser /\ peer' = x /\ scenario' = scenario /\ received' = Nothing
      BY <1>3 DEF Keeps
    <2>2. DOMAIN x = DOMAIN peer /\ x.life = peer.life /\ x.stream = peer.stream /\ x.read = 0
      BY <1>1
    <2> HIDE DEF x
    <2>3. Receives(c, InitialParser, x, Nothing)
      BY <1>0, <1>1, <2>2, NewReceives
    <2> QED
      BY <1>0, <2>1, <2>3 DEF ParserInv
  <1>4. CASE Connects(h)
    <2>1. parser' = InitialParser /\ scenario' = scenario /\ received' = Nothing
      BY <1>4 DEF Connects
    <2>2. PICK name \in c.streams : peer' = [life |-> (peer.life + 1) % Lives, stream |-> name, read |-> 0]
      BY <1>4 DEF Connects
    <2>3. (peer.life + 1) % Lives \in 0..(Lives - 1)
      BY <1>1, ChannelAssumption
    <2>4. DOMAIN peer' = {"life", "stream", "read"} /\ peer'.life \in 0..(Lives - 1)
          /\ peer'.stream \in c.streams /\ peer'.read = 0
      BY <2>2, <2>3
    <2>5. Receives(c, InitialParser, peer', Nothing)
      BY <1>0, <2>4, NewReceives
    <2> QED
      BY <1>0, <2>1, <2>5 DEF ParserInv
  <1> QED
    BY <1>2, <1>3, <1>4 DEF Becomes

\* A read of the channel
LEMMA ReadReceives ==
    ASSUME ParserInv, NEW n \in 1..BufferSize, Read(n)
    PROVE  ParserInv'
  <1> DEFINE y == Stream.bytes
             k == peer.read
             F == received.frames
  <1>0. scenario \in Scenarios /\ Receives(scenario, parser, peer, received)
    BY DEF ParserInv
  <1>1. /\ DOMAIN peer = {"life", "stream", "read"} /\ DOMAIN received = {"frames", "messages", "since"}
        /\ peer.life \in 0..(Lives - 1) /\ peer.stream \in scenario.streams
        /\ Between(parser, y, k, F)
    BY <1>0 DEF Receives, Stream
  <1>2. n \in Nat /\ n <= NumWriteBytes(parser) /\ k + n <= Len(y) /\ scenario' = scenario
    BY BufferHasRoom DEF Read
  <1>3. PICK p : /\ p = OnRead(parser, SubSeq(y, k + 1, k + n))
                 /\ parser' = [p EXCEPT !.frames = <<>>]
                 /\ \E a : received' = [received EXCEPT !.frames = F \o p.frames, !.messages = a]
    BY <1>1 DEF Read
  <1>4. peer' = [peer EXCEPT !.read = k + n]
    BY DEF Read
  <1>5. /\ DOMAIN peer' = DOMAIN peer /\ peer'.life = peer.life /\ peer'.stream = peer.stream
        /\ peer'.read = k + n
    BY <1>1, <1>4
  <1>6. DOMAIN received' = DOMAIN received /\ received'.frames = F \o p.frames
    BY <1>1, <1>3
  <1>7. Between([p EXCEPT !.frames = <<>>], y, k + n, F \o p.frames)
    <2> HIDE DEF y, k, F
    <2> QED
      BY <1>1, <1>2, <1>3, OnReadBetween
  <1>8. Receives(scenario, parser', peer', received')
    BY <1>1, <1>3, <1>5, <1>6, <1>7 DEF Receives, Stream
  <1> QED
    BY <1>0, <1>2, <1>8 DEF ParserInv

\* The invariant holds initially.
LEMMA ParserInit == Init => ParserInv
  <1> SUFFICES ASSUME Init PROVE ParserInv
    OBVIOUS
  <1>1. scenario \in Scenarios /\ parser = InitialParser /\ received = Nothing
    BY DEF Init
  <1>2. PICK name \in scenario.streams : peer = [life |-> 0, stream |-> name, read |-> 0]
    BY DEF Init
  <1>3. 0 \in 0..(Lives - 1)
    BY ChannelAssumption
  <1>4. DOMAIN peer = {"life", "stream", "read"} /\ peer.life \in 0..(Lives - 1)
        /\ peer.stream \in scenario.streams /\ peer.read = 0
    BY <1>2, <1>3
  <1> QED
    BY <1>1, <1>4, NewReceives DEF ParserInv

\* Every action either reads or applies an operation to the handler.
LEMMA ParserNext == ParserInv /\ [Next]_vars => ParserInv'
  <1> SUFFICES ASSUME ParserInv, [Next]_vars PROVE ParserInv'
    OBVIOUS
  <1>1. CASE \E n \in 1..BufferSize : Read(n)
    BY <1>1, ReadReceives
  <1>2. CASE \E opens, h : Becomes(opens, h)
    BY <1>2, BecomesReceives
  <1>3. CASE UNCHANGED vars
    BY <1>3 DEF vars, ParserInv
  <1>4. CASE Next
    BY <1>1, <1>2, <1>4 DEF Next, AddSession, EnableSession, DisableSession, RemoveSession,
       Transmit, ShutdownChannel, WriteComplete, ChannelError, ConnectResult,
       StaleConnectResult, Accept, AcceptError, RetryExpires, Retry
  <1> QED
    BY <1>3, <1>4

\* The invariant of the parser is an invariant of the channel.
LEMMA ChannelParserInv == Spec => []ParserInv
  BY ParserInit, ParserNext, PTL DEF Spec

\* The handler, the parser and what is kept of a connection have their declared types,
\* for any streams that peers may send: between two reads LinkLayerParser is in none but
\* its three waiting states and ShiftableBuffer was shifted to its start.
THEOREM TypeTheorem == Spec => []TypeOK
  <1>1. Inv /\ ParserInv => TypeOK
    <2> SUFFICES ASSUME Inv, ParserInv PROVE TypeOK
      OBVIOUS
    <2>1. io \in Handler /\ scenario \in Scenarios
      BY DEF Inv, HInv, Open
    <2>2. peer.life \in 0..(Lives - 1) /\ Between(parser, Stream.bytes, peer.read, received.frames)
      BY DEF ParserInv, Receives, Stream
    <2>3. parser.state \in {"FindSync", "ReadHeader", "ReadBody"} /\ parser.readPos = 0
      BY <2>2 DEF Between, Waits
    <2>4. peer.read \in 0..Len(Stream.bytes)
      BY <2>2 DEF Between, Parses, ParserTypes
    <2> QED
      BY <2>1, <2>2, <2>3, <2>4 DEF TypeOK
  <1> QED
    BY <1>1, ChannelInv, ChannelParserInv, PTL

\* LinkLayerParser's buffer always has room for another read, whatever bytes come in
\* and however they are cut into reads.
THEOREM RoomTheorem == Spec => []ReadHasRoom
  <1>1. ParserInv => ReadHasRoom
    BY WaitsHasRoom DEF ParserInv, Receives, ReadHasRoom
  <1> QED
    BY <1>1, ChannelParserInv, PTL

\* LinkLayerParser pushes exactly the frames that are in the bytes of this connection,
\* in order and each once, for any bytes and any way of cutting them into reads,
\* although user data is unpacked into the buffer that is being read and although the
\* search goes on inside a frame whose body fails its CRC.
THEOREM FramesTheorem == Spec => []FramesAsSent
  <1>1. ParserInv => FramesAsSent
    <2> SUFFICES ASSUME ParserInv
                 PROVE  received.frames = FramesIn(SubSeq(Stream.bytes, 1, peer.read))
      BY DEF FramesAsSent
    <2>1. Between(parser, Stream.bytes, peer.read, received.frames)
      BY DEF ParserInv, Receives, Stream
    <2> QED
      BY <2>1, WaitsFoundAll DEF Prefix
  <1> QED
    BY <1>1, ChannelParserInv, PTL

-----------------------------------------------------------------------------
(***************************************************************************)
(* Segments of messages.                                                   *)
(***************************************************************************)

\* The smaller of two numbers
LEMMA MinOfTwo ==
    ASSUME NEW a \in Int, NEW b \in Int
    PROVE  Min({a, b}) = IF a <= b THEN a ELSE b
  <1> DEFINE c == IF a <= b THEN a ELSE b
  <1>1. c \in {a, b} /\ \A y \in {a, b} : c <= y
    OBVIOUS
  <1>2. ASSUME NEW d \in {a, b}, \A y \in {a, b} : d <= y
        PROVE  d = c
    BY <1>2
  <1> QED
    BY <1>1, <1>2 DEF Min

\* The number of segments is the least that holds the message.
LEMMA SegmentCounts ==
    ASSUME NEW m, IsSequence(m)
    PROVE  /\ SegmentCount(m) \in Nat /\ Len(m) <= SegmentCount(m) * MaxSegment
           /\ \A g \in Nat : g < SegmentCount(m) => g * MaxSegment < Len(m)
  <1> DEFINE n == Len(m)
             M == MaxSegment
             a == n + M - 1
             q == a \div M
  <1>1. n \in Nat
    BY SequenceFacts
  <1>2. M \in Nat /\ M > 0
    BY FramingAssumption
  <1>3. SegmentCount(m) = q
    BY DEF SegmentCount
  <1> HIDE DEF n, M
  <1>4. a \in Nat
    BY <1>1, <1>2
  <1>5. q \in Int /\ q * M <= a /\ a < (q + 1) * M
    <2> HIDE DEF a
    <2> QED
      BY <1>2, <1>4
  <1>6. n = a - M + 1
    BY <1>1, <1>2
  <1> HIDE DEF a, q
  <1>7. q >= 0
    <2> SUFFICES ASSUME q < 0 PROVE FALSE
      BY <1>5
    <2>1. q + 1 <= 0
      BY <1>5
    <2>2. (q + 1) * M <= 0
      BY <1>2, <1>5, <2>1
    <2> QED
      BY <1>2, <1>4, <1>5, <2>2
  <1>8. (q + 1) * M = q * M + M
    BY <1>2, <1>5
  <1>9. n <= q * M
    <2> DEFINE z == q * M
    <2>1. z \in Int /\ a < z + M
      BY <1>2, <1>5, <1>8
    <2> HIDE DEF z
    <2>2. n <= z
      BY <1>2, <1>4, <1>6, <2>1
    <2> QED
      BY <2>2 DEF z
  <1>10. ASSUME NEW g \in Nat, g < q
         PROVE  g * M < n
    <2>1. (g + 1) * M <= q * M
      <3>1. q - (g + 1) >= 0 /\ q - (g + 1) \in Int
        BY <1>5, <1>10
      <3>2. (q - (g + 1)) * M >= 0
        BY <1>2, <3>1
      <3>3. (q - (g + 1)) * M = q * M - (g + 1) * M
        BY <1>2, <1>5
      <3> QED
        BY <1>2, <1>5, <3>2, <3>3
    <2>2. (g + 1) * M = g * M + M
      BY <1>2
    <2> DEFINE z == g * M
               w == q * M
    <2>3. z \in Int /\ w \in Int /\ z + M <= w /\ w <= a
      BY <1>2, <1>5, <2>1, <2>2
    <2> HIDE DEF z, w
    <2>4. z < n
      BY <1>2, <1>4, <1>6, <2>3
    <2> QED
      BY <2>4 DEF z
  <1> QED
    BY <1>3, <1>5, <1>7, <1>9, <1>10 DEF n, M

\* The first g segments of a message
UpTo(m, g) == SubSeq(m, 1, Min({Len(m), g * MaxSegment}))

\* The payload of segment g
Payload(m, g) == SubSeq(m, (g - 1) * MaxSegment + 1, Min({Len(m), g * MaxSegment}))

\* All segments make the message.
LEMMA UpToLast ==
    ASSUME NEW m, IsSequence(m)
    PROVE  UpTo(m, SegmentCount(m)) = m
  <1> DEFINE n == Len(m)
             z == SegmentCount(m) * MaxSegment
  <1>1. n \in Nat /\ z \in Int /\ n <= z
    BY SequenceFacts, SegmentCounts, FramingAssumption
  <1>2. UpTo(m, SegmentCount(m)) = SubSeq(m, 1, Min({n, z}))
    BY DEF UpTo
  <1> HIDE DEF n, z
  <1>3. Min({n, z}) = n
    BY <1>1, MinOfTwo
  <1>4. /\ IsSequence(SubSeq(m, 1, n)) /\ Len(SubSeq(m, 1, n)) = (IF 1 <= n THEN n - 1 + 1 ELSE 0)
        /\ \A i \in 1..(n - 1 + 1) : SubSeq(m, 1, n)[i] = m[1 + i - 1]
    BY <1>1, Part
  <1> DEFINE t == SubSeq(m, 1, n)
  <1> HIDE DEF t
  <1>5. Len(t) = n /\ \A i \in 1..n : t[i] = m[i]
    BY <1>1, <1>4 DEF t
  <1>6. t = m
    BY <1>4, <1>5, SameSequence DEF n, t
  <1> QED
    BY <1>2, <1>3, <1>6 DEF t

\* The segments up to one and the next one
LEMMA UpToNext ==
    ASSUME NEW m, IsSequence(m), NEW g \in Nat, g < SegmentCount(m)
    PROVE  /\ IsSequence(UpTo(m, g)) /\ Len(UpTo(m, g)) = g * MaxSegment
           /\ UpTo(m, g) \o Payload(m, g + 1) = UpTo(m, g + 1)
  <1> DEFINE n == Len(m)
             z == g * MaxSegment
             w == (g + 1) * MaxSegment
             e == Min({n, w})
             t == SubSeq(m, 1, z)
             u == SubSeq(m, z + 1, e)
             v == SubSeq(m, 1, e)
  <1>1. n \in Nat /\ z \in Nat /\ w \in Nat /\ z < n /\ z < w
    <2>1. MaxSegment \in Nat /\ MaxSegment > 0
      BY FramingAssumption
    <2>2. w = z + MaxSegment /\ z \in Nat
      BY <2>1
    <2>3. z < n /\ n \in Nat
      BY SequenceFacts, SegmentCounts
    <2> HIDE DEF n, w, z
    <2> QED
      BY <2>1, <2>2, <2>3
  <1>2. UpTo(m, g + 1) = v
    BY DEF UpTo
  <1>3. Payload(m, g + 1) = u
    <2>1. (g + 1) - 1 = g
      OBVIOUS
    <2> QED
      BY <2>1 DEF Payload
  <1>4. UpTo(m, g) = SubSeq(m, 1, Min({n, z}))
    BY DEF UpTo
  <1> HIDE DEF n, z, w
  <1>5. Min({n, z}) = z
    BY <1>1, MinOfTwo
  <1>6. e \in Nat /\ z < e /\ e <= n
    BY <1>1, MinOfTwo
  <1> HIDE DEF e
  <1>7. IsSequence(t) /\ Len(t) = z /\ \A i \in 1..z : t[i] = m[i]
    <2>1. /\ IsSequence(t) /\ Len(t) = (IF 1 <= z THEN z - 1 + 1 ELSE 0)
          /\ \A i \in 1..(z - 1 + 1) : t[i] = m[1 + i - 1]
      BY <1>1, Part
    <2> HIDE DEF t
    <2> QED
      BY <1>1, <2>1
  <1>8. IsSequence(v) /\ Len(v) = e /\ \A i \in 1..e : v[i] = m[i]
    <2>1. /\ IsSequence(v) /\ Len(v) = (IF 1 <= e THEN e - 1 + 1 ELSE 0)
          /\ \A i \in 1..(e - 1 + 1) : v[i] = m[1 + i - 1]
      BY <1>6, Part
    <2> HIDE DEF v
    <2> QED
      BY <1>6, <2>1
  <1>9. IsSequence(u) /\ Len(u) = e - z /\ \A i \in 1..(e - z) : u[i] = m[z + i]
    <2> DEFINE b == z + 1
    <2>0. b \in Int /\ e - b + 1 = e - z /\ b <= e
      BY <1>1, <1>6
    <2> HIDE DEF b
    <2>1. /\ IsSequence(SubSeq(m, b, e)) /\ Len(SubSeq(m, b, e)) = (IF b <= e THEN e - b + 1 ELSE 0)
          /\ \A i \in 1..(e - b + 1) : SubSeq(m, b, e)[i] = m[b + i - 1]
      BY <1>6, <2>0, Part
    <2>2. u = SubSeq(m, b, e)
      BY DEF b
    <2> HIDE DEF u
    <2>3. IsSequence(u) /\ Len(u) = e - z /\ \A i \in 1..(e - z) : u[i] = m[b + i - 1]
      BY <2>0, <2>1, <2>2
    <2>4. ASSUME NEW i \in 1..(e - z)
          PROVE  u[i] = m[z + i]
      <3>1. b + i - 1 = z + i
        BY <1>1 DEF b
      <3> QED
        BY <2>3, <3>1
    <2> QED
      BY <2>3, <2>4
  <1> HIDE DEF t, u, v
  <1>10. t \o u = v
    <2> DEFINE S == {t[i] : i \in DOMAIN t} \cup {u[i] : i \in DOMAIN u}
               U == {t[i] : i \in DOMAIN t}
               V == {u[i] : i \in DOMAIN u}
    <2>1. t \in Seq(U) /\ u \in Seq(V) /\ U \subseteq S /\ V \subseteq S
      BY <1>7, <1>9 DEF IsSequence
    <2> HIDE DEF S, U, V
    <2>2. t \in Seq(S) /\ u \in Seq(S)
      BY <2>1
    <2>3. Concatenates(t, u, S)
      BY <2>2, Concatenation
    <2> DEFINE c == t \o u
    <2>4. c \in Seq(S) /\ Len(c) = z + (e - z)
          /\ \A i \in 1..(z + (e - z)) : c[i] = IF i <= z THEN t[i] ELSE u[i - z]
      BY <1>7, <1>9, <2>3 DEF Concatenates
    <2> HIDE DEF c
    <2>5. IsSequence(c)
      BY <2>4, MakesSequence
    <2>6. z + (e - z) = e
      BY <1>1, <1>6
    <2>7. ASSUME NEW i \in 1..e
          PROVE  c[i] = v[i]
      <3>1. CASE i <= z
        <4>1. i \in 1..z
          BY <1>1, <1>6, <3>1
        <4> QED
          BY <1>7, <1>8, <2>4, <2>6, <3>1, <4>1
      <3>2. CASE ~(i <= z)
        <4>1. i - z \in 1..(e - z) /\ z + (i - z) = i
          BY <1>1, <1>6, <3>2
        <4>2. c[i] = u[i - z] /\ u[i - z] = m[z + (i - z)]
          BY <1>9, <2>4, <2>6, <3>2, <4>1
        <4> QED
          BY <1>8, <4>1, <4>2
      <3> QED
        BY <3>1, <3>2
    <2>8. c = v
      BY <1>8, <2>4, <2>5, <2>6, <2>7, SameSequence
    <2> QED
      BY <2>8 DEF c
  <1>11. UpTo(m, g) = t
    BY <1>4, <1>5 DEF t
  <1> QED
    BY <1>2, <1>3, <1>7, <1>10, <1>11 DEF z

Splits(h, t) ==
    LET c == <<h>> \o t IN Head(c) = h /\ Tail(c) = t /\ c[1] = h

\* A header and what follows it
LEMMA HeadAndTail ==
    ASSUME NEW h, NEW t, IsSequence(t)
    PROVE  Splits(h, t)
  <1> DEFINE V == {t[i] : i \in DOMAIN t}
             S == {h} \cup V
  <1>1. t \in Seq(V) /\ V \subseteq S /\ h \in S
    BY DEF IsSequence
  <1> HIDE DEF V, S
  <1>2. t \in Seq(S) /\ <<h>> \in Seq(S)
    BY <1>1
  <1>3. Head(<<h>> \o t) = h /\ Tail(<<h>> \o t) = t /\ (<<h>> \o t)[1] = h
    BY <1>2
  <1> QED
    BY <1>3 DEF Splits

\* What a segment says of itself
Tells(frame, number, m) ==
    LET d == frame.data
        g == number - m.seq
    IN  /\ Head(d).fir = (g = 1) /\ Head(d).fin = (number = LastNumber(m))
        /\ Head(d).seq = (number - 1) % SegmentModulus
        /\ Tail(d) = Payload(m.message, g) /\ IsFirst(frame) = (g = 1)
        /\ g \in 1..SegmentCount(m.message)

\* A segment says its place: whether it is first or last, its number and its part of the message.
LEMMA SegmentParts ==
    ASSUME NEW frame, NEW number \in Nat, NEW m, IsSegment(frame, number, m),
           m.seq \in Nat, IsSequence(m.message)
    PROVE  Tells(frame, number, m)
  <1> DEFINE d == frame.data
             s == m.message
             q == SegmentCount(s)
             g == number - m.seq
             h == TransportHeader(g = 1, g = q, (m.seq + g - 1) % SegmentModulus)
             t == Payload(s, g)
  <1>1. q \in Nat
    BY SegmentCounts
  <1>2. g \in 1..q /\ m.seq + g - 1 = number - 1 /\ (g = q <=> number = LastNumber(m))
    <2> DEFINE c == m.seq
    <2>1. LastNumber(m) = c + q /\ number > c /\ number <= c + q /\ c \in Nat
      BY DEF IsSegment, LastNumber
    <2> HIDE DEF q, c
    <2>2. number - c \in 1..q /\ c + (number - c) - 1 = number - 1
          /\ (number - c = q <=> number = c + q)
      BY <1>1, <2>1
    <2> QED
      BY <2>1, <2>2 DEF c
  <1>3. d = Segments(s, m.seq)[g]
    BY DEF IsSegment
  <1>4. h.fir = (g = 1) /\ h.fin = (g = q) /\ h.seq = (m.seq + g - 1) % SegmentModulus
    BY DEF TransportHeader
  <1>5. Segments(s, m.seq)[g] = <<h>> \o t
    <2> HIDE DEF g
    <2> QED
      BY <1>2 DEF Segments, Payload
  <1>6. IsSequence(t)
    <2> DEFINE a == (g - 1) * MaxSegment + 1
               b == g * MaxSegment
               n == Len(s)
    <2>1. a \in Int /\ b \in Int /\ n \in Int
      <3>1. g \in Int /\ MaxSegment \in Int /\ n \in Int
        BY <1>2, SequenceFacts, FramingAssumption
      <3> HIDE DEF g
      <3> QED
        BY <3>1
    <2>2. t = SubSeq(s, a, Min({n, b}))
      BY DEF Payload
    <2> HIDE DEF a, b, n, t
    <2>3. Min({n, b}) \in Int
      BY <2>1, MinOfTwo
    <2> QED
      BY <2>1, <2>2, <2>3, Part
  <1> HIDE DEF h, t, g, q
  <1>7. Splits(h, t)
    BY <1>6, HeadAndTail
  <1>8. Head(d) = h /\ Tail(d) = t /\ d[1] = h
    BY <1>3, <1>5, <1>7 DEF Splits
  <1>9. Head(d).fin = (number = LastNumber(m))
    BY <1>2, <1>4, <1>8
  <1>10. Head(d).seq = (number - 1) % SegmentModulus
    BY <1>2, <1>4, <1>8
  <1>11. IsFirst(frame) = (g = 1)
    BY <1>4, <1>8 DEF IsFirst
  <1> QED
    BY <1>2, <1>4, <1>8, <1>9, <1>10, <1>11 DEF g, q, t, Tells

-----------------------------------------------------------------------------
(***************************************************************************)
(* What a receiver has of a stream x with frames Z, of which the first L   *)
(* have arrived.                                                           *)
(***************************************************************************)

IsRx(r) == DOMAIN r = {"buffer", "expectedSeq", "lastSource", "message"}

\* The buffer is empty or has the beginning of a message, up to a segment that arrived;
\* no message has begun since.
Begun(x, Z, s, L, r, i, j) ==
    LET m == x.sent[j] IN
    /\ m.to = s /\ i <= L /\ x.number[i] > m.seq /\ x.number[i] < LastNumber(m)
    /\ r.buffer = UpTo(m.message, x.number[i] - m.seq)
    /\ r.expectedSeq = x.number[i] % SegmentModulus
    /\ \A k \in FramesTo(s, Z) : i < k /\ k <= L => ~IsFirst(Z[k])

Partial(x, Z, s, L, r) ==
    r.buffer # <<>> =>
        \E i \in FramesTo(s, Z), j \in DOMAIN x.sent : Begun(x, Z, s, L, r, i, j)

\* The last segment of message j is frame i.
Ends(x, Z, s, i, j) ==
    i \in FramesTo(s, Z) /\ x.sent[j].to = s /\ x.number[i] = LastNumber(x.sent[j])

\* What was passed up are messages whose last segment has arrived.
Delivered(x, Z, s, L, up) ==
    /\ IsSequence(up)
    /\ \E at \in [DOMAIN up -> DOMAIN x.sent] :
          /\ Increases(at)
          /\ \A n \in DOMAIN up :
                /\ up[n] = x.sent[at[n]].message
                /\ \E i \in FramesTo(s, Z) : i <= L /\ Ends(x, Z, s, i, at[n])

\* The receiver becomes next and passes up at most one message, whose last segment is
\* frame L.
Passes(x, Z, s, L, now, next) ==
    \/ next.messages = now.messages
    \/ \E j \in DOMAIN x.sent :
          Ends(x, Z, s, L, j) /\ next.messages = Append(now.messages, x.sent[j].message)

\* Quotient and remainder
LEMMA Quotient ==
    ASSUME NEW a \in Nat, NEW M \in Nat, M > 0
    PROVE  \E q \in Nat, r \in Nat : a \div M = q /\ a % M = r /\ a = M * q + r
  <1> DEFINE q == a \div M
             r == a % M
  <1>1. q \in Nat /\ r \in 0..(M - 1) /\ a = M * q + r
    OBVIOUS
  <1> QED
    BY <1>1

\* Sequence numbers tell the segments apart that may arrive next.
LEMMA SequenceNumbers ==
    ASSUME NEW a \in Nat, NEW b \in Nat, a < b, b - a <= SegmentModulus,
           (b - 1) % SegmentModulus = a % SegmentModulus
    PROVE  b = a + 1
  <1>1. SegmentModulus \in Nat /\ SegmentModulus > 0
    BY FramingAssumption
  <1> DEFINE M == SegmentModulus
             e == b - 1
  <1>2. e \in Nat /\ M \in Nat /\ M > 0 /\ e % M = a % M
    BY <1>1
  <1> HIDE DEF M, e
  <1>3. PICK p \in Nat, r \in Nat : a \div M = p /\ a % M = r /\ a = M * p + r
    BY <1>2, Quotient
  <1>4. PICK q \in Nat, o \in Nat : e \div M = q /\ e % M = o /\ e = M * q + o
    BY <1>2, Quotient
  <1>5. a = M * p + r /\ e = M * q + r
    BY <1>2, <1>3, <1>4
  <1>6. (q - p) * M = e - a
    <2>1. (q - p) * M = M * q - M * p
      BY <1>2, <1>5
    <2> DEFINE u == M * q
               v == M * p
               w == (q - p) * M
    <2>2. u \in Int /\ v \in Int /\ a = v + r /\ e = u + r /\ w = u - v
      BY <1>2, <1>5, <2>1
    <2> HIDE DEF u, v, w
    <2>3. w = e - a
      BY <1>5, <2>2
    <2> QED
      BY <2>3 DEF w
  <1>7. e - a >= 0 /\ e - a < M
    BY <1>1 DEF e, M
  <1>8. q - p = 0
    <2> DEFINE d == q - p
    <2>1. d \in Int /\ d * M >= 0 /\ d * M < M
      BY <1>5, <1>6, <1>7
    <2> HIDE DEF d
    <2>2. ~(d >= 1)
      <3> SUFFICES ASSUME d >= 1 PROVE FALSE
        OBVIOUS
      <3>1. (d - 1) * M >= 0 /\ (d - 1) * M = d * M - M
        BY <1>2, <2>1
      <3> QED
        BY <1>2, <2>1, <3>1
    <2>3. ~(d <= -1)
      <3> SUFFICES ASSUME d <= -1 PROVE FALSE
        OBVIOUS
      <3>1. (d + 1) * M <= 0 /\ (d + 1) * M = d * M + M
        BY <1>2, <2>1
      <3> QED
        BY <1>2, <2>1, <3>1
    <2>4. d = 0
      BY <2>1, <2>2, <2>3
    <2> QED
      BY <2>4 DEF d
  <1>9. (q - p) * M = 0
    BY <1>2, <1>8
  <1> QED
    BY <1>6, <1>9 DEF e

\* Counting on after a remainder
LEMMA NextRemainder ==
    ASSUME NEW a \in Nat, NEW M \in Nat, M > 0
    PROVE  ((a % M) + 1) % M = (a + 1) % M
  <1>1. PICK q \in Nat, o \in Nat : a \div M = q /\ a % M = o /\ a = M * q + o
    BY Quotient
  <1>2. o < M
    BY <1>1
  <1>3. CASE o + 1 < M
    <2>1. a + 1 = M * q + (o + 1) /\ o + 1 \in Nat /\ a + 1 \in Nat
      BY <1>1
    <2> DEFINE b == a + 1
               z == o + 1
    <2>2. b = M * q + z /\ b \in Nat /\ z \in Nat /\ z < M
      BY <1>3, <2>1
    <2> HIDE DEF b, z
    <2>3. b % M = z /\ z % M = z
      BY <2>2
    <2> QED
      BY <1>1, <2>3 DEF b, z
  <1>4. CASE ~(o + 1 < M)
    <2>1. o + 1 = M /\ o + 1 \in Nat
      BY <1>2, <1>4
    <2>2. M * (q + 1) = M * q + M
      OBVIOUS
    <2> DEFINE u == M * q
               w == M * (q + 1)
    <2>3. a = u + o /\ w = u + M /\ u \in Int /\ w \in Int
      BY <1>1, <2>2
    <2> HIDE DEF u, w
    <2>4. a + 1 = w + 0 /\ a + 1 \in Nat
      BY <2>1, <2>3
    <2> DEFINE b == a + 1
               z == q + 1
    <2>5. b = M * z + 0 /\ b \in Nat /\ z \in Nat /\ 0 \in Nat /\ 0 < M
      BY <2>4 DEF w
    <2> HIDE DEF b, z
    <2>6. b % M = 0
      BY <2>5
    <2>7. (o + 1) % M = 0
      BY <2>1
    <2> QED
      BY <1>1, <2>6, <2>7 DEF b
  <1> QED
    BY <1>3, <1>4

\* The receiver r gets segment number of message m next, or its first one.
Fits(r, source, frame, number, m) ==
    \/ number - m.seq = 1
    \/ /\ r.buffer # <<>> /\ r.expectedSeq = (number - 1) % SegmentModulus /\ r.lastSource = source
       /\ r.buffer = UpTo(m.message, number - m.seq - 1)

\* TransportRx takes a segment that fits.
LEMMA TakesSegment ==
    ASSUME NEW r, NEW source, NEW frame, NEW number \in Nat, NEW m, IsSegment(frame, number, m),
           m.seq \in Nat, IsSequence(m.message), Fits(r, source, frame, number, m)
    PROVE  LET part == UpTo(m.message, number - m.seq) IN
           ProcessReceive(r, source, frame.data) =
             IF Len(part) > maxRxFragSize THEN InitialRx
             ELSE IF number = LastNumber(m) THEN [InitialRx EXCEPT !.message = m.message]
             ELSE [buffer |-> part, lastSource |-> source, message |-> <<>>,
                   expectedSeq |-> number % SegmentModulus]
  <1> DEFINE d == frame.data
             g == number - m.seq
             s == m.message
             f == g - 1
             kept == IF Head(d).fir THEN <<>> ELSE r.buffer
             part == UpTo(s, g)
  <1>0. Tells(frame, number, m)
    BY SegmentParts
  <1>1. /\ Head(d).fir = (g = 1) /\ Head(d).fin = (number = LastNumber(m))
        /\ Head(d).seq = (number - 1) % SegmentModulus
        /\ Tail(d) = Payload(s, g) /\ g \in 1..SegmentCount(s)
    BY <1>0, Zenon DEF Tells
  <1>2. SegmentCount(s) \in Nat /\ g \in Nat /\ f \in Nat /\ f < SegmentCount(s) /\ f + 1 = g
    <2>1. SegmentCount(s) \in Nat
      BY SegmentCounts
    <2> HIDE DEF g
    <2> QED
      BY <1>1, <2>1
  <1> HIDE DEF g, f, part
  <1>3. /\ IsSequence(UpTo(s, f)) /\ Len(UpTo(s, f)) = f * MaxSegment
        /\ UpTo(s, f) \o Payload(s, f + 1) = UpTo(s, f + 1)
    <2> HIDE DEF s
    <2> QED
      BY <1>2, UpToNext DEF s
  <1>4. UpTo(s, f) \o Payload(s, g) = part
    BY <1>2, <1>3 DEF part
  <1>5. kept = UpTo(s, f)
    <2>1. CASE g = 1
      <3>1. f = 0 /\ 0 * MaxSegment = 0
        BY <1>2, <2>1, FramingAssumption
      <3>2. Len(UpTo(s, f)) = 0
        BY <1>3, <3>1
      <3>3. UpTo(s, f) = <<>>
        BY <1>3, <3>2 DEF IsSequence
      <3> QED
        BY <1>1, <2>1, <3>3
    <2>2. CASE g # 1
      BY <1>1, <2>2 DEF Fits, g, f
    <2> QED
      BY <2>1, <2>2
  <1>6. Len(kept) + Len(Tail(d)) = Len(part)
    <2> DEFINE t == UpTo(s, f)
               u == Payload(s, g)
               U == {t[i] : i \in DOMAIN t}
               V == {u[i] : i \in DOMAIN u}
               S == U \cup V
    <2>0. IsSequence(u)
      <3> DEFINE a == f * MaxSegment + 1
                 b == g * MaxSegment
                 n == Len(s)
      <3>1. f \in Int /\ g \in Int /\ MaxSegment \in Int /\ n \in Int
        BY <1>2, SequenceFacts, FramingAssumption
      <3>2. a \in Int /\ b \in Int
        BY <3>1
      <3>3. u = SubSeq(s, a, Min({n, b}))
        BY DEF Payload, f
      <3> HIDE DEF a, b, n, u
      <3>4. Min({n, b}) \in Int
        BY <3>1, <3>2, MinOfTwo
      <3> QED
        BY <3>2, <3>3, <3>4, Part
    <2>1. t \in Seq(U) /\ u \in Seq(V) /\ U \subseteq S /\ V \subseteq S
      BY <1>3, <2>0 DEF IsSequence
    <2>2. t \o u = part /\ kept = t /\ Tail(d) = u
      BY <1>1, <1>4, <1>5
    <2> HIDE DEF S, U, V, t, u, kept
    <2>3. t \in Seq(S) /\ u \in Seq(S)
      BY <2>1
    <2>4. Concatenates(t, u, S)
      BY <2>3, Concatenation
    <2> QED
      BY <2>2, <2>4 DEF Concatenates
  <1>7. ~Head(d).fir => r.buffer # <<>> /\ Head(d).seq = r.expectedSeq /\ source = r.lastSource
    BY <1>1 DEF Fits, g
  <1>8. (Head(d).seq + 1) % SegmentModulus = number % SegmentModulus
    <2> DEFINE M == SegmentModulus
               e == number - 1
    <2>1. M \in Nat /\ M > 0
      BY FramingAssumption
    <2>2. e \in Nat /\ e + 1 = number
      BY <1>2 DEF g
    <2> HIDE DEF M, e
    <2>3. ((e % M) + 1) % M = (e + 1) % M
      BY <2>1, <2>2, NextRemainder
    <2> QED
      BY <1>1, <2>2, <2>3 DEF M, e
  <1>9. number = LastNumber(m) => part = s
    <2> SUFFICES ASSUME number = LastNumber(m) PROVE part = s
      OBVIOUS
    <2>1. g = SegmentCount(s)
      <3> DEFINE q == SegmentCount(s)
                 c == m.seq
      <3>1. number = c + q /\ g = number - c /\ c \in Nat /\ q \in Nat
        BY <1>2 DEF LastNumber, g
      <3> HIDE DEF q, c
      <3>2. g = q
        BY <3>1
      <3> QED
        BY <3>2 DEF q
    <2> QED
      BY <2>1, UpToLast DEF part
  <1>10. kept \o Tail(d) = part
    BY <1>1, <1>4, <1>5
  <1>11. ProcessReceive(r, source, d) =
           IF Len(part) > maxRxFragSize THEN InitialRx
           ELSE IF Head(d).fin THEN [InitialRx EXCEPT !.message = part]
           ELSE [buffer |-> part, lastSource |-> source, message |-> <<>>,
                 expectedSeq |-> (Head(d).seq + 1) % SegmentModulus]
    <2>1. ProcessReceive(r, source, d) =
           IF ~Head(d).fir /\ ~(r.buffer # <<>> /\ Head(d).seq = r.expectedSeq /\ source = r.lastSource)
           THEN [r EXCEPT !.message = <<>>]
           ELSE IF Len(kept) + Len(Tail(d)) > maxRxFragSize THEN InitialRx
           ELSE IF Head(d).fin THEN [InitialRx EXCEPT !.message = kept \o Tail(d)]
           ELSE [buffer |-> kept \o Tail(d), lastSource |-> source, message |-> <<>>,
                 expectedSeq |-> (Head(d).seq + 1) % SegmentModulus]
      BY DEF ProcessReceive
    <2> HIDE DEF kept, d
    <2> QED
      BY <1>6, <1>7, <1>10, <2>1
  <1> QED
    BY <1>1, <1>8, <1>9, <1>11 DEF part, g

\* The numbers of the segments of a message
LEMMA SentFacts ==
    ASSUME NEW x, SendsInTurn(x), NEW j \in DOMAIN x.sent
    PROVE  /\ j \in Nat /\ x.sent[j].seq \in Nat /\ IsSequence(x.sent[j].message)
           /\ LastNumber(x.sent[j]) \in Nat /\ x.sent[j].seq <= LastNumber(x.sent[j])
  <1>1. IsSequence(x.sent) /\ x.sent[j].seq \in Nat /\ IsSequence(x.sent[j].message)
    BY DEF SendsInTurn
  <1>2. j \in Nat
    <2>1. DOMAIN x.sent = 1..Len(x.sent) /\ Len(x.sent) \in Nat
      BY <1>1, SequenceFacts
    <2> QED
      BY <2>1
  <1>3. SegmentCount(x.sent[j].message) \in Nat
    BY <1>1, SegmentCounts
  <1> DEFINE c == x.sent[j].seq
             q == SegmentCount(x.sent[j].message)
  <1>4. LastNumber(x.sent[j]) = c + q
    BY DEF LastNumber
  <1> HIDE DEF c, q
  <1>5. c \in Nat /\ q \in Nat /\ c + q \in Nat /\ c <= c + q
    BY <1>1, <1>3 DEF c, q
  <1> QED
    BY <1>1, <1>2, <1>4, <1>5 DEF c

\* A number belongs to one message.
LEMMA OneMessage ==
    ASSUME NEW x, SendsInTurn(x), NEW j \in DOMAIN x.sent, NEW k \in DOMAIN x.sent,
           x.sent[j].to = x.sent[k].to, NEW number \in Nat,
           x.sent[j].seq < number, number <= LastNumber(x.sent[j]),
           x.sent[k].seq < number, number <= LastNumber(x.sent[k])
    PROVE  j = k
  <1>1. /\ j \in Nat /\ x.sent[j].seq \in Nat /\ LastNumber(x.sent[j]) \in Nat
        /\ k \in Nat /\ x.sent[k].seq \in Nat /\ LastNumber(x.sent[k]) \in Nat
    BY SentFacts
  <1>2. j < k => LastNumber(x.sent[j]) <= x.sent[k].seq
    BY DEF SendsInTurn
  <1>3. k < j => LastNumber(x.sent[k]) <= x.sent[j].seq
    BY DEF SendsInTurn
  <1> DEFINE a == x.sent[j].seq
             b == LastNumber(x.sent[j])
             c == x.sent[k].seq
             d == LastNumber(x.sent[k])
  <1>4. a \in Nat /\ b \in Nat /\ c \in Nat /\ d \in Nat /\ a < number /\ number <= b
        /\ c < number /\ number <= d /\ (j < k => b <= c) /\ (k < j => d <= a)
    BY <1>1, <1>2, <1>3
  <1> HIDE DEF a, b, c, d
  <1> QED
    BY <1>1, <1>4

\* Messages end in the order in which they are sent.
LEMMA EndsInTurn ==
    ASSUME NEW x, SendsInTurn(x), NEW j \in DOMAIN x.sent, NEW k \in DOMAIN x.sent,
           x.sent[j].to = x.sent[k].to, LastNumber(x.sent[j]) < LastNumber(x.sent[k])
    PROVE  j < k
  <1>1. /\ j \in Nat /\ x.sent[j].seq \in Nat /\ LastNumber(x.sent[j]) \in Nat
        /\ k \in Nat /\ x.sent[k].seq \in Nat /\ LastNumber(x.sent[k]) \in Nat
        /\ x.sent[j].seq <= LastNumber(x.sent[j])
    BY SentFacts
  <1>2. k < j => LastNumber(x.sent[k]) <= x.sent[j].seq
    BY DEF SendsInTurn
  <1> DEFINE a == x.sent[j].seq
             b == LastNumber(x.sent[j])
             d == LastNumber(x.sent[k])
  <1>3. a \in Nat /\ b \in Nat /\ d \in Nat /\ a <= b /\ b < d /\ (k < j => d <= a)
        /\ (j = k => b = d)
    BY <1>1, <1>2
  <1> HIDE DEF a, b, d
  <1> QED
    BY <1>1, <1>3

\* OnFrame with the receiver that ProcessReceive leaves
LEMMA OnFrameFields ==
    ASSUME NEW s, NEW now, NEW frame, Accepts(s, frame), NEW r,
           r = ProcessReceive(now.rx, frame.header.src, frame.data), IsRx(r)
    PROVE  LET next == OnFrame(s, now, frame) IN
           /\ IsRx(next.rx) /\ next.rx.buffer = r.buffer /\ next.rx.expectedSeq = r.expectedSeq
           /\ next.rx.lastSource = r.lastSource
           /\ next.messages = IF r.message = <<>> THEN now.messages
                              ELSE Append(now.messages, r.message)
  <1> DEFINE e == [r EXCEPT !.message = <<>>]
             u == IF r.message = <<>> THEN now.messages ELSE Append(now.messages, r.message)
  <1>1. OnFrame(s, now, frame) = [rx |-> e, messages |-> u]
    BY DEF OnFrame
  <1>2. IsRx(e) /\ e.buffer = r.buffer /\ e.expectedSeq = r.expectedSeq /\ e.lastSource = r.lastSource
    BY DEF IsRx
  <1> HIDE DEF e, u
  <1>3. OnFrame(s, now, frame).rx = e /\ OnFrame(s, now, frame).messages = u
    BY <1>1
  <1> QED
    BY <1>2, <1>3 DEF u

\* TransportRx ignores a segment that it does not expect.
LEMMA IgnoresSegment ==
    ASSUME NEW r, IsRx(r), NEW source, NEW d, ~Head(d).fir,
           ~(r.buffer # <<>> /\ Head(d).seq = r.expectedSeq /\ source = r.lastSource)
    PROVE  LET n == ProcessReceive(r, source, d) IN
           IsRx(n) /\ n.buffer = r.buffer /\ n.expectedSeq = r.expectedSeq
             /\ n.lastSource = r.lastSource /\ n.message = <<>>
  <1>1. ProcessReceive(r, source, d) = [r EXCEPT !.message = <<>>]
    BY DEF ProcessReceive
  <1> QED
    BY <1>1 DEF IsRx

\* A frame that is not for the session says nothing of the buffer.
LEMMA PartialStays ==
    ASSUME NEW x, NEW Z, NEW s, NEW L \in Nat, NEW r, Partial(x, Z, s, L, r),
           DOMAIN Z \subseteq Nat, NEW l, l = L + 1, NEW q, q.buffer = r.buffer,
           q.expectedSeq = r.expectedSeq, l \in FramesTo(s, Z) => ~IsFirst(Z[l])
    PROVE  Partial(x, Z, s, l, q)
  <1> SUFFICES ASSUME q.buffer # <<>>
               PROVE  \E i \in FramesTo(s, Z), j \in DOMAIN x.sent : Begun(x, Z, s, l, q, i, j)
    BY DEF Partial
  <1>1. PICK i \in FramesTo(s, Z), j \in DOMAIN x.sent : Begun(x, Z, s, L, r, i, j)
    BY DEF Partial
  <1>2. i \in Nat /\ i <= L
    BY <1>1 DEF Begun, FramesTo
  <1>3. i <= l
    BY <1>2
  <1>4. ASSUME NEW k \in FramesTo(s, Z), i < k, k <= l
        PROVE  ~IsFirst(Z[k])
    <2>1. k \in Nat
      BY DEF FramesTo
    <2>2. k <= L \/ k = l
      BY <1>4, <2>1
    <2>3. CASE k = l
      BY <2>3
    <2>4. CASE k <= L
      BY <1>1, <1>4, <2>4 DEF Begun
    <2> QED
      BY <2>2, <2>3, <2>4
  <1>5. Begun(x, Z, s, l, q, i, j)
    BY <1>1, <1>3, <1>4 DEF Begun
  <1> QED
    BY <1>5

\* The segment after the one that the buffer ends with is the only one that is expected.
LEMMA ExpectedFits ==
    ASSUME NEW x, NEW Z, NEW s \in Sessions, SendsInTurn(x), ArrivesInOrder(x, Z),
           DOMAIN Z \subseteq Nat, NEW L \in Nat, NEW l \in FramesTo(s, Z), l = L + 1,
           NEW r, Partial(x, Z, s, L, r), NEW j \in DOMAIN x.sent, x.sent[j].to = s,
           IsSegment(Z[l], x.number[l], x.sent[j]), ~IsFirst(Z[l]), NEW source,
           r.buffer # <<>>, r.expectedSeq = (x.number[l] - 1) % SegmentModulus,
           source = r.lastSource
    PROVE  Fits(r, source, Z[l], x.number[l], x.sent[j])
  <1>1. PICK i \in FramesTo(s, Z), k \in DOMAIN x.sent : Begun(x, Z, s, L, r, i, k)
    BY DEF Partial
  <1> DEFINE a == x.number[i]
             b == x.number[l]
             c == x.sent[j].seq
             e == x.sent[k].seq
             p == LastNumber(x.sent[j])
             q == LastNumber(x.sent[k])
  <1>2. l \in Nat /\ i \in Nat /\ i <= L /\ i < l
    <2>1. l \in Nat /\ i \in Nat /\ i <= L
      BY <1>1 DEF Begun, FramesTo
    <2> QED
      BY <2>1
  <1>3. a \in Nat /\ b \in Nat
    BY DEF ArrivesInOrder, FramesTo
  <1>4. c \in Nat /\ e \in Nat /\ p \in Nat /\ q \in Nat /\ IsSequence(x.sent[j].message)
    BY SentFacts
  <1>5. ASSUME NEW n \in FramesTo(s, Z), i < n, n <= l
        PROVE  ~IsFirst(Z[n])
    <2>1. n \in Nat
      BY DEF FramesTo
    <2>2. n <= L \/ n = l
      BY <1>5, <2>1
    <2> QED
      BY <1>1, <1>5, <2>2 DEF Begun
  <1>6. a < b /\ b - a <= SegmentModulus
    BY <1>2, <1>5 DEF ArrivesInOrder
  <1>7. (b - 1) % SegmentModulus = a % SegmentModulus
    BY <1>1 DEF Begun
  <1>8. e < a /\ a < q /\ r.buffer = UpTo(x.sent[k].message, a - e) /\ x.sent[k].to = s
    BY <1>1 DEF Begun
  <1>9. c < b /\ b <= p
    BY DEF IsSegment
  <1>10. Tells(Z[l], b, x.sent[j])
    BY <1>3, <1>4, SegmentParts
  <1>11. b - c # 1
    BY <1>10, Zenon DEF Tells
  <1> HIDE DEF a, b, c, e, p, q
  <1>12. b = a + 1
    BY <1>3, <1>6, <1>7, SequenceNumbers
  <1>13. e < b /\ b <= q
    BY <1>3, <1>4, <1>8, <1>12
  <1>14. j = k
    BY <1>3, <1>8, <1>9, <1>13, OneMessage DEF c, e, p, q
  <1>15. c = e /\ b - c - 1 = a - e
    <2>1. c = e
      BY <1>14 DEF c, e
    <2> QED
      BY <1>3, <1>4, <1>12, <2>1
  <1> QED
    BY <1>8, <1>14, <1>15 DEF Fits, b, c

\* A frame leaves the buffer with the beginning of a message and passes up a message
\* whose last segment it is.
LEMMA OnFrameWhole ==
    ASSUME NEW x, NEW Z, NEW s \in Sessions, SendsInTurn(x), ArrivesInOrder(x, Z),
           DOMAIN Z \subseteq Nat, NEW L \in Nat, NEW l \in DOMAIN Z, l = L + 1,
           NEW now, IsRx(now.rx), Partial(x, Z, s, L, now.rx),
           NEW next, next = OnFrame(s, now, Z[l])
    PROVE  IsRx(next.rx) /\ Partial(x, Z, s, l, next.rx) /\ Passes(x, Z, s, l, now, next)
  <1>1. CASE ~Accepts(s, Z[l])
    <2>1. next = now /\ l \notin FramesTo(s, Z)
      BY <1>1 DEF OnFrame, FramesTo
    <2>2. Partial(x, Z, s, l, now.rx)
      BY <2>1, PartialStays
    <2> QED
      BY <2>1, <2>2 DEF Passes
  <1>2. CASE Accepts(s, Z[l])
    <2> DEFINE frame == Z[l]
               d == frame.data
               source == frame.header.src
               r == now.rx
               n == ProcessReceive(r, source, d)
               N == x.number[l]
    <2>1. l \in FramesTo(s, Z)
      BY <1>2 DEF FramesTo
    <2>2. PICK j \in DOMAIN x.sent : x.sent[j].to = s /\ IsSegment(frame, N, x.sent[j])
      BY <2>1 DEF ArrivesInOrder
    <2> DEFINE m == x.sent[j]
    <2>3. N \in Nat /\ m.seq \in Nat /\ IsSequence(m.message) /\ LastNumber(m) \in Nat
      BY SentFacts DEF ArrivesInOrder
    <2>4. Tells(frame, N, m)
      BY <2>2, <2>3, SegmentParts
    <2>5. Head(d).fir = (N - m.seq = 1) /\ IsFirst(frame) = (N - m.seq = 1)
          /\ Head(d).seq = (N - 1) % SegmentModulus
      BY <2>4, Zenon DEF Tells
    <2>6. CASE ~Head(d).fir /\ ~(r.buffer # <<>> /\ Head(d).seq = r.expectedSeq /\ source = r.lastSource)
      <3>1. IsRx(n) /\ n.buffer = r.buffer /\ n.expectedSeq = r.expectedSeq /\ n.message = <<>>
        BY <2>6, IgnoresSegment
      <3> HIDE DEF n
      <3>2. IsRx(next.rx) /\ next.rx.buffer = n.buffer /\ next.rx.expectedSeq = n.expectedSeq
            /\ next.messages = now.messages
        BY <1>2, <3>1, OnFrameFields DEF n
      <3>3. ~IsFirst(Z[l])
        BY <2>5, <2>6
      <3>4. Partial(x, Z, s, l, next.rx)
        BY <3>1, <3>2, <3>3, PartialStays
      <3> QED
        BY <3>2, <3>4 DEF Passes
    <2>7. CASE ~(~Head(d).fir /\ ~(r.buffer # <<>> /\ Head(d).seq = r.expectedSeq /\ source = r.lastSource))
      <3>1. Fits(r, source, frame, N, m)
        <4>1. CASE Head(d).fir
          BY <2>5, <4>1 DEF Fits
        <4>2. CASE ~Head(d).fir
          <5>1. ~IsFirst(Z[l]) /\ r.buffer # <<>> /\ r.expectedSeq = (N - 1) % SegmentModulus
                /\ source = r.lastSource
            BY <2>5, <2>7, <4>2
          <5> QED
            BY <2>1, <2>2, <5>1, ExpectedFits
        <4> QED
          BY <4>1, <4>2
      <3> DEFINE part == UpTo(m.message, N - m.seq)
                 begun == [buffer |-> part, lastSource |-> source, message |-> <<>>,
                           expectedSeq |-> N % SegmentModulus]
                 done == [InitialRx EXCEPT !.message = m.message]
      <3>2. n = IF Len(part) > maxRxFragSize THEN InitialRx
                ELSE IF N = LastNumber(m) THEN done ELSE begun
        BY <2>2, <2>3, <3>1, TakesSegment
      <3>3. IsRx(InitialRx) /\ InitialRx.buffer = <<>> /\ InitialRx.message = <<>>
        BY DEF IsRx, InitialRx
      <3>4. IsRx(done) /\ done.buffer = <<>> /\ done.message = m.message
        BY DEF IsRx, InitialRx
      <3>5. IsRx(begun) /\ begun.buffer = part /\ begun.message = <<>>
            /\ begun.expectedSeq = N % SegmentModulus
        BY DEF IsRx
      <3> HIDE DEF n, done, begun
      <3>6. IsRx(n)
        BY <3>2, <3>3, <3>4, <3>5
      <3>7. /\ IsRx(next.rx) /\ next.rx.buffer = n.buffer /\ next.rx.expectedSeq = n.expectedSeq
            /\ next.messages = IF n.message = <<>> THEN now.messages
                               ELSE Append(now.messages, n.message)
        BY <1>2, <3>6, OnFrameFields DEF n
      <3>8. CASE n = InitialRx
        <4>1. next.messages = now.messages /\ next.rx.buffer = <<>>
          BY <3>3, <3>7, <3>8
        <4> QED
          BY <3>7, <4>1 DEF Passes, Partial
      <3>9. CASE n = done /\ N = LastNumber(m)
        <4>1. next.rx.buffer = <<>>
          BY <3>4, <3>7, <3>9
        <4>2. next.messages = now.messages \/ next.messages = Append(now.messages, m.message)
          BY <3>4, <3>7, <3>9
        <4>3. Ends(x, Z, s, l, j)
          BY <2>1, <2>2, <3>9 DEF Ends
        <4> QED
          BY <3>7, <4>1, <4>2, <4>3 DEF Passes, Partial
      <3>10. CASE n = begun /\ N # LastNumber(m)
        <4>1. next.messages = now.messages /\ next.rx.buffer = part
              /\ next.rx.expectedSeq = N % SegmentModulus
          BY <3>5, <3>7, <3>10
        <4>2. N > m.seq /\ N < LastNumber(m)
          <5>1. N > m.seq /\ N <= LastNumber(m)
            BY <2>2 DEF IsSegment
          <5> QED
            BY <2>3, <3>10, <5>1
        <4>3. ASSUME NEW k \in FramesTo(s, Z), l < k, k <= l
              PROVE  FALSE
          <5>1. k \in Nat /\ l \in Nat
            BY DEF FramesTo
          <5> QED
            BY <4>3, <5>1
        <4>4. l <= l
          OBVIOUS
        <4>5. Begun(x, Z, s, l, next.rx, l, j)
          BY <2>2, <4>1, <4>2, <4>3, <4>4 DEF Begun
        <4> QED
          BY <2>1, <3>7, <4>1, <4>5 DEF Passes, Partial
      <3> QED
        BY <3>2, <3>8, <3>9, <3>10
    <2> QED
      BY <2>6, <2>7
  <1> QED
    BY <1>1, <1>2

Appends(s, v) ==
    LET t == Append(s, v) IN
    /\ IsSequence(t) /\ Len(t) = Len(s) + 1 /\ t[Len(s) + 1] = v
    /\ \A i \in 1..Len(s) : t[i] = s[i]

\* A sequence with one more member
LEMMA Appended ==
    ASSUME NEW s, IsSequence(s), NEW v
    PROVE  Appends(s, v)
  <1> DEFINE V == {s[i] : i \in DOMAIN s}
             S == {v} \cup V
             t == Append(s, v)
  <1>1. s \in Seq(V) /\ V \subseteq S /\ v \in S
    BY DEF IsSequence
  <1> HIDE DEF V, S
  <1>2. s \in Seq(S)
    BY <1>1
  <1>3. t \in Seq(S) /\ Len(t) = Len(s) + 1 /\ t[Len(s) + 1] = v /\ \A i \in 1..Len(s) : t[i] = s[i]
    BY <1>1, <1>2, AppendProperties
  <1> HIDE DEF t
  <1>4. IsSequence(t)
    BY <1>3, MakesSequence
  <1> QED
    BY <1>3, <1>4 DEF Appends, t

\* What was passed up stays what it is when more frames arrive.
LEMMA DeliveredStays ==
    ASSUME NEW x, NEW Z, NEW s, NEW L \in Nat, NEW l \in Nat, L <= l, DOMAIN Z \subseteq Nat,
           NEW up, Delivered(x, Z, s, L, up)
    PROVE  Delivered(x, Z, s, l, up)
  <1>1. IsSequence(up)
    BY DEF Delivered
  <1>2. PICK at \in [DOMAIN up -> DOMAIN x.sent] :
              /\ Increases(at)
              /\ \A n \in DOMAIN up :
                    /\ up[n] = x.sent[at[n]].message
                    /\ \E i \in FramesTo(s, Z) : i <= L /\ Ends(x, Z, s, i, at[n])
    BY DEF Delivered
  <1>3. ASSUME NEW n \in DOMAIN up
        PROVE  \E i \in FramesTo(s, Z) : i <= l /\ Ends(x, Z, s, i, at[n])
    <2>1. PICK i \in FramesTo(s, Z) : i <= L /\ Ends(x, Z, s, i, at[n])
      BY <1>2
    <2>2. i \in Nat
      BY DEF FramesTo
    <2>3. i <= l
      BY <2>1, <2>2
    <2> QED
      BY <2>1, <2>3
  <1> QED
    BY <1>1, <1>2, <1>3 DEF Delivered

\* The next message to be passed up is a later one.
LEMMA PassesDelivers ==
    ASSUME NEW x, NEW Z, NEW s \in Sessions, SendsInTurn(x), ArrivesInOrder(x, Z),
           DOMAIN Z \subseteq Nat, NEW L \in Nat, NEW l \in DOMAIN Z, l = L + 1,
           NEW up, Delivered(x, Z, s, L, up), NEW j \in DOMAIN x.sent, Ends(x, Z, s, l, j)
    PROVE  Delivered(x, Z, s, l, Append(up, x.sent[j].message))
  <1> DEFINE v == x.sent[j].message
             n == Len(up)
             w == Append(up, v)
  <1>1. IsSequence(up)
    BY DEF Delivered
  <1>2. n \in Nat /\ DOMAIN up = 1..n
    BY <1>1, SequenceFacts
  <1>3. Appends(up, v)
    BY <1>1, Appended
  <1>4. IsSequence(w) /\ Len(w) = n + 1 /\ w[n + 1] = v /\ \A i \in 1..n : w[i] = up[i]
    BY <1>3 DEF Appends
  <1> HIDE DEF n, w, v
  <1>5. DOMAIN w = 1..(n + 1)
    BY <1>4, SequenceFacts
  <1>6. PICK at \in [DOMAIN up -> DOMAIN x.sent] :
              /\ Increases(at)
              /\ \A i \in DOMAIN up :
                    /\ up[i] = x.sent[at[i]].message
                    /\ \E f \in FramesTo(s, Z) : f <= L /\ Ends(x, Z, s, f, at[i])
    BY DEF Delivered
  <1> DEFINE to == [i \in 1..(n + 1) |-> IF i <= n THEN at[i] ELSE j]
  <1>7. to[n + 1] = j /\ \A i \in 1..n : to[i] = at[i]
    BY <1>2
  <1>8. to \in [DOMAIN w -> DOMAIN x.sent]
    BY <1>2, <1>5
  <1>9. DOMAIN to = 1..(n + 1)
    OBVIOUS
  <1> HIDE DEF to
  <1>10. ASSUME NEW i \in 1..n
         PROVE  at[i] < j
    <2>1. PICK f \in FramesTo(s, Z) : f <= L /\ Ends(x, Z, s, f, at[i])
      BY <1>2, <1>6
    <2>2. f \in Nat /\ l \in FramesTo(s, Z)
      BY DEF FramesTo, Ends
    <2>3. f < l
      BY <2>1, <2>2
    <2>4. x.number[f] < x.number[l]
      BY <2>2, <2>3 DEF ArrivesInOrder
    <2>5. LastNumber(x.sent[at[i]]) < LastNumber(x.sent[j])
      BY <2>1, <2>4 DEF Ends
    <2>6. at[i] \in DOMAIN x.sent /\ x.sent[at[i]].to = x.sent[j].to
      BY <1>2, <1>6, <2>1 DEF Ends
    <2> QED
      BY <2>5, <2>6, EndsInTurn
  <1>11. Increases(to)
    <2> SUFFICES ASSUME NEW a \in 1..(n + 1), NEW b \in 1..(n + 1), a < b
                 PROVE  to[a] < to[b]
      BY <1>9 DEF Increases
    <2>1. CASE b <= n
      <3>1. a \in 1..n /\ b \in 1..n
        BY <1>2, <2>1
      <3>2. at[a] < at[b]
        BY <1>2, <1>6, <3>1 DEF Increases
      <3> QED
        BY <1>7, <3>1, <3>2
    <2>2. CASE ~(b <= n)
      <3>1. b = n + 1 /\ a \in 1..n
        BY <1>2, <2>2
      <3> QED
        BY <1>7, <1>10, <3>1
    <2> QED
      BY <2>1, <2>2
  <1>12. ASSUME NEW i \in 1..(n + 1)
         PROVE  /\ w[i] = x.sent[to[i]].message
                /\ \E f \in FramesTo(s, Z) : f <= l /\ Ends(x, Z, s, f, to[i])
    <2>1. CASE i <= n
      <3>1. i \in 1..n
        BY <1>2, <2>1
      <3>2. PICK f \in FramesTo(s, Z) : f <= L /\ Ends(x, Z, s, f, at[i])
        BY <1>2, <1>6, <3>1
      <3>3. f <= l
        <4>1. f \in Nat
          BY DEF FramesTo
        <4> QED
          BY <3>2, <4>1
      <3>4. up[i] = x.sent[at[i]].message
        BY <1>2, <1>6, <3>1
      <3> QED
        BY <1>4, <1>7, <3>1, <3>2, <3>3, <3>4
    <2>2. CASE ~(i <= n)
      <3>1. i = n + 1
        BY <1>2, <2>2
      <3>2. l \in FramesTo(s, Z) /\ l <= l
        BY DEF Ends
      <3> QED
        BY <1>4, <1>7, <3>1, <3>2 DEF v
    <2> QED
      BY <2>1, <2>2
  <1>13. Delivered(x, Z, s, l, w)
    BY <1>4, <1>5, <1>8, <1>11, <1>12 DEF Delivered
  <1> QED
    BY <1>13 DEF w, v

-----------------------------------------------------------------------------
(***************************************************************************)
(* What a receiver has of a stream of which nothing is lost.  The session  *)
(* went online when the first B frames had arrived.                        *)
(***************************************************************************)

\* Message j begins after frame B.
After(x, Z, s, B, j) ==
    /\ x.sent[j].to = s
    /\ \E i \in FramesTo(s, Z) : i > B /\ x.number[i] = x.sent[j].seq + 1

\* Frame i is the last one to s among the first L.
Latest(Z, s, L, i) == i <= L /\ \A k \in FramesTo(s, Z) : i < k => L < k

\* The buffer has all that has arrived of a message that is not complete.
Kept(x, Z, s, B, L, r) ==
    \A i \in FramesTo(s, Z), j \in DOMAIN x.sent :
        (/\ Latest(Z, s, L, i) /\ After(x, Z, s, B, j)
         /\ x.number[i] > x.sent[j].seq /\ x.number[i] < LastNumber(x.sent[j])) =>
            /\ r.buffer = UpTo(x.sent[j].message, x.number[i] - x.sent[j].seq)
            /\ r.expectedSeq = x.number[i] % SegmentModulus
            /\ r.lastSource = Z[i].header.src

Due(x, Z, s, B, L) ==
    {j \in DOMAIN x.sent : After(x, Z, s, B, j) /\ \E i \in FramesTo(s, Z) : i <= L /\ Ends(x, Z, s, i, j)}

\* All messages that have begun and ended were passed up.
Got(x, Z, s, B, L, up) ==
    \E at \in [Due(x, Z, s, B, L) -> DOMAIN up] :
        Increases(at) /\ \A j \in Due(x, Z, s, B, L) : up[at[j]] = x.sent[j].message

\* Messages have segments, and what was received of one is not too long.
LEMMA WholeMessages ==
    ASSUME NEW x, NEW Z, SendsInTurn(x), ArrivesWhole(x, Z), NEW j \in DOMAIN x.sent
    PROVE  /\ x.sent[j].seq < LastNumber(x.sent[j]) /\ x.sent[j].message # <<>>
           /\ \A g \in 1..SegmentCount(x.sent[j].message) :
                /\ ~(Len(UpTo(x.sent[j].message, g)) > maxRxFragSize)
                /\ UpTo(x.sent[j].message, g) # <<>>
  <1> DEFINE m == x.sent[j].message
             n == Len(m)
             q == SegmentCount(m)
             c == x.sent[j].seq
             M == MaxSegment
  <1>1. n \in 1..maxRxFragSize /\ maxRxFragSize \in Nat /\ M \in Nat /\ M > 0
    BY FramingAssumption DEF ArrivesWhole
  <1>2. IsSequence(m) /\ c \in Nat
    BY SentFacts
  <1>3. q \in Nat /\ n <= q * M /\ \A g \in Nat : g < q => g * M < n
    BY <1>2, SegmentCounts
  <1>4. LastNumber(x.sent[j]) = c + q
    BY DEF LastNumber
  <1>5. m # <<>>
    BY <1>1
  <1>6. q > 0
    <2> HIDE DEF n, q, M
    <2>1. q # 0
      <3> SUFFICES ASSUME q = 0 PROVE FALSE
        OBVIOUS
      <3>1. q * M = 0
        BY <1>1
      <3> QED
        BY <1>1, <1>3, <3>1
    <2> QED
      BY <1>3, <2>1
  <1>7. ASSUME NEW g \in 1..q
        PROVE  ~(Len(UpTo(m, g)) > maxRxFragSize) /\ UpTo(m, g) # <<>>
    <2>1. CASE g = q
      <3>1. UpTo(m, g) = m
        BY <1>2, <2>1, UpToLast
      <3>2. ~(n > maxRxFragSize)
        <4> HIDE DEF n
        <4> QED
          BY <1>1
      <3> QED
        BY <1>5, <3>1, <3>2
    <2>2. CASE g # q
      <3> HIDE DEF n, q, M, m
      <3>1. g \in Nat /\ g < q /\ g > 0
        BY <1>3, <2>2
      <3>2. Len(UpTo(m, g)) = g * M
        BY <1>2, <3>1, UpToNext DEF q, M
      <3>3. g * M < n /\ g * M \in Int /\ g * M > 0
        BY <1>1, <1>3, <3>1
      <3> DEFINE z == g * M
                 t == UpTo(m, g)
      <3>4. Len(t) = z /\ z < n /\ z \in Int /\ z > 0
        BY <3>2, <3>3
      <3> HIDE DEF z, t
      <3>5. ~(Len(t) > maxRxFragSize)
        BY <1>1, <3>4
      <3>6. t # <<>>
        BY <3>4
      <3> QED
        BY <3>5, <3>6 DEF t
    <2> QED
      BY <2>1, <2>2
  <1>8. c < c + q
    <2> HIDE DEF c, q
    <2> QED
      BY <1>2, <1>3, <1>6
  <1> QED
    BY <1>4, <1>5, <1>7, <1>8

\* The receiver expects the next segment of every message that began after frame B.
LEMMA KeptFits ==
    ASSUME NEW x, NEW Z, NEW s \in Sessions, SendsInTurn(x), ArrivesInOrder(x, Z),
           ArrivesWhole(x, Z), DOMAIN Z \subseteq Nat, NEW L \in Nat,
           NEW l \in FramesTo(s, Z), l = L + 1, NEW B, NEW r, Kept(x, Z, s, B, L, r),
           NEW j \in DOMAIN x.sent, After(x, Z, s, B, j), IsSegment(Z[l], x.number[l], x.sent[j])
    PROVE  Fits(r, Z[l].header.src, Z[l], x.number[l], x.sent[j])
  <1> DEFINE m == x.sent[j]
             N == x.number[l]
             c == m.seq
             p == LastNumber(m)
             a == N - 1
  <1>1. N \in Nat /\ c \in Nat /\ p \in Nat /\ N > c /\ N <= p /\ m.to = s /\ IsSequence(m.message)
    BY SentFacts DEF ArrivesInOrder, FramesTo, IsSegment, After
  <1>2. CASE N - c = 1
    BY <1>2 DEF Fits
  <1>3. CASE N - c # 1
    <2>1. a \in (c + 1)..p /\ a > c /\ a < p /\ a \in Nat
      <3> HIDE DEF N, c, p
      <3> QED
        BY <1>1, <1>3
    <2>2. PICK i \in FramesTo(s, Z) : x.number[i] = a
      BY <1>1, <2>1 DEF ArrivesWhole
    <2>3. i \in Nat /\ l \in Nat
      BY DEF FramesTo
    <2>4. i < l
      <3>1. l < i => N < a
        BY <2>2 DEF ArrivesInOrder
      <3>2. i # l
        <4> SUFFICES ASSUME i = l PROVE FALSE
          OBVIOUS
        <4>1. N = a
          BY <2>2
        <4> HIDE DEF N
        <4> QED
          BY <1>1, <4>1
      <3> HIDE DEF N
      <3> QED
        BY <1>1, <2>3, <3>1, <3>2
    <2>5. Latest(Z, s, L, i)
      <3>1. i <= L
        BY <2>3, <2>4
      <3>2. ASSUME NEW k \in FramesTo(s, Z), i < k
            PROVE  L < k
        <4>1. k \in Nat /\ x.number[k] \in Nat
          BY DEF FramesTo, ArrivesInOrder
        <4>2. a < x.number[k]
          BY <2>2, <3>2 DEF ArrivesInOrder
        <4>3. k < l => x.number[k] < N
          BY DEF ArrivesInOrder
        <4> DEFINE b == x.number[k]
        <4> HIDE DEF N, b
        <4>4. ~(k < l)
          BY <1>1, <4>1, <4>2, <4>3 DEF b
        <4> QED
          BY <2>3, <4>1, <4>4
      <3> QED
        BY <3>1, <3>2 DEF Latest
    <2>6. /\ r.buffer = UpTo(m.message, a - c) /\ r.expectedSeq = a % SegmentModulus
          /\ r.lastSource = Z[i].header.src
      BY <2>1, <2>2, <2>5 DEF Kept
    <2>7. Z[i].header.src = Z[l].header.src
      BY DEF ArrivesWhole
    <2>8. N - c - 1 = a - c /\ a - c \in 1..SegmentCount(m.message)
      <3> DEFINE q == SegmentCount(m.message)
      <3>1. p = c + q /\ q \in Nat
        BY <1>1, SegmentCounts DEF LastNumber
      <3> HIDE DEF q, N, c, p
      <3>2. N - c - 1 = a - c /\ a - c \in 1..q
        BY <1>1, <2>1, <3>1
      <3> QED
        BY <3>2 DEF q
    <2>9. UpTo(m.message, a - c) # <<>>
      <3> DEFINE g == a - c
      <3>1. g \in 1..SegmentCount(m.message)
        BY <2>8
      <3> HIDE DEF g
      <3>2. UpTo(m.message, g) # <<>>
        BY <3>1, WholeMessages
      <3> QED
        BY <3>2 DEF g
    <2> QED
      BY <2>6, <2>7, <2>8, <2>9 DEF Fits
  <1> QED
    BY <1>2, <1>3

\* The message that ends with frame l was passed up, if it began after frame B.
PassesDue(x, Z, s, B, l, now, next) ==
    \A j \in DOMAIN x.sent : After(x, Z, s, B, j) /\ Ends(x, Z, s, l, j) =>
        next.messages = Append(now.messages, x.sent[j].message)

\* A frame adds to what is kept or completes a message.
LEMMA OnFrameKept ==
    ASSUME NEW x, NEW Z, NEW s \in Sessions, SendsInTurn(x), ArrivesInOrder(x, Z),
           ArrivesWhole(x, Z), DOMAIN Z \subseteq Nat, NEW L \in Nat, NEW l \in DOMAIN Z, l = L + 1,
           NEW B, NEW now, Kept(x, Z, s, B, L, now.rx), NEW next, next = OnFrame(s, now, Z[l])
    PROVE  Kept(x, Z, s, B, l, next.rx) /\ PassesDue(x, Z, s, B, l, now, next)
  <1>1. CASE ~Accepts(s, Z[l])
    <2>1. next = now /\ l \notin FramesTo(s, Z)
      BY <1>1 DEF OnFrame, FramesTo
    <2>2. ASSUME NEW i \in FramesTo(s, Z), Latest(Z, s, l, i)
          PROVE  Latest(Z, s, L, i)
      <3>1. i \in Nat /\ l \in Nat /\ i # l /\ i <= l
        BY <2>1, <2>2 DEF FramesTo, Latest
      <3>2. i <= L
        BY <3>1
      <3>3. ASSUME NEW k \in FramesTo(s, Z), i < k
            PROVE  L < k
        <4>1. k \in Nat /\ l < k
          BY <2>2, <3>3 DEF FramesTo, Latest
        <4> QED
          BY <4>1
      <3> QED
        BY <3>2, <3>3 DEF Latest
    <2>3. Kept(x, Z, s, B, l, now.rx)
      BY <2>2 DEF Kept
    <2> QED
      BY <2>1, <2>3 DEF PassesDue, Ends
  <1>2. CASE Accepts(s, Z[l])
    <2> DEFINE frame == Z[l]
               source == frame.header.src
               r == now.rx
               n == ProcessReceive(r, source, frame.data)
               N == x.number[l]
    <2>1. l \in FramesTo(s, Z) /\ l \in Nat
      BY <1>2 DEF FramesTo
    <2>2. PICK j \in DOMAIN x.sent : x.sent[j].to = s /\ IsSegment(frame, N, x.sent[j])
      BY <2>1 DEF ArrivesInOrder
    <2> DEFINE m == x.sent[j]
    <2>3. /\ N \in Nat /\ m.seq \in Nat /\ IsSequence(m.message) /\ LastNumber(m) \in Nat
          /\ m.seq < N /\ N <= LastNumber(m)
      BY <2>2, SentFacts DEF ArrivesInOrder, IsSegment
    <2>4. ASSUME NEW i \in FramesTo(s, Z), Latest(Z, s, l, i)
          PROVE  i = l
      <3>1. i \in Nat /\ i <= l /\ (i < l => l < l)
        BY <2>1, <2>4 DEF Latest, FramesTo
      <3> QED
        BY <2>1, <3>1
    <2>5. ASSUME NEW k \in DOMAIN x.sent, x.sent[k].to = s, x.sent[k].seq < N,
                 N <= LastNumber(x.sent[k])
          PROVE  k = j
      BY <2>2, <2>3, <2>5, OneMessage
    <2>6. ASSUME NEW k \in DOMAIN x.sent, Ends(x, Z, s, l, k)
          PROVE  k = j
      <3>1. x.sent[k].to = s /\ N = LastNumber(x.sent[k])
        BY <2>6 DEF Ends
      <3>2. x.sent[k].seq < LastNumber(x.sent[k])
        BY WholeMessages
      <3> QED
        BY <2>3, <2>5, <3>1, <3>2
    <2>7. ASSUME NEW i \in FramesTo(s, Z), NEW k \in DOMAIN x.sent, Latest(Z, s, l, i),
                 After(x, Z, s, B, k), x.number[i] > x.sent[k].seq,
                 x.number[i] < LastNumber(x.sent[k])
          PROVE  i = l /\ k = j /\ N < LastNumber(m)
      <3>1. i = l
        BY <2>4, <2>7
      <3>2. x.sent[k].seq \in Nat /\ LastNumber(x.sent[k]) \in Nat
        BY SentFacts
      <3>3. x.sent[k].seq < N /\ N <= LastNumber(x.sent[k])
        <4> DEFINE c == x.sent[k].seq
                   p == LastNumber(x.sent[k])
        <4>1. N > c /\ N < p /\ c \in Nat /\ p \in Nat
          BY <2>7, <3>1, <3>2
        <4> HIDE DEF c, p, N
        <4>2. c < N /\ N <= p
          BY <2>3, <4>1
        <4> QED
          BY <4>2 DEF c, p
      <3>4. k = j
        BY <2>5, <2>7, <3>3 DEF After
      <3> QED
        BY <2>7, <3>1, <3>4
    <2>8. CASE ~After(x, Z, s, B, j)
      <3>1. Kept(x, Z, s, B, l, next.rx)
        BY <2>7, <2>8 DEF Kept
      <3>2. PassesDue(x, Z, s, B, l, now, next)
        BY <2>6, <2>8 DEF PassesDue
      <3> QED
        BY <3>1, <3>2
    <2>9. CASE After(x, Z, s, B, j)
      <3> DEFINE part == UpTo(m.message, N - m.seq)
                 begun == [buffer |-> part, lastSource |-> source, message |-> <<>>,
                           expectedSeq |-> N % SegmentModulus]
                 done == [InitialRx EXCEPT !.message = m.message]
      <3>1. Fits(r, source, frame, N, m)
        BY <2>1, <2>2, <2>9, KeptFits
      <3>2. n = IF Len(part) > maxRxFragSize THEN InitialRx
                ELSE IF N = LastNumber(m) THEN done ELSE begun
        BY <2>2, <2>3, <3>1, TakesSegment
      <3>3. ~(Len(part) > maxRxFragSize) /\ m.message # <<>>
        <4> DEFINE g == N - m.seq
        <4>1. Tells(frame, N, m)
          BY <2>2, <2>3, SegmentParts
        <4>2. g \in 1..SegmentCount(m.message)
          BY <4>1, Zenon DEF Tells
        <4> HIDE DEF g
        <4>3. ~(Len(UpTo(m.message, g)) > maxRxFragSize) /\ m.message # <<>>
          BY <4>2, WholeMessages
        <4> QED
          BY <4>3 DEF g
      <3>4. IsRx(done) /\ done.message = m.message
        BY DEF IsRx, InitialRx
      <3>5. IsRx(begun) /\ begun.buffer = part /\ begun.lastSource = source
            /\ begun.expectedSeq = N % SegmentModulus
        BY DEF IsRx
      <3>6. n = IF N = LastNumber(m) THEN done ELSE begun
        BY <3>2, <3>3
      <3> HIDE DEF n, done, begun
      <3>7. IsRx(n)
        BY <3>4, <3>5, <3>6
      <3>8. /\ next.rx.buffer = n.buffer /\ next.rx.expectedSeq = n.expectedSeq
            /\ next.rx.lastSource = n.lastSource
            /\ next.messages = IF n.message = <<>> THEN now.messages
                               ELSE Append(now.messages, n.message)
        BY <1>2, <3>7, OnFrameFields DEF n
      <3>9. Kept(x, Z, s, B, l, next.rx)
        <4> SUFFICES ASSUME NEW i \in FramesTo(s, Z), NEW k \in DOMAIN x.sent,
                            Latest(Z, s, l, i), After(x, Z, s, B, k),
                            x.number[i] > x.sent[k].seq, x.number[i] < LastNumber(x.sent[k])
                     PROVE  /\ next.rx.buffer = UpTo(x.sent[k].message, x.number[i] - x.sent[k].seq)
                            /\ next.rx.expectedSeq = x.number[i] % SegmentModulus
                            /\ next.rx.lastSource = Z[i].header.src
          BY DEF Kept
        <4>1. i = l /\ k = j /\ N < LastNumber(m)
          BY <2>7
        <4>2. N # LastNumber(m)
          <5> DEFINE p == LastNumber(m)
          <5>1. N < p /\ p \in Nat
            BY <2>3, <4>1
          <5> HIDE DEF p, N
          <5>2. N # p
            BY <2>3, <5>1
          <5> QED
            BY <5>2 DEF p
        <4>3. n = begun
          BY <3>6, <4>2
        <4> QED
          BY <3>5, <3>8, <4>1, <4>3
      <3>10. PassesDue(x, Z, s, B, l, now, next)
        <4> SUFFICES ASSUME NEW k \in DOMAIN x.sent, Ends(x, Z, s, l, k)
                     PROVE  next.messages = Append(now.messages, x.sent[k].message)
          BY DEF PassesDue
        <4>1. k = j /\ N = LastNumber(m)
          BY <2>6 DEF Ends
        <4>2. n = done
          BY <3>6, <4>1
        <4> QED
          BY <3>3, <3>4, <3>8, <4>1, <4>2
      <3> QED
        BY <3>9, <3>10
    <2> QED
      BY <2>8, <2>9
  <1> QED
    BY <1>1, <1>2

\* All messages are still there when one is added.
LEMMA GotStays ==
    ASSUME NEW x, NEW Z, NEW s, NEW B, NEW L, NEW l, NEW up, NEW w, Got(x, Z, s, B, L, up),
           Due(x, Z, s, B, l) = Due(x, Z, s, B, L), DOMAIN up \subseteq DOMAIN w,
           \A i \in DOMAIN up : w[i] = up[i]
    PROVE  Got(x, Z, s, B, l, w)
  <1> DEFINE D == Due(x, Z, s, B, L)
  <1>1. PICK at \in [D -> DOMAIN up] :
              Increases(at) /\ \A j \in D : up[at[j]] = x.sent[j].message
    BY DEF Got
  <1>2. Due(x, Z, s, B, l) = D
    OBVIOUS
  <1> HIDE DEF D
  <1>3. at \in [D -> DOMAIN w] /\ \A j \in D : w[at[j]] = x.sent[j].message
    BY <1>1
  <1> QED
    BY <1>1, <1>2, <1>3 DEF Got

\* A message that is due is passed up after those that were due before.
LEMMA GotNext ==
    ASSUME NEW x, NEW Z, NEW s \in Sessions, SendsInTurn(x), ArrivesInOrder(x, Z),
           ArrivesWhole(x, Z), DOMAIN Z \subseteq Nat, NEW L \in Nat, NEW l \in DOMAIN Z, l = L + 1,
           NEW B, NEW up, IsSequence(up), Got(x, Z, s, B, L, up),
           NEW w, w = up \/ \E v : w = Append(up, v),
           \A j \in DOMAIN x.sent : After(x, Z, s, B, j) /\ Ends(x, Z, s, l, j) =>
               w = Append(up, x.sent[j].message)
    PROVE  Got(x, Z, s, B, l, w)
  <1> DEFINE n == Len(up)
             D == Due(x, Z, s, B, L)
             E == Due(x, Z, s, B, l)
  <1>1. n \in Nat /\ DOMAIN up = 1..n
    BY SequenceFacts
  <1>2. D \subseteq E
    <2> SUFFICES ASSUME NEW j \in D PROVE j \in E
      OBVIOUS
    <2>1. PICK i \in FramesTo(s, Z) : i <= L /\ Ends(x, Z, s, i, j)
      BY DEF Due
    <2>2. i \in Nat
      BY DEF FramesTo
    <2>3. i <= l
      BY <2>1, <2>2
    <2> QED
      BY <2>1, <2>3 DEF Due
  <1>3. ASSUME NEW j \in E, ~Ends(x, Z, s, l, j)
        PROVE  j \in D
    <2>1. PICK i \in FramesTo(s, Z) : i <= l /\ Ends(x, Z, s, i, j)
      BY DEF Due
    <2>2. i \in Nat /\ i # l
      BY <1>3, <2>1 DEF FramesTo
    <2>3. i <= L
      BY <2>1, <2>2
    <2> QED
      BY <2>1, <2>3 DEF Due
  <1>4. CASE ~\E j \in DOMAIN x.sent : After(x, Z, s, B, j) /\ Ends(x, Z, s, l, j)
    <2>1. E = D
      BY <1>2, <1>3, <1>4 DEF Due
    <2>2. DOMAIN up \subseteq DOMAIN w /\ \A i \in DOMAIN up : w[i] = up[i]
      <3>1. CASE w = up
        BY <3>1
      <3>2. CASE \E v : w = Append(up, v)
        <4>1. PICK v : w = Append(up, v)
          BY <3>2
        <4>2. Appends(up, v)
          BY Appended
        <4>3. IsSequence(w) /\ Len(w) = n + 1 /\ \A i \in 1..n : w[i] = up[i]
          BY <4>1, <4>2 DEF Appends
        <4>4. DOMAIN w = 1..(n + 1)
          BY <4>3, SequenceFacts
        <4> HIDE DEF n
        <4>5. 1..n \subseteq 1..(n + 1)
          BY <1>1
        <4> QED
          BY <1>1, <4>3, <4>4, <4>5
      <3> QED
        BY <3>1, <3>2
    <2> QED
      BY <2>1, <2>2, GotStays
  <1>5. CASE \E j \in DOMAIN x.sent : After(x, Z, s, B, j) /\ Ends(x, Z, s, l, j)
    <2>1. PICK j \in DOMAIN x.sent : After(x, Z, s, B, j) /\ Ends(x, Z, s, l, j)
      BY <1>5
    <2>2. w = Append(up, x.sent[j].message)
      BY <2>1
    <2>3. Appends(up, x.sent[j].message)
      BY Appended
    <2>4. /\ IsSequence(w) /\ Len(w) = n + 1 /\ w[n + 1] = x.sent[j].message
          /\ \A i \in 1..n : w[i] = up[i]
      BY <2>2, <2>3 DEF Appends
    <2>5. DOMAIN w = 1..(n + 1)
      BY <2>4, SequenceFacts
    <2>6. PICK at \in [D -> DOMAIN up] :
                Increases(at) /\ \A k \in D : up[at[k]] = x.sent[k].message
      BY DEF Got
    <2>7. ASSUME NEW k \in E, k # j
          PROVE  k \in D
      <3>1. ~Ends(x, Z, s, l, k)
        <4> SUFFICES ASSUME Ends(x, Z, s, l, k) PROVE FALSE
          OBVIOUS
        <4>1. /\ k \in DOMAIN x.sent /\ x.sent[k].to = s /\ x.sent[j].to = s
              /\ x.number[l] = LastNumber(x.sent[k]) /\ x.number[l] = LastNumber(x.sent[j])
          BY <2>1 DEF Ends, Due
        <4>2. x.sent[k].seq < LastNumber(x.sent[k]) /\ x.sent[j].seq < LastNumber(x.sent[j])
          BY <4>1, WholeMessages
        <4>3. LastNumber(x.sent[k]) \in Nat
          BY <4>1, SentFacts
        <4> DEFINE N == LastNumber(x.sent[k])
        <4>4. N \in Nat /\ x.sent[j].seq < N /\ x.sent[k].seq < N /\ LastNumber(x.sent[k]) = N
              /\ LastNumber(x.sent[j]) = N /\ N <= N
          BY <4>1, <4>2, <4>3
        <4> HIDE DEF N
        <4>5. k = j
          BY <4>1, <4>4, OneMessage
        <4> QED
          BY <2>7, <4>5
      <3> QED
        BY <1>3, <3>1
    <2>8. ASSUME NEW k \in D
          PROVE  k < j \/ k = j
      <3>1. PICK i \in FramesTo(s, Z) : i <= L /\ Ends(x, Z, s, i, k)
        BY DEF Due
      <3>2. i \in Nat /\ l \in FramesTo(s, Z) /\ k \in DOMAIN x.sent
        BY <2>1 DEF FramesTo, Ends, Due
      <3>3. i < l
        BY <3>1, <3>2
      <3>4. x.number[i] < x.number[l]
        BY <3>2, <3>3 DEF ArrivesInOrder
      <3>5. LastNumber(x.sent[k]) < LastNumber(x.sent[j]) /\ x.sent[k].to = x.sent[j].to
        BY <2>1, <3>1, <3>4 DEF Ends
      <3> QED
        BY <3>2, <3>5, EndsInTurn
    <2> DEFINE to == [k \in E |-> IF k = j THEN n + 1 ELSE at[k]]
    <2>9. /\ DOMAIN to = E /\ \A k \in E : k = j => to[k] = n + 1
          /\ \A k \in E : k # j => to[k] = at[k]
      OBVIOUS
    <2> HIDE DEF to, n, D, E
    <2>10. to \in [E -> 1..(n + 1)]
      <3>1. \A k \in E : to[k] \in 1..(n + 1)
        <4> SUFFICES ASSUME NEW k \in E PROVE to[k] \in 1..(n + 1)
          OBVIOUS
        <4>1. CASE k = j
          BY <1>1, <2>9, <4>1
        <4>2. CASE k # j
          <5>1. to[k] \in 1..n
            BY <1>1, <2>6, <2>7, <2>9, <4>2
          <5> QED
            BY <1>1, <5>1
        <4> QED
          BY <4>1, <4>2
      <3>2. to = [k \in E |-> to[k]]
        BY DEF to
      <3> QED
        BY <3>1, <3>2
    <2>11. Increases(to)
      <3> SUFFICES ASSUME NEW a \in E, NEW b \in E, a < b
                   PROVE  to[a] < to[b]
        BY <2>9 DEF Increases
      <3>0. a \in Nat /\ b \in Nat /\ j \in Nat
        BY SentFacts DEF E, Due
      <3>1. a # j
        <4> SUFFICES ASSUME a = j PROVE FALSE
          OBVIOUS
        <4>1. b # j
          BY <3>0
        <4>2. b < j \/ b = j
          BY <2>7, <2>8, <4>1
        <4> QED
          BY <3>0, <4>1, <4>2
      <3>2. a \in D /\ to[a] = at[a] /\ at[a] \in 1..n
        BY <1>1, <2>6, <2>7, <2>9, <3>1
      <3>3. CASE b = j
        BY <1>1, <2>9, <3>2, <3>3
      <3>4. CASE b # j
        <4>1. b \in D /\ to[b] = at[b]
          BY <2>7, <2>9, <3>4
        <4>2. at[a] < at[b]
          BY <2>6, <3>2, <4>1 DEF Increases
        <4> QED
          BY <3>2, <4>1, <4>2
      <3> QED
        BY <3>3, <3>4
    <2>12. ASSUME NEW k \in E
           PROVE  w[to[k]] = x.sent[k].message
      <3>1. CASE k = j
        BY <2>4, <2>9, <3>1
      <3>2. CASE k # j
        <4>1. k \in D /\ to[k] = at[k] /\ at[k] \in 1..n
          BY <1>1, <2>6, <2>7, <2>9, <3>2
        <4> QED
          BY <2>4, <2>6, <4>1
      <3> QED
        BY <3>1, <3>2
    <2> QED
      BY <2>5, <2>10, <2>11, <2>12 DEF Got, E
  <1> QED
    BY <1>4, <1>5

-----------------------------------------------------------------------------
(***************************************************************************)
(* All frames of a read.                                                   *)
(***************************************************************************)

\* What a session has received of a stream since it went online
Hears(x, Z, s, B, L, r, up) ==
    /\ IsRx(r) /\ Partial(x, Z, s, L, r) /\ Delivered(x, Z, s, L, up)
    /\ x.clean => Kept(x, Z, s, B, L, r) /\ Got(x, Z, s, B, L, up)

\* The stream with its frames
Sends(x, Z) ==
    /\ SendsInTurn(x) /\ ArrivesInOrder(x, Z) /\ IsSequence(Z)
    /\ x.clean => ArrivesWhole(x, Z)

AppendsLast(b, a, v) ==
    IsSequence(b \o a) /\ IsSequence(Append(a, v)) /\ b \o Append(a, v) = Append(b \o a, v)

\* Appending to the last of two sequences
LEMMA AppendedLast ==
    ASSUME NEW b, IsSequence(b), NEW a, IsSequence(a), NEW v
    PROVE  AppendsLast(b, a, v)
  <1> DEFINE U == {a[i] : i \in DOMAIN a}
             V == {b[i] : i \in DOMAIN b}
             S == {v} \cup U \cup V
  <1>1. a \in Seq(U) /\ b \in Seq(V) /\ U \subseteq S /\ V \subseteq S /\ v \in S
    BY DEF IsSequence
  <1> HIDE DEF U, V, S
  <1>2. a \in Seq(S) /\ b \in Seq(S) /\ v \in S
    BY <1>1
  <1>3. b \o a \in Seq(S) /\ Append(a, v) \in Seq(S)
    BY <1>2
  <1>4. b \o Append(a, v) = Append(b \o a, v)
    BY <1>2
  <1>5. IsSequence(b \o a) /\ IsSequence(Append(a, v))
    BY <1>3, MakesSequence
  <1> QED
    BY <1>4, <1>5 DEF AppendsLast

\* The same in the middle of a read, before which b was passed up
HearsNow(x, Z, s, B, L, b, now) ==
    IsSequence(now.messages) /\ Hears(x, Z, s, B, L, now.rx, b \o now.messages)

\* The next frame
LEMMA FrameHeard ==
    ASSUME NEW x, NEW Z, NEW s \in Sessions, Sends(x, Z), NEW L \in Nat, NEW l \in DOMAIN Z,
           l = L + 1, NEW B, NEW b, IsSequence(b), NEW now, HearsNow(x, Z, s, B, L, b, now)
    PROVE  HearsNow(x, Z, s, B, l, b, OnFrame(s, now, Z[l]))
  <1> DEFINE next == OnFrame(s, now, Z[l])
  <1>0. IsSequence(now.messages) /\ Hears(x, Z, s, B, L, now.rx, b \o now.messages)
    BY DEF HearsNow
  <1> HIDE DEF next
  <1>1. SendsInTurn(x) /\ ArrivesInOrder(x, Z) /\ (x.clean => ArrivesWhole(x, Z))
    BY DEF Sends
  <1>2. DOMAIN Z \subseteq Nat /\ l \in Nat /\ L <= l
    <2>1. DOMAIN Z = 1..Len(Z) /\ Len(Z) \in Nat
      BY SequenceFacts DEF Sends
    <2> QED
      BY <2>1
  <1> DEFINE up == b \o now.messages
             w == b \o next.messages
  <1>3. /\ IsRx(now.rx) /\ Partial(x, Z, s, L, now.rx) /\ Delivered(x, Z, s, L, up)
        /\ x.clean => Kept(x, Z, s, B, L, now.rx) /\ Got(x, Z, s, B, L, up)
    BY <1>0 DEF Hears
  <1>4. IsRx(next.rx) /\ Partial(x, Z, s, l, next.rx) /\ Passes(x, Z, s, l, now, next)
    BY <1>1, <1>2, <1>3, OnFrameWhole DEF next
  <1>5. /\ IsSequence(up)
        /\ \A v : IsSequence(Append(now.messages, v)) /\ b \o Append(now.messages, v) = Append(up, v)
    <2> DEFINE a == now.messages
    <2> HIDE DEF a
    <2>1. ASSUME NEW v
          PROVE  AppendsLast(b, a, v)
      BY <1>0, AppendedLast DEF a
    <2>2. AppendsLast(b, a, 0)
      BY <2>1
    <2>3. ASSUME NEW v
          PROVE  IsSequence(Append(a, v)) /\ b \o Append(a, v) = Append(b \o a, v)
      BY <2>1 DEF AppendsLast
    <2> QED
      BY <2>2, <2>3 DEF AppendsLast, a
  <1>6. /\ IsSequence(next.messages) /\ Delivered(x, Z, s, l, w)
        /\ w = up \/ \E v : w = Append(up, v)
    <2>1. CASE next.messages = now.messages
      <3>1. w = up
        BY <2>1
      <3>2. IsSequence(next.messages)
        BY <1>0, <2>1
      <3> HIDE DEF w, up
      <3>3. Delivered(x, Z, s, l, up)
        BY <1>2, <1>3, DeliveredStays
      <3> QED
        BY <3>1, <3>2, <3>3
    <2>2. CASE \E j \in DOMAIN x.sent :
                  /\ Ends(x, Z, s, l, j)
                  /\ next.messages = Append(now.messages, x.sent[j].message)
      <3>1. PICK j \in DOMAIN x.sent :
                  /\ Ends(x, Z, s, l, j)
                  /\ next.messages = Append(now.messages, x.sent[j].message)
        BY <2>2
      <3>2. w = Append(up, x.sent[j].message) /\ IsSequence(next.messages)
        BY <1>5, <3>1
      <3> HIDE DEF w, up
      <3> QED
        BY <1>1, <1>2, <1>3, <3>1, <3>2, PassesDelivers
    <2> QED
      BY <1>4, <2>1, <2>2 DEF Passes
  <1>7. ASSUME x.clean
        PROVE  Kept(x, Z, s, B, l, next.rx) /\ Got(x, Z, s, B, l, w)
    <2>1. Kept(x, Z, s, B, l, next.rx) /\ PassesDue(x, Z, s, B, l, now, next)
      BY <1>1, <1>2, <1>3, <1>7, OnFrameKept DEF next
    <2>2. ASSUME NEW j \in DOMAIN x.sent, After(x, Z, s, B, j), Ends(x, Z, s, l, j)
          PROVE  w = Append(up, x.sent[j].message)
      BY <1>5, <2>1, <2>2 DEF PassesDue
    <2> HIDE DEF w, up
    <2>3. Got(x, Z, s, B, l, w)
      BY <1>1, <1>2, <1>3, <1>5, <1>6, <1>7, <2>2, GotNext
    <2> QED
      BY <2>1, <2>3
  <1> QED
    BY <1>4, <1>6, <1>7 DEF HearsNow, Hears, next

\* The receiver after each of the first frames
IsHearing(s, now, frames, last, g) ==
    g = [i \in 0..last |-> IF i = 0 THEN now ELSE OnFrame(s, g[i - 1], frames[i])]

\* The recursion of OnFrames has a solution.
LEMMA HearingExists ==
    ASSUME NEW s, NEW now, NEW frames, NEW last \in Nat
    PROVE  \E g : IsHearing(s, now, frames, last, g)
  <1> DEFINE T == {d \in Nat : \E g : IsHearing(s, now, frames, d, g)}
  <1>1. 0 \in T
    <2> DEFINE g == [i \in 0..0 |-> now]
    <2>1. g = [i \in 0..0 |-> IF i = 0 THEN now ELSE OnFrame(s, g[i - 1], frames[i])]
      OBVIOUS
    <2> HIDE DEF g
    <2>2. IsHearing(s, now, frames, 0, g)
      BY <2>1, Zenon DEF IsHearing
    <2> QED
      BY <2>2
  <1>2. ASSUME NEW d \in Nat, d \in T
        PROVE  d + 1 \in T
    <2>1. PICK g : IsHearing(s, now, frames, d, g)
      BY <1>2
    <2> DEFINE v == OnFrame(s, g[d], frames[d + 1])
               h == [i \in 0..(d + 1) |-> IF i <= d THEN g[i] ELSE v]
    <2>2. \A i \in 0..d : h[i] = g[i]
      OBVIOUS
    <2>3. h[d + 1] = v
      OBVIOUS
    <2>4. h = [i \in 0..(d + 1) |-> h[i]]
      OBVIOUS
    <2> HIDE DEF h
    <2>5. ASSUME NEW i \in 0..(d + 1)
          PROVE  h[i] = IF i = 0 THEN now ELSE OnFrame(s, h[i - 1], frames[i])
      <3>1. CASE i = 0
        <4>1. g[0] = now
          BY <2>1 DEF IsHearing
        <4> QED
          BY <2>2, <3>1, <4>1
      <3>2. CASE i # 0 /\ i <= d
        <4>1. i \in 0..d /\ i - 1 \in 0..d
          BY <3>2
        <4>2. g[i] = OnFrame(s, g[i - 1], frames[i])
          BY <2>1, <3>2, <4>1 DEF IsHearing
        <4>3. h[i] = g[i] /\ h[i - 1] = g[i - 1]
          BY <2>2, <4>1
        <4> QED
          BY <3>2, <4>2, <4>3
      <3>3. CASE i = d + 1
        <4>1. i - 1 = d /\ d \in 0..d /\ i # 0
          BY <3>3
        <4>2. h[i - 1] = g[d]
          BY <2>2, <4>1
        <4>3. h[i] = OnFrame(s, g[d], frames[i])
          BY <2>3, <3>3
        <4> QED
          BY <4>1, <4>2, <4>3
      <3> QED
        BY <3>1, <3>2, <3>3
    <2>6. IsHearing(s, now, frames, d + 1, h)
      BY <2>4, <2>5 DEF IsHearing
    <2> QED
      BY <2>6
  <1> HIDE DEF T
  <1>3. last \in T
    BY <1>1, <1>2, Induction
  <1> QED
    BY <1>3 DEF T

\* All frames of a read
LEMMA FramesHeard ==
    ASSUME NEW x, NEW Z, NEW s \in Sessions, Sends(x, Z), NEW L \in Nat, NEW frames,
           NEW last \in Nat, last = Len(frames), L + last <= Len(Z),
           \A i \in 1..last : frames[i] = Z[L + i],
           NEW B, NEW b, IsSequence(b), NEW now, now.messages = <<>>,
           Hears(x, Z, s, B, L, now.rx, b), NEW next, next = OnFrames(s, now, frames)
    PROVE  HearsNow(x, Z, s, B, L + last, b, next)
  <1> DEFINE g == CHOOSE h : IsHearing(s, now, frames, last, h)
  <1>1. next = g[last]
    BY DEF OnFrames, IsHearing
  <1>2. IsHearing(s, now, frames, last, g)
    BY HearingExists
  <1> HIDE DEF g
  <1>3. g[0] = now
    BY <1>2 DEF IsHearing
  <1>4. ASSUME NEW i \in Nat, i + 1 <= last
        PROVE  g[i + 1] = OnFrame(s, g[i], frames[i + 1])
    <2>1. i + 1 \in 0..last /\ i + 1 # 0 /\ (i + 1) - 1 = i
      BY <1>4
    <2> QED
      BY <1>2, <2>1 DEF IsHearing
  <1>5. DOMAIN Z = 1..Len(Z) /\ Len(Z) \in Nat
    BY SequenceFacts DEF Sends
  <1> DEFINE Good(i) == HearsNow(x, Z, s, B, L + i, b, g[i])
             T == {i \in Nat : i <= last => Good(i)}
  <1>6. 0 \in T
    <2>1. b \o <<>> = b
      <3> DEFINE V == {b[i] : i \in DOMAIN b}
      <3>1. b \in Seq(V)
        BY DEF IsSequence
      <3> HIDE DEF V
      <3> QED
        BY <3>1
    <2>2. IsSequence(<<>>)
      BY DEF IsSequence
    <2>3. L + 0 = L
      OBVIOUS
    <2> QED
      BY <1>3, <2>1, <2>2, <2>3 DEF HearsNow
  <1>7. ASSUME NEW i \in Nat, i \in T
        PROVE  i + 1 \in T
    <2> SUFFICES ASSUME i + 1 <= last PROVE Good(i + 1)
      OBVIOUS
    <2>1. Good(i)
      BY <1>7
    <2> DEFINE k == L + i
               l == L + (i + 1)
    <2>2. k \in Nat /\ l = k + 1 /\ l \in 1..Len(Z) /\ i + 1 \in 1..last
      BY <1>5
    <2>3. g[i + 1] = OnFrame(s, g[i], Z[l])
      BY <1>4, <2>2
    <2> DEFINE u == g[i]
               v == g[i + 1]
    <2>4. HearsNow(x, Z, s, B, k, b, u)
      BY <2>1
    <2> HIDE DEF k, l, u, v, T, Good
    <2>5. v = OnFrame(s, u, Z[l]) /\ l \in DOMAIN Z
      BY <1>5, <2>2, <2>3 DEF u, v
    <2>6. HearsNow(x, Z, s, B, l, b, v)
      <3>1. k \in Nat /\ l = k + 1
        BY <2>2
      <3> QED
        BY <2>4, <2>5, <3>1, FrameHeard
    <2> QED
      BY <2>6 DEF l, v, Good
  <1> HIDE DEF T
  <1>8. last \in T
    BY <1>6, <1>7, Induction
  <1>9. Good(last)
    BY <1>8 DEF T
  <1> QED
    BY <1>1, <1>9

-----------------------------------------------------------------------------
(***************************************************************************)
(* The receivers of the channel.                                           *)
(***************************************************************************)

\* What a read pushes are frames of the stream.
LEMMA OnReadFrames ==
    ASSUME NEW x, NEW y, NEW k, NEW F, Between(x, y, k, F),
           NEW n \in Nat, n <= NumWriteBytes(x), k + n <= Len(y),
           NEW p, p = OnRead(x, SubSeq(y, k + 1, k + n))
    PROVE  p.frames \in Seq(FramesOf(y))
  <1> DEFINE w == [x EXCEPT !.buffer = @ \o SubSeq(y, k + 1, k + n), !.frames = <<>>]
             q == ParseUntilComplete(w)
  <1>1. p = Shift(q)
    BY DEF OnRead
  <1>2. Parses(w, y, k + n, F)
    BY WrittenParses
  <1> HIDE DEF w
  <1>3. Parses(q, y, k + n, F)
    BY <1>2, UntilCompleteParses
  <1> HIDE DEF q
  <1>4. IsParser(q) /\ q.frames \in Seq(FramesOf(y))
    BY <1>3 DEF Parses, ParserTypes
  <1>5. Shift(q).frames = q.frames
    BY <1>4, ShiftFields
  <1> QED
    BY <1>1, <1>4, <1>5

BeginsWith(Z, F) ==
    /\ IsSequence(Z) /\ Len(F) \in Nat /\ Len(F) <= Len(Z)
    /\ \A i \in 1..Len(F) : Z[i] = F[i]

\* The frames found so far are the first frames of the whole stream.
LEMMA FoundAreFirst ==
    ASSUME NEW p, NEW y, NEW k, NEW F, Between(p, y, k, F)
    PROVE  BeginsWith(FramesIn(y), F)
  <1>1. Parses(p, y, k, F) /\ p.frames = <<>>
    BY DEF Between
  <1>2. ParserTypes(p, y, k) /\ IsSequence(y) /\ FoundSoFar(p, y, k, F)
    BY <1>1 DEF Parses, ParserTypes
  <1>3. PICK d \in Nat, n \in Nat, z \in Nat, a \in Nat, l \in Nat :
             /\ d = Gone(p, k) /\ n = Len(p.buffer) /\ z = p.readPos /\ a = Consumed(p, k) + 1
             /\ l = Len(y) /\ NumBytesRead(p) = n - z
             /\ k \in Nat /\ d + n = k /\ a = d + z + 1 /\ z <= n /\ a >= 1 /\ k <= l
    <2>1. HasPlaces(p, y, k)
      BY <1>2, Places
    <2> QED
      BY <2>1, Zenon DEF HasPlaces
  <1>4. l \in k..l /\ a \in 1..(l + 1) /\ l \in 0..l
    BY <1>3
  <1>5. Prefix(y, l) = y
    <2>1. /\ IsSequence(SubSeq(y, 1, l)) /\ Len(SubSeq(y, 1, l)) = (IF 1 <= l THEN l - 1 + 1 ELSE 0)
          /\ \A i \in 1..(l - 1 + 1) : SubSeq(y, 1, l)[i] = y[1 + i - 1]
      BY Part
    <2> DEFINE t == SubSeq(y, 1, l)
    <2> HIDE DEF t
    <2>2. IsSequence(t) /\ Len(t) = l /\ \A i \in 1..l : t[i] = y[i]
      BY <2>1 DEF t
    <2>3. t = y
      BY <1>2, <1>3, <2>2, SameSequence
    <2> QED
      BY <2>3 DEF Prefix, t
  <1> DEFINE e == FramesFrom(Prefix(y, l))[a]
             S == FramesOf(y)
             Z == FramesIn(y)
  <1>6. e \in Seq(S)
    BY <1>2, <1>3, <1>4, FromType
  <1>7. F \in Seq(S) /\ Z = (F \o <<>>) \o e
    <2>1. FramesIn(Prefix(y, l)) = (F \o p.frames) \o FramesFrom(Prefix(y, l))[Consumed(p, k) + 1]
      BY <1>2, <1>3, <1>4 DEF FoundSoFar
    <2> QED
      BY <1>1, <1>2, <1>3, <1>5, <2>1 DEF FoundSoFar
  <1> HIDE DEF e, S, Z
  <1>8. F \o <<>> = F
    BY <1>7
  <1>9. Concatenates(F, e, S)
    BY <1>6, <1>7, Concatenation
  <1>10. /\ Z \in Seq(S) /\ Len(Z) = Len(F) + Len(e)
         /\ \A i \in 1..(Len(F) + Len(e)) : Z[i] = IF i <= Len(F) THEN F[i] ELSE e[i - Len(F)]
    BY <1>7, <1>8, <1>9 DEF Concatenates
  <1>11. Len(F) \in Nat /\ Len(e) \in Nat
    BY <1>6, <1>7
  <1>12. IsSequence(Z)
    BY <1>10, MakesSequence
  <1>13. Len(F) <= Len(Z)
    BY <1>10, <1>11
  <1>14. \A i \in 1..Len(F) : Z[i] = F[i]
    BY <1>10, <1>11
  <1> QED
    BY <1>11, <1>12, <1>13, <1>14 DEF BeginsWith, Z

\* The frames that are complete in the first k bytes
Found(y, k) == Len(FramesIn(Prefix(y, k)))

\* A session that is online has heard what came since then; the others have nothing.
SessionHears(h, x, L, since, s, r, up) ==
    IF s \in h.online
    THEN since \in 0..Len(x.bytes) /\ Hears(x, FramesIn(x.bytes), s, Found(x.bytes, since), L, r, up)
    ELSE IsRx(r) /\ r.buffer = <<>> /\ up = <<>>

AllHear(h, x, r, c) ==
    /\ DOMAIN r = Sessions /\ DOMAIN c = {"frames", "messages", "since"}
    /\ DOMAIN c.messages = Sessions /\ DOMAIN c.since = Sessions
    /\ \A s \in Sessions :
          SessionHears(h, x, Len(c.frames), c.since[s], s, r[s], c.messages[s])

HearInv == AllHear(io, Stream, rx, received)

\* A session that goes online has missed nothing that is due to it.
LEMMA NewHears ==
    ASSUME NEW x, NEW Z, NEW s \in Sessions, Sends(x, Z), NEW L \in Nat, NEW r, IsRx(r), r.buffer = <<>>
    PROVE  Hears(x, Z, s, L, L, r, <<>>)
  <1>1. SendsInTurn(x) /\ ArrivesInOrder(x, Z) /\ IsSequence(Z) /\ (x.clean => ArrivesWhole(x, Z))
    BY DEF Sends
  <1>2. Partial(x, Z, s, L, r)
    BY DEF Partial
  <1>3. IsSequence(<<>>) /\ DOMAIN <<>> = {}
    BY DEF IsSequence
  <1>4. Delivered(x, Z, s, L, <<>>)
    <2> DEFINE at == [n \in {} |-> 0]
    <2>1. at \in [{} -> DOMAIN x.sent] /\ DOMAIN at = {}
      OBVIOUS
    <2> HIDE DEF at
    <2>2. Increases(at)
      BY <2>1 DEF Increases
    <2> QED
      BY <1>3, <2>1, <2>2 DEF Delivered
  <1>5. DOMAIN Z \subseteq Nat
    <2>1. DOMAIN Z = 1..Len(Z) /\ Len(Z) \in Nat
      BY <1>1, SequenceFacts
    <2> QED
      BY <2>1
  <1>6. ASSUME NEW i \in FramesTo(s, Z), i <= L, NEW j \in DOMAIN x.sent, After(x, Z, s, L, j)
        PROVE  ~(x.number[i] > x.sent[j].seq)
    <2>1. PICK k \in FramesTo(s, Z) : k > L /\ x.number[k] = x.sent[j].seq + 1
      BY <1>6 DEF After
    <2>2. i \in Nat /\ k \in Nat
      BY <1>5 DEF FramesTo
    <2>3. i < k
      BY <1>6, <2>1, <2>2
    <2>4. x.number[i] < x.number[k] /\ x.number[i] \in Nat /\ x.sent[j].seq \in Nat
      BY <1>1, <2>3, SentFacts DEF ArrivesInOrder, FramesTo
    <2> QED
      BY <2>1, <2>4
  <1>7. ASSUME x.clean
        PROVE  Kept(x, Z, s, L, L, r) /\ Got(x, Z, s, L, L, <<>>)
    <2>1. Kept(x, Z, s, L, L, r)
      BY <1>6 DEF Kept, Latest
    <2>2. Due(x, Z, s, L, L) = {}
      <3> SUFFICES ASSUME NEW j \in Due(x, Z, s, L, L) PROVE FALSE
        OBVIOUS
      <3>1. j \in DOMAIN x.sent /\ After(x, Z, s, L, j)
        BY DEF Due
      <3>2. PICK i \in FramesTo(s, Z) : i <= L /\ Ends(x, Z, s, i, j)
        BY DEF Due
      <3>3. x.sent[j].seq < LastNumber(x.sent[j]) /\ x.sent[j].seq \in Nat /\ LastNumber(x.sent[j]) \in Nat
        BY <1>1, <1>7, <3>1, WholeMessages, SentFacts
      <3>4. x.number[i] = LastNumber(x.sent[j])
        BY <3>2 DEF Ends
      <3> QED
        BY <1>6, <3>1, <3>2, <3>3, <3>4
    <2> DEFINE at == [n \in {} |-> 0]
    <2>3. at \in [{} -> {}] /\ DOMAIN at = {}
      OBVIOUS
    <2> HIDE DEF at
    <2>4. Increases(at)
      BY <2>3 DEF Increases
    <2>5. Got(x, Z, s, L, L, <<>>)
      BY <1>3, <2>2, <2>3, <2>4 DEF Got
    <2> QED
      BY <2>1, <2>5
  <1> QED
    BY <1>2, <1>4, <1>7 DEF Hears

\* What every peer sends
LEMMA PeerSends ==
    ASSUME NEW c \in Scenarios, NEW name \in c.streams, NEW life \in 0..(Lives - 1),
           NEW x, x = StreamOf(name, life)
    PROVE  /\ Sends(x, FramesIn(x.bytes)) /\ Found(x.bytes, 0) = 0 /\ Len(x.bytes) \in Nat
           /\ EndsWithLast(x, FramesIn(x.bytes))
  <1>1. IsSequence(x.bytes) /\ Carries(x)
    BY StreamAssumption, PeerAssumption
  <1>2. Between(InitialParser, x.bytes, 0, <<>>)
    BY <1>1, InitiallyBetween
  <1>3. IsSequence(FramesIn(x.bytes))
    BY <1>2, FoundAreFirst DEF BeginsWith
  <1>4. <<>> = FramesIn(Prefix(x.bytes, 0))
    BY <1>2, WaitsFoundAll
  <1>5. Found(x.bytes, 0) = 0
    BY <1>4 DEF Found
  <1>6. Len(x.bytes) \in Nat
    BY <1>1, SequenceFacts
  <1> QED
    BY <1>1, <1>3, <1>5, <1>6 DEF Carries, Sends

\* The receiver after OnLowerLayerDown
LEMMA InitialRxEmpty == IsRx(InitialRx) /\ InitialRx.buffer = <<>>
  BY DEF IsRx, InitialRx

\* Nothing was received on a connection that is new or that there is not.
LEMMA NothingHeard ==
    ASSUME NEW x, Sends(x, FramesIn(x.bytes)), Found(x.bytes, 0) = 0, Len(x.bytes) \in Nat,
           NEW h, NEW r, DOMAIN r = Sessions, \A s \in Sessions : IsRx(r[s]) /\ r[s].buffer = <<>>
    PROVE  AllHear(h, x, r, Nothing)
  <1>1. /\ DOMAIN Nothing = {"frames", "messages", "since"} /\ Nothing.frames = <<>>
        /\ DOMAIN Nothing.messages = Sessions /\ DOMAIN Nothing.since = Sessions
        /\ \A s \in Sessions : Nothing.messages[s] = <<>> /\ Nothing.since[s] = 0
    BY DEF Nothing
  <1>2. ASSUME NEW s \in Sessions
        PROVE  SessionHears(h, x, Len(Nothing.frames), Nothing.since[s], s, r[s], Nothing.messages[s])
    <2> DEFINE q == r[s]
    <2>1. IsRx(q) /\ q.buffer = <<>>
      OBVIOUS
    <2> HIDE DEF q
    <2>2. Hears(x, FramesIn(x.bytes), s, 0, 0, q, <<>>)
      BY <2>1, NewHears
    <2>3. Len(Nothing.frames) = 0 /\ 0 \in 0..Len(x.bytes)
      BY <1>1
    <2> QED
      BY <1>1, <2>1, <2>2, <2>3 DEF SessionHears, q
  <1> QED
    BY <1>1, <1>2 DEF AllHear

\* A receiver is reset when its session goes down.
LEMMA BecomesHears ==
    ASSUME Inv, Inv', ParserInv, ParserInv', HearInv, NEW opens, NEW h, Becomes(opens, h)
    PROVE  HearInv'
  <1>0. scenario \in Scenarios /\ Receives(scenario, parser, peer, received)
    BY DEF ParserInv
  <1>1. /\ DOMAIN peer = {"life", "stream", "read"} /\ DOMAIN received = {"frames", "messages", "since"}
        /\ peer.life \in 0..(Lives - 1) /\ peer.stream \in scenario.streams
        /\ Between(parser, Stream.bytes, peer.read, received.frames)
    BY <1>0 DEF Receives, Stream
  <1> DEFINE x == Stream
             Z == FramesIn(x.bytes)
             L == Len(received.frames)
  <1>2. Sends(x, Z) /\ Found(x.bytes, 0) = 0 /\ Len(x.bytes) \in Nat
    <2> DEFINE e == Stream
    <2> HIDE DEF e
    <2>1. e = StreamOf(peer.stream, peer.life)
      BY DEF e, Stream
    <2>2. Sends(e, FramesIn(e.bytes)) /\ Found(e.bytes, 0) = 0 /\ Len(e.bytes) \in Nat
      BY <1>0, <1>1, <2>1, PeerSends
    <2> QED
      BY <2>2 DEF e
  <1>3. /\ DOMAIN rx = Sessions /\ DOMAIN received.messages = Sessions
        /\ DOMAIN received.since = Sessions
        /\ \A s \in Sessions :
              SessionHears(io, x, L, received.since[s], s, rx[s], received.messages[s])
    BY DEF HearInv, AllHear
  <1>4. ASSUME NEW s \in Sessions, s \notin io.online
        PROVE  IsRx(rx[s]) /\ rx[s].buffer = <<>> /\ received.messages[s] = <<>>
    BY <1>3, <1>4 DEF SessionHears
  <1>5. CASE Keeps(h) /\ h.channel
    <2> DEFINE down == io.online \ h.online
               up == h.online \ io.online
               messages == [s \in Sessions |->
                              IF s \in down \cup up THEN <<>> ELSE received.messages[s]]
               since == [s \in Sessions |-> IF s \in up THEN peer.read
                                            ELSE IF s \in down THEN 0 ELSE received.since[s]]
    <2>1. io' = h /\ peer' = peer
      BY <1>5 DEF Keeps
    <2>2. rx' = [s \in Sessions |-> IF s \in down THEN InitialRx ELSE rx[s]]
      BY <1>5 DEF Keeps, OnLowerLayerDown
    <2>3. received' = [received EXCEPT !.messages = messages, !.since = since]
      BY <1>1, <1>5 DEF Keeps
    <2>4. Stream' = x
      BY <2>1 DEF Stream
    <2>5. DOMAIN messages = Sessions /\ DOMAIN since = Sessions
      OBVIOUS
    <2>6. ASSUME NEW s \in Sessions
          PROVE  /\ messages[s] = IF s \in down \cup up THEN <<>> ELSE received.messages[s]
                 /\ since[s] = IF s \in up THEN peer.read
                               ELSE IF s \in down THEN 0 ELSE received.since[s]
      OBVIOUS
    <2> HIDE DEF messages, since
    <2>7. /\ DOMAIN received' = DOMAIN received /\ received'.frames = received.frames
          /\ received'.messages = messages /\ received'.since = since
      BY <1>1, <2>3
    <2>8. ASSUME NEW s \in Sessions
          PROVE  SessionHears(h, x, L, since[s], s, rx'[s], messages[s])
      <3>1. CASE s \in io.online /\ s \in h.online
        <4>1. rx'[s] = rx[s] /\ messages[s] = received.messages[s] /\ since[s] = received.since[s]
          BY <2>2, <2>6, <3>1
        <4> QED
          BY <1>3, <3>1, <4>1 DEF SessionHears
      <3>2. CASE s \in io.online /\ s \notin h.online
        <4>1. rx'[s] = InitialRx /\ messages[s] = <<>>
          BY <2>2, <2>6, <3>2
        <4> QED
          BY <3>2, <4>1, InitialRxEmpty DEF SessionHears
      <3>3. CASE s \notin io.online /\ s \notin h.online
        <4>1. rx'[s] = rx[s] /\ messages[s] = received.messages[s]
          BY <2>2, <2>6, <3>3
        <4> QED
          BY <1>4, <3>3, <4>1 DEF SessionHears
      <3>4. CASE s \notin io.online /\ s \in h.online
        <4>1. rx'[s] = rx[s] /\ messages[s] = <<>> /\ since[s] = peer.read
          BY <2>2, <2>6, <3>4
        <4>2. IsRx(rx[s]) /\ rx[s].buffer = <<>>
          BY <1>4, <3>4
        <4>3. received.frames = FramesIn(Prefix(x.bytes, peer.read))
          BY <1>1, WaitsFoundAll
        <4>4. Found(x.bytes, peer.read) = L
          BY <4>3 DEF Found
        <4>5. L \in Nat
          BY <1>1, FoundAreFirst DEF BeginsWith
        <4>6. peer.read \in 0..Len(x.bytes)
          BY <1>1 DEF Between, Parses, ParserTypes
        <4> DEFINE q == rx[s]
        <4> HIDE DEF q, x, L
        <4>7. Hears(x, Z, s, L, L, q, <<>>)
          BY <1>2, <4>2, <4>5, NewHears DEF q
        <4> QED
          BY <3>4, <4>1, <4>4, <4>6, <4>7 DEF SessionHears, q
      <3> QED
        BY <3>1, <3>2, <3>3, <3>4
    <2>9. DOMAIN rx' = Sessions
      BY <2>2
    <2>10. AllHear(h, x, rx', received')
      BY <1>1, <2>5, <2>7, <2>8, <2>9 DEF AllHear
    <2> QED
      BY <2>1, <2>4, <2>10 DEF HearInv
  <1>6. CASE Keeps(h) /\ ~h.channel
    <2>1. io' = h /\ peer' = [peer EXCEPT !.read = 0] /\ received' = Nothing
      BY <1>6 DEF Keeps
    <2>2. Stream' = x
      BY <1>1, <2>1 DEF Stream
    <2>3. h.online = {}
      BY <1>6, <2>1 DEF Inv, HInv, Open, Online
    <2>4. rx' = [s \in Sessions |-> IF s \in io.online THEN InitialRx ELSE rx[s]]
      BY <1>6, <2>3 DEF Keeps, OnLowerLayerDown
    <2>5. DOMAIN rx' = Sessions /\ \A s \in Sessions : IsRx(rx'[s]) /\ rx'[s].buffer = <<>>
      BY <1>4, <2>4, InitialRxEmpty
    <2> HIDE DEF x
    <2>6. AllHear(h, x, rx', Nothing)
      BY <1>2, <2>5, NothingHeard
    <2> QED
      BY <2>1, <2>2, <2>6 DEF HearInv
  <1>7. CASE Connects(h)
    <2>1. io' = h /\ received' = Nothing
      BY <1>7 DEF Connects
    <2>2. rx' = [s \in Sessions |-> IF s \in io.online THEN InitialRx ELSE rx[s]]
      BY <1>7 DEF Connects, OnLowerLayerDown
    <2>3. DOMAIN rx' = Sessions /\ \A s \in Sessions : IsRx(rx'[s]) /\ rx'[s].buffer = <<>>
      BY <1>4, <2>2, InitialRxEmpty
    <2> DEFINE e == StreamOf(peer'.stream, peer'.life)
    <2>4. scenario' \in Scenarios /\ peer'.stream \in scenario'.streams /\ peer'.life \in 0..(Lives - 1)
      BY DEF ParserInv, Receives
    <2>5. Stream' = e
      BY DEF Stream
    <2> HIDE DEF e
    <2>6. Sends(e, FramesIn(e.bytes)) /\ Found(e.bytes, 0) = 0 /\ Len(e.bytes) \in Nat
      BY <2>4, PeerSends DEF e
    <2>7. AllHear(h, e, rx', Nothing)
      BY <2>3, <2>6, NothingHeard
    <2> QED
      BY <2>1, <2>5, <2>7 DEF HearInv
  <1> QED
    BY <1>5, <1>6, <1>7 DEF Becomes

\* No frames, nothing heard
LEMMA NoFramesHeard ==
    ASSUME NEW s, NEW now
    PROVE  OnFrames(s, now, <<>>) = now
  <1> DEFINE n == Len(<<>>)
             g == CHOOSE h : IsHearing(s, now, <<>>, n, h)
  <1>1. n = 0
    OBVIOUS
  <1>2. OnFrames(s, now, <<>>) = g[n]
    BY DEF OnFrames, IsHearing
  <1> HIDE DEF n
  <1>3. IsHearing(s, now, <<>>, n, g)
    BY <1>1, HearingExists
  <1> HIDE DEF g
  <1>4. g[0] = now
    BY <1>1, <1>3 DEF IsHearing
  <1> QED
    BY <1>1, <1>2, <1>4

\* A read passes its frames to the sessions that are online.
LEMMA ReadHears ==
    ASSUME Inv, ParserInv, ParserInv', HearInv, NEW n \in 1..BufferSize, Read(n)
    PROVE  HearInv'
  <1> DEFINE x == Stream
             y == x.bytes
             Z == FramesIn(y)
             k == peer.read
             F == received.frames
             L == Len(F)
  <1>0. scenario \in Scenarios /\ Receives(scenario, parser, peer, received)
    BY DEF ParserInv
  <1>1. /\ DOMAIN peer = {"life", "stream", "read"} /\ DOMAIN received = {"frames", "messages", "since"}
        /\ peer.life \in 0..(Lives - 1) /\ peer.stream \in scenario.streams
        /\ Between(parser, y, k, F)
    BY <1>0 DEF Receives, Stream
  <1>2. /\ n \in Nat /\ n <= NumWriteBytes(parser) /\ k + n <= Len(y) /\ io' = io
        /\ peer' = [peer EXCEPT !.read = k + n] /\ io.channel
    BY BufferHasRoom DEF Read
  <1>3. Stream' = x
    BY <1>1, <1>2 DEF Stream
  <1>4. io.online = io.enabled
    BY <1>2 DEF Inv, HInv, Open, Online
  <1>5. \E p \in {OnRead(parser, SubSeq(y, k + 1, k + n))} :
        \E up \in {[s \in Sessions |->
                    OnFrames(s, [rx |-> rx[s], messages |-> <<>>],
                             IF s \in io.enabled THEN p.frames ELSE <<>>)]} :
          /\ rx' = [s \in Sessions |-> up[s].rx]
          /\ received' = [received EXCEPT
                !.frames = @ \o p.frames,
                !.messages = [s \in Sessions |-> @[s] \o up[s].messages]]
    BY Zenon DEF Read
  <1>6. PICK p : /\ p = OnRead(parser, SubSeq(y, k + 1, k + n))
                 /\ \E up \in {[s \in Sessions |->
                         OnFrames(s, [rx |-> rx[s], messages |-> <<>>],
                                  IF s \in io.enabled THEN p.frames ELSE <<>>)]} :
                      /\ rx' = [s \in Sessions |-> up[s].rx]
                      /\ received' = [received EXCEPT
                            !.frames = @ \o p.frames,
                            !.messages = [s \in Sessions |-> @[s] \o up[s].messages]]
    BY <1>5, Zenon
  <1>7. PICK up :
             /\ up = [s \in Sessions |->
                        OnFrames(s, [rx |-> rx[s], messages |-> <<>>],
                                 IF s \in io.enabled THEN p.frames ELSE <<>>)]
             /\ rx' = [s \in Sessions |-> up[s].rx]
             /\ received' = [received EXCEPT
                   !.frames = @ \o p.frames,
                   !.messages = [s \in Sessions |-> @[s] \o up[s].messages]]
    BY <1>6, Zenon
  <1> DEFINE G == p.frames
             messages == [s \in Sessions |-> received.messages[s] \o up[s].messages]
             last == Len(G)
  <1>8. /\ DOMAIN received' = DOMAIN received /\ received'.frames = F \o G
        /\ received'.messages = messages /\ received'.since = received.since
    <2>1. received' = [received EXCEPT !.frames = F \o G, !.messages = messages]
      BY <1>1, <1>7
    <2> HIDE DEF messages, G, F
    <2> QED
      BY <1>1, <2>1
  <1>9. Sends(x, Z)
    <2> DEFINE e == Stream
    <2> HIDE DEF e
    <2>1. e = StreamOf(peer.stream, peer.life)
      BY DEF e, Stream
    <2>2. Sends(e, FramesIn(e.bytes))
      BY <1>0, <1>1, <2>1, PeerSends
    <2> QED
      BY <2>2 DEF e
  <1>10. /\ DOMAIN rx = Sessions /\ DOMAIN received.messages = Sessions
        /\ DOMAIN received.since = Sessions
        /\ \A s \in Sessions :
              SessionHears(io, x, L, received.since[s], s, rx[s], received.messages[s])
    BY DEF HearInv, AllHear
  <1> HIDE DEF x
  <1>11. /\ L \in Nat /\ last \in Nat /\ Len(F \o G) = L + last /\ L + last <= Len(Z)
        /\ \A i \in 1..last : G[i] = Z[L + i]
    <2> HIDE DEF y, k, F
    <2>1. Between([p EXCEPT !.frames = <<>>], y, k + n, F \o G)
      BY <1>1, <1>2, <1>6, OnReadBetween
    <2>2. G \in Seq(FramesOf(y))
      BY <1>1, <1>2, <1>6, OnReadFrames
    <2>3. F \in Seq(FramesOf(y))
      BY <1>1 DEF Between, Parses, FoundSoFar
    <2> DEFINE S == FramesOf(y)
               H == F \o G
    <2>4. BeginsWith(Z, H)
      BY <2>1, FoundAreFirst
    <2> HIDE DEF S, G, Z
    <2>5. Concatenates(F, G, S)
      BY <2>2, <2>3, Concatenation DEF S
    <2>6. L \in Nat /\ last \in Nat
      BY <2>2, <2>3
    <2>7. /\ Len(H) = L + last /\ Len(H) <= Len(Z) /\ \A i \in 1..Len(H) : Z[i] = H[i]
          /\ \A i \in 1..(L + last) : H[i] = IF i <= L THEN F[i] ELSE G[i - L]
      BY <2>4, <2>5 DEF BeginsWith, Concatenates
    <2> HIDE DEF H, L, last
    <2>8. ASSUME NEW i \in 1..last
          PROVE  G[i] = Z[L + i]
      <3> DEFINE a == L + i
      <3>1. a \in 1..(L + last) /\ ~(a <= L) /\ a - L = i
        BY <2>6
      <3> HIDE DEF a
      <3>2. Z[a] = G[i]
        BY <2>7, <3>1
      <3> QED
        BY <3>2 DEF a
    <2> QED
      BY <2>6, <2>7, <2>8 DEF H
  <1>12. ASSUME NEW s \in Sessions
         PROVE  SessionHears(io, x, L + last, received.since[s], s, up[s].rx, messages[s])
    <2> DEFINE now == [rx |-> rx[s], messages |-> <<>>]
               b == received.messages[s]
               B == Found(x.bytes, received.since[s])
    <2>1. now.rx = rx[s] /\ now.messages = <<>> /\ messages[s] = b \o up[s].messages
      OBVIOUS
    <2>2. SessionHears(io, x, L, received.since[s], s, now.rx, b)
      BY <1>10, <2>1
    <2>3. up[s] = OnFrames(s, now, IF s \in io.enabled THEN G ELSE <<>>)
      BY <1>7
    <2> DEFINE next == up[s]
    <2> HIDE DEF now, b, messages, next, L, last, G, Z
    <2>4. CASE s \in io.online
      <3>1. next = OnFrames(s, now, G)
        BY <1>4, <2>3, <2>4 DEF next
      <3>2. received.since[s] \in 0..Len(x.bytes) /\ Hears(x, Z, s, B, L, now.rx, b)
        BY <2>2, <2>4 DEF SessionHears, Z
      <3> HIDE DEF B
      <3>3. IsSequence(b)
        BY <3>2 DEF Hears, Delivered
      <3>4. last = Len(G)
        BY DEF last
      <3>5. HearsNow(x, Z, s, B, L + last, b, next)
        BY <1>9, <1>11, <2>1, <3>1, <3>2, <3>3, <3>4, FramesHeard DEF Z
      <3>6. Hears(x, Z, s, B, L + last, next.rx, b \o next.messages)
        BY <3>5 DEF HearsNow
      <3>7. Hears(x, Z, s, B, L + last, up[s].rx, messages[s])
        BY <2>1, <3>6 DEF next
      <3> QED
        BY <2>4, <3>2, <3>7 DEF SessionHears, B, Z
    <2>5. CASE s \notin io.online
      <3>1. next = OnFrames(s, now, <<>>)
        BY <1>4, <2>3, <2>5 DEF next
      <3>2. next = now
        BY <3>1, NoFramesHeard
      <3>3. IsRx(now.rx) /\ now.rx.buffer = <<>> /\ b = <<>>
        BY <2>2, <2>5 DEF SessionHears
      <3>4. messages[s] = <<>> \o <<>>
        BY <2>1, <3>2, <3>3 DEF next
      <3>5. messages[s] = <<>>
        BY <3>4
      <3> QED
        BY <2>5, <3>2, <3>3, <3>5 DEF SessionHears, next
    <2> QED
      BY <2>4, <2>5
  <1>13. DOMAIN rx' = Sessions /\ \A s \in Sessions : rx'[s] = up[s].rx
    BY <1>7
  <1>14. DOMAIN messages = Sessions
    OBVIOUS
  <1>15. Len(received'.frames) = L + last
    BY <1>8, <1>11
  <1> HIDE DEF messages, L, last
  <1>16. AllHear(io, x, rx', received')
    BY <1>1, <1>8, <1>10, <1>12, <1>13, <1>14, <1>15 DEF AllHear
  <1> QED
    BY <1>2, <1>3, <1>16 DEF HearInv

\* The invariant holds initially.
LEMMA HearInit == Init => HearInv
  <1> SUFFICES ASSUME Init PROVE HearInv
    OBVIOUS
  <1>1. /\ scenario \in Scenarios /\ received = Nothing
        /\ rx = [s \in Sessions |-> InitialRx]
    BY DEF Init
  <1>2. PICK name \in scenario.streams : peer = [life |-> 0, stream |-> name, read |-> 0]
    BY DEF Init
  <1>3. 0 \in 0..(Lives - 1)
    BY ChannelAssumption
  <1> DEFINE x == Stream
  <1>4. x = StreamOf(name, 0)
    BY <1>2 DEF Stream
  <1> HIDE DEF x
  <1>5. Sends(x, FramesIn(x.bytes)) /\ Found(x.bytes, 0) = 0 /\ Len(x.bytes) \in Nat
    BY <1>1, <1>3, <1>4, PeerSends
  <1>6. DOMAIN rx = Sessions /\ \A s \in Sessions : IsRx(rx[s]) /\ rx[s].buffer = <<>>
    BY <1>1, InitialRxEmpty
  <1>7. AllHear(io, x, rx, Nothing)
    BY <1>5, <1>6, NothingHeard
  <1> QED
    BY <1>1, <1>7 DEF HearInv, x

\* Every action either reads or applies an operation to the handler.
LEMMA HearNext ==
    Inv /\ Inv' /\ ParserInv /\ ParserInv' /\ HearInv /\ [Next]_vars => HearInv'
  <1> SUFFICES ASSUME Inv, Inv', ParserInv, ParserInv', HearInv, [Next]_vars PROVE HearInv'
    OBVIOUS
  <1>1. CASE \E n \in 1..BufferSize : Read(n)
    BY <1>1, ReadHears
  <1>2. CASE \E opens, h : Becomes(opens, h)
    BY <1>2, BecomesHears
  <1>3. CASE UNCHANGED vars
    BY <1>3 DEF vars, HearInv, Stream
  <1>4. CASE Next
    BY <1>1, <1>2, <1>4 DEF Next, AddSession, EnableSession, DisableSession, RemoveSession,
       Transmit, ShutdownChannel, WriteComplete, ChannelError, ConnectResult,
       StaleConnectResult, Accept, AcceptError, RetryExpires, Retry
  <1> QED
    BY <1>3, <1>4

\* The invariant of the receivers is an invariant of the channel.
LEMMA ChannelHearInv == Spec => []HearInv
  BY HearInit, HearNext, ChannelInv, ChannelParserInv, PTL DEF Spec

\* What TransportRx passes up are whole messages that the peer sent to that session on
\* this connection, each at most once and in order: for any streams in which a message
\* is cut into segments as TransportTx does, however many of the frames are missing or
\* damaged as long as sequence numbers do not come round in the middle of a message, and
\* wherever the connection breaks or the session goes down and up.
THEOREM MessagesTheorem == Spec => []MessagesWhole
  <1>1. ParserInv /\ HearInv => MessagesWhole
    <2> SUFFICES ASSUME ParserInv, HearInv, NEW s \in Sessions
                 PROVE  LET up == received.messages[s] IN
                        \E at \in [DOMAIN up -> SentTo(s, 0, peer.read)] :
                            Increases(at) /\ \A n \in DOMAIN up : up[n] = Stream.sent[at[n]].message
      BY DEF MessagesWhole
    <2> DEFINE x == Stream
               y == x.bytes
               Z == FramesIn(y)
               up == received.messages[s]
               D == SentTo(s, 0, peer.read)
    <2>1. /\ scenario \in Scenarios /\ peer.life \in 0..(Lives - 1) /\ peer.stream \in scenario.streams
          /\ Between(parser, y, peer.read, received.frames)
      BY DEF ParserInv, Receives, Stream
    <2>2. SessionHears(io, x, Len(received.frames), received.since[s], s, rx[s], up)
      BY DEF HearInv, AllHear
    <2>3. SendsInTurn(x) /\ EndsWithLast(x, Z)
      <3>1. x = StreamOf(peer.stream, peer.life)
        BY DEF Stream
      <3> HIDE DEF x
      <3> QED
        BY <2>1, <3>1, PeerSends DEF Sends
    <2>4. peer.read \in 0..Len(y) /\ Len(received.frames) = Len(FramesIn(SubSeq(y, 1, peer.read)))
          /\ Len(received.frames) \in Nat /\ IsSequence(Z)
      <3>1. peer.read \in 0..Len(y)
        BY <2>1 DEF Between, Parses, ParserTypes
      <3>2. received.frames = FramesIn(SubSeq(y, 1, peer.read))
        BY <2>1, WaitsFoundAll DEF Prefix
      <3>3. BeginsWith(Z, received.frames)
        BY <2>1, FoundAreFirst
      <3> QED
        BY <3>1, <3>2, <3>3 DEF BeginsWith
    <2>5. CASE s \notin io.online
      <3>1. up = <<>>
        BY <2>2, <2>5 DEF SessionHears
      <3>2. DOMAIN up = {}
        BY <3>1
      <3> DEFINE at == [n \in {} |-> 0]
      <3>3. at \in [{} -> D] /\ DOMAIN at = {}
        OBVIOUS
      <3> HIDE DEF at, D, up
      <3>4. Increases(at)
        BY <3>3 DEF Increases
      <3> QED
        BY <3>2, <3>3, <3>4 DEF up, D
    <2>6. CASE s \in io.online
      <3>1. Delivered(x, Z, s, Len(received.frames), up)
        BY <2>2, <2>6 DEF SessionHears, Hears
      <3>2. PICK at \in [DOMAIN up -> DOMAIN x.sent] :
                  /\ Increases(at)
                  /\ \A n \in DOMAIN up :
                        /\ up[n] = x.sent[at[n]].message
                        /\ \E i \in FramesTo(s, Z) : i <= Len(received.frames) /\ Ends(x, Z, s, i, at[n])
        BY <3>1 DEF Delivered
      <3>3. ASSUME NEW n \in DOMAIN up
            PROVE  at[n] \in D
        <4> DEFINE j == at[n]
        <4>1. PICK i \in FramesTo(s, Z) : i <= Len(received.frames) /\ Ends(x, Z, s, i, j)
          BY <3>2
        <4>2. j \in DOMAIN x.sent /\ x.sent[j].to = s /\ x.number[i] = LastNumber(x.sent[j])
          BY <3>2, <4>1 DEF Ends
        <4> HIDE DEF j
        <4>3. i \in 1..Len(FramesIn(SubSeq(y, 1, peer.read)))
          <5>1. DOMAIN Z = 1..Len(Z) /\ Len(Z) \in Nat
            BY <2>4, SequenceFacts
          <5>2. i \in 1..Len(Z)
            BY <5>1 DEF FramesTo
          <5> QED
            BY <2>4, <4>1, <5>1, <5>2
        <4>4. x.sent[j].last <= peer.read
          BY <2>3, <2>4, <4>2, <4>3 DEF EndsWithLast
        <4>5. x.sent[j].first > 0
          BY <2>3, <4>2 DEF SendsInTurn
        <4> QED
          BY <4>2, <4>4, <4>5 DEF SentTo, j
      <3> HIDE DEF D
      <3>4. at \in [DOMAIN up -> D]
        BY <3>2, <3>3
      <3> QED
        BY <3>2, <3>4 DEF D
    <2> QED
      BY <2>5, <2>6
  <1> QED
    BY <1>1, ChannelParserInv, ChannelHearInv, PTL

\* TransportRx passes up every message that was sent to a session since it went online,
\* in order, when nothing is missing in the stream: however the bytes are cut into
\* reads, whatever else is sent to other sessions in between and although the session
\* may have gone online in the middle of a message.
THEOREM NothingLostTheorem == Spec => []NothingLost
  <1>1. ParserInv /\ HearInv /\ Inv => NothingLost
    <2> SUFFICES ASSUME ParserInv, HearInv, Inv, NEW s \in io.online, Stream.clean
                 PROVE  LET up == received.messages[s]
                            due == SentTo(s, received.since[s], peer.read)
                        IN  \E at \in [due -> DOMAIN up] :
                                Increases(at) /\ \A j \in due : up[at[j]] = Stream.sent[j].message
      BY DEF NothingLost
    <2> DEFINE x == Stream
               y == x.bytes
               Z == FramesIn(y)
               up == received.messages[s]
               due == SentTo(s, received.since[s], peer.read)
               B == Found(y, received.since[s])
               L == Len(received.frames)
               E == Due(x, Z, s, B, L)
    <2>0. s \in Sessions
      BY DEF Inv, HInv, Open, Handler
    <2>1. /\ scenario \in Scenarios /\ peer.life \in 0..(Lives - 1) /\ peer.stream \in scenario.streams
          /\ Between(parser, y, peer.read, received.frames)
      BY DEF ParserInv, Receives, Stream
    <2>2. SessionHears(io, x, L, received.since[s], s, rx[s], up)
      BY <2>0 DEF HearInv, AllHear
    <2>3. SendsInTurn(x) /\ ArrivesWhole(x, Z)
      <3>1. x = StreamOf(peer.stream, peer.life) /\ x.clean
        BY DEF Stream
      <3> HIDE DEF x
      <3> QED
        BY <2>1, <3>1, PeerSends DEF Sends
    <2>4. peer.read \in 0..Len(y) /\ L = Len(FramesIn(SubSeq(y, 1, peer.read))) /\ L \in Nat
          /\ IsSequence(Z)
      <3>1. peer.read \in 0..Len(y)
        BY <2>1 DEF Between, Parses, ParserTypes
      <3>2. received.frames = FramesIn(SubSeq(y, 1, peer.read))
        BY <2>1, WaitsFoundAll DEF Prefix
      <3>3. BeginsWith(Z, received.frames)
        BY <2>1, FoundAreFirst
      <3> QED
        BY <3>1, <3>2, <3>3 DEF BeginsWith
    <2>5. received.since[s] \in 0..Len(y) /\ Got(x, Z, s, B, L, up)
      BY <2>2 DEF SessionHears, Hears
    <2>6. B = Len(FramesIn(SubSeq(y, 1, received.since[s])))
      BY DEF Found, Prefix
    <2>7. PICK at \in [E -> DOMAIN up] :
                Increases(at) /\ \A j \in E : up[at[j]] = x.sent[j].message
      BY <2>5 DEF Got
    <2>8. ASSUME NEW j \in due
          PROVE  j \in E
      <3> DEFINE m == x.sent[j]
                 c == m.seq
                 p == LastNumber(m)
      <3>1. j \in DOMAIN x.sent /\ m.to = s /\ m.first > received.since[s] /\ m.last <= peer.read
        BY DEF SentTo
      <3>2. c \in Nat /\ p \in Nat /\ c < p /\ m.first \in Nat
        BY <2>3, <3>1, SentFacts, WholeMessages DEF SendsInTurn
      <3>3. c + 1 \in (c + 1)..p /\ p \in (c + 1)..p
        <4> HIDE DEF c, p
        <4> QED
          BY <3>2
      <3>4. PICK i \in FramesTo(s, Z) :
                  /\ x.number[i] = c + 1
                  /\ i <= Len(FramesIn(SubSeq(y, 1, received.since[s]))) => m.first <= received.since[s]
        BY <2>0, <2>3, <2>5, <3>1, <3>3 DEF ArrivesWhole
      <3>5. PICK k \in FramesTo(s, Z) :
                  /\ x.number[k] = p
                  /\ m.last <= peer.read => k <= Len(FramesIn(SubSeq(y, 1, peer.read)))
        BY <2>0, <2>3, <2>4, <3>1, <3>3 DEF ArrivesWhole
      <3>6. ~(m.first <= received.since[s])
        <4> DEFINE f == m.first
                   w == received.since[s]
                   e == Len(y)
        <4>1. f \in Nat /\ w \in 0..e /\ f > w
          BY <2>5, <3>1, <3>2
        <4> HIDE DEF f, w, e
        <4>2. ~(f <= w)
          BY <4>1
        <4> QED
          BY <4>2 DEF f, w
      <3>7. ~(i <= B)
        BY <2>6, <3>4, <3>6
      <3>8. i > B
        <4>1. i \in Nat
          <5>1. DOMAIN Z = 1..Len(Z) /\ Len(Z) \in Nat
            BY <2>4, SequenceFacts
          <5>2. i \in 1..Len(Z)
            BY <5>1 DEF FramesTo
          <5> QED
            BY <5>1, <5>2
        <4>2. B \in Int
          <5>1. IsSequence(y)
            BY <2>1 DEF Between, Parses, ParserTypes
          <5> DEFINE w == received.since[s]
          <5>2. w \in 0..Len(y) /\ 1 \in 1..(w + 1)
            BY <2>5, <5>1, SequenceFacts
          <5> HIDE DEF w
          <5>3. FramesFrom(Prefix(y, w))[1] \in Seq(FramesOf(y))
            BY <5>1, <5>2, FromType
          <5> DEFINE g == FramesFrom(Prefix(y, w))[1]
                     S == FramesOf(y)
          <5>4. B = Len(g)
            BY DEF Found, FramesIn, w
          <5>5. g \in Seq(S)
            BY <5>3
          <5> HIDE DEF g, S
          <5> QED
            BY <5>4, <5>5
        <4> HIDE DEF B
        <4> QED
          BY <3>7, <4>1, <4>2
      <3>9. After(x, Z, s, B, j)
        BY <3>1, <3>4, <3>8 DEF After
      <3>10. k <= L /\ Ends(x, Z, s, k, j)
        BY <2>4, <3>1, <3>5 DEF Ends
      <3> QED
        BY <3>1, <3>9, <3>10 DEF Due
    <2> DEFINE to == [j \in due |-> at[j]]
    <2>9. DOMAIN to = due /\ \A j \in due : to[j] = at[j]
      OBVIOUS
    <2>10. to \in [due -> DOMAIN up]
      BY <2>7, <2>8
    <2> HIDE DEF to, due, E, up
    <2>11. Increases(to)
      <3> SUFFICES ASSUME NEW a \in due, NEW b \in due, a < b
                   PROVE  to[a] < to[b]
        BY <2>9 DEF Increases
      <3>1. at[a] < at[b]
        BY <2>7, <2>8 DEF Increases
      <3> QED
        BY <2>9, <3>1
    <2>12. \A j \in due : up[to[j]] = x.sent[j].message
      BY <2>7, <2>8, <2>9
    <2> QED
      BY <2>10, <2>11, <2>12 DEF due, up
  <1> QED
    BY <1>1, ChannelInv, ChannelParserInv, ChannelHearInv, PTL
=============================================================================
