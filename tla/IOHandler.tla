------------------------------ MODULE IOHandler ------------------------------
(***************************************************************************)
(* IOHandler, which shares one connection among link sessions, and the     *)
(* three ways of getting a connection: TCPClientIOHandler (with its        *)
(* TCPClient), TCPServerIOHandler (with its TCPServer) and                 *)
(* SerialIOHandler.  The operators take and return the state of a handler. *)
(***************************************************************************)
EXTENDS Integers, Sequences, FiniteSets

CONSTANT Sessions

HandlerKinds == {"client", "server", "serial"}

TimerStates == {"none", "running", "expired"}

\* stale counts clients that were replaced while they were connecting, late the queued
\* callbacks of retry timers that nobody holds any more, accepts the accept operations of
\* the server. A server that could not listen is broken, one whose every accept has
\* failed is deaf. There is no server if it is "none" or "gone": it is gone if it was
\* closed although there was a connection.
Handler ==
    [kind : HandlerKinds, closeExisting : BOOLEAN,
     sessions : SUBSET Sessions, enabled : SUBSET Sessions, online : SUBSET Sessions,
     channel : BOOLEAN, writing : BOOLEAN, txQueue : Seq(Sessions), isShutdown : BOOLEAN,
     client : {"none", "idle", "connecting"}, stale : Nat,
     retrytimer : TimerStates, late : Nat,
     server : {"none", "listening", "broken", "deaf", "gone"}, accepts : Nat]

InitialHandler(kind, closeExisting) ==
    [kind |-> kind, closeExisting |-> closeExisting,
     sessions |-> {}, enabled |-> {}, online |-> {},
     channel |-> FALSE, writing |-> FALSE, txQueue |-> <<>>, isShutdown |-> FALSE,
     client |-> "none", stale |-> 0, retrytimer |-> "none", late |-> 0,
     server |-> "none", accepts |-> 0]

-----------------------------------------------------------------------------
(***************************************************************************)
(* The connection: the channel is shut down and forgotten, every session   *)
(* goes down, what was queued is dropped.                                  *)
(***************************************************************************)

Reset(h) == [h EXCEPT !.channel = FALSE, !.online = {}, !.writing = FALSE, !.txQueue = <<>>]

CheckForSend(h) ==
    IF h.txQueue = <<>> \/ ~h.channel \/ h.writing THEN h ELSE [h EXCEPT !.writing = TRUE]

BeginTransmit(h, s) ==
    IF h.channel THEN CheckForSend([h EXCEPT !.txQueue = Append(@, s)]) ELSE h

\* Mutant: the next transmission is not started.
OnWriteComplete_NoCheck(h) ==
    [h EXCEPT !.writing = FALSE, !.txQueue = IF @ = <<>> THEN @ ELSE Tail(@)]

OnWriteComplete(h) ==
    CheckForSend([h EXCEPT !.writing = FALSE, !.txQueue = IF @ = <<>> THEN @ ELSE Tail(@)])

\* Is the new connection used, or closed again at once?
Admits(h) == ~h.channel \/ h.closeExisting

\* Mutant: disabled sessions are told, too.
OnNewChannel_All(h) ==
    IF Admits(h) THEN [Reset(h) EXCEPT !.channel = TRUE, !.online = h.sessions] ELSE h

OnNewChannel(h) ==
    IF Admits(h) THEN [Reset(h) EXCEPT !.channel = TRUE, !.online = h.enabled] ELSE h

-----------------------------------------------------------------------------
(***************************************************************************)
(* Getting a connection. ok says whether an open or listen that is done    *)
(* on the spot succeeds.                                                   *)
(***************************************************************************)

StartRetryTimer(h) == [h EXCEPT !.retrytimer = IF @ = "none" THEN "running" ELSE @]

CancelRetryTimer(h) ==
    [h EXCEPT !.retrytimer = "none", !.late = IF h.retrytimer = "expired" THEN @ + 1 ELSE @]

\* StartConnect: a client that is already connecting is left to it.
StartConnect(h) ==
    IF h.client = "none" THEN h ELSE [h EXCEPT !.client = "connecting"]

TryOpen(h, ok) == IF ok THEN OnNewChannel(h) ELSE StartRetryTimer(h)

StartAccept(h) == [h EXCEPT !.server = "listening", !.accepts = @ + 1]

\* A server that exists starts another accept beside those that are under way; if it is
\* broken, that one fails at once.
StartAcceptingConnection(h, ok) ==
    CASE h.server \in {"none", "gone"} ->
            IF ok THEN StartAccept(h) ELSE [h EXCEPT !.server = "broken"]
      [] h.server \in {"listening", "deaf"} -> StartAccept(h)
      [] h.server = "broken" -> h

\* A client that is replaced is not cancelled.
BeginChannelAccept(h, ok) ==
    CASE h.kind = "client" ->
            StartConnect([h EXCEPT !.client = "idle",
                                   !.stale = IF h.client = "connecting" THEN @ + 1 ELSE @])
      [] h.kind = "server" -> StartAcceptingConnection(h, ok)
      [] h.kind = "serial" -> TryOpen(h, ok)

\* ... nor are those that were replaced earlier.
SuspendChannelAccept(h) ==
    CASE h.kind = "client" -> [CancelRetryTimer(h) EXCEPT !.client = "none"]
      [] h.kind = "server" -> [h EXCEPT !.server = IF h.channel THEN "gone" ELSE "none",
                                        !.accepts = 0]
      [] h.kind = "serial" -> CancelRetryTimer(h)

OnChannelShutdown(h, ok) == IF h.kind = "server" THEN h ELSE BeginChannelAccept(h, ok)

\* OnReadComplete and OnWriteComplete with an error code
OnChannelError(h, ok) == OnChannelShutdown(Reset(h), ok)

\* A client's attempt has ended.
OnConnectResult(h, ok) ==
    IF h.client = "none" THEN h ELSE IF ok THEN OnNewChannel(h) ELSE StartRetryTimer(h)

\* Mutant: a server that has accepted a connection does not accept another.
OnAccept_Once(h) == OnNewChannel([h EXCEPT !.accepts = @ - 1])

\* An accept has ended, with a connection or with an error. The server accepts the next
\* one in the former case only.
OnAccept(h) == StartAccept(OnNewChannel([h EXCEPT !.accepts = @ - 1]))

OnAcceptError(h) ==
    [h EXCEPT !.accepts = @ - 1, !.server = IF h.accepts = 1 THEN "deaf" ELSE @]

\* Mutant: the callback starts the timer again and nothing else.
OnRetry_Polls(h, ok) ==
    StartRetryTimer([h EXCEPT !.retrytimer = "none",
                              !.late = IF h.retrytimer = "none" THEN @ - 1 ELSE @])

\* The retry timer's callback, or that of a timer that was cancelled too late. In the
\* latter case the timer that was started since is left without a reference.
OnRetry(h, ok) ==
    LET fired == [h EXCEPT !.retrytimer = "none",
                           !.late = IF h.retrytimer = "none" THEN @ - 1 ELSE @]
    IN  IF h.kind = "client" THEN StartConnect(fired) ELSE TryOpen(fired, ok)

-----------------------------------------------------------------------------
(***************************************************************************)
(* Sessions                                                                *)
(***************************************************************************)

AddContext(h, s) == [h EXCEPT !.sessions = @ \cup {s}]

Enable(h, s, ok) ==
    LET wanted == [h EXCEPT !.enabled = @ \cup {s}]
    IN  IF s \in h.enabled THEN h
        ELSE IF h.channel THEN [wanted EXCEPT !.online = @ \cup {s}]
        ELSE BeginChannelAccept(wanted, ok)

Disable(h, s) ==
    LET down == [h EXCEPT !.enabled = @ \ {s}, !.online = @ \ {s}]
    IN  IF s \notin h.enabled THEN h
        ELSE IF down.enabled = {} THEN SuspendChannelAccept(Reset(down)) ELSE down

\* The connection is kept when the last session is removed.
Remove(h, s) ==
    LET gone == [h EXCEPT !.sessions = @ \ {s}, !.enabled = @ \ {s}, !.online = @ \ {s}]
    IN  IF gone.enabled = {} THEN SuspendChannelAccept(gone) ELSE gone

\* Mutant: what would open a connection goes on.
Shutdown_KeepsAccepting(h) ==
    [Reset(h) EXCEPT !.isShutdown = TRUE, !.sessions = {}, !.enabled = {}]

\* DNP3Channel::ShutdownImpl: the handler, then the stacks
Shutdown(h) ==
    [SuspendChannelAccept(Reset(h)) EXCEPT
        !.isShutdown = TRUE, !.sessions = {}, !.enabled = {}]
=============================================================================
