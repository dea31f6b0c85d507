------------------------------- MODULE LinkPair -------------------------------
(***************************************************************************)
(* Two link stations over channels that lose frames but keep their order.  *)
(* Both send messages of fresh, numbered segments; either channel end may  *)
(* be closed and opened again.                                             *)
(***************************************************************************)
EXTENDS LinkStation, SequencesExt

CONSTANTS
    Scenarios,    \* what may happen, see Scenario
    MaxWire,      \* bound on the frames in transit to a station
    MaxOrphans,   \* bound on queued callbacks of cancelled timers
    MaxOutages    \* bound on outages

Stations == {"A", "B"}

\* How many segments each station has to send, which stations' channels are closed and
\* opened together, and whether a response timer expires only when no answer can come
\* any more.
Scenario == [load : [Stations -> Nat], broken : SUBSET SUBSET Stations, prompt : BOOLEAN]

ASSUME PairAssumption ==
    /\ Scenarios \subseteq Scenario
    /\ \A c \in Scenarios, s \in Stations : 1..c.load[s] \subseteq Segment
    /\ ~Shared
    /\ MaxWire \in Nat /\ MaxOrphans \in Nat /\ MaxOutages \in Nat

VARIABLES
    left,         \* left[s]: number of segments that s's upper layer still has to send
    station,      \* the two stations
    wire,         \* wire[s]: frames in transit to s
    sent,         \* sent[s]: number of segments that s's upper layer has sent
    received,     \* received[s]: segments passed up at s
    acked,        \* acked[s]: segments acknowledged to s since its link was last unreset
    outages,      \* number of outages so far
    scenario      \* never changes

vars == <<left, station, wire, sent, received, acked, outages, scenario>>

Peer(s) == IF s = "A" THEN "B" ELSE "A"

Opened(l) == OnNewChannel([l EXCEPT !.enabled = TRUE], <<>>)

Init ==
    /\ scenario \in Scenarios
    /\ left = scenario.load
    /\ station = [s \in Stations |-> Opened(InitialStation(TRUE))]
    /\ wire = [s \in Stations |-> <<>>]
    /\ sent = [s \in Stations |-> 0]
    /\ received = [s \in Stations |-> <<>>]
    /\ acked = [s \in Stations |-> {}]
    /\ outages = 0

-----------------------------------------------------------------------------
\* The station's handler has returned l; an unreset link forgets what was acknowledged.
Becomes(s, l, newlyAcked) ==
    /\ station' = [station EXCEPT ![s] = l]
    /\ acked' = [acked EXCEPT ![s] = IF l.status = "RESET" THEN @ \cup newlyAcked ELSE {}]

Send(s) ==
    /\ ~station[s].isSending
    /\ \E n \in {1, 2} :
          /\ n <= left[s]
          /\ left' = [left EXCEPT ![s] = @ - n]
          /\ Becomes(s, BeginTransmit(station[s], [i \in 1..n |-> sent[s] + i]), {})
          /\ sent' = [sent EXCEPT ![s] = @ + n]
    /\ UNCHANGED <<wire, received, outages, scenario>>

RunCompletion(s) ==
    /\ station[s].posted > 0
    /\ Becomes(s, TransportOnTxReady(station[s], <<>>), {})
    /\ UNCHANGED <<left, wire, sent, received, outages, scenario>>

\* What goes on the wire is what the buffer holds. It may get lost on its way.
Write(s) ==
    /\ station[s].txQueue # <<>>
    /\ LET frame == station[s].txBuffer[Head(station[s].txQueue).side]
       IN  \/ wire' = wire
           \/ /\ Len(wire[Peer(s)]) < MaxWire
              /\ wire' = [wire EXCEPT ![Peer(s)] = Append(@, frame)]
    /\ Becomes(s, OnWriteComplete(station[s]), {})
    /\ UNCHANGED <<left, sent, received, outages, scenario>>

Receive(s) ==
    /\ wire[s] # <<>>
    /\ LET l == station[s]
           f == Head(wire[s])
       IN  /\ Becomes(s, OnFrame(l, f, <<>>),
                      IF f.func = "ACK" /\ l.pPriState = "ConfDataWait"
                      THEN {Head(l.segments)} ELSE {})
           /\ received' = IF PushesDataUp(l, f)
                          THEN [received EXCEPT ![s] = @ \o f.data] ELSE received
    /\ wire' = [wire EXCEPT ![s] = Tail(@)]
    /\ UNCHANGED <<left, sent, outages, scenario>>

\* Nothing that s sent, and no answer to it, is still under way.
ExchangeIsDead(s) ==
    /\ \A p \in Stations : wire[p] = <<>>
    /\ station[Peer(s)].txQueue = <<>>

TimerExpires(s) ==
    /\ station[s].timer["response"] = "running"
    /\ station[s].orphans["response"] < MaxOrphans
    /\ scenario.prompt => ExchangeIsDead(s)
    /\ Becomes(s, [station[s] EXCEPT !.timer["response"] = "expired"], {})
    /\ UNCHANGED <<left, wire, sent, received, outages, scenario>>

\* The timer's callback, or that of a timer that was cancelled too late.
ResponseTimeout(s) ==
    /\ station[s].timer["response"] = "expired" \/ station[s].orphans["response"] > 0
    /\ Becomes(s, OnResponseTimeout(station[s]), {})
    /\ UNCHANGED <<left, wire, sent, received, outages, scenario>>

\* The channel of some stations is replaced; what was on its way to them is lost.
Outage ==
    /\ outages < MaxOutages
    /\ \E S \in scenario.broken :
          /\ \A s \in S : /\ station[s].posted = 0
                          /\ scenario.prompt => station[s].timer["response"] # "expired"
          /\ station' = [s \in Stations |-> IF s \in S THEN Opened(station[s]) ELSE station[s]]
          /\ wire' = [s \in Stations |-> IF s \in S THEN <<>> ELSE wire[s]]
          /\ acked' = [s \in Stations |-> IF s \in S THEN {} ELSE acked[s]]
    /\ outages' = outages + 1
    /\ UNCHANGED <<left, sent, received, scenario>>

Next ==
    \/ \E s \in Stations :
          Send(s) \/ RunCompletion(s) \/ Write(s) \/ Receive(s) \/ TimerExpires(s)
             \/ ResponseTimeout(s)
    \/ Outage

Spec == Init /\ [][Next]_vars

-----------------------------------------------------------------------------
AtoB == INSTANCE Delivery WITH submitted <- sent["A"], delivered <- received["B"]

BtoA == INSTANCE Delivery WITH submitted <- sent["B"], delivered <- received["A"]

\* Confirmed user data is delivered at most once and in order, in both directions at
\* once: a retransmission of what was received is recognised by its frame count bit,
\* also when frames are lost, timers fire early and either end starts anew.
AtMostOnceInOrder == AtoB!Spec /\ BtoA!Spec

\* With timers that do not expire while an answer is under way, a segment that was
\* acknowledged while the link was reported RESET has reached the peer: every loss
\* that the frame count bit hides from the sender follows a report of UNRESET.
AckedIsReceived ==
    \A s \in Stations :
        scenario.prompt /\ station[s].status = "RESET" => acked[s] \subseteq ToSet(received[Peer(s)])
=============================================================================
