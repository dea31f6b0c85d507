------------------------- MODULE Outstation_proofs -------------------------
(***************************************************************************)
(* The outstation's request and confirm handling is safe for any requests, *)
(* sequence numbers, fragment sizes and buffer capacities: an inductive    *)
(* invariant on the context, one lemma per method of OContext that says    *)
(* what it changes, and one step per entry point.                          *)
(*                                                                         *)
(* A response holds only what its request asked for, a confirm deletes     *)
(* only what the confirmed fragment carried, and nothing that could be     *)
(* started is left.  These theorems speak of the selections in the event   *)
(* buffer and the database, of the deferred request and of what the last   *)
(* fragments held; their lemmas are in the second half.                    *)
(***************************************************************************)
EXTENDS Outstation, EventStorage_proofs

\* While the outstation waits, it is online and a timer is referenced.
Timed(c) == c.state # "Idle" => c.isOnline /\ c.confirmTimer # "none"

\* The recorded request is the one the last response answers.
Answered(c) ==
    c.lastRequest # NoRequest => /\ c.solTx.answers = c.lastRequest
                                 /\ c.solTx.seq = c.lastRequest.seq
                                 /\ c.solTx.fir

\* A wait for a solicited confirm follows a READ: no other request is recorded.
\* Without this conjunct a repeated non-read request would cancel the timer.
WaitsForRead(c) ==
    c.state = "SolicitedConfirmWait" /\ c.lastRequest # NoRequest =>
        c.lastRequest.function = "READ"

\* The awaited sequence number is that of the fragment sent last.
Awaited(c) ==
    /\ c.state = "SolicitedConfirmWait" => c.solTx.con /\ c.solTx.seq = c.solConfirmNum
    /\ c.state = "UnsolicitedConfirmWait" => c.unsolTx.seq = c.unsolConfirmNum

\* The inductive invariant, on a context.
CInv(c) ==
    /\ IsContext(c)
    /\ BufferInv(c.buffer)
    /\ Timed(c)
    /\ Answered(c)
    /\ WaitsForRead(c)
    /\ Awaited(c)
    /\ c.isTransmitting => c.isOnline
    /\ ~c.overlapped

\* What a handler that transmits may rely on.
Sendable(c) == IsContext(c) /\ BufferInv(c.buffer) /\ CanTransmit(c) /\ ~c.overlapped

\* Parts of the context that a method leaves alone.
SameLink(c, d) == /\ d.isOnline = c.isOnline /\ d.isTransmitting = c.isTransmitting
                  /\ d.overlapped = c.overlapped
SameWait(c, d) == d.state = c.state /\ d.confirmTimer = c.confirmTimer
SameSol(c, d) == /\ d.lastRequest = c.lastRequest /\ d.solTx = c.solTx
                 /\ d.solConfirmNum = c.solConfirmNum
SameUnsol(c, d) == d.unsolTx = c.unsolTx /\ d.unsolConfirmNum = c.unsolConfirmNum

-----------------------------------------------------------------------------
(***************************************************************************)
(* Sequence numbers, timer, transmission.                                  *)
(***************************************************************************)

\* AppSeqNum::Next stays within the modulus.
LEMMA Next1Type == \A s \in Seqs : Next1(s) \in Seqs
  BY SeqAssumption DEF Next1, Seqs

\* What the handlers read of a request has its type.
LEMMA RequestFields ==
    ASSUME NEW r \in Requests
    PROVE  /\ r.seq \in Seqs /\ r.classes \subseteq Classes /\ r.points \subseteq StaticPoints
           /\ r.object \in Controls \cup OtherObjects
           /\ r # NoRequest
  BY RequestsAssumption DEF RequestType

\* TimerRef::Cancel forgets the timer and touches nothing but the late callbacks.
LEMMA CancelEffect ==
    ASSUME NEW c, IsContext(c)
    PROVE  LET d == CancelConfirmTimer(c)
           IN  /\ IsContext(d) /\ d.confirmTimer = "none" /\ d.state = c.state
               /\ SameLink(c, d) /\ SameSol(c, d) /\ SameUnsol(c, d)
               /\ d.buffer = c.buffer /\ d.static = c.static
               /\ d.firstFragment = c.firstFragment
  <1>1. ASSUME NEW x \in TimerStates, NEW n \in Nat
        PROVE  LET d == [c EXCEPT !.confirmTimer = x, !.orphans = n]
               IN  /\ IsContext(d) /\ d.confirmTimer = x /\ d.state = c.state
                   /\ SameLink(c, d) /\ SameSol(c, d) /\ SameUnsol(c, d)
                   /\ d.buffer = c.buffer /\ d.static = c.static
                   /\ d.firstFragment = c.firstFragment
    BY DEF IsContext, SameLink, SameSol, SameUnsol
  <1> DEFINE n == IF c.confirmTimer = "expired" THEN c.orphans + 1 ELSE c.orphans
  <1>2. n \in Nat /\ "none" \in TimerStates
    BY DEF IsContext, TimerStates
  <1>3. CancelConfirmTimer(c) = [c EXCEPT !.confirmTimer = "none", !.orphans = n]
    BY DEF CancelConfirmTimer
  <1> HIDE DEF n
  <1> DEFINE d == [c EXCEPT !.confirmTimer = "none", !.orphans = n]
  <1>4. /\ IsContext(d) /\ d.confirmTimer = "none" /\ d.state = c.state
        /\ SameLink(c, d) /\ SameSol(c, d) /\ SameUnsol(c, d)
        /\ d.buffer = c.buffer /\ d.static = c.static
        /\ d.firstFragment = c.firstFragment
    BY <1>1, <1>2
  <1>5. CancelConfirmTimer(c) = d
    BY <1>3
  <1> HIDE DEF d
  <1> QED
    BY <1>4, <1>5

\* OContext::RestartConfirmTimer leaves a running timer.
LEMMA RestartEffect ==
    ASSUME NEW c, IsContext(c)
    PROVE  LET d == RestartConfirmTimer(c)
           IN  /\ IsContext(d) /\ d.confirmTimer = "running" /\ d.state = c.state
               /\ SameLink(c, d) /\ SameSol(c, d) /\ SameUnsol(c, d)
               /\ d.buffer = c.buffer
  <1> DEFINE e == CancelConfirmTimer(c)
  <1>1. /\ IsContext(e) /\ e.state = c.state /\ SameLink(c, e) /\ SameSol(c, e)
        /\ SameUnsol(c, e) /\ e.buffer = c.buffer
    BY CancelEffect
  <1> HIDE DEF e
  <1>2. LET d == [e EXCEPT !.confirmTimer = "running"]
        IN  /\ IsContext(d) /\ d.confirmTimer = "running" /\ d.state = e.state
            /\ SameLink(e, d) /\ SameSol(e, d) /\ SameUnsol(e, d)
            /\ d.buffer = e.buffer
    BY <1>1 DEF IsContext, TimerStates, SameLink, SameSol, SameUnsol
  <1> QED
    BY <1>1, <1>2 DEF e, RestartConfirmTimer, SameLink, SameSol, SameUnsol

\* OContext::BeginTx marks the channel busy; it does not overlap if the channel was free.
LEMMA BeginTxEffect ==
    ASSUME NEW c, IsContext(c), CanTransmit(c), ~c.overlapped
    PROVE  LET d == BeginTx(c)
           IN  /\ IsContext(d) /\ d.isOnline /\ d.isTransmitting /\ ~d.overlapped
               /\ SameWait(c, d) /\ SameSol(c, d) /\ SameUnsol(c, d)
               /\ d.buffer = c.buffer
  BY DEF IsContext, BeginTx, CanTransmit, SameWait, SameSol, SameUnsol

\* OContext::BeginResponseTx records the response and transmits it.
LEMMA BeginResponseTxEffect ==
    ASSUME NEW c, IsContext(c), CanTransmit(c), ~c.overlapped, NEW rsp \in ResponseType
    PROVE  LET d == BeginResponseTx(c, rsp)
           IN  /\ IsContext(d) /\ d.isOnline /\ d.isTransmitting /\ ~d.overlapped
               /\ SameWait(c, d) /\ SameUnsol(c, d) /\ d.buffer = c.buffer
               /\ d.lastRequest = c.lastRequest /\ d.solConfirmNum = c.solConfirmNum
               /\ d.solTx = rsp
  <1> DEFINE e == [c EXCEPT !.solTx = rsp]
  <1>1. /\ IsContext(e) /\ e.solTx = rsp /\ SameLink(c, e) /\ SameWait(c, e)
        /\ SameUnsol(c, e) /\ e.buffer = c.buffer
        /\ e.lastRequest = c.lastRequest /\ e.solConfirmNum = c.solConfirmNum
    BY DEF IsContext, SameLink, SameWait, SameUnsol
  <1> HIDE DEF e
  <1>2. CanTransmit(e) /\ ~e.overlapped
    BY <1>1 DEF CanTransmit, SameLink
  <1> QED
    BY <1>1, <1>2, BeginTxEffect DEF e, BeginResponseTx, SameWait, SameSol, SameUnsol

\* OContext::BeginUnsolTx keeps the number it sends for the confirm and advances it.
LEMMA BeginUnsolTxEffect ==
    ASSUME NEW c, IsContext(c), CanTransmit(c), ~c.overlapped, NEW rsp \in ResponseType
    PROVE  LET d == BeginUnsolTx(c, rsp)
           IN  /\ IsContext(d) /\ d.isOnline /\ d.isTransmitting /\ ~d.overlapped
               /\ SameWait(c, d) /\ SameSol(c, d) /\ d.buffer = c.buffer
               /\ d.unsolTx = rsp /\ d.unsolConfirmNum = c.unsolNum
  <1>1. ASSUME NEW x \in Seqs, NEW y \in Seqs
        PROVE  LET e == [c EXCEPT !.unsolTx = rsp, !.unsolConfirmNum = x, !.unsolNum = y]
               IN  /\ IsContext(e) /\ SameLink(c, e) /\ SameWait(c, e) /\ SameSol(c, e)
                   /\ e.buffer = c.buffer /\ e.unsolTx = rsp /\ e.unsolConfirmNum = x
    BY DEF IsContext, SameLink, SameWait, SameSol
  <1>2. c.unsolNum \in Seqs
    BY DEF IsContext
  <1> DEFINE e == [c EXCEPT !.unsolTx = rsp, !.unsolConfirmNum = c.unsolNum,
                            !.unsolNum = Next1(@)]
  <1>3. /\ IsContext(e) /\ SameLink(c, e) /\ SameWait(c, e) /\ SameSol(c, e)
        /\ e.buffer = c.buffer /\ e.unsolTx = rsp /\ e.unsolConfirmNum = c.unsolNum
    BY <1>1, <1>2, Next1Type
  <1> HIDE DEF e
  <1>4. CanTransmit(e) /\ ~e.overlapped
    BY <1>3 DEF CanTransmit, SameLink
  <1> QED
    BY <1>3, <1>4, BeginTxEffect DEF e, BeginUnsolTx, SameWait, SameSol, SameUnsol

\* Composing the IIN changes only the overflow flag.
LEMMA GetResponseIINEffect ==
    ASSUME NEW c, Sendable(c)
    PROVE  LET d == GetResponseIIN(c)
           IN  /\ Sendable(d) /\ SameWait(c, d) /\ SameSol(c, d) /\ SameUnsol(c, d)
               /\ d.unsolNum = c.unsolNum
  <1>1. ASSUME NEW b, IsBuffer(b)
        PROVE  LET d == [c EXCEPT !.buffer = b]
               IN  /\ IsContext(d) /\ d.buffer = b /\ SameLink(c, d) /\ SameWait(c, d)
                   /\ SameSol(c, d) /\ SameUnsol(c, d) /\ d.unsolNum = c.unsolNum
    BY <1>1 DEF IsContext, Sendable, SameLink, SameWait, SameSol, SameUnsol
  <1>2. BufferInv(QueryOverflow(c.buffer)) /\ IsBuffer(QueryOverflow(c.buffer))
    BY QueryOverflowInv DEF Sendable, BufferInv
  <1> QED
    BY <1>1, <1>2 DEF GetResponseIIN, Sendable, CanTransmit, SameLink

-----------------------------------------------------------------------------
(***************************************************************************)
(* Reads.                                                                  *)
(***************************************************************************)

\* What a fragment carries has the type of a response.
LEMMA FragmentType ==
    ASSUME NEW b, BufferInv(b), NEW n, NEW seq \in Seqs, NEW fir \in BOOLEAN,
           NEW con \in BOOLEAN, NEW points \in SUBSET StaticPoints,
           NEW request \in Requests \cup {NoRequest}
    PROVE  [seq |-> seq, fir |-> fir, con |-> con, events |-> Loaded(b, n),
            classes |-> {b.events[i].clazz : i \in Loaded(b, n)},
            points |-> points, answers |-> request] \in ResponseType
  <1>1. Loaded(b, n) \subseteq Ids(b)
    BY FirstSubset DEF Loaded, IdsIn
  <1>2. Loaded(b, n) \in SUBSET Nat
    BY <1>1 DEF BufferInv, IsBuffer
  <1>3. {b.events[i].clazz : i \in Loaded(b, n)} \in SUBSET Classes
    <2>1. ASSUME NEW i \in Loaded(b, n)
          PROVE  b.events[i].clazz \in Classes
      <3>1. b.events[i] \in EventRecord
        BY <1>1 DEF BufferInv, IsBuffer
      <3> QED
        BY <3>1 DEF EventRecord
    <2> QED
      BY <2>1
  <1> QED
    BY <1>2, <1>3 DEF ResponseType

\* The first or a later fragment of a response to a READ. If a request is recorded,
\* this is the first fragment of the answer to it.
LEMMA SendFragmentInv ==
    ASSUME NEW c, Sendable(c), NEW seq \in Seqs, NEW request \in Requests \cup {NoRequest},
           \/ c.lastRequest = NoRequest
           \/ /\ c.lastRequest = request /\ request.seq = seq
              /\ request.function = "READ" /\ c.firstFragment
    PROVE  CInv(SendFragment(c, seq, request))
  <1> DEFINE loaded == Loaded(c.buffer, FragmentSize)
             after  == Load(c.buffer, FragmentSize)
             full   == NumSelected(after) # 0
             points == IF full THEN {}
                       ELSE First(c.static, FragmentSize - Cardinality(loaded))
             fin    == ~full /\ c.static \subseteq points
             con    == ~fin \/ loaded # {}
             rsp    == [seq |-> seq, fir |-> c.firstFragment, con |-> con,
                        events |-> loaded,
                        classes |-> {c.buffer.events[i].clazz : i \in loaded},
                        points |-> points, answers |-> request]
             pre    == [c EXCEPT !.buffer = after, !.static = @ \ points,
                                 !.firstFragment = FALSE, !.solConfirmNum = seq]
             iin    == GetResponseIIN(pre)
             sent   == BeginResponseTx(iin, rsp)
  <1>1. BufferInv(after) /\ IsBuffer(after)
    BY LoadInv DEF Sendable, BufferInv
  <1>2. points \in SUBSET StaticPoints /\ c.static \in SUBSET StaticPoints
    <2>1. c.static \in SUBSET StaticPoints
      BY DEF Sendable, IsContext
    <2> QED
      BY <2>1, FirstSubset
  <1>3. con \in BOOLEAN /\ c.firstFragment \in BOOLEAN
    BY DEF Sendable, IsContext
  <1>4. rsp \in ResponseType
    <2>1. BufferInv(c.buffer)
      BY DEF Sendable
    <2> HIDE DEF con, points
    <2> QED
      BY <1>2, <1>3, <2>1, FragmentType
  <1>5. SendFragment(c, seq, request) =
          IF con THEN [RestartConfirmTimer(sent) EXCEPT !.state = "SolicitedConfirmWait"]
                 ELSE [sent EXCEPT !.state = "Idle"]
    BY DEF SendFragment
  <1>6. rsp.seq = seq /\ rsp.fir = c.firstFragment /\ rsp.con = con /\ rsp.answers = request
    OBVIOUS
  <1> HIDE DEF after, points, con, rsp
  <1>7. /\ IsContext(pre) /\ pre.buffer = after /\ pre.solConfirmNum = seq
        /\ SameLink(c, pre) /\ pre.lastRequest = c.lastRequest
    BY <1>1, <1>2 DEF Sendable, IsContext, SameLink
  <1> HIDE DEF pre
  <1>8. Sendable(pre)
    BY <1>1, <1>7 DEF Sendable, SameLink, CanTransmit
  <1>9. Sendable(iin) /\ SameSol(pre, iin)
    BY <1>8, GetResponseIINEffect
  <1> HIDE DEF iin
  <1>10. /\ IsContext(sent) /\ sent.isOnline /\ sent.isTransmitting /\ ~sent.overlapped
         /\ BufferInv(sent.buffer) /\ sent.lastRequest = c.lastRequest
         /\ sent.solConfirmNum = seq /\ sent.solTx = rsp
    BY <1>4, <1>7, <1>9, BeginResponseTxEffect DEF Sendable, SameSol
  <1> HIDE DEF sent
  <1>11. CASE con
    <2> DEFINE w == RestartConfirmTimer(sent)
    <2>1. /\ IsContext(w) /\ w.confirmTimer = "running"
          /\ SameLink(sent, w) /\ SameSol(sent, w) /\ w.buffer = sent.buffer
      BY <1>10, RestartEffect
    <2> HIDE DEF w
    <2> DEFINE d == [w EXCEPT !.state = "SolicitedConfirmWait"]
    <2>2. /\ IsContext(d) /\ d.state = "SolicitedConfirmWait"
          /\ d.confirmTimer = w.confirmTimer
          /\ SameLink(w, d) /\ SameSol(w, d) /\ d.buffer = w.buffer
      BY <2>1 DEF IsContext, States, SameLink, SameSol
    <2> HIDE DEF d
    <2>3. CInv(d)
      BY <1>6, <1>10, <1>11, <2>1, <2>2
         DEF CInv, Timed, Answered, WaitsForRead, Awaited, SameLink, SameSol
    <2> QED
      BY <1>5, <1>11, <2>3 DEF d, w
  <1>12. CASE ~con
    <2> DEFINE d == [sent EXCEPT !.state = "Idle"]
    <2>1. /\ IsContext(d) /\ d.state = "Idle"
          /\ SameLink(sent, d) /\ SameSol(sent, d) /\ d.buffer = sent.buffer
      BY <1>10 DEF IsContext, States, SameLink, SameSol
    <2> HIDE DEF d
    <2>2. CInv(d)
      BY <1>6, <1>10, <2>1
         DEF CInv, Timed, Answered, WaitsForRead, Awaited, SameLink, SameSol
    <2> QED
      BY <1>5, <1>12, <2>2 DEF d
  <1> QED
    BY <1>11, <1>12

\* A response without objects has the type of a response.
LEMMA EmptyResponseType ==
    ASSUME NEW r \in Requests
    PROVE  EmptyResponse(r) \in ResponseType
  BY RequestFields DEF EmptyResponse, ResponseType

\* A request with well-formed objects starts from a clean selection.
LEMMA SelectForReadEffect ==
    ASSUME NEW c, Sendable(c), NEW r \in Requests
    PROVE  LET d == SelectForRead(c, r)
           IN  Sendable(d) /\ d.firstFragment /\ d.lastRequest = c.lastRequest
  <1> DEFINE u == Unselect(c.buffer)
             n == Cardinality(Ids(u))
             b == SelectByClass(u, r.classes, n)
             st == (c.static \cap OctetPoints) \cup r.points
  <1>1. BufferInv(u)
    BY UnselectInv DEF Sendable
  <1>2. BufferInv(b) /\ IsBuffer(b)
    <2> HIDE DEF u, n
    <2> DEFINE hits == First({i \in IdsIn(u, "unselected") : u.events[i].clazz \in r.classes}, n)
    <2>1. hits \subseteq IdsIn(u, "unselected")
      BY FirstSubset
    <2>2. b = Select(u, hits, {}, <<>>)
      BY DEF SelectByClass
    <2> HIDE DEF hits
    <2>3. BufferInv(Select(u, hits, {}, <<>>))
      BY <1>1, <2>1, SelectInv
    <2> QED
      BY <2>2, <2>3 DEF BufferInv
  <1>3. st \in SUBSET StaticPoints
    BY RequestFields DEF Sendable, IsContext
  <1> DEFINE clean == [c EXCEPT !.firstFragment = TRUE, !.buffer = u]
             un    == [clean EXCEPT !.static = @ \cap OctetPoints]
             d     == [un EXCEPT !.buffer = SelectByClass(@, r.classes, Cardinality(Ids(@))),
                                 !.static = @ \cup r.points]
  <1>4. SelectForRead(c, r) = d
    BY DEF SelectForRead, UnselectStatic
  <1>5. /\ IsContext(clean) /\ clean.buffer = u /\ clean.static = c.static
        /\ clean.firstFragment /\ SameLink(c, clean) /\ clean.lastRequest = c.lastRequest
    <2>1. IsBuffer(u)
      BY <1>1 DEF BufferInv
    <2> HIDE DEF u
    <2> QED
      BY <2>1 DEF Sendable, IsContext, SameLink
  <1> HIDE DEF clean
  <1>6. /\ IsContext(un) /\ un.buffer = u /\ un.static = c.static \cap OctetPoints
        /\ un.firstFragment /\ SameLink(c, un) /\ un.lastRequest = c.lastRequest
    <2> HIDE DEF u
    <2> QED
      BY <1>5 DEF IsContext, SameLink
  <1> HIDE DEF un
  <1>7. ASSUME NEW bb, IsBuffer(bb), NEW ss \in SUBSET StaticPoints
        PROVE  LET e == [un EXCEPT !.buffer = bb, !.static = ss]
               IN  /\ IsContext(e) /\ e.buffer = bb /\ e.firstFragment
                   /\ SameLink(un, e) /\ e.lastRequest = un.lastRequest
    BY <1>6, <1>7 DEF IsContext, SameLink
  <1>8. d = [un EXCEPT !.buffer = b, !.static = st]
    BY <1>6
  <1>9. /\ IsContext(d) /\ d.buffer = b /\ d.firstFragment
        /\ SameLink(c, d) /\ d.lastRequest = c.lastRequest
    <2> HIDE DEF b, st, d
    <2> QED
      BY <1>2, <1>3, <1>6, <1>7, <1>8 DEF SameLink
  <1> HIDE DEF d
  <1> QED
    BY <1>2, <1>4, <1>9 DEF Sendable, SameLink, CanTransmit

\* OContext::RespondToReadRequest, for well-formed and malformed objects.
LEMMA RespondToReadInv ==
    ASSUME NEW c, Sendable(c), NEW r \in Requests, r.function = "READ"
    PROVE  CInv(RespondToReadRequest(c, r))
  <1> DEFINE rec == [c EXCEPT !.lastRequest = r]
  <1>1. Sendable(rec) /\ rec.lastRequest = r
    <2>1. /\ IsContext(rec) /\ rec.lastRequest = r /\ SameLink(c, rec)
          /\ rec.buffer = c.buffer
      BY DEF Sendable, IsContext, SameLink
    <2> HIDE DEF rec
    <2> QED
      BY <2>1 DEF Sendable, SameLink, CanTransmit
  <1>2. CASE r.object # "malformed"
    <2>1. RespondToReadRequest(c, r) = SendFragment(SelectForRead(rec, r), r.seq, r)
      BY <1>2 DEF RespondToReadRequest
    <2> DEFINE sel == SelectForRead(rec, r)
    <2>2. Sendable(sel) /\ sel.firstFragment /\ sel.lastRequest = r
      <3> HIDE DEF rec
      <3> QED
        BY <1>1, SelectForReadEffect
    <2> HIDE DEF sel
    <2>3. CInv(SendFragment(sel, r.seq, r))
      BY <2>2, RequestFields, SendFragmentInv
    <2> QED
      BY <2>1, <2>3 DEF sel
  <1>3. CASE r.object = "malformed"
    <2> HIDE DEF rec
    <2> DEFINE u == Unselect(rec.buffer)
               e == [rec EXCEPT !.firstFragment = TRUE, !.buffer = Unselect(@),
                                !.solConfirmNum = r.seq]
               un == UnselectStatic(e)
               iin == GetResponseIIN(un)
               sent == BeginResponseTx(iin, EmptyResponse(r))
               d == [sent EXCEPT !.state = "Idle"]
    <2>1. RespondToReadRequest(c, r) = d
      BY <1>3 DEF RespondToReadRequest, rec
    <2>2. BufferInv(u) /\ IsBuffer(u)
      BY <1>1, UnselectInv DEF Sendable, BufferInv
    <2>3. /\ IsContext(e) /\ SameLink(rec, e) /\ e.buffer = u /\ e.lastRequest = r
      <3>1. \A b : IsBuffer(b) =>
              LET x == [rec EXCEPT !.firstFragment = TRUE, !.buffer = b, !.solConfirmNum = r.seq]
              IN  IsContext(x) /\ SameLink(rec, x) /\ x.buffer = b /\ x.lastRequest = rec.lastRequest
        BY <1>1, RequestFields DEF Sendable, IsContext, SameLink
      <3> QED
        BY <1>1, <2>2, <3>1
    <2> HIDE DEF e, u
    <2>4. Sendable(un) /\ un.lastRequest = r
      <3>1. /\ IsContext(un) /\ SameLink(e, un) /\ un.buffer = e.buffer
            /\ un.lastRequest = e.lastRequest
        BY <2>3 DEF UnselectStatic, IsContext, SameLink
      <3> QED
        BY <1>1, <2>2, <2>3, <3>1 DEF Sendable, SameLink, CanTransmit
    <2> HIDE DEF un
    <2>5. Sendable(iin) /\ iin.lastRequest = r
      BY <2>4, GetResponseIINEffect DEF SameSol
    <2> HIDE DEF iin
    <2>6. /\ IsContext(sent) /\ sent.isOnline /\ sent.isTransmitting /\ ~sent.overlapped
          /\ BufferInv(sent.buffer) /\ sent.lastRequest = r /\ sent.solTx = EmptyResponse(r)
      BY <2>5, EmptyResponseType, BeginResponseTxEffect DEF Sendable
    <2> HIDE DEF sent
    <2>7. /\ IsContext(d) /\ d.state = "Idle" /\ SameLink(sent, d) /\ SameSol(sent, d)
          /\ d.buffer = sent.buffer
      BY <2>6 DEF IsContext, States, SameLink, SameSol
    <2> HIDE DEF d
    <2>8. CInv(d)
      BY <2>6, <2>7 DEF CInv, Timed, Answered, WaitsForRead, Awaited, SameLink, SameSol,
                        EmptyResponse
    <2> QED
      BY <2>1, <2>8
  <1> QED
    BY <1>2, <1>3

-----------------------------------------------------------------------------
(***************************************************************************)
(* Other requests.                                                         *)
(***************************************************************************)

\* What the handlers of the function codes do not touch.
Untouched(c, d) ==
    /\ SameLink(c, d) /\ SameWait(c, d) /\ SameSol(c, d) /\ SameUnsol(c, d)
    /\ d.buffer = c.buffer

\* OContext::HandleNonReadResponse changes nothing the invariant speaks of.
LEMMA HandleNonReadEffect ==
    ASSUME NEW c, IsContext(c), NEW r \in Requests
    PROVE  IsContext(HandleNonReadResponse(c, r)) /\ Untouched(c, HandleNonReadResponse(c, r))
  <1> USE DEF Untouched, SameLink, SameWait, SameSol, SameUnsol
  <1>0. IsContext(c) /\ Untouched(c, c)
    OBVIOUS
  <1>s. c.solNum \in Seqs /\ Next1(c.solNum) \in Seqs
    BY Next1Type DEF IsContext
  <1>1. IsContext(HandleWrite(c, r)) /\ Untouched(c, HandleWrite(c, r))
    <2>1. ASSUME NEW x \in BOOLEAN, NEW y \in [seq : Seqs, valid : BOOLEAN]
          PROVE  LET d == [c EXCEPT !.deviceRestart = x, !.time = y]
                 IN  IsContext(d) /\ Untouched(c, d)
      BY DEF IsContext
    <2> DEFINE x == c.deviceRestart /\ r.object # "restartIIN"
               y == [seq |-> c.time.seq,
                     valid |-> c.time.valid /\ ~(r.object = "lanTime" /\ c.time.seq = c.solNum)]
    <2>2. x \in BOOLEAN
      OBVIOUS
    <2>3. c.time \in [seq : Seqs, valid : BOOLEAN]
      BY DEF IsContext
    <2>4. y \in [seq : Seqs, valid : BOOLEAN]
      BY <2>3
    <2> DEFINE d == [c EXCEPT !.deviceRestart = x, !.time = y]
    <2>5. HandleWrite(c, r) = d
      BY ZenonT(30) DEF HandleWrite
    <2> HIDE DEF x, y
    <2>6. IsContext(d) /\ Untouched(c, d)
      BY <2>1, <2>2, <2>4
    <2> HIDE DEF d, Untouched
    <2> QED
      BY <2>5, <2>6
  <1>2. IsContext(HandleSelect(c, r)) /\ Untouched(c, HandleSelect(c, r))
    <2>1. ASSUME NEW x \in [seq : Seqs, object : Controls \cup OtherObjects, valid : BOOLEAN]
          PROVE  LET d == [c EXCEPT !.control = x, !.operated = 0]
                 IN  IsContext(d) /\ Untouched(c, d)
      <3> DEFINE d == [c EXCEPT !.control = x, !.operated = 0]
      <3>1. Untouched(c, d)
        BY DEF IsContext
      <3> DEFINE e == [c EXCEPT !.control = x]
      <3>2. IsContext(e)
        BY DEF IsContext
      <3>3. IsContext(d)
        <4>1. d = [e EXCEPT !.operated = 0]
          BY DEF IsContext
        <4> HIDE DEF d, e
        <4> QED
          BY <3>2, <4>1 DEF IsContext
      <3> QED
        BY <3>1, <3>3
    <2> DEFINE x == [seq |-> Next1(c.solNum), object |-> r.object, valid |-> TRUE]
    <2>2. x \in [seq : Seqs, object : Controls \cup OtherObjects, valid : BOOLEAN]
      BY <1>s, RequestFields
    <2> DEFINE d == [c EXCEPT !.control = x, !.operated = 0]
    <2>3. HandleSelect(c, r) \in {c, d}
      BY DEF HandleSelect
    <2> HIDE DEF x
    <2>4. IsContext(d) /\ Untouched(c, d)
      BY <2>1, <2>2
    <2> HIDE DEF d, Untouched
    <2> QED
      BY <1>0, <2>3, <2>4
  <1>3. IsContext(HandleOperate(c, r)) /\ Untouched(c, HandleOperate(c, r))
    <2>1. ASSUME NEW n \in 0..2
          PROVE  LET d == [c EXCEPT !.operated = n]
                 IN  IsContext(d) /\ Untouched(c, d)
      BY DEF IsContext
    <2> DEFINE n == IF c.operated = 2 THEN 2 ELSE c.operated + 1
    <2>2. n \in 0..2
      <3>1. c.operated \in 0..2
        BY DEF IsContext
      <3> QED
        BY <3>1
    <2> DEFINE d == [c EXCEPT !.operated = n]
    <2>3. HandleOperate(c, r) \in {c, d}
      BY DEF HandleOperate
    <2> HIDE DEF n
    <2>4. IsContext(d) /\ Untouched(c, d)
      BY <2>1, <2>2
    <2> HIDE DEF d, Untouched
    <2> QED
      BY <1>0, <2>3, <2>4
  <1>4. ASSUME NEW x \in SUBSET Classes
        PROVE  LET d == [c EXCEPT !.unsolClassMask = x]
               IN  IsContext(d) /\ Untouched(c, d)
    BY DEF IsContext
  <1>5. /\ c.unsolClassMask \cup r.classes \in SUBSET Classes
        /\ c.unsolClassMask \ r.classes \in SUBSET Classes
    BY RequestFields DEF IsContext
  <1>6. IsContext(HandleEnableUnsolicited(c, r)) /\ Untouched(c, HandleEnableUnsolicited(c, r))
    BY <1>0, <1>4, <1>5 DEF HandleEnableUnsolicited
  <1>7. IsContext(HandleDisableUnsolicited(c, r)) /\ Untouched(c, HandleDisableUnsolicited(c, r))
    BY <1>0, <1>4, <1>5 DEF HandleDisableUnsolicited
  <1>8. IsContext(HandleRecordCurrentTime(c, r)) /\ Untouched(c, HandleRecordCurrentTime(c, r))
    <2>1. ASSUME NEW x \in [seq : Seqs, valid : BOOLEAN]
          PROVE  LET d == [c EXCEPT !.time = x]
                 IN  IsContext(d) /\ Untouched(c, d)
      BY DEF IsContext
    <2> DEFINE x == [seq |-> Next1(c.solNum), valid |-> TRUE]
    <2>2. x \in [seq : Seqs, valid : BOOLEAN]
      BY <1>s
    <2> DEFINE d == [c EXCEPT !.time = x]
    <2>3. HandleRecordCurrentTime(c, r) \in {c, d}
      BY DEF HandleRecordCurrentTime
    <2> HIDE DEF x
    <2>4. IsContext(d) /\ Untouched(c, d)
      BY <2>1, <2>2
    <2> HIDE DEF d, Untouched
    <2> QED
      BY <1>0, <2>3, <2>4
  <1> DEFINE h == HandleNonReadResponse(c, r)
  <1>9. h \in {HandleWrite(c, r), HandleSelect(c, r), HandleOperate(c, r),
               HandleEnableUnsolicited(c, r), HandleDisableUnsolicited(c, r),
               HandleRecordCurrentTime(c, r), c}
    BY DEF HandleNonReadResponse
  <1> HIDE DEF h, Untouched
  <1>10. IsContext(h) /\ Untouched(c, h)
    BY <1>0, <1>1, <1>2, <1>3, <1>6, <1>7, <1>8, <1>9
  <1> QED
    BY <1>10 DEF h

\* OContext::RespondToNonReadRequest records the request with the response to it.
LEMMA RespondToNonReadEffect ==
    ASSUME NEW c, Sendable(c), NEW r \in Requests
    PROVE  LET d == RespondToNonReadRequest(c, r)
           IN  /\ IsContext(d) /\ BufferInv(d.buffer)
               /\ d.isOnline /\ d.isTransmitting /\ ~d.overlapped
               /\ SameWait(c, d) /\ SameUnsol(c, d) /\ Answered(d)
  <1> DEFINE rec == [c EXCEPT !.lastRequest = r]
             h   == HandleNonReadResponse(rec, r)
             iin == GetResponseIIN(h)
             d   == BeginResponseTx(iin, EmptyResponse(r))
  <1>1. /\ IsContext(rec) /\ SameLink(c, rec) /\ SameWait(c, rec) /\ SameUnsol(c, rec)
        /\ rec.lastRequest = r /\ rec.buffer = c.buffer
    BY DEF Sendable, IsContext, SameLink, SameWait, SameUnsol
  <1> HIDE DEF rec
  <1>2. IsContext(h) /\ Untouched(rec, h)
    BY <1>1, HandleNonReadEffect
  <1> HIDE DEF h
  <1>3. Sendable(h)
    BY <1>1, <1>2 DEF Sendable, Untouched, SameLink, CanTransmit
  <1>4. Sendable(iin) /\ SameWait(h, iin) /\ SameSol(h, iin) /\ SameUnsol(h, iin)
    BY <1>3, GetResponseIINEffect
  <1> HIDE DEF iin
  <1>5. /\ IsContext(d) /\ d.isOnline /\ d.isTransmitting /\ ~d.overlapped
        /\ SameWait(iin, d) /\ SameUnsol(iin, d) /\ d.buffer = iin.buffer
        /\ d.lastRequest = iin.lastRequest /\ d.solTx = EmptyResponse(r)
    BY <1>4, EmptyResponseType, BeginResponseTxEffect DEF Sendable
  <1> HIDE DEF d
  <1>6. d.lastRequest = r
    BY <1>1, <1>2, <1>4, <1>5 DEF Untouched, SameSol
  <1>7. Answered(d)
    BY <1>5, <1>6 DEF Answered, EmptyResponse
  <1>8. /\ BufferInv(d.buffer) /\ SameWait(c, d) /\ SameUnsol(c, d)
    BY <1>1, <1>2, <1>4, <1>5 DEF Untouched, SameWait, SameUnsol, Sendable
  <1> QED
    BY <1>5, <1>7, <1>8 DEF d, iin, h, rec, RespondToNonReadRequest

-----------------------------------------------------------------------------
(***************************************************************************)
(* The channel states.                                                     *)
(***************************************************************************)

\* The part of the invariant that does not depend on the channel state.
CoreInv(c) ==
    /\ IsContext(c)
    /\ BufferInv(c.buffer)
    /\ Answered(c)
    /\ c.isTransmitting => c.isOnline
    /\ ~c.overlapped

\* An idle context waits for nothing.
LEMMA IdleInv ==
    ASSUME NEW c, CoreInv(c), c.state = "Idle"
    PROVE  CInv(c)
  BY DEF CoreInv, CInv, Timed, WaitsForRead, Awaited

\* The invariant gives a method that transmits what it relies on.
LEMMA CInvSendable ==
    ASSUME NEW c, CInv(c), CanTransmit(c)
    PROVE  Sendable(c)
  BY DEF CInv, Sendable

\* The deferred slot and the number of the last request are not constrained.
LEMMA DeferInv ==
    ASSUME NEW c, CInv(c), NEW r \in Requests \cup {NoRequest}
    PROVE  LET d == [c EXCEPT !.deferred = r]
           IN  CInv(d) /\ SameLink(c, d) /\ d.state = c.state
  <1> DEFINE d == [c EXCEPT !.deferred = r]
  <1>1. /\ IsContext(d) /\ SameLink(c, d) /\ SameWait(c, d) /\ SameSol(c, d)
        /\ SameUnsol(c, d) /\ d.buffer = c.buffer
    BY DEF CInv, IsContext, SameLink, SameWait, SameSol, SameUnsol
  <1> HIDE DEF d
  <1>2. CInv(d) /\ SameLink(c, d) /\ d.state = c.state
    BY <1>1 DEF CInv, Timed, Answered, WaitsForRead, Awaited, SameLink, SameWait, SameSol,
                SameUnsol
  <1> QED
    BY <1>2 DEF d

\* The number of the last request is not constrained.
LEMMA NumberInv ==
    ASSUME NEW c, CInv(c), NEW s \in Seqs
    PROVE  LET d == [c EXCEPT !.solNum = s]
           IN  CInv(d) /\ SameLink(c, d) /\ d.state = c.state
  <1> DEFINE d == [c EXCEPT !.solNum = s]
  <1>1. /\ IsContext(d) /\ SameLink(c, d) /\ SameWait(c, d) /\ SameSol(c, d)
        /\ SameUnsol(c, d) /\ d.buffer = c.buffer
    BY DEF CInv, IsContext, SameLink, SameWait, SameSol, SameUnsol
  <1> HIDE DEF d
  <1>2. CInv(d) /\ SameLink(c, d) /\ d.state = c.state
    BY <1>1 DEF CInv, Timed, Answered, WaitsForRead, Awaited, SameLink, SameWait, SameSol,
                SameUnsol
  <1> QED
    BY <1>2 DEF d

\* A cancelled timer leaves a context that may transmit.
LEMMA CancelSendable ==
    ASSUME NEW c, Sendable(c)
    PROVE  Sendable(CancelConfirmTimer(c))
  BY CancelEffect DEF Sendable, SameLink, CanTransmit

\* A restarted timer keeps every wait timed.
LEMMA RestartInv ==
    ASSUME NEW c, CInv(c)
    PROVE  CInv(RestartConfirmTimer(c)) /\ SameLink(c, RestartConfirmTimer(c))
  <1> DEFINE d == RestartConfirmTimer(c)
  <1>1. /\ IsContext(d) /\ d.confirmTimer = "running" /\ d.state = c.state
        /\ SameLink(c, d) /\ SameSol(c, d) /\ SameUnsol(c, d) /\ d.buffer = c.buffer
    BY RestartEffect DEF CInv
  <1> HIDE DEF d
  <1>2. CInv(d) /\ SameLink(c, d)
    BY <1>1 DEF CInv, Timed, Answered, WaitsForRead, Awaited, SameLink, SameSol, SameUnsol
  <1> QED
    BY <1>2 DEF d

\* The last response is sent again.
LEMMA RepeatInv ==
    ASSUME NEW c, CInv(c), CanTransmit(c)
    PROVE  CInv(RepeatLastResponse(c))
  <1> DEFINE d == BeginResponseTx(c, c.solTx)
  <1>0. c.solTx \in ResponseType
    BY DEF CInv, IsContext
  <1>1. /\ IsContext(d) /\ d.isOnline /\ d.isTransmitting /\ ~d.overlapped
        /\ SameWait(c, d) /\ SameUnsol(c, d) /\ d.buffer = c.buffer
        /\ d.lastRequest = c.lastRequest /\ d.solConfirmNum = c.solConfirmNum
        /\ d.solTx = c.solTx
    BY <1>0, BeginResponseTxEffect DEF CInv
  <1> HIDE DEF d
  <1>2. CInv(d)
    BY <1>1 DEF CInv, Timed, Answered, WaitsForRead, Awaited, SameWait, SameUnsol
  <1> QED
    BY <1>2 DEF d, RepeatLastResponse

\* The channel state becomes idle.
LEMMA ToIdleInv ==
    ASSUME NEW c, CoreInv(c)
    PROVE  CInv([c EXCEPT !.state = "Idle"])
  <1> DEFINE d == [c EXCEPT !.state = "Idle"]
  <1>1. /\ IsContext(d) /\ d.state = "Idle" /\ SameLink(c, d) /\ SameSol(c, d)
        /\ d.buffer = c.buffer
    BY DEF CoreInv, IsContext, States, SameLink, SameSol
  <1> HIDE DEF d
  <1>2. CoreInv(d)
    BY <1>1 DEF CoreInv, Answered, SameLink, SameSol
  <1> QED
    BY <1>1, <1>2, IdleInv DEF d

\* A new READ in each channel state.
LEMMA OnNewReadInv ==
    ASSUME NEW c, CInv(c), CanTransmit(c), NEW r \in Requests, r.function = "READ"
    PROVE  CInv(OnNewReadRequest(c, r))
  <1>0. Sendable(c) /\ c.state \in States
    BY CInvSendable DEF CInv, IsContext
  <1>1. CASE c.state = "Idle"
    BY <1>0, <1>1, RespondToReadInv DEF OnNewReadRequest
  <1>2. CASE c.state = "SolicitedConfirmWait"
    <2>1. CInv(RespondToReadRequest(CancelConfirmTimer(c), r))
      BY <1>0, CancelSendable, RespondToReadInv
    <2> QED
      BY <1>2, <2>1 DEF OnNewReadRequest
  <1>3. CASE c.state = "UnsolicitedConfirmWait"
    <2>1. CInv([c EXCEPT !.deferred = r])
      BY DeferInv
    <2> QED
      BY <1>3, <2>1 DEF OnNewReadRequest
  <1> QED
    BY <1>0, <1>1, <1>2, <1>3 DEF States

\* A new request other than READ in each channel state.
LEMMA OnNewNonReadInv ==
    ASSUME NEW c, CInv(c), CanTransmit(c), NEW r \in Requests
    PROVE  CInv(OnNewNonReadRequest(c, r))
  <1>0. Sendable(c) /\ c.state \in States
    BY CInvSendable DEF CInv, IsContext
  <1>1. CASE c.state = "Idle"
    <2> DEFINE d == RespondToNonReadRequest(c, r)
    <2>1. CoreInv(d) /\ d.state = "Idle"
      <3>1. /\ IsContext(d) /\ BufferInv(d.buffer)
            /\ d.isOnline /\ d.isTransmitting /\ ~d.overlapped
            /\ SameWait(c, d) /\ Answered(d)
        BY <1>0, RespondToNonReadEffect
      <3> QED
        BY <1>1, <3>1 DEF CoreInv, SameWait
    <2>2. OnNewNonReadRequest(c, r) = d
      BY <1>1 DEF OnNewNonReadRequest
    <2> HIDE DEF d
    <2> QED
      BY <2>1, <2>2, IdleInv
  <1>2. CASE c.state = "SolicitedConfirmWait"
    <2> DEFINE e == CancelConfirmTimer(c)
               d == RespondToNonReadRequest(e, r)
    <2>1. Sendable(e)
      BY <1>0, CancelSendable
    <2> HIDE DEF e
    <2>2. CoreInv(d)
      <3>1. /\ IsContext(d) /\ BufferInv(d.buffer)
            /\ d.isOnline /\ d.isTransmitting /\ ~d.overlapped /\ Answered(d)
        BY <2>1, RespondToNonReadEffect
      <3> QED
        BY <3>1 DEF CoreInv
    <2>3. OnNewNonReadRequest(c, r) = [d EXCEPT !.state = "Idle"]
      BY <1>2 DEF OnNewNonReadRequest, e
    <2> HIDE DEF d
    <2> QED
      BY <2>2, <2>3, ToIdleInv
  <1>3. CASE c.state = "UnsolicitedConfirmWait"
    <2> DEFINE e == [c EXCEPT !.deferred = NoRequest]
               d == RespondToNonReadRequest(e, r)
    <2>1. CInv(e) /\ SameLink(c, e) /\ e.state = c.state
      BY DeferInv
    <2> HIDE DEF e
    <2>2. Sendable(e)
      BY <2>1, CInvSendable DEF SameLink, CanTransmit
    <2>3. /\ IsContext(d) /\ BufferInv(d.buffer)
          /\ d.isOnline /\ d.isTransmitting /\ ~d.overlapped
          /\ SameWait(e, d) /\ SameUnsol(e, d) /\ Answered(d)
      BY <2>2, RespondToNonReadEffect
    <2>4. OnNewNonReadRequest(c, r) = d
      BY <1>3 DEF OnNewNonReadRequest, e
    <2> HIDE DEF d
    <2>5. CInv(d)
      BY <1>3, <2>1, <2>3
         DEF CInv, Timed, WaitsForRead, Awaited, SameWait, SameUnsol
    <2> QED
      BY <2>4, <2>5
  <1> QED
    BY <1>0, <1>1, <1>2, <1>3 DEF States

\* A repeated READ in each channel state.
LEMMA OnRepeatReadInv ==
    ASSUME NEW c, CInv(c), CanTransmit(c), NEW r \in Requests
    PROVE  CInv(OnRepeatReadRequest(c, r))
  <1>0. c.state \in States
    BY DEF CInv, IsContext
  <1>1. CASE c.state = "Idle"
    BY <1>1, RepeatInv DEF OnRepeatReadRequest
  <1>2. CASE c.state = "SolicitedConfirmWait"
    <2> DEFINE e == RestartConfirmTimer(c)
    <2>1. CInv(e) /\ CanTransmit(e)
      BY RestartInv DEF SameLink, CanTransmit
    <2>2. OnRepeatReadRequest(c, r) = RepeatLastResponse(e)
      BY <1>2 DEF OnRepeatReadRequest
    <2> HIDE DEF e
    <2> QED
      BY <2>1, <2>2, RepeatInv
  <1>3. CASE c.state = "UnsolicitedConfirmWait"
    <2>1. CInv([c EXCEPT !.deferred = r])
      BY DeferInv
    <2> QED
      BY <1>3, <2>1 DEF OnRepeatReadRequest
  <1> QED
    BY <1>0, <1>1, <1>2, <1>3 DEF States

\* The handler is never reached in SolicitedConfirmWait: see WaitsForRead.
LEMMA OnRepeatNonReadInv ==
    ASSUME NEW c, CInv(c), CanTransmit(c), c.state # "SolicitedConfirmWait"
    PROVE  CInv(OnRepeatNonReadRequest(c))
  BY RepeatInv DEF OnRepeatNonReadRequest

\* A confirm of the awaited fragment: the next fragment, or idle.
LEMMA OnSolicitedConfirmInv ==
    ASSUME NEW c, CInv(c), CanTransmit(c), NEW r \in Requests
    PROVE  CInv(OnSolicitedConfirm(c, r))
  <1> DEFINE b == ClearWritten(c.buffer)
             e == [c EXCEPT !.lastRequest = NoRequest, !.buffer = ClearWritten(@)]
             cleared == CancelConfirmTimer(e)
  <1>1. BufferInv(b) /\ IsBuffer(b)
    BY ClearWrittenInv DEF CInv, BufferInv
  <1>2. IsContext(e) /\ SameLink(c, e) /\ e.buffer = b /\ e.lastRequest = NoRequest
    <2>1. \A x : IsBuffer(x) =>
            LET y == [c EXCEPT !.lastRequest = NoRequest, !.buffer = x]
            IN  IsContext(y) /\ SameLink(c, y) /\ y.buffer = x /\ y.lastRequest = NoRequest
      BY DEF CInv, IsContext, SameLink
    <2> QED
      BY <1>1, <2>1
  <1>3. c.solTx.answers \in Requests \cup {NoRequest} /\ Next1(r.seq) \in Seqs
    <2>1. c.solTx \in ResponseType
      BY DEF CInv, IsContext
    <2> QED
      BY <2>1, RequestFields, Next1Type DEF ResponseType
  <1>4. OnSolicitedConfirm(c, r) \in
          {c, SendFragment(cleared, Next1(r.seq), c.solTx.answers),
           [cleared EXCEPT !.state = "Idle"]}
    BY DEF OnSolicitedConfirm
  <1> HIDE DEF e, b
  <1>5. Sendable(cleared) /\ CoreInv(cleared) /\ cleared.lastRequest = NoRequest
    <2>1. /\ IsContext(cleared) /\ SameLink(e, cleared) /\ SameSol(e, cleared)
          /\ cleared.buffer = e.buffer
      BY <1>2, CancelEffect
    <2> HIDE DEF cleared
    <2> QED
      BY <1>1, <1>2, <2>1 DEF CInv, CoreInv, Sendable, Answered, CanTransmit, SameLink, SameSol
  <1> HIDE DEF cleared
  <1>6. CInv(SendFragment(cleared, Next1(r.seq), c.solTx.answers))
    BY <1>3, <1>5, SendFragmentInv
  <1>7. CInv([cleared EXCEPT !.state = "Idle"])
    BY <1>5, ToIdleInv
  <1> QED
    BY <1>4, <1>6, <1>7

\* A confirm of the unsolicited response.
LEMMA OnUnsolicitedConfirmInv ==
    ASSUME NEW c, CInv(c), NEW r \in Requests
    PROVE  CInv(OnUnsolicitedConfirm(c, r))
  <1> DEFINE b == IF c.completedNull THEN ClearWritten(c.buffer) ELSE c.buffer
             e == [c EXCEPT !.lastRequest = NoRequest,
                            !.buffer = b,
                            !.completedNull = TRUE, !.state = "Idle"]
             d == CancelConfirmTimer(e)
  <1>1. BufferInv(b) /\ IsBuffer(b)
    BY ClearWrittenInv DEF CInv, BufferInv
  <1>2. OnUnsolicitedConfirm(c, r) \in {c, d}
    BY DEF OnUnsolicitedConfirm
  <1> HIDE DEF b
  <1>3. /\ IsContext(e) /\ SameLink(c, e) /\ e.buffer = b /\ e.lastRequest = NoRequest
        /\ e.state = "Idle"
    <2>1. \A x : IsBuffer(x) =>
            LET y == [c EXCEPT !.lastRequest = NoRequest, !.buffer = x,
                               !.completedNull = TRUE, !.state = "Idle"]
            IN  /\ IsContext(y) /\ SameLink(c, y) /\ y.buffer = x
                /\ y.lastRequest = NoRequest /\ y.state = "Idle"
      BY DEF CInv, IsContext, SameLink, States
    <2> QED
      BY <1>1, <2>1
  <1> HIDE DEF e
  <1>4. CoreInv(d) /\ d.state = "Idle"
    <2>1. /\ IsContext(d) /\ SameLink(e, d) /\ SameSol(e, d) /\ d.buffer = e.buffer
          /\ d.state = e.state
      BY <1>3, CancelEffect
    <2> HIDE DEF d
    <2> QED
      BY <1>1, <1>3, <2>1 DEF CInv, CoreInv, Answered, SameLink, SameSol
  <1> HIDE DEF d
  <1> QED
    BY <1>2, <1>4, IdleInv

\* A confirm in each channel state.
LEMMA ProcessConfirmInv ==
    ASSUME NEW c, CInv(c), CanTransmit(c), NEW r \in Requests
    PROVE  CInv(ProcessConfirm(c, r))
  <1>0. c.state \in States
    BY DEF CInv, IsContext
  <1> QED
    BY <1>0, OnSolicitedConfirmInv, OnUnsolicitedConfirmInv DEF ProcessConfirm, States

\* A timeout ends every wait, whichever timer it belongs to.
LEMMA OnConfirmTimeoutInv ==
    ASSUME NEW c, CoreInv(c)
    PROVE  CInv(OnConfirmTimeout(c))
  <1> DEFINE b == IF c.state = "UnsolicitedConfirmWait" /\ c.completedNull
                  THEN Unselect(c.buffer) ELSE c.buffer
             d == [c EXCEPT !.buffer = b, !.state = "Idle"]
  <1>1. BufferInv(b) /\ IsBuffer(b)
    BY UnselectInv DEF CoreInv, BufferInv
  <1>2. OnConfirmTimeout(c) = d
    BY DEF OnConfirmTimeout
  <1> HIDE DEF b
  <1>3. /\ IsContext(d) /\ SameLink(c, d) /\ SameSol(c, d) /\ d.buffer = b /\ d.state = "Idle"
    <2>1. \A x : IsBuffer(x) =>
            LET y == [c EXCEPT !.buffer = x, !.state = "Idle"]
            IN  /\ IsContext(y) /\ SameLink(c, y) /\ SameSol(c, y) /\ y.buffer = x
                /\ y.state = "Idle"
      BY DEF CoreInv, IsContext, SameLink, SameSol, States
    <2> QED
      BY <1>1, <2>1
  <1> HIDE DEF d
  <1>4. CoreInv(d)
    BY <1>1, <1>3 DEF CoreInv, Answered, SameLink, SameSol
  <1> QED
    BY <1>2, <1>3, <1>4, IdleInv

-----------------------------------------------------------------------------
(***************************************************************************)
(* Dispatch, and the check that ends every handler.                        *)
(***************************************************************************)

\* OContext::ProcessNewRequest records the number and asks the state.
LEMMA ProcessNewRequestInv ==
    ASSUME NEW c, CInv(c), CanTransmit(c), NEW r \in Requests
    PROVE  CInv(ProcessNewRequest(c, r))
  <1> DEFINE d == [c EXCEPT !.solNum = r.seq]
  <1>1. CInv(d) /\ CanTransmit(d)
    <2>1. CInv(d) /\ SameLink(c, d)
      BY RequestFields, NumberInv
    <2> HIDE DEF d
    <2> QED
      BY <2>1 DEF SameLink, CanTransmit
  <1>2. ProcessNewRequest(c, r) = IF r.function = "READ" THEN OnNewReadRequest(d, r)
                                                         ELSE OnNewNonReadRequest(d, r)
    BY DEF ProcessNewRequest
  <1> HIDE DEF d
  <1> QED
    BY <1>1, <1>2, OnNewReadInv, OnNewNonReadInv

\* OContext::ProcessRequest: new, repeated or ignored.
LEMMA ProcessRequestInv ==
    ASSUME NEW c, CInv(c), CanTransmit(c), NEW r \in Requests
    PROVE  CInv(ProcessRequest(c, r))
  <1>1. CASE c.lastRequest = NoRequest \/ c.solNum # r.seq \/ c.lastRequest # r
    <2>1. OnReceiveSolRequest(c, r) = ProcessNewRequest(c, r)
      BY <1>1 DEF OnReceiveSolRequest
    <2> QED
      BY <2>1, ProcessNewRequestInv DEF ProcessRequest
  <1>2. CASE ~(c.lastRequest = NoRequest \/ c.solNum # r.seq \/ c.lastRequest # r)
    <2>1. OnReceiveSolRequest(c, r) = IF r.function = "READ" THEN OnRepeatReadRequest(c, r)
                                                             ELSE OnRepeatNonReadRequest(c)
      BY <1>2 DEF OnReceiveSolRequest
    <2>2. r.function # "READ" => c.state # "SolicitedConfirmWait"
      BY <1>2 DEF CInv, WaitsForRead
    <2> QED
      BY <2>1, <2>2, OnRepeatReadInv, OnRepeatNonReadInv DEF ProcessRequest
  <1> QED
    BY <1>1, <1>2

\* OContext::ProcessObjects defers what arrives during a transmission.
LEMMA ProcessObjectsInv ==
    ASSUME NEW c, CInv(c), c.isOnline, NEW r \in Requests
    PROVE  CInv(ProcessObjects(c, r))
  <1>1. CASE r.function = "DIRECT_OPERATE_NR"
    <2>1. ProcessObjects(c, r) = c
      BY <1>1 DEF ProcessObjects
    <2> QED
      BY <2>1
  <1>2. CASE r.function # "DIRECT_OPERATE_NR" /\ c.isTransmitting
    <2>1. ProcessObjects(c, r) = [c EXCEPT !.deferred = r]
      BY <1>2 DEF ProcessObjects
    <2> QED
      BY <2>1, DeferInv
  <1>3. CASE r.function # "DIRECT_OPERATE_NR" /\ ~c.isTransmitting
    <2>1. CanTransmit(c)
      BY <1>3 DEF CanTransmit
    <2>2. ProcessObjects(c, r) \in {ProcessConfirm(c, r), ProcessRequest(c, r)}
      BY <1>3 DEF ProcessObjects
    <2> QED
      BY <2>1, <2>2, ProcessConfirmInv, ProcessRequestInv
  <1> QED
    BY <1>1, <1>2, <1>3

\* OContext::CheckForDeferredRequest serves the deferred request if it can.
LEMMA CheckForDeferredInv ==
    ASSUME NEW c, CInv(c)
    PROVE  CInv(CheckForDeferredRequest(c))
  <1> DEFINE r == c.deferred
  <1>1. CASE ~CanTransmit(c) \/ r = NoRequest
    BY <1>1 DEF CheckForDeferredRequest
  <1>2. CASE CanTransmit(c) /\ r # NoRequest
    <2>1. r \in Requests
      BY <1>2 DEF CInv, IsContext
    <2>2. CheckForDeferredRequest(c) \in
            {c, [ProcessConfirm(c, r) EXCEPT !.deferred = NoRequest],
             [ProcessRequest(c, r) EXCEPT !.deferred = NoRequest]}
      BY <1>2 DEF CheckForDeferredRequest
    <2>3. CInv(ProcessConfirm(c, r)) /\ CInv(ProcessRequest(c, r))
      BY <1>2, <2>1, ProcessConfirmInv, ProcessRequestInv
    <2>4. /\ CInv([ProcessConfirm(c, r) EXCEPT !.deferred = NoRequest])
          /\ CInv([ProcessRequest(c, r) EXCEPT !.deferred = NoRequest])
      <3> HIDE DEF r
      <3> QED
        BY <2>3, DeferInv
    <2> QED
      BY <2>2, <2>4
  <1> QED
    BY <1>1, <1>2

\* An unsolicited response: NULL, or the events loaded from a buffer.
LEMMA SendUnsolicitedInv ==
    ASSUME NEW c, Sendable(c), Answered(c),
           NEW loaded, loaded \subseteq Ids(c.buffer)
    PROVE  CInv(SendUnsolicited(c, loaded))
  <1> DEFINE rsp == [seq |-> c.unsolNum, fir |-> TRUE, con |-> TRUE, events |-> loaded,
                     classes |-> {c.buffer.events[i].clazz : i \in loaded},
                     points |-> {}, answers |-> NoRequest]
             iin == GetResponseIIN(c)
             w   == RestartConfirmTimer(iin)
             e   == [w EXCEPT !.state = "UnsolicitedConfirmWait"]
             d   == BeginUnsolTx(e, rsp)
  <1>1. SendUnsolicited(c, loaded) = d
    BY DEF SendUnsolicited
  <1>2. rsp \in ResponseType /\ rsp.seq = c.unsolNum
    <2>1. IsBuffer(c.buffer) /\ c.unsolNum \in Seqs
      BY DEF Sendable, BufferInv, IsContext
    <2>2. loaded \in SUBSET Nat
      BY <2>1 DEF IsBuffer
    <2>3. ASSUME NEW i \in loaded
          PROVE  c.buffer.events[i].clazz \in Classes
      <3>1. c.buffer.events[i] \in EventRecord
        BY <2>1 DEF IsBuffer
      <3> QED
        BY <3>1 DEF EventRecord
    <2>4. {c.buffer.events[i].clazz : i \in loaded} \in SUBSET Classes
      BY <2>3
    <2> QED
      BY <2>1, <2>2, <2>4 DEF ResponseType
  <1> HIDE DEF rsp
  <1>3. Sendable(iin) /\ SameSol(c, iin) /\ iin.unsolNum = c.unsolNum
    BY GetResponseIINEffect
  <1> HIDE DEF iin
  <1>4. /\ IsContext(w) /\ w.confirmTimer = "running" /\ SameLink(iin, w) /\ SameSol(iin, w)
        /\ w.buffer = iin.buffer /\ w.unsolNum = iin.unsolNum
    <2>1. IsContext(iin)
      BY <1>3 DEF Sendable
    <2>2. w.unsolNum = iin.unsolNum
      BY <2>1 DEF IsContext, RestartConfirmTimer, CancelConfirmTimer
    <2> QED
      BY <2>1, <2>2, RestartEffect
  <1> HIDE DEF w
  <1>5. /\ IsContext(e) /\ e.state = "UnsolicitedConfirmWait"
        /\ e.confirmTimer = w.confirmTimer /\ SameLink(w, e) /\ SameSol(w, e)
        /\ e.buffer = w.buffer /\ e.unsolNum = w.unsolNum
    BY <1>4 DEF IsContext, States, SameLink, SameSol
  <1> HIDE DEF e
  <1>6. CanTransmit(e) /\ ~e.overlapped
    BY <1>3, <1>4, <1>5 DEF Sendable, SameLink, CanTransmit
  <1>7. /\ IsContext(d) /\ d.isOnline /\ d.isTransmitting /\ ~d.overlapped
        /\ SameWait(e, d) /\ SameSol(e, d) /\ d.buffer = e.buffer
        /\ d.unsolTx = rsp /\ d.unsolConfirmNum = e.unsolNum
    BY <1>2, <1>5, <1>6, BeginUnsolTxEffect
  <1> HIDE DEF d
  <1>8. BufferInv(d.buffer) /\ SameSol(c, d) /\ d.unsolTx.seq = d.unsolConfirmNum
    BY <1>2, <1>3, <1>4, <1>5, <1>7 DEF Sendable, SameSol
  <1>9. CInv(d)
    BY <1>4, <1>5, <1>7, <1>8
       DEF CInv, Timed, Answered, WaitsForRead, Awaited, SameWait, SameSol
  <1> QED
    BY <1>1, <1>9

\* Selecting by class keeps the buffer consistent.
LEMMA SelectByClassInv ==
    ASSUME NEW b, BufferInv(b), NEW classes, NEW n
    PROVE  BufferInv(SelectByClass(b, classes, n))
  <1> DEFINE hits == First({i \in IdsIn(b, "unselected") : b.events[i].clazz \in classes}, n)
  <1>1. hits \subseteq IdsIn(b, "unselected")
    BY FirstSubset
  <1>2. SelectByClass(b, classes, n) = Select(b, hits, {}, <<>>)
    BY DEF SelectByClass
  <1> HIDE DEF hits
  <1> QED
    BY <1>1, <1>2, SelectInv

\* Loading moves no event out of the list.
LEMMA LoadIds ==
    ASSUME NEW b, IsBuffer(b), NEW n
    PROVE  Loaded(b, n) \subseteq Ids(Load(b, n))
  <1>1. Ids(Load(b, n)) = Ids(b)
    BY DEF Load, Ids, IsBuffer
  <1> QED
    BY <1>1, FirstSubset DEF Loaded, IdsIn

\* OContext::CheckForUnsolicited starts at most one transmission.
LEMMA CheckForUnsolicitedInv ==
    ASSUME NEW c, CInv(c)
    PROVE  CInv(CheckForUnsolicited(c))
  <1> DEFINE u == Unselect(c.buffer)
             chosen == SelectByClass(u, c.unsolClassMask, Cardinality(Ids(c.buffer)))
             loaded == Loaded(chosen, FragmentSize)
             b == Load(chosen, FragmentSize)
             e == [c EXCEPT !.buffer = b]
  <1>1. CheckForUnsolicited(c) = c
        \/ /\ CanTransmit(c)
           /\ CheckForUnsolicited(c) \in {SendUnsolicited(c, {}), SendUnsolicited(e, loaded)}
    BY DEF CheckForUnsolicited
  <1>2. CASE CheckForUnsolicited(c) = c
    BY <1>2
  <1>3. CASE /\ CanTransmit(c)
             /\ CheckForUnsolicited(c) \in {SendUnsolicited(c, {}), SendUnsolicited(e, loaded)}
    <2>1. Sendable(c) /\ Answered(c)
      BY <1>3, CInvSendable DEF CInv
    <2>2. CInv(SendUnsolicited(c, {}))
      BY <2>1, SendUnsolicitedInv
    <2>3. BufferInv(u)
      BY <2>1, UnselectInv DEF Sendable
    <2> HIDE DEF u
    <2>4. BufferInv(chosen)
      BY <2>3, SelectByClassInv
    <2> HIDE DEF chosen
    <2>5. BufferInv(b) /\ IsBuffer(b) /\ loaded \subseteq Ids(b)
      BY <2>4, LoadInv, LoadIds DEF BufferInv
    <2> HIDE DEF b
    <2>6. IsContext(e) /\ SameLink(c, e) /\ SameSol(c, e) /\ e.buffer = b
      BY <2>1, <2>5 DEF Sendable, IsContext, SameLink, SameSol
    <2> HIDE DEF e
    <2>7. Sendable(e) /\ Answered(e)
      BY <2>1, <2>5, <2>6 DEF Sendable, Answered, SameLink, SameSol, CanTransmit
    <2>8. CInv(SendUnsolicited(e, loaded))
      BY <2>5, <2>6, <2>7, SendUnsolicitedInv
    <2> QED
      BY <1>3, <2>2, <2>8
  <1> QED
    BY <1>1, <1>2, <1>3

\* The check that ends every handler keeps the invariant.
LEMMA CheckForTaskStartInv ==
    ASSUME NEW c, CInv(c)
    PROVE  CInv(CheckForTaskStart(c))
  BY CheckForDeferredInv, CheckForUnsolicitedInv DEF CheckForTaskStart

\* OContext::OnLowerLayerDown leaves an idle context.
LEMMA LowerLayerDownInv ==
    ASSUME NEW c, CInv(c)
    PROVE  CInv(LowerLayerDown(c))
  <1> DEFINE b == Unselect(c.buffer)
             e == [c EXCEPT !.state = "Idle", !.isOnline = FALSE, !.isTransmitting = FALSE,
                            !.completedNull = FALSE, !.lastRequest = NoRequest,
                            !.deferred = NoRequest, !.firstFragment = TRUE,
                            !.buffer = b]
             d == CancelConfirmTimer(e)
  <1>1. BufferInv(b) /\ IsBuffer(b)
    BY UnselectInv DEF CInv, BufferInv
  <1>2. LowerLayerDown(c) = d
    BY DEF LowerLayerDown
  <1> HIDE DEF b
  <1>3. /\ IsContext(e) /\ e.state = "Idle" /\ ~e.isTransmitting /\ ~e.overlapped
        /\ e.lastRequest = NoRequest /\ e.buffer = b
    BY <1>1 DEF CInv, IsContext, States
  <1> HIDE DEF e
  <1>4. /\ IsContext(d) /\ SameLink(e, d) /\ SameSol(e, d) /\ d.buffer = e.buffer
        /\ d.state = e.state
    BY <1>3, CancelEffect
  <1> HIDE DEF d
  <1>5. CoreInv(d) /\ d.state = "Idle"
    BY <1>1, <1>3, <1>4 DEF CoreInv, Answered, SameLink, SameSol
  <1> QED
    BY <1>2, <1>5, IdleInv

-----------------------------------------------------------------------------
(***************************************************************************)
(* The invariant of the specification.                                     *)
(***************************************************************************)

\* The inductive invariant.
Inv == CInv(ctx) /\ applying \in BOOLEAN

\* The constructed context satisfies the invariant.
LEMMA InitInv == Init => Inv
  <1> SUFFICES ASSUME Init PROVE Inv
    OBVIOUS
  <1>1. 0 \in Seqs
    BY SeqAssumption DEF Seqs
  <1>2. NoResponse \in ResponseType
    BY <1>1 DEF NoResponse, ResponseType
  <1>3. "Idle" \in States /\ "none" \in TimerStates /\ "none" \in OtherObjects
    BY DEF States, TimerStates, OtherObjects
  <1>4. BufferInv(EmptyBuffer) /\ IsBuffer(EmptyBuffer)
    BY EmptyBufferInv DEF BufferInv
  <1>5. IsContext(InitialContext)
    BY <1>1, <1>2, <1>3, <1>4, UnsolicitedAssumption DEF IsContext, InitialContext
  <1>6. CoreInv(InitialContext) /\ InitialContext.state = "Idle"
    BY <1>4, <1>5 DEF CoreInv, Answered, InitialContext
  <1> QED
    BY <1>6, IdleInv DEF Init, Inv

\* Every entry point keeps the invariant.
LEMMA NextInv == Inv /\ [Next]_vars => Inv'
  <1> SUFFICES ASSUME Inv, [Next]_vars PROVE Inv'
    OBVIOUS
  <1>0. CInv(ctx) /\ IsContext(ctx) /\ applying \in BOOLEAN
    BY DEF Inv, CInv
  <1>1. CASE OnLowerLayerUp
    <2> DEFINE e == [ctx EXCEPT !.isOnline = TRUE]
    <2>1. /\ IsContext(e) /\ e.isOnline /\ SameWait(ctx, e) /\ SameSol(ctx, e)
          /\ SameUnsol(ctx, e) /\ e.overlapped = ctx.overlapped /\ e.buffer = ctx.buffer
      BY <1>0 DEF IsContext, SameWait, SameSol, SameUnsol
    <2>2. ctx' = CheckForTaskStart(e) /\ applying' = applying
      BY <1>1 DEF OnLowerLayerUp, Handler
    <2> HIDE DEF e
    <2>3. CInv(e)
      BY <1>0, <2>1 DEF CInv, Timed, Answered, WaitsForRead, Awaited, SameWait, SameSol,
                        SameUnsol
    <2> QED
      BY <1>0, <2>2, <2>3, CheckForTaskStartInv DEF Inv
  <1>2. CASE OnLowerLayerDown
    BY <1>0, <1>2, LowerLayerDownInv DEF OnLowerLayerDown, Handler, Inv
  <1>3. CASE OnTxReady
    <2> DEFINE e == [ctx EXCEPT !.isTransmitting = FALSE]
    <2>1. /\ IsContext(e) /\ ~e.isTransmitting /\ e.isOnline = ctx.isOnline
          /\ SameWait(ctx, e) /\ SameSol(ctx, e)
          /\ SameUnsol(ctx, e) /\ e.overlapped = ctx.overlapped /\ e.buffer = ctx.buffer
      BY <1>0 DEF IsContext, SameWait, SameSol, SameUnsol
    <2>2. ctx' = CheckForTaskStart(e) /\ applying' = applying
      BY <1>3 DEF OnTxReady, Handler
    <2> HIDE DEF e
    <2>3. CInv(e)
      BY <1>0, <2>1 DEF CInv, Timed, Answered, WaitsForRead, Awaited, SameWait, SameSol,
                        SameUnsol
    <2> QED
      BY <1>0, <2>2, <2>3, CheckForTaskStartInv DEF Inv
  <1>4. ASSUME NEW r \in Requests, OnReceive(r)
        PROVE  Inv'
    <2>1. /\ ctx.isOnline /\ ctx' = CheckForTaskStart(ProcessObjects(ctx, r))
          /\ applying' = applying
      BY <1>4 DEF OnReceive, Handler
    <2>2. CInv(ProcessObjects(ctx, r))
      BY <1>0, <2>1, ProcessObjectsInv
    <2> QED
      BY <1>0, <2>1, <2>2, CheckForTaskStartInv DEF Inv
  <1>5. CASE TimerExpires
    <2> DEFINE e == [ctx EXCEPT !.confirmTimer = "expired"]
    <2>1. /\ IsContext(e) /\ e.confirmTimer = "expired" /\ e.state = ctx.state
          /\ SameLink(ctx, e) /\ SameSol(ctx, e) /\ SameUnsol(ctx, e) /\ e.buffer = ctx.buffer
      BY <1>0 DEF IsContext, TimerStates, SameLink, SameSol, SameUnsol
    <2>2. ctx' = e /\ applying' = applying
      BY <1>5 DEF TimerExpires
    <2> HIDE DEF e
    <2>3. CInv(e)
      BY <1>0, <2>1 DEF CInv, Timed, Answered, WaitsForRead, Awaited, SameLink, SameSol,
                        SameUnsol
    <2> QED
      BY <1>0, <2>2, <2>3 DEF Inv
  <1>6. ASSUME NEW n \in Nat
        PROVE  LET e == [ctx EXCEPT !.confirmTimer = "none", !.orphans = n]
               IN  CInv(CheckForTaskStart(OnConfirmTimeout(e)))
    <2> DEFINE e == [ctx EXCEPT !.confirmTimer = "none", !.orphans = n]
    <2>1. /\ IsContext(e) /\ SameLink(ctx, e) /\ SameSol(ctx, e) /\ e.buffer = ctx.buffer
      BY <1>0 DEF IsContext, TimerStates, SameLink, SameSol
    <2> HIDE DEF e
    <2>2. CoreInv(e)
      BY <1>0, <2>1 DEF CInv, CoreInv, Answered, SameLink, SameSol
    <2>3. CInv(CheckForTaskStart(OnConfirmTimeout(e)))
      BY <2>2, OnConfirmTimeoutInv, CheckForTaskStartInv
    <2> QED
      BY <2>3 DEF e
  <1>7. CASE ConfirmTimeout
    <2>1. ctx.orphans \in Nat
      BY <1>0 DEF IsContext
    <2>2. [ctx EXCEPT !.confirmTimer = "none"] =
            [ctx EXCEPT !.confirmTimer = "none", !.orphans = ctx.orphans]
      BY <1>0 DEF IsContext
    <2>3. CInv(CheckForTaskStart(OnConfirmTimeout([ctx EXCEPT !.confirmTimer = "none"])))
      BY <1>6, <2>1, <2>2
    <2> QED
      BY <1>0, <1>7, <2>3 DEF ConfirmTimeout, Handler, Inv
  <1>8. CASE OrphanTimeout
    <2> DEFINE n == IF ctx.confirmTimer = "none" THEN ctx.orphans - 1 ELSE ctx.orphans
               e == [ctx EXCEPT !.confirmTimer = "none", !.orphans = n]
    <2>1. n \in Nat
      <3>1. ctx.orphans \in Nat /\ ctx.orphans > 0
        BY <1>0, <1>8 DEF IsContext, OrphanTimeout
      <3> QED
        BY <3>1
    <2>2. /\ ctx' = CheckForTaskStart(OnConfirmTimeout(e)) /\ applying' = applying
      BY <1>8 DEF OrphanTimeout, Handler
    <2> HIDE DEF n
    <2>3. CInv(CheckForTaskStart(OnConfirmTimeout(e)))
      BY <1>6, <2>1
    <2> QED
      BY <1>0, <2>2, <2>3 DEF Inv
  <1>9. CASE SelectExpires
    <2>1. ASSUME NEW x \in [seq : Seqs, object : Controls \cup OtherObjects, valid : BOOLEAN]
          PROVE  CInv([ctx EXCEPT !.control = x])
      <3> DEFINE e == [ctx EXCEPT !.control = x]
      <3>1. IsContext(e)
        BY <1>0 DEF IsContext
      <3>2. Untouched(ctx, e)
        BY <1>0 DEF IsContext, Untouched, SameLink, SameWait, SameSol, SameUnsol
      <3> HIDE DEF e
      <3>3. CInv(e)
        BY <1>0, <3>1, <3>2 DEF CInv, Timed, Answered, WaitsForRead, Awaited, Untouched,
                                SameLink, SameWait, SameSol, SameUnsol
      <3> QED
        BY <3>3 DEF e
    <2> DEFINE x == [ctx.control EXCEPT !.valid = FALSE]
    <2>2. x \in [seq : Seqs, object : Controls \cup OtherObjects, valid : BOOLEAN]
      <3>1. ctx.control \in [seq : Seqs, object : Controls \cup OtherObjects, valid : BOOLEAN]
        BY <1>0 DEF IsContext
      <3> QED
        BY <3>1
    <2>3. ctx' = [ctx EXCEPT !.control = x] /\ applying' = applying
      BY <1>9 DEF SelectExpires
    <2> HIDE DEF x
    <2> QED
      BY <1>0, <2>1, <2>2, <2>3 DEF Inv
  <1>10. CASE SetRestartIIN
    <2> DEFINE e == [ctx EXCEPT !.deviceRestart = TRUE]
    <2>1. IsContext(e) /\ Untouched(ctx, e)
      BY <1>0 DEF IsContext, Untouched, SameLink, SameWait, SameSol, SameUnsol
    <2>2. ctx' = e /\ applying' = applying
      BY <1>10 DEF SetRestartIIN, Handler
    <2> HIDE DEF e
    <2>3. CInv(e)
      BY <1>0, <2>1 DEF CInv, Timed, Answered, WaitsForRead, Awaited, Untouched,
                        SameLink, SameWait, SameSol, SameUnsol
    <2> QED
      BY <1>0, <2>2, <2>3 DEF Inv
  <1>11. ASSUME NEW t \in Types, NEW k \in Classes, NEW v \in Variations, RecordEvent(t, k, v)
         PROVE  Inv'
    <2> DEFINE b == Update(ctx.buffer, t, k, v)
               e == [ctx EXCEPT !.buffer = b]
    <2>1. BufferInv(b) /\ IsBuffer(b)
      BY <1>0, UpdateInv DEF CInv, BufferInv
    <2>2. ctx' = e /\ applying' = TRUE
      BY <1>11 DEF RecordEvent
    <2> HIDE DEF b
    <2>3. /\ IsContext(e) /\ e.buffer = b /\ SameLink(ctx, e) /\ SameWait(ctx, e)
          /\ SameSol(ctx, e) /\ SameUnsol(ctx, e)
      BY <1>0, <2>1 DEF IsContext, SameLink, SameWait, SameSol, SameUnsol
    <2> HIDE DEF e
    <2>4. CInv(e)
      BY <1>0, <2>1, <2>3 DEF CInv, Timed, Answered, WaitsForRead, Awaited,
                              SameLink, SameWait, SameSol, SameUnsol
    <2> QED
      BY <2>2, <2>4 DEF Inv
  <1>12. CASE EndTransaction
    BY <1>0, <1>12, CheckForTaskStartInv DEF EndTransaction, Inv
  <1>13. CASE UNCHANGED vars
    BY <1>0, <1>13 DEF vars, Inv
  <1> QED
    BY <1>1, <1>2, <1>3, <1>4, <1>5, <1>7, <1>8, <1>9, <1>10, <1>11, <1>12, <1>13 DEF Next

\* The invariant holds in every reachable state.
LEMMA InvAlways == Spec => []Inv
  BY InitInv, NextInv, PTL DEF Spec

\* The context keeps its type under every entry point of OContext.
THEOREM TypeCorrect == Spec => []TypeOK
  <1>1. Inv => TypeOK
    BY DEF Inv, CInv, TypeOK
  <1> QED
    BY <1>1, InvAlways, PTL

\* A wait for a confirm never outlives its timer, so the outstation cannot hang in
\* StateSolicitedConfirmWait or StateUnsolicitedConfirmWait.
THEOREM WaitsAreTimed == Spec => []WaitIsTimed
  <1>1. Inv => WaitIsTimed
    BY DEF Inv, CInv, Timed, WaitIsTimed
  <1> QED
    BY <1>1, InvAlways, PTL

\* BeginTx is only reached when the lower layer is up and idle.
THEOREM TransmissionsNeverOverlap == Spec => []NeverOverlapped
  <1>1. Inv => NeverOverlapped
    BY DEF Inv, CInv, NeverOverlapped
  <1> QED
    BY <1>1, InvAlways, PTL

\* A request taken for a repetition is answered with the response it had.
THEOREM RepeatsAnswerSameRequest == Spec => []RepeatAnswersSameRequest
  <1>1. Inv => RepeatAnswersSameRequest
    BY DEF Inv, CInv, Answered, RepeatAnswersSameRequest
  <1> QED
    BY <1>1, InvAlways, PTL

\* The sequence number a confirm must have is that of the fragment in flight.
THEOREM ConfirmsMatchFragments == Spec => []ConfirmMatchesFragment
  <1>1. Inv => ConfirmMatchesFragment
    BY DEF Inv, CInv, Awaited, ConfirmMatchesFragment
  <1> QED
    BY <1>1, InvAlways, PTL

\* The counters of the event buffer agree with its list whatever the protocol does.
THEOREM CountersAlwaysMatch == Spec => []CountersMatchList
  <1>1. Inv => CountersMatchList
    BY DEF Inv, CInv, BufferInv, CountersMatchList
  <1> QED
    BY <1>1, InvAlways, PTL

-----------------------------------------------------------------------------
(***************************************************************************)
(* What the outstation reports, and what becomes of the events.            *)
(***************************************************************************)

\* The events that a confirm would delete are in the fragment it confirms.
Carried(c) ==
    /\ c.state = "SolicitedConfirmWait" =>
         IdsIn(c.buffer, "written") \subseteq c.solTx.events
    /\ c.state = "UnsolicitedConfirmWait" /\ c.completedNull =>
         IdsIn(c.buffer, "written") \subseteq c.unsolTx.events

\* A response holds points and classes that its request asked for.
Asked(rsp) ==
    rsp.answers # NoRequest => /\ rsp.points \subseteq rsp.answers.points
                               /\ rsp.classes \subseteq rsp.answers.classes

\* What is still selected was asked for by the request.
Remaining(c, request) ==
    request # NoRequest =>
        /\ c.static \subseteq request.points
        /\ \A i \in IdsIn(c.buffer, "selected") : c.buffer.events[i].clazz \in request.classes

\* A response is what was asked for, and so will its next fragment be. Octet strings
\* are exempt, as IStaticSelector::Unselect forgets them.
Faithful(c) ==
    OctetPoints \cap StaticPoints = {} =>
        /\ Asked(c.solTx)
        /\ c.state = "SolicitedConfirmWait" => Remaining(c, c.solTx.answers)

Good(c) == Carried(c) /\ Faithful(c)

\* A deferred request is a READ that waits for the channel to be idle.
Settled(c) ==
    CanTransmit(c) /\ c.deferred # NoRequest =>
        c.deferred.function = "READ" /\ c.state # "Idle"

\* An idle channel has nothing to report.
Reported(c) ==
    CanTransmit(c) /\ c.state = "Idle" /\ allowUnsolicited =>
        c.completedNull /\ c.unsolClassMask \cap UnwrittenClassField(c.buffer) = {}

\* The events that a method removes.
Gone(c, d) == Ids(c.buffer) \ Ids(d.buffer)

\* A request that cannot remove events when it is served later.
Plain(request) == request = NoRequest \/ request.function = "READ"

-----------------------------------------------------------------------------
(***************************************************************************)
(* What the operations on the event buffer do to the records.              *)
(***************************************************************************)

\* EventBuffer::Unselect keeps the events and leaves none selected or written.
LEMMA UnselectEvents ==
    ASSUME NEW b, IsBuffer(b)
    PROVE  /\ Ids(Unselect(b)) = Ids(b)
           /\ IdsIn(Unselect(b), "written") = {}
           /\ IdsIn(Unselect(b), "selected") = {}
  <1> DEFINE u == Unselect(b)
  <1>1. u.events = [i \in Ids(b) |-> [b.events[i] EXCEPT !.state = "unselected"]]
    BY DEF Unselect, IsBuffer
  <1> HIDE DEF u
  <1>2. Ids(u) = Ids(b)
    BY <1>1 DEF Ids
  <1>3. ASSUME NEW i \in Ids(b)
        PROVE  u.events[i].state = "unselected"
    <2>1. b.events[i] \in EventRecord
      BY DEF IsBuffer
    <2> QED
      BY <1>1, <2>1 DEF EventRecord
  <1>4. IdsIn(u, "written") = {} /\ IdsIn(u, "selected") = {}
    BY <1>2, <1>3 DEF IdsIn
  <1> QED
    BY <1>2, <1>4 DEF u

\* Selecting marks the given events and touches no other.
LEMMA SelectEvents ==
    ASSUME NEW b, IsBuffer(b), NEW ids \in SUBSET Ids(b)
    PROVE  LET d == Select(b, ids, {}, <<>>)
           IN  /\ Ids(d) = Ids(b)
               /\ IdsIn(d, "written") \subseteq IdsIn(b, "written")
               /\ IdsIn(d, "selected") = IdsIn(b, "selected") \cup ids
               /\ \A i \in Ids(b) : d.events[i].clazz = b.events[i].clazz
  <1> DEFINE d == Select(b, ids, {}, <<>>)
  <1>1. d.events = [i \in Ids(b) |->
                      IF i \notin ids THEN b.events[i]
                      ELSE [b.events[i] EXCEPT !.state = "selected", !.selectedVariation = @]]
    BY DEF Select, IsBuffer
  <1> HIDE DEF d
  <1>2. Ids(d) = Ids(b)
    BY <1>1 DEF Ids
  <1>3. ASSUME NEW i \in Ids(b)
        PROVE  /\ i \in ids => d.events[i].state = "selected"
               /\ i \notin ids => d.events[i].state = b.events[i].state
               /\ d.events[i].clazz = b.events[i].clazz
    <2>1. b.events[i] \in EventRecord
      BY DEF IsBuffer
    <2> QED
      BY <1>1, <2>1 DEF EventRecord
  <1>4. IdsIn(d, "written") \subseteq IdsIn(b, "written")
    BY <1>2, <1>3 DEF IdsIn
  <1>5. IdsIn(d, "selected") = IdsIn(b, "selected") \cup ids
    BY <1>2, <1>3 DEF IdsIn
  <1> QED
    BY <1>2, <1>3, <1>4, <1>5 DEF d

\* EventSelection::SelectByClass selects events of the classes only.
LEMMA SelectByClassEvents ==
    ASSUME NEW b, IsBuffer(b), NEW classes, NEW n
    PROVE  LET d == SelectByClass(b, classes, n)
           IN  /\ Ids(d) = Ids(b)
               /\ IdsIn(d, "written") \subseteq IdsIn(b, "written")
               /\ \A i \in IdsIn(d, "selected") :
                    i \in IdsIn(b, "selected") \/ d.events[i].clazz \in classes
  <1> DEFINE hits == First({i \in IdsIn(b, "unselected") : b.events[i].clazz \in classes}, n)
             d == Select(b, hits, {}, <<>>)
  <1>1. hits \subseteq {i \in IdsIn(b, "unselected") : b.events[i].clazz \in classes}
    BY FirstSubset
  <1>2. SelectByClass(b, classes, n) = d
    BY DEF SelectByClass
  <1> HIDE DEF hits
  <1>3. hits \in SUBSET Ids(b) /\ \A i \in hits : b.events[i].clazz \in classes
    BY <1>1 DEF IdsIn
  <1>4. /\ Ids(d) = Ids(b)
        /\ IdsIn(d, "written") \subseteq IdsIn(b, "written")
        /\ IdsIn(d, "selected") = IdsIn(b, "selected") \cup hits
        /\ \A i \in Ids(b) : d.events[i].clazz = b.events[i].clazz
    BY <1>3, SelectEvents
  <1> HIDE DEF d
  <1> QED
    BY <1>2, <1>3, <1>4

\* EventBuffer::Load writes the loaded events and touches no other.
LEMMA LoadEvents ==
    ASSUME NEW b, IsBuffer(b), NEW n
    PROVE  LET d == Load(b, n)
           IN  /\ Ids(d) = Ids(b)
               /\ IdsIn(d, "written") \subseteq IdsIn(b, "written") \cup Loaded(b, n)
               /\ IdsIn(d, "selected") \subseteq IdsIn(b, "selected")
               /\ \A i \in Ids(b) : d.events[i].clazz = b.events[i].clazz
  <1> DEFINE d == Load(b, n)
             w == Loaded(b, n)
  <1>1. d.events = [i \in Ids(b) |-> IF i \in w THEN [b.events[i] EXCEPT !.state = "written"]
                                     ELSE b.events[i]]
    BY DEF Load, IsBuffer
  <1> HIDE DEF d, w
  <1>2. Ids(d) = Ids(b)
    BY <1>1 DEF Ids
  <1>3. ASSUME NEW i \in Ids(b)
        PROVE  /\ i \in w => d.events[i].state = "written"
               /\ i \notin w => d.events[i].state = b.events[i].state
               /\ d.events[i].clazz = b.events[i].clazz
    <2>1. b.events[i] \in EventRecord
      BY DEF IsBuffer
    <2> QED
      BY <1>1, <2>1 DEF EventRecord
  <1>4. IdsIn(d, "written") \subseteq IdsIn(b, "written") \cup w
    BY <1>2, <1>3 DEF IdsIn
  <1>5. IdsIn(d, "selected") \subseteq IdsIn(b, "selected")
    BY <1>2, <1>3 DEF IdsIn
  <1> QED
    BY <1>2, <1>3, <1>4, <1>5 DEF d, w

\* What is loaded was selected.
LEMMA LoadedSelected ==
    ASSUME NEW b, NEW n
    PROVE  Loaded(b, n) \subseteq IdsIn(b, "selected")
  BY FirstSubset DEF Loaded

\* Removing events leaves the others as they are.
LEMMA DiscardEvents ==
    ASSUME NEW b, IsBuffer(b), NEW ids
    PROVE  LET d == Discard(b, ids)
           IN  /\ Ids(d) = Ids(b) \ ids
               /\ \A i \in Ids(d) : d.events[i] = b.events[i]
               /\ d.next = b.next
  <1> DEFINE d == Discard(b, ids)
  <1>1. d.events = [i \in Ids(b) \ ids |-> b.events[i]] /\ d.next = b.next
    BY DEF Discard, IsBuffer
  <1> HIDE DEF d
  <1> QED
    BY <1>1 DEF Ids, d

\* EventBuffer::ClearWritten removes what was written and keeps the rest.
LEMMA ClearWrittenEvents ==
    ASSUME NEW b, IsBuffer(b)
    PROVE  LET d == ClearWritten(b)
           IN  /\ Ids(b) \ Ids(d) = IdsIn(b, "written")
               /\ IdsIn(d, "written") = {}
               /\ IdsIn(d, "selected") \subseteq IdsIn(b, "selected")
               /\ \A i \in Ids(d) : d.events[i] = b.events[i]
  <1> DEFINE d == ClearWritten(b)
  <1>1. Ids(d) = Ids(b) \ IdsIn(b, "written") /\ \A i \in Ids(d) : d.events[i] = b.events[i]
    BY DiscardEvents DEF ClearWritten
  <1> HIDE DEF d
  <1>2. IdsIn(d, "written") = {} /\ IdsIn(d, "selected") \subseteq IdsIn(b, "selected")
    BY <1>1 DEF IdsIn
  <1>3. Ids(b) \ Ids(d) = IdsIn(b, "written")
    BY <1>1 DEF IdsIn
  <1> QED
    BY <1>1, <1>2, <1>3 DEF d

\* The first of a set of list positions is its least element.
LEMMA FirstIsLeast ==
    ASSUME NEW S, S \subseteq Nat, IsFiniteSet(S), NEW i \in First(S, 1), NEW j \in S
    PROVE  i <= j
  <1> DEFINE upto == {k \in S : k <= i}
  <1>1. i \in S /\ i \in Nat /\ j \in Nat /\ Cardinality(upto) <= 1
    BY DEF First
  <1>2. SUFFICES ASSUME j < i PROVE FALSE
    BY <1>1
  <1>3. {i, j} \subseteq upto
    BY <1>1, <1>2
  <1>4. IsFiniteSet(upto)
    BY FS_Subset
  <1>5. Cardinality({i, j}) = 2
    <2>1. IsFiniteSet({j}) /\ Cardinality({j}) = 1
      BY FS_Singleton
    <2>2. i \notin {j}
      BY <1>1, <1>2
    <2>3. Cardinality({j} \cup {i}) = Cardinality({j}) + 1
      BY <2>1, <2>2, FS_AddElement
    <2>4. {j} \cup {i} = {i, j}
      OBVIOUS
    <2> QED
      BY <2>1, <2>3, <2>4
  <1> HIDE DEF upto
  <1>6. Cardinality({i, j}) <= Cardinality(upto) /\ Cardinality(upto) \in Nat
    BY <1>3, <1>4, FS_Subset, FS_CardinalityType
  <1> QED
    BY <1>1, <1>5, <1>6

\* A new event at the tail is neither selected nor written.
LEMMA AppendEvents ==
    ASSUME NEW b, IsBuffer(b), NEW t, NEW c, NEW v
    PROVE  LET d == Append1(b, t, c, v)
           IN  /\ Ids(b) \subseteq Ids(d) /\ d.next = b.next + 1
               /\ IdsIn(d, "written") \subseteq IdsIn(b, "written")
               /\ IdsIn(d, "selected") \subseteq IdsIn(b, "selected")
               /\ \A i \in Ids(b) : d.events[i] = b.events[i]
  <1> DEFINE d == Append1(b, t, c, v)
             e == [type |-> t, clazz |-> c, state |-> "unselected",
                   defaultVariation |-> v, selectedVariation |-> v]
  <1>1. /\ d.events = [i \in Ids(b) \cup {b.next} |-> IF i = b.next THEN e ELSE b.events[i]]
        /\ d.next = b.next + 1
    BY DEF Append1, IsBuffer
  <1>2. e.state = "unselected"
    OBVIOUS
  <1>3. b.next \notin Ids(b)
    BY DEF IsBuffer
  <1> HIDE DEF d, e
  <1>4. Ids(d) = Ids(b) \cup {b.next}
    BY <1>1 DEF Ids
  <1>5. d.events[b.next] = e /\ \A i \in Ids(b) : d.events[i] = b.events[i]
    BY <1>1, <1>3
  <1>6. /\ IdsIn(d, "written") \subseteq IdsIn(b, "written")
        /\ IdsIn(d, "selected") \subseteq IdsIn(b, "selected")
    BY <1>2, <1>4, <1>5 DEF IdsIn
  <1> QED
    BY <1>1, <1>4, <1>5, <1>6 DEF d

\* EventBuffer::Update removes at most the oldest event of a type that is full, and
\* selects or writes none.
LEMMA UpdateEvents ==
    ASSUME NEW b, BufferInv(b), NEW t \in Types, NEW c \in Classes, NEW v \in Variations
    PROVE  LET d == Update(b, t, c, v)
           IN  /\ IdsIn(d, "written") \subseteq IdsIn(b, "written")
               /\ IdsIn(d, "selected") \subseteq IdsIn(b, "selected")
               /\ \A i \in Ids(b) \cap Ids(d) : d.events[i] = b.events[i]
               /\ \A i \in Ids(b) \ Ids(d) :
                    /\ IsFull(b, t) /\ i \in IdsOf(b, t)
                    /\ \A j \in IdsOf(b, t) : i <= j
  <1> DEFINE d == Update(b, t, c, v)
             old == First(IdsOf(b, t), 1)
             e == [Discard(b, old) EXCEPT !.overflow = TRUE]
  <1>0. IsBuffer(b)
    BY DEF BufferInv
  <1>1. \/ d \in {b, Append1(b, t, c, v)}
        \/ IsFull(b, t) /\ d = Append1(e, t, c, v)
    BY DEF Update
  <1>2. CASE d = b
    BY <1>2
  <1>3. CASE d = Append1(b, t, c, v)
    <2>1. /\ Ids(b) \subseteq Ids(d)
          /\ IdsIn(d, "written") \subseteq IdsIn(b, "written")
          /\ IdsIn(d, "selected") \subseteq IdsIn(b, "selected")
          /\ \A i \in Ids(b) : d.events[i] = b.events[i]
      BY <1>0, <1>3, AppendEvents
    <2> HIDE DEF d
    <2> QED
      BY <2>1 DEF d
  <1>4. CASE IsFull(b, t) /\ d = Append1(e, t, c, v)
    <2> DEFINE x == Discard(b, old)
    <2>1. old \subseteq IdsOf(b, t) /\ IdsOf(b, t) \subseteq Ids(b)
      BY FirstSubset DEF IdsOf
    <2>2. BufferInv(x)
      BY <2>1, DiscardInv
    <2>3. /\ Ids(x) = Ids(b) \ old /\ \A i \in Ids(x) : x.events[i] = b.events[i]
          /\ x.next = b.next
      BY <1>0, DiscardEvents
    <2>4. e = [x EXCEPT !.overflow = TRUE]
      OBVIOUS
    <2> HIDE DEF x, e
    <2>5. IsBuffer(e) /\ e.events = x.events /\ e.next = x.next
      BY <2>2, <2>4 DEF BufferInv, IsBuffer, Ids
    <2>6. /\ Ids(e) \subseteq Ids(d) /\ d.next = b.next + 1
          /\ IdsIn(d, "written") \subseteq IdsIn(e, "written")
          /\ IdsIn(d, "selected") \subseteq IdsIn(e, "selected")
          /\ \A i \in Ids(e) : d.events[i] = e.events[i]
      BY <1>4, <2>3, <2>5, AppendEvents
    <2>7. Ids(e) = Ids(b) \ old /\ \A i \in Ids(e) : e.events[i] = b.events[i]
      BY <2>3, <2>5 DEF Ids
    <2>8. /\ IdsIn(e, "written") \subseteq IdsIn(b, "written")
          /\ IdsIn(e, "selected") \subseteq IdsIn(b, "selected")
      BY <2>7 DEF IdsIn
    <2>9. ASSUME NEW i \in Ids(b) \ Ids(d)
          PROVE  i \in IdsOf(b, t) /\ \A j \in IdsOf(b, t) : i <= j
      <3>1. i \in old /\ i \in IdsOf(b, t)
        BY <2>1, <2>6, <2>7
      <3>2. IdsOf(b, t) \subseteq Nat /\ IsFiniteSet(IdsOf(b, t))
        BY <2>1, FiniteIds DEF BufferInv, IsBuffer
      <3> HIDE DEF d
      <3> QED
        BY <3>1, <3>2, FirstIsLeast DEF old
    <2>10. Ids(b) \cap Ids(d) = Ids(e)
      <3>1. ASSUME NEW i \in old PROVE i \notin Ids(d)
        <4>1. d.events = [k \in Ids(e) \cup {e.next} |-> d.events[k]]
          BY <1>4, <2>5 DEF Append1, IsBuffer
        <4>2. Ids(d) = Ids(e) \cup {e.next}
          <5> HIDE DEF d
          <5> QED
            BY <4>1 DEF Ids
        <4>3. e.next \notin Ids(b)
          BY <2>3, <2>5 DEF BufferInv, IsBuffer
        <4> QED
          BY <2>1, <2>7, <4>2, <4>3
      <3> QED
        BY <2>6, <2>7, <3>1
    <2> HIDE DEF d
    <2> QED
      BY <1>4, <2>6, <2>7, <2>8, <2>9, <2>10 DEF d
  <1> HIDE DEF d
  <1> QED
    BY <1>1, <1>2, <1>3, <1>4 DEF d

-----------------------------------------------------------------------------
(***************************************************************************)
(* What the methods leave alone.                                           *)
(***************************************************************************)

\* The parts of the context that decide what is reported, but for the last responses.
SameRest(c, d) ==
    /\ d.state = c.state /\ d.completedNull = c.completedNull
    /\ d.static = c.static /\ d.deferred = c.deferred
    /\ d.buffer.events = c.buffer.events

Like(c, d) == SameRest(c, d) /\ d.solTx = c.solTx /\ d.unsolTx = c.unsolTx

\* What a method leaves alone stays good.
LEMMA LikeGood ==
    ASSUME NEW c, NEW d, Like(c, d), Good(c)
    PROVE  Good(d) /\ Gone(c, d) = {} /\ d.deferred = c.deferred
  <1>1. /\ Ids(d.buffer) = Ids(c.buffer)
        /\ IdsIn(d.buffer, "written") = IdsIn(c.buffer, "written")
        /\ IdsIn(d.buffer, "selected") = IdsIn(c.buffer, "selected")
    BY DEF Like, SameRest, Ids, IdsIn
  <1>2. Carried(d)
    BY <1>1 DEF Like, SameRest, Good, Carried
  <1>3. ASSUME NEW q, Remaining(c, q) PROVE Remaining(d, q)
    BY <1>1, <1>3 DEF Like, SameRest, Remaining
  <1>4. Faithful(d)
    BY <1>3 DEF Like, SameRest, Good, Faithful
  <1> QED
    BY <1>1, <1>2, <1>4 DEF Good, Gone, Like, SameRest

\* The timer and the transmission bear on nothing that is reported.
LEMMA TimerLike ==
    ASSUME NEW c, IsContext(c)
    PROVE  /\ Like(c, CancelConfirmTimer(c))
           /\ Like(c, RestartConfirmTimer(c))
           /\ Like(c, BeginTx(c))
  <1>1. Like(c, CancelConfirmTimer(c))
    BY DEF IsContext, CancelConfirmTimer, Like, SameRest
  <1>2. Like(c, RestartConfirmTimer(c))
    BY DEF IsContext, RestartConfirmTimer, CancelConfirmTimer, Like, SameRest
  <1>3. Like(c, BeginTx(c))
    BY DEF IsContext, BeginTx, Like, SameRest
  <1> QED
    BY <1>1, <1>2, <1>3

\* A response is recorded, and nothing else that is reported changes.
LEMMA ResponseRest ==
    ASSUME NEW c, IsContext(c), NEW rsp
    PROVE  LET d == BeginResponseTx(c, rsp)
           IN  SameRest(c, d) /\ d.solTx = rsp /\ d.unsolTx = c.unsolTx
  BY DEF IsContext, BeginResponseTx, BeginTx, SameRest

\* The same for an unsolicited response.
LEMMA UnsolRest ==
    ASSUME NEW c, IsContext(c), NEW rsp
    PROVE  LET d == BeginUnsolTx(c, rsp)
           IN  SameRest(c, d) /\ d.unsolTx = rsp /\ d.solTx = c.solTx
  BY DEF IsContext, BeginUnsolTx, BeginTx, SameRest

\* Composing the IIN changes the overflow flag only.
LEMMA IINLike ==
    ASSUME NEW c, IsContext(c)
    PROVE  Like(c, GetResponseIIN(c))
  <1> DEFINE b == QueryOverflow(c.buffer)
             d == [c EXCEPT !.buffer = b]
  <1>1. b.events = c.buffer.events
    BY DEF QueryOverflow, IsContext, IsBuffer
  <1>2. GetResponseIIN(c) = d
    BY DEF GetResponseIIN
  <1> HIDE DEF b
  <1>3. Like(c, d)
    BY <1>1 DEF IsContext, Like, SameRest
  <1> QED
    BY <1>2, <1>3

\* The handlers of requests other than READ select nothing and remove nothing.
LEMMA HandlersLike ==
    ASSUME NEW c, IsContext(c), NEW r
    PROVE  Like(c, HandleNonReadResponse(c, r))
  <1>0. Like(c, c)
    BY DEF Like, SameRest
  <1>1. Like(c, HandleWrite(c, r))
    BY DEF IsContext, HandleWrite, Like, SameRest
  <1>2. Like(c, HandleSelect(c, r))
    BY <1>0 DEF IsContext, HandleSelect, Like, SameRest
  <1>3. Like(c, HandleOperate(c, r))
    BY <1>0 DEF IsContext, HandleOperate, Like, SameRest
  <1>4. Like(c, HandleEnableUnsolicited(c, r))
    BY <1>0 DEF IsContext, HandleEnableUnsolicited, Like, SameRest
  <1>5. Like(c, HandleDisableUnsolicited(c, r))
    BY <1>0 DEF IsContext, HandleDisableUnsolicited, Like, SameRest
  <1>6. Like(c, HandleRecordCurrentTime(c, r))
    BY <1>0 DEF IsContext, HandleRecordCurrentTime, Like, SameRest
  <1> DEFINE h == HandleNonReadResponse(c, r)
  <1>7. h \in {HandleWrite(c, r), HandleSelect(c, r), HandleOperate(c, r),
               HandleEnableUnsolicited(c, r), HandleDisableUnsolicited(c, r),
               HandleRecordCurrentTime(c, r), c}
    BY DEF HandleNonReadResponse
  <1> HIDE DEF h
  <1>8. Like(c, h)
    BY <1>0, <1>1, <1>2, <1>3, <1>4, <1>5, <1>6, <1>7
  <1> QED
    BY <1>8 DEF h

-----------------------------------------------------------------------------
(***************************************************************************)
(* Responses.                                                              *)
(***************************************************************************)

\* A fragment holds what was selected, and only its events are written afterwards.
LEMMA SendFragmentGood ==
    ASSUME NEW c, Sendable(c), NEW seq \in Seqs, NEW request \in Requests \cup {NoRequest},
           IdsIn(c.buffer, "written") = {},
           OctetPoints \cap StaticPoints = {} => Remaining(c, request)
    PROVE  LET d == SendFragment(c, seq, request)
           IN  Good(d) /\ Gone(c, d) = {} /\ d.deferred = c.deferred
  <1> DEFINE loaded == Loaded(c.buffer, FragmentSize)
             after  == Load(c.buffer, FragmentSize)
             full   == NumSelected(after) # 0
             points == IF full THEN {}
                       ELSE First(c.static, FragmentSize - Cardinality(loaded))
             fin    == ~full /\ c.static \subseteq points
             con    == ~fin \/ loaded # {}
             classes == {c.buffer.events[i].clazz : i \in loaded}
             rsp    == [seq |-> seq, fir |-> c.firstFragment, con |-> con,
                        events |-> loaded, classes |-> classes,
                        points |-> points, answers |-> request]
             pre    == [c EXCEPT !.buffer = after, !.static = @ \ points,
                                 !.firstFragment = FALSE, !.solConfirmNum = seq]
             iin    == GetResponseIIN(pre)
             sent   == BeginResponseTx(iin, rsp)
  <1>0. IsContext(c) /\ BufferInv(c.buffer) /\ IsBuffer(c.buffer)
    BY DEF Sendable, BufferInv
  <1>1. /\ Ids(after) = Ids(c.buffer)
        /\ IdsIn(after, "written") \subseteq loaded
        /\ IdsIn(after, "selected") \subseteq IdsIn(c.buffer, "selected")
        /\ \A i \in Ids(c.buffer) : after.events[i].clazz = c.buffer.events[i].clazz
    <2> HIDE DEF loaded, after
    <2> QED
      BY <1>0, LoadEvents DEF loaded, after
  <1>2. BufferInv(after) /\ IsBuffer(after)
    BY <1>0, LoadInv DEF BufferInv
  <1>3. points \subseteq c.static
    BY FirstSubset
  <1>4. loaded \subseteq IdsIn(c.buffer, "selected")
    BY LoadedSelected
  <1>5. SendFragment(c, seq, request) =
          IF con THEN [RestartConfirmTimer(sent) EXCEPT !.state = "SolicitedConfirmWait"]
                 ELSE [sent EXCEPT !.state = "Idle"]
    BY DEF SendFragment
  <1>6. /\ rsp.events = loaded /\ rsp.classes = classes /\ rsp.points = points
        /\ rsp.answers = request
    OBVIOUS
  <1>7. con \in BOOLEAN /\ c.firstFragment \in BOOLEAN
    BY <1>0 DEF IsContext
  <1>8. ASSUME Remaining(c, request), request # NoRequest
        PROVE  classes \subseteq request.classes
    BY <1>4, <1>8 DEF Remaining
  <1>9. c.static \in SUBSET StaticPoints
    BY <1>0 DEF IsContext
  <1> HIDE DEF loaded, after, full, points, fin, con, classes, rsp
  <1>10. /\ IsContext(pre) /\ pre.buffer = after /\ pre.static = c.static \ points
         /\ pre.deferred = c.deferred
    BY <1>0, <1>2, <1>9 DEF IsContext
  <1> HIDE DEF pre
  <1>11. IsContext(iin) /\ Like(pre, iin)
    <2>1. IsBuffer(QueryOverflow(pre.buffer))
      BY <1>2, <1>10, QueryOverflowInv DEF BufferInv
    <2>2. IsContext(iin)
      <3> DEFINE q == QueryOverflow(pre.buffer)
      <3>1. iin = [pre EXCEPT !.buffer = q]
        BY DEF GetResponseIIN
      <3> HIDE DEF q, iin
      <3> QED
        BY <1>10, <2>1, <3>1 DEF IsContext, q
    <2> QED
      BY <1>10, <2>2, IINLike
  <1> HIDE DEF iin
  <1>12. /\ SameRest(iin, sent) /\ sent.solTx = rsp
    BY <1>11, ResponseRest
  <1>13. DOMAIN sent = DOMAIN iin
    BY DEF sent, BeginResponseTx, BeginTx
  <1> HIDE DEF sent
  <1> DEFINE d == SendFragment(c, seq, request)
  <1>14. /\ d.solTx = rsp /\ d.static = c.static \ points /\ d.deferred = c.deferred
         /\ d.buffer.events = after.events
         /\ d.state \in {"Idle", "SolicitedConfirmWait"}
    <2>1. /\ sent.static = c.static \ points /\ sent.deferred = c.deferred
          /\ sent.buffer.events = after.events
      BY <1>10, <1>11, <1>12 DEF Like, SameRest
    <2>2. DOMAIN sent = DOMAIN InitialContext
      BY <1>11, <1>13 DEF IsContext, InitialContext
    <2>3. CASE con
      <3>1. d = [RestartConfirmTimer(sent) EXCEPT !.state = "SolicitedConfirmWait"]
        BY <1>5, <2>3
      <3> HIDE DEF d
      <3> QED
        BY <1>12, <2>1, <2>2, <3>1 DEF RestartConfirmTimer, CancelConfirmTimer, InitialContext
    <2>4. CASE ~con
      <3>1. d = [sent EXCEPT !.state = "Idle"]
        BY <1>5, <2>4
      <3> HIDE DEF d
      <3> QED
        BY <1>12, <2>1, <2>2, <3>1 DEF InitialContext
    <2> QED
      BY <2>3, <2>4
  <1> HIDE DEF d
  <1>15. /\ Ids(d.buffer) = Ids(after) /\ IdsIn(d.buffer, "written") = IdsIn(after, "written")
         /\ IdsIn(d.buffer, "selected") = IdsIn(after, "selected")
    BY <1>14 DEF Ids, IdsIn
  <1>16. Carried(d)
    BY <1>1, <1>6, <1>14, <1>15 DEF Carried
  <1>17. Faithful(d)
    <2> SUFFICES ASSUME OctetPoints \cap StaticPoints = {}, request # NoRequest
                 PROVE  /\ points \subseteq request.points /\ classes \subseteq request.classes
                        /\ Remaining(d, request)
      BY <1>6, <1>14 DEF Faithful, Asked, Remaining
    <2>1. Remaining(c, request)
      OBVIOUS
    <2>2. c.static \subseteq request.points
      BY <2>1 DEF Remaining
    <2>3. ASSUME NEW i \in IdsIn(d.buffer, "selected")
          PROVE  d.buffer.events[i].clazz \in request.classes
      <3>1. i \in IdsIn(c.buffer, "selected") /\ i \in Ids(c.buffer)
        BY <1>1, <1>15, <2>3 DEF IdsIn
      <3>2. d.buffer.events[i].clazz = c.buffer.events[i].clazz
        BY <1>1, <1>14, <3>1
      <3> QED
        BY <2>1, <3>1, <3>2 DEF Remaining
    <2>4. Remaining(d, request)
      BY <1>14, <2>2, <2>3 DEF Remaining
    <2> QED
      BY <1>3, <1>8, <2>1, <2>2, <2>4
  <1> QED
    BY <1>1, <1>14, <1>15, <1>16, <1>17 DEF d, Good, Gone

\* A response without objects is what any request asked for.
LEMMA EmptyAsked ==
    ASSUME NEW r
    PROVE  Asked(EmptyResponse(r))
  BY DEF Asked, EmptyResponse

\* An idle context has no wait that could go wrong.
LEMMA IdleGood ==
    ASSUME NEW c, c.state = "Idle", OctetPoints \cap StaticPoints = {} => Asked(c.solTx)
    PROVE  Good(c)
  BY DEF Good, Carried, Faithful

\* A READ selects what it asks for and nothing else.
LEMMA SelectForReadGood ==
    ASSUME NEW c, Sendable(c), NEW r \in Requests
    PROVE  LET d == SelectForRead(c, r)
           IN  /\ IdsIn(d.buffer, "written") = {}
               /\ OctetPoints \cap StaticPoints = {} => Remaining(d, r)
               /\ Ids(d.buffer) = Ids(c.buffer)
               /\ d.deferred = c.deferred
  <1> DEFINE u == Unselect(c.buffer)
             b == SelectByClass(u, r.classes, Cardinality(Ids(u)))
             clean == UnselectStatic([c EXCEPT !.firstFragment = TRUE, !.buffer = Unselect(@)])
             d == [clean EXCEPT !.buffer = SelectByClass(@, r.classes, Cardinality(Ids(@))),
                                !.static = @ \cup r.points]
  <1>0. IsContext(c) /\ BufferInv(c.buffer) /\ IsBuffer(c.buffer)
    BY DEF Sendable, BufferInv
  <1>1. SelectForRead(c, r) = d
    BY DEF SelectForRead
  <1>2. /\ clean.buffer = u /\ clean.static = c.static \cap OctetPoints
        /\ clean.deferred = c.deferred /\ DOMAIN clean = DOMAIN c
    BY <1>0 DEF IsContext, UnselectStatic
  <1>3. IsBuffer(u)
    BY <1>0, UnselectInv DEF BufferInv
  <1>4. Ids(u) = Ids(c.buffer) /\ IdsIn(u, "written") = {} /\ IdsIn(u, "selected") = {}
    BY <1>0, UnselectEvents
  <1>5. /\ Ids(b) = Ids(u) /\ IdsIn(b, "written") \subseteq IdsIn(u, "written")
        /\ \A i \in IdsIn(b, "selected") :
             i \in IdsIn(u, "selected") \/ b.events[i].clazz \in r.classes
    <2> HIDE DEF u
    <2> QED
      BY <1>3, SelectByClassEvents
  <1>6. d = [clean EXCEPT !.buffer = b, !.static = clean.static \cup r.points]
    BY <1>2
  <1> HIDE DEF u, b, clean, d
  <1>7. /\ d.buffer = b /\ d.static = (c.static \cap OctetPoints) \cup r.points
        /\ d.deferred = c.deferred
    BY <1>0, <1>2, <1>6 DEF IsContext
  <1>8. ASSUME OctetPoints \cap StaticPoints = {}
        PROVE  Remaining(d, r)
    <2>1. c.static \cap OctetPoints = {}
      BY <1>0, <1>8 DEF IsContext
    <2> QED
      BY <1>4, <1>5, <1>7, <2>1 DEF Remaining
  <1> QED
    BY <1>1, <1>4, <1>5, <1>7, <1>8

\* OContext::RespondToReadRequest answers what was asked, and abandons what an earlier
\* fragment wrote without removing it.
LEMMA RespondToReadGood ==
    ASSUME NEW c, Sendable(c), NEW r \in Requests
    PROVE  LET d == RespondToReadRequest(c, r)
           IN  Good(d) /\ Gone(c, d) = {} /\ d.deferred = c.deferred
  <1> DEFINE rec == [c EXCEPT !.lastRequest = r]
             d == RespondToReadRequest(c, r)
  <1>1. /\ IsContext(rec) /\ SameLink(c, rec) /\ rec.buffer = c.buffer
        /\ rec.deferred = c.deferred
    BY DEF Sendable, IsContext, SameLink
  <1> HIDE DEF rec
  <1>2. Sendable(rec)
    BY <1>1 DEF Sendable, SameLink, CanTransmit
  <1>3. CASE r.object # "malformed"
    <2> DEFINE sel == SelectForRead(rec, r)
               e == SendFragment(sel, r.seq, r)
    <2>1. d = e
      BY <1>3 DEF RespondToReadRequest, rec
    <2>2. Sendable(sel)
      BY <1>2, SelectForReadEffect
    <2>3. /\ IdsIn(sel.buffer, "written") = {}
          /\ OctetPoints \cap StaticPoints = {} => Remaining(sel, r)
          /\ Ids(sel.buffer) = Ids(rec.buffer)
          /\ sel.deferred = rec.deferred
      BY <1>2, SelectForReadGood
    <2> HIDE DEF sel
    <2>4. Good(e) /\ Gone(sel, e) = {} /\ e.deferred = sel.deferred
      BY <2>2, <2>3, RequestFields, SendFragmentGood
    <2> HIDE DEF e, d
    <2>5. Gone(c, d) = {} /\ d.deferred = c.deferred
      BY <1>1, <2>1, <2>3, <2>4 DEF Gone
    <2> QED
      BY <2>1, <2>4, <2>5 DEF d
  <1>4. CASE r.object = "malformed"
    <2> DEFINE u == Unselect(rec.buffer)
               e == [rec EXCEPT !.firstFragment = TRUE, !.buffer = Unselect(@),
                                !.solConfirmNum = r.seq]
               un == UnselectStatic(e)
               iin == GetResponseIIN(un)
               sent == BeginResponseTx(iin, EmptyResponse(r))
    <2>1. d = [sent EXCEPT !.state = "Idle"]
      BY <1>4 DEF RespondToReadRequest, rec
    <2>2. IsBuffer(u) /\ Ids(u) = Ids(rec.buffer)
      BY <1>2, UnselectInv, UnselectEvents DEF Sendable, BufferInv
    <2>3. e = [rec EXCEPT !.firstFragment = TRUE, !.buffer = u, !.solConfirmNum = r.seq]
      OBVIOUS
    <2> HIDE DEF u, e
    <2>4. IsContext(e) /\ e.buffer = u /\ e.deferred = rec.deferred
      BY <1>1, <2>2, <2>3, RequestFields DEF IsContext
    <2>5. IsContext(un) /\ un.buffer = u /\ un.deferred = rec.deferred
      BY <2>4 DEF IsContext, UnselectStatic
    <2> HIDE DEF un
    <2>6. DOMAIN iin = DOMAIN un /\ Like(un, iin)
      BY <2>5, IINLike DEF GetResponseIIN
    <2>7. DOMAIN iin = DOMAIN InitialContext
      BY <2>5, <2>6 DEF IsContext, InitialContext
    <2> HIDE DEF iin
    <2>8. /\ sent.solTx = EmptyResponse(r) /\ sent.buffer = iin.buffer
          /\ sent.deferred = iin.deferred /\ DOMAIN sent = DOMAIN InitialContext
      BY <2>7 DEF BeginResponseTx, BeginTx, InitialContext
    <2> HIDE DEF sent, d
    <2>9. /\ d.state = "Idle" /\ d.solTx = EmptyResponse(r) /\ d.buffer = iin.buffer
          /\ d.deferred = iin.deferred
      BY <2>1, <2>8 DEF InitialContext
    <2>10. Good(d)
      BY <2>9, EmptyAsked, IdleGood
    <2>11. Gone(c, d) = {} /\ d.deferred = c.deferred
      BY <1>1, <2>2, <2>5, <2>6, <2>9 DEF Like, SameRest, Gone, Ids
    <2> QED
      BY <2>10, <2>11 DEF d
  <1> QED
    BY <1>3, <1>4

\* Any other response leaves the selections and the events alone.
LEMMA RespondToNonReadGood ==
    ASSUME NEW c, Sendable(c), NEW r \in Requests
    PROVE  LET d == RespondToNonReadRequest(c, r)
           IN  SameRest(c, d) /\ d.unsolTx = c.unsolTx /\ d.solTx = EmptyResponse(r)
  <1> DEFINE rec == [c EXCEPT !.lastRequest = r]
             h   == HandleNonReadResponse(rec, r)
             iin == GetResponseIIN(h)
             d   == BeginResponseTx(iin, EmptyResponse(r))
  <1>1. IsContext(rec) /\ Like(c, rec) /\ SameLink(c, rec) /\ rec.buffer = c.buffer
    BY DEF Sendable, IsContext, Like, SameRest, SameLink
  <1> HIDE DEF rec
  <1>2. IsContext(h) /\ Like(rec, h) /\ Untouched(rec, h)
    BY <1>1, HandlersLike, HandleNonReadEffect
  <1> HIDE DEF h
  <1>3. Sendable(h)
    BY <1>1, <1>2 DEF Sendable, Untouched, SameLink, CanTransmit
  <1>4. IsContext(iin) /\ Like(h, iin)
    BY <1>2, <1>3, GetResponseIINEffect, IINLike DEF Sendable
  <1> HIDE DEF iin
  <1>5. SameRest(iin, d) /\ d.solTx = EmptyResponse(r) /\ d.unsolTx = iin.unsolTx
    BY <1>4, ResponseRest
  <1> HIDE DEF d
  <1>6. SameRest(c, d) /\ d.unsolTx = c.unsolTx
    BY <1>1, <1>2, <1>4, <1>5 DEF Like, SameRest
  <1> QED
    BY <1>5, <1>6 DEF d, iin, h, rec, RespondToNonReadRequest

\* The last response is sent again as it was.
LEMMA RepeatLike ==
    ASSUME NEW c, IsContext(c)
    PROVE  Like(c, RepeatLastResponse(c))
  BY ResponseRest DEF RepeatLastResponse, Like

-----------------------------------------------------------------------------
(***************************************************************************)
(* The channel states.                                                     *)
(***************************************************************************)

\* What a method does that removes no event and defers nothing but READs.
Kept(c, d) ==
    Good(d) /\ Gone(c, d) = {} /\ (d.deferred = c.deferred \/ Plain(d.deferred))

\* A method that leaves everything alone keeps it.
LEMMA LikeKept ==
    ASSUME NEW c, NEW d, Like(c, d), Good(c)
    PROVE  Kept(c, d)
  BY LikeGood DEF Kept

\* The deferred slot is not reported.
LEMMA DeferGood ==
    ASSUME NEW c, IsContext(c), Good(c), NEW r
    PROVE  LET d == [c EXCEPT !.deferred = r]
           IN  Good(d) /\ Gone(c, d) = {} /\ d.deferred = r
  <1> DEFINE d == [c EXCEPT !.deferred = r]
  <1>1. /\ d.state = c.state /\ d.completedNull = c.completedNull /\ d.static = c.static
        /\ d.buffer = c.buffer /\ d.solTx = c.solTx /\ d.unsolTx = c.unsolTx
        /\ d.deferred = r
    BY DEF IsContext
  <1> HIDE DEF d
  <1>2. Carried(d) /\ Gone(c, d) = {}
    BY <1>1 DEF Good, Carried, Gone
  <1>3. ASSUME NEW q, Remaining(c, q) PROVE Remaining(d, q)
    BY <1>1, <1>3 DEF Remaining
  <1>4. Faithful(d)
    BY <1>1, <1>3 DEF Good, Faithful
  <1> QED
    BY <1>1, <1>2, <1>4 DEF d, Good

\* A wait that is abandoned leaves its events in the buffer.
LEMMA ToIdleGood ==
    ASSUME NEW c, DOMAIN c = DOMAIN InitialContext,
           OctetPoints \cap StaticPoints = {} => Asked(c.solTx)
    PROVE  LET d == [c EXCEPT !.state = "Idle"]
           IN  Good(d) /\ Gone(c, d) = {} /\ d.deferred = c.deferred
  <1> DEFINE d == [c EXCEPT !.state = "Idle"]
  <1>1. /\ d.state = "Idle" /\ d.solTx = c.solTx /\ d.buffer = c.buffer
        /\ d.deferred = c.deferred
    BY DEF InitialContext
  <1> HIDE DEF d
  <1>2. Good(d) /\ Gone(c, d) = {}
    BY <1>1, IdleGood DEF Gone
  <1> QED
    BY <1>1, <1>2 DEF d

\* Every context is a record with the fields of the first one.
LEMMA ContextDomain ==
    ASSUME NEW c, IsContext(c)
    PROVE  DOMAIN c = DOMAIN InitialContext
  BY DEF IsContext, InitialContext

\* A new READ in each channel state.
LEMMA OnNewReadKept ==
    ASSUME NEW c, CInv(c), CanTransmit(c), Good(c), NEW r \in Requests, r.function = "READ"
    PROVE  Kept(c, OnNewReadRequest(c, r))
  <1>0. Sendable(c) /\ IsContext(c) /\ c.state \in States
    BY CInvSendable DEF CInv, IsContext
  <1>1. CASE c.state = "Idle"
    BY <1>0, <1>1, RespondToReadGood DEF OnNewReadRequest, Kept
  <1>2. CASE c.state = "SolicitedConfirmWait"
    <2> DEFINE e == CancelConfirmTimer(c)
               d == RespondToReadRequest(e, r)
    <2>1. Sendable(e) /\ Like(c, e)
      BY <1>0, CancelSendable, TimerLike
    <2>2. OnNewReadRequest(c, r) = d
      BY <1>2 DEF OnNewReadRequest
    <2> HIDE DEF e
    <2>3. Good(d) /\ Gone(e, d) = {} /\ d.deferred = e.deferred
      BY <2>1, RespondToReadGood
    <2> HIDE DEF d
    <2> QED
      BY <2>1, <2>2, <2>3 DEF Kept, Like, SameRest, Gone, Ids
  <1>3. CASE c.state = "UnsolicitedConfirmWait"
    <2>1. OnNewReadRequest(c, r) = [c EXCEPT !.deferred = r]
      BY <1>3 DEF OnNewReadRequest
    <2> QED
      BY <1>0, <2>1, DeferGood DEF Kept, Plain
  <1> QED
    BY <1>0, <1>1, <1>2, <1>3 DEF States

\* A new request other than READ in each channel state.
LEMMA OnNewNonReadKept ==
    ASSUME NEW c, CInv(c), CanTransmit(c), Good(c), NEW r \in Requests
    PROVE  Kept(c, OnNewNonReadRequest(c, r))
  <1>0. Sendable(c) /\ IsContext(c) /\ c.state \in States
    BY CInvSendable DEF CInv, IsContext
  <1>1. CASE c.state = "Idle"
    <2> DEFINE d == RespondToNonReadRequest(c, r)
    <2>1. SameRest(c, d) /\ d.solTx = EmptyResponse(r)
      BY <1>0, RespondToNonReadGood
    <2>2. OnNewNonReadRequest(c, r) = d
      BY <1>1 DEF OnNewNonReadRequest
    <2> HIDE DEF d
    <2>3. Good(d)
      BY <1>1, <2>1, EmptyAsked, IdleGood DEF SameRest
    <2> QED
      BY <2>1, <2>2, <2>3 DEF Kept, SameRest, Gone, Ids
  <1>2. CASE c.state = "SolicitedConfirmWait"
    <2> DEFINE e == CancelConfirmTimer(c)
               x == RespondToNonReadRequest(e, r)
               d == [x EXCEPT !.state = "Idle"]
    <2>1. Sendable(e) /\ Like(c, e)
      BY <1>0, CancelSendable, TimerLike
    <2>2. OnNewNonReadRequest(c, r) = d
      BY <1>2 DEF OnNewNonReadRequest
    <2> HIDE DEF e
    <2>3. SameRest(e, x) /\ x.solTx = EmptyResponse(r) /\ DOMAIN x = DOMAIN InitialContext
      BY <2>1, RespondToNonReadGood, RespondToNonReadEffect, ContextDomain
    <2> HIDE DEF x
    <2>4. Good(d) /\ Gone(x, d) = {} /\ d.deferred = x.deferred
      BY <2>3, EmptyAsked, ToIdleGood
    <2> HIDE DEF d
    <2> QED
      BY <2>1, <2>2, <2>3, <2>4 DEF Kept, Like, SameRest, Gone, Ids
  <1>3. CASE c.state = "UnsolicitedConfirmWait"
    <2> DEFINE e == [c EXCEPT !.deferred = NoRequest]
               d == RespondToNonReadRequest(e, r)
    <2>1. CInv(e) /\ SameLink(c, e) /\ e.state = c.state
      BY DeferInv
    <2>2. Good(e) /\ Gone(c, e) = {} /\ e.deferred = NoRequest
      BY <1>0, DeferGood
    <2> HIDE DEF e
    <2>3. Sendable(e)
      BY <2>1, CInvSendable DEF SameLink, CanTransmit
    <2>4. SameRest(e, d) /\ d.unsolTx = e.unsolTx /\ d.solTx = EmptyResponse(r)
      BY <2>3, RespondToNonReadGood
    <2>5. OnNewNonReadRequest(c, r) = d
      BY <1>3 DEF OnNewNonReadRequest, e
    <2> HIDE DEF d
    <2>6. Carried(d)
      BY <1>3, <2>1, <2>2, <2>4 DEF Good, Carried, SameRest, IdsIn, Ids
    <2>7. Faithful(d)
      BY <1>3, <2>1, <2>4, EmptyAsked DEF Faithful, SameRest
    <2>8. Gone(c, d) = {} /\ Plain(d.deferred)
      BY <2>2, <2>4 DEF SameRest, Gone, Ids, Plain
    <2> QED
      BY <2>5, <2>6, <2>7, <2>8 DEF Kept, Good
  <1> QED
    BY <1>0, <1>1, <1>2, <1>3 DEF States

\* A repeated request in each channel state.
LEMMA OnRepeatKept ==
    ASSUME NEW c, CInv(c), CanTransmit(c), Good(c), NEW r \in Requests
    PROVE  /\ r.function = "READ" => Kept(c, OnRepeatReadRequest(c, r))
           /\ Kept(c, OnRepeatNonReadRequest(c))
  <1>0. IsContext(c) /\ c.state \in States
    BY DEF CInv, IsContext
  <1>1. ASSUME NEW e, IsContext(e), Like(c, e)
        PROVE  Kept(c, RepeatLastResponse(e))
    <2>1. Like(e, RepeatLastResponse(e))
      BY <1>1, RepeatLike
    <2>2. Like(c, RepeatLastResponse(e))
      BY <1>1, <2>1 DEF Like, SameRest
    <2> QED
      BY <2>2, LikeKept
  <1>2. Kept(c, RepeatLastResponse(c))
    <2>1. Like(c, c)
      BY DEF Like, SameRest
    <2> QED
      BY <1>0, <1>1, <2>1
  <1>3. Kept(c, RepeatLastResponse(RestartConfirmTimer(c)))
    BY <1>0, <1>1, RestartEffect, TimerLike
  <1>4. Kept(c, RepeatLastResponse(CancelConfirmTimer(c)))
    BY <1>0, <1>1, CancelEffect, TimerLike
  <1>5. Kept(c, OnRepeatNonReadRequest(c))
    BY <1>2, <1>4 DEF OnRepeatNonReadRequest
  <1>6. ASSUME r.function = "READ"
        PROVE  Kept(c, OnRepeatReadRequest(c, r))
    <2>1. Kept(c, [c EXCEPT !.deferred = r])
      BY <1>0, <1>6, DeferGood DEF Kept, Plain
    <2> QED
      BY <1>0, <1>2, <1>3, <2>1 DEF OnRepeatReadRequest, States
  <1> QED
    BY <1>5, <1>6

\* A confirm of the awaited fragment removes events of that fragment only; a confirm of
\* anything else removes none.
LEMMA OnSolicitedConfirmGood ==
    ASSUME NEW c, CInv(c), CanTransmit(c), Good(c), c.state = "SolicitedConfirmWait",
           NEW r \in Requests, r.function = "CONFIRM"
    PROVE  LET d == OnSolicitedConfirm(c, r)
           IN  Good(d) /\ Gone(c, d) \subseteq ConfirmedBy(c, r) /\ d.deferred = c.deferred
  <1> DEFINE b == ClearWritten(c.buffer)
             e == [c EXCEPT !.lastRequest = NoRequest, !.buffer = ClearWritten(@)]
             cleared == CancelConfirmTimer(e)
             f == SendFragment(cleared, Next1(r.seq), c.solTx.answers)
             g == [cleared EXCEPT !.state = "Idle"]
             d == OnSolicitedConfirm(c, r)
  <1>0. IsContext(c) /\ BufferInv(c.buffer) /\ IsBuffer(c.buffer)
    BY DEF CInv, BufferInv
  <1>1. BufferInv(b) /\ IsBuffer(b)
    BY <1>0, ClearWrittenInv DEF BufferInv
  <1>2. /\ Ids(c.buffer) \ Ids(b) = IdsIn(c.buffer, "written")
        /\ IdsIn(b, "written") = {}
        /\ IdsIn(b, "selected") \subseteq IdsIn(c.buffer, "selected")
        /\ \A i \in Ids(b) : b.events[i] = c.buffer.events[i]
    BY <1>0, ClearWrittenEvents
  <1>3. c.solTx.answers \in Requests \cup {NoRequest} /\ Next1(r.seq) \in Seqs
    <2>1. c.solTx \in ResponseType
      BY <1>0 DEF IsContext
    <2> QED
      BY <2>1, RequestFields, Next1Type DEF ResponseType
  <1>4. d # c => d \in {f, g} /\ ~r.uns /\ r.seq = c.solConfirmNum
    BY DEF OnSolicitedConfirm
  <1>5. e = [c EXCEPT !.lastRequest = NoRequest, !.buffer = b]
    OBVIOUS
  <1> HIDE DEF e, b, d
  <1>6. /\ IsContext(e) /\ SameLink(c, e) /\ e.buffer = b /\ e.lastRequest = NoRequest
        /\ e.static = c.static /\ e.deferred = c.deferred /\ e.solTx = c.solTx
    BY <1>0, <1>1, <1>5 DEF IsContext, SameLink
  <1>7. /\ IsContext(cleared) /\ SameLink(e, cleared) /\ SameSol(e, cleared)
        /\ cleared.buffer = e.buffer /\ Like(e, cleared)
    BY <1>6, CancelEffect, TimerLike
  <1> HIDE DEF cleared
  <1>8. Sendable(cleared)
    BY <1>1, <1>6, <1>7 DEF CInv, Sendable, CanTransmit, SameLink
  <1>9. IdsIn(cleared.buffer, "written") = {} /\ Gone(c, cleared) \subseteq c.solTx.events
        /\ cleared.deferred = c.deferred
    BY <1>2, <1>6, <1>7 DEF Good, Carried, Gone, Like, SameRest
  <1>10. ASSUME OctetPoints \cap StaticPoints = {}
         PROVE  Asked(cleared.solTx) /\ Remaining(cleared, c.solTx.answers)
    <2>1. Asked(c.solTx) /\ Remaining(c, c.solTx.answers)
      BY <1>10 DEF Good, Faithful
    <2>2. cleared.static = c.static /\ cleared.buffer = b /\ cleared.solTx = c.solTx
      BY <1>6, <1>7 DEF Like, SameRest
    <2>3. \A i \in IdsIn(b, "selected") : i \in Ids(b)
      BY DEF IdsIn
    <2> QED
      BY <1>2, <2>1, <2>2, <2>3 DEF Remaining
  <1>11. Good(f) /\ Gone(cleared, f) = {} /\ f.deferred = cleared.deferred
    BY <1>3, <1>8, <1>9, <1>10, SendFragmentGood
  <1>12. Good(g) /\ Gone(cleared, g) = {} /\ g.deferred = cleared.deferred
    BY <1>7, <1>10, ContextDomain, ToIdleGood
  <1> HIDE DEF f, g
  <1>13. ~r.uns /\ r.seq = c.solConfirmNum => c.solTx.events \subseteq ConfirmedBy(c, r)
    BY DEF CInv, Awaited, ConfirmedBy
  <1>14. Good(d) /\ Gone(c, d) \subseteq ConfirmedBy(c, r) /\ d.deferred = c.deferred
    BY <1>4, <1>9, <1>11, <1>12, <1>13 DEF Gone
  <1> QED
    BY <1>14 DEF d

\* A confirm of an unsolicited response removes the events it carried, if it had any.
LEMMA OnUnsolicitedConfirmGood ==
    ASSUME NEW c, CInv(c), Good(c), c.state = "UnsolicitedConfirmWait",
           NEW r \in Requests, r.function = "CONFIRM"
    PROVE  LET d == OnUnsolicitedConfirm(c, r)
           IN  Good(d) /\ Gone(c, d) \subseteq ConfirmedBy(c, r) /\ d.deferred = c.deferred
  <1> DEFINE b == IF c.completedNull THEN ClearWritten(c.buffer) ELSE c.buffer
             e == [c EXCEPT !.lastRequest = NoRequest, !.buffer = b,
                            !.completedNull = TRUE, !.state = "Idle"]
             x == CancelConfirmTimer(e)
             d == OnUnsolicitedConfirm(c, r)
  <1>0. IsContext(c) /\ BufferInv(c.buffer) /\ IsBuffer(c.buffer)
    BY DEF CInv, BufferInv
  <1>1. IsBuffer(b)
    BY <1>0, ClearWrittenInv DEF BufferInv
  <1>2. Ids(c.buffer) \ Ids(b) \subseteq c.unsolTx.events
    <2>1. Ids(c.buffer) \ Ids(ClearWritten(c.buffer)) = IdsIn(c.buffer, "written")
      BY <1>0, ClearWrittenEvents
    <2> QED
      BY <2>1 DEF Good, Carried
  <1>3. d # c => d = x /\ r.uns /\ r.seq = c.unsolConfirmNum
    BY DEF OnUnsolicitedConfirm
  <1> HIDE DEF b, d
  <1>4. /\ IsContext(e) /\ e.buffer = b /\ e.deferred = c.deferred /\ e.solTx = c.solTx
        /\ e.state = "Idle"
    BY <1>0, <1>1 DEF IsContext, States
  <1> HIDE DEF e
  <1>5. Like(e, x)
    BY <1>4, TimerLike
  <1> HIDE DEF x
  <1>6. Good(x)
    BY <1>4, <1>5, IdleGood DEF Like, SameRest, Good, Faithful
  <1>7. Gone(c, x) \subseteq c.unsolTx.events /\ x.deferred = c.deferred
    BY <1>2, <1>4, <1>5 DEF Like, SameRest, Gone, Ids
  <1>8. r.uns /\ r.seq = c.unsolConfirmNum => c.unsolTx.events \subseteq ConfirmedBy(c, r)
    BY DEF CInv, Awaited, ConfirmedBy
  <1> QED
    BY <1>3, <1>6, <1>7, <1>8 DEF d, Gone

\* A confirm in each channel state.
LEMMA ProcessConfirmGood ==
    ASSUME NEW c, CInv(c), CanTransmit(c), Good(c), NEW r \in Requests,
           r.function = "CONFIRM"
    PROVE  LET d == ProcessConfirm(c, r)
           IN  Good(d) /\ Gone(c, d) \subseteq ConfirmedBy(c, r) /\ d.deferred = c.deferred
  <1>0. c.state \in States
    BY DEF CInv, IsContext
  <1>1. CASE c.state = "Idle"
    BY <1>1 DEF ProcessConfirm, Gone
  <1>2. CASE c.state = "SolicitedConfirmWait"
    BY <1>2, OnSolicitedConfirmGood DEF ProcessConfirm
  <1>3. CASE c.state = "UnsolicitedConfirmWait"
    BY <1>3, OnUnsolicitedConfirmGood DEF ProcessConfirm
  <1> QED
    BY <1>0, <1>1, <1>2, <1>3 DEF States

\* A timeout returns to idle and removes nothing.
LEMMA OnConfirmTimeoutGood ==
    ASSUME NEW c, IsContext(c), BufferInv(c.buffer), Faithful(c)
    PROVE  LET d == OnConfirmTimeout(c)
           IN  Good(d) /\ Gone(c, d) = {} /\ d.deferred = c.deferred /\ SameLink(c, d)
  <1> DEFINE b == IF c.state = "UnsolicitedConfirmWait" /\ c.completedNull
                  THEN Unselect(c.buffer) ELSE c.buffer
             d == [c EXCEPT !.buffer = b, !.state = "Idle"]
  <1>1. Ids(b) = Ids(c.buffer)
    BY UnselectEvents DEF BufferInv
  <1>2. OnConfirmTimeout(c) = d
    BY DEF OnConfirmTimeout
  <1> HIDE DEF b
  <1>3. /\ d.buffer = b /\ d.state = "Idle" /\ d.solTx = c.solTx /\ d.deferred = c.deferred
        /\ SameLink(c, d)
    BY DEF IsContext, SameLink
  <1> HIDE DEF d
  <1>4. Good(d) /\ Gone(c, d) = {}
    BY <1>1, <1>3, IdleGood DEF Faithful, Gone
  <1> QED
    BY <1>2, <1>3, <1>4

-----------------------------------------------------------------------------
(***************************************************************************)
(* Dispatch, and the check that ends every handler.                        *)
(***************************************************************************)

\* A request that is served removes no event, and leaves at most a READ deferred.
LEMMA ProcessRequestKept ==
    ASSUME NEW c, CInv(c), CanTransmit(c), Good(c), NEW r \in Requests
    PROVE  Kept(c, ProcessRequest(c, r))
  <1> DEFINE n == [c EXCEPT !.solNum = r.seq]
             p == ProcessNewRequest(c, r)
  <1>1. CInv(n) /\ CanTransmit(n)
    BY RequestFields, NumberInv DEF SameLink, CanTransmit
  <1>2. Like(c, n)
    BY DEF CInv, IsContext, Like, SameRest
  <1>3. p = IF r.function = "READ" THEN OnNewReadRequest(n, r) ELSE OnNewNonReadRequest(n, r)
    BY DEF ProcessNewRequest
  <1> HIDE DEF n, p
  <1>4. Good(n) /\ Gone(c, n) = {} /\ n.deferred = c.deferred
    BY <1>2, LikeGood
  <1>5. Kept(n, p)
    BY <1>1, <1>3, <1>4, OnNewReadKept, OnNewNonReadKept
  <1>6. Kept(c, p)
    BY <1>2, <1>4, <1>5 DEF Kept, Gone
  <1>7. Kept(c, c)
    BY DEF Kept, Gone
  <1>8. \/ ProcessRequest(c, r) \in {c, p, OnRepeatNonReadRequest(c)}
        \/ r.function = "READ" /\ ProcessRequest(c, r) = OnRepeatReadRequest(c, r)
    BY DEF ProcessRequest, OnReceiveSolRequest, p
  <1> QED
    BY <1>6, <1>7, <1>8, OnRepeatKept

\* A received fragment. Only a confirm removes events, and when the channel is free
\* afterwards, no confirm is left for later.
LEMMA ProcessObjectsGood ==
    ASSUME NEW c, CInv(c), c.isOnline, Good(c), CanTransmit(c) => Plain(c.deferred),
           NEW r \in Requests
    PROVE  LET d == ProcessObjects(c, r)
           IN  /\ Good(d) /\ Gone(c, d) \subseteq ConfirmedBy(c, r)
               /\ CanTransmit(d) => Plain(d.deferred)
  <1>0. IsContext(c)
    BY DEF CInv
  <1>1. CASE r.function = "DIRECT_OPERATE_NR"
    BY <1>1 DEF ProcessObjects, Gone
  <1>2. CASE r.function # "DIRECT_OPERATE_NR" /\ c.isTransmitting
    <2> DEFINE d == [c EXCEPT !.deferred = r]
    <2>1. ProcessObjects(c, r) = d
      BY <1>2 DEF ProcessObjects
    <2>2. d.isTransmitting
      BY <1>0, <1>2 DEF IsContext
    <2>3. Good(d) /\ Gone(c, d) = {}
      BY <1>0, DeferGood
    <2> HIDE DEF d
    <2> QED
      BY <2>1, <2>2, <2>3 DEF CanTransmit
  <1>3. CASE ~c.isTransmitting /\ r.function = "CONFIRM"
    <2>1. ProcessObjects(c, r) = ProcessConfirm(c, r) /\ CanTransmit(c)
      BY <1>3 DEF ProcessObjects, CanTransmit
    <2> QED
      BY <1>3, <2>1, ProcessConfirmGood
  <1>4. CASE r.function \notin {"DIRECT_OPERATE_NR", "CONFIRM"} /\ ~c.isTransmitting
    <2>1. ProcessObjects(c, r) = ProcessRequest(c, r) /\ CanTransmit(c)
      BY <1>4 DEF ProcessObjects, CanTransmit
    <2>2. Kept(c, ProcessRequest(c, r))
      BY <2>1, ProcessRequestKept
    <2> QED
      BY <2>1, <2>2 DEF Kept
  <1> QED
    BY <1>1, <1>2, <1>3, <1>4

\* OContext::CheckForDeferredRequest serves what can be served. Events go only if it is
\* a confirm.
LEMMA CheckForDeferredGood ==
    ASSUME NEW c, CInv(c), Good(c)
    PROVE  LET d == CheckForDeferredRequest(c)
           IN  /\ Good(d) /\ Settled(d) /\ Gone(c, d) \subseteq ConfirmedBy(c, c.deferred)
               /\ (CanTransmit(c) => Plain(c.deferred)) => Gone(c, d) = {}
  <1> DEFINE r == c.deferred
             d == CheckForDeferredRequest(c)
  <1>1. CASE ~CanTransmit(c) \/ r = NoRequest
    <2>1. d = c
      BY <1>1 DEF CheckForDeferredRequest
    <2> HIDE DEF d
    <2>2. Good(d) /\ Settled(d) /\ Gone(c, d) = {}
      BY <1>1, <2>1 DEF Settled, Gone
    <2> QED
      BY <2>2 DEF d
  <1>2. CASE CanTransmit(c) /\ r # NoRequest /\ r.function = "CONFIRM"
    <2> DEFINE p == ProcessConfirm(c, r)
               e == [p EXCEPT !.deferred = NoRequest]
    <2>1. r \in Requests
      BY <1>2 DEF CInv, IsContext
    <2>2. CheckForDeferredRequest(c) = e
      BY <1>2 DEF CheckForDeferredRequest
    <2>3. CInv(p) /\ Good(p) /\ Gone(c, p) \subseteq ConfirmedBy(c, r)
      BY <1>2, <2>1, ProcessConfirmInv, ProcessConfirmGood
    <2> HIDE DEF p
    <2>4. Good(e) /\ Gone(p, e) = {} /\ e.deferred = NoRequest
      BY <2>3, DeferGood DEF CInv
    <2> HIDE DEF e
    <2>5. Gone(c, e) \subseteq ConfirmedBy(c, r) /\ Settled(e)
      BY <2>3, <2>4 DEF Gone, Settled
    <2>6. ~Plain(c.deferred)
      BY <1>2 DEF Plain
    <2> QED
      BY <1>2, <2>2, <2>4, <2>5, <2>6
  <1>3. CASE CanTransmit(c) /\ r # NoRequest /\ r.function = "READ" /\ c.state # "Idle"
    <2>1. d = c
      BY <1>3 DEF CheckForDeferredRequest
    <2> HIDE DEF d
    <2>2. Good(d) /\ Settled(d) /\ Gone(c, d) = {}
      BY <1>3, <2>1 DEF Settled, Gone
    <2> QED
      BY <2>2 DEF d
  <1>4. CASE /\ CanTransmit(c) /\ r # NoRequest /\ r.function # "CONFIRM"
             /\ ~(r.function = "READ" /\ c.state # "Idle")
    <2> DEFINE p == ProcessRequest(c, r)
               e == [p EXCEPT !.deferred = NoRequest]
    <2>1. r \in Requests
      BY <1>4 DEF CInv, IsContext
    <2>2. CheckForDeferredRequest(c) = e
      BY <1>4 DEF CheckForDeferredRequest
    <2>3. CInv(p) /\ Kept(c, p)
      BY <1>4, <2>1, ProcessRequestInv, ProcessRequestKept
    <2> HIDE DEF p
    <2>4. Good(e) /\ Gone(p, e) = {} /\ e.deferred = NoRequest
      BY <2>3, DeferGood DEF CInv, Kept
    <2> HIDE DEF e
    <2>5. Gone(c, e) = {} /\ Settled(e)
      BY <2>3, <2>4 DEF Gone, Kept, Settled
    <2> QED
      BY <2>2, <2>4, <2>5
  <1> QED
    BY <1>1, <1>2, <1>3, <1>4

\* An unsolicited response is on its way, and waits for the confirm of its events.
LEMMA SendUnsolicitedGood ==
    ASSUME NEW c, Sendable(c), Faithful(c), NEW loaded,
           c.completedNull => IdsIn(c.buffer, "written") \subseteq loaded
    PROVE  LET d == SendUnsolicited(c, loaded)
           IN  Good(d) /\ Gone(c, d) = {} /\ d.isTransmitting
  <1> DEFINE rsp == [seq |-> c.unsolNum, fir |-> TRUE, con |-> TRUE, events |-> loaded,
                     classes |-> {c.buffer.events[i].clazz : i \in loaded},
                     points |-> {}, answers |-> NoRequest]
             iin == GetResponseIIN(c)
             w   == RestartConfirmTimer(iin)
             e   == [w EXCEPT !.state = "UnsolicitedConfirmWait"]
             d   == BeginUnsolTx(e, rsp)
  <1>1. SendUnsolicited(c, loaded) = d
    BY DEF SendUnsolicited
  <1>2. rsp.events = loaded
    OBVIOUS
  <1> HIDE DEF rsp
  <1>3. IsContext(iin) /\ Like(c, iin)
    BY GetResponseIINEffect, IINLike DEF Sendable
  <1> HIDE DEF iin
  <1>4. IsContext(w) /\ Like(iin, w)
    BY <1>3, RestartEffect, TimerLike
  <1> HIDE DEF w
  <1>5. /\ IsContext(e) /\ e.state = "UnsolicitedConfirmWait" /\ e.solTx = w.solTx
        /\ e.completedNull = w.completedNull /\ e.buffer = w.buffer
    BY <1>4 DEF IsContext, States
  <1> HIDE DEF e
  <1>6. SameRest(e, d) /\ d.unsolTx = rsp /\ d.solTx = e.solTx
    BY <1>5, UnsolRest
  <1>7. d.isTransmitting
    <2>1. DOMAIN e = DOMAIN InitialContext
      BY <1>5, ContextDomain
    <2> QED
      BY <2>1 DEF BeginUnsolTx, BeginTx, InitialContext
  <1> HIDE DEF d
  <1>8. /\ d.state = "UnsolicitedConfirmWait" /\ d.solTx = c.solTx
        /\ d.completedNull = c.completedNull /\ d.buffer.events = c.buffer.events
    BY <1>3, <1>4, <1>5, <1>6 DEF Like, SameRest
  <1>9. Carried(d)
    BY <1>2, <1>6, <1>8 DEF Carried, IdsIn, Ids
  <1>10. Faithful(d) /\ Gone(c, d) = {}
    BY <1>8 DEF Faithful, Gone, Ids
  <1> QED
    BY <1>1, <1>7, <1>9, <1>10 DEF Good

\* OContext::CheckForUnsolicited reports what there is to report.
LEMMA CheckForUnsolicitedGood ==
    ASSUME NEW c, CInv(c), Good(c), Settled(c)
    PROVE  LET d == CheckForUnsolicited(c)
           IN  Good(d) /\ Settled(d) /\ Reported(d) /\ Gone(c, d) = {}
  <1> DEFINE u == Unselect(c.buffer)
             chosen == SelectByClass(u, c.unsolClassMask, Cardinality(Ids(c.buffer)))
             loaded == Loaded(chosen, FragmentSize)
             b == Load(chosen, FragmentSize)
             e == [c EXCEPT !.buffer = b]
             d == CheckForUnsolicited(c)
             free == CanTransmit(c) /\ c.state = "Idle" /\ allowUnsolicited
  <1>0. IsContext(c) /\ BufferInv(c.buffer) /\ IsBuffer(c.buffer)
    BY DEF CInv, BufferInv
  <1>1. CASE ~free
    <2>1. d = c
      BY <1>1 DEF CheckForUnsolicited
    <2> HIDE DEF d
    <2>2. Good(d) /\ Settled(d) /\ Reported(d) /\ Gone(c, d) = {}
      BY <1>1, <2>1 DEF Reported, Gone
    <2> QED
      BY <2>2 DEF d
  <1>2. CASE free /\ c.completedNull /\ c.unsolClassMask \cap UnwrittenClassField(c.buffer) = {}
    <2>1. d = c
      BY <1>2 DEF CheckForUnsolicited
    <2> HIDE DEF d
    <2>2. Good(d) /\ Settled(d) /\ Reported(d) /\ Gone(c, d) = {}
      BY <1>2, <2>1 DEF Reported, Gone
    <2> QED
      BY <2>2 DEF d
  <1>3. CASE free /\ ~c.completedNull
    <2>1. d = SendUnsolicited(c, {})
      BY <1>3 DEF CheckForUnsolicited
    <2> HIDE DEF d
    <2>2. Sendable(c) /\ Faithful(c)
      BY <1>3, CInvSendable DEF Good
    <2>3. Good(d) /\ Gone(c, d) = {} /\ d.isTransmitting
      BY <1>3, <2>1, <2>2, SendUnsolicitedGood
    <2>4. Settled(d) /\ Reported(d)
      BY <2>3 DEF Settled, Reported, CanTransmit
    <2> QED
      BY <2>3, <2>4 DEF d
  <1>4. CASE /\ free /\ c.completedNull
             /\ c.unsolClassMask \cap UnwrittenClassField(c.buffer) # {}
    <2>1. d = SendUnsolicited(e, loaded)
      BY <1>4 DEF CheckForUnsolicited
    <2> HIDE DEF d
    <2>2. BufferInv(u) /\ IsBuffer(u) /\ Ids(u) = Ids(c.buffer) /\ IdsIn(u, "written") = {}
      BY <1>0, UnselectInv, UnselectEvents DEF BufferInv
    <2> HIDE DEF u
    <2>3. /\ BufferInv(chosen) /\ IsBuffer(chosen) /\ Ids(chosen) = Ids(u)
          /\ IdsIn(chosen, "written") = {}
      BY <2>2, SelectByClassInv, SelectByClassEvents DEF BufferInv
    <2> HIDE DEF chosen
    <2>4. /\ BufferInv(b) /\ IsBuffer(b) /\ Ids(b) = Ids(chosen)
          /\ IdsIn(b, "written") \subseteq loaded
      BY <2>3, LoadInv, LoadEvents DEF BufferInv
    <2> HIDE DEF b, loaded
    <2>5. /\ IsContext(e) /\ SameLink(c, e) /\ e.buffer = b /\ e.solTx = c.solTx
          /\ e.state = "Idle"
      BY <1>0, <1>4, <2>4 DEF IsContext, SameLink
    <2> HIDE DEF e
    <2>6. Sendable(e)
      BY <1>4, <2>4, <2>5 DEF CInv, Sendable, CanTransmit, SameLink
    <2>7. Faithful(e)
      BY <2>5 DEF Good, Faithful
    <2>8. Good(d) /\ Gone(e, d) = {} /\ d.isTransmitting
      BY <2>1, <2>4, <2>5, <2>6, <2>7, SendUnsolicitedGood
    <2>9. Settled(d) /\ Reported(d) /\ Gone(c, d) = {}
      BY <2>2, <2>3, <2>4, <2>5, <2>8 DEF Settled, Reported, CanTransmit, Gone
    <2> QED
      BY <2>8, <2>9 DEF d
  <1> QED
    BY <1>1, <1>2, <1>3, <1>4

\* The check that ends every handler leaves nothing that could be started.
LEMMA CheckForTaskStartGood ==
    ASSUME NEW c, CInv(c), Good(c)
    PROVE  LET d == CheckForTaskStart(c)
           IN  /\ Good(d) /\ Settled(d) /\ Reported(d)
               /\ Gone(c, d) \subseteq ConfirmedBy(c, c.deferred)
               /\ (CanTransmit(c) => Plain(c.deferred)) => Gone(c, d) = {}
  <1> DEFINE e == CheckForDeferredRequest(c)
             d == CheckForUnsolicited(e)
  <1>1. /\ CInv(e) /\ Good(e) /\ Settled(e) /\ Gone(c, e) \subseteq ConfirmedBy(c, c.deferred)
        /\ (CanTransmit(c) => Plain(c.deferred)) => Gone(c, e) = {}
    BY CheckForDeferredInv, CheckForDeferredGood
  <1> HIDE DEF e
  <1>2. Good(d) /\ Settled(d) /\ Reported(d) /\ Gone(e, d) = {}
    BY <1>1, CheckForUnsolicitedGood
  <1> HIDE DEF d
  <1>3. Gone(c, d) \subseteq Gone(c, e)
    BY <1>2 DEF Gone
  <1> QED
    BY <1>1, <1>2, <1>3 DEF d, e, CheckForTaskStart

\* OContext::OnLowerLayerDown abandons every wait and keeps the events.
LEMMA LowerLayerDownGood ==
    ASSUME NEW c, CInv(c), Good(c)
    PROVE  LET d == LowerLayerDown(c)
           IN  Good(d) /\ Gone(c, d) = {} /\ ~d.isOnline
  <1> DEFINE b == Unselect(c.buffer)
             e == [c EXCEPT !.state = "Idle", !.isOnline = FALSE, !.isTransmitting = FALSE,
                            !.completedNull = FALSE, !.lastRequest = NoRequest,
                            !.deferred = NoRequest, !.firstFragment = TRUE, !.buffer = b]
             d == CancelConfirmTimer(e)
  <1>1. IsBuffer(b) /\ Ids(b) = Ids(c.buffer)
    BY UnselectInv, UnselectEvents DEF CInv, BufferInv
  <1>2. LowerLayerDown(c) = d
    BY DEF LowerLayerDown
  <1> HIDE DEF b
  <1>3. /\ IsContext(e) /\ e.state = "Idle" /\ ~e.isOnline /\ e.buffer = b
        /\ e.solTx = c.solTx
    BY <1>1 DEF CInv, IsContext, States
  <1> HIDE DEF e
  <1>4. Like(e, d) /\ SameLink(e, d)
    BY <1>3, TimerLike, CancelEffect
  <1> HIDE DEF d
  <1>5. Good(d)
    BY <1>3, <1>4, IdleGood DEF Like, SameRest, Good, Faithful
  <1>6. Gone(c, d) = {} /\ ~d.isOnline
    BY <1>1, <1>3, <1>4 DEF Like, SameRest, SameLink, Gone, Ids
  <1> QED
    BY <1>2, <1>5, <1>6

-----------------------------------------------------------------------------
(***************************************************************************)
(* The invariant of the specification.                                     *)
(***************************************************************************)

\* The inductive invariant: nothing is left behind but while updates are applied, and
\* no confirm is left even then.
EventsInv ==
    /\ Inv
    /\ Good(ctx)
    /\ Settled(ctx)
    /\ ~applying => Reported(ctx)

\* A step that touches neither the link nor what is reported.
LEMMA AsideKeeps ==
    ASSUME NEW c, NEW d, Like(c, d), SameLink(c, d), d.buffer = c.buffer,
           d.unsolClassMask = c.unsolClassMask, Good(c), Settled(c)
    PROVE  Good(d) /\ Settled(d) /\ (Reported(c) => Reported(d)) /\ Gone(c, d) = {}
  <1>1. Good(d) /\ Gone(c, d) = {}
    BY LikeGood
  <1>2. Settled(d)
    BY DEF Settled, Like, SameRest, SameLink, CanTransmit
  <1>3. Reported(c) => Reported(d)
    BY DEF Reported, Like, SameRest, SameLink, CanTransmit
  <1> QED
    BY <1>1, <1>2, <1>3

\* The constructed context has sent and selected nothing.
LEMMA EventsInit == Init => EventsInv
  <1> SUFFICES ASSUME Init PROVE EventsInv
    OBVIOUS
  <1>1. Inv
    BY InitInv
  <1>2. /\ ctx.state = "Idle" /\ ctx.solTx = NoResponse /\ ~ctx.isOnline
    BY DEF Init, InitialContext
  <1>3. Asked(NoResponse)
    BY DEF Asked, NoResponse
  <1>4. Good(ctx)
    BY <1>2, <1>3, IdleGood
  <1> QED
    BY <1>1, <1>2, <1>4 DEF EventsInv, Settled, Reported, CanTransmit

\* Every entry point keeps the invariant, and removes events only as it may.
LEMMA EventsNext == EventsInv /\ [Next]_vars => EventsInv' /\ [Removal]_vars
  <1> SUFFICES ASSUME EventsInv, [Next]_vars PROVE EventsInv' /\ [Removal]_vars
    OBVIOUS
  <1>0. /\ CInv(ctx) /\ IsContext(ctx) /\ applying \in BOOLEAN
        /\ Good(ctx) /\ Settled(ctx) /\ (~applying => Reported(ctx))
        /\ BufferInv(ctx.buffer)
    BY DEF EventsInv, Inv, CInv
  <1>i. Inv'
    BY NextInv DEF EventsInv
  <1>p. CanTransmit(ctx) => Plain(ctx.deferred)
    BY <1>0 DEF Settled, Plain
  <1>e. ASSUME Good(ctx'), Settled(ctx'), ~applying' => Reported(ctx'),
               Gone(ctx, ctx') = {}
        PROVE  EventsInv' /\ [Removal]_vars
    BY <1>i, <1>e DEF EventsInv, Removal, Gone
  <1>a. ASSUME Like(ctx, ctx'), SameLink(ctx, ctx'), ctx'.buffer = ctx.buffer,
               ctx'.unsolClassMask = ctx.unsolClassMask, applying' = applying
        PROVE  EventsInv' /\ [Removal]_vars
    BY <1>0, <1>e, <1>a, AsideKeeps
  <1>1. CASE OnLowerLayerUp
    <2> DEFINE e == [ctx EXCEPT !.isOnline = TRUE]
    <2>1. /\ IsContext(e) /\ e.isOnline /\ SameWait(ctx, e) /\ SameSol(ctx, e)
          /\ SameUnsol(ctx, e) /\ e.overlapped = ctx.overlapped /\ e.buffer = ctx.buffer
          /\ Like(ctx, e)
      BY <1>0 DEF IsContext, SameWait, SameSol, SameUnsol, Like, SameRest
    <2>2. ctx' = CheckForTaskStart(e) /\ applying' = applying /\ ~ctx.isOnline
      BY <1>1 DEF OnLowerLayerUp, Handler
    <2> HIDE DEF e
    <2>3. CInv(e)
      BY <1>0, <2>1 DEF CInv, Timed, Answered, WaitsForRead, Awaited, SameWait, SameSol,
                        SameUnsol
    <2>4. Good(e) /\ Gone(ctx, e) = {}
      BY <1>0, <2>1, LikeGood
    <2>5. ConfirmedBy(e, e.deferred) = {}
      BY <1>0, <2>1, <2>2 DEF CInv, Timed, SameWait, ConfirmedBy
    <2>6. /\ Good(ctx') /\ Settled(ctx') /\ Reported(ctx')
          /\ Gone(e, ctx') \subseteq ConfirmedBy(e, e.deferred)
      BY <2>2, <2>3, <2>4, CheckForTaskStartGood
    <2> QED
      BY <1>e, <2>4, <2>5, <2>6 DEF Gone
  <1>2. CASE OnLowerLayerDown
    <2>1. ctx' = LowerLayerDown(ctx)
      BY <1>2 DEF OnLowerLayerDown
    <2>2. Good(ctx') /\ Gone(ctx, ctx') = {} /\ ~ctx'.isOnline
      BY <1>0, <2>1, LowerLayerDownGood
    <2> QED
      BY <1>e, <2>2 DEF Settled, Reported, CanTransmit
  <1>3. CASE OnTxReady
    <2> DEFINE e == [ctx EXCEPT !.isTransmitting = FALSE]
    <2>1. /\ IsContext(e) /\ ~e.isTransmitting /\ e.isOnline = ctx.isOnline
          /\ SameWait(ctx, e) /\ SameSol(ctx, e) /\ Like(ctx, e)
          /\ SameUnsol(ctx, e) /\ e.overlapped = ctx.overlapped /\ e.buffer = ctx.buffer
      BY <1>0 DEF IsContext, SameWait, SameSol, SameUnsol, Like, SameRest
    <2>2. ctx' = CheckForTaskStart(e)
      BY <1>3 DEF OnTxReady
    <2> HIDE DEF e
    <2>3. CInv(e)
      BY <1>0, <2>1 DEF CInv, Timed, Answered, WaitsForRead, Awaited, SameWait, SameSol,
                        SameUnsol
    <2>4. Good(e) /\ Gone(ctx, e) = {}
      BY <1>0, <2>1, LikeGood
    <2>5. ConfirmedBy(e, e.deferred) = ConfirmedBy(ctx, ctx.deferred)
      BY <2>1 DEF Like, SameRest, ConfirmedBy
    <2>6. /\ Good(ctx') /\ Settled(ctx') /\ Reported(ctx')
          /\ Gone(e, ctx') \subseteq ConfirmedBy(e, e.deferred)
          /\ e.deferred = NoRequest => Gone(e, ctx') = {}
      BY <2>2, <2>3, <2>4, CheckForTaskStartGood DEF Plain
    <2>7. ASSUME NEW i \in Ids(ctx.buffer) \ Ids(ctx'.buffer)
          PROVE  ctx.deferred # NoRequest /\ i \in ConfirmedBy(ctx, ctx.deferred)
      BY <2>1, <2>5, <2>6 DEF Gone, Like, SameRest
    <2>8. Removal
      BY <1>3, <2>7 DEF Removal
    <2> QED
      BY <1>i, <2>6, <2>8 DEF EventsInv
  <1>4. ASSUME NEW r \in Requests, OnReceive(r)
        PROVE  EventsInv' /\ [Removal]_vars
    <2> DEFINE e == ProcessObjects(ctx, r)
    <2>1. ctx.isOnline /\ ctx' = CheckForTaskStart(e)
      BY <1>4 DEF OnReceive
    <2>2. CInv(e) /\ Good(e) /\ Gone(ctx, e) \subseteq ConfirmedBy(ctx, r)
          /\ (CanTransmit(e) => Plain(e.deferred))
      BY <1>0, <1>p, <2>1, ProcessObjectsInv, ProcessObjectsGood
    <2> HIDE DEF e
    <2>3. Good(ctx') /\ Settled(ctx') /\ Reported(ctx') /\ Gone(e, ctx') = {}
      BY <2>1, <2>2, CheckForTaskStartGood
    <2>4. \A i \in Ids(ctx.buffer) \ Ids(ctx'.buffer) : i \in ConfirmedBy(ctx, r)
      BY <2>2, <2>3 DEF Gone
    <2>5. Removal
      BY <1>4, <2>4 DEF Removal
    <2> QED
      BY <1>i, <2>3, <2>5 DEF EventsInv
  <1>5. CASE TimerExpires
    <2>1. ctx' = [ctx EXCEPT !.confirmTimer = "expired"] /\ applying' = applying
      BY <1>5 DEF TimerExpires
    <2> QED
      BY <1>0, <1>a, <2>1 DEF IsContext, Like, SameRest, SameLink
  <1>6. ASSUME NEW n \in Nat,
               ctx' = CheckForTaskStart(OnConfirmTimeout(
                        [ctx EXCEPT !.confirmTimer = "none", !.orphans = n]))
        PROVE  EventsInv' /\ [Removal]_vars
    <2> DEFINE e == [ctx EXCEPT !.confirmTimer = "none", !.orphans = n]
               d == OnConfirmTimeout(e)
    <2>1. /\ IsContext(e) /\ SameLink(ctx, e) /\ SameSol(ctx, e) /\ e.buffer = ctx.buffer
          /\ Like(ctx, e)
      BY <1>0 DEF IsContext, TimerStates, SameLink, SameSol, Like, SameRest
    <2>2. ctx' = CheckForTaskStart(d)
      BY <1>6
    <2> HIDE DEF e
    <2>3. CoreInv(e) /\ Good(e) /\ Gone(ctx, e) = {} /\ e.deferred = ctx.deferred
      BY <1>0, <2>1, LikeGood DEF CInv, CoreInv, Answered, SameLink, SameSol
    <2>4. /\ CInv(d) /\ Good(d) /\ Gone(e, d) = {} /\ d.deferred = e.deferred
          /\ SameLink(e, d)
      BY <2>3, OnConfirmTimeoutInv, OnConfirmTimeoutGood DEF CoreInv, Good
    <2> HIDE DEF d
    <2>5. CanTransmit(d) => Plain(d.deferred)
      BY <1>p, <2>1, <2>3, <2>4 DEF SameLink, CanTransmit
    <2>6. Good(ctx') /\ Settled(ctx') /\ Reported(ctx') /\ Gone(d, ctx') = {}
      BY <2>2, <2>4, <2>5, CheckForTaskStartGood
    <2> QED
      BY <1>e, <2>3, <2>4, <2>6 DEF Gone
  <1>7. CASE ConfirmTimeout
    <2>1. ctx.orphans \in Nat
      BY <1>0 DEF IsContext
    <2>2. [ctx EXCEPT !.confirmTimer = "none"] =
            [ctx EXCEPT !.confirmTimer = "none", !.orphans = ctx.orphans]
      BY <1>0 DEF IsContext
    <2>3. ctx' = CheckForTaskStart(OnConfirmTimeout([ctx EXCEPT !.confirmTimer = "none"]))
      BY <1>7 DEF ConfirmTimeout
    <2> QED
      BY <1>6, <2>1, <2>2, <2>3
  <1>8. CASE OrphanTimeout
    <2> DEFINE n == IF ctx.confirmTimer = "none" THEN ctx.orphans - 1 ELSE ctx.orphans
    <2>1. n \in Nat
      <3>1. ctx.orphans \in Nat /\ ctx.orphans > 0
        BY <1>0, <1>8 DEF IsContext, OrphanTimeout
      <3> QED
        BY <3>1
    <2>2. ctx' = CheckForTaskStart(OnConfirmTimeout(
                   [ctx EXCEPT !.confirmTimer = "none", !.orphans = n]))
      BY <1>8 DEF OrphanTimeout
    <2> HIDE DEF n
    <2> QED
      BY <1>6, <2>1, <2>2
  <1>9. CASE SelectExpires
    <2> DEFINE x == [ctx.control EXCEPT !.valid = FALSE]
    <2>1. ctx' = [ctx EXCEPT !.control = x] /\ applying' = applying
      BY <1>9 DEF SelectExpires
    <2> HIDE DEF x
    <2> QED
      BY <1>0, <1>a, <2>1 DEF IsContext, Like, SameRest, SameLink
  <1>10. CASE SetRestartIIN
    <2>1. ctx' = [ctx EXCEPT !.deviceRestart = TRUE] /\ applying' = applying
      BY <1>10 DEF SetRestartIIN, Handler
    <2> QED
      BY <1>0, <1>a, <2>1 DEF IsContext, Like, SameRest, SameLink
  <1>11. ASSUME NEW t \in Types, NEW k \in Classes, NEW v \in Variations, RecordEvent(t, k, v)
         PROVE  EventsInv' /\ [Removal]_vars
    <2> DEFINE b == Update(ctx.buffer, t, k, v)
    <2>1. ctx' = [ctx EXCEPT !.buffer = b] /\ applying' = TRUE
      BY <1>11 DEF RecordEvent
    <2>2. /\ IdsIn(b, "written") \subseteq IdsIn(ctx.buffer, "written")
          /\ IdsIn(b, "selected") \subseteq IdsIn(ctx.buffer, "selected")
          /\ \A i \in Ids(ctx.buffer) \cap Ids(b) : b.events[i] = ctx.buffer.events[i]
          /\ \A i \in Ids(ctx.buffer) \ Ids(b) :
               /\ IsFull(ctx.buffer, t) /\ i \in IdsOf(ctx.buffer, t)
               /\ \A j \in IdsOf(ctx.buffer, t) : i <= j
      BY <1>0, UpdateEvents
    <2> HIDE DEF b
    <2>3. /\ ctx'.buffer = b /\ ctx'.state = ctx.state /\ ctx'.static = ctx.static
          /\ ctx'.completedNull = ctx.completedNull /\ ctx'.deferred = ctx.deferred
          /\ ctx'.solTx = ctx.solTx /\ ctx'.unsolTx = ctx.unsolTx /\ SameLink(ctx, ctx')
      BY <1>0, <2>1 DEF IsContext, SameLink
    <2>4. Removal
      BY <1>11, <2>2, <2>3 DEF Removal
    <2>5. Carried(ctx')
      BY <1>0, <2>2, <2>3 DEF Good, Carried
    <2>6. ASSUME NEW q, Remaining(ctx, q) PROVE Remaining(ctx', q)
      <3>1. ASSUME NEW i \in IdsIn(b, "selected")
            PROVE  i \in IdsIn(ctx.buffer, "selected") /\ b.events[i] = ctx.buffer.events[i]
        BY <2>2, <3>1 DEF IdsIn
      <3> QED
        BY <2>3, <2>6, <3>1 DEF Remaining
    <2>7. Faithful(ctx')
      BY <1>0, <2>3, <2>6 DEF Good, Faithful
    <2>8. Settled(ctx')
      BY <1>0, <2>3 DEF Settled, CanTransmit, SameLink
    <2> QED
      BY <1>i, <2>1, <2>4, <2>5, <2>7, <2>8 DEF EventsInv, Good
  <1>12. CASE EndTransaction
    <2>1. ctx' = CheckForTaskStart(ctx)
      BY <1>12 DEF EndTransaction
    <2> QED
      BY <1>0, <1>e, <1>p, <2>1, CheckForTaskStartGood
  <1>13. CASE UNCHANGED vars
    BY <1>0, <1>i, <1>13 DEF vars, EventsInv
  <1> QED
    BY <1>1, <1>2, <1>3, <1>4, <1>5, <1>7, <1>8, <1>9, <1>10, <1>11, <1>12, <1>13 DEF Next

\* The invariant holds in every reachable state.
LEMMA EventsAlways == Spec => []EventsInv
  BY EventsInit, EventsNext, PTL DEF Spec

\* The events that a confirm would delete are among those of the awaited fragment, for
\* any requests, capacities and fragment sizes: no order of updates that overflow the
\* buffer, abandoned reads, timeouts and NULL responses leaves other events written.
THEOREM WrittenAreInFragment == Spec => []WrittenInFragment
  <1>1. EventsInv => WrittenInFragment
    BY DEF EventsInv, Good, Carried, WrittenInFragment
  <1> QED
    BY <1>1, EventsAlways, PTL

\* Only the step that serves the confirm, of the right kind and number, of the awaited
\* fragment deletes events, and only events of that fragment; nothing else but the
\* arrival of an event of a full type deletes any, and then its oldest.
THEOREM EventsRemovedOnlyIfConfirmed == Spec => RemovedOnlyIfConfirmed
  BY EventsInit, EventsNext, PTL DEF Spec, RemovedOnlyIfConfirmed

\* One pass of CheckForTaskStart at the end of every handler is enough: when the channel
\* is free there is no deferred request that could be served, no NULL response due and
\* no event of an enabled class to report.
THEOREM NothingIsLeftPending == Spec => []NothingLeftPending
  <1>1. EventsInv => NothingLeftPending
    BY DEF EventsInv, Settled, Reported, NothingLeftPending
  <1> QED
    BY <1>1, EventsAlways, PTL

\* If no static point is an octet string, a response holds only points and classes that
\* its request asked for, over all fragments and whatever reads were abandoned before.
\* (Octet strings are not deselected, as outstation_octets shows.)
THEOREM ResponsesAnswerOnlyTheRequest ==
    ASSUME OctetPoints \cap StaticPoints = {}
    PROVE  Spec => []AnswersOnlyTheRequest
  <1>1. EventsInv => AnswersOnlyTheRequest
    BY DEF EventsInv, Good, Faithful, Asked, AnswersOnlyTheRequest
  <1> QED
    BY <1>1, EventsAlways, PTL
=============================================================================
