------------------------------- MODULE Framing -------------------------------
(***************************************************************************)
(* From messages to bytes and back: segments (TransportTx, TransportRx),   *)
(* frames (LinkFrame) and the parser that finds frames in what was read    *)
(* (LinkLayerParser on a ShiftableBuffer).                                 *)
(*                                                                         *)
(* A byte stands for a few bytes of the code: the header is two start      *)
(* bytes, one byte of fields and one of CRC.  A CRC knows what it was      *)
(* computed of.  Any byte may occur anywhere, in user data too.            *)
(***************************************************************************)
EXTENDS Integers, Sequences, FiniteSets, FiniteSetsExt

CONSTANTS
    BlockSize,          \* LPDU_DATA_BLOCK_SIZE
    MaxUserData,        \* LPDU_MAX_USER_DATA_SIZE
    MaxSegment,         \* MAX_TPDU_PAYLOAD
    SegmentModulus,     \* 64 in TransportSeqNum
    maxRxFragSize       \* size of the transport layer's receive buffer

ASSUME FramingAssumption ==
    /\ {BlockSize, MaxUserData, MaxSegment, SegmentModulus, maxRxFragSize} \subseteq Nat \ {0}
    /\ MaxSegment < MaxUserData

Start == <<[k |-> "0x05"], [k |-> "0x64"]>>

CRC(bytes) == [k |-> "crc", of |-> bytes]

HeaderSize == 4

\* The fields of a LinkHeader; len counts the bytes of user data.
Fields(prm, func, fcb, fcv, len, dest, src) ==
    [k |-> "fields", prm |-> prm, func |-> func, fcb |-> fcb, fcv |-> fcv, len |-> len,
     dest |-> dest, src |-> src]

CalcUserDataSize(len) ==
    LET blocks == (len \div BlockSize) * (BlockSize + 1)
    IN  IF len % BlockSize > 0 THEN blocks + (len % BlockSize) + 1 ELSE blocks

CalcFrameSize(len) == HeaderSize + CalcUserDataSize(len)

\* Mutant: no room for the CRC of the last block
BufferSize_Short == CalcFrameSize(MaxUserData) - 1

BufferSize == CalcFrameSize(MaxUserData)

-----------------------------------------------------------------------------
(***************************************************************************)
(* Transmission                                                            *)
(***************************************************************************)

FormatHeader(fields) == Start \o <<fields, CRC(Append(Start, fields))>>

\* The position of the n-th byte of user data among the blocks with their CRCs.
InBlocks(n) == n + (n - 1) \div BlockSize

\* The block that ends with the CRC at a position.
BlockBefore(body, position) ==
    LET n == (position - 1) % (BlockSize + 1) IN SubSeq(body, position - n, position - 1)

WriteUserData(data) ==
    LET block(p) == SubSeq(data, ((p - 1) \div (BlockSize + 1)) * BlockSize + 1,
                           Min({Len(data), ((p - 1) \div (BlockSize + 1) + 1) * BlockSize}))
        last == CalcUserDataSize(Len(data))
    IN  [p \in 1..last |->
            IF p = last \/ p % (BlockSize + 1) = 0 THEN CRC(block(p))
            ELSE data[p - (p - 1) \div (BlockSize + 1)]]

FormatUnconfirmedUserData(dest, src, data) ==
    FormatHeader(Fields(TRUE, "UNCONFIRMED_USER_DATA", FALSE, FALSE, Len(data), dest, src))
        \o WriteUserData(data)

TransportHeader(fir, fin, seq) == [k |-> "tpdu", fir |-> fir, fin |-> fin, seq |-> seq]

SegmentCount(message) == (Len(message) + MaxSegment - 1) \div MaxSegment

\* GetSegment and Advance: the segments of a message when seq is the transmitter's
\* sequence number.
Segments(message, seq) ==
    [i \in 1..SegmentCount(message) |->
        <<TransportHeader(i = 1, i = SegmentCount(message), (seq + i - 1) % SegmentModulus)>>
            \o SubSeq(message, (i - 1) * MaxSegment + 1, Min({Len(message), i * MaxSegment}))]

-----------------------------------------------------------------------------
(***************************************************************************)
(* LinkLayerParser. buffer holds what was written and not yet shifted out, *)
(* frames collects what is pushed to the sink while OnRead is running.     *)
(***************************************************************************)

InitialParser == [state |-> "FindSync", frameSize |-> 0, header |-> <<>>, buffer |-> <<>>,
                  readPos |-> 0, userData |-> <<>>, frames |-> <<>>]

NumBytesRead(p) == Len(p.buffer) - p.readPos

NumWriteBytes(p) == BufferSize - Len(p.buffer)

\* The n-th byte that was not read
Unread(p, n) == p.buffer[p.readPos + n]

\* Mutant: all of the bad frame is skipped.
FailFrame_SkipsAll(p) ==
    [p EXCEPT !.readPos = IF p.state = "ReadBody" THEN @ + p.frameSize ELSE @ + HeaderSize,
              !.state = "FindSync"]

FailFrame(p) == [p EXCEPT !.readPos = @ + 1, !.state = "FindSync"]

\* The first of the unread bytes that start a frame, as far as two bytes can tell
ParseSync(p) ==
    LET starts == {r \in p.readPos..(Len(p.buffer) - 2) : SubSeq(p.buffer, r + 1, r + 2) = Start}
    IN  IF NumBytesRead(p) < HeaderSize THEN p
        ELSE IF starts = {} THEN [p EXCEPT !.readPos = Len(p.buffer) - 1]
        ELSE [p EXCEPT !.readPos = Min(starts), !.state = "ReadHeader"]

PriFunctions == {"RESET_LINK_STATES", "UNCONFIRMED_USER_DATA", "REQUEST_LINK_STATUS",
                 "TEST_LINK_STATES", "CONFIRMED_USER_DATA"}
SecFunctions == {"ACK", "NACK", "LINK_STATUS", "NOT_SUPPORTED"}

ValidateFunctionCode(f) ==
    IF f.prm
    THEN /\ f.func \in PriFunctions
         /\ f.fcv <=> f.func \in {"TEST_LINK_STATES", "CONFIRMED_USER_DATA"}
    ELSE f.func \in SecFunctions /\ ~f.fcb

ValidateHeaderParameters(f) ==
    /\ f.len \in 0..MaxUserData
    /\ ValidateFunctionCode(f)
    /\ f.len > 0 <=> f.func \in {"CONFIRMED_USER_DATA", "UNCONFIRMED_USER_DATA"}

\* Do four bytes make a header?
ReadHeader(bytes) ==
    /\ bytes[3].k = "fields"
    /\ bytes[4] = CRC(SubSeq(bytes, 1, 3))
    /\ ValidateHeaderParameters(bytes[3])

ParseHeader(p) ==
    IF NumBytesRead(p) < HeaderSize THEN p
    ELSE IF ~ReadHeader(SubSeq(p.buffer, p.readPos + 1, p.readPos + HeaderSize)) THEN FailFrame(p)
    ELSE [p EXCEPT !.header = Unread(p, 3), !.frameSize = CalcFrameSize(Unread(p, 3).len),
                   !.state = "ReadBody"]

ValidateBodyCRC(body) ==
    \A c \in 1..Len(body) :
        (c = Len(body) \/ c % (BlockSize + 1) = 0) => body[c] = CRC(BlockBefore(body, c))

ReadUserData(body, len) == [n \in 1..len |-> body[InBlocks(n)]]

\* The user data is moved to the start of the buffer that it is read from.
TransferUserData(p, data) ==
    [p EXCEPT !.buffer = [i \in DOMAIN @ |-> IF i <= Len(data) THEN data[i] ELSE @[i]],
              !.userData = data]

ParseBody(p) ==
    LET body == SubSeq(p.buffer, p.readPos + HeaderSize + 1, p.readPos + p.frameSize)
    IN  IF NumBytesRead(p) < p.frameSize THEN p
        ELSE IF ~ValidateBodyCRC(body) THEN FailFrame(p)
        ELSE [TransferUserData(p, ReadUserData(body, p.header.len)) EXCEPT !.state = "Complete"]

PushFrame(p) ==
    [p EXCEPT !.frames = Append(@, [header |-> p.header, data |-> p.userData]),
              !.readPos = @ + p.frameSize, !.state = "FindSync"]

ParseOneStep(p) ==
    CASE p.state = "FindSync" -> ParseSync(p)
      [] p.state = "ReadHeader" -> ParseHeader(p)
      [] p.state = "ReadBody" -> ParseBody(p)
      [] p.state = "Complete" -> PushFrame(p)

\* The parser as it is when nothing can be parsed any more. Every step but the last
\* reads a byte or goes from one state to the next.
ParseUntilComplete(p) ==
    LET last == 4 * (BufferSize + 1)
        after[n \in 0..last] == ParseOneStep(IF n = 0 THEN p ELSE after[n - 1])
    IN  after[last]

\* Mutant: the read position is not set back.
Shift_KeepsReadPos(p) == [p EXCEPT !.buffer = SubSeq(@, p.readPos + 1, Len(@))]

\* What does not matter from one read to the next is dropped.
Shift(p) ==
    [p EXCEPT !.buffer = SubSeq(@, p.readPos + 1, Len(@)), !.readPos = 0, !.userData = <<>>,
              !.header = IF p.state = "ReadBody" THEN @ ELSE <<>>,
              !.frameSize = IF p.state = "ReadBody" THEN @ ELSE 0]

OnRead(p, bytes) ==
    Shift(ParseUntilComplete([p EXCEPT !.buffer = @ \o bytes, !.frames = <<>>]))

-----------------------------------------------------------------------------
(***************************************************************************)
(* TransportRx                                                             *)
(***************************************************************************)

InitialRx == [buffer |-> <<>>, expectedSeq |-> 0, lastSource |-> "none", message |-> <<>>]

\* Mutant: the expected sequence number does not wrap.
ProcessReceive_NoWrap(rx, source, segment) ==
    LET header == Head(segment)
        payload == Tail(segment)
        kept == IF header.fir THEN <<>> ELSE rx.buffer
        isNext == /\ rx.buffer # <<>>
                  /\ header.seq = rx.expectedSeq
                  /\ source = rx.lastSource
        none == [rx EXCEPT !.message = <<>>]
    IN  IF ~header.fir /\ ~isNext THEN none
        ELSE IF Len(kept) + Len(payload) > maxRxFragSize THEN InitialRx
        ELSE IF header.fin THEN [InitialRx EXCEPT !.message = kept \o payload]
        ELSE [buffer |-> kept \o payload, lastSource |-> source, message |-> <<>>,
              expectedSeq |-> header.seq + 1]

\* What is left of the receiver after a segment: message is the message that it
\* completes, or empty. The sequence number matters only while there are bytes.
ProcessReceive(rx, source, segment) ==
    LET header == Head(segment)
        payload == Tail(segment)
        kept == IF header.fir THEN <<>> ELSE rx.buffer
        isNext == /\ rx.buffer # <<>>
                  /\ header.seq = rx.expectedSeq
                  /\ source = rx.lastSource
        none == [rx EXCEPT !.message = <<>>]
    IN  IF ~header.fir /\ ~isNext THEN none
        ELSE IF Len(kept) + Len(payload) > maxRxFragSize THEN InitialRx
        ELSE IF header.fin THEN [InitialRx EXCEPT !.message = kept \o payload]
        ELSE [buffer |-> kept \o payload, lastSource |-> source, message |-> <<>>,
              expectedSeq |-> (header.seq + 1) % SegmentModulus]
=============================================================================
