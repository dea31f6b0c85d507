------------------------------ MODULE MCChannel ------------------------------
(***************************************************************************)
(* Instances of Channel.                                                   *)
(***************************************************************************)
EXTENDS Channel

S == INSTANCE SequencesExt

\* The n-th byte of a message that is sent on a connection
Byte(life, message, n) == [k |-> "byte", life |-> life, message |-> message, n |-> n]

Message(life, id, length) == [n \in 1..length |-> Byte(life, id, n)]

Frame(to, segment) == FormatUnconfirmedUserData(to, "peer", segment)

Request == FormatHeader(Fields(TRUE, "REQUEST_LINK_STATUS", FALSE, FALSE, 0, "s", "peer"))

\* A stream is made of pieces: a frame of a message, or other bytes, with no message.
\* numbers has the number of the segment, if it is a frame.
Piece(to, message, seq, numbers, bytes) ==
    [to |-> to, message |-> message, seq |-> seq, numbers |-> numbers, bytes |-> bytes]

Other(numbers, bytes) == Piece("nobody", <<>>, 0, numbers, bytes)

Bytes(pieces) == S!FlattenSeq([i \in DOMAIN pieces |-> pieces[i].bytes])

\* Where the messages are in the stream: the frames of a message are the pieces with it.
Sent(pieces) ==
    LET at(i) == Len(Bytes(SubSeq(pieces, 1, i)))
        firsts == {i \in DOMAIN pieces : /\ pieces[i].message # <<>>
                                        /\ \A j \in 1..(i - 1) : pieces[j].message # pieces[i].message}
        lastOf(i) == Max({j \in DOMAIN pieces : pieces[j].message = pieces[i].message})
    IN  [n \in 1..Cardinality(firsts) |->
            LET i == CHOOSE i \in firsts : Cardinality({j \in firsts : j <= i}) = n
            IN  [to |-> pieces[i].to, message |-> pieces[i].message, seq |-> pieces[i].seq,
                 first |-> at(i - 1) + 1, last |-> at(lastOf(i))]]

MCStreamOf(name, life) ==
    LET long == Message(life, 1, 3)
        short == Message(life, 2, 1)
        more == Message(life, 3, 3)
        p(to, message, seq, i) ==
            Piece(to, message, seq, <<seq + i>>, Frame(to, Segments(message, seq)[i]))
        damaged(piece, i) ==
            [piece EXCEPT !.bytes = [@ EXCEPT ![i] = [k |-> "noise"]], !.numbers = <<>>]
        pieces ==
            CASE name = "none" -> <<>>
              [] name = "clean" ->
                    <<p("s", long, 1, 1), p("t", short, 0, 1), p("s", long, 1, 2),
                      p("s", more, 3, 1), Other(<<0>>, Request), p("s", more, 3, 2)>>
              [] name = "damaged" ->
                    <<p("s", long, 1, 1), damaged(p("s", long, 1, 2), 6),
                      Other(<<>>, <<Start[1]>>), p("s", more, 3, 1),
                      Other(<<>>, SubSeq(p("s", more, 3, 1).bytes, 1, 5)), p("s", more, 3, 2),
                      Other(<<>>, damaged(p("s", long, 1, 1), 3).bytes), p("s", short, 5, 1)>>
    IN  [bytes |-> Bytes(pieces), sent |-> Sent(pieces), clean |-> name \in {"none", "clean"},
         number |-> S!FlattenSeq([i \in DOMAIN pieces |-> pieces[i].numbers])]

Sc(kind, closeExisting, removes, fails, used, streams, queue, stale, late, accepts) ==
    [kind |-> kind, closeExisting |-> closeExisting, removes |-> removes, fails |-> fails,
     used |-> used, streams |-> streams,
     MaxQueue |-> queue, MaxStale |-> stale, MaxLate |-> late,
     MaxAccepts |-> accepts]

MCScenarios ==
    {Sc("client", FALSE, TRUE, FALSE, {"s", "t"}, {"none"}, 1, 1, 1, 0),
     Sc("serial", FALSE, TRUE, FALSE, {"s", "t"}, {"none"}, 1, 0, 1, 0),
     Sc("server", FALSE, TRUE, TRUE, {"s", "t"}, {"none"}, 2, 0, 0, 2),
     Sc("server", TRUE, FALSE, TRUE, {"s", "t"}, {"none"}, 2, 0, 0, 2),
     Sc("server", TRUE, FALSE, FALSE, {"s", "t"}, {"clean"}, 0, 0, 0, 1),
     Sc("client", FALSE, FALSE, FALSE, {"s"}, {"clean", "damaged"}, 0, 0, 1, 0)}
=============================================================================
