----------------------------- MODULE MCLinkLayer -----------------------------
(***************************************************************************)
(* Instances of LinkLayer: two segments, messages of one and two segments. *)
(***************************************************************************)
EXTENDS LinkLayer

MCMessages == {<<1>>, <<1, 2>>}

\* Enough to be overtaken in the middle.
MCLongMessage == {<<1, 2>>}

\* Every frame a conforming peer may send; the peer's data is of no interest here.
MCPeerFrames ==
    [func : {"NACK"}, flag : BOOLEAN, data : {<<>>}]
    \cup [func : {"TEST_LINK_STATES", "CONFIRMED_USER_DATA"}, flag : BOOLEAN, data : {<<1>>}]
    \cup {Plain(func) : func \in {"ACK", "LINK_STATUS", "RESET_LINK_STATES",
                                  "REQUEST_LINK_STATUS"}}
    \cup {UserData("UNCONFIRMED_USER_DATA", FALSE, 1)}

\* The frames that this library's own stations send.
MCLibraryFrames == {f \in MCPeerFrames : f.func \notin {"NACK", "TEST_LINK_STATES"}}
=============================================================================
