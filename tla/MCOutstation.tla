---------------------------- MODULE MCOutstation ----------------------------
(***************************************************************************)
(* Small instances of Outstation. Each configuration picks the requests    *)
(* that bear on its question.                                              *)
(***************************************************************************)
EXTENDS Outstation

MCTypes == {"Binary"}
MCCapacity == [t \in MCTypes |-> 2]

\* One type that holds all events of a behaviour, and one that overflows.
MCTwoTypes == {"Binary", "Analog"}
MCTwoCapacity == [t \in MCTwoTypes |-> IF t = "Binary" THEN 2 ELSE 1]

Req(fn, seq, uns, cls, pts, obj) ==
    [function |-> fn, seq |-> seq, uns |-> uns, classes |-> cls, points |-> pts,
     object |-> obj]

Simple(fn, seqs, obj) == {Req(fn, q, FALSE, {}, {}, obj) : q \in seqs}

Confirms == {Req("CONFIRM", q, u, {}, {}, "none") : q \in Seqs, u \in BOOLEAN}

Reads(seqs, sels) == {Req("READ", q, FALSE, s[1], s[2], "none") : q \in seqs, s \in sels}

\* Reads of events and points, a write, confirms.
MCReportRequests ==
    Confirms \cup Reads(Seqs, {<<{1}, {}>>, <<{1, 2}, {1, 2}>>})
             \cup Simple("WRITE", {0}, "restartIIN")

\* Every request that is answered with a single fragment, and a malformed read.
MCCommandRequests ==
    {Req("CONFIRM", 0, TRUE, {}, {}, "none")}
        \cup Simple("SELECT", {0}, "on") \cup Simple("SELECT", {1}, "refused")
        \cup Simple("OPERATE", {0, 1}, "on")
        \cup Simple("WRITE", {0}, "lanTime") \cup Simple("RECORD_CURRENT_TIME", {1}, "none")
        \cup Simple("DIRECT_OPERATE_NR", {0}, "on") \cup Simple("OTHER", {1}, "none")
        \cup Simple("READ", {1}, "malformed")
        \cup {Req(f, 0, FALSE, {1}, {}, "none") :
                 f \in {"ENABLE_UNSOLICITED", "DISABLE_UNSOLICITED"}}
        \cup {Req("WRITE", 0, TRUE, {}, {}, "none")}

\* A read, a write and a confirm, for the fate of deferred requests.
MCDeferRequests ==
    {Req("CONFIRM", 0, TRUE, {}, {}, "none")}
        \cup Reads({0}, {<<{1}, {}>>}) \cup Simple("WRITE", {0}, "restartIIN")

\* Select before operate, and confirms of unsolicited responses.
MCOperateRequests ==
    {Req("CONFIRM", q, TRUE, {}, {}, "none") : q \in Seqs}
        \cup Simple("SELECT", {0}, "on") \cup Simple("OPERATE", {1}, "on")
=============================================================================
