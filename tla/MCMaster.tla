------------------------------ MODULE MCMaster ------------------------------
(***************************************************************************)
(* Instances of Master.                                                    *)
(***************************************************************************)
EXTENDS Master

MCConfigured == AlwaysConfigured

\* Only the second master polls at startup.
MCOff == Masters \X {"assignClass", "eventScan"} \cup {<<"m", "integrity">>}

\* Single fragments, first, middle and last fragments; what a peer may indicate.
R(fir, fin, con, body, iin) ==
    [fir |-> fir, fin |-> fin, con |-> con, body |-> body, iin |-> iin]

MCResponses ==
    {R(TRUE, TRUE, FALSE, body, {}) : body \in {"good", "refused"}}
        \cup {R(TRUE, FALSE, TRUE, "good", {}), R(FALSE, TRUE, TRUE, "good", {}),
              R(TRUE, TRUE, FALSE, "bad", {"restart"})}

MCUnsolResponses == {R(TRUE, TRUE, TRUE, "good", {"restart"})}

S(enabled, used, flight, confirms, orphans) ==
    [enabled |-> enabled, used |-> used, MaxFlight |-> flight, MaxConfirms |-> confirms,
     MaxOrphans |-> orphans]

\* A command with all that may happen to it; a command among scans; scans of several
\* fragments with confirms; two masters, one of which polls
MCScenarios ==
    {S({"m"}, {"select"}, 1, 1, 1), S({"m"}, {"select", "scan"}, 0, 0, 0),
     S({"m"}, {"scan"}, 1, 1, 0), S({"m", "n"}, {}, 1, 0, 0)}
=============================================================================
