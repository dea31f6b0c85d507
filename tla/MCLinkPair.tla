------------------------------ MODULE MCLinkPair ------------------------------
(***************************************************************************)
(* Instances of LinkPair.                                                  *)
(***************************************************************************)
EXTENDS LinkPair

MCSegment == 1..4

C(a, b, broken, prompt) ==
    [load |-> [s \in Stations |-> IF s = "A" THEN a ELSE b], broken |-> broken,
     prompt |-> prompt]

EachAlone == {{"A"}, {"B"}}

\* One station sends enough for the frame count bit to come round twice, or both send,
\* so that data and acknowledgements compete for the transmitters.
MCScenarios ==
    {C(4, 0, EachAlone, FALSE), C(2, 1, EachAlone, FALSE), C(3, 2, {{"A", "B"}}, TRUE)}
=============================================================================
