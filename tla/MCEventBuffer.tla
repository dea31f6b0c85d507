--------------------------- MODULE MCEventBuffer ---------------------------
(***************************************************************************)
(* Small instance of EventBuffer: a type with room for two events, one     *)
(* with room for one and one without any.                                  *)
(***************************************************************************)
EXTENDS EventBuffer

MCTypes == {"Binary", "Analog", "Counter"}
MCCapacity == [t \in MCTypes |-> CASE t = "Binary" -> 2 [] t = "Analog" -> 1 [] OTHER -> 0]
=============================================================================
