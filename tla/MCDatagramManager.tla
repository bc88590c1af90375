------------------------- MODULE MCDatagramManager --------------------------
EXTENDS DatagramManager

CONSTANTS c1, c2

(* Two relay loops; the first one receives at two client addresses. *)
MCCallers  == {c1, c2}
MCEndpoint == {<<c1, 1>>, <<c1, 2>>, <<c2, 1>>}
MCOwner    == [e \in MCEndpoint |-> e[1]]
=============================================================================
