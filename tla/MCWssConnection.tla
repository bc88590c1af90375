--------------------------- MODULE MCWssConnection ---------------------------
(***************************************************************************)
(* Cells have four values, so that a name of three cells is as long as a   *)
(* one-cell length can say, while the client's address and the payloads    *)
(* need two cells.  The first emission carries a datagram for the longest  *)
(* name, unless its packet is a fragment; the second one names its target  *)
(* by IPv4, and that target answers with an empty datagram.                *)
(***************************************************************************)
EXTENDS WssConnection

MCClient == [ip |-> <<1, 2, 3, 1, 2>>, port |-> 2]

LongName == <<0, 0, 0, KindName, 3, 2, 1, 3, 1, 1, 2, 3, 0, 1>>
Fragment == <<0, 0, 1, KindIpV4, 2, 3, 1>>
Empty    == <<0, 0, 0, KindIpV4, 2, 3>>

MCPacket == << {LongName, Fragment}, {Empty} >>
MCAnswer == << <<3, 2, 1, 0, 3, 2>>, <<>> >>
==============================================================================
