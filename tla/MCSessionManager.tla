-------------------------- MODULE MCSessionManager --------------------------
EXTENDS SessionManager

CONSTANTS c1, c2, c3

(* Three tasks that send what the client runtime sends; or one such task   *)
(* beside one that sends every event the API accepts.                      *)
MCClients ==
  {[c \in {c1, c2, c3} |-> RuntimeEvents],
   [c \in {c1, c2} |-> IF c = c1 THEN RuntimeEvents ELSE Event \ {"StreamOpened"}]}
=============================================================================
