------------------------- MODULE BestEffortDatagram -------------------------
(***************************************************************************)
(* What the path behind UDP ASSOCIATE promises for the datagrams of one    *)
(* relay loop, whatever WebSocket paths, frames and timers it is made of:  *)
(* a datagram reaches the target it names at most once and unchanged, and  *)
(* at most one reply comes back, the answer to that very datagram, while   *)
(* its sender still waits for it.  Nothing is promised to arrive.          *)
(***************************************************************************)
EXTENDS Naturals

CONSTANTS Datagram, Nothing,
          Answer      \* Answer[d]: what the target says to d, if it says anything

VARIABLES offered,    \* offered[d]: target and payload that the client sent
          emission,   \* emission[d]: "idle", "pending" or "over"
          atRemote,   \* atRemote[d]: what the target received
          answered,   \* answered[d]: the answer was taken from the target
          atClient    \* atClient[d]: the reply that the client received

vars == <<offered, emission, atRemote, answered, atClient>>

Init ==
  /\ offered = [d \in Datagram |-> Nothing]
  /\ emission = [d \in Datagram |-> "idle"]
  /\ atRemote = [d \in Datagram |-> Nothing]
  /\ answered = [d \in Datagram |-> FALSE]
  /\ atClient = [d \in Datagram |-> Nothing]

(* The loop sends one datagram at a time. *)
Begin(d) ==
  /\ emission[d] = "idle"
  /\ \A o \in Datagram : emission[o] # "pending"
  /\ emission' = [emission EXCEPT ![d] = "pending"]
  /\ \A o \in Datagram \ {d} : offered'[o] = offered[o]
  /\ UNCHANGED <<atRemote, answered, atClient>>

Relay(d) ==
  /\ offered[d] # Nothing
  /\ atRemote[d] = Nothing
  /\ atRemote' = [atRemote EXCEPT ![d] = offered[d]]
  /\ UNCHANGED <<offered, emission, answered, atClient>>

TakeAnswer(d) ==
  /\ atRemote[d] # Nothing
  /\ ~answered[d]
  /\ answered' = [answered EXCEPT ![d] = TRUE]
  /\ UNCHANGED <<offered, emission, atRemote, atClient>>

Deliver(d) ==
  /\ emission[d] = "pending"
  /\ answered[d]
  /\ atClient[d] = Nothing
  /\ atClient' = [atClient EXCEPT
       ![d] = [target |-> offered[d].target, payload |-> Answer[d]]]
  /\ UNCHANGED <<offered, emission, atRemote, answered>>

(* Successfully, with a failure or at a timeout: all the same to the target. *)
Finish(d) ==
  /\ emission[d] # "over"
  /\ emission[d] = "idle" => \A o \in Datagram : emission[o] # "pending"
  /\ emission' = [emission EXCEPT ![d] = "over"]
  /\ UNCHANGED <<offered, atRemote, answered, atClient>>

Next ==
  \E d \in Datagram : Begin(d) \/ Relay(d) \/ TakeAnswer(d) \/ Deliver(d) \/ Finish(d)

Spec == Init /\ [][Next]_vars

=============================================================================
