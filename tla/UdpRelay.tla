------------------------------ MODULE UdpRelay ------------------------------
(***************************************************************************)
(* A SOCKS5 UDP ASSOCIATE from its control connection to its replies: the  *)
(* UDP branch of handle_connection in src/socks5/mod.rs, the relay loop of *)
(* src/socks5/udp_associate.rs, and the inbound target of src/cli/mod.rs.  *)
(*                                                                         *)
(* The datagram manager is atomic here (DatagramManager interleaves its    *)
(* steps), and as in the client runtime nobody closes or reaps an          *)
(* association.  The operating system hands out relay ports: any port      *)
(* that no live socket is bound to.                                        *)
(***************************************************************************)
EXTENDS Integers, FiniteSets

CONSTANTS Conn,        \* control connections
          Port,        \* ports the operating system may bind a relay to
          Client,      \* UDP addresses of local clients
          Capacity,    \* max_associations, which is max_sessions
          None

ASSUME RelayAssumption ==
  /\ IsFiniteSet(Conn)
  /\ Capacity \in Nat
  /\ None \notin Conn \cup Port \cup Client

AssociationId == 1..Capacity

VARIABLES
  control,    \* control[c]: the handler of the control connection
  port,       \* port[c]: the relay port of c
  relay,      \* relay[c]: run_udp_relay_runtime_loop
  learned,    \* learned[c]: expected_source of the loop
  from,       \* from[c]: the sender of the datagram being forwarded
  under,      \* under[c]: the association of the emission being awaited
  token,      \* token[c]: runtime_cancel is cancelled
  sockets,    \* UdpRelaySocketRegistry: the connection whose socket is at a port
  opened,     \* number of associations in the registry
  endpoint,   \* endpoint[id]: relay port and expected client of an association
  opener,     \* opener[id]: the connection that opened it
  senders     \* senders[id]: clients whose datagrams went out under id

datagram    == <<from, under>>
association == <<opened, endpoint, opener, senders>>
vars == <<control, port, relay, learned, datagram, token, sockets, association>>

Init ==
  /\ control = [c \in Conn |-> "absent"]
  /\ port = [c \in Conn |-> None]
  /\ relay = [c \in Conn |-> "absent"]
  /\ learned = [c \in Conn |-> None]
  /\ from = [c \in Conn |-> None] /\ under = [c \in Conn |-> 0]
  /\ token = [c \in Conn |-> FALSE]
  /\ sockets = [p \in Port |-> None]
  /\ opened = 0
  /\ endpoint = [id \in AssociationId |-> <<None, None>>]
  /\ opener = [id \in AssociationId |-> None]
  /\ senders = [id \in AssociationId |-> {}]

(* A socket lives as long as the loop or the registry holds it. *)
Emitting(c) == relay[c] \in {"emitting", "closing"}
Running(c) == relay[c] \in {"receiving", "forwarding"} \/ Emitting(c)
Bound(p) == sockets[p] # None \/ \E c \in Conn : Running(c) /\ port[c] = p

-----------------------------------------------------------------------------
(* handle_udp_associate binds the relay and replies; the socket is then    *)
(* registered and the loop spawned.  A usable client hint is taken as the  *)
(* expected source.                                                        *)
Associate(c, p, hint) ==
  /\ control[c] = "absent"
  /\ ~Bound(p)
  /\ control' = [control EXCEPT ![c] = "open"]
  /\ port' = [port EXCEPT ![c] = p]
  /\ relay' = [relay EXCEPT ![c] = "receiving"]
  /\ learned' = [learned EXCEPT ![c] = hint]
  /\ sockets' = [sockets EXCEPT ![p] = c]
  /\ UNCHANGED <<datagram, token, association>>

(* The client closes the control connection, or it breaks. *)
ControlEnds(c) ==
  /\ control[c] = "open"
  /\ control' = [control EXCEPT ![c] = "joining"]
  /\ token' = [token EXCEPT ![c] = TRUE]
  /\ UNCHANGED <<port, relay, learned, datagram, sockets, association>>

JoinLoop_Detached(c) ==
  /\ control[c] = "joining"
  /\ control' = [control EXCEPT ![c] = "closed"]
  /\ sockets' = [sockets EXCEPT ![port[c]] = None]
  /\ UNCHANGED <<port, relay, learned, datagram, token, association>>

(* The loop is awaited; then its socket leaves the registry. *)
JoinLoop(c) ==
  /\ control[c] = "joining"
  /\ relay[c] = "ended"
  /\ control' = [control EXCEPT ![c] = "closed"]
  /\ sockets' = [sockets EXCEPT ![port[c]] = None]
  /\ UNCHANGED <<port, relay, learned, datagram, token, association>>

(* total_timeout of handle_connection drops the handler wherever it is:    *)
(* the control stream closes, the loop's task is detached.                 *)
TotalTimeout(c) ==
  /\ control[c] \in {"open", "joining"}
  /\ control' = [control EXCEPT ![c] = "timed_out"]
  /\ UNCHANGED <<port, relay, learned, datagram, token, sockets, association>>

-----------------------------------------------------------------------------
(* The loop takes a datagram.  One from another source ends it with an     *)
(* error, and so does one that does not parse.                             *)
Receive_AnySource(c, s) ==
  /\ relay[c] = "receiving"
  /\ relay' = [relay EXCEPT ![c] = "forwarding"]
  /\ learned' = [learned EXCEPT ![c] = IF @ = None THEN s ELSE @]
  /\ from' = [from EXCEPT ![c] = s]
  /\ UNCHANGED <<control, port, under, token, sockets, association>>

Receive(c, s) ==
  /\ relay[c] = "receiving"
  /\ learned[c] \in {None, s}
  /\ relay' = [relay EXCEPT ![c] = "forwarding"]
  /\ learned' = [learned EXCEPT ![c] = s]
  /\ from' = [from EXCEPT ![c] = s]
  /\ UNCHANGED <<control, port, under, token, sockets, association>>

RejectDatagram(c) ==
  /\ relay[c] = "receiving"
  /\ relay' = [relay EXCEPT ![c] = "ended"]
  /\ UNCHANGED <<control, port, learned, datagram, token, sockets, association>>

ObserveCancel_Deaf(c) ==
  /\ relay[c] = "receiving"
  /\ token[c]
  /\ UNCHANGED vars

(* select! against the token; a datagram that is ready may win.            *)
ObserveCancel(c) ==
  /\ relay[c] = "receiving"
  /\ token[c]
  /\ relay' = [relay EXCEPT ![c] = "ended"]
  /\ UNCHANGED <<control, port, learned, datagram, token, sockets, association>>

(* forward_runtime_datagram: the association of these endpoints is found   *)
(* or opened, and the datagram goes out under it: a connection of its own, *)
(* which the loop awaits with everything that comes back over it.          *)
Existing_AnyPort(e) == {id \in 1..opened : endpoint[id][2] = e[2]}

Existing(e) == {id \in 1..opened : endpoint[id] = e}

Open(c, e) ==
  /\ opened' = opened + 1
  /\ endpoint' = [endpoint EXCEPT ![opened'] = e]
  /\ opener' = [opener EXCEPT ![opened'] = c]

Dispatch(c, id) ==
  /\ senders' = [senders EXCEPT ![id] = @ \cup {from[c]}]
  /\ under' = [under EXCEPT ![c] = id]
  /\ relay' = [relay EXCEPT ![c] = "emitting"]

Forward_Unbounded(c) ==
  /\ relay[c] = "forwarding"
  /\ LET e == <<port[c], learned[c]>>
     IN \/ /\ \E id \in Existing(e) : Dispatch(c, id)
           /\ UNCHANGED <<opened, endpoint, opener>>
        \/ /\ Existing(e) = {}
           /\ Open(c, e) /\ Dispatch(c, opened')
  /\ UNCHANGED <<control, port, learned, from, token, sockets>>

Forward(c) ==
  /\ relay[c] = "forwarding"
  /\ LET e == <<port[c], learned[c]>>
     IN \/ /\ \E id \in Existing(e) : Dispatch(c, id)
           /\ UNCHANGED <<opened, endpoint, opener>>
        \/ /\ Existing(e) = {}
           /\ opened < Capacity
           /\ Open(c, e) /\ Dispatch(c, opened')
  /\ UNCHANGED <<control, port, learned, from, token, sockets>>

(* No capacity, or an envelope that does not validate, ends the loop: an   *)
(* association that was opened for it stays.                               *)
ForwardFails(c) ==
  /\ relay[c] = "forwarding"
  /\ relay' = [relay EXCEPT ![c] = "ended"]
  /\ from' = [from EXCEPT ![c] = None]
  /\ LET e == <<port[c], learned[c]>>
     IN IF Existing(e) = {} /\ opened < Capacity
        THEN Open(c, e)
        ELSE UNCHANGED <<opened, endpoint, opener>>
  /\ UNCHANGED <<control, port, learned, under, token, sockets, senders>>

-----------------------------------------------------------------------------
(* ClientDatagramInboundTarget::dispatch, called from within the emission: *)
(* the reply names the association and the client of the datagram, and is  *)
(* refused unless that is the client of the association and a relay socket *)
(* is registered at its port.  It leaves through that socket.              *)
ReplySocket(id) == sockets[endpoint[id][1]]
ReplyClient(id) == endpoint[id][2]

DeliverReply(c) ==
  /\ relay[c] = "emitting"
  /\ ReplyClient(under[c]) = learned[c]
  /\ ReplySocket(under[c]) # None
  /\ relay' = [relay EXCEPT ![c] = "closing"]
  /\ UNCHANGED <<control, port, learned, datagram, token, sockets, association>>

(* The connection of the emission is closed, with a reply or without ...   *)
EmissionEnds(c) ==
  /\ Emitting(c)
  /\ relay' = [relay EXCEPT ![c] = "receiving"]
  /\ from' = [from EXCEPT ![c] = None] /\ under' = [under EXCEPT ![c] = 0]
  /\ UNCHANGED <<control, port, learned, token, sockets, association>>

(* ... or it fails or times out, or its reply is refused: the loop ends    *)
(* with it, and the association stays.                                     *)
EmissionFails(c) ==
  /\ Emitting(c)
  /\ relay' = [relay EXCEPT ![c] = "ended"]
  /\ from' = [from EXCEPT ![c] = None] /\ under' = [under EXCEPT ![c] = 0]
  /\ UNCHANGED <<control, port, learned, token, sockets, association>>

RelayStep(c) ==
  \/ ObserveCancel(c) \/ RejectDatagram(c) \/ Forward(c) \/ ForwardFails(c)
  \/ DeliverReply(c) \/ EmissionEnds(c) \/ EmissionFails(c)
  \/ \E s \in Client : Receive(c, s)

ControlStep(c) ==
  \/ ControlEnds(c) \/ JoinLoop(c) \/ TotalTimeout(c)
  \/ \E p \in Port, hint \in Client \cup {None} : Associate(c, p, hint)

(* No handler and no loop is left, and no further client has to connect:   *)
(* with the sockets that time-outs leave registered, none may be able to.  *)
Quiet ==
  /\ \A c \in Conn : control[c] \in {"absent", "closed", "timed_out"} /\ ~Running(c)
  /\ UNCHANGED vars

Next ==
  \/ \E c \in Conn : RelayStep(c) \/ ControlStep(c)
  \/ Quiet

Spec == Init /\ [][Next]_vars

(* The loop's task and the handler are polled, every emission ends (within *)
(* its timeout: AttemptsEnd of WssConnection), and select! takes a branch  *)
(* that is ready again and again.                                          *)
Fairness ==
  \A c \in Conn :
    /\ SF_vars(ObserveCancel(c))
    /\ WF_vars(Forward(c) \/ ForwardFails(c))
    /\ WF_vars(EmissionEnds(c) \/ EmissionFails(c))
    /\ WF_vars(JoinLoop(c))

FairSpec == Spec /\ Fairness

-----------------------------------------------------------------------------
(* The shape of the state. *)
TypeOK ==
  /\ control \in [Conn -> {"absent", "open", "joining", "closed", "timed_out"}]
  /\ port \in [Conn -> Port \cup {None}]
  /\ relay \in [Conn -> {"absent", "receiving", "forwarding", "emitting", "closing", "ended"}]
  /\ learned \in [Conn -> Client \cup {None}]
  /\ from \in [Conn -> Client \cup {None}]
  /\ under \in [Conn -> 0..Capacity]
  /\ token \in [Conn -> BOOLEAN]
  /\ sockets \in [Port -> Conn \cup {None}]
  /\ opened \in 0..Capacity
  /\ endpoint \in [AssociationId -> (Port \cup {None}) \X (Client \cup {None})]
  /\ opener \in [AssociationId -> Conn \cup {None}]
  /\ senders \in [AssociationId -> SUBSET Client]

(* Only the client an association was opened for sends under it, whatever  *)
(* other sources reach the relay port and whoever had that port before.    *)
NoForeignSender ==
  \A id \in AssociationId : senders[id] \subseteq {endpoint[id][2]}

(* Handing a port on is safe: while a loop runs, the socket registered at  *)
(* its port is its own, so replies never leave through a socket that has   *)
(* changed hands under a running loop.                                     *)
RunningLoopOwnsPort ==
  \A c \in Conn : Running(c) => sockets[port[c]] = c

(* The inbound target finds its way back by the association alone, which   *)
(* is shared with earlier loops at the same port; still the reply that an  *)
(* emission waits for would leave through the socket of the loop that      *)
(* waits, to the client whose datagram it answers.                         *)
ReplyReachesSender ==
  \A c \in Conn :
    relay[c] = "emitting" => ReplySocket(under[c]) = c /\ ReplyClient(under[c]) = from[c]

(* A client that closes its control connection is rid of the relay: its    *)
(* loop ends, however many datagrams go on arriving.                       *)
EofEndsRelay ==
  \A c \in Conn : control[c] = "joining" ~> relay[c] = "ended"

(* No relay loop goes on for ever after its control connection is over     *)
(* ("without leaking a live UDP task that can survive past the control     *)
(* socket lifecycle").                                                     *)
LoopEndsWithControl ==
  \A c \in Conn : control[c] \in {"closed", "timed_out"} ~> ~Running(c)

(* "Reused stale relay state is a failure": what a relay sends goes out    *)
(* under an association that was opened for it, not under one that an      *)
(* earlier relay at the same port has left behind.                         *)
FreshAssociation == \A c \in Conn : Emitting(c) => opener[under[c]] = c

=============================================================================
