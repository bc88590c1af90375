--------------------------- MODULE WssConnection ----------------------------
(***************************************************************************)
(* The WebSocket connections between the client's and the server's gateway *)
(* (src/wss_gateway/mod.rs), from the handshake to the end of both sides.  *)
(* A stream connection carries one CONNECT; a datagram connection carries  *)
(* one emission of the datagram selector (src/session/                     *)
(* datagram_transport_selector.rs), whose server side sends the datagram   *)
(* out and waits for a reply (src/proxy_bridge/udp_relay.rs).              *)
(*                                                                         *)
(* Connections are taken one after the other, as a relay loop awaits each  *)
(* of its emissions; a server side may outlive its client.  All emissions  *)
(* are of one association, so that nothing but the paths keeps their       *)
(* replies apart.  Every message of either side is a frame in a queue;     *)
(* "cut" is the end of a connection without a Close frame.  Time passes by *)
(* Tick: the selector's timeout and the reply windows of both sides are    *)
(* measured in ticks.  TCP, TLS and the upgrade are one external step, and *)
(* so are targets and resolvers.                                           *)
(***************************************************************************)
EXTENDS DatagramCodec, FiniteSets

CONSTANTS Paths,        \* number of connections
          Window,       \* DATAGRAM_RETURN_TIMEOUT
          WssTimeout,   \* wss_connect_timeout of the configuration
          MaxChunks,    \* bound: chunks a stream sends in each direction
          Packet,       \* Packet[c]: SOCKS5 packets, of which the emission c carries one
          Client,       \* the local client of the relay loop
          Association,  \* its association
          Answer        \* Answer[c]: what the target of c answers with

Conn == 1..Paths

(* Packets and answers are bytes, and an answer is one UDP datagram.       *)
ASSUME ConnectionAssumption ==
  /\ Paths \in Nat /\ Window \in Nat \ {0} /\ WssTimeout \in Nat \ {0}
  /\ MaxChunks \in Nat
  /\ DOMAIN Packet = Conn /\ DOMAIN Answer = Conn
  /\ \A c \in Conn : Packet[c] \subseteq Seq(Cell)
  /\ \A c \in Conn : Answer[c] \in Seq(Cell) /\ Len(Answer[c]) <= MaxPayload
  /\ Association \in Cell
  /\ Client \in [ip : Seq(Cell \ {0}), port : Cell] /\ Len(Client.ip) < Base * Base

VARIABLES
  use,        \* use[c]: "stream" or "datagram"
  trusted,    \* trusted[c]: the token is the one the server expects
  client,     \* client[c]: how far the client's side is
  envelope,   \* envelope[c]: the datagram of the emission
  outcome,    \* outcome[c]: what its caller was told
  server,     \* server[c]: how far handle_accepted is
  up, down,   \* frames on their way to the server and to the client
  age,        \* ticks since the attempt began
  wait,       \* wait[c]: ticks the client has waited for a reply
  hold,       \* hold[c]: ticks the server has waited for one
  target,     \* target[c]: the TCP target: "none", "open" or "ended"
  fin,        \* fin[c]: the target was told that its client is done
  remote,     \* remote[c]: the datagram the UDP target received
  answered,   \* answered[c]: its answer was received
  got,        \* got[c]: what the local client reads in the packet it received
  accepting   \* run_server accepts connections

clientSide == <<client, envelope, outcome, age, wait, got>>
serverSide == <<server, hold, target, fin, remote, answered>>
fixed      == <<use, trusted>>
vars == <<fixed, clientSide, serverSide, up, down, accepting>>

Nothing  == [error |-> "nothing"]

Frame(tag)           == [tag |-> tag, cells |-> <<>>]
DatagramFrame(cells) == [tag |-> "datagram", cells |-> cells]

Init ==
  /\ use \in [Conn -> {"stream", "datagram"}]
  /\ trusted \in {[c \in Conn |-> t] : t \in BOOLEAN}
  /\ client = [c \in Conn |-> "idle"] /\ envelope = [c \in Conn |-> Nothing]
  /\ outcome = [c \in Conn |-> "none"]
  /\ server = [c \in Conn |-> "absent"]
  /\ up = [c \in Conn |-> <<>>] /\ down = [c \in Conn |-> <<>>]
  /\ age = [c \in Conn |-> 0]
  /\ wait = [c \in Conn |-> 0] /\ hold = [c \in Conn |-> 0]
  /\ target = [c \in Conn |-> "none"] /\ fin = [c \in Conn |-> FALSE]
  /\ remote = [c \in Conn |-> Nothing]
  /\ answered = [c \in Conn |-> FALSE]
  /\ got = [c \in Conn |-> Nothing]
  /\ accepting = TRUE

-----------------------------------------------------------------------------
(* Steps of the client side. *)
Attempting(c) ==
  client[c] \in {"connecting", "authenticating", "requesting", "awaiting", "closing"}

ClientTo(c, phase) == client' = [client EXCEPT ![c] = phase]
ToServer(c, frames) ==
  up' = [up EXCEPT ![c] = IF server[c] \in {"absent", "ended"} THEN <<>> ELSE @ \o frames]
Heard(c, tag) == down[c] # <<>> /\ Head(down[c]).tag = tag

(* The caller gets its result; what is left of the connection is dropped.  *)
ClientEnds(c, result, farewell) ==
  /\ ClientTo(c, "ended")
  /\ outcome' = [outcome EXCEPT ![c] = result]
  /\ ToServer(c, farewell \o <<Frame("cut")>>)
  /\ down' = [down EXCEPT ![c] = <<>>]
  /\ age' = [age EXCEPT ![c] = 0] /\ wait' = [wait EXCEPT ![c] = 0]

(* The relay loop parses a packet and emits it; a packet that does not     *)
(* parse is never emitted.  A stream is opened for the transport selector. *)
Begin(c) ==
  /\ client[c] = "idle"
  /\ \A b \in 1..(c - 1) : client[b] = "ended"
  /\ \/ /\ use[c] = "stream"
        /\ ClientTo(c, "connecting")
        /\ UNCHANGED <<envelope, outcome>>
     \/ /\ use[c] = "datagram"
        /\ \E packet \in Packet[c] :
             LET parsed == ParsePacket(packet, Association, Client)
             IN IF parsed = Invalid
                THEN /\ ClientTo(c, "ended")
                     /\ outcome' = [outcome EXCEPT ![c] = "rejected"]
                     /\ UNCHANGED envelope
                ELSE /\ ClientTo(c, "connecting")
                     /\ envelope' = [envelope EXCEPT ![c] = parsed]
                     /\ UNCHANGED outcome
  /\ UNCHANGED <<fixed, serverSide, up, down, age, wait, got, accepting>>

(* connect_websocket and the server's accept; the client sends its token.  *)
Connect(c) ==
  /\ client[c] = "connecting"
  /\ accepting
  /\ ClientTo(c, "authenticating")
  /\ server' = [server EXCEPT ![c] = "authenticating"]
  /\ up' = [up EXCEPT ![c] = <<Frame("token")>>]
  /\ UNCHANGED <<fixed, envelope, outcome, age, wait, got, hold, target, fin, remote, answered,
                 down, accepting>>

ConnectFails(c) ==
  /\ client[c] = "connecting"
  /\ ClientEnds(c, "failed", <<>>)
  /\ UNCHANGED <<fixed, serverSide, envelope, got, accepting>>

(* authenticate_websocket: "ok" lets the client name what it wants.        *)
Authenticated(c) ==
  /\ client[c] = "authenticating" /\ Heard(c, "ok")
  /\ ClientTo(c, "requesting")
  /\ down' = [down EXCEPT ![c] = Tail(@)]
  /\ ToServer(c, <<Frame(IF use[c] = "stream" THEN "connect" ELSE "open")>>)
  /\ UNCHANGED <<fixed, serverSide, envelope, outcome, age, wait, got, accepting>>

(* "connected": open_stream hands the stream over. *)
Opened(c) ==
  /\ client[c] = "requesting" /\ Heard(c, "connected")
  /\ ClientTo(c, "open")
  /\ outcome' = [outcome EXCEPT ![c] = "ok"]
  /\ down' = [down EXCEPT ![c] = Tail(@)]
  /\ UNCHANGED <<fixed, serverSide, envelope, age, wait, got, up, accepting>>

(* "datagram-ready": the datagram is encoded and sent. *)
Emit(c) ==
  /\ client[c] = "requesting" /\ Heard(c, "ready")
  /\ LET frame == EncodeDatagram(envelope[c])
     IN IF frame = Invalid
        THEN ClientEnds(c, "failed", <<>>)
        ELSE /\ ClientTo(c, "awaiting")
             /\ ToServer(c, <<DatagramFrame(frame.cells)>>)
             /\ down' = [down EXCEPT ![c] = Tail(@)]
             /\ UNCHANGED <<outcome, age, wait>>
  /\ UNCHANGED <<fixed, serverSide, envelope, got, accepting>>

(* Anything else where an acknowledgement or a reply is expected. *)
Refused(c) ==
  /\ client[c] \in {"authenticating", "requesting", "awaiting"}
  /\ Heard(c, "close") \/ Heard(c, "cut")
  /\ ClientEnds(c, "failed", <<>>)
  /\ UNCHANGED <<fixed, serverSide, envelope, got, accepting>>

(* emit_datagram takes one frame as the reply.  The inbound target hands   *)
(* it to the local client, or refuses: the frame is not one, or the        *)
(* association, its client or its socket is gone (UdpRelay has the         *)
(* conditions).                                                            *)
ReplyArrives(c) ==
  /\ client[c] = "awaiting" /\ Heard(c, "datagram")
  /\ \/ ClientEnds(c, "failed", <<>>) /\ UNCHANGED got
     \/ LET reply  == DecodeDatagram(Head(down[c]).cells)
            packet == EncodePacket(reply)
        IN /\ reply # Invalid /\ reply.id = Association /\ reply.client = Client
           /\ packet # Invalid
           /\ ClientTo(c, "closing")
           /\ got' = [got EXCEPT ![c] = ParsePacket(packet.cells, Association, Client)]
           /\ down' = [down EXCEPT ![c] = Tail(@)]
           /\ UNCHANGED <<outcome, up, age, wait>>
  /\ UNCHANGED <<fixed, serverSide, envelope, accepting>>

(* The window is over and no frame is there: a warning, not an error.      *)
WindowExpires(c) ==
  /\ client[c] = "awaiting" /\ wait[c] = Window /\ down[c] = <<>>
  /\ ClientTo(c, "closing")
  /\ UNCHANGED <<fixed, serverSide, envelope, outcome, age, wait, got, up, down, accepting>>

CloseSent(c) ==
  /\ client[c] = "closing"
  /\ ClientEnds(c, "ok", <<Frame("close")>>)
  /\ UNCHANGED <<fixed, serverSide, envelope, got, accepting>>

CloseFails(c) ==
  /\ client[c] = "closing"
  /\ server[c] = "ended" \/ Heard(c, "cut")
  /\ ClientEnds(c, "failed", <<>>)
  /\ UNCHANGED <<fixed, serverSide, envelope, got, accepting>>

EmitTimeout_WhileWaiting(c) ==
  /\ client[c] \in {"awaiting", "closing"}
  /\ age[c] = WssTimeout
  /\ ClientEnds(c, "timed_out", <<>>)
  /\ UNCHANGED <<fixed, serverSide, envelope, got, accepting>>

(* The selector's timeout drops the attempt where it is, be it still in    *)
(* its handshake, waiting for a reply, or held up by its Close frame.      *)
EmitTimeout(c) ==
  /\ Attempting(c)
  /\ age[c] = WssTimeout
  /\ ClientEnds(c, "timed_out", <<>>)
  /\ UNCHANGED <<fixed, serverSide, envelope, got, accepting>>

(* Cancellation drops the attempt too: a stream's by the token of its      *)
(* request; a datagram's could, but the runtime never cancels the token it *)
(* gives to the datagram selector.                                         *)
Cancel(c) ==
  /\ Attempting(c)
  /\ ClientEnds(c, "cancelled", <<>>)
  /\ UNCHANGED <<fixed, serverSide, envelope, got, accepting>>

-----------------------------------------------------------------------------
(* The bridge tasks of an open stream (BridgeLifecycle has them in full):  *)
(* they send, close their direction, receive, and leave.                   *)
StreamSends(c) ==
  /\ client[c] = "open"
  /\ Len(up[c]) < MaxChunks
  /\ ToServer(c, <<Frame("chunk")>>)
  /\ UNCHANGED <<fixed, clientSide, serverSide, down, accepting>>

StreamFinishes(c) ==
  /\ client[c] = "open"
  /\ ClientTo(c, "half")
  /\ ToServer(c, <<Frame("close")>>)
  /\ UNCHANGED <<fixed, serverSide, envelope, outcome, age, wait, got, down, accepting>>

StreamReceives(c) ==
  /\ client[c] \in {"open", "half"} /\ Heard(c, "chunk")
  /\ down' = [down EXCEPT ![c] = Tail(@)]
  /\ UNCHANGED <<fixed, clientSide, serverSide, up, accepting>>

(* At the peer's end, or at any time when the stream is cancelled: then    *)
(* the writer sends its Close frame first.                                 *)
StreamLeaves(c) ==
  /\ client[c] \in {"open", "half"}
  /\ \/ /\ Heard(c, "close") \/ Heard(c, "cut")
        /\ ClientEnds(c, "ok", <<>>)
     \/ ClientEnds(c, "ok", IF client[c] = "open" THEN <<Frame("close")>> ELSE <<>>)
  /\ UNCHANGED <<fixed, serverSide, envelope, got, accepting>>

-----------------------------------------------------------------------------
(* Steps of handle_accepted.  It reads without any timeout.                *)
ServerTo(c, phase) == server' = [server EXCEPT ![c] = phase]
Reads(c, tag) == up[c] # <<>> /\ Head(up[c]).tag = tag
Consume(c) == up' = [up EXCEPT ![c] = Tail(@)]
ToClient(c, frames) ==
  down' = [down EXCEPT ![c] = IF client[c] = "ended" THEN <<>> ELSE @ \o frames]

(* Returning drops the WebSocket without a Close frame of its own. *)
ServerEnds(c, farewell) ==
  /\ ServerTo(c, "ended")
  /\ up' = [up EXCEPT ![c] = <<>>]
  /\ hold' = [hold EXCEPT ![c] = 0]
  /\ ToClient(c, farewell \o <<Frame("cut")>>)

(* validate_handshake compares the token with the expected one. *)
AuthAllows(c) == trusted[c]

Authorize(c) ==
  /\ server[c] = "authenticating" /\ Reads(c, "token")
  /\ IF AuthAllows(c)
     THEN ServerTo(c, "accepted") /\ Consume(c) /\ ToClient(c, <<Frame("ok")>>) /\ UNCHANGED hold
     ELSE ServerEnds(c, <<Frame("close")>>)
  /\ UNCHANGED <<fixed, clientSide, target, fin, remote, answered, accepting>>

ServeConnect_Eager(c) ==
  /\ server[c] = "accepted" /\ Reads(c, "connect")
  /\ ServerTo(c, "connecting") /\ Consume(c)
  /\ ToClient(c, <<Frame("connected")>>)
  /\ UNCHANGED <<fixed, clientSide, hold, target, fin, remote, answered, accepting>>

(* server_proxy_loop parses the target and connects to it ... *)
ServeConnect(c) ==
  /\ server[c] = "accepted" /\ Reads(c, "connect")
  /\ ServerTo(c, "connecting") /\ Consume(c)
  /\ UNCHANGED <<fixed, clientSide, hold, target, fin, remote, answered, down, accepting>>

(* ... and only then tells the client. *)
TargetConnected(c) ==
  /\ server[c] = "connecting"
  /\ ServerTo(c, "relaying")
  /\ target' = [target EXCEPT ![c] = "open"]
  /\ ToClient(c, <<Frame("connected")>>)
  /\ UNCHANGED <<fixed, clientSide, hold, fin, remote, answered, up, accepting>>

(* The target refuses, or is not one: the connection is dropped.           *)
TargetFails(c) ==
  /\ server[c] = "connecting"
  /\ ServerEnds(c, <<>>)
  /\ UNCHANGED <<fixed, clientSide, target, fin, remote, answered, accepting>>

ServeOpen(c) ==
  /\ server[c] = "accepted" /\ Reads(c, "open")
  /\ ServerTo(c, "looping") /\ Consume(c)
  /\ ToClient(c, <<Frame("ready")>>)
  /\ UNCHANGED <<fixed, clientSide, hold, target, fin, remote, answered, accepting>>

(* The connection ends where a message is expected: an error, which drops  *)
(* the halves of the target's stream as well.                              *)
PeerLost(c) ==
  /\ server[c] \in {"authenticating", "accepted", "relaying", "looping"}
  /\ ~fin[c] /\ Reads(c, "cut")
  /\ ServerEnds(c, <<>>)
  /\ UNCHANGED <<fixed, clientSide, target, fin, remote, answered, accepting>>

-----------------------------------------------------------------------------
(* server_proxy_loop: the two directions under try_join.                   *)
Uplink(c) ==
  /\ server[c] = "relaying" /\ ~fin[c] /\ Reads(c, "chunk")
  /\ Consume(c)
  /\ UNCHANGED <<fixed, clientSide, serverSide, down, accepting>>

UplinkCloses_Abrupt(c) ==
  /\ server[c] = "relaying" /\ ~fin[c] /\ Reads(c, "close")
  /\ up' = [up EXCEPT ![c] = <<>>]
  /\ UNCHANGED <<fixed, clientSide, serverSide, down, accepting>>

(* A Close frame shuts the writing side to the target down; the handler is *)
(* through when the other direction has ended before.                      *)
UplinkCloses(c) ==
  /\ server[c] = "relaying" /\ ~fin[c] /\ Reads(c, "close")
  /\ fin' = [fin EXCEPT ![c] = TRUE]
  /\ IF target[c] = "ended"
     THEN ServerEnds(c, <<>>)
     ELSE Consume(c) /\ UNCHANGED <<server, hold, down>>
  /\ UNCHANGED <<fixed, clientSide, target, remote, answered, accepting>>

(* Data of the target; after the client's Close frame sending is an error, *)
(* and the answer to a finished request is lost with the connection.       *)
Downlink(c) ==
  /\ server[c] = "relaying" /\ target[c] = "open"
  /\ IF fin[c]
     THEN ServerEnds(c, <<>>)
     ELSE /\ Len(down[c]) < MaxChunks
          /\ ToClient(c, <<Frame("chunk")>>)
          /\ UNCHANGED <<server, hold, up>>
  /\ UNCHANGED <<fixed, clientSide, target, fin, remote, answered, accepting>>

(* The target closes, and so does the WebSocket. *)
TargetCloses(c) ==
  /\ server[c] = "relaying" /\ target[c] = "open"
  /\ target' = [target EXCEPT ![c] = "ended"]
  /\ IF fin[c]
     THEN ServerEnds(c, <<>>)
     ELSE ToClient(c, <<Frame("close")>>) /\ UNCHANGED <<server, hold, up>>
  /\ UNCHANGED <<fixed, clientSide, fin, remote, answered, accepting>>

(* Reading from or writing to the target fails. *)
TargetBreaks(c) ==
  /\ server[c] = "relaying"
  /\ target[c] = "open" \/ (~fin[c] /\ Reads(c, "chunk"))
  /\ ServerEnds(c, <<>>)
  /\ UNCHANGED <<fixed, clientSide, target, fin, remote, answered, accepting>>

-----------------------------------------------------------------------------
(* What the target of a datagram is sent.                                  *)
Content(e) == [target |-> e.target, payload |-> e.payload]

(* server_datagram_loop: a frame of another association ends it, and so    *)
(* does a target that does not resolve; relay_outbound_datagram sends from *)
(* a socket of its own.                                                    *)
RelayOutbound(c) ==
  /\ server[c] = "looping" /\ Reads(c, "datagram")
  /\ LET e == DecodeDatagram(Head(up[c]).cells)
     IN \/ ServerEnds(c, <<>>) /\ UNCHANGED remote
        \/ /\ e # Invalid /\ e.id = Association
           /\ remote' = [remote EXCEPT ![c] = Content(e)]
           /\ ServerTo(c, "waiting") /\ Consume(c) /\ UNCHANGED <<hold, down>>
  /\ UNCHANGED <<fixed, clientSide, target, fin, answered, accepting>>

RelayInbound_AnySource(c) ==
  /\ server[c] = "waiting"
  /\ \E payload \in {Answer[c], <<0>>} :
       LET reply == [id |-> Association, client |-> Client,
                     target |-> remote[c].target, payload |-> payload]
       IN /\ answered' = [answered EXCEPT ![c] = TRUE]
          /\ ToClient(c, <<DatagramFrame(EncodeDatagram(reply).cells)>>)
          /\ ServerTo(c, "looping") /\ hold' = [hold EXCEPT ![c] = 0] /\ UNCHANGED up
  /\ UNCHANGED <<fixed, clientSide, target, fin, remote, accepting>>

(* The first packet at the socket is the reply, under the association,     *)
(* client and target of the datagram, if it comes from where that went.    *)
(* Sending it to a client that has gone may fail.                          *)
RelayInbound(c) ==
  /\ server[c] = "waiting"
  /\ LET reply == [id |-> Association, client |-> Client,
                   target |-> remote[c].target, payload |-> Answer[c]]
         frame == EncodeDatagram(reply)
     IN /\ answered' = [answered EXCEPT ![c] = TRUE]
        /\ \/ /\ frame # Invalid
              /\ ToClient(c, <<DatagramFrame(frame.cells)>>)
              /\ ServerTo(c, "looping") /\ hold' = [hold EXCEPT ![c] = 0] /\ UNCHANGED up
           \/ /\ frame = Invalid \/ client[c] = "ended"
              /\ ServerEnds(c, <<>>)
  /\ UNCHANGED <<fixed, clientSide, target, fin, remote, accepting>>

(* A packet from anyone else ends the loop instead.                        *)
ForeignPacket(c) ==
  /\ server[c] = "waiting"
  /\ ServerEnds(c, <<>>)
  /\ UNCHANGED <<fixed, clientSide, target, fin, remote, answered, accepting>>

ServerWindowExpires(c) ==
  /\ server[c] = "waiting" /\ hold[c] = Window
  /\ ServerTo(c, "looping") /\ hold' = [hold EXCEPT ![c] = 0]
  /\ UNCHANGED <<fixed, clientSide, target, fin, remote, answered, up, down, accepting>>

LoopCloses(c) ==
  /\ server[c] = "looping" /\ Reads(c, "close")
  /\ ServerEnds(c, <<>>)
  /\ UNCHANGED <<fixed, clientSide, target, fin, remote, answered, accepting>>

-----------------------------------------------------------------------------
(* The connection breaks: what was on its way is lost. *)
Break(c) ==
  /\ client[c] \notin {"idle", "connecting", "ended"}
  /\ up' = [up EXCEPT ![c] = IF server[c] = "ended" THEN <<>> ELSE <<Frame("cut")>>]
  /\ down' = [down EXCEPT ![c] = <<Frame("cut")>>]
  /\ UNCHANGED <<fixed, clientSide, serverSide, accepting>>

(* The server process stops (run_server returns when told, its handlers    *)
(* go with the process) or crashes, and is started again by systemd.       *)
ServerExits ==
  LET open == {c \in Conn : server[c] \notin {"absent", "ended"}}
  IN /\ accepting
     /\ accepting' = FALSE
     /\ server' = [c \in Conn |-> IF c \in open THEN "ended" ELSE server[c]]
     /\ hold' = [c \in Conn |-> 0] /\ up' = [c \in Conn |-> <<>>]
     /\ down' = [c \in Conn |-> IF c \in open /\ client[c] # "ended" THEN <<Frame("cut")>>
                                ELSE down[c]]
     /\ UNCHANGED <<fixed, clientSide, target, fin, remote, answered>>

ServerStarts ==
  /\ ~accepting
  /\ accepting' = TRUE
  /\ UNCHANGED <<fixed, clientSide, serverSide, up, down>>

Tick_Overdue ==
  /\ \E c \in Conn : Attempting(c) \/ server[c] = "waiting"
  /\ \A c \in Conn : Attempting(c) => age[c] < WssTimeout
  /\ age' = [c \in Conn |-> IF Attempting(c) THEN age[c] + 1 ELSE age[c]]
  /\ wait' = [c \in Conn |-> IF client[c] = "awaiting" THEN wait[c] + 1 ELSE wait[c]]
  /\ hold' = [c \in Conn |-> IF server[c] = "waiting" THEN hold[c] + 1 ELSE hold[c]]
  /\ UNCHANGED <<fixed, client, envelope, outcome, got, server, target, fin, remote, answered,
                 up, down, accepting>>

(* Time passes where somebody waits and no timer is due. *)
Tick ==
  /\ \E c \in Conn : Attempting(c) \/ server[c] = "waiting"
  /\ \A c \in Conn : /\ Attempting(c) => age[c] < WssTimeout
                     /\ client[c] = "awaiting" => wait[c] < Window
                     /\ server[c] = "waiting" => hold[c] < Window
  /\ age' = [c \in Conn |-> IF Attempting(c) THEN age[c] + 1 ELSE age[c]]
  /\ wait' = [c \in Conn |-> IF client[c] = "awaiting" THEN wait[c] + 1 ELSE wait[c]]
  /\ hold' = [c \in Conn |-> IF server[c] = "waiting" THEN hold[c] + 1 ELSE hold[c]]
  /\ UNCHANGED <<fixed, client, envelope, outcome, got, server, target, fin, remote, answered,
                 up, down, accepting>>

(* What the client's caller and the network do at will ... *)
ClientStep(c) ==
  \/ Begin(c) \/ Connect(c) \/ ConnectFails(c) \/ Cancel(c)
  \/ StreamSends(c) \/ StreamFinishes(c) \/ StreamReceives(c) \/ StreamLeaves(c)

(* ... and what an attempt does with what it hears, and when time is up.   *)
Attempt(c) ==
  \/ Authenticated(c) \/ Opened(c) \/ Emit(c) \/ Refused(c) \/ ReplyArrives(c)
  \/ WindowExpires(c) \/ CloseSent(c) \/ CloseFails(c) \/ EmitTimeout(c)

Handler(c) ==
  \/ Authorize(c) \/ ServeConnect(c) \/ ServeOpen(c) \/ PeerLost(c)
  \/ TargetConnected(c) \/ TargetFails(c)
  \/ Uplink(c) \/ UplinkCloses(c)
  \/ RelayOutbound(c) \/ ServerWindowExpires(c) \/ LoopCloses(c)

TargetStep(c) ==
  Downlink(c) \/ TargetCloses(c) \/ TargetBreaks(c) \/ RelayInbound(c) \/ ForeignPacket(c)

(* Every client is through, and nothing is left to do. *)
Over ==
  /\ \A c \in Conn : client[c] = "ended" /\ server[c] \in {"absent", "ended"}
  /\ UNCHANGED vars

Next ==
  \/ \E c \in Conn :
       ClientStep(c) \/ Attempt(c) \/ Handler(c) \/ TargetStep(c) \/ Break(c)
  \/ ServerExits \/ ServerStarts \/ Tick
  \/ Over

Spec == Init /\ [][Next]_vars

(* Tasks and timers run, connecting to a target comes to an end, and a     *)
(* target that is told that its client is done answers and closes.         *)
TargetHangsUp(c) == fin[c] /\ (Downlink(c) \/ TargetCloses(c) \/ TargetBreaks(c))

Fairness ==
  /\ \A c \in Conn : WF_vars(Handler(c)) /\ WF_vars(Attempt(c)) /\ WF_vars(TargetHangsUp(c))
  /\ WF_vars(Tick)

FairSpec == Spec /\ Fairness

-----------------------------------------------------------------------------
(* The shape of the state. *)
TypeOK ==
  /\ use \in [Conn -> {"stream", "datagram"}] /\ trusted \in [Conn -> BOOLEAN]
  /\ client \in [Conn -> {"idle", "connecting", "authenticating", "requesting", "awaiting",
                          "closing", "open", "half", "ended"}]
  /\ outcome \in [Conn -> {"none", "rejected", "ok", "failed", "timed_out", "cancelled"}]
  /\ server \in [Conn -> {"absent", "authenticating", "accepted", "connecting", "relaying",
                          "looping", "waiting", "ended"}]
  /\ age \in [Conn -> 0..WssTimeout]
  /\ wait \in [Conn -> 0..Window] /\ hold \in [Conn -> 0..Window]
  /\ target \in [Conn -> {"none", "open", "ended"}] /\ fin \in [Conn -> BOOLEAN]
  /\ answered \in [Conn -> BOOLEAN] /\ accepting \in BOOLEAN

(* What a client may rely on is there at the other end: a stream that is   *)
(* handed over has a target that was connected, a datagram is sent to a    *)
(* relay loop, and neither to a server that did not accept the token.      *)
AckMeansServed ==
  \A c \in Conn :
    /\ client[c] \in {"open", "half"} => trusted[c] /\ target[c] # "none"
    /\ client[c] \in {"awaiting", "closing"} =>
         trusted[c] /\ server[c] \in {"looping", "waiting", "ended"}

(* The relay loop is deaf while it awaits an emission, and so is a session *)
(* while its stream is opened; but every attempt comes to an end, whatever *)
(* the server, its crash and its restart do to the messages it waits for.  *)
AttemptsEnd == \A c \in Conn : Attempting(c) ~> ~Attempting(c)

(* The reply to a datagram, and what it takes for a frame to stand for one. *)
Reply(c) == [envelope[c] EXCEPT !.payload = Answer[c]]

Decodes(frame, e) ==
  /\ DecodeDatagram(frame.cells) = e
  /\ \A n \in 0..(Len(frame.cells) - 1) :
       DecodeDatagram(SubSeq(frame.cells, 1, n)) = Invalid

(* Every datagram frame on the wire decodes to the envelope it was made    *)
(* of, and cut short anywhere it is refused: the three nested lengths      *)
(* agree with one another at the limits of their widths.                   *)
FramesDecode ==
  \A c \in Conn :
    /\ \A i \in DOMAIN up[c] : up[c][i].tag = "datagram" => Decodes(up[c][i], envelope[c])
    /\ \A i \in DOMAIN down[c] : down[c][i].tag = "datagram" => Decodes(down[c][i], Reply(c))

(* A handler does not outlive its client for ever, although it waits       *)
(* without timeouts: whatever way the client goes reaches it, and the      *)
(* target is told, which alone can end the other direction.                *)
HandlerEndsAfterClient ==
  \A c \in Conn : client[c] = "ended" ~> server[c] \in {"absent", "ended"}

(* A connection of kind "datagram" is an emission of the service.          *)
Service ==
  INSTANCE BestEffortDatagram
    WITH Datagram <- Conn,
         offered <- [c \in Conn |-> IF envelope[c] = Nothing THEN Nothing
                                    ELSE Content(envelope[c])],
         emission <- [c \in Conn |-> CASE client[c] = "idle" -> "idle"
                                       [] client[c] = "ended" -> "over"
                                       [] OTHER -> "pending"],
         atRemote <- remote,
         atClient <- [c \in Conn |-> IF got[c] = Nothing THEN Nothing ELSE Content(got[c])]

(* To the relay loop its emissions are a best-effort datagram service: at  *)
(* most once, unchanged, the right answer or none, and only to an emission *)
(* that is still waiting, whatever server sides linger.                    *)
IsBestEffort == Service!Spec

=============================================================================
