--------------------------- MODULE UdpRelayProofs ---------------------------
(***************************************************************************)
(* For every set of connections, ports and clients and every capacity: a   *)
(* client's association carries only that client's datagrams, a relay loop *)
(* that runs owns the socket registered at its port, and replies leave     *)
(* through the socket of the loop that waits for them.                     *)
(*                                                                         *)
(* Ownership is not inductive: a handler that unregisters its port must    *)
(* know that no loop runs there, so it has to own the port until then,     *)
(* even after its own loop has ended.  The sender of a datagram is the     *)
(* learned client from its receipt to the end of its emission, the         *)
(* association of an emission has the endpoints of its loop, and an        *)
(* association that is not opened yet has no senders.                      *)
(***************************************************************************)
EXTENDS UdpRelay, TLAPS

(* A loop, and a handler that will unregister it, own the port. *)
Owning(c) == Running(c) \/ control[c] \in {"open", "joining"}

OwnsPort(c) == Owning(c) => port[c] \in Port /\ sockets[port[c]] = c

(* What is being forwarded came from the client the loop has learned. *)
FromLearned(c) ==
  relay[c] = "forwarding" \/ Emitting(c) => from[c] = learned[c] /\ learned[c] \in Client

(* It goes out under an association of the loop's own endpoints. *)
UnderOwn(c) ==
  Emitting(c) => under[c] \in 1..opened /\ endpoint[under[c]] = <<port[c], learned[c]>>

(* Only opened associations have senders, and only their own client. *)
SendersKnown(id) ==
  /\ senders[id] \subseteq {endpoint[id][2]}
  /\ id > opened => senders[id] = {}

IInv ==
  /\ TypeOK
  /\ \A c \in Conn : OwnsPort(c) /\ FromLearned(c) /\ UnderOwn(c)
  /\ \A id \in AssociationId : SendersKnown(id)

-----------------------------------------------------------------------------
(* The handler and the socket registry. *)
LEMMA AssociateKeeps ==
  ASSUME IInv, NEW c \in Conn, NEW p \in Port, NEW hint \in Client \cup {None},
         Associate(c, p, hint)
  PROVE  IInv'
<1>1. TypeOK /\ control[c] = "absent" /\ sockets[p] = None
  BY DEF IInv, Associate, Bound
<1>2. TypeOK'
  BY <1>1 DEF Associate, TypeOK, association, datagram
<1>3. ASSUME NEW d \in Conn
      PROVE  OwnsPort(d)'
  <2>1. CASE d = c
    BY <1>1, <2>1 DEF Associate, TypeOK, OwnsPort
  <2>2. CASE d # c
    <3>1. OwnsPort(d)
      BY DEF IInv
    <3>2. Owning(d)' <=> Owning(d)
      BY <1>1, <2>2 DEF Associate, TypeOK, Owning, Running, Emitting
    <3>3. Owning(d) => port[d] # p
      BY <1>1, <3>1, RelayAssumption DEF OwnsPort
    <3> QED
      BY <1>1, <2>2, <3>1, <3>2, <3>3 DEF Associate, TypeOK, OwnsPort
  <2> QED
    BY <2>1, <2>2
<1>4. ASSUME NEW d \in Conn
      PROVE  FromLearned(d)' /\ UnderOwn(d)'
  <2>1. FromLearned(d) /\ UnderOwn(d)
    BY DEF IInv
  <2>2. /\ relay'[d] = relay[d] /\ learned'[d] = learned[d] /\ port'[d] = port[d]
        \/ relay'[d] = "receiving"
    BY <1>1 DEF Associate, TypeOK
  <2> QED
    BY <2>1, <2>2 DEF Associate, FromLearned, UnderOwn, Emitting, datagram, association
<1>5. \A id \in AssociationId : SendersKnown(id)'
  BY DEF IInv, Associate, association, SendersKnown
<1> QED
  BY <1>2, <1>3, <1>4, <1>5 DEF IInv

LEMMA ControlKeeps ==
  ASSUME IInv, NEW c \in Conn, ControlEnds(c) \/ JoinLoop(c) \/ TotalTimeout(c)
  PROVE  IInv'
<1>1. /\ TypeOK /\ OwnsPort(c) /\ control[c] \in {"open", "joining"}
      /\ UNCHANGED <<port, relay, learned, datagram, association>>
  BY DEF IInv, ControlEnds, JoinLoop, TotalTimeout
<1>2. port[c] \in Port /\ sockets[port[c]] = c
  BY <1>1 DEF OwnsPort, Owning
<1>3. TypeOK'
  BY <1>1, <1>2 DEF ControlEnds, JoinLoop, TotalTimeout, TypeOK, association, datagram
<1>4. ASSUME NEW d \in Conn
      PROVE  OwnsPort(d)'
  <2>1. OwnsPort(d)
    BY DEF IInv
  <2>2. Owning(d)' => Owning(d)
    BY <1>1 DEF ControlEnds, JoinLoop, TotalTimeout, TypeOK, Owning, Running, Emitting
  <2>3. CASE ControlEnds(c) \/ TotalTimeout(c)
    BY <2>1, <2>2, <2>3 DEF ControlEnds, TotalTimeout, OwnsPort
  <2>4. CASE JoinLoop(c)
    <3>1. ~Owning(c)'
      BY <2>4 DEF JoinLoop, TypeOK, Owning, Running, Emitting, IInv
    <3>2. d # c /\ Owning(d) => port[d] # port[c]
      BY <1>2, <2>1 DEF OwnsPort
    <3> QED
      BY <1>1, <1>2, <2>1, <2>2, <2>4, <3>1, <3>2 DEF JoinLoop, OwnsPort, TypeOK
  <2> QED
    BY <2>3, <2>4
<1>5. \A d \in Conn : FromLearned(d)' /\ UnderOwn(d)'
  BY <1>1 DEF IInv, FromLearned, UnderOwn, Emitting, datagram, association
<1>6. \A id \in AssociationId : SendersKnown(id)'
  BY <1>1 DEF IInv, association, SendersKnown
<1> QED
  BY <1>3, <1>4, <1>5, <1>6 DEF IInv

-----------------------------------------------------------------------------
(* The relay loop: it never gains a port. *)
LEMMA LoopKeepsPorts ==
  ASSUME IInv, NEW c \in Conn, Running(c),
         UNCHANGED <<control, port, sockets>>,
         \A d \in Conn \ {c} : relay'[d] = relay[d]
  PROVE  \A d \in Conn : OwnsPort(d)'
BY DEF IInv, OwnsPort, Owning, Running, Emitting

LEMMA ReceiveKeeps ==
  ASSUME IInv, NEW c \in Conn, NEW s \in Client, Receive(c, s)
  PROVE  IInv'
<1>1. /\ TypeOK /\ Running(c)
      /\ UNCHANGED <<control, port, sockets, association>>
  BY DEF IInv, Receive, Running
<1>2. TypeOK'
  BY <1>1 DEF Receive, TypeOK, association
<1>3. \A d \in Conn : OwnsPort(d)'
  BY <1>1, LoopKeepsPorts DEF Receive, TypeOK
<1>4. ASSUME NEW d \in Conn
      PROVE  FromLearned(d)' /\ UnderOwn(d)'
  <2>1. FromLearned(d) /\ UnderOwn(d)
    BY DEF IInv
  <2>2. CASE d = c
    BY <1>1, <2>2 DEF Receive, TypeOK, FromLearned, UnderOwn, Emitting
  <2>3. CASE d # c
    <3>1. /\ relay'[d] = relay[d] /\ learned'[d] = learned[d] /\ from'[d] = from[d]
          /\ UNCHANGED <<under, port, opened, endpoint>>
      BY <1>1, <2>3 DEF Receive, TypeOK, association
    <3> QED
      BY <2>1, <3>1 DEF FromLearned, UnderOwn, Emitting
  <2> QED
    BY <2>2, <2>3
<1>5. \A id \in AssociationId : SendersKnown(id)'
  BY <1>1 DEF IInv, association, SendersKnown
<1> QED
  BY <1>2, <1>3, <1>4, <1>5 DEF IInv

(* A loop that ends, delivers a reply, or has its emission behind it does  *)
(* nothing to the associations.                                            *)
LEMMA LoopMovesKeeps ==
  ASSUME IInv, NEW c \in Conn,
         \/ RejectDatagram(c) \/ ObserveCancel(c)
         \/ DeliverReply(c) \/ EmissionEnds(c) \/ EmissionFails(c)
  PROVE  IInv'
<1>1. /\ TypeOK /\ Running(c)
      /\ UNCHANGED <<control, port, learned, token, sockets, association>>
      /\ relay' \in [Conn -> {"absent", "receiving", "forwarding", "emitting", "closing", "ended"}]
      /\ \A d \in Conn \ {c} : relay'[d] = relay[d]
  BY DEF IInv, TypeOK, RejectDatagram, ObserveCancel, DeliverReply, EmissionEnds, EmissionFails,
         Running, Emitting
<1>2. /\ from' \in [Conn -> Client \cup {None}] /\ under' \in [Conn -> 0..Capacity]
      /\ \A d \in Conn \ {c} : from'[d] = from[d] /\ under'[d] = under[d]
  <2>1. CASE RejectDatagram(c) \/ ObserveCancel(c) \/ DeliverReply(c)
    BY <1>1, <2>1 DEF TypeOK, RejectDatagram, ObserveCancel, DeliverReply, datagram
  <2>2. CASE EmissionEnds(c) \/ EmissionFails(c)
    BY <1>1, <2>2, RelayAssumption DEF TypeOK, EmissionEnds, EmissionFails
  <2> QED
    BY <2>1, <2>2
<1>3. \/ relay'[c] \in {"receiving", "ended"}
      \/ relay[c] = "emitting" /\ UNCHANGED datagram
  BY <1>1 DEF TypeOK, RejectDatagram, ObserveCancel, DeliverReply, EmissionEnds, EmissionFails
<1>4. TypeOK'
  BY <1>1, <1>2 DEF TypeOK, association
<1>5. \A d \in Conn : OwnsPort(d)'
  BY <1>1, LoopKeepsPorts
<1>6. ASSUME NEW d \in Conn
      PROVE  FromLearned(d)' /\ UnderOwn(d)'
  <2>1. FromLearned(d) /\ UnderOwn(d)
    BY DEF IInv
  <2>2. CASE d = c
    BY <1>1, <1>3, <2>1, <2>2 DEF FromLearned, UnderOwn, Emitting, datagram, association
  <2>3. CASE d # c
    BY <1>1, <1>2, <2>1, <2>3 DEF FromLearned, UnderOwn, Emitting, association
  <2> QED
    BY <2>2, <2>3
<1>7. \A id \in AssociationId : SendersKnown(id)'
  BY <1>1 DEF IInv, association, SendersKnown
<1> QED
  BY <1>4, <1>5, <1>6, <1>7 DEF IInv

-----------------------------------------------------------------------------
(* What a loop may do to the associations: leave them, or open the next    *)
(* one for its own endpoints.                                              *)
Opens(c) == opened < Capacity /\ Open(c, <<port[c], learned[c]>>)

LEMMA Opening ==
  ASSUME IInv, NEW c \in Conn, relay[c] = "forwarding",
         Opens(c) \/ UNCHANGED <<opened, endpoint, opener>>
  PROVE  /\ opened' \in 0..Capacity /\ opened <= opened'
         /\ endpoint' \in [AssociationId -> (Port \cup {None}) \X (Client \cup {None})]
         /\ opener' \in [AssociationId -> Conn \cup {None}]
         /\ \A id \in AssociationId :
              senders[id] \subseteq {endpoint'[id][2]} /\ (id > opened' => senders[id] = {})
         /\ \A id \in 1..opened : id \in 1..opened' /\ endpoint'[id] = endpoint[id]
<1> USE DEF Open
<1>1. /\ TypeOK /\ \A id \in AssociationId : SendersKnown(id)
  BY DEF IInv
<1>2. CASE UNCHANGED <<opened, endpoint, opener>>
  BY <1>1, <1>2 DEF TypeOK, SendersKnown
<1>3. CASE Opens(c)
  <2>1. opened \in Nat /\ Capacity \in Nat /\ opened + 1 \in AssociationId
    BY <1>1, <1>3, RelayAssumption DEF TypeOK, Opens, AssociationId
  <2>2. <<port[c], learned[c]>> \in (Port \cup {None}) \X (Client \cup {None})
    BY <1>1 DEF TypeOK
  <2>3. /\ endpoint' \in [AssociationId -> (Port \cup {None}) \X (Client \cup {None})]
        /\ opener' \in [AssociationId -> Conn \cup {None}]
        /\ opened' \in 0..Capacity /\ opened' = opened + 1
    BY <1>1, <1>3, <2>1, <2>2 DEF TypeOK, Opens
  <2>4. senders[opened + 1] = {}
    BY <1>1, <2>1 DEF SendersKnown
  <2>5. ASSUME NEW id \in AssociationId
        PROVE  senders[id] \subseteq {endpoint'[id][2]} /\ (id > opened' => senders[id] = {})
    <3>1. CASE id = opened + 1
      BY <2>3, <2>4, <3>1
    <3>2. CASE id # opened + 1
      BY <1>1, <1>3, <2>1, <2>3, <3>2 DEF SendersKnown, Opens, TypeOK, AssociationId
    <3> QED
      BY <3>1, <3>2
  <2>6. \A id \in 1..opened : id \in 1..opened' /\ endpoint'[id] = endpoint[id]
    BY <1>1, <1>3, <2>1, <2>3 DEF Opens, TypeOK, AssociationId
  <2> QED
    BY <2>1, <2>3, <2>5, <2>6
<1> QED
  BY <1>2, <1>3

LEMMA ForwardKeeps ==
  ASSUME IInv, NEW c \in Conn, Forward(c)
  PROVE  IInv'
<1>1. /\ TypeOK /\ FromLearned(c) /\ relay[c] = "forwarding" /\ Running(c)
      /\ UNCHANGED <<control, port, learned, from, token, sockets>>
  BY DEF IInv, Forward, Running
<1>2. PICK id \in AssociationId :
        /\ Dispatch(c, id)
        /\ \/ id \in Existing(<<port[c], learned[c]>>) /\ UNCHANGED <<opened, endpoint, opener>>
           \/ Opens(c) /\ id = opened'
  <2>1. opened \in 0..Capacity /\ Capacity \in Nat
    BY <1>1, RelayAssumption DEF TypeOK
  <2> QED
    BY <2>1 DEF Forward, Opens, Open, Existing, AssociationId
<1>3. /\ opened' \in 0..Capacity
      /\ endpoint' \in [AssociationId -> (Port \cup {None}) \X (Client \cup {None})]
      /\ opener' \in [AssociationId -> Conn \cup {None}]
      /\ \A k \in AssociationId :
           senders[k] \subseteq {endpoint'[k][2]} /\ (k > opened' => senders[k] = {})
      /\ \A k \in 1..opened : k \in 1..opened' /\ endpoint'[k] = endpoint[k]
  BY <1>1, <1>2, Opening
<1>4. from[c] = learned[c] /\ learned[c] \in Client
  BY <1>1 DEF FromLearned
<1>5. /\ id <= opened' /\ opened' \in Nat /\ id \in Nat /\ id \in 1..opened'
      /\ endpoint'[id] = <<port[c], learned[c]>>
  <2>1. CASE id \in Existing(<<port[c], learned[c]>>) /\ UNCHANGED <<opened, endpoint, opener>>
    BY <1>1, <2>1, RelayAssumption DEF Existing, TypeOK
  <2>2. CASE Opens(c) /\ id = opened'
    BY <1>1, <2>2, RelayAssumption DEF Opens, Open, TypeOK, AssociationId
  <2> QED
    BY <1>2, <2>1, <2>2
<1>6. /\ senders' \in [AssociationId -> SUBSET Client]
      /\ senders'[id] = senders[id] \cup {learned[c]}
      /\ \A k \in AssociationId \ {id} : senders'[k] = senders[k]
  BY <1>1, <1>2, <1>4 DEF Dispatch, TypeOK
<1>7. /\ under' \in [Conn -> 0..Capacity] /\ under'[c] = id
      /\ relay' \in [Conn -> {"absent", "receiving", "forwarding", "emitting", "closing", "ended"}]
      /\ relay'[c] = "emitting"
      /\ \A d \in Conn \ {c} : relay'[d] = relay[d] /\ under'[d] = under[d]
  <2>1. id \in 0..Capacity
    BY RelayAssumption DEF AssociationId
  <2> QED
    BY <1>1, <1>2, <2>1 DEF Dispatch, TypeOK
<1>8. TypeOK'
  BY <1>1, <1>3, <1>6, <1>7 DEF TypeOK
<1>9. \A d \in Conn : OwnsPort(d)'
  BY <1>1, <1>7, LoopKeepsPorts
<1>10. ASSUME NEW d \in Conn
       PROVE  FromLearned(d)' /\ UnderOwn(d)'
  <2>1. FromLearned(d) /\ UnderOwn(d)
    BY DEF IInv
  <2>2. CASE d = c
    BY <1>1, <1>4, <1>5, <1>7, <2>2 DEF FromLearned, UnderOwn
  <2>3. CASE d # c
    BY <1>1, <1>3, <1>7, <2>1, <2>3 DEF FromLearned, UnderOwn, Emitting
  <2> QED
    BY <2>2, <2>3
<1>11. ASSUME NEW k \in AssociationId
       PROVE  SendersKnown(k)'
  <2>1. CASE k = id
    BY <1>3, <1>5, <1>6, <2>1 DEF SendersKnown
  <2>2. CASE k # id
    BY <1>3, <1>6, <2>2 DEF SendersKnown
  <2> QED
    BY <2>1, <2>2
<1> QED
  BY <1>8, <1>9, <1>10, <1>11 DEF IInv

LEMMA ForwardFailsKeeps ==
  ASSUME IInv, NEW c \in Conn, ForwardFails(c)
  PROVE  IInv'
<1>1. /\ TypeOK /\ relay[c] = "forwarding" /\ Running(c)
      /\ UNCHANGED <<control, port, learned, under, token, sockets, senders>>
      /\ Opens(c) \/ UNCHANGED <<opened, endpoint, opener>>
  BY DEF IInv, ForwardFails, Running, Opens
<1>2. /\ opened' \in 0..Capacity
      /\ endpoint' \in [AssociationId -> (Port \cup {None}) \X (Client \cup {None})]
      /\ opener' \in [AssociationId -> Conn \cup {None}]
      /\ \A k \in AssociationId :
           senders[k] \subseteq {endpoint'[k][2]} /\ (k > opened' => senders[k] = {})
      /\ \A k \in 1..opened : k \in 1..opened' /\ endpoint'[k] = endpoint[k]
  BY <1>1, Opening
<1>3. /\ from' \in [Conn -> Client \cup {None}]
      /\ relay' \in [Conn -> {"absent", "receiving", "forwarding", "emitting", "closing", "ended"}]
      /\ relay'[c] = "ended"
      /\ \A d \in Conn \ {c} : relay'[d] = relay[d] /\ from'[d] = from[d]
  BY <1>1 DEF ForwardFails, TypeOK
<1>4. TypeOK'
  BY <1>1, <1>2, <1>3 DEF TypeOK
<1>5. \A d \in Conn : OwnsPort(d)'
  BY <1>1, <1>3, LoopKeepsPorts
<1>6. ASSUME NEW d \in Conn
      PROVE  FromLearned(d)' /\ UnderOwn(d)'
  <2>1. FromLearned(d) /\ UnderOwn(d)
    BY DEF IInv
  <2> QED
    BY <1>1, <1>2, <1>3, <2>1 DEF FromLearned, UnderOwn, Emitting
<1>7. \A k \in AssociationId : SendersKnown(k)'
  BY <1>1, <1>2 DEF SendersKnown
<1> QED
  BY <1>4, <1>5, <1>6, <1>7 DEF IInv

-----------------------------------------------------------------------------
LEMMA IInvStarts == Init => IInv
<1> SUFFICES ASSUME Init PROVE IInv
  OBVIOUS
<1>1. TypeOK
  BY RelayAssumption DEF Init, TypeOK
<1>2. \A c \in Conn : OwnsPort(c) /\ FromLearned(c) /\ UnderOwn(c)
  BY DEF Init, OwnsPort, Owning, Running, Emitting, FromLearned, UnderOwn
<1>3. \A id \in AssociationId : SendersKnown(id)
  BY DEF Init, SendersKnown
<1> QED
  BY <1>1, <1>2, <1>3 DEF IInv

LEMMA Untouched ==
  ASSUME IInv, UNCHANGED vars
  PROVE  IInv'
BY DEF IInv, TypeOK, OwnsPort, Owning, Running, Emitting, FromLearned, UnderOwn, SendersKnown,
       vars, datagram, association

LEMMA IInvKept == IInv /\ [Next]_vars => IInv'
<1> SUFFICES ASSUME IInv, [Next]_vars PROVE IInv'
  OBVIOUS
<1>1. CASE UNCHANGED vars
  BY <1>1, Untouched
<1>2. ASSUME NEW c \in Conn, RelayStep(c)
      PROVE  IInv'
  BY <1>2, ReceiveKeeps, LoopMovesKeeps, ForwardKeeps, ForwardFailsKeeps DEF RelayStep
<1>3. ASSUME NEW c \in Conn, ControlStep(c)
      PROVE  IInv'
  BY <1>3, AssociateKeeps, ControlKeeps DEF ControlStep
<1>5. CASE Quiet
  BY <1>1, <1>5 DEF Quiet
<1> QED
  BY <1>1, <1>2, <1>3, <1>5 DEF Next

LEMMA IInvHolds == Spec => []IInv
BY IInvStarts, IInvKept, PTL DEF Spec

(* Every variable of the relay keeps its shape; in particular the registry *)
(* never opens more associations than its capacity.                        *)
THEOREM RelayTypes == Spec => []TypeOK
<1>1. IInv => TypeOK
  BY DEF IInv
<1> QED
  BY <1>1, IInvHolds, PTL

(* Only the client an association was opened for sends under it, whatever  *)
(* sources reach the relay port and whoever had the port before.           *)
THEOREM SendersAreOwnClients == Spec => []NoForeignSender
<1>1. IInv => NoForeignSender
  BY DEF IInv, SendersKnown, NoForeignSender
<1> QED
  BY <1>1, IInvHolds, PTL

(* The socket registered at the port of a running loop is that loop's own, *)
(* although ports are handed on between connections.                       *)
THEOREM LoopsOwnTheirPorts == Spec => []RunningLoopOwnsPort
<1>1. IInv => RunningLoopOwnsPort
  BY DEF IInv, OwnsPort, Owning, RunningLoopOwnsPort
<1> QED
  BY <1>1, IInvHolds, PTL

(* The reply that an emission waits for would leave through the socket of  *)
(* the loop that waits, to the client whose datagram it answers, however   *)
(* many loops had the port or the association before.                      *)
THEOREM RepliesReachSenders == Spec => []ReplyReachesSender
<1>1. IInv => ReplyReachesSender
  <2> SUFFICES ASSUME IInv, NEW c \in Conn, relay[c] = "emitting"
               PROVE  ReplySocket(under[c]) = c /\ ReplyClient(under[c]) = from[c]
    BY DEF ReplyReachesSender
  <2>1. /\ endpoint[under[c]] = <<port[c], learned[c]>>
        /\ from[c] = learned[c] /\ sockets[port[c]] = c
    BY DEF IInv, UnderOwn, FromLearned, OwnsPort, Owning, Running, Emitting
  <2> QED
    BY <2>1 DEF ReplySocket, ReplyClient
<1> QED
  BY <1>1, IInvHolds, PTL

=============================================================================
