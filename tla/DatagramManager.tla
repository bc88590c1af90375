-------------------------- MODULE DatagramManager ---------------------------
(***************************************************************************)
(* src/session/udp_registry.rs and the datagram manager over it,           *)
(* src/session/datagram_manager.rs.  A relay loop that has a datagram to   *)
(* send looks its association up by endpoints, refreshes it or opens one,  *)
(* refreshes it again and dispatches; each access to the registry is       *)
(* atomic by itself and other tasks come in between.                       *)
(*                                                                         *)
(* The map and its records are behind one lock, so that a reap is one      *)
(* step.  Time is the flag `stale`: the association has been idle for      *)
(* longer than max_idle.  The carrier that dispatches is external.         *)
(***************************************************************************)
EXTENDS Integers, FiniteSets

CONSTANTS Callers,      \* tasks that send or deliver datagrams
          Endpoint,     \* pairs of a relay address and a client address
          NoEndpoint,
          Owner,        \* Owner[e]: the one relay loop that receives at e
          Capacity,     \* max_associations
          MaxId         \* bound: the largest identifier the counter reaches

ASSUME DatagramAssumption ==
  /\ IsFiniteSet(Callers)
  /\ NoEndpoint \notin Endpoint
  /\ Owner \in [Endpoint -> Callers]
  /\ Capacity \in Nat
  /\ MaxId \in Nat \ {0}

AssociationId == 1..MaxId

VARIABLES
  permits,        \* available permits of the semaphore
  nextId,         \* next_association_id
  associations,   \* keys of the map
  endpoint,       \* endpoint[id]: relay_addr and expected_client_addr
  stale,          \* stale[id]: idle for longer than max_idle
  call,           \* call[c]: where caller c is inside a manager call
  undropped,      \* closed associations whose permit is not dropped yet
  sent            \* sent[id]: endpoints whose datagrams were dispatched as id

vars == <<permits, nextId, associations, endpoint, stale, call, undropped, sent>>
registry == <<permits, nextId, associations, endpoint, stale, undropped>>

CallState ==
  [at : {"idle", "found", "opening", "reserved", "numbered", "forwarding", "dispatching"},
   from : Endpoint \cup {NoEndpoint}, id : 0..MaxId]

Idle == [at |-> "idle", from |-> NoEndpoint, id |-> 0]
Go(c, where, e, id) ==
  call' = [call EXCEPT ![c] = [at |-> where, from |-> e, id |-> id]]
Advance(c, where) == call' = [call EXCEPT ![c].at = where]
Return(c) == call' = [call EXCEPT ![c] = Idle]

Init ==
  /\ permits = Capacity
  /\ nextId = 1
  /\ associations = {}
  /\ endpoint = [id \in AssociationId |-> NoEndpoint]
  /\ stale = [id \in AssociationId |-> FALSE]
  /\ call = [c \in Callers |-> Idle]
  /\ undropped = {}
  /\ sent = [id \in AssociationId |-> {}]

-----------------------------------------------------------------------------
(* find_by_endpoints: any association of these endpoints. *)
Matching_AnyClient(e) == associations

Matching_Fresh(e) == {id \in associations : endpoint[id] = e /\ ~stale[id]}

Matching(e) == {id \in associations : endpoint[id] = e}

(* IdBudget bounds the identifiers: an opening can always be numbered.     *)
Unnumbered == {c \in Callers : call[c].at \in {"opening", "reserved"}}
IdBudget   == nextId + Cardinality(Unnumbered) <= MaxId

(* ensure_outbound_association: look up ... *)
Find(c, e) ==
  /\ call[c] = Idle
  /\ Owner[e] = c
  /\ IF Matching(e) = {}
     THEN IdBudget /\ Go(c, "opening", e, 0)
     ELSE \E id \in Matching(e) : Go(c, "found", e, id)
  /\ UNCHANGED <<registry, sent>>

(* ... refresh what was found, an error if it is gone by now ...           *)
Touched(id) == stale' = [stale EXCEPT ![id] = FALSE]

TouchFound(c) ==
  /\ call[c].at = "found"
  /\ IF call[c].id \in associations
     THEN Touched(call[c].id) /\ Advance(c, "forwarding")
     ELSE Return(c) /\ UNCHANGED stale
  /\ UNCHANGED <<permits, nextId, associations, endpoint, undropped, sent>>

(* ... or open a new one: a permit (or AtCapacity), a number, an entry.    *)
Reserve_Unguarded(c) ==
  /\ call[c].at = "opening"
  /\ permits' = permits - 1
  /\ Advance(c, "reserved")
  /\ UNCHANGED <<nextId, associations, endpoint, stale, undropped, sent>>

Reserve(c) ==
  /\ call[c].at = "opening"
  /\ IF permits > 0
     THEN permits' = permits - 1 /\ Advance(c, "reserved")
     ELSE Return(c) /\ UNCHANGED permits
  /\ UNCHANGED <<nextId, associations, endpoint, stale, undropped, sent>>

Number_Reused(c) ==
  /\ call[c].at = "reserved"
  /\ Go(c, "numbered", call[c].from, nextId)
  /\ nextId' = IF associations = {} THEN 1 ELSE nextId + 1
  /\ UNCHANGED <<permits, associations, endpoint, stale, undropped, sent>>

Number(c) ==
  /\ call[c].at = "reserved"
  /\ Go(c, "numbered", call[c].from, nextId)
  /\ nextId' = nextId + 1
  /\ UNCHANGED <<permits, associations, endpoint, stale, undropped, sent>>

Insert(c) ==
  /\ call[c].at = "numbered"
  /\ LET id == call[c].id
     IN /\ associations' = associations \cup {id}
        /\ endpoint' = [endpoint EXCEPT ![id] = call[c].from]
        /\ Touched(id)
  /\ Advance(c, "forwarding")
  /\ UNCHANGED <<permits, nextId, undropped, sent>>

(* accept_outbound_datagram: an envelope that does not validate ends here, *)
(* with the association left open.                                         *)
RejectEnvelope(c) ==
  /\ call[c].at = "forwarding"
  /\ Return(c)
  /\ UNCHANGED <<registry, sent>>

(* forward_outbound_datagram: refresh again, then dispatch. *)
TouchForward(c) ==
  /\ call[c].at = "forwarding"
  /\ IF call[c].id \in associations
     THEN Touched(call[c].id) /\ Advance(c, "dispatching")
     ELSE Return(c) /\ UNCHANGED stale
  /\ UNCHANGED <<permits, nextId, associations, endpoint, undropped, sent>>

Dispatch(c) ==
  /\ call[c].at = "dispatching"
  /\ sent' = [sent EXCEPT ![call[c].id] = @ \cup {call[c].from}]
  /\ Return(c)
  /\ UNCHANGED registry

(* The carrier refuses or times out. *)
DispatchFails(c) ==
  /\ call[c].at = "dispatching"
  /\ Return(c)
  /\ UNCHANGED <<registry, sent>>

-----------------------------------------------------------------------------
(* forward_inbound_datagram refreshes before it dispatches to the client.  *)
TouchInbound(id) ==
  /\ id \in associations
  /\ Touched(id)
  /\ UNCHANGED <<permits, nextId, associations, endpoint, call, undropped, sent>>

(* close_association: the entry leaves the map under its lock ...          *)
CloseAssociation(id) ==
  /\ id \in associations
  /\ associations' = associations \ {id}
  /\ undropped' = undropped \cup {id}
  /\ UNCHANGED <<permits, nextId, endpoint, stale, call, sent>>

(* ... and its permit is dropped after the lock is released.               *)
DropPermit(id) ==
  /\ id \in undropped
  /\ undropped' = undropped \ {id}
  /\ permits' = permits + 1
  /\ UNCHANGED <<nextId, associations, endpoint, stale, call, sent>>

ReapIdle_KeepsPermits ==
  LET idle == {id \in associations : stale[id]}
  IN /\ idle # {}
     /\ associations' = associations \ idle
     /\ UNCHANGED <<permits, nextId, endpoint, stale, call, undropped, sent>>

(* retain drops every idle entry, and its permit, under the lock. *)
ReapIdle ==
  LET idle == {id \in associations : stale[id]}
  IN /\ idle # {}
     /\ associations' = associations \ idle
     /\ permits' = permits + Cardinality(idle)
     /\ UNCHANGED <<nextId, endpoint, stale, call, undropped, sent>>

GrowStale(id) ==
  /\ id \in associations
  /\ stale' = [stale EXCEPT ![id] = TRUE]
  /\ UNCHANGED <<permits, nextId, associations, endpoint, call, undropped, sent>>

CallerStep(c) ==
  \/ \E e \in Endpoint : Find(c, e)
  \/ TouchFound(c) \/ Reserve(c) \/ Number(c) \/ Insert(c)
  \/ RejectEnvelope(c) \/ TouchForward(c) \/ Dispatch(c) \/ DispatchFails(c)

(* Past the identifier bound, with every association gone. *)
Exhausted ==
  /\ \A c \in Callers : call[c] = Idle
  /\ associations = {} /\ undropped = {} /\ ~IdBudget
  /\ UNCHANGED vars

Next ==
  \/ \E c \in Callers : CallerStep(c)
  \/ \E id \in AssociationId :
       TouchInbound(id) \/ CloseAssociation(id) \/ DropPermit(id) \/ GrowStale(id)
  \/ ReapIdle
  \/ Exhausted

Spec == Init /\ [][Next]_vars

-----------------------------------------------------------------------------
(* The shape of the state, the permits inside 0..Capacity. *)
TypeOK ==
  /\ permits \in 0..Capacity
  /\ nextId \in 1..(MaxId + 1)
  /\ associations \subseteq AssociationId
  /\ endpoint \in [AssociationId -> Endpoint \cup {NoEndpoint}]
  /\ stale \in [AssociationId -> BOOLEAN]
  /\ call \in [Callers -> CallState]
  /\ undropped \subseteq AssociationId
  /\ sent \in [AssociationId -> SUBSET Endpoint]

Guards == {c \in Callers : call[c].at \in {"reserved", "numbered"}}

(* Every permit is in the semaphore, in a reservation, in the map, or with *)
(* a close that has removed its entry and not dropped it yet.              *)
PermitsConserved ==
  permits + Cardinality(Guards) + Cardinality(associations) + Cardinality(undropped) = Capacity

(* "Reuse one existing governed UDP association for the same relay and     *)
(* client endpoints": the lookup and the insertion are two critical        *)
(* sections, and still two associations never share their endpoints,       *)
(* because one relay loop only receives at each of them.                   *)
OneAssociationPerEndpoint ==
  \A i, j \in associations : endpoint[i] = endpoint[j] => i = j

(* Under one identifier only the datagrams of one client at one relay are  *)
(* ever dispatched, also when the association is closed or reaped and its  *)
(* endpoints return while a call that found it is still on its way.        *)
IdentityNotShared == \A id \in AssociationId : Cardinality(sent[id]) <= 1

Inserted == {id \in 1..(nextId - 1) :
               \A c \in Callers : call[c].at = "numbered" => call[c].id # id}

(* To its users the registry is the same pool as the session registry: at  *)
(* most Capacity associations, identifiers never handed out twice.         *)
Pool == INSTANCE CapacityPool
          WITH Member <- AssociationId, live <- associations,
               retired <- Inserted \ associations

ImplementsPool == Pool!Spec

=============================================================================
