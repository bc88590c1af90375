----------------------- MODULE DatagramManagerProofs ------------------------
(***************************************************************************)
(* For all relay loops, endpoints, capacities and identifier bounds: the   *)
(* association registry under the datagram manager conserves its permits,  *)
(* has one association per pair of endpoints, sends the datagrams of one   *)
(* client only under each identifier, and implements CapacityPool.         *)
(*                                                                         *)
(* None of these is inductive alone.  That two callers never open the same *)
(* endpoints follows from Owner, since the code looks up and inserts in    *)
(* two critical sections; that an identifier is never shared follows from  *)
(* what the callers know about the identifier they carry, registered still *)
(* or not.                                                                 *)
(***************************************************************************)
EXTENDS DatagramManager, FiniteSetTheorems, TLAPS

(* The counter stays inside its bound while openings are under way.        *)
IdsSuffice == nextId + Cardinality(Unnumbered) <= MaxId + 1

(* An identifier is in the map or carried by the one caller it was given.  *)
IdsHaveOneOwner ==
  /\ associations \subseteq Inserted
  /\ \A c \in Callers : call[c].at = "numbered" =>
       /\ call[c].id \in 1..(nextId - 1)
       /\ \A d \in Callers : d # c /\ call[d].at = "numbered" => call[d].id # call[c].id

(* A call is for endpoints of its own loop. *)
CallsAreOwned ==
  \A c \in Callers : call[c].at # "idle" => call[c].from \in Endpoint /\ Owner[call[c].from] = c

(* A call that carries an identifier knows the endpoints it was inserted   *)
(* for, whether it is in the map still or not.                             *)
CallsNameInserted ==
  \A c \in Callers : call[c].at \in {"found", "forwarding", "dispatching"} =>
    /\ call[c].id \in Inserted
    /\ endpoint[call[c].id] = call[c].from

(* No association has the endpoints of a call that is opening one. *)
OpeningIsFirst ==
  \A c \in Callers : call[c].at \in {"opening", "reserved", "numbered"} =>
    \A id \in associations : endpoint[id] # call[c].from

(* A permit that is still to be dropped is that of an entry that has gone. *)
ClosedAreGone == undropped \subseteq Inserted /\ undropped \cap associations = {}

SentAsInserted ==
  \A id \in AssociationId : sent[id] # {} => id \in Inserted /\ sent[id] = {endpoint[id]}

IInv ==
  /\ TypeOK
  /\ PermitsConserved
  /\ IdsSuffice
  /\ IdsHaveOneOwner
  /\ CallsAreOwned
  /\ CallsNameInserted
  /\ OpeningIsFirst
  /\ OneAssociationPerEndpoint
  /\ SentAsInserted
  /\ ClosedAreGone

-----------------------------------------------------------------------------
LEMMA SetsFinite ==
  ASSUME TypeOK
  PROVE  /\ IsFiniteSet(associations) /\ Cardinality(associations) \in Nat
         /\ IsFiniteSet(Guards)       /\ Cardinality(Guards) \in Nat
         /\ IsFiniteSet(Unnumbered)   /\ Cardinality(Unnumbered) \in Nat
         /\ IsFiniteSet(undropped)    /\ Cardinality(undropped) \in Nat
<1>1. IsFiniteSet(AssociationId)
  BY FS_Interval, DatagramAssumption DEF AssociationId
<1>2. IsFiniteSet(associations) /\ IsFiniteSet(undropped)
  BY <1>1, FS_Subset DEF TypeOK
<1>3. Guards \in SUBSET Callers /\ Unnumbered \in SUBSET Callers
  BY DEF Guards, Unnumbered
<1>4. IsFiniteSet(Guards) /\ IsFiniteSet(Unnumbered)
  BY <1>3, FS_Subset, DatagramAssumption
<1> QED
  BY <1>2, <1>4, FS_CardinalityType

LEMMA InitEstablishes == Init => IInv
<1> SUFFICES ASSUME Init PROVE IInv
  OBVIOUS
<1> USE DEF Init, Idle
<1>1. TypeOK
  BY DatagramAssumption DEF TypeOK, CallState, AssociationId
<1>2. Guards = {} /\ Unnumbered = {}
  BY DEF Guards, Unnumbered
<1>3. PermitsConserved /\ IdsSuffice
  BY <1>2, FS_EmptySet, DatagramAssumption DEF PermitsConserved, IdsSuffice
<1>4. IdsHaveOneOwner /\ CallsAreOwned /\ CallsNameInserted /\ OpeningIsFirst
  BY DEF IdsHaveOneOwner, CallsAreOwned, CallsNameInserted, OpeningIsFirst
<1>5. OneAssociationPerEndpoint /\ SentAsInserted /\ ClosedAreGone
  BY DEF OneAssociationPerEndpoint, SentAsInserted, ClosedAreGone
<1> QED
  BY <1>1, <1>3, <1>4, <1>5 DEF IInv

(* A caller that is not about to insert, and does not become so, changes   *)
(* no set of identifiers by moving on.                                     *)
LEMMA InsertedUnchanged ==
  ASSUME UNCHANGED nextId,
         \A c \in Callers : \/ UNCHANGED call[c]
                            \/ call[c].at # "numbered" /\ call'[c].at # "numbered"
  PROVE  Inserted' = Inserted
  BY DEF Inserted

-----------------------------------------------------------------------------
(* One lemma per atomic access. *)
LEMMA FindPreserves ==
  ASSUME IInv, NEW c \in Callers, NEW e \in Endpoint, Find(c, e)
  PROVE  IInv'
<1> USE DEF IInv, Find, Go, Idle, registry
<1>1. Inserted' = Inserted
  BY InsertedUnchanged DEF TypeOK, CallState
<1>2. Guards' = Guards
  BY DEF Guards, TypeOK, CallState
<1>3. CASE Matching(e) = {}
  <2>1. c \notin Unnumbered /\ Unnumbered' = Unnumbered \cup {c}
    BY <1>3 DEF Unnumbered, TypeOK, CallState
  <2>2. Cardinality(Unnumbered') = Cardinality(Unnumbered) + 1 /\ Cardinality(Unnumbered) \in Nat
    BY <2>1, SetsFinite, FS_AddElement
  <2>3. IdsSuffice' /\ PermitsConserved'
    BY <1>2, <1>3, <2>2, DatagramAssumption
       DEF IdBudget, IdsSuffice, PermitsConserved, TypeOK
  <2>4. TypeOK'
    BY <1>3, DatagramAssumption DEF TypeOK, CallState
  <2>5. IdsHaveOneOwner' /\ CallsAreOwned' /\ CallsNameInserted' /\ SentAsInserted'
    BY <1>1, <1>3 DEF IdsHaveOneOwner, CallsAreOwned, CallsNameInserted, SentAsInserted,
                       TypeOK, CallState
  <2>6. OpeningIsFirst' /\ OneAssociationPerEndpoint' /\ ClosedAreGone'
    BY <1>1, <1>3 DEF ClosedAreGone, OpeningIsFirst, OneAssociationPerEndpoint, Matching, TypeOK, CallState
  <2> QED
    BY <2>3, <2>4, <2>5, <2>6
<1>4. CASE Matching(e) # {}
  <2> PICK id \in Matching(e) : call' = [call EXCEPT ![c] = [at |-> "found", from |-> e, id |-> id]]
    BY <1>4
  <2>1. id \in associations /\ endpoint[id] = e /\ id \in AssociationId
    BY DEF Matching, TypeOK
  <2>2. Unnumbered' = Unnumbered
    BY DEF Unnumbered, TypeOK, CallState
  <2>3. IdsSuffice' /\ PermitsConserved'
    BY <1>2, <2>2 DEF IdsSuffice, PermitsConserved
  <2>4. TypeOK'
    BY <2>1, DatagramAssumption DEF TypeOK, CallState, AssociationId
  <2>5. IdsHaveOneOwner' /\ CallsAreOwned' /\ CallsNameInserted' /\ SentAsInserted'
    BY <1>1, <2>1 DEF IdsHaveOneOwner, CallsAreOwned, CallsNameInserted, SentAsInserted,
                       TypeOK, CallState
  <2>6. OpeningIsFirst' /\ OneAssociationPerEndpoint' /\ ClosedAreGone'
    BY <1>1 DEF ClosedAreGone, OpeningIsFirst, OneAssociationPerEndpoint, TypeOK, CallState
  <2> QED
    BY <2>3, <2>4, <2>5, <2>6
<1> QED
  BY <1>3, <1>4

LEMMA ReservePreserves ==
  ASSUME IInv, NEW c \in Callers, Reserve(c)
  PROVE  IInv'
<1> USE DEF IInv, Reserve, Advance, Return, Idle
<1>1. Inserted' = Inserted
  BY InsertedUnchanged DEF TypeOK, CallState
<1>2. c \in Unnumbered /\ c \notin Guards
  BY DEF Unnumbered, Guards
<1>3. TypeOK'
  BY DatagramAssumption DEF TypeOK, CallState
<1>4. PermitsConserved' /\ IdsSuffice'
  <2>1. CASE permits > 0
    <3>1. Guards' = Guards \cup {c} /\ Unnumbered' = Unnumbered
      BY <2>1, <1>2 DEF Guards, Unnumbered, TypeOK, CallState
    <3>2. Cardinality(Guards') = Cardinality(Guards) + 1
      BY <1>2, <3>1, SetsFinite, FS_AddElement
    <3> QED
      BY <2>1, <3>1, <3>2, SetsFinite DEF PermitsConserved, IdsSuffice, TypeOK
  <2>2. CASE ~(permits > 0)
    <3>1. Guards' = Guards /\ Unnumbered' = Unnumbered \ {c}
      BY <2>2, <1>2 DEF Guards, Unnumbered, TypeOK, CallState
    <3>2. Cardinality(Unnumbered') = Cardinality(Unnumbered) - 1
      BY <1>2, <3>1, SetsFinite, FS_RemoveElement
    <3> QED
      BY <2>2, <3>1, <3>2, SetsFinite, DatagramAssumption
         DEF PermitsConserved, IdsSuffice, TypeOK
  <2> QED
    BY <2>1, <2>2
<1>5. IdsHaveOneOwner' /\ CallsAreOwned' /\ CallsNameInserted' /\ SentAsInserted'
  BY <1>1 DEF IdsHaveOneOwner, CallsAreOwned, CallsNameInserted, SentAsInserted, TypeOK, CallState
<1>6. OpeningIsFirst' /\ OneAssociationPerEndpoint' /\ ClosedAreGone'
  BY <1>1 DEF ClosedAreGone, OpeningIsFirst, OneAssociationPerEndpoint, TypeOK, CallState
<1> QED
  BY <1>3, <1>4, <1>5, <1>6

LEMMA NumberPreserves ==
  ASSUME IInv, NEW c \in Callers, Number(c)
  PROVE  IInv' /\ Inserted' = Inserted
<1> USE DEF IInv, Number, Go
<1>1. c \in Unnumbered /\ c \in Guards
  BY DEF Unnumbered, Guards
<1>2. Unnumbered' = Unnumbered \ {c} /\ Guards' = Guards
  BY <1>1 DEF Unnumbered, Guards, TypeOK, CallState
<1>3. Cardinality(Unnumbered') = Cardinality(Unnumbered) - 1 /\ Cardinality(Unnumbered) \in Nat
      /\ Cardinality(Unnumbered) # 0
  BY <1>1, <1>2, SetsFinite, FS_RemoveElement, FS_EmptySet
<1>4. nextId \in 1..MaxId
  BY <1>3, DatagramAssumption DEF IdsSuffice, TypeOK
<1>5. PermitsConserved' /\ IdsSuffice'
  BY <1>2, <1>3, <1>4, DatagramAssumption DEF PermitsConserved, IdsSuffice
<1>6. /\ call' \in [Callers -> CallState]
      /\ call'[c].at = "numbered" /\ call'[c].id = nextId
      /\ \A d \in Callers \ {c} : call'[d] = call[d]
  <2>1. call[c] \in CallState /\ call \in [Callers -> CallState]
    BY DEF TypeOK
  <2>2. [at |-> "numbered", from |-> call[c].from, id |-> nextId] \in CallState
    BY <1>4, <2>1, DatagramAssumption DEF CallState
  <2> QED
    BY <2>1, <2>2
<1>11. TypeOK'
  BY <1>4, <1>6, DatagramAssumption DEF TypeOK
<1>7. Inserted' = Inserted
  <2>0. nextId' = nextId + 1 /\ nextId \in Nat
    BY <1>4, DatagramAssumption
  <2>1. ASSUME NEW i \in 1..nextId
        PROVE  i \in Inserted' <=> i \in Inserted
    <3>1. CASE i = nextId
      BY <1>6, <2>0, <3>1 DEF Inserted
    <3>2. CASE i # nextId
      <4>1. \A d \in Callers : (call'[d].at = "numbered" => call'[d].id # i)
                               <=> (call[d].at = "numbered" => call[d].id # i)
        BY <1>6, <3>2
      <4>2. i \in 1..(nextId - 1) /\ i \in 1..(nextId' - 1)
        BY <2>0, <3>2
      <4> QED
        BY <4>1, <4>2 DEF Inserted
    <3> QED
      BY <3>1, <3>2
  <2>2. Inserted' \subseteq 1..nextId /\ Inserted \subseteq 1..nextId
    BY <1>4, DatagramAssumption DEF Inserted
  <2> QED
    BY <2>1, <2>2
<1>8. IdsHaveOneOwner'
  BY <1>4, <1>7, DatagramAssumption DEF IdsHaveOneOwner, TypeOK, CallState
<1>9. CallsAreOwned' /\ CallsNameInserted' /\ SentAsInserted'
  BY <1>7 DEF CallsAreOwned, CallsNameInserted, SentAsInserted, TypeOK, CallState
<1>10. OpeningIsFirst' /\ OneAssociationPerEndpoint' /\ ClosedAreGone'
  BY <1>7 DEF ClosedAreGone, OpeningIsFirst, OneAssociationPerEndpoint, TypeOK, CallState
<1> QED
  BY <1>5, <1>7, <1>8, <1>9, <1>10, <1>11

(* The identifier that is inserted is new, and the caller's guard counts.  *)
LEMMA InsertFacts ==
  ASSUME IInv, NEW c \in Callers, Insert(c)
  PROVE  /\ call[c].id \in AssociationId /\ call[c].id \in 1..(nextId - 1)
         /\ call[c].id \notin Inserted /\ call[c].id \notin associations
         /\ Inserted' = Inserted \cup {call[c].id}
         /\ Cardinality(associations) < Capacity
<1> USE DEF IInv, Insert, Advance
<1> DEFINE id == call[c].id
<1>1. id \in AssociationId /\ id \in 1..(nextId - 1)
  BY DatagramAssumption DEF IdsHaveOneOwner, TypeOK, AssociationId
<1>2. id \notin Inserted /\ id \notin associations
  BY DEF Inserted, IdsHaveOneOwner
<1>3. Inserted' = Inserted \cup {id}
  <2>1. ASSUME NEW i \in 1..(nextId - 1)
        PROVE  i \in Inserted' <=> i \in Inserted \cup {id}
    BY <1>1 DEF Inserted, IdsHaveOneOwner, TypeOK, CallState
  <2>2. Inserted \subseteq 1..(nextId - 1) /\ Inserted' \subseteq 1..(nextId - 1)
    BY DEF Inserted
  <2> QED
    BY <1>1, <2>1, <2>2
<1>4. Cardinality(associations) < Capacity
  <2>1. c \in Guards
    BY DEF Guards
  <2>2. Cardinality(Guards) # 0
    BY <2>1, SetsFinite, FS_EmptySet
  <2> QED
    BY <2>2, SetsFinite, DatagramAssumption DEF PermitsConserved, TypeOK
<1> QED
  BY <1>1, <1>2, <1>3, <1>4

LEMMA InsertPreserves ==
  ASSUME IInv, NEW c \in Callers, Insert(c)
  PROVE  IInv'
<1> USE DEF IInv, Insert, Advance, Touched
<1> DEFINE id == call[c].id
<1>1. /\ id \in AssociationId /\ id \in 1..(nextId - 1)
      /\ id \notin Inserted /\ id \notin associations
      /\ Inserted' = Inserted \cup {id}
  BY InsertFacts
<1>2. call[c].from \in Endpoint /\ Owner[call[c].from] = c
  BY DEF CallsAreOwned
<1>3. TypeOK'
  BY <1>1, <1>2 DEF TypeOK, CallState
<1>4. PermitsConserved' /\ IdsSuffice'
  <2>1. c \in Guards /\ Guards' = Guards \ {c} /\ Unnumbered' = Unnumbered
    BY DEF Guards, Unnumbered, TypeOK, CallState
  <2>2. /\ Cardinality(Guards') = Cardinality(Guards) - 1
        /\ Cardinality(associations') = Cardinality(associations) + 1
    BY <1>1, <2>1, SetsFinite, FS_AddElement, FS_RemoveElement
  <2> QED
    BY <2>1, <2>2, SetsFinite DEF PermitsConserved, IdsSuffice, TypeOK
<1>5. IdsHaveOneOwner' /\ CallsAreOwned'
  BY <1>1 DEF IdsHaveOneOwner, CallsAreOwned, TypeOK, CallState
<1>6. CallsNameInserted'
  BY <1>1 DEF CallsNameInserted, TypeOK, CallState
<1>7. SentAsInserted'
  BY <1>1 DEF SentAsInserted, TypeOK
<1>8. OneAssociationPerEndpoint'
  BY <1>1 DEF OneAssociationPerEndpoint, OpeningIsFirst, TypeOK
<1>9. OpeningIsFirst'
  <2> SUFFICES ASSUME NEW d \in Callers, call'[d].at \in {"opening", "reserved", "numbered"},
                      NEW i \in associations'
               PROVE  endpoint'[i] # call'[d].from
    BY DEF OpeningIsFirst
  <2>1. d # c /\ call'[d] = call[d]
    BY DEF TypeOK, CallState
  <2>2. Owner[call[d].from] = d
    BY <2>1 DEF CallsAreOwned
  <2>3. CASE i = id
    BY <1>1, <1>2, <2>1, <2>2, <2>3 DEF TypeOK
  <2>4. CASE i # id
    BY <1>1, <2>1, <2>4 DEF OpeningIsFirst, TypeOK
  <2> QED
    BY <2>3, <2>4
<1>10. ClosedAreGone'
  BY <1>1 DEF ClosedAreGone
<1> QED
  BY <1>3, <1>4, <1>5, <1>6, <1>7, <1>8, <1>9, <1>10

LEMMA DispatchPreserves ==
  ASSUME IInv, NEW c \in Callers, Dispatch(c)
  PROVE  IInv'
<1> USE DEF IInv, Dispatch, Return, Idle, registry
<1> DEFINE id == call[c].id
<1>1. Inserted' = Inserted
  BY InsertedUnchanged DEF TypeOK, CallState
<1>2. Guards' = Guards /\ Unnumbered' = Unnumbered
  BY DEF Guards, Unnumbered, TypeOK, CallState
<1>3. id \in Inserted /\ endpoint[id] = call[c].from /\ call[c].from \in Endpoint
  BY DEF CallsNameInserted, CallsAreOwned
<1>4. id \in AssociationId
  BY <1>3, DatagramAssumption DEF Inserted, TypeOK, CallState, AssociationId
<1>5. TypeOK'
  BY <1>3, <1>4, DatagramAssumption DEF TypeOK, CallState
<1>6. PermitsConserved' /\ IdsSuffice'
  BY <1>2 DEF PermitsConserved, IdsSuffice
<1>7. SentAsInserted'
  <2> SUFFICES ASSUME NEW i \in AssociationId, sent'[i] # {}
               PROVE  i \in Inserted /\ sent'[i] = {endpoint[i]}
    BY <1>1 DEF SentAsInserted
  <2>1. CASE i = id
    BY <1>3, <1>4, <2>1 DEF SentAsInserted, TypeOK
  <2>2. CASE i # id
    BY <1>4, <2>2 DEF SentAsInserted, TypeOK
  <2> QED
    BY <2>1, <2>2
<1>8. IdsHaveOneOwner' /\ CallsAreOwned' /\ CallsNameInserted'
  BY <1>1 DEF IdsHaveOneOwner, CallsAreOwned, CallsNameInserted, TypeOK, CallState
<1>9. OpeningIsFirst' /\ OneAssociationPerEndpoint' /\ ClosedAreGone'
  BY <1>1 DEF ClosedAreGone, OpeningIsFirst, OneAssociationPerEndpoint, TypeOK, CallState
<1> QED
  BY <1>5, <1>6, <1>7, <1>8, <1>9

(* Steps of a call that move neither a permit nor an identifier.           *)
LEMMA CallStepsPreserve ==
  ASSUME IInv, NEW c \in Callers,
         TouchFound(c) \/ RejectEnvelope(c) \/ TouchForward(c) \/ DispatchFails(c)
  PROVE  IInv'
<1> USE DEF IInv, TouchFound, RejectEnvelope, TouchForward, DispatchFails, Touched, Advance,
            Return, Idle, registry
<1>1. Inserted' = Inserted
  BY InsertedUnchanged DEF TypeOK, CallState
<1>2. Guards' = Guards /\ Unnumbered' = Unnumbered
  BY DEF Guards, Unnumbered, TypeOK, CallState
<1>3. PermitsConserved' /\ IdsSuffice'
  BY <1>2 DEF PermitsConserved, IdsSuffice
<1>4. TypeOK'
  <2>1. stale' \in [AssociationId -> BOOLEAN]
    BY DEF TypeOK
  <2>2. call' \in [Callers -> CallState]
    BY DatagramAssumption DEF TypeOK, CallState
  <2> QED
    BY <2>1, <2>2 DEF TypeOK
<1>5. IdsHaveOneOwner' /\ CallsAreOwned' /\ CallsNameInserted' /\ SentAsInserted'
  BY <1>1 DEF IdsHaveOneOwner, CallsAreOwned, CallsNameInserted, SentAsInserted, TypeOK, CallState
<1>6. OpeningIsFirst' /\ OneAssociationPerEndpoint' /\ ClosedAreGone'
  BY <1>1 DEF ClosedAreGone, OpeningIsFirst, OneAssociationPerEndpoint, TypeOK, CallState
<1> QED
  BY <1>3, <1>4, <1>5, <1>6

(* Associations that leave the map take their permits with them, back to   *)
(* the semaphore at once (a reap) or among those still to be dropped.      *)
LEMMA LeavingPreserves ==
  ASSUME IInv, NEW gone \in SUBSET associations,
         associations' = associations \ gone,
         \/ permits' = permits + Cardinality(gone) /\ undropped' = undropped
         \/ permits' = permits /\ undropped' = undropped \cup gone,
         UNCHANGED <<nextId, endpoint, stale, call, sent>>
  PROVE  IInv' /\ Inserted' = Inserted
<1> USE DEF IInv
<1>1. Inserted' = Inserted /\ Guards' = Guards /\ Unnumbered' = Unnumbered
  BY DEF Inserted, Guards, Unnumbered
<1>2. IsFiniteSet(gone) /\ Cardinality(gone) \in Nat
  BY SetsFinite, FS_Subset, FS_CardinalityType
<1>3. /\ Cardinality(associations \ gone) = Cardinality(associations) - Cardinality(gone)
      /\ Cardinality(associations \ gone) \in Nat
  <2>1. /\ IsFiniteSet(associations \ gone)
        /\ Cardinality(associations \ gone)
             = Cardinality(associations) - Cardinality(associations \cap gone)
    BY SetsFinite, FS_Difference
  <2>2. associations \cap gone = gone
    OBVIOUS
  <2> QED
    BY <2>1, <2>2, FS_CardinalityType
<1>9. Cardinality(undropped \cup gone) = Cardinality(undropped) + Cardinality(gone)
  <2>1. undropped \cap gone = {}
    BY DEF ClosedAreGone
  <2>2. Cardinality(undropped \cap gone) = 0
    BY <2>1, FS_EmptySet
  <2>3. IsFiniteSet(undropped) /\ Cardinality(undropped) \in Nat
    BY SetsFinite
  <2>4. Cardinality(undropped \cup gone)
          = Cardinality(undropped) + Cardinality(gone) - Cardinality(undropped \cap gone)
    BY <1>2, <2>3, FS_Union
  <2> QED
    BY <1>2, <2>2, <2>3, <2>4
<1>11. IdsSuffice'
  BY <1>1 DEF IdsSuffice
<1>4. PermitsConserved' /\ IdsSuffice'
  <2>1. /\ permits \in Nat /\ Cardinality(Guards) \in Nat
        /\ Cardinality(associations) \in Nat /\ Cardinality(undropped) \in Nat
        /\ permits + Cardinality(Guards) + Cardinality(associations)
             + Cardinality(undropped) = Capacity
    BY SetsFinite, DatagramAssumption DEF PermitsConserved, TypeOK
  <2>2. permits' + Cardinality(Guards) + Cardinality(associations \ gone)
          + Cardinality(undropped') = Capacity
    <3>1. CASE permits' = permits + Cardinality(gone) /\ undropped' = undropped
      BY <1>2, <1>3, <2>1, <3>1
    <3>2. CASE permits' = permits /\ undropped' = undropped \cup gone
      BY <1>2, <1>3, <1>9, <2>1, <3>2
    <3> QED
      BY <3>1, <3>2
  <2> QED
    BY <1>1, <1>11, <2>2 DEF PermitsConserved
<1>5. permits' \in 0..Capacity
  BY <1>1, <1>2, <1>3, <1>4, SetsFinite, DatagramAssumption DEF PermitsConserved, TypeOK
<1>6. TypeOK'
  BY <1>5 DEF TypeOK
<1>7. IdsHaveOneOwner' /\ CallsAreOwned' /\ CallsNameInserted' /\ SentAsInserted'
  BY <1>1 DEF IdsHaveOneOwner, CallsAreOwned, CallsNameInserted, SentAsInserted
<1>8. OpeningIsFirst' /\ OneAssociationPerEndpoint'
  BY DEF OpeningIsFirst, OneAssociationPerEndpoint
<1>10. ClosedAreGone'
  BY <1>1 DEF ClosedAreGone, IdsHaveOneOwner
<1> QED
  BY <1>1, <1>4, <1>6, <1>7, <1>8, <1>10

LEMMA ClosePreserves ==
  ASSUME IInv, NEW id \in AssociationId, CloseAssociation(id)
  PROVE  IInv' /\ Inserted' = Inserted
BY LeavingPreserves DEF CloseAssociation

LEMMA ReapPreserves ==
  ASSUME IInv, ReapIdle
  PROVE  IInv' /\ Inserted' = Inserted
<1> DEFINE idle == {id \in associations : stale[id]}
<1>1. idle \in SUBSET associations
  OBVIOUS
<1> QED
  BY <1>1, LeavingPreserves DEF ReapIdle

LEMMA DropPreserves ==
  ASSUME IInv, NEW id \in AssociationId, DropPermit(id)
  PROVE  IInv' /\ Inserted' = Inserted
<1> USE DEF IInv, DropPermit
<1>1. Inserted' = Inserted /\ Guards' = Guards /\ Unnumbered' = Unnumbered
  BY DEF Inserted, Guards, Unnumbered
<1>2. /\ Cardinality(undropped') = Cardinality(undropped) - 1
      /\ Cardinality(undropped') \in Nat
  BY SetsFinite, FS_RemoveElement, FS_CardinalityType
<1>3. PermitsConserved' /\ IdsSuffice'
  BY <1>1, <1>2, SetsFinite DEF PermitsConserved, IdsSuffice, TypeOK
<1>4. TypeOK'
  BY <1>1, <1>2, <1>3, SetsFinite, DatagramAssumption DEF PermitsConserved, TypeOK
<1>5. IdsHaveOneOwner' /\ CallsAreOwned' /\ CallsNameInserted' /\ SentAsInserted'
  BY <1>1 DEF IdsHaveOneOwner, CallsAreOwned, CallsNameInserted, SentAsInserted
<1>6. OpeningIsFirst' /\ OneAssociationPerEndpoint' /\ ClosedAreGone'
  BY <1>1 DEF ClosedAreGone, OpeningIsFirst, OneAssociationPerEndpoint
<1> QED
  BY <1>1, <1>3, <1>4, <1>5, <1>6

LEMMA TimePreserves ==
  ASSUME IInv, \/ \E id \in AssociationId : TouchInbound(id) \/ GrowStale(id)
               \/ UNCHANGED vars
  PROVE  IInv' /\ Inserted' = Inserted
<1> USE DEF IInv, TouchInbound, GrowStale, Touched, vars
<1>1. /\ UNCHANGED <<permits, nextId, associations, endpoint, call, undropped, sent>>
      /\ stale' \in [AssociationId -> BOOLEAN]
  BY DEF TypeOK
<1>2. Inserted' = Inserted /\ Guards' = Guards /\ Unnumbered' = Unnumbered
  BY <1>1 DEF Inserted, Guards, Unnumbered
<1>3. TypeOK' /\ PermitsConserved' /\ IdsSuffice'
  BY <1>1, <1>2 DEF TypeOK, PermitsConserved, IdsSuffice
<1>4. IdsHaveOneOwner' /\ CallsAreOwned' /\ CallsNameInserted' /\ SentAsInserted'
  BY <1>1, <1>2 DEF IdsHaveOneOwner, CallsAreOwned, CallsNameInserted, SentAsInserted
<1>5. OpeningIsFirst' /\ OneAssociationPerEndpoint' /\ ClosedAreGone'
  BY <1>1, <1>2 DEF ClosedAreGone, OpeningIsFirst, OneAssociationPerEndpoint
<1> QED
  BY <1>2, <1>3, <1>4, <1>5

LEMMA NextPreserves == IInv /\ [Next]_vars => IInv'
<1> SUFFICES ASSUME IInv, [Next]_vars PROVE IInv'
  OBVIOUS
<1>1. ASSUME NEW c \in Callers, CallerStep(c)
      PROVE  IInv'
  BY <1>1, FindPreserves, ReservePreserves, NumberPreserves, InsertPreserves, DispatchPreserves,
     CallStepsPreserve DEF CallerStep
<1>2. ASSUME NEW id \in AssociationId,
             TouchInbound(id) \/ CloseAssociation(id) \/ DropPermit(id) \/ GrowStale(id)
      PROVE  IInv'
  BY <1>2, ClosePreserves, DropPreserves, TimePreserves
<1>3. CASE ReapIdle
  BY <1>3, ReapPreserves
<1>4. CASE UNCHANGED vars
  BY <1>4, TimePreserves
<1> QED
  BY <1>1, <1>2, <1>3, <1>4 DEF Next, Exhausted

THEOREM ManagerInvariant == Spec => []IInv
  BY InitEstablishes, NextPreserves, PTL DEF Spec

(* The counters stay in their bounds, the semaphore in 0..Capacity, and    *)
(* every caller is somewhere in a call of its own.                         *)
THEOREM ManagerTypeCorrect == Spec => []TypeOK
<1>1. IInv => TypeOK
  BY DEF IInv
<1> QED
  BY <1>1, ManagerInvariant, PTL

(* No interleaving of open, close and reap loses or mints a permit of the  *)
(* association registry, the close that drops its permit late included.    *)
THEOREM ManagerConservesPermits == Spec => []PermitsConserved
<1>1. IInv => PermitsConserved
  BY DEF IInv
<1> QED
  BY <1>1, ManagerInvariant, PTL

(* Two associations never have the same relay and client: the lookup and   *)
(* the insertion of ensure_outbound_association do not race, for any       *)
(* number of relay loops.                                                  *)
THEOREM EndpointsAreUnique == Spec => []OneAssociationPerEndpoint
<1>1. IInv => OneAssociationPerEndpoint
  BY DEF IInv
<1> QED
  BY <1>1, ManagerInvariant, PTL

(* Under one identifier the datagrams of one client at one relay are       *)
(* dispatched, however late a call that found the association goes on.     *)
THEOREM IdentitiesAreNotShared == Spec => []IdentityNotShared
<1>1. IInv => IdentityNotShared
  <2> SUFFICES ASSUME IInv, NEW id \in AssociationId
               PROVE  Cardinality(sent[id]) <= 1
    BY DEF IdentityNotShared
  <2>1. CASE sent[id] = {}
    BY <2>1, FS_EmptySet
  <2>2. CASE sent[id] # {}
    <3>1. sent[id] = {endpoint[id]}
      BY <2>2 DEF IInv, SentAsInserted
    <3>2. Cardinality({endpoint[id]}) = 1
      BY FS_Singleton
    <3> QED
      BY <3>1, <3>2
  <2> QED
    BY <2>1, <2>2
<1> QED
  BY <1>1, ManagerInvariant, PTL

-----------------------------------------------------------------------------
(* The refinement of CapacityPool, step by step. *)
LEMMA InsertAdmits ==
  ASSUME IInv, NEW c \in Callers, Insert(c)
  PROVE  Pool!Next
<1> DEFINE id == call[c].id
<1>1. /\ id \in AssociationId /\ id \notin Inserted /\ id \notin associations
      /\ Inserted' = Inserted \cup {id}
      /\ Cardinality(associations) < Capacity
  BY InsertFacts
<1>2. associations' = associations \cup {id}
  BY DEF Insert
<1>3. (Inserted \ associations)' = Inserted \ associations
  BY <1>1, <1>2
<1>4. Pool!Cardinality(associations) = Cardinality(associations)
  BY DEF Pool!Cardinality, Cardinality
<1>5. Pool!Admit(id)
  BY <1>1, <1>2, <1>3, <1>4 DEF Pool!Admit
<1> QED
  BY <1>1, <1>5 DEF Pool!Next

LEMMA LeavingRetires ==
  ASSUME IInv, NEW gone \in SUBSET associations, gone # {},
         associations' = associations \ gone, Inserted' = Inserted
  PROVE  Pool!Next
<1>1. associations \subseteq Inserted
  BY DEF IInv, IdsHaveOneOwner
<1>2. (Inserted \ associations)' = (Inserted \ associations) \cup gone
  BY <1>1
<1>3. Pool!Retire(gone)
  BY <1>2 DEF Pool!Retire
<1> QED
  BY <1>3 DEF Pool!Next

LEMMA StepRefinesPool == IInv /\ [Next]_vars => [Pool!Next]_(Pool!vars)
<1> SUFFICES ASSUME IInv, [Next]_vars PROVE [Pool!Next]_(Pool!vars)
  OBVIOUS
<1>1. ASSUME associations' = associations, Inserted' = Inserted
      PROVE  [Pool!Next]_(Pool!vars)
  BY <1>1 DEF Pool!vars
<1>2. ASSUME NEW c \in Callers, CallerStep(c)
      PROVE  [Pool!Next]_(Pool!vars)
  <2>1. CASE Insert(c)
    BY <2>1, InsertAdmits
  <2>2. CASE Number(c)
    BY <2>2, <1>1, NumberPreserves DEF Number
  <2>3. CASE \/ \E e \in Endpoint : Find(c, e)
             \/ TouchFound(c) \/ Reserve(c) \/ RejectEnvelope(c)
             \/ TouchForward(c) \/ Dispatch(c) \/ DispatchFails(c)
    <3>1. UNCHANGED <<associations, nextId>>
      BY <2>3 DEF Find, TouchFound, Reserve, RejectEnvelope, TouchForward, Dispatch,
                  DispatchFails, registry
    <3>2. \A d \in Callers : \/ UNCHANGED call[d]
                             \/ call[d].at # "numbered" /\ call'[d].at # "numbered"
      BY <2>3 DEF IInv, TypeOK, CallState, Find, TouchFound, Reserve, RejectEnvelope,
                  TouchForward, Dispatch, DispatchFails, Go, Advance, Return, Idle
    <3> QED
      BY <3>1, <3>2, <1>1, InsertedUnchanged
  <2> QED
    BY <1>2, <2>1, <2>2, <2>3 DEF CallerStep
<1>3. ASSUME NEW id \in AssociationId, CloseAssociation(id)
      PROVE  [Pool!Next]_(Pool!vars)
  BY <1>3, ClosePreserves, LeavingRetires DEF CloseAssociation
<1>6. ASSUME NEW id \in AssociationId, DropPermit(id)
      PROVE  [Pool!Next]_(Pool!vars)
  BY <1>6, <1>1, DropPreserves DEF DropPermit
<1>4. CASE ReapIdle
  <2> DEFINE idle == {id \in associations : stale[id]}
  <2>1. idle \in SUBSET associations /\ idle # {} /\ associations' = associations \ idle
    BY <1>4 DEF ReapIdle
  <2> QED
    BY <1>4, <2>1, ReapPreserves, LeavingRetires
<1>5. ASSUME \/ \E id \in AssociationId : TouchInbound(id) \/ GrowStale(id)
             \/ UNCHANGED vars
      PROVE  [Pool!Next]_(Pool!vars)
  BY <1>5, <1>1, TimePreserves DEF TouchInbound, GrowStale, vars
<1> QED
  BY <1>2, <1>3, <1>4, <1>5, <1>6 DEF Next, Exhausted

(* The association registry implements the pool: never more associations   *)
(* than max_associations, and an identifier never comes back.              *)
THEOREM ManagerImplementsPool == Spec => ImplementsPool
<1>1. Init => Pool!Init
  <2> SUFFICES ASSUME Init PROVE associations = {} /\ Inserted \ associations = {}
    BY DEF Pool!Init
  <2>1. 1..(nextId - 1) = {}
    BY DEF Init
  <2> QED
    BY <2>1 DEF Init, Inserted
<1> QED
  BY <1>1, ManagerInvariant, StepRefinesPool, PTL DEF Spec, ImplementsPool, Pool!Spec

=============================================================================
