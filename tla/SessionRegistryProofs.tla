----------------------- MODULE SessionRegistryProofs ------------------------
(***************************************************************************)
(* For every set of callers, capacity and identifier bound: the registry   *)
(* keeps its types, conserves its permits and implements CapacityPool.     *)
(*                                                                         *)
(* PermitsConserved alone is not inductive: a step moves a permit from one *)
(* owner to the next and the count is kept only if the two were distinct,  *)
(* hence the ownership facts of IInv below.                                *)
(***************************************************************************)
EXTENDS SessionRegistry, FiniteSetTheorems, TLAPS

(* No identifier is in two places: in the map, drained, or numbered by one *)
(* of the callers of insert.                                               *)
IdsHaveOneOwner ==
  /\ sessions \cap undropped = {}
  /\ \A id \in sessions \cup undropped : id < nextId
  /\ \A c \in Callers : call[c].at = "numbered" =>
       /\ call[c].sid \in 1..(nextId - 1)
       /\ call[c].sid \notin sessions \cup undropped
       /\ \A d \in Callers : d # c /\ call[d].at = "numbered" => call[d].sid # call[c].sid

(* The caller inside reap_idle holds the map lock: it is the only one, the *)
(* entries it has yet to visit are still in the map, and so is the one it  *)
(* is about to remove.                                                     *)
ReaperHoldsMap ==
  \A c \in Callers : Reaping(c) =>
    /\ call[c].todo \subseteq sessions
    /\ call[c].at = "condemning" => call[c].sid \in call[c].todo
    /\ \A d \in Callers : Reaping(d) => d = c

CommandsNameInserted ==
  \A c \in Callers : call[c].at \in {"MarkNoNewStreams", "CloseGently", "CloseForced"}
                       => call[c].sid \in SessionId

IInv ==
  /\ TypeOK
  /\ PermitsConserved
  /\ IdsHaveOneOwner
  /\ ReaperHoldsMap
  /\ CommandsNameInserted

-----------------------------------------------------------------------------
(* The sets that own permits are finite, so their sizes are numbers. *)
LEMMA OwnersFinite ==
  ASSUME TypeOK
  PROVE  /\ IsFiniteSet(sessions)  /\ Cardinality(sessions) \in Nat
         /\ IsFiniteSet(undropped) /\ Cardinality(undropped) \in Nat
         /\ IsFiniteSet(Guards)    /\ Cardinality(Guards) \in Nat
<1>1. IsFiniteSet(SessionId)
  BY FS_Interval, RegistryAssumption DEF SessionId
<1>2. IsFiniteSet(sessions) /\ IsFiniteSet(undropped)
  BY <1>1, FS_Subset DEF TypeOK
<1>3. Guards \in SUBSET Callers
  BY DEF Guards
<1>4. IsFiniteSet(Guards)
  BY <1>3, FS_Subset, RegistryAssumption
<1> QED
  BY <1>2, <1>4, FS_CardinalityType

(* What the registry writes into a record is a record again. *)
LEMMA RecordsTyped ==
  /\ NewRecord \in Record
  /\ \A r \in Record : \A op \in {"MarkNoNewStreams", "CloseGently", "CloseForced"} :
       Commanded(r, op) \in Record
<1>1. Active(0) \in State /\ Closed \in State /\ Closing("drain_shutdown") \in State
  BY MaxStreamsAssumption DEF State, CloseReason
<1>2. NewRecord \in Record
  BY <1>1 DEF NewRecord, Record
<1>3. ASSUME NEW r \in Record,
             NEW op \in {"MarkNoNewStreams", "CloseGently", "CloseForced"}
      PROVE  Commanded(r, op) \in Record
  <2>1. CASE op = "CloseGently"
    BY <2>1, <1>1 DEF Commanded, Record
  <2>2. CASE op = "CloseForced"
    BY <2>2, <1>1 DEF Commanded, Record
  <2>3. CASE op = "MarkNoNewStreams"
    BY <2>3, <1>1 DEF Commanded, Record
  <2> QED
    BY <2>1, <2>2, <2>3
<1> QED
  BY <1>2, <1>3

LEMMA InitEstablishes == Init => IInv
<1> SUFFICES ASSUME Init PROVE IInv
  OBVIOUS
<1>1. TypeOK
  BY RecordsTyped, RegistryAssumption DEF Init, TypeOK, Idle, CallState, SessionId
<1>2. Guards = {}
  BY DEF Init, Guards, Idle
<1>3. PermitsConserved
  BY <1>2, FS_EmptySet, RegistryAssumption DEF Init, PermitsConserved
<1>4. IdsHaveOneOwner /\ ReaperHoldsMap /\ CommandsNameInserted
  BY DEF Init, Idle, IdsHaveOneOwner, ReaperHoldsMap, Reaping, CommandsNameInserted
<1> QED
  BY <1>1, <1>3, <1>4 DEF IInv

(* With the other fields typed, conservation bounds the semaphore. *)
LEMMA ConservedBoundsPermits ==
  ASSUME PermitsConserved, permits \in Int, permits >= 0,
         Cardinality(Guards) \in Nat, Cardinality(sessions) \in Nat,
         Cardinality(undropped) \in Nat
  PROVE  permits \in 0..Capacity
  BY RegistryAssumption DEF PermitsConserved

-----------------------------------------------------------------------------
(* One lemma per atomic access of the registry. *)
LEMMA TryReservePreserves ==
  ASSUME IInv, NEW c \in Callers, TryReserve(c)
  PROVE  IInv'
<1> USE DEF IInv, TryReserve, Idle, At
<1>1. c \notin Guards /\ Guards' = Guards \cup {c}
  BY DEF Guards, TypeOK
<1>2. /\ Cardinality(Guards') = Cardinality(Guards) + 1
      /\ Cardinality(Guards) \in Nat /\ Cardinality(sessions) \in Nat
      /\ Cardinality(undropped) \in Nat
  BY <1>1, OwnersFinite, FS_AddElement
<1>3. PermitsConserved'
  BY <1>2 DEF PermitsConserved, TypeOK
<1>4. TypeOK'
  BY RegistryAssumption DEF TypeOK, CallState
<1>5. IdsHaveOneOwner'
  BY DEF IdsHaveOneOwner, TypeOK
<1>6. ReaperHoldsMap' /\ CommandsNameInserted'
  BY DEF ReaperHoldsMap, Reaping, CommandsNameInserted, TypeOK
<1> QED
  BY <1>3, <1>4, <1>5, <1>6

LEMMA AssignIdPreserves ==
  ASSUME IInv, NEW c \in Callers, AssignId(c)
  PROVE  IInv'
<1> USE DEF IInv, AssignId, At
<1>1. Guards' = Guards
  BY DEF Guards, TypeOK
<1>2. PermitsConserved'
  BY <1>1 DEF PermitsConserved
<1>3. TypeOK'
  BY RegistryAssumption DEF TypeOK, CallState, SessionId
<1>4. IdsHaveOneOwner'
  <2>1. nextId \in Nat /\ nextId >= 1 /\ nextId \notin sessions \cup undropped
    BY RegistryAssumption DEF TypeOK, IdsHaveOneOwner
  <2>2. (sessions \cap undropped = {})'
    BY DEF IdsHaveOneOwner
  <2>3. (\A id \in sessions \cup undropped : id < nextId)'
    BY <2>1, RegistryAssumption DEF IdsHaveOneOwner, TypeOK, SessionId
  <2>4. ASSUME NEW d \in Callers, call'[d].at = "numbered"
        PROVE  /\ call'[d].sid \in 1..(nextId' - 1)
               /\ call'[d].sid \notin sessions' \cup undropped'
               /\ \A e \in Callers : e # d /\ call'[e].at = "numbered"
                                      => call'[e].sid # call'[d].sid
    BY <2>1, <2>4 DEF IdsHaveOneOwner, TypeOK
  <2> QED
    BY <2>2, <2>3, <2>4 DEF IdsHaveOneOwner
<1>5. ReaperHoldsMap' /\ CommandsNameInserted'
  BY DEF ReaperHoldsMap, Reaping, CommandsNameInserted, TypeOK
<1> QED
  BY <1>2, <1>3, <1>4, <1>5

LEMMA PublishPreserves ==
  ASSUME IInv, NEW c \in Callers, Publish(c)
  PROVE  IInv'
<1> USE DEF IInv, Publish, Idle
<1> DEFINE id == call[c].sid
<1>1. id \in SessionId /\ id < nextId /\ id \notin sessions \cup undropped
  BY RegistryAssumption DEF IdsHaveOneOwner, TypeOK, SessionId
<1>2. c \in Guards /\ Guards' = Guards \ {c}
  BY DEF Guards, TypeOK
<1>3. /\ Cardinality(Guards') = Cardinality(Guards) - 1
      /\ Cardinality(sessions') = Cardinality(sessions) + 1
      /\ Cardinality(Guards) \in Nat /\ Cardinality(sessions) \in Nat
      /\ Cardinality(undropped) \in Nat
  BY <1>1, <1>2, OwnersFinite, FS_AddElement, FS_RemoveElement
<1>4. PermitsConserved'
  BY <1>3 DEF PermitsConserved, TypeOK
<1>5. TypeOK'
  BY <1>1, RecordsTyped, RegistryAssumption DEF TypeOK, CallState
<1>6. IdsHaveOneOwner'
  BY <1>1 DEF IdsHaveOneOwner, TypeOK
<1>7. ReaperHoldsMap' /\ CommandsNameInserted'
  BY DEF ReaperHoldsMap, Reaping, CommandsNameInserted, TypeOK, MapUnlocked
<1> QED
  BY <1>4, <1>5, <1>6, <1>7

LEMMA RemovePreserves ==
  ASSUME IInv, NEW id \in SessionId, Remove(id)
  PROVE  IInv'
<1> USE DEF IInv, Remove
<1>1. Guards' = Guards
  BY DEF Guards
<1>2. /\ Cardinality(sessions') = Cardinality(sessions) - 1
      /\ Cardinality(sessions') \in Nat
      /\ Cardinality(Guards) \in Nat /\ Cardinality(sessions) \in Nat
      /\ Cardinality(undropped) \in Nat
  BY OwnersFinite, FS_RemoveElement, FS_CardinalityType
<1>3. PermitsConserved'
  BY <1>1, <1>2 DEF PermitsConserved, TypeOK
<1>4. permits' \in 0..Capacity
  BY <1>1, <1>2, <1>3, RegistryAssumption DEF PermitsConserved, TypeOK
<1>5. TypeOK'
  BY <1>4 DEF TypeOK
<1>6. IdsHaveOneOwner'
  BY DEF IdsHaveOneOwner
<1>7. ReaperHoldsMap' /\ CommandsNameInserted'
  BY DEF ReaperHoldsMap, Reaping, CommandsNameInserted, MapUnlocked
<1> QED
  BY <1>3, <1>5, <1>6, <1>7

LEMMA DrainAllPreserves ==
  ASSUME IInv, DrainAll
  PROVE  IInv'
<1> USE DEF IInv, DrainAll
<1>1. Guards' = Guards
  BY DEF Guards
<1>2. Cardinality(sessions') = 0
  BY FS_EmptySet
<1>3. Cardinality(undropped') = Cardinality(undropped) + Cardinality(sessions)
  <2>1. undropped \cap sessions = {} /\ Cardinality({}) = 0
    BY FS_EmptySet DEF IdsHaveOneOwner
  <2>2. Cardinality(undropped') =
          Cardinality(undropped) + Cardinality(sessions) - Cardinality(undropped \cap sessions)
    BY OwnersFinite, FS_Union
  <2> QED
    BY <2>1, <2>2, OwnersFinite
<1>4. PermitsConserved'
  BY <1>1, <1>2, <1>3, OwnersFinite DEF PermitsConserved, TypeOK
<1>5. TypeOK'
  BY DEF TypeOK
<1>6. IdsHaveOneOwner'
  BY DEF IdsHaveOneOwner
<1>7. ReaperHoldsMap' /\ CommandsNameInserted'
  BY DEF ReaperHoldsMap, Reaping, CommandsNameInserted, MapUnlocked
<1> QED
  BY <1>4, <1>5, <1>6, <1>7

LEMMA DropPermitPreserves ==
  ASSUME IInv, NEW id \in SessionId, DropPermit(id)
  PROVE  IInv'
<1> USE DEF IInv, DropPermit
<1>1. Guards' = Guards
  BY DEF Guards
<1>2. /\ Cardinality(undropped') = Cardinality(undropped) - 1
      /\ Cardinality(undropped') \in Nat
      /\ Cardinality(Guards) \in Nat /\ Cardinality(sessions) \in Nat
      /\ Cardinality(undropped) \in Nat
  BY OwnersFinite, FS_RemoveElement, FS_CardinalityType
<1>3. PermitsConserved'
  BY <1>1, <1>2 DEF PermitsConserved, TypeOK
<1>4. permits' \in 0..Capacity
  BY <1>1, <1>2, <1>3, RegistryAssumption DEF PermitsConserved, TypeOK
<1>5. TypeOK'
  BY <1>4 DEF TypeOK
<1>6. IdsHaveOneOwner'
  BY DEF IdsHaveOneOwner
<1>7. ReaperHoldsMap' /\ CommandsNameInserted'
  BY DEF ReaperHoldsMap, Reaping, CommandsNameInserted
<1> QED
  BY <1>3, <1>5, <1>6, <1>7

LEMMA ReapRemovePreserves ==
  ASSUME IInv, NEW c \in Callers, ReapRemove(c)
  PROVE  IInv'
<1> USE DEF IInv, ReapRemove
<1> DEFINE id == call[c].sid
<1>1. id \in sessions /\ call[c].todo \subseteq sessions
  BY DEF ReaperHoldsMap, Reaping
<1>2. Guards' = Guards
  BY DEF Guards, TypeOK
<1>3. /\ Cardinality(sessions') = Cardinality(sessions) - 1
      /\ Cardinality(sessions') \in Nat
      /\ Cardinality(Guards) \in Nat /\ Cardinality(sessions) \in Nat
      /\ Cardinality(undropped) \in Nat
  BY <1>1, OwnersFinite, FS_RemoveElement, FS_CardinalityType
<1>4. PermitsConserved'
  BY <1>2, <1>3 DEF PermitsConserved, TypeOK
<1>5. permits' \in 0..Capacity
  BY <1>2, <1>3, <1>4, RegistryAssumption DEF PermitsConserved, TypeOK
<1>6. call' \in [Callers -> CallState]
  BY <1>1, RegistryAssumption DEF TypeOK, CallState
<1>7. TypeOK'
  BY <1>5, <1>6 DEF TypeOK
<1>8. IdsHaveOneOwner'
  BY DEF IdsHaveOneOwner, TypeOK
<1>9. ReaperHoldsMap' /\ CommandsNameInserted'
  BY DEF ReaperHoldsMap, Reaping, CommandsNameInserted, TypeOK
<1> QED
  BY <1>4, <1>7, <1>8, <1>9

(* Steps that move no permit and no identifier. *)
LEMMA OtherStepsPreserve ==
  ASSUME IInv,
         \/ \E c \in Callers :
              ReapStart(c) \/ ReapEnd(c) \/ ExecuteCommand(c)
                \/ \E id \in SessionId :
                      \/ ReapVisit(c, id)
                      \/ \E op \in {"MarkNoNewStreams", "CloseGently", "CloseForced"} :
                           FindForCommand(c, id, op)
         \/ \E id \in SessionId : Touch(id) \/ GrowIdle(id)
         \/ UNCHANGED vars
  PROVE  IInv'
<1> USE DEF IInv, Idle, At
<1>1. ASSUME NEW c \in Callers, ReapStart(c)
      PROVE  IInv'
  <2>1. Guards' = Guards
    BY <1>1 DEF ReapStart, Guards, TypeOK
  <2>2. TypeOK' /\ PermitsConserved'
    BY <1>1, <2>1 DEF ReapStart, TypeOK, CallState, PermitsConserved
  <2>3. IdsHaveOneOwner' /\ ReaperHoldsMap' /\ CommandsNameInserted'
    BY <1>1 DEF ReapStart, IdsHaveOneOwner, ReaperHoldsMap, Reaping, CommandsNameInserted, TypeOK,
                MapUnlocked
  <2> QED
    BY <2>2, <2>3
<1>2. ASSUME NEW c \in Callers, ReapEnd(c)
      PROVE  IInv'
  <2>1. Guards' = Guards
    BY <1>2 DEF ReapEnd, Guards, TypeOK
  <2>2. TypeOK' /\ PermitsConserved'
    BY <1>2, <2>1, RegistryAssumption DEF ReapEnd, TypeOK, CallState, PermitsConserved
  <2>3. IdsHaveOneOwner' /\ ReaperHoldsMap' /\ CommandsNameInserted'
    BY <1>2 DEF ReapEnd, IdsHaveOneOwner, ReaperHoldsMap, Reaping, CommandsNameInserted, TypeOK
  <2> QED
    BY <2>2, <2>3
<1>3. ASSUME NEW c \in Callers, ExecuteCommand(c)
      PROVE  IInv'
  <2>1. Guards' = Guards
    BY <1>3 DEF ExecuteCommand, Guards, TypeOK
  <2>2. record' \in [SessionId -> Record]
    BY <1>3, RecordsTyped DEF ExecuteCommand, TypeOK, CommandsNameInserted
  <2>3. TypeOK' /\ PermitsConserved'
    BY <1>3, <2>1, <2>2, RegistryAssumption
       DEF ExecuteCommand, TypeOK, CallState, PermitsConserved
  <2>4. IdsHaveOneOwner' /\ ReaperHoldsMap' /\ CommandsNameInserted'
    BY <1>3 DEF ExecuteCommand, IdsHaveOneOwner, ReaperHoldsMap, Reaping,
                CommandsNameInserted, TypeOK
  <2> QED
    BY <2>3, <2>4
<1>4. ASSUME NEW c \in Callers, NEW id \in SessionId,
             NEW op \in {"MarkNoNewStreams", "CloseGently", "CloseForced"},
             FindForCommand(c, id, op)
      PROVE  IInv'
  <2>1. Guards' = Guards
    BY <1>4 DEF FindForCommand, Guards, TypeOK
  <2>2. TypeOK' /\ PermitsConserved'
    BY <1>4, <2>1 DEF FindForCommand, TypeOK, CallState, PermitsConserved, SessionId
  <2>3. IdsHaveOneOwner' /\ ReaperHoldsMap' /\ CommandsNameInserted'
    BY <1>4 DEF FindForCommand, IdsHaveOneOwner, ReaperHoldsMap, Reaping,
                CommandsNameInserted, TypeOK
  <2> QED
    BY <2>2, <2>3
<1>5. ASSUME NEW id \in SessionId, Touch(id) \/ GrowIdle(id)
      PROVE  IInv'
  <2>1. record' \in [SessionId -> Record]
    BY <1>5 DEF Touch, GrowIdle, TypeOK, Record
  <2>2. Guards' = Guards
    BY <1>5 DEF Touch, GrowIdle, Guards
  <2>3. TypeOK' /\ PermitsConserved'
    BY <1>5, <2>1, <2>2 DEF Touch, GrowIdle, TypeOK, PermitsConserved
  <2>4. IdsHaveOneOwner' /\ ReaperHoldsMap' /\ CommandsNameInserted'
    BY <1>5 DEF Touch, GrowIdle, IdsHaveOneOwner, ReaperHoldsMap, Reaping, CommandsNameInserted
  <2> QED
    BY <2>3, <2>4
<1>6. ASSUME NEW c \in Callers, NEW id \in SessionId, ReapVisit(c, id)
      PROVE  IInv'
  <2>1. call' \in [Callers -> CallState]
    BY <1>6 DEF ReapVisit, TypeOK, CallState, SessionId
  <2>2. \A d \in Callers : d # c => call'[d] = call[d]
    BY <1>6 DEF ReapVisit, TypeOK
  <2>3. /\ call[c].at = "reaping" /\ call'[c].at \in {"reaping", "condemning"}
        /\ call'[c].todo \subseteq call[c].todo
        /\ call'[c].at = "condemning" => call'[c].sid \in call'[c].todo
    BY <1>6 DEF ReapVisit, TypeOK, CallState
  <2>4. UNCHANGED <<permits, nextId, sessions, record, undropped>>
    BY <1>6 DEF ReapVisit
  <2>5. Guards' = Guards
    BY <2>2, <2>3 DEF Guards
  <2>6. TypeOK' /\ PermitsConserved'
    BY <2>1, <2>4, <2>5 DEF TypeOK, PermitsConserved
  <2>7. IdsHaveOneOwner'
    BY <2>2, <2>3, <2>4 DEF IdsHaveOneOwner
  <2>8. ReaperHoldsMap' /\ CommandsNameInserted'
    BY <2>2, <2>3, <2>4 DEF ReaperHoldsMap, Reaping, CommandsNameInserted
  <2> QED
    BY <2>6, <2>7, <2>8
<1>7. CASE UNCHANGED vars
  BY <1>7 DEF vars, TypeOK, PermitsConserved, Guards, IdsHaveOneOwner, ReaperHoldsMap, Reaping,
              CommandsNameInserted
<1> QED
  BY <1>1, <1>2, <1>3, <1>4, <1>5, <1>6, <1>7

LEMMA NextPreserves == IInv /\ [Next]_vars => IInv'
<1> SUFFICES ASSUME IInv, [Next]_vars PROVE IInv'
  OBVIOUS
<1>1. CASE SharedStep
  BY <1>1, DrainAllPreserves, RemovePreserves, DropPermitPreserves, OtherStepsPreserve
     DEF SharedStep
<1>2. ASSUME NEW c \in Callers, CallerStep(c)
      PROVE  IInv'
  BY <1>2, TryReservePreserves, AssignIdPreserves, PublishPreserves, ReapRemovePreserves,
     OtherStepsPreserve DEF CallerStep
<1>3. CASE UNCHANGED vars
  BY <1>3, OtherStepsPreserve
<1> QED
  BY <1>1, <1>2, <1>3 DEF Next

(* The inductive invariant holds in every reachable state. *)
THEOREM RegistryInvariant == Spec => []IInv
  BY InitEstablishes, NextPreserves, PTL DEF Spec

(* The semaphore, the counter, the map and the callers keep their types;   *)
(* in particular the semaphore stays within 0..Capacity.                   *)
THEOREM RegistryTypeCorrect == Spec => []TypeOK
<1>1. IInv => TypeOK
  BY DEF IInv
<1> QED
  BY <1>1, RegistryInvariant, PTL

(* No interleaving of reserve, insert, remove, drain and reap loses or     *)
(* mints a capacity permit.                                                *)
THEOREM RegistryConservesPermits == Spec => []PermitsConserved
<1>1. IInv => PermitsConserved
  BY DEF IInv
<1> QED
  BY <1>1, RegistryInvariant, PTL

-----------------------------------------------------------------------------
(* The refinement of CapacityPool, step by step. *)
LEMMA PublishAdmits ==
  ASSUME IInv, NEW c \in Callers, Publish(c)
  PROVE  Pool!Next
<1> USE DEF IInv, Publish, Idle
<1> DEFINE id == call[c].sid
<1>1. id \in SessionId /\ id \in 1..(nextId - 1) /\ id \notin sessions
  BY RegistryAssumption DEF IdsHaveOneOwner, TypeOK, SessionId
<1>2. id \notin Inserted
  BY DEF Inserted
<1>3. Cardinality(sessions) < Capacity
  <2>1. c \in Guards
    BY DEF Guards
  <2>2. Cardinality(Guards) # 0
    BY <2>1, OwnersFinite, FS_EmptySet
  <2> QED
    BY <2>2, OwnersFinite, RegistryAssumption DEF PermitsConserved, TypeOK
<1>4. Inserted' = Inserted \cup {id}
  <2>1. ASSUME NEW i \in 1..(nextId - 1)
        PROVE  i \in Inserted' <=> i \in Inserted \cup {id}
    BY <1>1 DEF Inserted, IdsHaveOneOwner, TypeOK
  <2>2. Inserted \subseteq 1..(nextId - 1) /\ Inserted' \subseteq 1..(nextId - 1)
    BY DEF Inserted
  <2> QED
    BY <1>1, <2>1, <2>2
<1>5. (Inserted \ sessions)' = Inserted \ sessions
  BY <1>1, <1>2, <1>4
<1>6. Pool!Cardinality(sessions) = Cardinality(sessions)
  BY DEF Pool!Cardinality, Cardinality
<1>7. Pool!Admit(id)
  BY <1>1, <1>2, <1>3, <1>5, <1>6 DEF Pool!Admit
<1> QED
  BY <1>1, <1>7 DEF Pool!Next

(* A step that changes neither the counter nor who is numbered leaves the  *)
(* set of inserted identifiers alone.                                      *)
LEMMA InsertedUnchanged ==
  ASSUME UNCHANGED nextId,
         \A c \in Callers : \/ UNCHANGED call[c]
                            \/ call[c].at # "numbered" /\ call'[c].at # "numbered"
  PROVE  Inserted' = Inserted
  BY DEF Inserted

LEMMA RetireStep ==
  ASSUME IInv, NEW gone \in SUBSET sessions, gone # {}, sessions' = sessions \ gone,
         Inserted' = Inserted
  PROVE  Pool!Next
<1>1. sessions \subseteq Inserted
  BY DEF IInv, IdsHaveOneOwner, TypeOK, SessionId, Inserted
<1>2. (Inserted \ sessions)' = (Inserted \ sessions) \cup gone
  BY <1>1
<1>3. Pool!Retire(gone)
  BY <1>2 DEF Pool!Retire
<1> QED
  BY <1>3 DEF Pool!Next

LEMMA StepRefinesPool == IInv /\ [Next]_vars => [Pool!Next]_(Pool!vars)
<1> SUFFICES ASSUME IInv, [Next]_vars PROVE [Pool!Next]_(Pool!vars)
  OBVIOUS
<1> USE DEF IInv
<1>1. ASSUME sessions' = sessions, Inserted' = Inserted
      PROVE  [Pool!Next]_(Pool!vars)
  BY <1>1 DEF Pool!vars
<1>2. CASE SharedStep
  <2>1. Inserted' = Inserted
    BY <1>2, InsertedUnchanged DEF SharedStep, DrainAll, Remove, DropPermit, Touch, GrowIdle
  <2>2. CASE DrainAll
    <3>1. CASE sessions = {}
      BY <2>1, <2>2, <3>1, <1>1 DEF DrainAll
    <3>2. CASE sessions # {}
      BY <2>1, <2>2, <3>2, RetireStep DEF DrainAll
    <3> QED
      BY <3>1, <3>2
  <2>3. ASSUME NEW id \in SessionId, Remove(id)
        PROVE  Pool!Next
    BY <2>1, <2>3, RetireStep DEF Remove
  <2>4. ASSUME NEW id \in SessionId, DropPermit(id) \/ Touch(id) \/ GrowIdle(id)
        PROVE  [Pool!Next]_(Pool!vars)
    BY <2>1, <2>4, <1>1 DEF DropPermit, Touch, GrowIdle
  <2> QED
    BY <1>2, <2>2, <2>3, <2>4 DEF SharedStep
<1>3. ASSUME NEW c \in Callers, Publish(c)
      PROVE  Pool!Next
  BY <1>3, PublishAdmits
<1>4. ASSUME NEW c \in Callers, AssignId(c)
      PROVE  [Pool!Next]_(Pool!vars)
  <2>1. nextId \in Nat /\ nextId >= 1
    BY RegistryAssumption DEF TypeOK
  <2>2. \A i \in 1..nextId : i \in Inserted' <=> i \in Inserted
    BY <1>4, <2>1 DEF AssignId, At, Inserted, TypeOK
  <2>3. Inserted' \subseteq 1..nextId /\ Inserted \subseteq 1..nextId
    BY <1>4, <2>1 DEF AssignId, Inserted
  <2> QED
    BY <1>1, <1>4, <2>2, <2>3 DEF AssignId
<1>5. ASSUME NEW c \in Callers, ReapRemove(c)
      PROVE  Pool!Next
  <2>1. Inserted' = Inserted
    BY <1>5, InsertedUnchanged DEF ReapRemove, TypeOK
  <2>2. call[c].sid \in sessions
    BY <1>5 DEF ReapRemove, ReaperHoldsMap, Reaping
  <2> QED
    BY <1>5, <2>1, <2>2, RetireStep DEF ReapRemove
<1>6. ASSUME NEW c \in Callers,
             \/ TryReserve(c) \/ ReapStart(c) \/ ReapEnd(c) \/ ExecuteCommand(c)
             \/ \E id \in SessionId :
                  \/ ReapVisit(c, id)
                  \/ \E op \in {"MarkNoNewStreams", "CloseGently", "CloseForced"} :
                       FindForCommand(c, id, op)
      PROVE  [Pool!Next]_(Pool!vars)
  <2>1. sessions' = sessions /\ nextId' = nextId
    BY <1>6 DEF TryReserve, ReapStart, ReapEnd, ExecuteCommand, FindForCommand, ReapVisit
  <2>2. call[c].at # "numbered" /\ call'[c].at # "numbered"
    <3>1. ASSUME NEW id \in SessionId, ReapVisit(c, id)
          PROVE  call[c].at # "numbered" /\ call'[c].at # "numbered"
      BY <3>1 DEF ReapVisit, TypeOK, CallState
    <3> QED
      BY <1>6, <3>1
         DEF TryReserve, ReapStart, ReapEnd, ExecuteCommand, FindForCommand, At, Idle, TypeOK
  <2>3. \A d \in Callers : d # c => call'[d] = call[d]
    BY <1>6 DEF TryReserve, ReapStart, ReapEnd, ExecuteCommand, FindForCommand, ReapVisit, TypeOK
  <2>4. Inserted' = Inserted
    BY <2>1, <2>2, <2>3, InsertedUnchanged
  <2> QED
    BY <2>1, <2>4, <1>1
<1>7. CASE UNCHANGED vars
  BY <1>7, <1>1, InsertedUnchanged DEF vars
<1> QED
  BY <1>2, <1>3, <1>4, <1>5, <1>6, <1>7 DEF Next, CallerStep

(* The registry implements the pool: capacity is never exceeded and an     *)
(* identifier that left the map is never registered again.                 *)
THEOREM RegistryImplementsPool == Spec => ImplementsPool
<1>1. Init => Pool!Init
  <2> SUFFICES ASSUME Init PROVE sessions = {} /\ Inserted \ sessions = {}
    BY DEF Pool!Init
  <2>1. 1..(nextId - 1) = {}
    BY DEF Init
  <2> QED
    BY <2>1 DEF Init, Inserted
<1> QED
  BY <1>1, RegistryInvariant, StepRefinesPool, PTL DEF Spec, ImplementsPool, Pool!Spec

=============================================================================
