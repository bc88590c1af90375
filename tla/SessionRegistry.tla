-------------------------- MODULE SessionRegistry ---------------------------
(***************************************************************************)
(* src/session/registry.rs: the concurrent session registry.  Three pieces *)
(* of shared state are touched without a common lock: the semaphore of     *)
(* capacity permits, the atomic identifier counter and the mutex-protected *)
(* map; every record sits behind a mutex of its own.  One action is one    *)
(* atomic access, so the calls of concurrent callers interleave as the     *)
(* tasks of a multi-threaded runtime do.                                   *)
(*                                                                         *)
(* A permit is owned by exactly one of: the semaphore, a caller holding a  *)
(* ReservationGuard, a map entry, or an entry taken out of the map by      *)
(* drain_all whose permit has not been dropped yet.                        *)
(***************************************************************************)
EXTENDS Integers, FiniteSets, SessionState

CONSTANTS Callers,     \* tasks that may be inside a registry call
          Capacity,    \* max_sessions
          MaxId        \* bound: the largest identifier the counter reaches

ASSUME RegistryAssumption ==
  /\ IsFiniteSet(Callers)
  /\ Capacity \in Nat
  /\ MaxId \in Nat \ {0}

SessionId == 1..MaxId

Record == [state : State, accepting : BOOLEAN, idle : BOOLEAN]

(* SessionRecord::new over the state every caller registers with. *)
NewRecord == [state |-> Active(0), accepting |-> TRUE, idle |-> FALSE]

VARIABLES
  permits,      \* available permits of the semaphore
  nextId,       \* next_session_id
  sessions,     \* keys of the map
  record,       \* record[id]: what the session handles of id share
  undropped,    \* drained entries whose permit is not dropped yet
  call          \* call[c]: where caller c is inside a registry call

vars == <<permits, nextId, sessions, record, undropped, call>>

Idle      == [at |-> "idle", sid |-> 0, todo |-> {}]
At(where, id) == [at |-> where, sid |-> id, todo |-> {}]

CallState ==
  [at : {"idle", "reserved", "numbered", "reaping", "condemning",
         "MarkNoNewStreams", "CloseGently", "CloseForced"},
   sid : 0..MaxId, todo : SUBSET SessionId]

(* reap_idle keeps the map locked while it reads the records one by one;   *)
(* while it "condemns" it has found a record stale and not removed it yet. *)
Reaping(c) == call[c].at \in {"reaping", "condemning"}

MapUnlocked == \A c \in Callers : ~Reaping(c)

-----------------------------------------------------------------------------
Init ==
  /\ permits = Capacity
  /\ nextId = 1
  /\ sessions = {}
  /\ record = [id \in SessionId |-> NewRecord]
  /\ undropped = {}
  /\ call = [c \in Callers |-> Idle]

(* try_reserve: a refused caller gets an error and nothing changes. *)
TryReserve_Unguarded(c) ==
  /\ call[c] = Idle
  /\ permits' = permits - 1
  /\ call' = [call EXCEPT ![c] = At("reserved", 0)]
  /\ UNCHANGED <<nextId, sessions, record, undropped>>

TryReserve(c) ==
  /\ call[c] = Idle
  /\ permits > 0
  /\ permits' = permits - 1
  /\ call' = [call EXCEPT ![c] = At("reserved", 0)]
  /\ UNCHANGED <<nextId, sessions, record, undropped>>

(* insert, first half: next_session_id.fetch_add(1). *)
AssignId_Stale(c) ==
  /\ call[c].at = "reserved"
  /\ nextId <= MaxId
  /\ call' = [call EXCEPT ![c] = At("numbered", nextId)]
  /\ nextId' = IF sessions = {} THEN 1 ELSE nextId + 1
  /\ UNCHANGED <<permits, sessions, record, undropped>>

AssignId(c) ==
  /\ call[c].at = "reserved"
  /\ nextId <= MaxId
  /\ call' = [call EXCEPT ![c] = At("numbered", nextId)]
  /\ nextId' = nextId + 1
  /\ UNCHANGED <<permits, sessions, record, undropped>>

(* insert, second half: the map takes the entry and the guard's permit. *)
Publish(c) ==
  /\ call[c].at = "numbered"
  /\ MapUnlocked
  /\ sessions' = sessions \cup {call[c].sid}
  /\ record' = [record EXCEPT ![call[c].sid] = NewRecord]
  /\ call' = [call EXCEPT ![c] = Idle]
  /\ UNCHANGED <<permits, nextId, undropped>>

(* remove: entry and permit go while the map is locked; absent is a no-op. *)
Remove_KeepsPermit(id) ==
  /\ MapUnlocked
  /\ id \in sessions
  /\ sessions' = sessions \ {id}
  /\ UNCHANGED <<permits, nextId, record, undropped, call>>

Remove(id) ==
  /\ MapUnlocked
  /\ id \in sessions
  /\ sessions' = sessions \ {id}
  /\ permits' = permits + 1
  /\ UNCHANGED <<nextId, record, undropped, call>>

(* drain_all empties the map in one critical section and drops the permits *)
(* of the drained entries one after the other after unlocking.             *)
DrainAll ==
  /\ MapUnlocked
  /\ sessions' = {}
  /\ undropped' = undropped \cup sessions
  /\ UNCHANGED <<permits, nextId, record, call>>

DropPermit(id) ==
  /\ id \in undropped
  /\ undropped' = undropped \ {id}
  /\ permits' = permits + 1
  /\ UNCHANGED <<nextId, sessions, record, call>>

(* reap_idle: retain visits every entry with the map locked, and takes the *)
(* lock of a record only for its snapshot.  What it decided on the snapshot *)
(* is carried out after the record is unlocked again.                      *)
ReapStart(c) ==
  /\ call[c] = Idle
  /\ MapUnlocked
  /\ call' = [call EXCEPT ![c] = [at |-> "reaping", sid |-> 0, todo |-> sessions]]
  /\ UNCHANGED <<permits, nextId, sessions, record, undropped>>

ReapVisit(c, id) ==
  /\ call[c].at = "reaping"
  /\ id \in call[c].todo
  /\ IF record[id].idle
     THEN call' = [call EXCEPT ![c].at = "condemning", ![c].sid = id]
     ELSE call' = [call EXCEPT ![c].todo = @ \ {id}]
  /\ UNCHANGED <<permits, nextId, sessions, record, undropped>>

ReapRemove(c) ==
  /\ call[c].at = "condemning"
  /\ sessions' = sessions \ {call[c].sid}
  /\ permits' = permits + 1
  /\ call' = [call EXCEPT ![c] =
                [at |-> "reaping", sid |-> 0, todo |-> call[c].todo \ {call[c].sid}]]
  /\ UNCHANGED <<nextId, record, undropped>>

ReapEnd(c) ==
  /\ call[c].at = "reaping"
  /\ call[c].todo = {}
  /\ call' = [call EXCEPT ![c] = Idle]
  /\ UNCHANGED <<permits, nextId, sessions, record, undropped>>

-----------------------------------------------------------------------------
(* execute(MarkNoNewStreams | CloseStreams): `get` clones the handle under *)
(* the map lock; the record is updated later, under its own lock, whether  *)
(* or not the session is still registered.                                 *)
FindForCommand(c, id, op) ==
  /\ call[c] = Idle
  /\ MapUnlocked
  /\ id \in sessions
  /\ op \in {"MarkNoNewStreams", "CloseGently", "CloseForced"}
  /\ call' = [call EXCEPT ![c] = At(op, id)]
  /\ UNCHANGED <<permits, nextId, sessions, record, undropped>>

Commanded_KeepsAccepting(r, op) ==
  [r EXCEPT !.state = CASE op = "CloseGently" -> Closing("drain_shutdown")
                        [] op = "CloseForced" -> Closed
                        [] OTHER              -> @]

Commanded(r, op) ==
  [r EXCEPT !.accepting = FALSE,
            !.state = CASE op = "CloseGently" -> Closing("drain_shutdown")
                        [] op = "CloseForced" -> Closed
                        [] OTHER              -> @]

ExecuteCommand(c) ==
  /\ call[c].at \in {"MarkNoNewStreams", "CloseGently", "CloseForced"}
  /\ record' = [record EXCEPT ![call[c].sid] = Commanded(@, call[c].at)]
  /\ call' = [call EXCEPT ![c] = Idle]
  /\ UNCHANGED <<permits, nextId, sessions, undropped>>

(* Identifiers whose record exists: inserted, and perhaps removed since. *)
Inserted == {id \in 1..(nextId - 1) :
               \A c \in Callers : call[c].at = "numbered" => call[c].sid # id}

(* with_record through a handle: a caller refreshes last_activity ... *)
Touch(id) ==
  /\ id \in Inserted
  /\ record' = [record EXCEPT ![id].idle = FALSE]
  /\ UNCHANGED <<permits, nextId, sessions, undropped, call>>

(* ... and time passes until the session counts as idle. *)
GrowIdle(id) ==
  /\ id \in Inserted
  /\ record' = [record EXCEPT ![id].idle = TRUE]
  /\ UNCHANGED <<permits, nextId, sessions, undropped, call>>

CallerStep(c) ==
  \/ TryReserve(c)
  \/ AssignId(c)
  \/ Publish(c)
  \/ ReapStart(c)
  \/ ReapRemove(c)
  \/ ReapEnd(c)
  \/ ExecuteCommand(c)
  \/ \E id \in SessionId :
       \/ ReapVisit(c, id)
       \/ \E op \in {"MarkNoNewStreams", "CloseGently", "CloseForced"} :
            FindForCommand(c, id, op)

SharedStep ==
  \/ DrainAll
  \/ \E id \in SessionId : Remove(id) \/ DropPermit(id) \/ Touch(id) \/ GrowIdle(id)

Next == SharedStep \/ \E c \in Callers : CallerStep(c)

Spec == Init /\ [][Next]_vars

-----------------------------------------------------------------------------
(* The shape of the state; permits never leave 0..Capacity, so the         *)
(* semaphore is neither overdrawn nor released twice.                      *)
TypeOK ==
  /\ permits \in 0..Capacity
  /\ nextId \in 1..(MaxId + 1)
  /\ sessions \subseteq SessionId
  /\ record \in [SessionId -> Record]
  /\ undropped \subseteq SessionId
  /\ call \in [Callers -> CallState]

Guards == {c \in Callers : call[c].at \in {"reserved", "numbered"}}

(* No permit is lost or minted, at any instant between the steps of        *)
(* try_reserve, insert, remove, drain_all and reap_idle: every permit is   *)
(* in the semaphore, in a guard, in the map or on its way back from it.    *)
PermitsConserved ==
  permits + Cardinality(Guards) + Cardinality(sessions) + Cardinality(undropped)
    = Capacity

(* To its users the registry is a pool of at most Capacity sessions whose  *)
(* identifiers are never handed out twice, whatever the interleaving.      *)
Pool == INSTANCE CapacityPool
          WITH Member <- SessionId, live <- sessions, retired <- Inserted \ sessions

ImplementsPool == Pool!Spec

=============================================================================
