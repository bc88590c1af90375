------------------------ MODULE SessionManagerProofs ------------------------
(***************************************************************************)
(* For every set of tasks, every choice of the events they send, every     *)
(* capacity and identifier bound: the manager keeps its types, conserves   *)
(* the registry's permits and implements CapacityPool; the stream counts   *)
(* are exact; a session whose end is settled refuses those who ask for a   *)
(* stream; and under the runtime's events an end is reported once and for  *)
(* all.                                                                    *)
(*                                                                         *)
(* The registry's invariant is reused through an instance: every step of   *)
(* the manager is a step of SessionRegistry or writes a record only.  What *)
(* is added relates the tasks to the registry (BaseInv), says who is about *)
(* to reject streams (RejectionUnderWay) and who is about to report an end *)
(* (RuntimeInv).                                                           *)
(***************************************************************************)
EXTENDS SessionManager, FiniteSetTheorems, TLAPS

RP == INSTANCE SessionRegistryProofs

Command == {"MarkNoNewStreams", "CloseGently", "CloseForced"}

(* What a task carries names a session whose record exists.                *)
NamesInserted(c) ==
  /\ job[c].step \in {"check", "selecting", "find", "transition", "effects"} =>
       job[c].sid \in Reg!Inserted
  /\ job[c].drained \subseteq Reg!Inserted
  /\ stream[c] # 0 => stream[c] \in Reg!Inserted
  /\ call[c].at \in Command => call[c].sid \in Reg!Inserted

(* A task that opens a stream has none, one that reports a stream closed   *)
(* has that stream, only a shutdown has drained sessions, and only an      *)
(* event effects; nobody reaps.                                            *)
HasOneStream(c) ==
  /\ job[c].step \in {"check", "selecting", "find"} => job[c].event = "StreamOpened"
  /\ job[c].step \in {"check", "selecting", "find", "transition"} /\ job[c].event = "StreamOpened"
       => stream[c] = 0
  /\ job[c].step = "transition" /\ job[c].event = "StreamClosed" => stream[c] = job[c].sid
  /\ job[c].step # "draining" => job[c].drained = {}
  /\ job[c].step # "effects" => job[c].effects = <<>>
  /\ call[c].at \in {"idle", "reserved", "numbered"} \cup Command

TaskInv(c) == NamesInserted(c) /\ HasOneStream(c)

(* A record that does not exist yet is new. *)
UnusedAreNew == \A id \in SessionId \ Reg!Inserted : record[id].state = Active(0)

BaseInv ==
  /\ RP!IInv
  /\ clients \in Clients
  /\ job \in [Callers -> Job]
  /\ stream \in [Callers -> 0..MaxId]
  /\ reported \in [SessionId -> Seq(Effect)]
  /\ \A c \in Callers : TaskInv(c)
  /\ UnusedAreNew

Holders(id) == {c \in Callers : stream[c] = id}

(* A session that is not active and still takes streams is about to be     *)
(* told not to, or to be removed, by a task that applies effects to it.    *)
Rejecting(c, id) ==
  /\ job[c].step = "effects" /\ job[c].sid = id
  /\ \/ call[c].at \in Command /\ call[c].sid = id
     \/ \E i \in DOMAIN job[c].effects : job[c].effects[i].target = "registry"

RejectionUnderWay ==
  \A id \in sessions :
    Phase(id) # "active" /\ record[id].accepting => \E c \in Callers : Rejecting(c, id)

(* The effects that the runtime's events leave to be applied: those of the *)
(* last stream's end report it once, after the session was removed.        *)
Report == SessionClosed("client_disconnect")
EndEffects ==
  {<<Report>>, <<RemoveSession, Report>>, <<CancelIdle, RemoveSession, Report>>,
   <<StreamMetric("StreamClosed"), CancelIdle, RemoveSession, Report>>}
OtherEffects ==
  {<<>>, <<CancelIdle, StreamMetric("StreamOpened")>>, <<StreamMetric("StreamOpened")>>,
   <<StreamMetric("StreamClosed")>>}

Ends(c, id) == job[c].effects \in EndEffects /\ job[c].sid = id

(* Under the runtime's events a session is active until the end of its     *)
(* last stream or a shutdown closes it: nothing else writes its state.     *)
RuntimeShape ==
  /\ \A id \in SessionId : Phase(id) \in {"active", "closed"}
  /\ \A c \in Callers :
       /\ call[c].at \notin Command
       /\ job[c].event \in RuntimeEvents \cup {"StreamOpened", "none"}
       /\ job[c].effects \in EndEffects \cup OtherEffects

(* One task at most is about to report the end of a session, nobody has    *)
(* reported it then, and it is closed.                                     *)
ReportedOnce(id) ==
  /\ Cardinality(ClosedReports(id)) <= 1
  /\ ClosedReports(id) # {} => Phase(id) = "closed" /\ \A c \in Callers : ~Ends(c, id)
  /\ \A c \in Callers : Ends(c, id) =>
       Phase(id) = "closed" /\ \A d \in Callers : Ends(d, id) => d = c

OneReport == \A id \in SessionId : ReportedOnce(id)

RuntimeInv == InRuntime => RuntimeShape /\ OneReport /\ RetiredIsClosed

-----------------------------------------------------------------------------
(* The registry's invariant holds under the manager too: a manager's step  *)
(* is a registry step, or writes only a record.                            *)
LEMMA RegistryHypotheses ==
  /\ RP!IsFiniteSet(Callers) /\ Capacity \in Nat /\ MaxId \in Nat \ {0}
  /\ MaxStreams \in Nat \ {0}
BY ManagerAssumption, MaxStreamsAssumption DEF RP!IsFiniteSet, IsFiniteSet

LEMMA RegistryInit == Reg!Init => RP!IInv
<1>1. Reg!Init => RP!Init
  BY DEF Reg!Init, RP!Init, Reg!Idle, RP!Idle, Reg!SessionId, RP!SessionId,
         Reg!NewRecord, RP!NewRecord, Reg!Active, RP!Active
<1>2. RP!Init => RP!IInv
  BY RP!InitEstablishes, RegistryHypotheses DEF RP!InitEstablishes
<1> QED
  BY <1>1, <1>2

LEMMA RegistryStep ==
  ASSUME RP!IInv, RP!Next \/ UNCHANGED RP!vars
  PROVE  RP!IInv'
BY RP!NextPreserves, RegistryHypotheses DEF RP!NextPreserves

LEMMA RegistryCallerSteps ==
  ASSUME NEW c \in Callers
  PROVE  /\ Reg!TryReserve(c) => RP!Next
         /\ Reg!AssignId(c) => RP!Next
         /\ Reg!Publish(c) => RP!Next
         /\ Reg!ExecuteCommand(c) => RP!Next
<1>1. Reg!TryReserve(c) => RP!TryReserve(c)
  BY DEF Reg!TryReserve, RP!TryReserve, Reg!Idle, RP!Idle, Reg!At, RP!At
<1>2. Reg!AssignId(c) => RP!AssignId(c)
  BY DEF Reg!AssignId, RP!AssignId, Reg!At, RP!At
<1>3. Reg!Publish(c) => RP!Publish(c)
  BY DEF Reg!Publish, RP!Publish, Reg!Idle, RP!Idle, Reg!MapUnlocked, RP!MapUnlocked,
         Reg!Reaping, RP!Reaping, Reg!NewRecord, RP!NewRecord, Reg!Active, RP!Active
<1>4. Reg!ExecuteCommand(c) => RP!ExecuteCommand(c)
  BY DEF Reg!ExecuteCommand, RP!ExecuteCommand, Reg!Idle, RP!Idle, Reg!Commanded, RP!Commanded,
         Reg!Closing, RP!Closing, Reg!Closed, RP!Closed
<1> QED
  BY <1>1, <1>2, <1>3, <1>4 DEF RP!Next, RP!CallerStep

LEMMA RegistrySharedSteps ==
  /\ Reg!DrainAll => RP!Next
  /\ \A id \in SessionId : (Reg!Remove(id) => RP!Next) /\ (Reg!DropPermit(id) => RP!Next)
  /\ \A c \in Callers, id \in SessionId : \A op : Reg!FindForCommand(c, id, op) => RP!Next
<1>1. Reg!DrainAll => RP!DrainAll
  BY DEF Reg!DrainAll, RP!DrainAll, Reg!MapUnlocked, RP!MapUnlocked,
         Reg!Reaping, RP!Reaping
<1>2. ASSUME NEW id \in SessionId
      PROVE  (Reg!Remove(id) => RP!Remove(id)) /\ (Reg!DropPermit(id) => RP!DropPermit(id))
  BY DEF Reg!Remove, RP!Remove, Reg!DropPermit, RP!DropPermit, Reg!MapUnlocked, RP!MapUnlocked,
         Reg!Reaping, RP!Reaping
<1>3. ASSUME NEW c \in Callers, NEW id \in SessionId, NEW op, Reg!FindForCommand(c, id, op)
      PROVE  /\ op \in {"MarkNoNewStreams", "CloseGently", "CloseForced"}
             /\ RP!FindForCommand(c, id, op)
  BY <1>3 DEF Reg!FindForCommand, RP!FindForCommand, Reg!MapUnlocked, RP!MapUnlocked,
         Reg!Reaping, RP!Reaping, Reg!Idle, RP!Idle, Reg!At, RP!At
<1>4. SessionId = RP!SessionId
  BY DEF SessionId, Reg!SessionId, RP!SessionId
<1> QED
  BY <1>1, <1>2, <1>3, <1>4 DEF RP!Next, RP!SharedStep, RP!CallerStep

LEMMA RecordOnlyStep ==
  ASSUME RP!IInv, record' \in [SessionId -> Reg!Record],
         UNCHANGED <<permits, nextId, sessions, undropped, call>>
  PROVE  RP!IInv'
<1>1. record' \in [RP!SessionId -> RP!Record]
  BY DEF SessionId, Reg!SessionId, RP!SessionId, Reg!Record, RP!Record, State, RP!State,
         Reg!State, Reg!Active, RP!Active, Reg!Closing, RP!Closing, Reg!Closed, RP!Closed,
         Reg!CloseReason, RP!CloseReason
<1> QED
  BY <1>1 DEF RP!IInv, RP!TypeOK, RP!PermitsConserved, RP!IdsHaveOneOwner, RP!ReaperHoldsMap,
              RP!Reaping, RP!CommandsNameInserted, RP!Guards

(* What the manager's proofs need of the registry's invariant. *)
LEMMA RegistryFacts ==
  ASSUME RP!IInv
  PROVE  /\ Reg!TypeOK
         /\ Reg!PermitsConserved
         /\ sessions \subseteq Reg!Inserted
         /\ Reg!Inserted \subseteq SessionId
         /\ \A c \in Callers : call[c].at = "numbered" =>
              call[c].sid \in SessionId /\ call[c].sid \notin Reg!Inserted
<1>1. Reg!TypeOK
  BY DEF RP!IInv, RP!TypeOK, Reg!TypeOK, Reg!SessionId, RP!SessionId, Reg!Record, RP!Record,
         Reg!State, RP!State, Reg!Active, RP!Active, Reg!Closing, RP!Closing, Reg!Closed,
         RP!Closed, Reg!CloseReason, RP!CloseReason, Reg!CallState, RP!CallState
<1>2. Reg!PermitsConserved
  BY DEF RP!IInv, RP!PermitsConserved, Reg!PermitsConserved, RP!Guards, Reg!Guards,
         RP!Cardinality, Reg!Cardinality
<1>3. sessions \subseteq Reg!Inserted
  BY ManagerAssumption DEF RP!IInv, RP!TypeOK, RP!IdsHaveOneOwner, RP!SessionId, Reg!Inserted
<1>4. Reg!Inserted \subseteq SessionId
  BY <1>1, ManagerAssumption DEF Reg!TypeOK, Reg!Inserted, SessionId, Reg!SessionId
<1>5. \A c \in Callers : call[c].at = "numbered" =>
              call[c].sid \in SessionId /\ call[c].sid \notin Reg!Inserted
  BY <1>1, ManagerAssumption DEF RP!IInv, RP!IdsHaveOneOwner, Reg!TypeOK, Reg!Inserted,
                                 SessionId, Reg!SessionId
<1> QED
  BY <1>1, <1>2, <1>3, <1>4, <1>5

-----------------------------------------------------------------------------
(* Operators of the two modules that mean the same. *)
LEMMA RegistryTerms ==
  /\ SessionId = 1..MaxId
  /\ Reg!Record = [state : State, accepting : BOOLEAN, idle : BOOLEAN]
  /\ Reg!NewRecord = [state |-> Active(0), accepting |-> TRUE, idle |-> FALSE]
  /\ Reg!Idle = [at |-> "idle", sid |-> 0, todo |-> {}]
  /\ \A r, op : Reg!Commanded(r, op) =
       [r EXCEPT !.accepting = FALSE,
                 !.state = CASE op = "CloseGently" -> Closing("drain_shutdown")
                             [] op = "CloseForced" -> Closed
                             [] OTHER              -> @]
BY DEF SessionId, Reg!SessionId, Reg!Record, Reg!NewRecord, Reg!Idle, Reg!Commanded,
       Reg!State, State, Reg!Active, Active, Reg!Closing, Closing, Reg!Closed, Closed,
       Reg!CloseReason, CloseReason

(* What the state machine returns is a state, and a list of effects.       *)
LEMMA NextStateTyped ==
  ASSUME NEW s \in State, NEW event
  PROVE  NextState(s, event) \in State
<1>1. /\ Closed \in State /\ Closing("transport_lost") \in State
      /\ Closing("drain_shutdown") \in State
      /\ \A n \in 0..MaxStreams : Active(n) \in State
  BY DEF State, CloseReason
<1>2. s.phase = "active" => s.streams \in 0..MaxStreams
  BY DEF State, Active, Closing, Closed
<1>3. s.phase = "active" =>
        SaturatingInc(s.streams) \in 0..MaxStreams /\ SaturatingDec(s.streams) \in 0..MaxStreams
  BY <1>2, MaxStreamsAssumption DEF SaturatingInc, SaturatingDec
<1> QED
  BY <1>1, <1>3 DEF NextState

LEMMA EffectsTyped ==
  ASSUME NEW s \in State, NEW event
  PROVE  EffectsOf(s, event) \in Seq(Effect)
<1>1. /\ CancelIdle \in Effect /\ MarkNoNewStreams \in Effect /\ CloseStreamsGently \in Effect
      /\ CloseStreamsForced \in Effect /\ RemoveSession \in Effect
      /\ StreamMetric("StreamOpened") \in Effect /\ StreamMetric("StreamClosed") \in Effect
      /\ \A r \in CloseReason : SessionClosing(r) \in Effect /\ SessionClosed(r) \in Effect
  BY DEF Effect
<1>2. s.phase = "closing" => s.reason \in CloseReason
  BY DEF State, Active, Closing, Closed
<1>3. {"client_disconnect", "transport_lost", "drain_shutdown"} \subseteq CloseReason
  BY DEF CloseReason
<1> QED
  BY <1>1, <1>2, <1>3 DEF EffectsOf

(* How a task's job changes. *)
LEMMA Becoming ==
  ASSUME job \in [Callers -> Job], NEW c \in Callers, NEW j \in Job, Become(c, j)
  PROVE  /\ job' \in [Callers -> Job]
         /\ job'[c] = j
         /\ \A d \in Callers \ {c} : job'[d] = job[d]
BY DEF Become

LEMMA StartingJob ==
  ASSUME NEW where \in JobStep, NEW id \in 0..MaxId, NEW event \in Event \cup {"none"}
  PROVE  /\ JobAt(where, id, event) \in Job
         /\ JobAt(where, id, event).step = where
         /\ JobAt(where, id, event).sid = id
         /\ JobAt(where, id, event).event = event
         /\ JobAt(where, id, event).effects = <<>>
         /\ JobAt(where, id, event).drained = {}
BY DEF JobAt, Job, JobStep

LEMMA NoJobTyped ==
  /\ NoJob \in Job
  /\ NoJob.step = "idle" /\ NoJob.sid = 0 /\ NoJob.event = "none"
  /\ NoJob.effects = <<>> /\ NoJob.drained = {}
BY ManagerAssumption, StartingJob DEF NoJob, JobStep

LEMMA MovingJob ==
  ASSUME NEW j \in Job, NEW where \in JobStep
  PROVE  /\ [j EXCEPT !.step = where] \in Job
         /\ [j EXCEPT !.step = where].step = where
         /\ [j EXCEPT !.step = where].sid = j.sid
         /\ [j EXCEPT !.step = where].event = j.event
         /\ [j EXCEPT !.step = where].effects = j.effects
         /\ [j EXCEPT !.step = where].drained = j.drained
BY DEF Job, JobStep

-----------------------------------------------------------------------------
(* Identifiers are inserted by Publish alone. *)
LEMMA InsertedUnchanged ==
  ASSUME UNCHANGED nextId,
         \A c \in Callers : \/ UNCHANGED call[c]
                            \/ call[c].at # "numbered" /\ call'[c].at # "numbered"
  PROVE  Reg!Inserted' = Reg!Inserted
BY DEF Reg!Inserted

LEMMA AssigningInsertsNothing ==
  ASSUME Reg!TypeOK, NEW c \in Callers, Reg!AssignId(c)
  PROVE  Reg!Inserted' = Reg!Inserted
<1>1. /\ nextId \in Nat \ {0} /\ nextId' = nextId + 1
      /\ call[c].at = "reserved"
      /\ call'[c].at = "numbered" /\ call'[c].sid = nextId
      /\ \A d \in Callers \ {c} : call'[d] = call[d]
  BY ManagerAssumption DEF Reg!AssignId, Reg!TypeOK, Reg!CallState, Reg!At
<1>2. ASSUME NEW id \in 1..nextId
      PROVE  id \in Reg!Inserted' <=> id \in Reg!Inserted
  <2>1. CASE id = nextId
    BY <1>1, <2>1 DEF Reg!Inserted
  <2>2. CASE id # nextId
    <3>1. id \in 1..(nextId - 1) /\ id \in 1..(nextId' - 1)
      BY <1>1, <2>2
    <3>2. \A d \in Callers : (call'[d].at = "numbered" => call'[d].sid # id)
                             <=> (call[d].at = "numbered" => call[d].sid # id)
      BY <1>1, <2>2
    <3> QED
      BY <3>1, <3>2 DEF Reg!Inserted
  <2> QED
    BY <2>1, <2>2
<1>3. Reg!Inserted \subseteq 1..nextId /\ Reg!Inserted' \subseteq 1..nextId
  BY <1>1 DEF Reg!Inserted
<1> QED
  BY <1>2, <1>3

LEMMA PublishingInserts ==
  ASSUME RP!IInv, NEW c \in Callers, Reg!Publish(c)
  PROVE  /\ Reg!Inserted' = Reg!Inserted \cup {call[c].sid}
         /\ call[c].sid \in SessionId /\ call[c].sid \notin Reg!Inserted
<1>1. /\ call[c].at = "numbered" /\ UNCHANGED nextId
      /\ call'[c].at = "idle" /\ \A d \in Callers \ {c} : call'[d] = call[d]
  BY RegistryFacts, RegistryTerms DEF Reg!Publish, Reg!TypeOK, Reg!CallState
<1>2. /\ call[c].sid \in 1..(nextId - 1)
      /\ \A d \in Callers : d # c /\ call[d].at = "numbered" => call[d].sid # call[c].sid
  BY <1>1 DEF RP!IInv, RP!IdsHaveOneOwner
<1>3. ASSUME NEW id \in 1..(nextId - 1)
      PROVE  id \in Reg!Inserted' <=> id \in Reg!Inserted \cup {call[c].sid}
  BY <1>1, <1>2 DEF Reg!Inserted
<1>4. Reg!Inserted \subseteq 1..(nextId - 1) /\ Reg!Inserted' \subseteq 1..(nextId - 1)
  BY <1>1 DEF Reg!Inserted
<1> QED
  BY <1>1, <1>2, <1>3, <1>4, RegistryFacts

-----------------------------------------------------------------------------
(* Every step is one task's: the others keep what the invariant says of    *)
(* them, since identifiers stay inserted.                                  *)
LEMMA OneTaskMoves ==
  ASSUME BaseInv, RP!IInv', UNCHANGED clients, NEW c \in Callers,
         job' \in [Callers -> Job], stream' \in [Callers -> 0..MaxId],
         reported' \in [SessionId -> Seq(Effect)],
         \A d \in Callers \ {c} : UNCHANGED <<job[d], stream[d], call[d]>>,
         Reg!Inserted \subseteq Reg!Inserted',
         TaskInv(c)', UnusedAreNew'
  PROVE  BaseInv'
<1>1. ASSUME NEW d \in Callers \ {c}
      PROVE  TaskInv(d)'
  <2>1. TaskInv(d) /\ job'[d] = job[d] /\ stream'[d] = stream[d] /\ call'[d] = call[d]
    BY DEF BaseInv
  <2> QED
    BY <2>1 DEF TaskInv, NamesInserted, HasOneStream
<1> QED
  BY <1>1 DEF BaseInv

(* A step that leaves the registry and the reports alone. *)
LEMMA JobMoves ==
  ASSUME BaseInv, UNCHANGED <<regVars, reported, clients>>, NEW c \in Callers,
         job' \in [Callers -> Job], stream' \in [Callers -> 0..MaxId],
         \A d \in Callers \ {c} : UNCHANGED <<job[d], stream[d]>>,
         TaskInv(c)'
  PROVE  BaseInv'
<1>1. RP!IInv'
  BY RegistryStep DEF BaseInv, regVars, RP!vars
<1>2. Reg!Inserted' = Reg!Inserted /\ UnusedAreNew'
  BY DEF BaseInv, regVars, Reg!Inserted, UnusedAreNew
<1> QED
  BY <1>1, <1>2, OneTaskMoves DEF BaseInv, regVars

LEMMA BaseTypes ==
  ASSUME BaseInv
  PROVE  TypeOK /\ \A c \in Callers : job[c] \in Job /\ call[c] \in Reg!CallState
BY RegistryFacts DEF BaseInv, TypeOK, Reg!TypeOK

(* A session in the map has a record, and its identifier is one.           *)
LEMMA SessionsInserted ==
  ASSUME BaseInv
  PROVE  sessions \subseteq Reg!Inserted /\ Reg!Inserted \subseteq SessionId
BY RegistryFacts DEF BaseInv

LEMMA IdsAreJobIds == SessionId \subseteq 0..MaxId /\ 0 \in 0..MaxId
<1>1. MaxId \in Nat /\ SessionId = 1..MaxId
  BY ManagerAssumption, RegistryTerms
<1> QED
  BY <1>1

LEMMA BeginResolveKeeps ==
  ASSUME BaseInv, UNCHANGED clients, NEW c \in Callers, NEW id \in SessionId, BeginResolve(c, id)
  PROVE  BaseInv'
<1> DEFINE j == JobAt("check", id, "StreamOpened")
<1>1. id \in 0..MaxId /\ id \in Reg!Inserted
  BY SessionsInserted, IdsAreJobIds DEF BeginResolve
<1>2. /\ j \in Job /\ j.step = "check" /\ j.sid = id /\ j.event = "StreamOpened"
      /\ j.effects = <<>> /\ j.drained = {}
  BY <1>1, StartingJob DEF Event, JobStep
<1>3. job' \in [Callers -> Job] /\ job'[c] = j /\ \A d \in Callers \ {c} : job'[d] = job[d]
  BY <1>2, Becoming DEF BeginResolve, BaseInv
<1>4. TaskInv(c)'
  BY <1>1, <1>2, <1>3
     DEF BeginResolve, BaseInv, TaskInv, NamesInserted, HasOneStream, regVars, Reg!Inserted
<1> QED
  BY <1>3, <1>4, JobMoves DEF BeginResolve, BaseInv

(* A task moves on within its operation, or leaves it. *)
LEMMA MovesKeep ==
  ASSUME BaseInv, UNCHANGED <<regVars, stream, reported, clients>>, NEW c \in Callers,
         NEW from \in JobStep, NEW to \in JobStep,
         <<from, to>> \in {<<"check", "selecting">>, <<"find", "transition">>},
         job[c].step = from, Become(c, [job[c] EXCEPT !.step = to])
  PROVE  BaseInv'
<1> DEFINE j == [job[c] EXCEPT !.step = to]
<1>1. /\ j \in Job /\ j.step = to /\ j.sid = job[c].sid /\ j.event = job[c].event
      /\ j.effects = job[c].effects /\ j.drained = job[c].drained
  BY MovingJob, BaseTypes
<1>2. job' \in [Callers -> Job] /\ job'[c] = j /\ \A d \in Callers \ {c} : job'[d] = job[d]
  BY <1>1, Becoming DEF BaseInv
<1>3. Reg!Inserted' = Reg!Inserted
  BY DEF regVars, Reg!Inserted
<1>4. TaskInv(c)'
  BY <1>1, <1>2, <1>3 DEF BaseInv, TaskInv, NamesInserted, HasOneStream, regVars
<1> QED
  BY <1>2, <1>4, JobMoves DEF BaseInv

LEMMA ReturnsKeep ==
  ASSUME BaseInv, UNCHANGED <<regVars, stream, reported, clients>>, NEW c \in Callers,
         Become(c, NoJob)
  PROVE  BaseInv'
<1>1. job' \in [Callers -> Job] /\ job'[c] = NoJob /\ \A d \in Callers \ {c} : job'[d] = job[d]
  BY NoJobTyped, Becoming DEF BaseInv
<1>2. Reg!Inserted' = Reg!Inserted
  BY DEF regVars, Reg!Inserted
<1>3. TaskInv(c)'
  BY <1>1, <1>2, NoJobTyped DEF BaseInv, TaskInv, NamesInserted, HasOneStream, regVars
<1> QED
  BY <1>1, <1>3, JobMoves DEF BaseInv

LEMMA ResolveStepsKeep ==
  ASSUME BaseInv, UNCHANGED clients, NEW c \in Callers,
         CheckAccepting(c) \/ SelectFails(c) \/ FindSession(c) \/ FinishEvent(c)
  PROVE  BaseInv'
<1>1. CASE CheckAccepting(c)
  BY <1>1, MovesKeep, ReturnsKeep DEF CheckAccepting, JobStep, regVars
<1>2. CASE SelectFails(c)
  BY <1>2, ReturnsKeep DEF SelectFails, regVars
<1>3. CASE FindSession(c)
  BY <1>3, MovesKeep, ReturnsKeep DEF FindSession, JobStep, regVars
<1>4. CASE FinishEvent(c)
  BY <1>4, ReturnsKeep DEF FinishEvent, regVars
<1> QED
  BY <1>1, <1>2, <1>3, <1>4

(* An event comes from a task of the group, and StreamOpened from none.    *)
LEMMA ClientEvents ==
  ASSUME clients \in Clients, NEW c \in DOMAIN clients, NEW event \in clients[c]
  PROVE  c \in Callers /\ event \in Event \ {"StreamOpened"}
BY ClientsAssumption

LEMMA BeginEventKeeps ==
  ASSUME BaseInv, UNCHANGED clients, NEW c \in DOMAIN clients, NEW id \in SessionId,
         NEW event \in clients[c], BeginEvent(c, id, event)
  PROVE  BaseInv'
<1>1. c \in Callers /\ event \in Event \ {"StreamOpened"}
  BY ClientEvents DEF BaseInv
<1>2. CASE id \in sessions
  <2> DEFINE j == JobAt("transition", id, event)
  <2>1. id \in 0..MaxId /\ id \in Reg!Inserted
    BY <1>2, SessionsInserted, IdsAreJobIds
  <2>2. /\ j \in Job /\ j.step = "transition" /\ j.sid = id /\ j.event = event
        /\ j.effects = <<>> /\ j.drained = {}
    BY <1>1, <2>1, StartingJob DEF JobStep
  <2>3. UNCHANGED stream /\ Become(c, j) /\ (event = "StreamClosed" => stream[c] = id)
    BY <1>2 DEF BeginEvent
  <2>4. job' \in [Callers -> Job] /\ job'[c] = j /\ \A d \in Callers \ {c} : job'[d] = job[d]
    BY <1>1, <2>2, <2>3, Becoming DEF BaseInv
  <2>5. TaskInv(c)'
    BY <1>1, <2>1, <2>2, <2>3, <2>4
       DEF BeginEvent, BaseInv, TaskInv, NamesInserted, HasOneStream, regVars, Reg!Inserted
  <2> QED
    BY <1>1, <2>3, <2>4, <2>5, JobMoves DEF BeginEvent, BaseInv
<1>3. CASE id \notin sessions
  <2>1. UNCHANGED <<job, regVars, reported>> /\ stream' = [stream EXCEPT ![c] = 0]
    BY <1>3 DEF BeginEvent
  <2>2. ~Busy(c)
    BY DEF BeginEvent
  <2>3. /\ stream' \in [Callers -> 0..MaxId]
        /\ stream'[c] = 0 /\ \A d \in Callers \ {c} : stream'[d] = stream[d]
    BY <1>1, <2>1, ManagerAssumption DEF BaseInv
  <2>4. TaskInv(c)'
    BY <1>1, <2>1, <2>2, <2>3, NoJobTyped
       DEF Busy, BaseInv, TaskInv, NamesInserted, HasOneStream, regVars, Reg!Inserted
  <2> QED
    BY <1>1, <2>1, <2>3, <2>4, JobMoves DEF BaseInv
<1> QED
  BY <1>2, <1>3

(* Registering: a permit, a number, an entry.                              *)
LEMMA BeginRegisterKeeps ==
  ASSUME BaseInv, UNCHANGED clients, NEW c \in Callers, BeginRegister(c)
  PROVE  BaseInv'
<1> DEFINE j == JobAt("registering", 0, "none")
<1>1. /\ j \in Job /\ j.step = "registering" /\ j.effects = <<>> /\ j.drained = {}
  BY StartingJob, ManagerAssumption DEF JobStep
<1>2. job' \in [Callers -> Job] /\ job'[c] = j /\ \A d \in Callers \ {c} : job'[d] = job[d]
  BY <1>1, Becoming DEF BeginRegister, BaseInv
<1>3. RP!IInv'
  BY RegistryStep, RegistryCallerSteps DEF BeginRegister, BaseInv
<1>4. /\ UNCHANGED <<nextId, record, stream, reported>>
      /\ call[c].at = "idle" /\ call'[c].at = "reserved"
      /\ \A d \in Callers \ {c} : call'[d] = call[d]
  <2>1. call \in [Callers -> Reg!CallState]
    BY BaseTypes DEF TypeOK, Reg!TypeOK
  <2>2. /\ call[c] = Reg!Idle /\ call' = [call EXCEPT ![c] = Reg!At("reserved", 0)]
        /\ UNCHANGED <<nextId, record, stream, reported>>
    BY DEF BeginRegister, Reg!TryReserve
  <2>3. Reg!Idle.at = "idle" /\ Reg!At("reserved", 0).at = "reserved"
    BY DEF Reg!Idle, Reg!At
  <2> QED
    BY <2>1, <2>2, <2>3
<1>5. Reg!Inserted' = Reg!Inserted /\ UnusedAreNew'
  BY <1>4, InsertedUnchanged DEF BaseInv, UnusedAreNew
<1>6. TaskInv(c)'
  BY <1>1, <1>2, <1>4, <1>5 DEF BaseInv, TaskInv, NamesInserted, HasOneStream, Command
<1> QED
  BY <1>2, <1>3, <1>4, <1>5, <1>6, OneTaskMoves DEF BaseInv

LEMMA NumberSessionKeeps ==
  ASSUME BaseInv, UNCHANGED clients, NEW c \in Callers, NumberSession(c)
  PROVE  BaseInv'
<1>1. RP!IInv'
  BY RegistryStep, RegistryCallerSteps DEF NumberSession, BaseInv
<1>2. /\ UNCHANGED <<record, job, stream, reported>>
      /\ call'[c].at = "numbered"
      /\ \A d \in Callers \ {c} : call'[d] = call[d]
  BY BaseTypes DEF NumberSession, Reg!AssignId, Reg!TypeOK, TypeOK, Reg!At
<1>3. Reg!Inserted' = Reg!Inserted /\ UnusedAreNew'
  BY <1>2, AssigningInsertsNothing, BaseTypes DEF NumberSession, BaseInv, UnusedAreNew, TypeOK
<1>4. TaskInv(c)'
  BY <1>2, <1>3 DEF BaseInv, TaskInv, NamesInserted, HasOneStream, Command
<1> QED
  BY <1>1, <1>2, <1>3, <1>4, OneTaskMoves DEF BaseInv

LEMMA InsertSessionKeeps ==
  ASSUME BaseInv, UNCHANGED clients, NEW c \in Callers, InsertSession(c)
  PROVE  BaseInv'
<1>1. RP!IInv'
  BY RegistryStep, RegistryCallerSteps DEF InsertSession, BaseInv
<1>2. job' \in [Callers -> Job] /\ job'[c] = NoJob /\ \A d \in Callers \ {c} : job'[d] = job[d]
  BY NoJobTyped, Becoming DEF InsertSession, BaseInv
<1>3. /\ UNCHANGED <<stream, reported>>
      /\ record' = [record EXCEPT ![call[c].sid] = Reg!NewRecord]
      /\ call'[c].at = "idle" /\ \A d \in Callers \ {c} : call'[d] = call[d]
  BY BaseTypes, RegistryTerms DEF InsertSession, Reg!Publish, Reg!TypeOK, TypeOK
<1>4. Reg!Inserted' = Reg!Inserted \cup {call[c].sid}
  BY PublishingInserts DEF InsertSession, BaseInv
<1>5. UnusedAreNew'
  BY <1>3, <1>4 DEF BaseInv, UnusedAreNew
<1>6. TaskInv(c)'
  BY <1>2, <1>3, <1>4, NoJobTyped DEF BaseInv, TaskInv, NamesInserted, HasOneStream, Command
<1> QED
  BY <1>1, <1>2, <1>3, <1>4, <1>5, <1>6, OneTaskMoves DEF BaseInv

(* A step that writes one record of a session that exists.                 *)
LEMMA RecordMoves ==
  ASSUME BaseInv, NEW id \in Reg!Inserted, NEW r \in Reg!Record,
         record' = [record EXCEPT ![id] = r],
         UNCHANGED <<permits, nextId, sessions, undropped, call>>
  PROVE  /\ RP!IInv' /\ Reg!Inserted' = Reg!Inserted /\ UnusedAreNew'
         /\ record'[id] = r /\ \A o \in SessionId \ {id} : record'[o] = record[o]
<1>1. id \in SessionId /\ record \in [SessionId -> Reg!Record]
  BY RegistryFacts, BaseTypes DEF BaseInv, TypeOK, Reg!TypeOK, SessionId
<1>2. /\ record' \in [SessionId -> Reg!Record]
      /\ record'[id] = r /\ \A o \in SessionId \ {id} : record'[o] = record[o]
  BY <1>1
<1>3. RP!IInv' /\ Reg!Inserted' = Reg!Inserted
  BY <1>2, RecordOnlyStep DEF BaseInv, Reg!Inserted
<1>4. UnusedAreNew'
  BY <1>2, <1>3 DEF BaseInv, UnusedAreNew
<1> QED
  BY <1>2, <1>3, <1>4

LEMMA SelectSucceedsKeeps ==
  ASSUME BaseInv, UNCHANGED clients, NEW c \in Callers, SelectSucceeds(c)
  PROVE  BaseInv'
<1> DEFINE id == job[c].sid
           r  == [record[id] EXCEPT !.idle = FALSE]
           j  == [job[c] EXCEPT !.step = "find"]
<1>1. job[c].step = "selecting" /\ id \in Reg!Inserted
  BY DEF SelectSucceeds, BaseInv, TaskInv, NamesInserted
<1>2. id \in SessionId /\ record[id] \in Reg!Record
  BY <1>1, RegistryFacts, BaseTypes DEF BaseInv, TypeOK, Reg!TypeOK, SessionId
<1>3. r \in Reg!Record
  BY <1>2, RegistryTerms
<1>4. record' = [record EXCEPT ![id] = r]
  BY <1>2 DEF SelectSucceeds
<1>5. RP!IInv' /\ Reg!Inserted' = Reg!Inserted /\ UnusedAreNew'
  BY <1>1, <1>3, <1>4, RecordMoves DEF SelectSucceeds
<1>6. /\ j \in Job /\ j.step = "find" /\ j.sid = id /\ j.event = job[c].event
      /\ j.effects = job[c].effects /\ j.drained = job[c].drained
  BY MovingJob, BaseTypes DEF JobStep
<1>7. job' \in [Callers -> Job] /\ job'[c] = j /\ \A d \in Callers \ {c} : job'[d] = job[d]
  BY <1>6, Becoming DEF SelectSucceeds, BaseInv
<1>8. TaskInv(c)'
  BY <1>1, <1>5, <1>6, <1>7 DEF SelectSucceeds, BaseInv, TaskInv, NamesInserted, HasOneStream
<1> QED
  BY <1>5, <1>7, <1>8, OneTaskMoves DEF SelectSucceeds, BaseInv

(* What a transition changes. *)
LEMMA TransitionFacts ==
  ASSUME BaseInv, NEW c \in Callers, ApplyTransition(c),
         NEW id, NEW event, NEW s, NEW fx,
         id = job[c].sid, event = job[c].event, s = record[id].state, fx = EffectsOf(s, event)
  PROVE  /\ id \in Reg!Inserted /\ id \in SessionId /\ s \in State
         /\ RP!IInv' /\ Reg!Inserted' = Reg!Inserted /\ UnusedAreNew'
         /\ record'[id].state = NextState(s, event)
         /\ record'[id].accepting = record[id].accepting
         /\ \A o \in SessionId \ {id} : record'[o] = record[o]
         /\ job' \in [Callers -> Job] /\ \A d \in Callers \ {c} : job'[d] = job[d]
         /\ job'[c].step = "effects" /\ job'[c].sid = id /\ job'[c].event = event
         /\ job'[c].effects = fx /\ job'[c].drained = {}
         /\ stream' \in [Callers -> 0..MaxId] /\ \A d \in Callers \ {c} : stream'[d] = stream[d]
         /\ stream'[c] = CASE event = "StreamOpened" -> id
                           [] event = "StreamClosed" -> 0
                           [] OTHER                  -> stream[c]
         /\ UNCHANGED <<permits, nextId, sessions, undropped, call, reported>>
<1> DEFINE r == [record[id] EXCEPT !.state = NextState(s, event), !.idle = FALSE]
           j == [job[c] EXCEPT !.step = "effects", !.effects = fx]
<1>1. job[c].step = "transition" /\ id \in Reg!Inserted /\ job[c].drained = {}
  BY DEF ApplyTransition, BaseInv, TaskInv, NamesInserted, HasOneStream
<1>2. id \in SessionId /\ record[id] \in Reg!Record /\ job[c] \in Job
  BY <1>1, RegistryFacts, BaseTypes DEF BaseInv, TypeOK, Reg!TypeOK, SessionId
<1>3. s \in State /\ NextState(s, event) \in State /\ fx \in Seq(Effect)
  <2>1. s \in State
    BY <1>2, RegistryTerms
  <2>2. NextState(s, event) \in State
    BY <2>1, NextStateTyped
  <2>3. EffectsOf(s, event) \in Seq(Effect)
    BY <2>1, EffectsTyped
  <2> QED
    BY <2>1, <2>2, <2>3
<1>4. /\ r \in Reg!Record /\ r.state = NextState(s, event)
      /\ r.accepting = record[id].accepting
  BY <1>2, <1>3, RegistryTerms
<1>5. record' = [record EXCEPT ![id] = r] /\ Become(c, j)
  BY <1>2 DEF ApplyTransition
<1>6. /\ RP!IInv' /\ Reg!Inserted' = Reg!Inserted /\ UnusedAreNew'
      /\ record'[id] = r /\ \A o \in SessionId \ {id} : record'[o] = record[o]
  BY <1>1, <1>4, <1>5, RecordMoves DEF ApplyTransition
<1>7. /\ j \in Job /\ j.step = "effects" /\ j.sid = id /\ j.event = event
      /\ j.effects = fx /\ j.drained = {}
  BY <1>1, <1>2, <1>3 DEF Job, JobStep
<1>8. job' \in [Callers -> Job] /\ job'[c] = j /\ \A d \in Callers \ {c} : job'[d] = job[d]
  BY <1>5, <1>7, Becoming DEF BaseInv
<1>9. id \in 0..MaxId /\ 0 \in 0..MaxId /\ stream \in [Callers -> 0..MaxId]
  BY <1>2, IdsAreJobIds DEF BaseInv
<1>10. /\ stream' \in [Callers -> 0..MaxId] /\ \A d \in Callers \ {c} : stream'[d] = stream[d]
       /\ stream'[c] = CASE event = "StreamOpened" -> id
                         [] event = "StreamClosed" -> 0
                         [] OTHER                  -> stream[c]
  BY <1>9 DEF ApplyTransition
<1> QED
  BY <1>1, <1>2, <1>3, <1>4, <1>6, <1>7, <1>8, <1>10 DEF ApplyTransition

LEMMA ApplyTransitionKeeps ==
  ASSUME BaseInv, UNCHANGED clients, NEW c \in Callers, ApplyTransition(c)
  PROVE  BaseInv'
<1> DEFINE id == job[c].sid
           event == job[c].event
<1>1. /\ id \in Reg!Inserted
      /\ RP!IInv' /\ Reg!Inserted' = Reg!Inserted /\ UnusedAreNew'
      /\ job' \in [Callers -> Job] /\ \A d \in Callers \ {c} : job'[d] = job[d]
      /\ job'[c].step = "effects" /\ job'[c].sid = id /\ job'[c].drained = {}
      /\ stream' \in [Callers -> 0..MaxId] /\ \A d \in Callers \ {c} : stream'[d] = stream[d]
      /\ stream'[c] \in {0, id, stream[c]}
      /\ UNCHANGED <<call, reported>>
  BY TransitionFacts
<1>2. TaskInv(c)'
  BY <1>1 DEF BaseInv, TaskInv, NamesInserted, HasOneStream
<1> QED
  BY <1>1, <1>2, OneTaskMoves DEF BaseInv

(* One effect leaves the list, and goes to one of its targets.             *)
LEMMA EffectFacts ==
  ASSUME BaseInv, NEW c \in Callers, ApplyEffect(c)
  PROVE  /\ job[c].step = "effects" /\ job[c].effects # <<>> /\ call[c] = Reg!Idle
         /\ job[c].sid \in Reg!Inserted /\ job[c].sid \in SessionId
         /\ Head(job[c].effects) \in Effect
         /\ job' \in [Callers -> Job] /\ \A d \in Callers \ {c} : job'[d] = job[d]
         /\ job'[c].step = "effects" /\ job'[c].sid = job[c].sid
         /\ job'[c].event = job[c].event /\ job'[c].drained = job[c].drained
         /\ job'[c].effects = Tail(job[c].effects)
         /\ UNCHANGED stream
<1> DEFINE j == [job[c] EXCEPT !.effects = Tail(@)]
<1>1. /\ job[c].step = "effects" /\ job[c].effects # <<>> /\ call[c] = Reg!Idle
      /\ Become(c, j) /\ UNCHANGED stream
  BY DEF ApplyEffect
<1>2. job[c].sid \in Reg!Inserted
  BY <1>1 DEF BaseInv, TaskInv, NamesInserted
<1>3. job[c] \in Job
  BY BaseTypes
<1>4. /\ Head(job[c].effects) \in Effect /\ Tail(job[c].effects) \in Seq(Effect)
  BY <1>1, <1>3 DEF Job
<1>5. /\ j \in Job /\ j.step = job[c].step /\ j.sid = job[c].sid /\ j.event = job[c].event
      /\ j.drained = job[c].drained /\ j.effects = Tail(job[c].effects)
  BY <1>3, <1>4 DEF Job
<1>6. job' \in [Callers -> Job] /\ job'[c] = j /\ \A d \in Callers \ {c} : job'[d] = job[d]
  BY <1>1, <1>5, Becoming DEF BaseInv
<1> QED
  BY <1>1, <1>2, <1>4, <1>5, <1>6, SessionsInserted

(* What applying an effect may do: remove the session, look it up for a    *)
(* command, report it, or nothing.                                         *)
Removes(c) == Reg!Remove(job[c].sid) /\ UNCHANGED reported
Looks(c)   == (\E op \in Command : Reg!FindForCommand(c, job[c].sid, op)) /\ UNCHANGED reported
Reports(c) ==
  /\ reported' = [reported EXCEPT ![job[c].sid] = Append(@, Head(job[c].effects))]
  /\ UNCHANGED regVars

LEMMA EffectCases ==
  ASSUME NEW c \in Callers, ApplyEffect(c)
  PROVE  Removes(c) \/ Looks(c) \/ Reports(c) \/ UNCHANGED <<regVars, reported>>
<1>1. ASSUME NEW op, Reg!FindForCommand(c, job[c].sid, op)
      PROVE  op \in Command
  BY <1>1 DEF Reg!FindForCommand, Command
<1> QED
  BY <1>1 DEF ApplyEffect, Removes, Looks, Reports

LEMMA ApplyEffectKeeps ==
  ASSUME BaseInv, UNCHANGED clients, NEW c \in Callers, ApplyEffect(c)
  PROVE  BaseInv'
<1> DEFINE id == job[c].sid
<1>1. /\ job[c].step = "effects" /\ call[c] = Reg!Idle
      /\ id \in Reg!Inserted /\ id \in SessionId
      /\ Head(job[c].effects) \in Effect
      /\ job' \in [Callers -> Job] /\ \A d \in Callers \ {c} : job'[d] = job[d]
      /\ job'[c].step = "effects" /\ job'[c].sid = id /\ job'[c].drained = job[c].drained
      /\ UNCHANGED stream
  BY EffectFacts
<1>2. CASE Removes(c)
  <2>1. RP!IInv'
    BY <1>1, <1>2, RegistryStep, RegistrySharedSteps DEF Removes, BaseInv
  <2>2. UNCHANGED <<nextId, record, call, reported>>
    BY <1>2 DEF Removes, Reg!Remove
  <2>3. Reg!Inserted' = Reg!Inserted /\ UnusedAreNew'
    BY <2>2, InsertedUnchanged DEF BaseInv, UnusedAreNew
  <2>4. TaskInv(c)'
    BY <1>1, <2>2, <2>3 DEF BaseInv, TaskInv, NamesInserted, HasOneStream
  <2> QED
    BY <1>1, <2>1, <2>2, <2>3, <2>4, OneTaskMoves DEF BaseInv
<1>3. CASE Looks(c)
  <2>1. PICK op \in Command : Reg!FindForCommand(c, id, op)
    BY <1>3 DEF Looks
  <2>2. RP!IInv'
    BY <1>1, <2>1, RegistryStep, RegistrySharedSteps DEF BaseInv
  <2>3. call \in [Callers -> Reg!CallState]
    BY BaseTypes DEF TypeOK, Reg!TypeOK
  <2>4. UNCHANGED <<nextId, record, reported>> /\ call' = [call EXCEPT ![c] = Reg!At(op, id)]
    BY <1>3, <2>1 DEF Looks, Reg!FindForCommand
  <2>5. /\ call[c].at = "idle" /\ call'[c].at = op /\ call'[c].sid = id
        /\ \A d \in Callers \ {c} : call'[d] = call[d]
    BY <1>1, <2>3, <2>4 DEF Reg!At, Reg!Idle
  <2>6. Reg!Inserted' = Reg!Inserted /\ UnusedAreNew'
    BY <2>4, <2>5, InsertedUnchanged DEF BaseInv, UnusedAreNew, Command
  <2>7. NamesInserted(c)'
    BY <1>1, <2>4, <2>5, <2>6 DEF BaseInv, TaskInv, NamesInserted
  <2>8. HasOneStream(c)'
    BY <1>1, <2>4, <2>5 DEF BaseInv, TaskInv, HasOneStream
  <2> QED
    BY <1>1, <2>2, <2>4, <2>5, <2>6, <2>7, <2>8, OneTaskMoves DEF BaseInv, TaskInv
<1>4. CASE Reports(c) \/ UNCHANGED <<regVars, reported>>
  <2>1. UNCHANGED regVars /\ reported' \in [SessionId -> Seq(Effect)]
    <3>1. CASE Reports(c)
      <4>1. reported[id] \in Seq(Effect)
        BY <1>1 DEF BaseInv
      <4>2. Append(reported[id], Head(job[c].effects)) \in Seq(Effect)
        BY <1>1, <4>1
      <4> QED
        BY <1>1, <3>1, <4>2 DEF Reports, BaseInv
    <3> QED
      BY <1>4, <3>1 DEF BaseInv
  <2>2. RP!IInv'
    BY <2>1, RegistryStep DEF BaseInv, regVars, RP!vars
  <2>3. Reg!Inserted' = Reg!Inserted /\ UnusedAreNew'
    BY <2>1 DEF BaseInv, regVars, Reg!Inserted, UnusedAreNew
  <2>4. TaskInv(c)'
    BY <1>1, <2>1, <2>3 DEF BaseInv, TaskInv, NamesInserted, HasOneStream, regVars
  <2> QED
    BY <1>1, <2>1, <2>2, <2>3, <2>4, OneTaskMoves DEF BaseInv, regVars
<1> QED
  BY <1>2, <1>3, <1>4, EffectCases

(* A command writes the record it looked up, whatever became of it since.  *)
LEMMA CommandFacts ==
  ASSUME BaseInv, NEW c \in Callers, ExecuteCommand(c)
  PROVE  /\ call[c].at \in Command /\ call[c].sid \in Reg!Inserted
         /\ call[c].sid \in SessionId
         /\ record'[call[c].sid] = Reg!Commanded(record[call[c].sid], call[c].at)
         /\ \A o \in SessionId \ {call[c].sid} : record'[o] = record[o]
         /\ call'[c].at = "idle" /\ \A d \in Callers \ {c} : call'[d] = call[d]
         /\ UNCHANGED <<permits, nextId, sessions, undropped, job, stream, reported>>
<1>1. call \in [Callers -> Reg!CallState] /\ record \in [SessionId -> Reg!Record]
  BY BaseTypes DEF TypeOK, Reg!TypeOK, SessionId
<1>2. /\ call[c].at \in Command
      /\ record' = [record EXCEPT ![call[c].sid] = Reg!Commanded(@, call[c].at)]
      /\ call' = [call EXCEPT ![c] = Reg!Idle]
      /\ UNCHANGED <<permits, nextId, sessions, undropped, job, stream, reported>>
  BY DEF ExecuteCommand, Reg!ExecuteCommand, Command
<1>3. call[c].sid \in Reg!Inserted /\ call[c].sid \in SessionId
  BY <1>2, SessionsInserted DEF BaseInv, TaskInv, NamesInserted
<1>4. Reg!Idle.at = "idle"
  BY DEF Reg!Idle
<1> QED
  BY <1>1, <1>2, <1>3, <1>4

LEMMA ExecuteCommandKeeps ==
  ASSUME BaseInv, UNCHANGED clients, NEW c \in Callers, ExecuteCommand(c)
  PROVE  BaseInv'
<1> DEFINE id == call[c].sid
<1>1. RP!IInv'
  BY RegistryStep, RegistryCallerSteps DEF ExecuteCommand, BaseInv
<1>2. Reg!Inserted' = Reg!Inserted
  BY CommandFacts, InsertedUnchanged DEF Command
<1>3. UnusedAreNew'
  BY <1>2, CommandFacts DEF BaseInv, UnusedAreNew
<1>4. TaskInv(c)'
  BY <1>2, CommandFacts DEF BaseInv, TaskInv, NamesInserted, HasOneStream, Command
<1> QED
  BY <1>1, <1>2, <1>3, <1>4, CommandFacts, OneTaskMoves DEF BaseInv

(* A shutdown takes every session out of the map, returns the permits and  *)
(* forces the handles it took.                                             *)
LEMMA BeginShutdownFacts ==
  ASSUME BaseInv, NEW c \in Callers, BeginShutdown(c)
  PROVE  /\ job[c] = NoJob
         /\ job' \in [Callers -> Job] /\ \A d \in Callers \ {c} : job'[d] = job[d]
         /\ job'[c].step = "draining" /\ job'[c].sid = 0 /\ job'[c].event = "none"
         /\ job'[c].effects = <<>> /\ job'[c].drained = sessions
         /\ Reg!DrainAll /\ sessions' = {}
         /\ UNCHANGED <<permits, nextId, record, call, stream, reported>>
<1> DEFINE start == JobAt("draining", 0, "none")
           j     == [start EXCEPT !.drained = sessions]
<1>1. sessions \in SUBSET SessionId
  BY SessionsInserted
<1>2. /\ start \in Job /\ start.step = "draining" /\ start.sid = 0 /\ start.event = "none"
      /\ start.effects = <<>>
  BY StartingJob, IdsAreJobIds DEF JobStep
<1>3. /\ j \in Job /\ j.step = "draining" /\ j.sid = 0 /\ j.event = "none"
      /\ j.effects = <<>> /\ j.drained = sessions
  <2> HIDE DEF start
  <2> QED
    BY <1>1, <1>2 DEF Job
<1>4. Become(c, j) /\ ~Busy(c) /\ Reg!DrainAll /\ UNCHANGED <<stream, reported>>
  BY DEF BeginShutdown
<1>5. job' \in [Callers -> Job] /\ job'[c] = j /\ \A d \in Callers \ {c} : job'[d] = job[d]
  BY <1>3, <1>4, Becoming DEF BaseInv
<1> QED
  BY <1>3, <1>4, <1>5 DEF Busy, Reg!DrainAll

LEMMA BeginShutdownKeeps ==
  ASSUME BaseInv, UNCHANGED clients, NEW c \in Callers, BeginShutdown(c)
  PROVE  BaseInv'
<1>1. RP!IInv'
  BY BeginShutdownFacts, RegistryStep, RegistrySharedSteps DEF BaseInv
<1>2. Reg!Inserted' = Reg!Inserted /\ UnusedAreNew'
  BY BeginShutdownFacts, InsertedUnchanged DEF BaseInv, UnusedAreNew
<1>3. TaskInv(c)'
  BY <1>2, BeginShutdownFacts, SessionsInserted, NoJobTyped
     DEF BaseInv, TaskInv, NamesInserted, HasOneStream
<1> QED
  BY <1>1, <1>2, <1>3, BeginShutdownFacts, OneTaskMoves DEF BaseInv

LEMMA ReturnPermitKeeps ==
  ASSUME BaseInv, UNCHANGED clients, NEW c \in Callers, NEW id \in SessionId,
         ReturnPermit(c, id)
  PROVE  BaseInv'
<1>1. RP!IInv'
  BY RegistryStep, RegistrySharedSteps DEF ReturnPermit, BaseInv
<1>2. UNCHANGED <<nextId, record, call, job, stream, reported>>
  BY DEF ReturnPermit, Reg!DropPermit
<1>3. Reg!Inserted' = Reg!Inserted /\ UnusedAreNew'
  BY <1>2, InsertedUnchanged DEF BaseInv, UnusedAreNew
<1>4. TaskInv(c)'
  BY <1>2, <1>3 DEF BaseInv, TaskInv, NamesInserted, HasOneStream
<1> QED
  BY <1>1, <1>2, <1>3, <1>4, OneTaskMoves DEF BaseInv

LEMMA CloseDrainedFacts ==
  ASSUME BaseInv, NEW c \in Callers, NEW id \in SessionId, CloseDrained(c, id)
  PROVE  /\ job[c].step = "draining" /\ id \in job[c].drained /\ id \in Reg!Inserted
         /\ RP!IInv' /\ Reg!Inserted' = Reg!Inserted /\ UnusedAreNew'
         /\ record'[id].state = Closed /\ record'[id].accepting = FALSE
         /\ \A o \in SessionId \ {id} : record'[o] = record[o]
         /\ job' \in [Callers -> Job] /\ \A d \in Callers \ {c} : job'[d] = job[d]
         /\ \/ job'[c] = NoJob /\ job[c].drained = {id}
            \/ /\ job'[c].step = "draining" /\ job'[c].sid = job[c].sid
               /\ job'[c].event = job[c].event /\ job'[c].effects = job[c].effects
         /\ job'[c].drained = job[c].drained \ {id}
         /\ UNCHANGED <<permits, nextId, sessions, undropped, call, stream, reported>>
<1> DEFINE r == [state |-> Closed, accepting |-> FALSE, idle |-> FALSE]
           j == [job[c] EXCEPT !.drained = @ \ {id}]
<1>1. job[c].step = "draining" /\ id \in job[c].drained /\ job[c] \in Job
  BY BaseTypes DEF CloseDrained
<1>2. id \in Reg!Inserted
  BY <1>1 DEF BaseInv, TaskInv, NamesInserted
<1>3. r \in Reg!Record
  BY RegistryTerms DEF State
<1>4. /\ RP!IInv' /\ Reg!Inserted' = Reg!Inserted /\ UnusedAreNew'
      /\ record'[id] = r /\ \A o \in SessionId \ {id} : record'[o] = record[o]
  BY <1>2, <1>3, RecordMoves DEF CloseDrained
<1>5. /\ j \in Job /\ j.step = "draining" /\ j.sid = job[c].sid /\ j.event = job[c].event
      /\ j.effects = job[c].effects /\ j.drained = job[c].drained \ {id}
  BY <1>1 DEF Job
<1>6. CASE job[c].drained = {id}
  <2>1. job' \in [Callers -> Job] /\ job'[c] = NoJob /\ \A d \in Callers \ {c} : job'[d] = job[d]
    BY <1>6, NoJobTyped, Becoming DEF CloseDrained, BaseInv
  <2> QED
    BY <1>1, <1>2, <1>4, <1>6, <2>1, NoJobTyped DEF CloseDrained
<1>7. CASE job[c].drained # {id}
  <2>1. job' \in [Callers -> Job] /\ job'[c] = j /\ \A d \in Callers \ {c} : job'[d] = job[d]
    BY <1>5, <1>7, Becoming DEF CloseDrained, BaseInv
  <2> QED
    BY <1>1, <1>2, <1>4, <1>5, <2>1 DEF CloseDrained
<1> QED
  BY <1>6, <1>7

LEMMA CloseDrainedKeeps ==
  ASSUME BaseInv, UNCHANGED clients, NEW c \in Callers, NEW id \in SessionId,
         CloseDrained(c, id)
  PROVE  BaseInv'
<1>1. NamesInserted(c)'
  BY CloseDrainedFacts, NoJobTyped DEF BaseInv, TaskInv, NamesInserted
<1>2. HasOneStream(c)'
  <2>1. HasOneStream(c) /\ job[c].step = "draining"
    BY CloseDrainedFacts DEF BaseInv, TaskInv
  <2>2. stream'[c] = stream[c] /\ call'[c] = call[c]
    BY CloseDrainedFacts
  <2>3. CASE job'[c] = NoJob
    BY <2>1, <2>2, <2>3, NoJobTyped DEF HasOneStream
  <2>4. CASE /\ job'[c].step = "draining" /\ job'[c].sid = job[c].sid
             /\ job'[c].event = job[c].event /\ job'[c].effects = job[c].effects
    BY <2>1, <2>2, <2>4 DEF HasOneStream
  <2> QED
    BY <2>3, <2>4, CloseDrainedFacts
<1> QED
  BY <1>1, <1>2, CloseDrainedFacts, OneTaskMoves DEF BaseInv, TaskInv

-----------------------------------------------------------------------------
(* The steps of one task, by operation.  Later invariants go over the same *)
(* list.                                                                   *)
Registering(c) == BeginRegister(c) \/ NumberSession(c) \/ InsertSession(c)
Resolving(c) == CheckAccepting(c) \/ SelectFails(c) \/ FindSession(c) \/ FinishEvent(c)

LEMMA StepCases ==
  ASSUME clients \in Clients, Next
  PROVE  /\ UNCHANGED clients
         /\ \/ UNCHANGED vars
            \/ \E c \in Callers :
                 \/ Registering(c) \/ Resolving(c) \/ SelectSucceeds(c) \/ ApplyTransition(c)
                 \/ ApplyEffect(c) \/ ExecuteCommand(c) \/ BeginShutdown(c)
                 \/ \E id \in SessionId : \/ ReturnPermit(c, id) \/ CloseDrained(c, id)
                                          \/ BeginResolve(c, id)
            \/ \E c \in DOMAIN clients, id \in SessionId : \E event \in clients[c] :
                 BeginEvent(c, id, event)
<1>1. CASE Finished
  BY <1>1 DEF Finished, vars
<1>2. ASSUME NEW c \in Callers, Progress(c)
      PROVE  /\ UNCHANGED clients
             /\ \/ Registering(c) \/ Resolving(c) \/ SelectSucceeds(c) \/ ApplyTransition(c)
                \/ ApplyEffect(c) \/ ExecuteCommand(c)
                \/ \E id \in SessionId : ReturnPermit(c, id) \/ CloseDrained(c, id)
  BY <1>2 DEF Progress, Registering, Resolving
<1>3. ASSUME NEW c \in Callers, Start(c)
      PROVE  /\ UNCHANGED clients
             /\ \/ Registering(c) \/ BeginShutdown(c)
                \/ \E id \in SessionId : BeginResolve(c, id)
                \/ /\ c \in DOMAIN clients
                   /\ \E id \in SessionId : \E event \in clients[c] : BeginEvent(c, id, event)
  BY <1>3 DEF Start, Registering
<1> QED
  BY <1>1, <1>2, <1>3 DEF Next

LEMMA BaseInit == Init => BaseInv
<1> SUFFICES ASSUME Init
             PROVE  BaseInv
  OBVIOUS
<1>1. RP!IInv
  BY RegistryInit DEF Init
<1>2. job \in [Callers -> Job] /\ \A c \in Callers : job[c] = NoJob
  BY NoJobTyped DEF Init
<1>3. /\ stream \in [Callers -> 0..MaxId] /\ \A c \in Callers : stream[c] = 0
      /\ reported \in [SessionId -> Seq(Effect)]
  BY IdsAreJobIds DEF Init
<1>4. \A c \in Callers : call[c].at = "idle"
  BY DEF Init, Reg!Init, Reg!Idle
<1>5. UnusedAreNew
  BY RegistryTerms DEF Init, Reg!Init, UnusedAreNew, SessionId
<1>6. \A c \in Callers : TaskInv(c)
  BY <1>2, <1>3, <1>4, NoJobTyped DEF TaskInv, NamesInserted, HasOneStream, Command
<1> QED
  BY <1>1, <1>2, <1>3, <1>5, <1>6 DEF BaseInv, Init

LEMMA BaseStutters ==
  ASSUME BaseInv, UNCHANGED vars
  PROVE  BaseInv'
<1>1. RP!IInv'
  BY RegistryStep DEF BaseInv, vars, regVars, RP!vars
<1>2. Reg!Inserted' = Reg!Inserted /\ UnusedAreNew'
  BY DEF BaseInv, vars, regVars, Reg!Inserted, UnusedAreNew
<1>3. \A c \in Callers : TaskInv(c)'
  BY <1>2 DEF BaseInv, vars, regVars, TaskInv, NamesInserted, HasOneStream
<1> QED
  BY <1>1, <1>2, <1>3 DEF BaseInv, vars

LEMMA BasePreserved ==
  ASSUME BaseInv, [Next]_vars
  PROVE  BaseInv'
<1>1. CASE UNCHANGED vars
  BY <1>1, BaseStutters
<1>2. CASE Next
  <2>1. UNCHANGED clients
    BY <1>2, StepCases DEF BaseInv
  <2>2. ASSUME NEW c \in Callers, Registering(c)
        PROVE  BaseInv'
    BY <2>1, <2>2, BeginRegisterKeeps, NumberSessionKeeps, InsertSessionKeeps DEF Registering
  <2>3. ASSUME NEW c \in Callers,
               \/ Resolving(c) \/ SelectSucceeds(c) \/ ApplyTransition(c)
               \/ ApplyEffect(c) \/ ExecuteCommand(c) \/ BeginShutdown(c)
        PROVE  BaseInv'
    BY <2>1, <2>3, ResolveStepsKeep, SelectSucceedsKeeps, ApplyTransitionKeeps,
       ApplyEffectKeeps, ExecuteCommandKeeps, BeginShutdownKeeps DEF Resolving
  <2>4. ASSUME NEW c \in Callers, NEW id \in SessionId,
               ReturnPermit(c, id) \/ CloseDrained(c, id) \/ BeginResolve(c, id)
        PROVE  BaseInv'
    BY <2>1, <2>4, ReturnPermitKeeps, CloseDrainedKeeps, BeginResolveKeeps
  <2>5. ASSUME NEW c \in DOMAIN clients, NEW id \in SessionId, NEW event \in clients[c],
               BeginEvent(c, id, event)
        PROVE  BaseInv'
    BY <2>1, <2>5, BeginEventKeeps
  <2> QED
    BY <1>2, <1>1, <2>2, <2>3, <2>4, <2>5, StepCases DEF BaseInv
<1> QED
  BY <1>1, <1>2

(* Every state has the types of TypeOK.                                    *)
THEOREM ManagerTypes == Spec => []TypeOK
<1>1. BaseInv => TypeOK
  BY BaseTypes
<1> QED
  BY <1>1, BaseInit, BasePreserved, PTL DEF Spec

(* The manager keeps the registry's promise: no permit is lost or minted,  *)
(* whatever operations are abandoned, raced or repeated.                   *)
THEOREM ManagerConservesPermits == Spec => []Reg!PermitsConserved
<1>1. BaseInv => Reg!PermitsConserved
  BY RegistryFacts DEF BaseInv
<1> QED
  BY <1>1, BaseInit, BasePreserved, PTL DEF Spec

-----------------------------------------------------------------------------
(* Who rejects the streams of a session that is no longer active.          *)
LEMMA RejectionKept ==
  ASSUME RejectionUnderWay, NEW c \in Callers, NEW id \in sessions,
         Phase(id) # "active", record[id].accepting,
         \A d \in Callers \ {c} : job'[d] = job[d] /\ call'[d] = call[d],
         ~Rejecting(c, id) \/ Rejecting(c, id)'
  PROVE  \E d \in Callers : Rejecting(d, id)'
<1>1. PICK d \in Callers : Rejecting(d, id)
  BY DEF RejectionUnderWay
<1>2. d # c => Rejecting(d, id)'
  BY <1>1 DEF Rejecting
<1> QED
  BY <1>1, <1>2

(* A step that leaves the records alone, adds no session and is taken      *)
(* outside of the effects.                                                 *)
LEMMA RejectionUntouched ==
  ASSUME RejectionUnderWay, NEW c \in Callers, sessions' \subseteq sessions,
         \A id \in sessions : /\ record'[id].state = record[id].state
                              /\ record'[id].accepting = record[id].accepting,
         \A d \in Callers \ {c} : job'[d] = job[d] /\ call'[d] = call[d],
         \A id \in sessions : ~Rejecting(c, id) \/ Rejecting(c, id)'
  PROVE  RejectionUnderWay'
<1> SUFFICES ASSUME NEW id \in sessions', Phase(id)' # "active", record'[id].accepting
             PROVE  \E d \in Callers : Rejecting(d, id)'
  BY DEF RejectionUnderWay
<1>1. id \in sessions /\ Phase(id) # "active" /\ record[id].accepting
  BY DEF Phase
<1> QED
  BY <1>1, RejectionKept

LEMMA OutsideEffects ==
  ASSUME NEW c \in Callers, job[c].step # "effects"
  PROVE  \A id : ~Rejecting(c, id)
BY DEF Rejecting

(* The list of effects of a transition out of the active phase holds a     *)
(* registry command.                                                       *)
LEMMA LeavingActive ==
  ASSUME NEW s \in State, s.phase = "active", NEW event, NextState(s, event).phase # "active"
  PROVE  \E i \in DOMAIN EffectsOf(s, event) : EffectsOf(s, event)[i].target = "registry"
<1>1. /\ Active(SaturatingInc(s.streams)).phase = "active"
      /\ Active(SaturatingDec(s.streams)).phase = "active"
  BY DEF Active
<1>2. CASE event = "StreamClosed" /\ LastStream(s)
  <2>1. EffectsOf(s, event) = <<StreamMetric("StreamClosed"), CancelIdle, RemoveSession,
                                SessionClosed("client_disconnect")>>
    BY <1>2 DEF EffectsOf
  <2>2. 3 \in DOMAIN EffectsOf(s, event) /\ EffectsOf(s, event)[3] = RemoveSession
    BY <2>1
  <2> QED
    BY <2>2 DEF RemoveSession
<1>3. CASE event \in {"TransportLost", "DrainRequested"}
  <2>1. /\ 1 \in DOMAIN EffectsOf(s, event)
        /\ EffectsOf(s, event)[1] \in {CloseStreamsGently, MarkNoNewStreams}
    BY <1>3 DEF EffectsOf
  <2> QED
    BY <2>1 DEF CloseStreamsGently, MarkNoNewStreams
<1> QED
  BY <1>1, <1>2, <1>3 DEF NextState

LEMMA ApplyTransitionRejects ==
  ASSUME BaseInv, RejectionUnderWay, NEW c \in Callers, ApplyTransition(c)
  PROVE  RejectionUnderWay'
<1> DEFINE id == job[c].sid
           event == job[c].event
           s == record[id].state
<1>1. /\ s \in State
      /\ record'[id].state = NextState(s, event) /\ record'[id].accepting = record[id].accepting
      /\ \A o \in SessionId \ {id} : record'[o] = record[o]
      /\ \A d \in Callers \ {c} : job'[d] = job[d]
      /\ job'[c].step = "effects" /\ job'[c].sid = id /\ job'[c].effects = EffectsOf(s, event)
      /\ UNCHANGED <<sessions, call>>
  BY TransitionFacts
<1>2. ~Rejecting(c, id) /\ \A o : ~Rejecting(c, o)
  BY OutsideEffects DEF ApplyTransition
<1> SUFFICES ASSUME NEW o \in sessions', Phase(o)' # "active", record'[o].accepting
             PROVE  \E d \in Callers : Rejecting(d, o)'
  BY DEF RejectionUnderWay
<1>3. o \in sessions /\ o \in SessionId /\ record[o].accepting
  BY <1>1, SessionsInserted
<1>4. CASE Phase(o) # "active"
  BY <1>1, <1>2, <1>3, <1>4, RejectionKept
<1>5. CASE Phase(o) = "active"
  <2>1. o = id
    BY <1>1, <1>3, <1>5 DEF Phase
  <2>2. \E i \in DOMAIN job'[c].effects : job'[c].effects[i].target = "registry"
    BY <1>1, <1>5, <2>1, LeavingActive DEF Phase
  <2> QED
    BY <1>1, <2>1, <2>2 DEF Rejecting
<1> QED
  BY <1>4, <1>5

LEMMA ApplyEffectRejects ==
  ASSUME BaseInv, RejectionUnderWay, NEW c \in Callers, ApplyEffect(c)
  PROVE  RejectionUnderWay'
<1> DEFINE id == job[c].sid
           fx == job[c].effects
<1>1. /\ job[c].step = "effects" /\ fx # <<>> /\ call[c] = Reg!Idle
      /\ \A d \in Callers \ {c} : job'[d] = job[d]
      /\ job'[c].step = "effects" /\ job'[c].sid = id /\ job'[c].effects = Tail(fx)
  BY EffectFacts
<1>2. call \in [Callers -> Reg!CallState] /\ fx \in Seq(Effect)
  BY BaseTypes DEF TypeOK, Reg!TypeOK, Job
<1>3. /\ UNCHANGED record /\ sessions' \subseteq sessions
      /\ \A d \in Callers \ {c} : call'[d] = call[d]
  BY <1>2, EffectCases DEF Removes, Looks, Reports, Reg!Remove, Reg!FindForCommand, regVars
<1> SUFFICES ASSUME NEW o \in sessions', o \in sessions, Rejecting(c, o)
             PROVE  \E d \in Callers : Rejecting(d, o)'
  <2>1. ASSUME NEW o \in sessions', Phase(o)' # "active", record'[o].accepting
        PROVE  \E d \in Callers : Rejecting(d, o)'
    <3>1. o \in sessions /\ Phase(o) # "active" /\ record[o].accepting
      BY <1>3, <2>1 DEF Phase
    <3> QED
      BY <1>1, <1>3, <3>1, RejectionKept
  <2> QED
    BY <2>1 DEF RejectionUnderWay
<1>4. o = id /\ \E i \in DOMAIN fx : fx[i].target = "registry"
  BY <1>1 DEF Rejecting, Reg!Idle, Command
<1>5. PICK i \in DOMAIN fx : fx[i].target = "registry"
  BY <1>4
<1>6. CASE i # 1
  <2>1. i - 1 \in DOMAIN Tail(fx) /\ Tail(fx)[i - 1] = fx[i]
    BY <1>1, <1>2, <1>6
  <2>2. \E k \in DOMAIN job'[c].effects : job'[c].effects[k].target = "registry"
    BY <1>1, <1>5, <2>1
  <2>3. job'[c].step = "effects" /\ job'[c].sid = o
    BY <1>1, <1>4
  <2> QED
    BY <2>2, <2>3 DEF Rejecting
<1>7. CASE i = 1
  <2>1. Head(fx).target = "registry"
    BY <1>1, <1>2, <1>5, <1>7
  <2>2. Removes(c) \/ Looks(c)
    BY <1>4, <2>1 DEF ApplyEffect, Removes, Looks, Reg!FindForCommand, Command
  <2>3. ~Removes(c)
    BY <1>4 DEF Removes, Reg!Remove
  <2>4. PICK op \in Command : Reg!FindForCommand(c, id, op)
    BY <2>2, <2>3 DEF Looks
  <2>5. call'[c].at = op /\ call'[c].sid = id
    BY <1>2, <2>4 DEF Reg!FindForCommand, Reg!At
  <2> QED
    BY <1>1, <1>4, <2>4, <2>5 DEF Rejecting
<1> QED
  BY <1>6, <1>7

LEMMA ExecuteCommandRejects ==
  ASSUME BaseInv, RejectionUnderWay, NEW c \in Callers, ExecuteCommand(c)
  PROVE  RejectionUnderWay'
<1> DEFINE id == call[c].sid
<1>1. record'[id].accepting = FALSE
  <2>1. record[id] \in Reg!Record
    BY CommandFacts, BaseTypes DEF TypeOK, Reg!TypeOK, SessionId
  <2> QED
    BY <2>1, CommandFacts, RegistryTerms
<1> SUFFICES ASSUME NEW o \in sessions', Phase(o)' # "active", record'[o].accepting
             PROVE  \E d \in Callers : Rejecting(d, o)'
  BY DEF RejectionUnderWay
<1>2. o # id /\ o \in sessions /\ record'[o] = record[o]
  BY <1>1, CommandFacts, SessionsInserted
<1>3. Rejecting(c, o) => Rejecting(c, o)'
  BY <1>2, CommandFacts DEF Rejecting
<1> QED
  BY <1>2, <1>3, CommandFacts, RejectionKept DEF Phase

LEMMA RegisteringRejects ==
  ASSUME BaseInv, RejectionUnderWay, NEW c \in Callers, Registering(c)
  PROVE  RejectionUnderWay'
<1>1. call \in [Callers -> Reg!CallState] /\ record \in [SessionId -> Reg!Record]
      /\ job \in [Callers -> Job]
  BY BaseTypes DEF TypeOK, Reg!TypeOK, SessionId
<1>2. \A id : ~Rejecting(c, id)
  BY OutsideEffects, NoJobTyped
     DEF Registering, BeginRegister, NumberSession, InsertSession, Busy
<1>3. \A d \in Callers \ {c} : job'[d] = job[d] /\ call'[d] = call[d]
  BY <1>1 DEF Registering, BeginRegister, NumberSession, InsertSession, Become,
              Reg!TryReserve, Reg!AssignId, Reg!Publish
<1>4. CASE BeginRegister(c) \/ NumberSession(c)
  <2>1. UNCHANGED <<sessions, record>>
    BY <1>4 DEF BeginRegister, NumberSession, Reg!TryReserve, Reg!AssignId
  <2> QED
    BY <1>2, <1>3, <2>1, RejectionUntouched
<1>5. CASE InsertSession(c)
  <2> DEFINE new == call[c].sid
  <2>1. /\ sessions' = sessions \cup {new}
        /\ record' = [record EXCEPT ![new] = Reg!NewRecord]
    BY <1>5 DEF InsertSession, Reg!Publish
  <2>2. new \in SessionId
    BY <1>5, PublishingInserts DEF InsertSession, BaseInv
  <2> SUFFICES ASSUME NEW o \in sessions', Phase(o)' # "active", record'[o].accepting
               PROVE  \E d \in Callers : Rejecting(d, o)'
    BY DEF RejectionUnderWay
  <2>3. record'[new].state.phase = "active"
    BY <1>1, <2>1, <2>2, RegistryTerms DEF Active
  <2>4. o # new /\ o \in sessions /\ record'[o] = record[o]
    BY <1>1, <2>1, <2>3, SessionsInserted DEF Phase
  <2> QED
    BY <1>2, <1>3, <2>4, RejectionKept DEF Phase
<1> QED
  BY <1>4, <1>5 DEF Registering

LEMMA ResolvingRejects ==
  ASSUME BaseInv, RejectionUnderWay, NEW c \in Callers, Resolving(c) \/ SelectSucceeds(c)
  PROVE  RejectionUnderWay'
<1>1. \A id : ~Rejecting(c, id)
  <2>1. CASE FinishEvent(c)
    BY <2>1 DEF FinishEvent, Rejecting, Reg!Idle, Command
  <2>2. CASE ~FinishEvent(c)
    BY <2>2, OutsideEffects
       DEF Resolving, CheckAccepting, SelectFails, FindSession, SelectSucceeds
  <2> QED
    BY <2>1, <2>2
<1>2. record \in [SessionId -> Reg!Record] /\ job \in [Callers -> Job]
  BY BaseTypes DEF TypeOK, Reg!TypeOK, SessionId
<1>3. \A d \in Callers \ {c} : job'[d] = job[d]
  <2>1. PICK j : Become(c, j)
    <3>1. CASE CheckAccepting(c)
      BY <3>1 DEF CheckAccepting
    <3>2. CASE SelectFails(c)
      BY <3>2 DEF SelectFails
    <3>3. CASE FindSession(c)
      BY <3>3 DEF FindSession
    <3>4. CASE FinishEvent(c)
      BY <3>4 DEF FinishEvent
    <3>5. CASE SelectSucceeds(c)
      BY <3>5 DEF SelectSucceeds
    <3> QED
      BY <3>1, <3>2, <3>3, <3>4, <3>5 DEF Resolving
  <2> QED
    BY <1>2, <2>1 DEF Become
<1>4. UNCHANGED <<sessions, call>>
  BY DEF Resolving, CheckAccepting, SelectFails, FindSession, FinishEvent,
         SelectSucceeds, regVars
<1>5. \A id \in sessions : /\ record'[id].state = record[id].state
                           /\ record'[id].accepting = record[id].accepting
  <2>1. CASE SelectSucceeds(c)
    <3>1. record' = [record EXCEPT ![job[c].sid].idle = FALSE]
      BY <2>1 DEF SelectSucceeds
    <3>2. \A id \in SessionId : /\ record'[id].state = record[id].state
                                /\ record'[id].accepting = record[id].accepting
      <4> DEFINE changed(id) == [record[id] EXCEPT !.idle = FALSE]
      <4>1. ASSUME NEW id \in SessionId
            PROVE  record'[id] = IF id = job[c].sid THEN changed(id) ELSE record[id]
        BY <1>2, <3>1
      <4>2. ASSUME NEW id \in SessionId
            PROVE  /\ changed(id).state = record[id].state
                   /\ changed(id).accepting = record[id].accepting
        BY <1>2 DEF Reg!Record
      <4> QED
        BY <4>1, <4>2
    <3> QED
      BY <3>2, SessionsInserted
  <2>2. CASE Resolving(c)
    <3>1. record' = record
      BY <2>2 DEF Resolving, CheckAccepting, SelectFails, FindSession, FinishEvent, regVars
    <3> QED
      BY <3>1
  <2> QED
    BY <2>1, <2>2
<1> QED
  BY <1>1, <1>3, <1>4, <1>5, RejectionUntouched

LEMMA ShutdownRejects ==
  ASSUME BaseInv, RejectionUnderWay, NEW c \in Callers,
         \/ BeginShutdown(c)
         \/ \E id \in SessionId : ReturnPermit(c, id) \/ CloseDrained(c, id)
  PROVE  RejectionUnderWay'
<1>1. CASE BeginShutdown(c)
  BY <1>1, BeginShutdownFacts DEF RejectionUnderWay
<1>2. ASSUME NEW id \in SessionId, ReturnPermit(c, id)
      PROVE  RejectionUnderWay'
  BY <1>2 DEF ReturnPermit, Reg!DropPermit, RejectionUnderWay, Rejecting, Phase
<1>3. ASSUME NEW id \in SessionId, CloseDrained(c, id)
      PROVE  RejectionUnderWay'
  <2>1. \A o : ~Rejecting(c, o)
    BY <1>3, OutsideEffects DEF CloseDrained
  <2>2. /\ record'[id].accepting = FALSE
        /\ \A o \in SessionId \ {id} : record'[o] = record[o]
        /\ \A d \in Callers \ {c} : job'[d] = job[d]
        /\ UNCHANGED <<sessions, call>>
    BY <1>3, CloseDrainedFacts
  <2> SUFFICES ASSUME NEW o \in sessions', Phase(o)' # "active", record'[o].accepting
               PROVE  \E d \in Callers : Rejecting(d, o)'
    BY DEF RejectionUnderWay
  <2>3. o # id /\ o \in sessions /\ record'[o] = record[o]
    BY <2>2, SessionsInserted
  <2> QED
    BY <2>1, <2>2, <2>3, RejectionKept DEF Phase
<1> QED
  BY <1>1, <1>2, <1>3

(* A task that begins an operation is in none, and writes no record.       *)
LEMMA BeginningRejects ==
  ASSUME BaseInv, RejectionUnderWay, NEW c \in Callers, NEW id \in SessionId,
         BeginResolve(c, id) \/ \E event \in clients[c] : BeginEvent(c, id, event)
  PROVE  RejectionUnderWay'
<1>1. \A o : ~Rejecting(c, o)
  BY OutsideEffects, NoJobTyped DEF BeginResolve, BeginEvent, Busy
<1>2. UNCHANGED <<sessions, record, call>>
  BY DEF BeginResolve, BeginEvent, regVars
<1>3. \A d \in Callers \ {c} : job'[d] = job[d]
  BY DEF BeginResolve, BeginEvent, Become, BaseInv
<1> QED
  BY <1>1, <1>2, <1>3, RejectionUntouched

LEMMA RejectionPreserved ==
  ASSUME BaseInv, RejectionUnderWay, [Next]_vars
  PROVE  RejectionUnderWay'
<1>1. CASE UNCHANGED vars
  BY <1>1 DEF vars, regVars, RejectionUnderWay, Rejecting, Phase
<1>2. ASSUME NEW c \in DOMAIN clients, NEW id \in SessionId, NEW event \in clients[c],
             BeginEvent(c, id, event)
      PROVE  RejectionUnderWay'
  BY <1>2, ClientEvents, BeginningRejects DEF BaseInv
<1>3. CASE Next
  BY <1>1, <1>2, <1>3, StepCases, RegisteringRejects, ResolvingRejects, ApplyTransitionRejects,
     ApplyEffectRejects, ExecuteCommandRejects, ShutdownRejects, BeginningRejects DEF BaseInv
<1> QED
  BY <1>1, <1>3

(* Only the check itself leads from asking to selecting, and it reads the  *)
(* flag of the session's record.                                           *)
LEMMA CheckReadsFlag ==
  ASSUME BaseInv, [Next]_vars, NEW c \in Callers,
         job[c].step = "check", job'[c].step = "selecting"
  PROVE  record[job[c].sid].accepting
<1>1. Next
  BY DEF vars
<1>2. ASSUME NEW d \in Callers, Registering(d) \/ Resolving(d) \/ SelectSucceeds(d)
      PROVE  record[job[c].sid].accepting
  BY <1>2 DEF Registering, BeginRegister, NumberSession, InsertSession, Resolving, CheckAccepting,
              SelectFails, FindSession, FinishEvent, SelectSucceeds, Become, NoJob, JobAt, Busy,
              BaseInv
<1>3. ASSUME NEW d \in Callers, ApplyTransition(d) \/ ApplyEffect(d) \/ ExecuteCommand(d)
      PROVE  FALSE
  <2>1. CASE ApplyTransition(d)
    BY <2>1, TransitionFacts
  <2>2. CASE ApplyEffect(d)
    BY <2>2, EffectFacts
  <2>3. CASE ExecuteCommand(d)
    BY <2>3 DEF ExecuteCommand
  <2> QED
    BY <1>3, <2>1, <2>2, <2>3
<1>4. ASSUME NEW d \in Callers, NEW id \in SessionId,
             \/ BeginShutdown(d) \/ ReturnPermit(d, id) \/ CloseDrained(d, id)
             \/ BeginResolve(d, id)
      PROVE  FALSE
  <2>1. CASE BeginShutdown(d)
    BY <2>1, BeginShutdownFacts
  <2>2. CASE CloseDrained(d, id)
    BY <2>2, CloseDrainedFacts DEF NoJob, JobAt
  <2>3. CASE ReturnPermit(d, id)
    BY <2>3 DEF ReturnPermit
  <2>4. CASE BeginResolve(d, id)
    BY <2>4 DEF BeginResolve, Become, JobAt, BaseInv
  <2> QED
    BY <1>4, <2>1, <2>2, <2>3, <2>4
<1>5. ASSUME NEW d \in Callers, NEW id \in SessionId, NEW event, BeginEvent(d, id, event)
      PROVE  FALSE
  BY <1>5 DEF BeginEvent, Become, NoJob, JobAt, Busy, BaseInv
<1>6. UNCHANGED vars => FALSE
  BY DEF vars
<1>7. DOMAIN clients \subseteq Callers
  BY ClientsAssumption DEF BaseInv
<1>8. 1 \in SessionId
  BY ManagerAssumption DEF SessionId, Reg!SessionId
<1> QED
  BY <1>1, <1>2, <1>3, <1>4, <1>5, <1>6, <1>7, <1>8, StepCases DEF BaseInv

(* Once the effects of the event that ended a session are applied, no one  *)
(* who asks it for a stream gets past the check, whatever other tasks do   *)
(* meanwhile.                                                              *)
THEOREM EndedSessionsRefuseStreams == Spec => EndedSessionsRefuse
<1>1. Init => RejectionUnderWay
  BY DEF Init, Reg!Init, RejectionUnderWay
<1>2. ASSUME BaseInv, RejectionUnderWay, [Next]_vars, NEW c \in Callers,
             job[c].step = "check", job'[c].step = "selecting", job[c].sid \in sessions
      PROVE  Phase(job[c].sid) = "active" \/ ~Settled(job[c].sid)
  <2>1. record[job[c].sid].accepting
    BY <1>2, CheckReadsFlag
  <2> QED
    BY <1>2, <2>1 DEF RejectionUnderWay, Rejecting, Settled
<1>3. BaseInv /\ RejectionUnderWay /\ [Next]_vars =>
        [\A c \in Callers :
           LET id == job[c].sid
           IN job[c].step = "check" /\ job'[c].step = "selecting" /\ id \in sessions
                => Phase(id) = "active" \/ ~Settled(id)]_vars
  BY <1>2
<1> QED
  BY <1>1, <1>3, BaseInit, BasePreserved, RejectionPreserved, PTL DEF Spec, EndedSessionsRefuse

-----------------------------------------------------------------------------
(* The lists of effects that the runtime's events leave.                   *)
LEMMA EffectLists ==
  ASSUME NEW fx \in EndEffects \cup OtherEffects, fx # <<>>
  PROVE  /\ Tail(fx) \in EndEffects \cup OtherEffects
         /\ Tail(fx) \in EndEffects => fx \in EndEffects
         /\ Head(fx).op = "SessionClosed" => fx = <<Report>> /\ Tail(fx) = <<>>
         /\ Head(fx).target = "registry" => fx \in EndEffects /\ Head(fx).op = "Remove"
         /\ Head(fx).op # "SessionClosing"
<1> DEFINE opened == StreamMetric("StreamOpened")
           closed == StreamMetric("StreamClosed")
<1>1. /\ Report.target = "metric" /\ Report.op = "SessionClosed"
      /\ CancelIdle.target = "timer" /\ CancelIdle.op = "CancelIdle"
      /\ RemoveSession.target = "registry" /\ RemoveSession.op = "Remove"
      /\ opened.target = "metric" /\ opened.op = "StreamOpened"
      /\ closed.target = "metric" /\ closed.op = "StreamClosed"
  BY DEF Report, CancelIdle, RemoveSession, StreamMetric, SessionClosed
<1> HIDE DEF opened, closed
<1>2. \A a, b, c, d :
        /\ Head(<<a>>) = a /\ Tail(<<a>>) = <<>>
        /\ Head(<<a, b>>) = a /\ Tail(<<a, b>>) = <<b>>
        /\ Head(<<a, b, c>>) = a /\ Tail(<<a, b, c>>) = <<b, c>>
        /\ Head(<<a, b, c, d>>) = a /\ Tail(<<a, b, c, d>>) = <<b, c, d>>
  OBVIOUS
<1>3. <<opened>> \notin EndEffects /\ <<>> \notin EndEffects
  BY <1>1 DEF EndEffects, opened
<1>4. CASE fx = <<Report>>
  BY <1>1, <1>2, <1>4 DEF EndEffects, OtherEffects
<1>5. CASE fx \in EndEffects /\ fx # <<Report>>
  <2>1. CASE fx = <<RemoveSession, Report>>
    BY <1>1, <1>2, <1>5, <2>1 DEF EndEffects
  <2>2. CASE fx = <<CancelIdle, RemoveSession, Report>>
    BY <1>1, <1>2, <1>5, <2>2 DEF EndEffects
  <2>3. CASE fx = <<closed, CancelIdle, RemoveSession, Report>>
    BY <1>1, <1>2, <1>5, <2>3 DEF EndEffects
  <2> QED
    BY <1>5, <2>1, <2>2, <2>3 DEF EndEffects, closed
<1>6. CASE fx = <<CancelIdle, opened>>
  BY <1>1, <1>2, <1>3, <1>6 DEF OtherEffects, opened
<1>7. CASE fx = <<opened>> \/ fx = <<closed>>
  BY <1>1, <1>2, <1>3, <1>7 DEF OtherEffects
<1> QED
  BY <1>4, <1>5, <1>6, <1>7 DEF OtherEffects, opened, closed

LEMMA NoEffectsNoEnd == <<>> \notin EndEffects /\ <<>> \in OtherEffects
BY DEF EndEffects, OtherEffects

AllowedEvent == RuntimeEvents \cup {"StreamOpened", "none"}

(* A runtime event takes a session from active to active or closed, and    *)
(* leaves the effects of an end exactly if it closes it.                   *)
LEMMA RuntimeTransition ==
  ASSUME NEW s \in State, s.phase \in {"active", "closed"}, NEW event \in AllowedEvent
  PROVE  /\ NextState(s, event).phase \in {"active", "closed"}
         /\ s.phase = "closed" => NextState(s, event).phase = "closed"
         /\ EffectsOf(s, event) \in EndEffects \cup OtherEffects
         /\ EffectsOf(s, event) \in EndEffects =>
              s.phase = "active" /\ NextState(s, event).phase = "closed"
<1>1. /\ Closed.phase = "closed"
      /\ Active(SaturatingInc(s.streams)).phase = "active"
      /\ Active(SaturatingDec(s.streams)).phase = "active"
  BY DEF Closed, Active
<1>2. CASE s.phase = "active" /\ event = "StreamClosed" /\ LastStream(s)
  <2>1. /\ NextState(s, event) = Closed
        /\ EffectsOf(s, event) = <<StreamMetric("StreamClosed"), CancelIdle, RemoveSession, Report>>
    BY <1>2 DEF NextState, EffectsOf, Report
  <2> QED
    BY <1>1, <1>2, <2>1 DEF EndEffects
<1>3. CASE s.phase = "active" /\ event = "StreamClosed" /\ ~LastStream(s)
  <2>1. /\ NextState(s, event) = Active(SaturatingDec(s.streams))
        /\ EffectsOf(s, event) = <<StreamMetric("StreamClosed")>>
    BY <1>3 DEF NextState, EffectsOf
  <2>2. EffectsOf(s, event) \notin EndEffects
    BY <2>1 DEF EndEffects, StreamMetric, Report, SessionClosed
  <2> QED
    BY <1>1, <1>3, <2>1, <2>2 DEF OtherEffects
<1>4. CASE s.phase = "active" /\ event = "StreamOpened"
  <2>1. /\ NextState(s, event) = Active(SaturatingInc(s.streams))
        /\ EffectsOf(s, event) = <<CancelIdle, StreamMetric("StreamOpened")>>
    BY <1>4 DEF NextState, EffectsOf
  <2>2. EffectsOf(s, event) \notin EndEffects
    BY <2>1 DEF EndEffects, CancelIdle, RemoveSession
  <2> QED
    BY <1>1, <1>4, <2>1, <2>2 DEF OtherEffects
<1>5. CASE s.phase = "closed" \/ event \in {"DeadlineReached", "none"}
  <2>1. NextState(s, event) = s /\ EffectsOf(s, event) = <<>>
    BY <1>5 DEF NextState, EffectsOf
  <2> QED
    BY <2>1, NoEffectsNoEnd
<1> QED
  BY <1>2, <1>3, <1>4, <1>5 DEF AllowedEvent, RuntimeEvents

(* A closed session stays closed, and no session is ever closing.          *)
PhaseKept ==
  \A id \in SessionId : /\ Phase(id)' \in {"active", "closed"}
                        /\ Phase(id) = "closed" => Phase(id)' = "closed"

LEMMA RuntimePhases ==
  ASSUME BaseInv, RuntimeShape, [Next]_vars
  PROVE  PhaseKept
<1>1. ASSUME \A id \in SessionId : record'[id].state = record[id].state
      PROVE  PhaseKept
  BY <1>1 DEF PhaseKept, RuntimeShape, Phase
<1>2. record \in [SessionId -> Reg!Record]
  BY BaseTypes DEF TypeOK, Reg!TypeOK, SessionId
<1>3. ASSUME NEW c \in Callers, ApplyTransition(c)
      PROVE  PhaseKept
  <2> DEFINE id == job[c].sid
             s == record[id].state
             event == job[c].event
  <2>1. /\ id \in SessionId /\ s \in State
        /\ record'[id].state = NextState(s, event)
        /\ \A o \in SessionId \ {id} : record'[o] = record[o]
    BY <1>3, TransitionFacts
  <2>2. s.phase \in {"active", "closed"} /\ event \in AllowedEvent
    BY <2>1 DEF RuntimeShape, Phase, AllowedEvent
  <2>3. /\ NextState(s, event).phase \in {"active", "closed"}
        /\ s.phase = "closed" => NextState(s, event).phase = "closed"
    BY <2>1, <2>2, RuntimeTransition
  <2> QED
    BY <2>1, <2>3 DEF PhaseKept, RuntimeShape, Phase
<1>4. ASSUME NEW c \in Callers, Registering(c)
      PROVE  PhaseKept
  <2>1. CASE InsertSession(c)
    <3>1. call[c].sid \in SessionId /\ record[call[c].sid].state = Active(0)
      BY <2>1, PublishingInserts DEF InsertSession, BaseInv, UnusedAreNew
    <3>2. record' = [record EXCEPT ![call[c].sid] = Reg!NewRecord]
      BY <2>1 DEF InsertSession, Reg!Publish
    <3>3. \A id \in SessionId : record'[id].state = record[id].state
      BY <1>2, <3>1, <3>2, RegistryTerms
    <3> QED
      BY <1>1, <3>3
  <2>2. CASE ~InsertSession(c)
    BY <1>1, <1>4, <2>2
       DEF Registering, BeginRegister, NumberSession, Reg!TryReserve, Reg!AssignId
  <2> QED
    BY <2>1, <2>2
<1>5. ASSUME NEW c \in Callers, SelectSucceeds(c)
      PROVE  PhaseKept
  <2>1. \A id \in SessionId : record'[id].state = record[id].state
    BY <1>2, <1>5, RegistryTerms DEF SelectSucceeds
  <2> QED
    BY <1>1, <2>1
<1>6. ASSUME NEW c \in Callers, Resolving(c) \/ ApplyEffect(c) \/ BeginShutdown(c)
      PROVE  PhaseKept
  <2>1. UNCHANGED record
    BY <1>6, EffectCases
       DEF Resolving, CheckAccepting, SelectFails, FindSession, FinishEvent, regVars, Removes,
           Looks, Reports, Reg!Remove, Reg!FindForCommand, BeginShutdown, Reg!DrainAll
  <2> QED
    BY <1>1, <2>1
<1>7. ASSUME NEW c \in Callers, ExecuteCommand(c)
      PROVE  FALSE
  BY <1>7, CommandFacts DEF RuntimeShape
<1>8. ASSUME NEW c \in Callers, NEW id \in SessionId,
             ReturnPermit(c, id) \/ CloseDrained(c, id) \/ BeginResolve(c, id)
      PROVE  PhaseKept
  <2>1. CASE CloseDrained(c, id)
    <3>1. record'[id].state = Closed /\ \A o \in SessionId \ {id} : record'[o] = record[o]
      BY <2>1, CloseDrainedFacts
    <3> QED
      BY <3>1 DEF PhaseKept, RuntimeShape, Phase, Closed
  <2>2. CASE ~CloseDrained(c, id)
    BY <1>1, <1>8, <2>2 DEF ReturnPermit, Reg!DropPermit, BeginResolve, regVars
  <2> QED
    BY <2>1, <2>2
<1>9. ASSUME NEW c \in DOMAIN clients, NEW id \in SessionId, NEW event \in clients[c],
             BeginEvent(c, id, event)
      PROVE  PhaseKept
  BY <1>1, <1>9 DEF BeginEvent, regVars
<1>10. CASE UNCHANGED vars
  BY <1>1, <1>10 DEF vars, regVars
<1> QED
  BY <1>3, <1>4, <1>5, <1>6, <1>7, <1>8, <1>9, <1>10, StepCases DEF BaseInv

(* Steps that neither compute nor apply effects have none before or after. *)
Quiet(c) ==
  \/ Registering(c) \/ Resolving(c) \/ SelectSucceeds(c) \/ BeginShutdown(c)
  \/ \E id \in SessionId : ReturnPermit(c, id) \/ CloseDrained(c, id) \/ BeginResolve(c, id)
  \/ c \in DOMAIN clients /\ \E id \in SessionId : \E event \in clients[c] : BeginEvent(c, id, event)

LEMMA QuietCases ==
  ASSUME BaseInv, RuntimeShape, [Next]_vars
  PROVE  \/ UNCHANGED vars
         \/ \E c \in Callers : Quiet(c) \/ ApplyTransition(c) \/ ApplyEffect(c)
<1>1. ASSUME NEW c \in Callers, ExecuteCommand(c)
      PROVE  FALSE
  BY <1>1, CommandFacts DEF RuntimeShape
<1>2. DOMAIN clients \subseteq Callers
  BY ClientsAssumption DEF BaseInv
<1> QED
  BY <1>1, <1>2, StepCases DEF BaseInv, Quiet

LEMMA QuietFacts ==
  ASSUME BaseInv, RuntimeShape, InRuntime, NEW c \in Callers, Quiet(c)
  PROVE  /\ UNCHANGED reported
         /\ \A d \in Callers \ {c} : job'[d] = job[d] /\ call'[d] = call[d]
         /\ job[c].effects = <<>>
         /\ job'[c].event \in AllowedEvent /\ job'[c].effects = <<>>
         /\ call'[c].at \notin Command
<1>1. /\ job[c] \in Job /\ job[c].event \in AllowedEvent /\ call[c].at \notin Command
      /\ job \in [Callers -> Job] /\ call \in [Callers -> Reg!CallState]
      /\ job[c].step # "effects" => job[c].effects = <<>>
  BY BaseTypes DEF BaseInv, TypeOK, Reg!TypeOK, RuntimeShape, AllowedEvent, TaskInv, HasOneStream
<1>2. "none" \in AllowedEvent /\ "StreamOpened" \in AllowedEvent
  BY DEF AllowedEvent
<1>3. CASE Registering(c)
  <2>1. /\ UNCHANGED reported /\ job'[c].event \in AllowedEvent /\ job'[c].effects = <<>>
        /\ job[c].effects = <<>>
        /\ \A d \in Callers \ {c} : job'[d] = job[d]
    BY <1>1, <1>2, <1>3, NoJobTyped
       DEF Registering, BeginRegister, NumberSession, InsertSession, Become, Busy, JobAt
  <2>2. call'[c].at \notin Command /\ \A d \in Callers \ {c} : call'[d] = call[d]
    BY <1>1, <1>3
       DEF Registering, BeginRegister, NumberSession, InsertSession, Reg!TryReserve,
           Reg!AssignId, Reg!Publish, Reg!At, Reg!Idle, Command
  <2> QED
    BY <2>1, <2>2
<1>4. CASE Resolving(c)
  <2>1. UNCHANGED <<call, reported>>
    BY <1>4 DEF Resolving, CheckAccepting, SelectFails, FindSession, FinishEvent, regVars
  <2>2. Become(c, NoJob) \/ \E where \in JobStep : Become(c, [job[c] EXCEPT !.step = where])
    BY <1>4 DEF Resolving, CheckAccepting, SelectFails, FindSession, FinishEvent, JobStep
  <2>3. job[c].effects = <<>>
    BY <1>1, <1>4 DEF Resolving, CheckAccepting, SelectFails, FindSession, FinishEvent
  <2>4. /\ job'[c].event \in AllowedEvent /\ job'[c].effects = <<>>
        /\ \A d \in Callers \ {c} : job'[d] = job[d]
    <3>1. CASE Become(c, NoJob)
      BY <1>1, <1>2, <3>1, NoJobTyped DEF Become
    <3>2. ASSUME NEW where \in JobStep, Become(c, [job[c] EXCEPT !.step = where])
          PROVE  /\ job'[c].event \in AllowedEvent /\ job'[c].effects = <<>>
                 /\ \A d \in Callers \ {c} : job'[d] = job[d]
      <4>1. job'[c] = [job[c] EXCEPT !.step = where] /\ \A d \in Callers \ {c} : job'[d] = job[d]
        BY <1>1, <3>2 DEF Become
      <4> QED
        BY <1>1, <2>3, <4>1, MovingJob
    <3> QED
      BY <2>2, <3>1, <3>2
  <2> QED
    BY <1>1, <2>1, <2>3, <2>4
<1>5. CASE SelectSucceeds(c)
  BY <1>1, <1>5, MovingJob DEF SelectSucceeds, Become, JobStep
<1>6. CASE BeginShutdown(c)
  BY <1>1, <1>2, <1>6, BeginShutdownFacts, NoJobTyped
<1>7. ASSUME NEW id \in SessionId, ReturnPermit(c, id)
      PROVE  /\ UNCHANGED <<call, job, reported>> /\ job[c].effects = <<>>
  BY <1>1, <1>7 DEF ReturnPermit, Reg!DropPermit
<1>8. ASSUME NEW id \in SessionId, CloseDrained(c, id)
      PROVE  /\ UNCHANGED <<call, reported>> /\ job[c].effects = <<>>
             /\ \A d \in Callers \ {c} : job'[d] = job[d]
             /\ job'[c].event \in AllowedEvent /\ job'[c].effects = <<>>
  BY <1>1, <1>2, <1>8, CloseDrainedFacts, NoJobTyped
<1>9. ASSUME NEW id \in SessionId, NEW event \in AllowedEvent,
             Become(c, JobAt("check", id, event)) \/ Become(c, JobAt("transition", id, event))
      PROVE  /\ \A d \in Callers \ {c} : job'[d] = job[d]
             /\ job'[c].event \in AllowedEvent /\ job'[c].effects = <<>>
  BY <1>1, <1>9 DEF Become, JobAt
<1>10. ASSUME NEW id \in SessionId, BeginResolve(c, id)
       PROVE  /\ UNCHANGED <<call, reported>> /\ job[c].effects = <<>>
              /\ \A d \in Callers \ {c} : job'[d] = job[d]
              /\ job'[c].event \in AllowedEvent /\ job'[c].effects = <<>>
  BY <1>2, <1>9, <1>10, NoJobTyped DEF BeginResolve, Busy, regVars
<1>11. ASSUME c \in DOMAIN clients, NEW id \in SessionId, NEW event \in clients[c],
              BeginEvent(c, id, event)
       PROVE  /\ UNCHANGED <<call, reported>> /\ job[c].effects = <<>>
              /\ \A d \in Callers \ {c} : job'[d] = job[d]
              /\ job'[c].event \in AllowedEvent /\ job'[c].effects = <<>>
  <2>1. event \in AllowedEvent
    BY <1>11 DEF InRuntime, AllowedEvent
  <2>2. job[c] = NoJob /\ UNCHANGED <<call, reported>>
    BY <1>11 DEF BeginEvent, Busy, regVars
  <2>3. Become(c, JobAt("transition", id, event)) \/ UNCHANGED job
    BY <1>11 DEF BeginEvent
  <2> QED
    BY <1>1, <1>9, <2>1, <2>2, <2>3, NoJobTyped
<1> QED
  BY <1>1, <1>3, <1>4, <1>5, <1>6, <1>7, <1>8, <1>10, <1>11 DEF Quiet

(* What an effect does under the runtime's events: an end removes its      *)
(* session or reports it, last; nothing else removes or reports.           *)
LEMMA RuntimeEffect ==
  ASSUME BaseInv, RuntimeShape, NEW c \in Callers, ApplyEffect(c)
  PROVE  /\ UNCHANGED <<nextId, record, call>>
         /\ job'[c].effects \in EndEffects \cup OtherEffects
         /\ job'[c].effects \in EndEffects => job[c].effects \in EndEffects
         /\ \/ UNCHANGED reported
            \/ /\ job[c].effects = <<Report>> /\ job'[c].effects = <<>>
               /\ reported' = [reported EXCEPT ![job[c].sid] = Append(@, Report)]
         /\ \/ UNCHANGED sessions
            \/ Ends(c, job[c].sid) /\ sessions' = sessions \ {job[c].sid}
<1> DEFINE fx == job[c].effects
<1>1. fx \in EndEffects \cup OtherEffects /\ fx # <<>> /\ job'[c].effects = Tail(fx)
  BY EffectFacts DEF RuntimeShape
<1>2. /\ Tail(fx) \in EndEffects \cup OtherEffects
      /\ Tail(fx) \in EndEffects => fx \in EndEffects
      /\ Head(fx).op = "SessionClosed" => fx = <<Report>> /\ Tail(fx) = <<>>
      /\ Head(fx).target = "registry" => fx \in EndEffects /\ Head(fx).op = "Remove"
      /\ Head(fx).op # "SessionClosing"
  BY <1>1, EffectLists
<1>3. \/ Reg!Remove(job[c].sid) /\ UNCHANGED reported /\ Head(fx).target = "registry"
      \/ /\ Head(fx).op = "SessionClosed" /\ UNCHANGED regVars
         /\ reported' = [reported EXCEPT ![job[c].sid] = Append(@, Head(fx))]
      \/ UNCHANGED <<regVars, reported>>
  BY <1>2 DEF ApplyEffect
<1>4. CASE Reg!Remove(job[c].sid) /\ UNCHANGED reported /\ Head(fx).target = "registry"
  BY <1>1, <1>2, <1>4 DEF Reg!Remove, Ends
<1>5. CASE /\ Head(fx).op = "SessionClosed" /\ UNCHANGED regVars
           /\ reported' = [reported EXCEPT ![job[c].sid] = Append(@, Head(fx))]
  <2>1. fx = <<Report>> /\ Tail(fx) = <<>>
    BY <1>2, <1>5
  <2>2. Head(fx) = Report
    BY <2>1
  <2> QED
    BY <1>1, <1>2, <1>5, <2>1, <2>2 DEF regVars
<1>6. CASE UNCHANGED <<regVars, reported>>
  BY <1>1, <1>2, <1>6 DEF regVars
<1> QED
  BY <1>3, <1>4, <1>5, <1>6

LEMMA RuntimeShapeStep ==
  ASSUME BaseInv, RuntimeShape, InRuntime, [Next]_vars
  PROVE  RuntimeShape'
<1>1. \A id \in SessionId : Phase(id)' \in {"active", "closed"}
  BY RuntimePhases DEF PhaseKept
<1> SUFFICES ASSUME NEW e \in Callers
             PROVE  /\ call'[e].at \notin Command
                    /\ job'[e].event \in RuntimeEvents \cup {"StreamOpened", "none"}
                    /\ job'[e].effects \in EndEffects \cup OtherEffects
  BY <1>1 DEF RuntimeShape
<1>2. /\ call[e].at \notin Command
      /\ job[e].event \in RuntimeEvents \cup {"StreamOpened", "none"}
      /\ job[e].effects \in EndEffects \cup OtherEffects
  BY DEF RuntimeShape
<1>3. CASE UNCHANGED vars
  BY <1>2, <1>3 DEF vars, regVars
<1>4. ASSUME NEW c \in Callers, Quiet(c)
      PROVE  /\ call'[e].at \notin Command
             /\ job'[e].event \in RuntimeEvents \cup {"StreamOpened", "none"}
             /\ job'[e].effects \in EndEffects \cup OtherEffects
  BY <1>2, <1>4, QuietFacts, NoEffectsNoEnd DEF AllowedEvent
<1>5. ASSUME NEW c \in Callers, ApplyTransition(c)
      PROVE  /\ call'[e].at \notin Command
             /\ job'[e].event \in RuntimeEvents \cup {"StreamOpened", "none"}
             /\ job'[e].effects \in EndEffects \cup OtherEffects
  <2> DEFINE s == record[job[c].sid].state
  <2>1. /\ job[c].sid \in SessionId /\ s \in State
        /\ \A d \in Callers \ {c} : job'[d] = job[d]
        /\ job'[c].event = job[c].event /\ job'[c].effects = EffectsOf(s, job[c].event)
        /\ UNCHANGED call
    BY <1>5, TransitionFacts
  <2>2. s.phase \in {"active", "closed"} /\ job[c].event \in AllowedEvent
    BY <2>1 DEF RuntimeShape, Phase, AllowedEvent
  <2>3. EffectsOf(s, job[c].event) \in EndEffects \cup OtherEffects
    BY <2>1, <2>2, RuntimeTransition
  <2> QED
    BY <1>2, <2>1, <2>2, <2>3 DEF AllowedEvent
<1>6. ASSUME NEW c \in Callers, ApplyEffect(c)
      PROVE  /\ call'[e].at \notin Command
             /\ job'[e].event \in RuntimeEvents \cup {"StreamOpened", "none"}
             /\ job'[e].effects \in EndEffects \cup OtherEffects
  <2>1. /\ \A d \in Callers \ {c} : job'[d] = job[d]
        /\ job'[c].event = job[c].event
    BY <1>6, EffectFacts
  <2>2. UNCHANGED call /\ job'[c].effects \in EndEffects \cup OtherEffects
    BY <1>6, RuntimeEffect
  <2> QED
    BY <1>2, <2>1, <2>2
<1> QED
  BY <1>3, <1>4, <1>5, <1>6, QuietCases

(* The reports of one session's end. *)
LEMMA ReportsAfter ==
  ASSUME NEW old \in Seq(Effect), NEW new, new = Append(old, Report),
         {i \in DOMAIN old : old[i].op = "SessionClosed"} = {}
  PROVE  Cardinality({i \in DOMAIN new : new[i].op = "SessionClosed"}) <= 1
<1>1. Report \in Effect
  BY DEF Report, Effect, CloseReason
<1>2. DOMAIN new = 1..(Len(old) + 1) /\ \A i \in DOMAIN old : new[i] = old[i]
  BY <1>1
<1>3. {i \in DOMAIN new : new[i].op = "SessionClosed"} \subseteq {Len(old) + 1}
  BY <1>2
<1>4. IsFiniteSet({Len(old) + 1}) /\ Cardinality({Len(old) + 1}) = 1
  BY FS_Singleton
<1> QED
  BY <1>3, <1>4, FS_Subset

(* A step that reports nothing and leaves nothing new to be reported.      *)
LEMMA NothingReported ==
  ASSUME NEW id \in SessionId, ReportedOnce(id), reported'[id] = reported[id],
         Phase(id) = "closed" => Phase(id)' = "closed",
         \A d \in Callers : Ends(d, id)' => Ends(d, id)
  PROVE  ReportedOnce(id)'
<1>1. ClosedReports(id)' = ClosedReports(id)
  BY DEF ClosedReports
<1> QED
  BY <1>1 DEF ReportedOnce

LEMMA OneReportStep ==
  ASSUME BaseInv, RuntimeShape, InRuntime, OneReport, [Next]_vars
  PROVE  OneReport'
<1> SUFFICES ASSUME NEW id \in SessionId
             PROVE  ReportedOnce(id)'
  BY DEF OneReport
<1>1. ReportedOnce(id) /\ (Phase(id) = "closed" => Phase(id)' = "closed")
  BY RuntimePhases DEF OneReport, PhaseKept
<1>2. CASE UNCHANGED vars
  BY <1>1, <1>2, NothingReported DEF vars, Ends
<1>3. ASSUME NEW c \in Callers, Quiet(c)
      PROVE  ReportedOnce(id)'
  <2>1. \A d \in Callers : Ends(d, id)' => Ends(d, id)
    BY <1>3, QuietFacts, NoEffectsNoEnd DEF Ends
  <2> QED
    BY <1>1, <1>3, <2>1, QuietFacts, NothingReported
<1>4. ASSUME NEW c \in Callers, ApplyTransition(c)
      PROVE  ReportedOnce(id)'
  <2> DEFINE s == record[id].state
             event == job[c].event
  <2>1. /\ record'[job[c].sid].state = NextState(record[job[c].sid].state, event)
        /\ record[job[c].sid].state \in State
        /\ \A d \in Callers \ {c} : job'[d] = job[d]
        /\ job'[c].sid = job[c].sid /\ UNCHANGED reported
        /\ job'[c].effects = EffectsOf(record[job[c].sid].state, event)
    BY <1>4, TransitionFacts
  <2>2. CASE ~Ends(c, id)'
    <3>1. \A d \in Callers : Ends(d, id)' => Ends(d, id)
      BY <2>1, <2>2 DEF Ends
    <3> QED
      BY <1>1, <2>1, <3>1, NothingReported
  <2>3. CASE Ends(c, id)'
    <3>1. job[c].sid = id /\ EffectsOf(s, event) \in EndEffects
      BY <2>1, <2>3 DEF Ends
    <3>2. s \in State /\ s.phase \in {"active", "closed"} /\ event \in AllowedEvent
      BY <2>1, <3>1 DEF RuntimeShape, Phase, AllowedEvent
    <3>3. s.phase = "active" /\ NextState(s, event).phase = "closed"
      BY <3>1, <3>2, RuntimeTransition
    <3>4. Phase(id) # "closed" /\ Phase(id)' = "closed"
      BY <2>1, <3>1, <3>3 DEF Phase
    <3>5. ClosedReports(id) = {} /\ \A d \in Callers : ~Ends(d, id)
      BY <1>1, <3>4 DEF ReportedOnce
    <3>6. \A d \in Callers : Ends(d, id)' => d = c
      BY <2>1, <3>5 DEF Ends
    <3>7. ClosedReports(id)' = ClosedReports(id)
      BY <2>1 DEF ClosedReports
    <3> QED
      BY <1>1, <3>4, <3>5, <3>6, <3>7 DEF ReportedOnce
  <2> QED
    BY <2>2, <2>3
<1>5. ASSUME NEW c \in Callers, ApplyEffect(c)
      PROVE  ReportedOnce(id)'
  <2>1. /\ \A d \in Callers \ {c} : job'[d] = job[d]
        /\ job'[c].sid = job[c].sid /\ job[c].sid \in SessionId
    BY <1>5, EffectFacts
  <2>2. /\ job'[c].effects \in EndEffects => job[c].effects \in EndEffects
        /\ \/ UNCHANGED reported
           \/ /\ job[c].effects = <<Report>> /\ job'[c].effects = <<>>
              /\ reported' = [reported EXCEPT ![job[c].sid] = Append(@, Report)]
    BY <1>5, RuntimeEffect
  <2>3. \A d \in Callers : Ends(d, id)' => Ends(d, id)
    BY <2>1, <2>2 DEF Ends
  <2>4. reported \in [SessionId -> Seq(Effect)]
    BY DEF BaseInv
  <2>5. CASE UNCHANGED reported \/ job[c].sid # id
    <3>1. reported'[id] = reported[id]
      BY <2>2, <2>4, <2>5
    <3> QED
      BY <1>1, <2>3, <3>1, NothingReported
  <2>6. CASE ~(UNCHANGED reported) /\ job[c].sid = id
    <3>1. Ends(c, id) /\ ~Ends(c, id)'
      BY <2>2, <2>6, NoEffectsNoEnd DEF Ends, EndEffects
    <3>2. ClosedReports(id) = {} /\ Phase(id)' = "closed" /\ \A d \in Callers : ~Ends(d, id)'
      BY <1>1, <2>3, <3>1 DEF ReportedOnce
    <3>3. reported[id] \in Seq(Effect) /\ reported'[id] = Append(reported[id], Report)
      BY <2>2, <2>4, <2>6
    <3>4. Cardinality(ClosedReports(id)') <= 1
      BY <3>2, <3>3, ReportsAfter DEF ClosedReports
    <3> QED
      BY <3>2, <3>4 DEF ReportedOnce
  <2> QED
    BY <2>5, <2>6
<1> QED
  BY <1>2, <1>3, <1>4, <1>5, QuietCases

(* What a shutdown took out of the map it closes before it forgets it.     *)
LEMMA DrainedStep ==
  ASSUME BaseInv, RuntimeShape, [Next]_vars, NEW d \in Callers, NEW id \in job[d].drained
  PROVE  id \in job'[d].drained \/ Phase(id)' = "closed"
<1>1. job[d].drained # {} /\ job[d].step = "draining" /\ job \in [Callers -> Job]
  BY BaseTypes DEF BaseInv, TaskInv, HasOneStream
<1>2. ASSUME job'[d] = job[d]
      PROVE  id \in job'[d].drained
  BY <1>2
<1>3. ASSUME NEW c \in Callers, Registering(c) \/ Resolving(c) \/ SelectSucceeds(c)
                                \/ ApplyTransition(c) \/ ApplyEffect(c)
      PROVE  job'[d] = job[d]
  <2>1. c # d
    BY <1>1, <1>3, NoJobTyped
       DEF Registering, BeginRegister, NumberSession, InsertSession, Busy, Resolving,
           CheckAccepting, SelectFails, FindSession, FinishEvent, SelectSucceeds,
           ApplyTransition, ApplyEffect
  <2>2. UNCHANGED job \/ \E j : Become(c, j)
    BY <1>3
       DEF Registering, BeginRegister, NumberSession, InsertSession, Resolving,
           CheckAccepting, SelectFails, FindSession, FinishEvent, SelectSucceeds,
           ApplyTransition, ApplyEffect
  <2> QED
    BY <1>1, <2>1, <2>2 DEF Become
<1>4. ASSUME NEW c \in Callers, BeginShutdown(c)
      PROVE  job'[d] = job[d]
  BY <1>1, <1>4, BeginShutdownFacts, NoJobTyped
<1>5. ASSUME NEW c \in Callers, ExecuteCommand(c)
      PROVE  job'[d] = job[d]
  BY <1>5 DEF ExecuteCommand
<1>6. ASSUME NEW c \in Callers, NEW o \in SessionId, ReturnPermit(c, o)
      PROVE  job'[d] = job[d]
  BY <1>6 DEF ReturnPermit
<1>7. ASSUME NEW c \in Callers, NEW o \in SessionId, CloseDrained(c, o)
      PROVE  id \in job'[d].drained \/ Phase(id)' = "closed"
  <2>1. /\ record'[o].state = Closed /\ job'[c].drained = job[c].drained \ {o}
        /\ \A e \in Callers \ {c} : job'[e] = job[e]
    BY <1>7, CloseDrainedFacts
  <2> QED
    BY <2>1 DEF Phase, Closed
<1>8. ASSUME NEW c \in Callers, NEW o \in SessionId, BeginResolve(c, o)
      PROVE  job'[d] = job[d]
  BY <1>1, <1>8, NoJobTyped DEF BeginResolve, Busy, Become
<1>9. ASSUME NEW c \in DOMAIN clients, NEW o \in SessionId, NEW event \in clients[c],
             BeginEvent(c, o, event)
      PROVE  job'[d] = job[d]
  BY <1>1, <1>9, NoJobTyped DEF BeginEvent, Busy, Become
<1>10. CASE UNCHANGED vars
  BY <1>10 DEF vars
<1> QED
  BY <1>2, <1>3, <1>4, <1>5, <1>6, <1>7, <1>8, <1>9, <1>10, StepCases DEF BaseInv

(* A session enters the map as its identifier is inserted, and leaves it   *)
(* when its end is applied or a shutdown takes it.                         *)
LEMMA MapStep ==
  ASSUME BaseInv, RuntimeShape, InRuntime, [Next]_vars
  PROVE  /\ Reg!Inserted' \ sessions' \subseteq Reg!Inserted
         /\ \A id \in sessions \ sessions' :
              (\E c \in Callers : Ends(c, id)) \/ (\E c \in Callers : id \in job'[c].drained)
<1>1. ASSUME Reg!Inserted' = Reg!Inserted, UNCHANGED sessions
      PROVE  /\ Reg!Inserted' \ sessions' \subseteq Reg!Inserted
             /\ sessions \ sessions' = {}
  BY <1>1
<1>2. CASE UNCHANGED vars
  BY <1>1, <1>2 DEF vars, regVars, Reg!Inserted
<1>3. ASSUME NEW c \in Callers, BeginRegister(c)
      PROVE  Reg!Inserted' = Reg!Inserted /\ UNCHANGED sessions
  <2>1. call \in [Callers -> Reg!CallState]
    BY BaseTypes DEF TypeOK, Reg!TypeOK
  <2>2. /\ call[c] = Reg!Idle /\ call' = [call EXCEPT ![c] = Reg!At("reserved", 0)]
        /\ UNCHANGED <<nextId, sessions>>
    BY <1>3 DEF BeginRegister, Reg!TryReserve
  <2>3. Reg!Idle.at = "idle" /\ Reg!At("reserved", 0).at = "reserved"
    BY DEF Reg!Idle, Reg!At
  <2> QED
    BY <2>1, <2>2, <2>3, InsertedUnchanged
<1>4. ASSUME NEW c \in Callers, NumberSession(c)
      PROVE  Reg!Inserted' = Reg!Inserted /\ UNCHANGED sessions
  BY <1>4, AssigningInsertsNothing, BaseTypes DEF NumberSession, Reg!AssignId, TypeOK
<1>5. ASSUME NEW c \in Callers, InsertSession(c)
      PROVE  /\ Reg!Inserted' \ sessions' \subseteq Reg!Inserted
             /\ sessions \ sessions' = {}
  BY <1>5, PublishingInserts DEF InsertSession, Reg!Publish, BaseInv
<1>6. ASSUME NEW c \in Callers, Resolving(c) \/ SelectSucceeds(c) \/ ApplyTransition(c)
      PROVE  Reg!Inserted' = Reg!Inserted /\ UNCHANGED sessions
  BY <1>6 DEF Resolving, CheckAccepting, SelectFails, FindSession, FinishEvent, SelectSucceeds,
              ApplyTransition, regVars, Reg!Inserted
<1>7. ASSUME NEW c \in Callers, ApplyEffect(c)
      PROVE  /\ Reg!Inserted' \subseteq Reg!Inserted
             /\ \A id \in sessions \ sessions' : Ends(c, id)
  BY <1>7, RuntimeEffect DEF Reg!Inserted
<1>8. ASSUME NEW c \in Callers, BeginShutdown(c)
      PROVE  /\ Reg!Inserted' = Reg!Inserted
             /\ \A id \in sessions \ sessions' : id \in job'[c].drained
  BY <1>8, BeginShutdownFacts DEF Reg!Inserted
<1>9. ASSUME NEW c \in Callers, NEW id \in SessionId,
             ReturnPermit(c, id) \/ CloseDrained(c, id) \/ BeginResolve(c, id)
      PROVE  Reg!Inserted' = Reg!Inserted /\ UNCHANGED sessions
  BY <1>9 DEF ReturnPermit, Reg!DropPermit, CloseDrained, BeginResolve, regVars, Reg!Inserted
<1>10. ASSUME NEW c \in DOMAIN clients, NEW id \in SessionId, NEW event \in clients[c],
              BeginEvent(c, id, event)
       PROVE  Reg!Inserted' = Reg!Inserted /\ UNCHANGED sessions
  BY <1>10 DEF BeginEvent, regVars, Reg!Inserted
<1>11. ASSUME NEW c \in Callers, Quiet(c)
       PROVE  \/ Reg!Inserted' = Reg!Inserted /\ UNCHANGED sessions
              \/ InsertSession(c) \/ BeginShutdown(c)
  BY <1>3, <1>4, <1>6, <1>9, <1>10, <1>11 DEF Quiet, Registering
<1>12. ASSUME NEW c \in Callers, Quiet(c) \/ ApplyTransition(c) \/ ApplyEffect(c)
       PROVE  /\ Reg!Inserted' \ sessions' \subseteq Reg!Inserted
              /\ \A id \in sessions \ sessions' : Ends(c, id) \/ id \in job'[c].drained
  BY <1>1, <1>5, <1>6, <1>7, <1>8, <1>11, <1>12
<1> QED
  BY <1>1, <1>2, <1>12, QuietCases

LEMMA RetiredStep ==
  ASSUME BaseInv, RuntimeShape, InRuntime, OneReport, RetiredIsClosed, [Next]_vars
  PROVE  RetiredIsClosed'
<1> SUFFICES ASSUME NEW id \in (Reg!Inserted \ sessions)'
             PROVE  Phase(id)' = "closed" \/ \E c \in Callers : id \in job'[c].drained
  BY DEF RetiredIsClosed
<1>1. id \in Reg!Inserted /\ id \in SessionId
  BY MapStep, SessionsInserted
<1>2. Phase(id) = "closed" => Phase(id)' = "closed"
  BY <1>1, RuntimePhases DEF PhaseKept
<1>3. CASE id \in sessions
  <2>1. (\E c \in Callers : Ends(c, id)) \/ (\E c \in Callers : id \in job'[c].drained)
    BY <1>3, MapStep
  <2>2. (\E c \in Callers : Ends(c, id)) => Phase(id) = "closed"
    BY <1>1 DEF OneReport, ReportedOnce
  <2> QED
    BY <1>2, <2>1, <2>2
<1>4. CASE id \notin sessions
  <2>1. Phase(id) = "closed" \/ \E c \in Callers : id \in job[c].drained
    BY <1>1, <1>4 DEF RetiredIsClosed
  <2>2. ASSUME NEW c \in Callers, id \in job[c].drained
        PROVE  id \in job'[c].drained \/ Phase(id)' = "closed"
    BY <2>2, DrainedStep
  <2> QED
    BY <1>2, <2>1, <2>2
<1> QED
  BY <1>3, <1>4

(* The runtime's invariant, beside the manager's. *)
LEMMA RuntimeInit == Init => RuntimeInv
<1> SUFFICES ASSUME Init
             PROVE  RuntimeShape /\ OneReport /\ RetiredIsClosed
  BY DEF RuntimeInv
<1>1. \A c \in Callers : job[c] = NoJob /\ call[c].at = "idle"
  BY DEF Init, Reg!Init, Reg!Idle
<1>2. \A id \in SessionId : Phase(id) = "active" /\ reported[id] = <<>>
  BY RegistryTerms DEF Init, Reg!Init, Phase, Active, SessionId
<1>3. RuntimeShape
  BY <1>1, <1>2, NoJobTyped, NoEffectsNoEnd DEF RuntimeShape, Command
<1>4. \A id \in SessionId : ReportedOnce(id)
  <2>1. \A id \in SessionId : ClosedReports(id) = {}
    BY <1>2 DEF ClosedReports
  <2>2. Cardinality({}) <= 1
    BY FS_EmptySet
  <2>3. \A c \in Callers, id \in SessionId : ~Ends(c, id)
    BY <1>1, NoJobTyped, NoEffectsNoEnd DEF Ends
  <2> QED
    BY <2>1, <2>2, <2>3 DEF ReportedOnce
<1>5. Reg!Inserted = {}
  BY DEF Init, Reg!Init, Reg!Inserted
<1> QED
  BY <1>3, <1>4, <1>5 DEF OneReport, RetiredIsClosed

LEMMA RuntimePreserved ==
  ASSUME BaseInv, RuntimeInv, [Next]_vars
  PROVE  RuntimeInv'
<1>1. UNCHANGED clients
  BY StepCases DEF BaseInv, vars
<1>2. InRuntime' => InRuntime
  BY <1>1 DEF InRuntime
<1>3. ASSUME InRuntime
      PROVE  RuntimeShape' /\ OneReport' /\ RetiredIsClosed'
  BY <1>3, RuntimeShapeStep, OneReportStep, RetiredStep DEF RuntimeInv
<1> QED
  BY <1>2, <1>3 DEF RuntimeInv

(* Under the runtime's events the end of a session is reported at most     *)
(* once, even when its last stream closes while a shutdown drains it.      *)
THEOREM EndReportedOnce == Spec => []ClosedReportedOnce
<1>1. RuntimeInv => ClosedReportedOnce
  BY DEF RuntimeInv, OneReport, ReportedOnce, ClosedReportedOnce
<1> QED
  BY <1>1, BaseInit, BasePreserved, RuntimeInit, RuntimePreserved, PTL DEF Spec

(* ... a session out of the registry is closed, or a shutdown is about to  *)
(* close it ...                                                            *)
THEOREM RetiredSessionsClosed == Spec => []RetiredIsClosed
<1>1. RuntimeInv => RetiredIsClosed
  BY DEF RuntimeInv, RetiredIsClosed
<1> QED
  BY <1>1, BaseInit, BasePreserved, RuntimeInit, RuntimePreserved, PTL DEF Spec

(* ... and a closed session is never revived, by any of the tasks that     *)
(* write its record.                                                       *)
THEOREM ClosedStaysClosed == Spec => ClosedIsTerminal
<1>1. ASSUME BaseInv, RuntimeInv, [Next]_vars
      PROVE  [InRuntime => \A id \in SessionId : Later(Phase(id), Phase(id)')]_vars
  <2>1. ASSUME InRuntime, NEW id \in SessionId
        PROVE  Later(Phase(id), Phase(id)')
    <3>1. RuntimeShape
      BY <2>1, <1>1 DEF RuntimeInv
    <3>2. PhaseKept
      BY <3>1, <1>1, RuntimePhases
    <3> QED
      BY <3>1, <3>2 DEF RuntimeShape, PhaseKept, Later
  <2> QED
    BY <2>1
<1> QED
  BY <1>1, BaseInit, BasePreserved, RuntimeInit, RuntimePreserved, PTL
     DEF Spec, ClosedIsTerminal

-----------------------------------------------------------------------------
(* Counting the tasks that hold a stream of a session.                     *)
LEMMA HoldersFinite ==
  ASSUME NEW id
  PROVE  /\ Holders(id) \subseteq Callers /\ IsFiniteSet(Holders(id))
         /\ Cardinality(Holders(id)) \in Nat
BY ManagerAssumption, FS_Subset, FS_CardinalityType DEF Holders

LEMMA HoldersGrow ==
  ASSUME NEW id, NEW c \in Callers, c \notin Holders(id), Holders(id)' = Holders(id) \cup {c},
         Cardinality(Callers) <= MaxStreams
  PROVE  Cardinality(Holders(id)') = SaturatingInc(Cardinality(Holders(id)))
<1>1. /\ IsFiniteSet(Holders(id) \cup {c})
      /\ Cardinality(Holders(id) \cup {c}) = Cardinality(Holders(id)) + 1
  BY HoldersFinite, FS_AddElement
<1>2. Cardinality(Holders(id) \cup {c}) <= Cardinality(Callers)
  <2>1. Holders(id) \cup {c} \subseteq Callers
    BY HoldersFinite
  <2> QED
    BY <2>1, ManagerAssumption, FS_Subset
<1>3. Cardinality(Callers) \in Nat /\ Cardinality(Holders(id)) \in Nat
  BY ManagerAssumption, FS_CardinalityType, HoldersFinite
<1> QED
  BY <1>1, <1>2, <1>3, MaxStreamsAssumption DEF SaturatingInc

LEMMA HoldersShrink ==
  ASSUME NEW id, NEW c \in Holders(id), Holders(id)' = Holders(id) \ {c}
  PROVE  Cardinality(Holders(id)') = SaturatingDec(Cardinality(Holders(id)))
<1>1. Cardinality(Holders(id) \ {c}) = Cardinality(Holders(id)) - 1
  BY HoldersFinite, FS_RemoveElement
<1>2. Cardinality(Holders(id)) # 0
  BY HoldersFinite, FS_EmptySet
<1> QED
  BY <1>1, <1>2, HoldersFinite DEF SaturatingDec

Counted(id) == Phase(id) = "active" => record[id].state.streams = Cardinality(Holders(id))

LEMMA CountedMeaning == StreamCountMatches <=> \A id \in sessions : Counted(id)
BY DEF StreamCountMatches, Counted, Holders

LEMMA CountedNext ==
  ASSUME \A id \in sessions' : Counted(id)'
  PROVE  StreamCountMatches'
BY DEF StreamCountMatches, Counted, Holders

LEMMA NoIdIsZero == 0 \notin SessionId
<1>1. MaxId \in Nat /\ SessionId = 1..MaxId
  BY ManagerAssumption, RegistryTerms
<1> QED
  BY <1>1

LEMMA CountKept ==
  ASSUME NEW id, Counted(id), Holders(id)' = Holders(id),
         record'[id].state = record[id].state \/ Phase(id)' # "active"
  PROVE  Counted(id)'
BY DEF Counted, Phase

LEMMA ApplyTransitionCounts ==
  ASSUME BaseInv, NEW c \in Callers, ApplyTransition(c), NEW o \in sessions, Counted(o),
         Cardinality(Callers) <= MaxStreams
  PROVE  Counted(o)'
<1> DEFINE id == job[c].sid
           event == job[c].event
           s == record[id].state
<1>1. /\ id \in SessionId /\ s \in State
      /\ record'[id].state = NextState(s, event)
      /\ \A p \in SessionId \ {id} : record'[p] = record[p]
      /\ \A d \in Callers \ {c} : stream'[d] = stream[d]
      /\ stream'[c] = CASE event = "StreamOpened" -> id
                        [] event = "StreamClosed" -> 0
                        [] OTHER                  -> stream[c]
  BY TransitionFacts
<1>2. /\ event = "StreamOpened" => stream[c] = 0
      /\ event = "StreamClosed" => stream[c] = id
  BY DEF ApplyTransition, BaseInv, TaskInv, HasOneStream
<1>3. o \in SessionId /\ o # 0
  BY SessionsInserted, NoIdIsZero
<1>4. CASE o # id
  <2>1. \A d \in Callers : stream'[d] = o <=> stream[d] = o
    BY <1>1, <1>2, <1>3, <1>4
  <2>2. Holders(o)' = Holders(o)
    BY <2>1 DEF Holders
  <2> QED
    BY <1>1, <1>3, <1>4, <2>2, CountKept
<1>5. CASE o = id /\ event = "StreamOpened" /\ s.phase = "active"
  <2>1. stream[c] = 0 /\ stream'[c] = o
    BY <1>1, <1>2, <1>5
  <2>2. c \notin Holders(o) /\ Holders(o)' = Holders(o) \cup {c}
    BY <1>1, <1>3, <2>1 DEF Holders
  <2>3. Cardinality(Holders(o)') = SaturatingInc(Cardinality(Holders(o)))
    BY <2>2, HoldersGrow
  <2>4. record'[o].state = Active(SaturatingInc(s.streams))
    BY <1>1, <1>5 DEF NextState
  <2>5. s.streams = Cardinality(Holders(o))
    BY <1>5 DEF Counted, Phase
  <2> QED
    BY <2>3, <2>4, <2>5 DEF Counted, Active
<1>6. CASE o = id /\ event = "StreamClosed" /\ s.phase = "active"
  <2>1. stream[c] = o /\ stream'[c] = 0
    BY <1>1, <1>2, <1>6
  <2>2. c \in Holders(o) /\ Holders(o)' = Holders(o) \ {c}
    BY <1>1, <1>3, <2>1 DEF Holders
  <2>3. Cardinality(Holders(o)') = SaturatingDec(Cardinality(Holders(o)))
    BY <2>2, HoldersShrink
  <2>4. record'[o].state \in {Active(SaturatingDec(s.streams)), Closed}
    BY <1>1, <1>6 DEF NextState
  <2>5. s.streams = Cardinality(Holders(o))
    BY <1>6 DEF Counted, Phase
  <2> QED
    BY <2>3, <2>4, <2>5 DEF Counted, Phase, Active, Closed
<1>7. CASE o = id /\ event \notin {"StreamOpened", "StreamClosed"}
  <2>1. Holders(o)' = Holders(o)
    BY <1>1, <1>7 DEF Holders
  <2>2. NextState(s, event) = s \/ NextState(s, event).phase # "active"
    BY <1>7 DEF NextState, Closing, Closed
  <2> QED
    BY <1>1, <1>7, <2>1, <2>2, CountKept DEF Phase
<1>8. CASE o = id /\ s.phase # "active"
  <2>1. NextState(s, event).phase # "active"
    BY <1>8 DEF NextState, Closed
  <2> QED
    BY <1>1, <1>8, <2>1 DEF Counted, Phase
<1> QED
  BY <1>4, <1>5, <1>6, <1>7, <1>8

LEMMA OtherStepsCount ==
  ASSUME BaseInv, StreamCountMatches, [Next]_vars, \A c \in Callers : ~ApplyTransition(c)
  PROVE  StreamCountMatches'
<1>1. ASSUME UNCHANGED stream, sessions' \subseteq sessions,
             \A id \in sessions' : record'[id].state = record[id].state \/ Phase(id)' # "active"
      PROVE  StreamCountMatches'
  <2>1. \A id \in sessions' : Counted(id)
    BY <1>1, CountedMeaning
  <2>2. \A id \in sessions' : Holders(id)' = Holders(id)
    BY <1>1 DEF Holders
  <2>3. \A id \in sessions' : Counted(id)'
    BY <1>1, <2>1, <2>2, CountKept
  <2> QED
    BY <2>3, CountedNext
<1>2. record \in [SessionId -> Reg!Record]
  BY BaseTypes DEF TypeOK, Reg!TypeOK, SessionId
<1>3. ASSUME NEW c \in Callers, Registering(c)
      PROVE  StreamCountMatches'
  <2>1. CASE InsertSession(c)
    <3>0. PICK new : new = call[c].sid
      OBVIOUS
    <3>1. /\ sessions' = sessions \cup {new} /\ UNCHANGED stream
          /\ record' = [record EXCEPT ![new] = Reg!NewRecord]
      BY <2>1, <3>0 DEF InsertSession, Reg!Publish
    <3>2. new \in SessionId /\ new \notin Reg!Inserted
      BY <2>1, <3>0, PublishingInserts DEF InsertSession, BaseInv
    <3>3. \A d \in Callers : stream[d] # new
      BY <3>2, NoIdIsZero DEF BaseInv, TaskInv, NamesInserted
    <3>4. Holders(new)' = {}
      BY <3>1, <3>3 DEF Holders
    <3>5. record'[new].state = Active(0) /\ \A o \in SessionId \ {new} : record'[o] = record[o]
      BY <1>2, <3>1, <3>2, RegistryTerms
    <3>6. Counted(new)'
      BY <3>4, <3>5, FS_EmptySet DEF Counted, Active
    <3>7. \A o \in sessions \ {new} : Counted(o) /\ Holders(o)' = Holders(o)
      BY <3>1, CountedMeaning DEF Holders
    <3>8. \A o \in sessions \ {new} : Counted(o)'
      BY <3>5, <3>7, SessionsInserted, CountKept
    <3> QED
      BY <3>1, <3>6, <3>8, CountedNext
  <2>2. CASE ~InsertSession(c)
    BY <1>1, <1>3, <2>2
       DEF Registering, BeginRegister, NumberSession, Reg!TryReserve, Reg!AssignId
  <2> QED
    BY <2>1, <2>2
<1>4. ASSUME NEW c \in Callers, SelectSucceeds(c)
      PROVE  StreamCountMatches'
  <2>1. \A id \in sessions : record'[id].state = record[id].state
    BY <1>2, <1>4, SessionsInserted, RegistryTerms DEF SelectSucceeds
  <2> QED
    BY <1>1, <1>4, <2>1 DEF SelectSucceeds
<1>5. ASSUME NEW c \in Callers, Resolving(c) \/ ApplyEffect(c) \/ BeginShutdown(c)
      PROVE  StreamCountMatches'
  <2>1. UNCHANGED <<record, stream>> /\ sessions' \subseteq sessions
    BY <1>5, EffectCases
       DEF Resolving, CheckAccepting, SelectFails, FindSession, FinishEvent, regVars, ApplyEffect,
           Removes, Looks, Reports, Reg!Remove, Reg!FindForCommand, BeginShutdown, Reg!DrainAll
  <2> QED
    BY <1>1, <2>1
<1>6. ASSUME NEW c \in Callers, ExecuteCommand(c)
      PROVE  StreamCountMatches'
  <2>1. PICK id, op : id = call[c].sid /\ op = call[c].at
    OBVIOUS
  <2>2. /\ id \in SessionId /\ op \in Command
        /\ record'[id] = Reg!Commanded(record[id], op)
        /\ \A o \in SessionId \ {id} : record'[o] = record[o]
        /\ UNCHANGED <<sessions, stream>>
    BY <1>6, <2>1, CommandFacts
  <2>3. record'[id].state = record[id].state \/ record'[id].state.phase # "active"
    <3>1. record[id] \in [state : State, accepting : BOOLEAN, idle : BOOLEAN]
      BY <1>2, <2>2, RegistryTerms
    <3>2. record'[id].state = CASE op = "CloseGently" -> Closing("drain_shutdown")
                                [] op = "CloseForced" -> Closed
                                [] OTHER              -> record[id].state
      BY <2>2, <3>1, RegistryTerms
    <3> QED
      BY <3>2 DEF Closing, Closed
  <2>4. \A o \in sessions : record'[o].state = record[o].state \/ Phase(o)' # "active"
    BY <2>2, <2>3, SessionsInserted DEF Phase
  <2> QED
    BY <1>1, <2>2, <2>4
<1>7. ASSUME NEW c \in Callers, NEW id \in SessionId,
             ReturnPermit(c, id) \/ CloseDrained(c, id) \/ BeginResolve(c, id)
      PROVE  StreamCountMatches'
  <2>1. CASE CloseDrained(c, id)
    <3>1. /\ record'[id].state = Closed /\ \A o \in SessionId \ {id} : record'[o] = record[o]
          /\ UNCHANGED <<sessions, stream>>
      BY <2>1, CloseDrainedFacts
    <3>2. \A o \in sessions : record'[o].state = record[o].state \/ Phase(o)' # "active"
      BY <3>1, SessionsInserted DEF Phase, Closed
    <3> QED
      BY <1>1, <3>1, <3>2
  <2>2. CASE ~CloseDrained(c, id)
    BY <1>1, <1>7, <2>2 DEF ReturnPermit, Reg!DropPermit, BeginResolve, regVars
  <2> QED
    BY <2>1, <2>2
<1>8. ASSUME NEW c \in DOMAIN clients, NEW id \in SessionId, NEW event \in clients[c],
             BeginEvent(c, id, event)
      PROVE  StreamCountMatches'
  <2>1. UNCHANGED <<sessions, record>>
    BY <1>8 DEF BeginEvent, regVars
  <2>2. CASE id \in sessions
    BY <1>1, <1>8, <2>1, <2>2 DEF BeginEvent
  <2>3. CASE id \notin sessions
    <3>1. stream[c] = id /\ stream' = [stream EXCEPT ![c] = 0] /\ c \in Callers
      BY <1>8, <2>3, ClientEvents DEF BeginEvent, BaseInv
    <3>2. \A o \in sessions : o # id /\ o # 0
      BY <2>3, SessionsInserted, NoIdIsZero
    <3>3. \A o \in sessions : Holders(o)' = Holders(o)
      <4>1. \A o \in sessions, d \in Callers : stream'[d] = o <=> stream[d] = o
        BY <3>1, <3>2 DEF BaseInv
      <4> QED
        BY <4>1 DEF Holders
    <3>4. \A o \in sessions : Counted(o)'
      BY <2>1, <3>3, CountedMeaning, CountKept
    <3> QED
      BY <2>1, <3>4, CountedNext
  <2> QED
    BY <2>2, <2>3
<1>9. CASE UNCHANGED vars
  BY <1>1, <1>9 DEF vars, regVars
<1> QED
  BY <1>3, <1>4, <1>5, <1>6, <1>7, <1>8, <1>9, StepCases DEF BaseInv

(* The stream count of an active session is the number of tasks that hold  *)
(* one of its streams, as long as there are not more tasks than the        *)
(* counter can count: past that it saturates, and forgets.                 *)
THEOREM StreamsAreCounted ==
  Cardinality(Callers) <= MaxStreams => (Spec => []StreamCountMatches)
<1> SUFFICES ASSUME Cardinality(Callers) <= MaxStreams
             PROVE  Spec => []StreamCountMatches
  OBVIOUS
<1>1. Init => StreamCountMatches
  BY DEF Init, Reg!Init, StreamCountMatches
<1>2. ASSUME BaseInv, StreamCountMatches, [Next]_vars
      PROVE  StreamCountMatches'
  <2>1. ASSUME NEW c \in Callers, ApplyTransition(c)
        PROVE  StreamCountMatches'
    <3>1. sessions' = sessions
      BY <2>1 DEF ApplyTransition
    <3>2. \A o \in sessions : Counted(o)
      BY <1>2, CountedMeaning
    <3>3. \A o \in sessions : Counted(o)'
      BY <1>2, <2>1, <3>2, ApplyTransitionCounts
    <3> QED
      BY <3>1, <3>3, CountedNext
  <2> QED
    BY <1>2, <2>1, OtherStepsCount
<1> QED
  BY <1>1, <1>2, BaseInit, BasePreserved, PTL DEF Spec

-----------------------------------------------------------------------------
(* A step of the manager is one of the registry's, or changes neither the  *)
(* map nor the identifiers.                                                *)
RegistryOrNone ==
  \/ RP!Next
  \/ UNCHANGED sessions /\ Reg!Inserted' = Reg!Inserted

LEMMA ManagerSteps ==
  ASSUME BaseInv, [Next]_vars
  PROVE  RegistryOrNone
<1>1. /\ RP!Next => RegistryOrNone
      /\ UNCHANGED <<sessions, nextId, call>> => RegistryOrNone
  <2>1. RP!Next => RegistryOrNone
    BY DEF RegistryOrNone
  <2>2. UNCHANGED <<sessions, nextId, call>> => RegistryOrNone
    BY DEF RegistryOrNone, Reg!Inserted
  <2> QED
    BY <2>1, <2>2
<1>2. ASSUME NEW c \in Callers, Registering(c)
      PROVE  RP!Next
  BY <1>2, RegistryCallerSteps DEF Registering, BeginRegister, NumberSession, InsertSession
<1>3. ASSUME NEW c \in Callers, Resolving(c) \/ SelectSucceeds(c) \/ ApplyTransition(c)
      PROVE  UNCHANGED <<sessions, nextId, call>>
  BY <1>3 DEF Resolving, CheckAccepting, SelectFails, FindSession, FinishEvent, SelectSucceeds,
              ApplyTransition, regVars
<1>4. ASSUME NEW c \in Callers, ApplyEffect(c)
      PROVE  RP!Next \/ UNCHANGED <<sessions, nextId, call>>
  <2>1. job[c].sid \in SessionId
    BY <1>4, EffectFacts
  <2>2. CASE Removes(c)
    BY <2>1, <2>2, RegistrySharedSteps DEF Removes
  <2>3. CASE Looks(c)
    <3>1. PICK op \in Command : Reg!FindForCommand(c, job[c].sid, op)
      BY <2>3 DEF Looks
    <3>2. RP!Next
      BY <2>1, <3>1, RegistrySharedSteps
    <3> QED
      BY <3>2
  <2>4. CASE Reports(c) \/ UNCHANGED <<regVars, reported>>
    BY <2>4 DEF Reports, regVars
  <2> QED
    BY <1>4, <2>2, <2>3, <2>4, EffectCases
<1>5. ASSUME NEW c \in Callers, ExecuteCommand(c) \/ BeginShutdown(c)
      PROVE  RP!Next
  BY <1>5, RegistryCallerSteps, RegistrySharedSteps DEF ExecuteCommand, BeginShutdown
<1>6. ASSUME NEW c \in Callers, NEW id \in SessionId, ReturnPermit(c, id)
      PROVE  RP!Next
  BY <1>6, RegistrySharedSteps DEF ReturnPermit
<1>7. ASSUME NEW c \in Callers, NEW id \in SessionId, CloseDrained(c, id) \/ BeginResolve(c, id)
      PROVE  UNCHANGED <<sessions, nextId, call>>
  BY <1>7 DEF CloseDrained, BeginResolve, regVars
<1>8. ASSUME NEW c \in DOMAIN clients, NEW id \in SessionId, NEW event \in clients[c],
             BeginEvent(c, id, event)
      PROVE  UNCHANGED <<sessions, nextId, call>>
  BY <1>8 DEF BeginEvent, regVars
<1>9. CASE UNCHANGED vars
  BY <1>1, <1>9 DEF vars, regVars
<1> QED
  BY <1>1, <1>2, <1>3, <1>4, <1>5, <1>6, <1>7, <1>8, <1>9, StepCases DEF BaseInv

(* To its callers the manager, too, is a pool of at most Capacity sessions *)
(* that never hands an identifier out twice.                               *)
THEOREM ManagerImplementsPool == Spec => Reg!ImplementsPool
<1>1. Init => Reg!Pool!Init
  BY DEF Init, Reg!Init, Reg!Pool!Init, Reg!Inserted
<1>2. ASSUME BaseInv, [Next]_vars
      PROVE  [Reg!Pool!Next]_(Reg!Pool!vars)
  <2>1. CASE RP!Next
    <3>1. [RP!Pool!Next]_(RP!Pool!vars)
      BY <1>2, <2>1, RP!StepRefinesPool, RegistryHypotheses DEF RP!StepRefinesPool, BaseInv
    <3> QED
      BY <3>1
      DEF RP!Pool!Next, Reg!Pool!Next, RP!Pool!vars, Reg!Pool!vars, RP!Inserted, Reg!Inserted,
          RP!SessionId, Reg!SessionId, RP!Pool!Admit, Reg!Pool!Admit, RP!Pool!Retire, Reg!Pool!Retire,
          RP!Pool!Cardinality, Reg!Pool!Cardinality
  <2>2. CASE UNCHANGED sessions /\ Reg!Inserted' = Reg!Inserted
    BY <2>2 DEF Reg!Pool!vars
  <2> QED
    BY <1>2, <2>1, <2>2, ManagerSteps DEF RegistryOrNone
<1> QED
  BY <1>1, <1>2, BaseInit, BasePreserved, PTL DEF Spec, Reg!ImplementsPool, Reg!Pool!Spec

=============================================================================
