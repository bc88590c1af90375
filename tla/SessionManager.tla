--------------------------- MODULE SessionManager ---------------------------
(***************************************************************************)
(* src/session/mod.rs over src/session/registry.rs, state.rs and           *)
(* effect_handler.rs: concurrent tasks register sessions, resolve streams, *)
(* send lifecycle events and shut the manager down.                        *)
(*                                                                         *)
(* handle_event computes the transition under the record's lock, releases  *)
(* it and then applies the effects one await at a time; resolve_stream     *)
(* reads `accepting_new_streams` before an await and records the stream    *)
(* after it.  Both windows are open to every other task here.              *)
(*                                                                         *)
(* The transport selector is external to this module: it answers or fails. *)
(* Timer commands go to a target that does nothing in the client runtime.  *)
(* Which tasks there are, and which events they send, is the choice of the *)
(* initial state: the client runtime's tasks or any users of the API.      *)
(***************************************************************************)
EXTENDS Integers, FiniteSets, SessionState

CONSTANTS Callers, Capacity, MaxId,
          Clients         \* the groups of tasks: a task sends its events through handle_event

ASSUME ManagerAssumption ==
  /\ IsFiniteSet(Callers)
  /\ Capacity \in Nat
  /\ MaxId \in Nat \ {0}

ASSUME ClientsAssumption ==
  \A group \in Clients :
    /\ DOMAIN group \subseteq Callers
    /\ \A c \in DOMAIN group : group[c] \subseteq Event \ {"StreamOpened"}

VARIABLES permits, nextId, sessions, record, undropped, call,   \* the registry
          job,          \* job[c]: the manager operation caller c is inside
          stream,       \* stream[c]: session of the stream c holds, 0 if none
          reported,     \* reported[id]: session-level metrics emitted for id
          clients       \* the tasks that there are, and clients[c], the events c sends

Reg == INSTANCE SessionRegistry

regVars == <<permits, nextId, sessions, record, undropped, call>>
vars == <<regVars, job, stream, reported, clients>>

SessionId == Reg!SessionId

JobAt(where, id, event) ==
  [step |-> where, sid |-> id, event |-> event, effects |-> <<>>, drained |-> {}]
NoJob == JobAt("idle", 0, "none")

Busy(c) == job[c] # NoJob
Become(c, j) == job' = [job EXCEPT ![c] = j]

-----------------------------------------------------------------------------
Init ==
  /\ Reg!Init
  /\ job = [c \in Callers |-> NoJob]
  /\ stream = [c \in Callers |-> 0]
  /\ reported = [id \in SessionId |-> <<>>]
  /\ clients \in Clients

(* register_session: reserve, then insert.  No permit: SessionLimitReached *)
(* is returned and nothing changes.                                        *)
(* IdBudget bounds the identifiers: a reservation can always be numbered.  *)
IdBudget ==
  nextId + Cardinality({c \in Callers : call[c].at = "reserved"}) <= MaxId

BeginRegister(c) ==
  /\ ~Busy(c)
  /\ IdBudget
  /\ Reg!TryReserve(c)
  /\ Become(c, JobAt("registering", 0, "none"))
  /\ UNCHANGED <<stream, reported>>

NumberSession(c) ==
  /\ job[c].step = "registering"
  /\ Reg!AssignId(c)
  /\ UNCHANGED <<job, stream, reported>>

InsertSession(c) ==
  /\ job[c].step = "registering"
  /\ Reg!Publish(c)
  /\ Become(c, NoJob)
  /\ UNCHANGED <<stream, reported>>

(* resolve_stream: the handle is looked up; SessionNotFound otherwise.     *)
BeginResolve(c, id) ==
  /\ ~Busy(c)
  /\ stream[c] = 0
  /\ id \in sessions
  /\ Become(c, JobAt("check", id, "StreamOpened"))
  /\ UNCHANGED <<regVars, stream, reported>>

(* The snapshot of accepting_new_streams, before the transport is asked.   *)
CheckAccepting(c) ==
  /\ job[c].step = "check"
  /\ IF record[job[c].sid].accepting
     THEN Become(c, [job[c] EXCEPT !.step = "selecting"])
     ELSE Become(c, NoJob)
  /\ UNCHANGED <<regVars, stream, reported>>

(* selector.open_stream fails, or the caller's timeout drops the future.   *)
SelectFails(c) ==
  /\ job[c].step = "selecting"
  /\ Become(c, NoJob)
  /\ UNCHANGED <<regVars, stream, reported>>

(* It succeeds: last_activity is refreshed, then handle_event(StreamOpened).*)
SelectSucceeds(c) ==
  /\ job[c].step = "selecting"
  /\ record' = [record EXCEPT ![job[c].sid].idle = FALSE]
  /\ Become(c, [job[c] EXCEPT !.step = "find"])
  /\ UNCHANGED <<permits, nextId, sessions, undropped, call, stream, reported>>

(* handle_event looks the session up again; if it is gone the resolved     *)
(* stream is dropped and SessionNotFound returned.                         *)
FindSession(c) ==
  /\ job[c].step = "find"
  /\ IF job[c].sid \in sessions
     THEN Become(c, [job[c] EXCEPT !.step = "transition"])
     ELSE Become(c, NoJob)
  /\ UNCHANGED <<regVars, stream, reported>>

(* handle_event from outside: only the holder of a stream reports it closed. *)
BeginEvent(c, id, event) ==
  /\ ~Busy(c)
  /\ event \in clients[c]
  /\ event = "StreamClosed" => stream[c] = id
  /\ IF id \in sessions
     THEN Become(c, JobAt("transition", id, event)) /\ UNCHANGED stream
     ELSE /\ event = "StreamClosed"
          /\ stream' = [stream EXCEPT ![c] = 0]
          /\ UNCHANGED job
  /\ UNCHANGED <<regVars, reported>>

(* with_record: transition and last_activity under the record's lock.      *)
ApplyTransition(c) ==
  /\ job[c].step = "transition"
  /\ LET id    == job[c].sid
         event == job[c].event
         s     == record[id].state
     IN /\ record' = [record EXCEPT ![id].state = NextState(s, event), ![id].idle = FALSE]
        /\ Become(c, [job[c] EXCEPT !.step = "effects", !.effects = EffectsOf(s, event)])
        /\ stream' = CASE event = "StreamOpened" -> [stream EXCEPT ![c] = id]
                       [] event = "StreamClosed" -> [stream EXCEPT ![c] = 0]
                       [] OTHER                  -> stream
  /\ UNCHANGED <<permits, nextId, sessions, undropped, call, reported>>

(* EffectHandler::apply_all: the next effect goes to its one target.       *)
ApplyEffect(c) ==
  /\ job[c].step = "effects"
  /\ job[c].effects # <<>>
  /\ call[c] = Reg!Idle
  /\ LET effect == Head(job[c].effects)
         id     == job[c].sid
         found  == effect.target = "registry" /\ id \in sessions
         report == effect.op \in {"SessionClosing", "SessionClosed"}
     IN /\ Become(c, [job[c] EXCEPT !.effects = Tail(@)])
        /\ \/ found /\ effect.op = "Remove" /\ Reg!Remove(id) /\ UNCHANGED reported
           \/ found /\ effect.op # "Remove" /\ Reg!FindForCommand(c, id, effect.op)
                    /\ UNCHANGED reported
           \/ /\ ~found /\ report
              /\ reported' = [reported EXCEPT ![id] = Append(@, effect)]
              /\ UNCHANGED regVars
           \/ ~found /\ ~report /\ UNCHANGED <<regVars, reported>>
  /\ UNCHANGED stream

(* The registry command of the effect updates the record it looked up.     *)
ExecuteCommand(c) ==
  /\ job[c].step = "effects"
  /\ Reg!ExecuteCommand(c)
  /\ UNCHANGED <<job, stream, reported>>

FinishEvent(c) ==
  /\ job[c].step = "effects"
  /\ job[c].effects = <<>>
  /\ call[c] = Reg!Idle
  /\ Become(c, NoJob)
  /\ UNCHANGED <<regVars, stream, reported>>

(* shutdown: drain the map, drop the permits, then force every handle.     *)
BeginShutdown(c) ==
  /\ ~Busy(c)
  /\ sessions # {}
  /\ Reg!DrainAll
  /\ Become(c, [JobAt("draining", 0, "none") EXCEPT !.drained = sessions])
  /\ UNCHANGED <<stream, reported>>

ReturnPermit(c, id) ==
  /\ job[c].step = "draining"
  /\ id \in job[c].drained
  /\ Reg!DropPermit(id)
  /\ UNCHANGED <<job, stream, reported>>

CloseDrained(c, id) ==
  /\ job[c].step = "draining"
  /\ job[c].drained \cap undropped = {}
  /\ id \in job[c].drained
  /\ record' = [record EXCEPT ![id] = [state |-> Closed, accepting |-> FALSE, idle |-> FALSE]]
  /\ Become(c, IF job[c].drained = {id} THEN NoJob
               ELSE [job[c] EXCEPT !.drained = @ \ {id}])
  /\ UNCHANGED <<permits, nextId, sessions, undropped, call, stream, reported>>

-----------------------------------------------------------------------------
(* The steps of an operation under way: the runtime keeps polling the task. *)
Progress(c) ==
  /\ \/ NumberSession(c) \/ InsertSession(c)
     \/ CheckAccepting(c) \/ SelectFails(c) \/ SelectSucceeds(c)
     \/ FindSession(c) \/ ApplyTransition(c)
     \/ ApplyEffect(c) \/ ExecuteCommand(c) \/ FinishEvent(c)
     \/ \E id \in SessionId : ReturnPermit(c, id) \/ CloseDrained(c, id)
  /\ UNCHANGED clients

(* The operations a task may choose to start. *)
Start(c) ==
  /\ c \in DOMAIN clients
  /\ \/ BeginRegister(c)
     \/ BeginShutdown(c)
     \/ \E id \in SessionId :
          \/ BeginResolve(c, id)
          \/ \E event \in clients[c] : BeginEvent(c, id, event)
  /\ UNCHANGED clients

(* Past the identifier bound, with every session gone, nothing is left to do. *)
Finished ==
  /\ \A c \in Callers : ~Busy(c)
  /\ sessions = {} /\ ~IdBudget
  /\ UNCHANGED vars

Next == (\E c \in Callers : Progress(c) \/ Start(c)) \/ Finished

Spec == Init /\ [][Next]_vars

(* An operation that was started is polled until it returns; starting one  *)
(* is up to the client.                                                    *)
Fairness == \A c \in Callers : WF_vars(Progress(c))

FairSpec == Spec /\ Fairness

-----------------------------------------------------------------------------
(* Types of the registry's and the manager's state. *)
JobStep == {"idle", "registering", "check", "selecting", "find", "transition", "effects",
            "draining"}

Job ==
  [step : JobStep, sid : 0..MaxId, event : Event \cup {"none"}, effects : Seq(Effect),
   drained : SUBSET SessionId]

TypeOK ==
  /\ Reg!TypeOK
  /\ clients \in Clients
  /\ job \in [Callers -> Job]
  /\ stream \in [Callers -> 0..MaxId]
  /\ reported \in [SessionId -> Seq(Effect)]

Phase(id) == record[id].state.phase

(* While a registered session is active its stream count is the number of  *)
(* tasks that hold one of its streams: opens and closes are neither lost   *)
(* nor counted twice, whatever runs between the transport's answer and the *)
(* transition.                                                             *)
StreamCountMatches ==
  \A id \in sessions : Phase(id) = "active" =>
    record[id].state.streams = Cardinality({c \in Callers : stream[c] = id})

Settled(id) ==
  \A c \in Callers : job[c].sid = id => job[c].step # "effects"

(* Whoever asks a registered session for a stream gets past the check only *)
(* while it is active, or until the task that ended its active phase has   *)
(* applied the effects of that event: from then on it refuses.  Whoever    *)
(* got past it before still gets a stream: the flag is not looked at again *)
(* once the transport is asked, and a closing session ignores StreamOpened *)
(* without an error.                                                       *)
EndedSessionsRefuse ==
  [][ \A c \in Callers :
        LET id == job[c].sid
        IN job[c].step = "check" /\ job'[c].step = "selecting" /\ id \in sessions
             => Phase(id) = "active" \/ ~Settled(id) ]_vars

(* The events that the client runtime sends.  Those of the API include     *)
(* close commands, and a graceful one that found its session before writes *)
(* Closing over whatever another task has made of it: what is said below   *)
(* of closed sessions is true of the runtime's events only.                *)
RuntimeEvents == {"StreamClosed", "DeadlineReached"}
InRuntime == \A c \in DOMAIN clients : clients[c] \subseteq RuntimeEvents

(* A closed session is never revived (verification plan: "Closed is        *)
(* terminal and Closing stays one-way toward Closed").                     *)
Later(p, q) == \/ p = q
               \/ p = "active"
               \/ p = "closing" /\ q = "closed"

ClosedIsTerminal ==
  [][ InRuntime => \A id \in SessionId : Later(Phase(id), Phase(id)') ]_vars

ClosedReports(id) == {i \in DOMAIN reported[id] : reported[id][i].op = "SessionClosed"}

(* The end of a session is reported at most once, even when its last       *)
(* stream closes while a shutdown drains it.                               *)
ClosedReportedOnce ==
  InRuntime => \A id \in SessionId : Cardinality(ClosedReports(id)) <= 1

(* A session that left the registry is closed, except while the shutdown   *)
(* that took it out has not reached its handle yet.                        *)
RetiredIsClosed ==
  InRuntime => \A id \in Reg!Inserted \ sessions :
    \/ Phase(id) = "closed"
    \/ \E c \in Callers : id \in job[c].drained

(* Every session that is closed leaves the registry and its permit comes   *)
(* back: closing cannot leak capacity.                                     *)
ClosedIsRetired ==
  \A id \in SessionId : Phase(id) = "closed" ~> id \notin sessions \cup undropped

=============================================================================
