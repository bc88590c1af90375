---------------------------- MODULE ProxyBridge -----------------------------
(***************************************************************************)
(* src/proxy_bridge/mod.rs between the SOCKS5 connection handlers that     *)
(* feed it (src/socks5/mod.rs), the session manager it reports to and the  *)
(* client runtime that shuts it down (src/cli/mod.rs).                     *)
(*                                                                         *)
(* One request is one client connection.  Its handler offers an intent to  *)
(* a bounded queue; a worker takes intents out and spawns one task each;   *)
(* the task registers a session, resolves a stream, replies and pumps.     *)
(* The manager's operations are atomic here (SessionManager interleaves    *)
(* their parts): a request has a session of its own, so only shutdown and  *)
(* the semaphore are shared.  Sessions follow SessionState's transitions.  *)
(***************************************************************************)
EXTENDS SessionState, FiniteSets

CONSTANTS Request,      \* the client connections
          QueueLimit,   \* max_pending_intents
          Capacity      \* max_sessions

ASSUME BridgeAssumption ==
  /\ IsFiniteSet(Request)
  /\ QueueLimit \in Nat \ {0}
  /\ Capacity \in Nat
  /\ {"selecting", "stopped"} \cap Request = {}     \* worker names a request or neither

VARIABLES
  stage,        \* stage[r]: how far request r has come
  replies,      \* replies[r]: final SOCKS5 replies sent to the client of r
  queue,        \* the intents in the channel
  worker,       \* run_worker: selecting, holding a request it will spawn, or stopped
  session,      \* session[r]: state of the session of r
  registered,   \* requests whose session is in the registry
  draining,     \* drain_token is cancelled
  listening,    \* run_listener accepts connections
  phase         \* how far run_client_mode has come in its shutdown

vars == <<stage, replies, queue, worker, session, registered, draining, listening, phase>>

(* Before the task, inside process_intent, and at rest. *)
Early   == {"absent", "offering", "queued", "held"}
Tracked == {"spawned", "registered", "resolving", "refusing", "failing", "retiring",
            "resolved", "pumping", "writing", "closing"}
Settled == {"refused", "dropped", "limited", "failed", "done", "killed"}

Phase == {"running", "stopping", "draining", "drained", "joined", "done", "crashed"}

Selecting == "selecting"
Stopped   == "stopped"

Enter(r, s) == stage' = [stage EXCEPT ![r] = s]
Answer(r, a) == replies' = [replies EXCEPT ![r] = Append(@, a)]

-----------------------------------------------------------------------------
Init ==
  /\ stage = [r \in Request |-> "absent"]
  /\ replies = [r \in Request |-> <<>>]
  /\ queue = <<>>
  /\ worker = Selecting
  /\ session = [r \in Request |-> Active(0)]
  /\ registered = {}
  /\ draining = FALSE
  /\ listening = TRUE
  /\ phase = "running"

(* The listener spawns a handler, which parses a CONNECT request. *)
Accept(r) ==
  /\ listening
  /\ stage[r] = "absent"
  /\ Enter(r, "offering")
  /\ UNCHANGED <<replies, queue, worker, session, registered, draining, listening, phase>>

(* try_send: a queue that is full, or whose receiver is gone, refuses.     *)
Refuse(r) ==
  /\ stage[r] = "offering"
  /\ worker = Stopped \/ Len(queue) = QueueLimit
  /\ Answer(r, "failure")
  /\ Enter(r, "refused")
  /\ UNCHANGED <<queue, worker, session, registered, draining, listening, phase>>

Enqueue_Blind(r) ==
  /\ stage[r] = "offering"
  /\ Len(queue) < QueueLimit
  /\ queue' = Append(queue, r)
  /\ Enter(r, "queued")
  /\ UNCHANGED <<replies, worker, session, registered, draining, listening, phase>>

Enqueue_Unbounded(r) ==
  /\ stage[r] = "offering"
  /\ worker # Stopped
  /\ queue' = Append(queue, r)
  /\ Enter(r, "queued")
  /\ UNCHANGED <<replies, worker, session, registered, draining, listening, phase>>

Enqueue(r) ==
  /\ stage[r] = "offering"
  /\ worker # Stopped
  /\ Len(queue) < QueueLimit
  /\ queue' = Append(queue, r)
  /\ Enter(r, "queued")
  /\ UNCHANGED <<replies, worker, session, registered, draining, listening, phase>>

-----------------------------------------------------------------------------
(* run_worker: select! takes a ready branch in random order, so an intent  *)
(* may still be received after the drain token was cancelled.              *)
Receive ==
  /\ worker = Selecting
  /\ queue # <<>>
  /\ worker' = Head(queue)
  /\ queue' = Tail(queue)
  /\ Enter(Head(queue), "held")
  /\ UNCHANGED <<replies, session, registered, draining, listening, phase>>

Spawn ==
  /\ worker \in Request
  /\ Enter(worker, "spawned")
  /\ worker' = Selecting
  /\ UNCHANGED <<replies, queue, session, registered, draining, listening, phase>>

(* Leaving the loop drops the receiver with the intents still in it, which *)
(* closes their client streams without a reply.                            *)
StopWorker ==
  /\ worker = Selecting
  /\ draining
  /\ worker' = Stopped
  /\ queue' = <<>>
  /\ stage' = [r \in Request |-> IF stage[r] = "queued" THEN "dropped" ELSE stage[r]]
  /\ UNCHANGED <<replies, session, registered, draining, listening, phase>>

-----------------------------------------------------------------------------
(* handle_event: the transition of SessionState and the removal it asks for. *)
Notify(r, event) ==
  IF r \in registered
  THEN /\ session' = [session EXCEPT ![r] = NextState(@, event)]
       /\ registered' = IF \E i \in DOMAIN EffectsOf(session[r], event) :
                             EffectsOf(session[r], event)[i] = RemoveSession
                        THEN registered \ {r} ELSE registered
  ELSE UNCHANGED <<session, registered>>

(* process_intent: register_session takes a permit or reports the limit. *)
Register(r) ==
  /\ stage[r] = "spawned"
  /\ IF Cardinality(registered) < Capacity
     THEN registered' = registered \cup {r} /\ Enter(r, "registered")
     ELSE UNCHANGED registered /\ Enter(r, "refusing")
  /\ UNCHANGED <<replies, queue, worker, session, draining, listening, phase>>

RefuseLimit(r) ==
  /\ stage[r] = "refusing"
  /\ Answer(r, "failure")
  /\ Enter(r, "limited")
  /\ UNCHANGED <<queue, worker, session, registered, draining, listening, phase>>

(* resolve_stream finds the session accepting unless shutdown closed it, and *)
(* the selector starts no attempt under a cancelled drain token.           *)
BeginResolve(r) ==
  /\ stage[r] = "registered"
  /\ Enter(r, IF r \in registered /\ ~draining THEN "resolving" ELSE "failing")
  /\ UNCHANGED <<replies, queue, worker, session, registered, draining, listening, phase>>

(* The attempts fail, are cancelled, or total_request_timeout drops them. *)
ResolveFails(r) ==
  /\ stage[r] = "resolving"
  /\ Enter(r, "failing")
  /\ UNCHANGED <<replies, queue, worker, session, registered, draining, listening, phase>>

ResolveSucceeds(r) ==
  /\ stage[r] = "resolving"
  /\ Enter(r, IF r \in registered THEN "resolved" ELSE "failing")
  /\ Notify(r, "StreamOpened")
  /\ UNCHANGED <<replies, queue, worker, draining, listening, phase>>

ReplyFailure_FallsThrough(r) ==
  /\ stage[r] = "failing"
  /\ Answer(r, "failure")
  /\ Enter(r, "resolved")
  /\ UNCHANGED <<queue, worker, session, registered, draining, listening, phase>>

ReplyFailure(r) ==
  /\ stage[r] = "failing"
  /\ Answer(r, "failure")
  /\ Enter(r, "retiring")
  /\ UNCHANGED <<queue, worker, session, registered, draining, listening, phase>>

(* The failure path reports DeadlineReached. *)
ReportFailure(r) ==
  /\ stage[r] = "retiring"
  /\ Notify(r, "DeadlineReached")
  /\ Enter(r, "failed")
  /\ UNCHANGED <<replies, queue, worker, draining, listening, phase>>

ReplySuccess(r) ==
  /\ stage[r] = "resolved"
  /\ Answer(r, "success")
  /\ Enter(r, "pumping")
  /\ UNCHANGED <<queue, worker, session, registered, draining, listening, phase>>

-----------------------------------------------------------------------------
(* pump_bidirectional: bytes read on one side are written to the other     *)
(* inside the select! branch, where the drain token is not looked at.      *)
PumpRead(r) ==
  /\ stage[r] = "pumping"
  /\ Enter(r, "writing")
  /\ UNCHANGED <<replies, queue, worker, session, registered, draining, listening, phase>>

PumpWrite(r) ==
  /\ stage[r] = "writing"
  /\ Enter(r, "pumping")
  /\ UNCHANGED <<replies, queue, worker, session, registered, draining, listening, phase>>

(* End of file or an error on either side. *)
PumpEnds(r) ==
  /\ stage[r] \in {"pumping", "writing"}
  /\ Enter(r, "closing")
  /\ UNCHANGED <<replies, queue, worker, session, registered, draining, listening, phase>>

PumpDrained_Deaf(r) ==
  /\ stage[r] = "pumping"
  /\ draining
  /\ Enter(r, "pumping")
  /\ UNCHANGED <<replies, queue, worker, session, registered, draining, listening, phase>>

PumpDrained(r) ==
  /\ stage[r] = "pumping"
  /\ draining
  /\ Enter(r, "closing")
  /\ UNCHANGED <<replies, queue, worker, session, registered, draining, listening, phase>>

(* Both streams are shut down and the session is told. *)
ClosePump(r) ==
  /\ stage[r] = "closing"
  /\ Notify(r, "StreamClosed")
  /\ Enter(r, "done")
  /\ UNCHANGED <<replies, queue, worker, draining, listening, phase>>

-----------------------------------------------------------------------------
(* run_client_mode after its cancellation: both stop_accept calls ... *)
Proceed(from, to) == phase = from /\ phase' = to

StopAccept ==
  /\ Proceed("running", "stopping")
  /\ draining' = TRUE
  /\ UNCHANGED <<stage, replies, queue, worker, session, registered, listening>>

(* The listener ends by itself: its socket cannot be bound, or one accept  *)
(* fails.  The select has taken the result of the JoinHandle, and awaiting *)
(* the handle again panics: the process ends, and with it every handler,   *)
(* task and session, before anything is drained.                           *)
ListenerFails ==
  /\ Proceed("running", "crashed")
  /\ stage' = [r \in Request |-> IF stage[r] \in Settled \cup {"absent"} THEN stage[r]
                                ELSE "killed"]
  /\ queue' = <<>> /\ worker' = Stopped
  /\ registered' = {} /\ listening' = FALSE /\ draining' = TRUE
  /\ UNCHANGED <<replies, session>>

(* ... the listener leaves its loop and is joined, perhaps after one more  *)
(* accepted connection ...                                                 *)
JoinListener ==
  /\ Proceed("stopping", "draining")
  /\ listening' = FALSE
  /\ UNCHANGED <<stage, replies, queue, worker, session, registered, draining>>

(* ... drain_all waits until the closed tracker is empty ...               *)
TrackerEmpty == \A r \in Request : stage[r] \notin Tracked

FinishDrain ==
  /\ Proceed("draining", "drained")
  /\ TrackerEmpty
  /\ UNCHANGED <<stage, replies, queue, worker, session, registered, draining, listening>>

(* ... then the worker is joined ... *)
JoinWorker ==
  /\ Proceed("drained", "joined")
  /\ worker = Stopped
  /\ UNCHANGED <<stage, replies, queue, worker, session, registered, draining, listening>>

(* ... and manager.shutdown closes what is still registered.               *)
ShutdownManager_Early ==
  /\ phase \in {"draining", "joined"} /\ phase' = "done"
  /\ session' = [r \in Request |-> IF r \in registered THEN Closed ELSE session[r]]
  /\ registered' = {}
  /\ UNCHANGED <<stage, replies, queue, worker, draining, listening>>

ShutdownManager ==
  /\ Proceed("joined", "done")
  /\ session' = [r \in Request |-> IF r \in registered THEN Closed ELSE session[r]]
  /\ registered' = {}
  /\ UNCHANGED <<stage, replies, queue, worker, draining, listening>>

-----------------------------------------------------------------------------
(* What the runtime keeps polling: handlers, the worker, the tasks, with   *)
(* the timeout that bounds a resolution.                                   *)
Progress(r) ==
  \/ Refuse(r) \/ Enqueue(r)
  \/ Register(r) \/ RefuseLimit(r)
  \/ BeginResolve(r) \/ ResolveFails(r) \/ ResolveSucceeds(r)
  \/ ReplyFailure(r) \/ ReportFailure(r) \/ ReplySuccess(r)
  \/ ClosePump(r)

Worker == Receive \/ Spawn \/ StopWorker

Shutdown == JoinListener \/ FinishDrain \/ JoinWorker \/ ShutdownManager

(* run_client_mode has returned: nothing further has to happen. *)
Terminated == phase \in {"done", "crashed"} /\ UNCHANGED vars

Next ==
  \/ \E r \in Request :
       \/ Accept(r) \/ Progress(r)
       \/ PumpRead(r) \/ PumpWrite(r) \/ PumpEnds(r) \/ PumpDrained(r)
  \/ Worker
  \/ StopAccept \/ ListenerFails \/ Shutdown
  \/ Terminated

Spec == Init /\ [][Next]_vars

(* Ready tasks are polled.  A pump's select! looks at its ready branches in *)
(* random order, so one that is ready again and again is taken at last.    *)
Fairness ==
  /\ \A r \in Request : WF_vars(Progress(r)) /\ SF_vars(PumpDrained(r))
  /\ WF_vars(Receive \/ Spawn) /\ WF_vars(StopWorker)
  /\ WF_vars(Shutdown)

FairSpec == Spec /\ Fairness

(* In addition, whoever is written to reads, or its connection breaks.     *)
PeersRead == \A r \in Request : WF_vars(PumpWrite(r))

FairSpecPeersRead == FairSpec /\ PeersRead

-----------------------------------------------------------------------------
(* The shape of the state, with the queue inside its limit. *)
TypeOK ==
  /\ stage \in [Request -> Early \cup Tracked \cup Settled]
  /\ \A r \in Request : Len(replies[r]) <= 1
  /\ queue \in Seq(Request) /\ Len(queue) <= QueueLimit
  /\ worker \in Request \cup {Selecting, Stopped}
  /\ session \in [Request -> State]
  /\ registered \subseteq Request
  /\ draining \in BOOLEAN /\ listening \in BOOLEAN
  /\ phase \in Phase

(* What a client is told is what happens to it: success exactly for the    *)
(* requests that pump, one failure for those turned away, nothing for the  *)
(* ones shutdown drops out of the queue; only a process that dies says no  *)
(* more.                                                                   *)
RepliesTruthful ==
  \A r \in Request :
    stage[r] # "killed" =>
    replies[r] = CASE stage[r] \in {"pumping", "writing", "closing", "done"} -> <<"success">>
                   [] stage[r] \in {"refused", "limited", "retiring", "failed"} -> <<"failure">>
                   [] OTHER -> <<>>

(* A stream is pumped only under a registered session that counts it: the  *)
(* shutdown order never closes a session under a running pump, and a task  *)
(* that outlives drain_all is refused a stream by the drain token.         *)
PumpOwnsSession ==
  \A r \in Request :
    stage[r] \in {"pumping", "writing", "closing"} =>
      r \in registered /\ session[r] = Active(1)

(* Every parsed CONNECT request is answered, or dropped by the shutdown:   *)
(* no interleaving of queue, worker and drain strands it.                  *)
EventuallyAnswered ==
  \A r \in Request :
    stage[r] = "offering" ~> stage[r] \in Settled \/ replies[r] = <<"success">>

(* Once asked to stop, the client runtime gets to its end: drain_all and   *)
(* the joins around it do not wait on one another.                         *)
ShutdownCompletes == (phase = "stopping") ~> (phase = "done")

(* A session stays registered only as long as its request is under way     *)
(* ("CONNECT traffic cannot leak capacity").                               *)
NoLeakedSession == \A r \in registered : stage[r] \notin Settled

=============================================================================
