------------------------- MODULE ProxyBridgeProofs --------------------------
(***************************************************************************)
(* For every set of requests, queue limit and capacity: a client is told   *)
(* what happens to its request, and a stream is pumped only under a        *)
(* registered session that counts it.                                      *)
(*                                                                         *)
(* Neither is inductive.  Shutdown closes every registered session, so the *)
(* second needs to know what can still be streaming in each phase: the     *)
(* tasks that drain_all waited for are gone, and one spawned after it is   *)
(* refused a stream by the drain token.  Both need the queue and the       *)
(* worker to hold a request in one place.                                  *)
(***************************************************************************)
EXTENDS ProxyBridge, TLAPS

Answers == {"success", "failure"}

(* The stages of a request whose session counts its stream, and of one     *)
(* that has no session.                                                    *)
Streaming == {"resolved", "pumping", "writing", "closing"}
Sessionless == Early \cup {"spawned", "refusing", "refused", "dropped", "limited"}

Types ==
  /\ stage \in [Request -> Early \cup Tracked \cup Settled]
  /\ replies \in [Request -> Seq(Answers)]
  /\ queue \in Seq(Request) /\ Len(queue) <= QueueLimit
  /\ worker \in Request \cup {Selecting, Stopped}
  /\ session \in [Request -> State]
  /\ registered \subseteq Request
  /\ draining \in BOOLEAN /\ listening \in BOOLEAN
  /\ phase \in Phase

(* A request is queued once, or held by the worker, exactly while its      *)
(* stage says so.                                                          *)
Channel ==
  /\ \A r \in Request : stage[r] = "queued" <=> \E i \in DOMAIN queue : queue[i] = r
  /\ \A i, j \in DOMAIN queue : queue[i] = queue[j] => i = j
  /\ \A r \in Request : stage[r] = "held" <=> worker = r

(* The token is cancelled as the shutdown begins; a process that died      *)
(* accepts nothing.                                                        *)
ShutdownOrder ==
  /\ draining <=> phase # "running"
  /\ phase = "crashed" => ~listening

(* One answer at most, and the one that the stage says. *)
Served     == {"pumping", "writing", "closing", "done"}
TurnedAway == {"refused", "limited", "retiring", "failed"}

Told(r) ==
  /\ Len(replies[r]) <= 1
  /\ stage[r] \in Served => replies[r] = <<"success">>
  /\ stage[r] \in TurnedAway => replies[r] = <<"failure">>
  /\ stage[r] \notin Served \cup TurnedAway \cup {"killed"} => replies[r] = <<>>

SessionOf(r) ==
  /\ stage[r] \in Sessionless => session[r] = Active(0) /\ r \notin registered
  /\ stage[r] \in {"registered", "resolving"} /\ r \in registered => session[r] = Active(0)
  /\ stage[r] = "resolving" => r \in registered
  /\ stage[r] \in Streaming => r \in registered /\ session[r] = Active(1)

(* Nobody streams, or asks for a stream, after drain_all returned.         *)
InPhase(r) ==
  /\ phase \in {"drained", "joined", "done"} => stage[r] \notin Streaming \cup {"resolving"}
  /\ phase = "crashed" => stage[r] \in Settled \cup {"absent"}

RequestInv(r) == Told(r) /\ SessionOf(r) /\ InPhase(r)

IInv == Types /\ Channel /\ ShutdownOrder /\ \A r \in Request : RequestInv(r)

-----------------------------------------------------------------------------
(* What the transitions do to the state of a session. *)
LEMMA NotifiedState ==
  ASSUME NEW s \in State, NEW event
  PROVE  NextState(s, event) \in State
<1>1. /\ Closed \in State /\ Closing("transport_lost") \in State
      /\ Closing("drain_shutdown") \in State
      /\ \A n \in 0..MaxStreams : Active(n) \in State
  BY DEF State, CloseReason
<1>2. s.phase = "active" => s.streams \in 0..MaxStreams
  BY DEF State, Active, Closing, Closed
<1>3. s.phase = "active" =>
        SaturatingInc(s.streams) \in 0..MaxStreams /\ SaturatingDec(s.streams) \in 0..MaxStreams
  BY <1>2, MaxStreamsAssumption DEF SaturatingInc, SaturatingDec
<1> QED
  BY <1>1, <1>3 DEF NextState

LEMMA FirstStream ==
  /\ NextState(Active(0), "StreamOpened") = Active(1)
  /\ \A i \in DOMAIN EffectsOf(Active(0), "StreamOpened") :
       EffectsOf(Active(0), "StreamOpened")[i] # RemoveSession
<1>1. Active(0).phase = "active" /\ Active(0).streams = 0
  BY DEF Active
<1>2. SaturatingInc(0) = 1
  BY MaxStreamsAssumption DEF SaturatingInc
<1>3. NextState(Active(0), "StreamOpened") = Active(1)
  BY <1>1, <1>2 DEF NextState
<1>4. EffectsOf(Active(0), "StreamOpened") = <<CancelIdle, StreamMetric("StreamOpened")>>
  BY <1>1 DEF EffectsOf
<1> QED
  BY <1>3, <1>4 DEF CancelIdle, StreamMetric, RemoveSession

LEMMA NotifyFacts ==
  ASSUME session \in [Request -> State], registered \subseteq Request,
         NEW r \in Request, NEW event, Notify(r, event)
  PROVE  /\ session' \in [Request -> State]
         /\ registered' \subseteq registered
         /\ \A q \in Request \ {r} :
              session'[q] = session[q] /\ (q \in registered' <=> q \in registered)
<1>1. NextState(session[r], event) \in State
  BY NotifiedState
<1> QED
  BY <1>1 DEF Notify

-----------------------------------------------------------------------------
(* One request moves, outside of the queue and the worker's hands.         *)
LEMMA OneRequestMoves ==
  ASSUME IInv, NEW r \in Request,
         stage' \in [Request -> Early \cup Tracked \cup Settled],
         replies' \in [Request -> Seq(Answers)],
         session' \in [Request -> State], registered' \subseteq Request,
         \A q \in Request \ {r} : /\ UNCHANGED <<stage[q], replies[q], session[q]>>
                                  /\ q \in registered' <=> q \in registered,
         UNCHANGED <<queue, worker, draining, listening, phase>>,
         stage[r] \notin {"queued", "held"}, stage'[r] \notin {"queued", "held"},
         RequestInv(r)'
  PROVE  IInv'
<1>1. Types' /\ ShutdownOrder'
  BY DEF IInv, Types, ShutdownOrder
<1>2. Channel'
  BY DEF IInv, Channel
<1>3. ASSUME NEW q \in Request \ {r}
      PROVE  RequestInv(q)'
  <2>1. RequestInv(q)
    BY DEF IInv
  <2> QED
    BY <2>1 DEF RequestInv, Told, SessionOf, InPhase
<1> QED
  BY <1>1, <1>2, <1>3 DEF IInv

LEMMA Entering ==
  ASSUME Types, NEW r \in Request, NEW s \in Early \cup Tracked \cup Settled, Enter(r, s)
  PROVE  /\ stage' \in [Request -> Early \cup Tracked \cup Settled]
         /\ stage'[r] = s /\ \A q \in Request \ {r} : stage'[q] = stage[q]
BY DEF Enter, Types

LEMMA Answering ==
  ASSUME Types, NEW r \in Request, NEW a \in Answers, replies[r] = <<>>, Answer(r, a)
  PROVE  /\ replies' \in [Request -> Seq(Answers)]
         /\ replies'[r] = <<a>> /\ \A q \in Request \ {r} : replies'[q] = replies[q]
BY DEF Answer, Types

(* Steps of a request that answer nothing and leave its session alone ...  *)
LEMMA MoveKeeps ==
  ASSUME IInv, NEW r \in Request, NEW to \in Early \cup Tracked \cup Settled, Enter(r, to),
         UNCHANGED <<replies, queue, worker, session, registered, draining, listening, phase>>,
         \/ stage[r] = "absent" /\ to = "offering" /\ listening
         \/ stage[r] = "registered" /\ to = "resolving" /\ r \in registered /\ ~draining
         \/ stage[r] \in {"registered", "resolving"} /\ to = "failing"
         \/ stage[r] \in {"pumping", "writing"} /\ to \in {"pumping", "writing", "closing"}
  PROVE  IInv'
<1>1. /\ Types /\ RequestInv(r) /\ ShutdownOrder
  BY DEF IInv
<1>2. /\ stage' \in [Request -> Early \cup Tracked \cup Settled]
      /\ stage'[r] = to /\ \A q \in Request \ {r} : stage'[q] = stage[q]
  BY <1>1, Entering
<1>3. Told(r)'
  BY <1>1, <1>2 DEF RequestInv, Told, Served, TurnedAway
<1>4. SessionOf(r)'
  BY <1>1, <1>2 DEF RequestInv, SessionOf, Streaming, Sessionless, Early
<1>5. InPhase(r)'
  BY <1>1, <1>2 DEF RequestInv, InPhase, ShutdownOrder, Streaming, Settled
<1> QED
  BY <1>1, <1>2, <1>3, <1>4, <1>5, OneRequestMoves DEF RequestInv, Types

(* ... that answer ...                                                     *)
LEMMA AnswerKeeps ==
  ASSUME IInv, NEW r \in Request, NEW to \in Early \cup Tracked \cup Settled, Enter(r, to),
         NEW a \in Answers, Answer(r, a),
         UNCHANGED <<queue, worker, session, registered, draining, listening, phase>>,
         \/ stage[r] = "offering" /\ to = "refused" /\ a = "failure"
         \/ stage[r] = "refusing" /\ to = "limited" /\ a = "failure"
         \/ stage[r] = "failing" /\ to = "retiring" /\ a = "failure"
         \/ stage[r] = "resolved" /\ to = "pumping" /\ a = "success"
  PROVE  IInv'
<1>1. /\ Types /\ RequestInv(r)
  BY DEF IInv
<1>2. /\ stage' \in [Request -> Early \cup Tracked \cup Settled]
      /\ stage'[r] = to /\ \A q \in Request \ {r} : stage'[q] = stage[q]
  BY <1>1, Entering
<1>3. replies[r] = <<>>
  BY <1>1 DEF RequestInv, Told, Served, TurnedAway
<1>4. /\ replies' \in [Request -> Seq(Answers)]
      /\ replies'[r] = <<a>> /\ \A q \in Request \ {r} : replies'[q] = replies[q]
  BY <1>1, <1>3, Answering
<1>5. Told(r)'
  BY <1>2, <1>4 DEF Told, Served, TurnedAway
<1>6. SessionOf(r)'
  BY <1>1, <1>2 DEF RequestInv, SessionOf, Streaming, Sessionless, Early
<1>7. InPhase(r)'
  BY <1>1, <1>2 DEF RequestInv, InPhase, Streaming, Settled
<1> QED
  BY <1>1, <1>2, <1>4, <1>5, <1>6, <1>7, OneRequestMoves DEF RequestInv, Types

(* ... and that report the end of a stream or of a session.                *)
LEMMA ReportKeeps ==
  ASSUME IInv, NEW r \in Request, NEW to \in Early \cup Tracked \cup Settled, Enter(r, to),
         NEW event, Notify(r, event),
         UNCHANGED <<replies, queue, worker, draining, listening, phase>>,
         \/ stage[r] = "retiring" /\ to = "failed"
         \/ stage[r] = "closing" /\ to = "done"
         \/ stage[r] = "resolving" /\ to = "resolved" /\ event = "StreamOpened"
  PROVE  IInv'
<1>1. /\ Types /\ RequestInv(r)
  BY DEF IInv
<1>2. /\ stage' \in [Request -> Early \cup Tracked \cup Settled]
      /\ stage'[r] = to /\ \A q \in Request \ {r} : stage'[q] = stage[q]
  BY <1>1, Entering
<1>3. /\ session' \in [Request -> State] /\ registered' \subseteq registered
      /\ \A q \in Request \ {r} :
           session'[q] = session[q] /\ (q \in registered' <=> q \in registered)
  BY <1>1, NotifyFacts DEF Types
<1>4. Told(r)'
  BY <1>1, <1>2 DEF RequestInv, Told, Served, TurnedAway
<1>5. SessionOf(r)'
  <2>1. CASE to \in {"failed", "done"}
    BY <1>2, <2>1 DEF SessionOf, Streaming, Sessionless, Early
  <2>2. CASE stage[r] = "resolving" /\ to = "resolved" /\ event = "StreamOpened"
    <3>1. r \in registered /\ session[r] = Active(0)
      BY <1>1, <2>2 DEF RequestInv, SessionOf
    <3>2. r \in registered' /\ session'[r] = Active(1)
      BY <1>1, <2>2, <3>1, FirstStream DEF Notify, Types
    <3> QED
      BY <1>2, <2>2, <3>2 DEF SessionOf, Streaming, Sessionless, Early
  <2> QED
    BY <2>1, <2>2
<1>6. InPhase(r)'
  BY <1>1, <1>2 DEF RequestInv, InPhase, Streaming, Settled
<1> QED
  BY <1>1, <1>2, <1>3, <1>4, <1>5, <1>6, OneRequestMoves DEF RequestInv, Types

LEMMA RegisterKeeps ==
  ASSUME IInv, NEW r \in Request, Register(r)
  PROVE  IInv'
<1>1. /\ Types /\ RequestInv(r) /\ stage[r] = "spawned"
  BY DEF IInv, Register
<1>2. PICK to \in {"registered", "refusing"} :
        /\ Enter(r, to)
        /\ to = "registered" => registered' = registered \cup {r}
        /\ to = "refusing" => registered' = registered
  BY DEF Register
<1>3. /\ stage' \in [Request -> Early \cup Tracked \cup Settled]
      /\ stage'[r] = to /\ \A q \in Request \ {r} : stage'[q] = stage[q]
  BY <1>1, <1>2, Entering DEF Tracked
<1>4. Told(r)'
  BY <1>1, <1>2, <1>3 DEF Register, RequestInv, Told, Served, TurnedAway
<1>5. SessionOf(r)'
  BY <1>1, <1>2, <1>3 DEF Register, RequestInv, SessionOf, Streaming, Sessionless, Early
<1>6. InPhase(r)'
  BY <1>1, <1>2, <1>3 DEF Register, RequestInv, InPhase, Streaming, Settled
<1> QED
  BY <1>1, <1>2, <1>3, <1>4, <1>5, <1>6, OneRequestMoves DEF RequestInv, Types, Register

LEMMA RequestStepsKeep ==
  ASSUME IInv, NEW r \in Request,
         \/ Accept(r) \/ Refuse(r) \/ Register(r) \/ RefuseLimit(r)
         \/ BeginResolve(r) \/ ResolveFails(r) \/ ResolveSucceeds(r)
         \/ ReplyFailure(r) \/ ReportFailure(r) \/ ReplySuccess(r) \/ ClosePump(r)
         \/ PumpRead(r) \/ PumpWrite(r) \/ PumpEnds(r) \/ PumpDrained(r)
  PROVE  IInv'
<1>1. CASE Accept(r) \/ PumpRead(r) \/ PumpWrite(r) \/ PumpEnds(r) \/ PumpDrained(r)
  BY <1>1, MoveKeeps
     DEF Accept, PumpRead, PumpWrite, PumpEnds, PumpDrained, Early, Tracked
<1>2. CASE BeginResolve(r) \/ ResolveFails(r)
  BY <1>2, MoveKeeps DEF BeginResolve, ResolveFails, Tracked
<1>3. CASE Refuse(r) \/ RefuseLimit(r) \/ ReplyFailure(r) \/ ReplySuccess(r)
  BY <1>3, AnswerKeeps
     DEF Refuse, RefuseLimit, ReplyFailure, ReplySuccess, Tracked, Settled, Answers
<1>4. CASE ReportFailure(r) \/ ClosePump(r)
  BY <1>4, ReportKeeps DEF ReportFailure, ClosePump, Settled
<1>5. CASE ResolveSucceeds(r)
  <2>1. r \in registered
    BY <1>5 DEF ResolveSucceeds, IInv, RequestInv, SessionOf
  <2> QED
    BY <1>5, <2>1, ReportKeeps DEF ResolveSucceeds, Tracked
<1> QED
  BY <1>1, <1>2, <1>3, <1>4, <1>5, RegisterKeeps

-----------------------------------------------------------------------------
(* Offers and worker steps change one stage, and no session or reply.      *)
LEMMA HandingOn ==
  ASSUME IInv, NEW r \in Request, NEW to \in Early \cup Tracked \cup Settled, Enter(r, to),
         UNCHANGED <<replies, session, registered, draining, listening, phase>>,
         \/ stage[r] = "offering" /\ to = "queued" /\ phase # "crashed"
         \/ stage[r] = "queued" /\ to = "held"
         \/ stage[r] = "held" /\ to = "spawned"
  PROVE  /\ stage' \in [Request -> Early \cup Tracked \cup Settled]
         /\ stage'[r] = to /\ \A q \in Request \ {r} : stage'[q] = stage[q]
         /\ ShutdownOrder' /\ \A q \in Request : RequestInv(q)'
<1>1. /\ Types /\ RequestInv(r) /\ ShutdownOrder
  BY DEF IInv
<1>2. /\ stage' \in [Request -> Early \cup Tracked \cup Settled]
      /\ stage'[r] = to /\ \A q \in Request \ {r} : stage'[q] = stage[q]
  BY <1>1, Entering
<1>3. ASSUME NEW q \in Request \ {r}
      PROVE  RequestInv(q)'
  <2>1. RequestInv(q)
    BY DEF IInv
  <2> QED
    BY <1>2, <2>1 DEF RequestInv, Told, SessionOf, InPhase
<1>4. RequestInv(r)'
  <2>1. Told(r)'
    BY <1>1, <1>2 DEF RequestInv, Told, Served, TurnedAway
  <2>2. SessionOf(r)'
    BY <1>1, <1>2 DEF RequestInv, SessionOf, Streaming, Sessionless, Early
  <2>3. InPhase(r)'
    BY <1>1, <1>2 DEF RequestInv, InPhase, Streaming, Settled
  <2> QED
    BY <2>1, <2>2, <2>3 DEF RequestInv
<1> QED
  BY <1>1, <1>2, <1>3, <1>4 DEF ShutdownOrder

LEMMA EnqueueKeeps ==
  ASSUME IInv, NEW r \in Request, Enqueue(r)
  PROVE  IInv'
<1>1. /\ Types /\ Channel /\ RequestInv(r) /\ BridgeAssumption
      /\ stage[r] = "offering" /\ queue' = Append(queue, r) /\ Len(queue) < QueueLimit
      /\ UNCHANGED worker
  BY BridgeAssumption DEF IInv, Enqueue
<1>2. phase # "crashed"
  BY <1>1 DEF RequestInv, InPhase, Settled
<1>3. /\ stage' \in [Request -> Early \cup Tracked \cup Settled]
      /\ stage'[r] = "queued" /\ \A q \in Request \ {r} : stage'[q] = stage[q]
      /\ ShutdownOrder' /\ \A q \in Request : RequestInv(q)'
  BY <1>1, <1>2, HandingOn DEF Enqueue, Early
<1>4. /\ queue \in Seq(Request) /\ Len(queue) \in Nat /\ DOMAIN queue = 1..Len(queue)
      /\ queue' \in Seq(Request) /\ Len(queue') = Len(queue) + 1
      /\ DOMAIN queue' = 1..(Len(queue) + 1)
      /\ queue'[Len(queue) + 1] = r
      /\ \A i \in DOMAIN queue : queue'[i] = queue[i]
  BY <1>1 DEF Types
<1>5. Types'
  BY <1>1, <1>3, <1>4 DEF Types, Enqueue, BridgeAssumption
<1>6. \A i \in DOMAIN queue : queue[i] # r
  BY <1>1 DEF Channel
<1>7. Channel'
  <2>1. ASSUME NEW q \in Request
        PROVE  stage'[q] = "queued" <=> \E i \in DOMAIN queue' : queue'[i] = q
    <3>1. stage[q] = "queued" <=> \E i \in DOMAIN queue : queue[i] = q
      BY <1>1 DEF Channel
    <3>2. CASE q = r
      BY <3>2, <1>3, <1>4
    <3>3. CASE q # r
      BY <3>1, <3>3, <1>3, <1>4
    <3> QED
      BY <3>2, <3>3
  <2>2. \A i, j \in DOMAIN queue' : queue'[i] = queue'[j] => i = j
    BY <1>1, <1>4, <1>6 DEF Channel
  <2>3. \A q \in Request : stage'[q] = "held" <=> worker' = q
    BY <1>1, <1>3 DEF Channel
  <2> QED
    BY <2>1, <2>2, <2>3 DEF Channel
<1> QED
  BY <1>3, <1>5, <1>7 DEF IInv

LEMMA ReceiveKeeps ==
  ASSUME IInv, Receive
  PROVE  IInv'
<1> DEFINE r == Head(queue)
<1>1. /\ Types /\ Channel /\ worker = Selecting /\ queue # <<>>
      /\ worker' = r /\ queue' = Tail(queue)
  BY DEF IInv, Receive
<1>2. /\ queue \in Seq(Request) /\ Len(queue) \in Nat \ {0} /\ DOMAIN queue = 1..Len(queue)
      /\ r \in Request /\ r = queue[1]
      /\ queue' \in Seq(Request) /\ Len(queue') = Len(queue) - 1
      /\ DOMAIN queue' = 1..(Len(queue) - 1)
      /\ \A i \in DOMAIN queue' : queue'[i] = queue[i + 1]
  BY <1>1 DEF Types
<1>3. /\ stage[r] = "queued"
  BY <1>1, <1>2 DEF Channel
<1>4. /\ stage' \in [Request -> Early \cup Tracked \cup Settled]
      /\ stage'[r] = "held" /\ \A q \in Request \ {r} : stage'[q] = stage[q]
      /\ ShutdownOrder' /\ \A q \in Request : RequestInv(q)'
  BY <1>2, <1>3, HandingOn DEF Receive, Early
<1> HIDE DEF r
<1>5. Types'
  BY <1>1, <1>2, <1>4, BridgeAssumption DEF Types, Receive
<1>6. Channel'
  <2>1. \A i \in DOMAIN queue' : queue'[i] # r
    <3>1. \A i \in DOMAIN queue' : i + 1 \in DOMAIN queue /\ i + 1 # 1 /\ 1 \in DOMAIN queue
      BY <1>2
    <3> QED
      BY <1>1, <1>2, <3>1 DEF Channel
  <2>2. ASSUME NEW q \in Request
        PROVE  stage'[q] = "queued" <=> \E i \in DOMAIN queue' : queue'[i] = q
    <3>1. CASE q = r
      BY <3>1, <1>4, <2>1
    <3>2. CASE q # r
      <4>1. stage'[q] = "queued" <=> \E i \in DOMAIN queue : queue[i] = q
        BY <3>2, <1>1, <1>4 DEF Channel
      <4>2. (\E i \in DOMAIN queue : queue[i] = q) <=> \E i \in DOMAIN queue' : queue'[i] = q
        <5>1. ASSUME NEW i \in DOMAIN queue, queue[i] = q
              PROVE  i - 1 \in DOMAIN queue' /\ queue'[i - 1] = q
          <6>1. i # 1
            BY <1>2, <3>2, <5>1
          <6>2. i - 1 \in DOMAIN queue' /\ (i - 1) + 1 = i
            BY <1>2, <6>1
          <6> QED
            BY <1>2, <5>1, <6>2
        <5>2. \A i \in DOMAIN queue' : i + 1 \in DOMAIN queue
          BY <1>2
        <5> QED
          BY <1>2, <5>1, <5>2
      <4> QED
        BY <4>1, <4>2
    <3> QED
      BY <3>1, <3>2
  <2>3. \A i, j \in DOMAIN queue' : queue'[i] = queue'[j] => i = j
    <3>1. \A i \in DOMAIN queue' : i + 1 \in DOMAIN queue /\ i \in Nat
      BY <1>2
    <3>2. ASSUME NEW i \in DOMAIN queue', NEW j \in DOMAIN queue', queue'[i] = queue'[j]
          PROVE  i = j
      <4>1. i + 1 = j + 1
        BY <1>1, <1>2, <3>1, <3>2 DEF Channel
      <4> QED
        BY <3>1, <4>1
    <3> QED
      BY <3>2
  <2>4. \A q \in Request : stage[q] # "held"
    BY <1>1, BridgeAssumption DEF Channel, Selecting
  <2>5. \A q \in Request : stage'[q] = "held" <=> worker' = q
    BY <1>1, <1>2, <1>4, <2>4
  <2> QED
    BY <2>2, <2>3, <2>5 DEF Channel
<1> QED
  BY <1>4, <1>5, <1>6 DEF IInv

LEMMA SpawnKeeps ==
  ASSUME IInv, Spawn
  PROVE  IInv'
<1>1. PICK r \in Request : worker = r
  BY DEF Spawn
<1>2. /\ Types /\ Channel /\ stage[r] = "held" /\ worker' = Selecting /\ UNCHANGED queue
  BY <1>1 DEF IInv, Channel, Spawn
<1>3. /\ stage' \in [Request -> Early \cup Tracked \cup Settled]
      /\ stage'[r] = "spawned" /\ \A q \in Request \ {r} : stage'[q] = stage[q]
      /\ ShutdownOrder' /\ \A q \in Request : RequestInv(q)'
  BY <1>1, <1>2, HandingOn DEF Spawn, Tracked
<1>4. Types'
  BY <1>2, <1>3 DEF Types, Spawn
<1>5. \A q \in Request : worker' # q
  BY <1>2, BridgeAssumption DEF Selecting
<1>6. Channel'
  BY <1>1, <1>2, <1>3, <1>5 DEF Channel
<1> QED
  BY <1>3, <1>4, <1>6 DEF IInv

(* The steps that empty the channel and end requests where they stand.     *)
LEMMA StopWorkerKeeps ==
  ASSUME IInv, StopWorker
  PROVE  IInv'
<1>1. /\ Types /\ Channel /\ ShutdownOrder /\ worker = Selecting /\ queue' = <<>>
      /\ worker' = Stopped
      /\ UNCHANGED <<replies, session, registered, draining, listening, phase>>
  BY DEF IInv, StopWorker
<1>2. /\ stage' \in [Request -> Early \cup Tracked \cup Settled]
      /\ \A q \in Request : IF stage[q] = "queued" THEN stage'[q] = "dropped"
                                                   ELSE stage'[q] = stage[q]
  BY <1>1 DEF StopWorker, Types, Settled
<1>3. Types'
  BY <1>1, <1>2, BridgeAssumption DEF Types
<1>4. Channel'
  BY <1>1, <1>2, BridgeAssumption DEF Channel, Selecting, Stopped
<1>5. ShutdownOrder'
  BY <1>1 DEF ShutdownOrder
<1>6. ASSUME NEW q \in Request
      PROVE  RequestInv(q)'
  <2>1. RequestInv(q)
    BY DEF IInv
  <2>2. CASE stage[q] # "queued"
    BY <1>1, <1>2, <2>1, <2>2 DEF RequestInv, Told, SessionOf, InPhase
  <2>3. CASE stage[q] = "queued"
    <3>1. Told(q)'
      BY <1>1, <1>2, <2>1, <2>3 DEF RequestInv, Told, Served, TurnedAway
    <3>2. SessionOf(q)'
      BY <1>1, <1>2, <2>1, <2>3 DEF RequestInv, SessionOf, Streaming, Sessionless, Early
    <3>3. InPhase(q)'
      BY <1>1, <1>2, <2>1, <2>3 DEF RequestInv, InPhase, Streaming, Settled
    <3> QED
      BY <3>1, <3>2, <3>3 DEF RequestInv
  <2> QED
    BY <2>2, <2>3
<1> QED
  BY <1>3, <1>4, <1>5, <1>6 DEF IInv

LEMMA ListenerFailsKeeps ==
  ASSUME IInv, ListenerFails
  PROVE  IInv'
<1>1. /\ Types /\ queue' = <<>> /\ worker' = Stopped /\ registered' = {}
      /\ listening' = FALSE /\ draining' = TRUE /\ phase' = "crashed"
      /\ UNCHANGED <<replies, session>>
  BY DEF IInv, ListenerFails, Proceed
<1>2. /\ stage' \in [Request -> Early \cup Tracked \cup Settled]
      /\ \A q \in Request : \/ stage'[q] = "killed"
                            \/ stage[q] \in Settled \cup {"absent"} /\ stage'[q] = stage[q]
  BY <1>1 DEF ListenerFails, Types, Settled
<1>3. \A q \in Request : stage'[q] \in Settled \cup {"absent"}
  BY <1>2 DEF Settled
<1>4. Types'
  <2>1. queue' \in Seq(Request) /\ Len(queue') <= QueueLimit
    BY <1>1, BridgeAssumption
  <2> QED
    BY <1>1, <1>2, <2>1 DEF Types, Phase
<1>5. Channel'
  BY <1>1, <1>3, BridgeAssumption DEF Channel, Settled, Stopped
<1>6. ShutdownOrder'
  BY <1>1 DEF ShutdownOrder
<1>7. ASSUME NEW q \in Request
      PROVE  RequestInv(q)'
  <2>1. RequestInv(q)
    BY DEF IInv
  <2>2. Told(q)'
    BY <1>1, <1>2, <2>1 DEF RequestInv, Told, Served, TurnedAway
  <2>3. SessionOf(q)'
    BY <1>1, <1>2, <2>1 DEF RequestInv, SessionOf, Streaming, Sessionless, Early, Settled
  <2>4. InPhase(q)'
    BY <1>1, <1>3 DEF InPhase
  <2> QED
    BY <2>2, <2>3, <2>4 DEF RequestInv
<1> QED
  BY <1>4, <1>5, <1>6, <1>7 DEF IInv

(* The phases of the shutdown: what drain_all waited for is what the       *)
(* manager's shutdown relies on.                                           *)
LEMMA ShutdownPhasesKeep ==
  ASSUME IInv, StopAccept \/ JoinListener \/ FinishDrain \/ JoinWorker
  PROVE  IInv'
<1>1. /\ Types /\ Channel /\ ShutdownOrder
      /\ UNCHANGED <<stage, replies, queue, worker, session, registered>>
      /\ phase' \in {"stopping", "draining", "drained", "joined"}
      /\ phase # "crashed" /\ draining' = TRUE /\ listening' \in BOOLEAN
  BY DEF IInv, Types, ShutdownOrder, StopAccept, JoinListener, FinishDrain, JoinWorker, Proceed
<1>2. Types' /\ Channel' /\ ShutdownOrder'
  BY <1>1 DEF Types, Channel, ShutdownOrder, Phase
<1>3. ASSUME NEW q \in Request
      PROVE  RequestInv(q)'
  <2>1. RequestInv(q)
    BY DEF IInv
  <2>2. Told(q)' /\ SessionOf(q)'
    BY <1>1, <2>1 DEF RequestInv, Told, SessionOf
  <2>3. FinishDrain => InPhase(q)'
    BY <1>1 DEF FinishDrain, TrackerEmpty, Tracked, InPhase, Streaming
  <2>4. StopAccept \/ JoinListener \/ JoinWorker => InPhase(q)'
    BY <1>1, <2>1 DEF RequestInv, InPhase, StopAccept, JoinListener, JoinWorker, Proceed
  <2> QED
    BY <2>2, <2>3, <2>4 DEF RequestInv
<1> QED
  BY <1>2, <1>3 DEF IInv

LEMMA ShutdownManagerKeeps ==
  ASSUME IInv, ShutdownManager
  PROVE  IInv'
<1>1. /\ Types /\ Channel /\ ShutdownOrder
      /\ UNCHANGED <<stage, replies, queue, worker, draining, listening>>
      /\ phase = "joined" /\ phase' = "done" /\ registered' = {}
      /\ session' = [r \in Request |-> IF r \in registered THEN Closed ELSE session[r]]
  BY DEF IInv, ShutdownManager, Proceed
<1>2. Closed \in State
  BY DEF State
<1>3. /\ session' \in [Request -> State]
      /\ \A q \in Request : q \notin registered => session'[q] = session[q]
  BY <1>1, <1>2 DEF Types
<1>4. Types' /\ Channel' /\ ShutdownOrder'
  BY <1>1, <1>3 DEF Types, Channel, ShutdownOrder, Phase
<1>5. ASSUME NEW q \in Request
      PROVE  RequestInv(q)'
  <2>1. RequestInv(q) /\ stage[q] \notin Streaming \cup {"resolving"}
    BY <1>1 DEF IInv, RequestInv, InPhase
  <2>2. Told(q)'
    BY <1>1, <2>1 DEF RequestInv, Told
  <2>3. SessionOf(q)'
    BY <1>1, <1>3, <2>1 DEF RequestInv, SessionOf
  <2>4. InPhase(q)'
    BY <1>1, <2>1 DEF InPhase
  <2> QED
    BY <2>2, <2>3, <2>4 DEF RequestInv
<1> QED
  BY <1>4, <1>5 DEF IInv

-----------------------------------------------------------------------------
LEMMA IInvStarts == Init => IInv
<1> SUFFICES ASSUME Init PROVE IInv
  OBVIOUS
<1>1. Active(0) \in State
  BY MaxStreamsAssumption DEF State
<1>2. Types
  <2>1. stage \in [Request -> Early \cup Tracked \cup Settled] /\ phase \in Phase
    BY DEF Init, Early, Phase
  <2>2. replies \in [Request -> Seq(Answers)] /\ session \in [Request -> State]
    BY <1>1 DEF Init
  <2>3. queue \in Seq(Request) /\ Len(queue) <= QueueLimit
    BY BridgeAssumption DEF Init
  <2> QED
    BY <2>1, <2>2, <2>3 DEF Init, Types
<1>3. Channel /\ ShutdownOrder
  BY BridgeAssumption DEF Init, Channel, ShutdownOrder, Selecting
<1>4. \A r \in Request : RequestInv(r)
  BY DEF Init, RequestInv, Told, SessionOf, InPhase, Served, TurnedAway, Streaming
<1> QED
  BY <1>2, <1>3, <1>4 DEF IInv

LEMMA IInvKept == IInv /\ [Next]_vars => IInv'
<1> SUFFICES ASSUME IInv, [Next]_vars PROVE IInv'
  OBVIOUS
<1>1. CASE UNCHANGED vars
  BY <1>1 DEF vars, IInv, Types, Channel, ShutdownOrder, RequestInv, Told, SessionOf, InPhase
<1>2. ASSUME NEW r \in Request,
             \/ Accept(r) \/ Progress(r)
             \/ PumpRead(r) \/ PumpWrite(r) \/ PumpEnds(r) \/ PumpDrained(r)
      PROVE  IInv'
  <2>1. CASE Enqueue(r)
    BY <2>1, EnqueueKeeps
  <2> QED
    BY <1>2, <2>1, RequestStepsKeep DEF Progress
<1>3. CASE Worker
  BY <1>3, ReceiveKeeps, SpawnKeeps, StopWorkerKeeps DEF Worker
<1>4. CASE StopAccept \/ ListenerFails \/ Shutdown
  BY <1>4, ListenerFailsKeeps, ShutdownPhasesKeep, ShutdownManagerKeeps DEF Shutdown
<1>5. CASE Terminated
  BY <1>1, <1>5 DEF Terminated
<1> QED
  BY <1>1, <1>2, <1>3, <1>4, <1>5 DEF Next

LEMMA IInvHolds == Spec => []IInv
BY IInvStarts, IInvKept, PTL DEF Spec

(* Every variable keeps its shape, no request is answered twice and the    *)
(* channel of intents never outgrows its limit.                            *)
THEOREM BridgeTypes == Spec => []TypeOK
<1>1. IInv => TypeOK
  BY DEF IInv, Types, RequestInv, Told, TypeOK
<1> QED
  BY <1>1, IInvHolds, PTL

(* A client is told what happens to its request: one success if and only   *)
(* if its stream is pumped, one failure if it was turned away, and nothing *)
(* if its intent was dropped with the queue.                               *)
THEOREM AnswersAreTrue == Spec => []RepliesTruthful
<1>1. ASSUME IInv, NEW r \in Request, stage[r] # "killed"
      PROVE  replies[r] =
               CASE stage[r] \in {"pumping", "writing", "closing", "done"} -> <<"success">>
                 [] stage[r] \in {"refused", "limited", "retiring", "failed"} -> <<"failure">>
                 [] OTHER -> <<>>
  <2>1. Told(r)
    BY <1>1 DEF IInv, RequestInv
  <2>2. CASE stage[r] \in Served
    BY <2>1, <2>2 DEF Told, Served
  <2>3. CASE stage[r] \in TurnedAway
    BY <2>1, <2>3 DEF Told, TurnedAway
  <2>4. CASE stage[r] \notin Served \cup TurnedAway
    BY <1>1, <2>1, <2>4 DEF Told, Served, TurnedAway
  <2> QED
    BY <2>2, <2>3, <2>4
<1>2. IInv => RepliesTruthful
  BY <1>1 DEF RepliesTruthful
<1> QED
  BY <1>2, IInvHolds, PTL

(* Whatever the order of queue, worker, tasks and shutdown, a stream that  *)
(* is pumped belongs to a registered session that counts it.               *)
THEOREM PumpsAreOwned == Spec => []PumpOwnsSession
<1>1. IInv => PumpOwnsSession
  BY DEF IInv, RequestInv, SessionOf, Streaming, PumpOwnsSession
<1> QED
  BY <1>1, IInvHolds, PTL

=============================================================================
