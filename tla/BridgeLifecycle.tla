-------------------------- MODULE BridgeLifecycle ---------------------------
(***************************************************************************)
(* The life of one transport stream in src/wss_gateway/mod.rs and          *)
(* src/iroh_adapter/mod.rs, which share the design: open_stream spawns a   *)
(* writer and a reader task between the connection and a local duplex      *)
(* stream; each counts itself out when it ends, and TransportStream::      *)
(* shutdown waits for the count.  The owner is the proxy bridge, which     *)
(* splits the stream, or a caller of shutdown.  IrohAdapter::release       *)
(* closes the endpoint and waits for the tracker of src/transport/         *)
(* task_tracker.rs.                                                        *)
(*                                                                         *)
(* The peer, the connection and the duplex pipe are external; bytes are    *)
(* chunks, and the pipe holds PipeRoom of them in each direction.          *)
(***************************************************************************)
EXTENDS Naturals

CONSTANT PipeRoom     \* capacity of the local duplex stream

ASSUME PipeAssumption == PipeRoom \in Nat \ {0}

VARIABLES
  kind,       \* the adapter: "wss" or "iroh"
  owner,      \* what holds the local end, and how far it is
  result,     \* what TransportStream::shutdown returned
  token,      \* the stream's child token is cancelled
  writer,     \* the task from the local end to the peer
  reader,     \* the task from the peer to the local end
  active,     \* BridgeLifecycle.active_tasks
  woken,      \* the notification that the waiting owner has received
  outbox,     \* chunks on their way to the writer
  localOpen,  \* the local end can still write
  inbox,      \* chunks the reader has delivered and nobody read
  peer,       \* "open", "closed" by the peer, or "broken"
  farewell,   \* the peer was sent a Close frame or the end of the stream
  refusing,   \* the peer takes nothing more: its Close frame was read, or
              \* it stopped an iroh stream
  release     \* how far IrohAdapter::release is

tasks == <<writer, reader, active, woken>>
pipes == <<outbox, localOpen, inbox>>
remote == <<peer, farewell, refusing>>
vars == <<kind, owner, result, token, tasks, pipes, remote, release>>

Init ==
  /\ kind \in {"wss", "iroh"}
  /\ owner = "connecting"
  /\ result = "none"
  /\ token = FALSE
  /\ writer = "none" /\ reader = "none"
  /\ active = 2
  /\ woken = FALSE
  /\ outbox = 0 /\ localOpen = TRUE /\ inbox = 0
  /\ peer = "open" /\ farewell = FALSE /\ refusing = FALSE
  /\ release = "no"

-----------------------------------------------------------------------------
(* open_stream: cancelled, or refused by the peer or the endpoint ...      *)
OpenFails ==
  /\ owner = "connecting"
  /\ owner' = "gone"
  /\ UNCHANGED <<kind, result, token, tasks, pipes, remote, release>>

(* ... or connected; the iroh stream has its marker written by then.       *)
Connected ==
  /\ owner = "connecting"
  /\ peer # "broken" /\ ~token
  /\ owner' = "connected"
  /\ UNCHANGED <<kind, result, token, tasks, pipes, remote, release>>

SpawnTasks_Uncounted ==
  /\ owner = "connected"
  /\ owner' = "holding"
  /\ writer' = "reading"
  /\ reader' = IF kind = "iroh" THEN "marker" ELSE "receiving"
  /\ active' = 1
  /\ UNCHANGED <<kind, result, token, woken, pipes, remote, release>>

SpawnTasks ==
  /\ owner = "connected"
  /\ owner' = "holding"
  /\ writer' = "reading"
  /\ reader' = IF kind = "iroh" THEN "marker" ELSE "receiving"
  /\ active' = 2
  /\ UNCHANGED <<kind, result, token, woken, pipes, remote, release>>

(* The token open_stream was given, the parent of the stream's.            *)
CancelParent ==
  /\ ~token
  /\ token' = TRUE
  /\ UNCHANGED <<kind, owner, result, tasks, pipes, remote, release>>

-----------------------------------------------------------------------------
(* The writer task. *)
Connection == <<kind, owner, result, token, release>>

(* The Close frame of a WebSocket is awaited, and refused on a connection  *)
(* whose peer's Close frame was read; finish() is not awaited, and without *)
(* effect on a stopped stream.  Both results are ignored.                  *)
SayGoodbye ==
  IF kind = "wss"
  THEN writer' = (IF refusing THEN "leaving" ELSE "saying_goodbye") /\ UNCHANGED farewell
  ELSE writer' = "leaving" /\ farewell' = (farewell \/ ~refusing)

WriterCancelled ==
  /\ writer = "reading"
  /\ token
  /\ SayGoodbye
  /\ UNCHANGED <<Connection, reader, active, woken, pipes, peer, refusing>>

WriterEndOfInput_Abrupt ==
  /\ writer = "reading"
  /\ outbox = 0 /\ ~localOpen
  /\ writer' = "leaving"
  /\ UNCHANGED <<Connection, reader, active, woken, pipes, remote>>

WriterEndOfInput ==
  /\ writer = "reading"
  /\ outbox = 0 /\ ~localOpen
  /\ SayGoodbye
  /\ UNCHANGED <<Connection, reader, active, woken, pipes, peer, refusing>>

WriterReads ==
  /\ writer = "reading"
  /\ outbox > 0
  /\ outbox' = outbox - 1
  /\ writer' = IF refusing THEN "leaving" ELSE "sending"
  /\ UNCHANGED <<Connection, reader, active, woken, localOpen, inbox, remote>>

(* The peer takes what is sent, and only then the task looks at its token. *)
(* A frame that was accepted before the peer's Close was read still goes   *)
(* out; a write to an iroh stream that is stopped fails at once.           *)
Stopped == kind = "iroh" /\ refusing

PeerTakes ==
  /\ peer # "broken" /\ ~Stopped
  /\ \/ writer = "sending" /\ writer' = "reading" /\ UNCHANGED farewell
     \/ writer = "saying_goodbye" /\ writer' = "leaving" /\ farewell' = TRUE
  /\ UNCHANGED <<Connection, reader, active, woken, pipes, peer, refusing>>

SendFails ==
  /\ writer \in {"sending", "saying_goodbye"}
  /\ peer = "broken" \/ Stopped
  /\ writer' = "leaving"
  /\ UNCHANGED <<Connection, reader, active, woken, pipes, remote>>

-----------------------------------------------------------------------------
(* The reader task.  The iroh reader waits for the peer's marker before it *)
(* looks at the token for the first time.                                  *)
MarkerArrives ==
  /\ reader = "marker"
  /\ peer = "open"
  /\ reader' \in {"receiving", "leaving"}
  /\ UNCHANGED <<Connection, writer, active, woken, pipes, remote>>

MarkerFails_Ignored ==
  /\ reader = "marker"
  /\ peer = "closed"
  /\ reader' = "leaving"
  /\ UNCHANGED <<Connection, writer, active, woken, pipes, remote>>

MarkerFails ==
  /\ reader = "marker"
  /\ peer # "open"
  /\ reader' = "leaving"
  /\ UNCHANGED <<Connection, writer, active, woken, pipes, remote>>

ReaderCancelled_Deaf ==
  /\ reader = "receiving"
  /\ token /\ peer # "open"
  /\ reader' = "leaving"
  /\ UNCHANGED <<Connection, writer, active, woken, pipes, remote>>

ReaderCancelled ==
  /\ reader = "receiving"
  /\ token
  /\ reader' = "leaving"
  /\ UNCHANGED <<Connection, writer, active, woken, pipes, remote>>

ReaderReceives ==
  /\ reader = "receiving"
  /\ peer = "open"
  /\ reader' = "delivering"
  /\ UNCHANGED <<Connection, writer, active, woken, pipes, remote>>

ReaderPeerEnds_Deaf ==
  /\ reader = "receiving"
  /\ peer = "broken"
  /\ reader' = "leaving"
  /\ UNCHANGED <<Connection, writer, active, woken, pipes, remote>>

(* A Close frame that is read leaves the WebSocket closing for its other   *)
(* half too; the end of an iroh stream says nothing of the way back.       *)
ReaderPeerEnds ==
  /\ reader = "receiving"
  /\ peer # "open"
  /\ reader' = "leaving"
  /\ refusing' = (refusing \/ (kind = "wss" /\ peer = "closed"))
  /\ UNCHANGED <<Connection, writer, active, woken, pipes, peer, farewell>>

(* write_all waits for room, and fails when the local end is gone.         *)
ReaderDelivers ==
  /\ reader = "delivering"
  /\ \/ owner = "gone" /\ reader' = "leaving" /\ UNCHANGED inbox
     \/ /\ owner # "gone" /\ inbox < PipeRoom
        /\ reader' = "receiving" /\ inbox' = inbox + 1
  /\ UNCHANGED <<Connection, writer, active, woken, outbox, localOpen, remote>>

-----------------------------------------------------------------------------
(* finish_bridge_task: a task counts itself out, and the one that was last *)
(* then notifies whoever waits at that moment.                             *)
AfterCount == IF active = 1 THEN "notifying" ELSE "ended"

CountOut ==
  /\ active' = active - 1
  /\ \/ writer = "leaving" /\ writer' = AfterCount /\ UNCHANGED reader
     \/ reader = "leaving" /\ reader' = AfterCount /\ UNCHANGED writer
  /\ UNCHANGED <<Connection, woken, pipes, remote>>

NotifyWaiters ==
  /\ \/ writer = "notifying" /\ writer' = "ended" /\ UNCHANGED reader
     \/ reader = "notifying" /\ reader' = "ended" /\ UNCHANGED writer
  /\ woken' = (woken \/ owner = "waiting")
  /\ UNCHANGED <<Connection, active, pipes, remote>>

-----------------------------------------------------------------------------
(* The owner.  The proxy bridge splits the stream and pumps: data of the   *)
(* client is written to the stream, data of the stream to the client, and  *)
(* while one write is awaited nothing else is looked at.                   *)
Split ==
  /\ owner = "holding"
  /\ owner' = "split"
  /\ UNCHANGED <<kind, result, token, tasks, pipes, remote, release>>

PumpTakes ==
  /\ owner = "split"
  /\ owner' = "writing_out"
  /\ UNCHANGED <<kind, result, token, tasks, pipes, remote, release>>

(* A write waits for room; it fails once both tasks have dropped their     *)
(* halves of the bridge end.                                               *)
Ended == writer \in {"none", "ended"} /\ reader \in {"none", "ended"}

PumpWrites ==
  /\ owner = "writing_out"
  /\ \/ ~Ended /\ outbox < PipeRoom
        /\ outbox' = outbox + 1 /\ owner' = "split"
        /\ UNCHANGED localOpen
     \/ Ended /\ owner' = "closing" /\ localOpen' = FALSE
        /\ UNCHANGED outbox
  /\ UNCHANGED <<kind, result, token, tasks, inbox, remote, release>>

PumpReads ==
  /\ owner = "split"
  /\ inbox > 0
  /\ inbox' = inbox - 1
  /\ owner' = "writing_in"
  /\ UNCHANGED <<kind, result, token, tasks, outbox, localOpen, remote, release>>

(* The client takes what it is sent, or its connection fails.              *)
ClientTakes ==
  /\ owner = "writing_in"
  /\ \/ owner' = "split" /\ UNCHANGED localOpen
     \/ owner' = "closing" /\ localOpen' = FALSE
  /\ UNCHANGED <<kind, result, token, tasks, outbox, inbox, remote, release>>

(* The pump ends with its client, ...                                      *)
PumpEnds ==
  /\ owner = "split"
  /\ owner' = "closing"
  /\ localOpen' = FALSE
  /\ UNCHANGED <<kind, result, token, tasks, outbox, inbox, remote, release>>

(* ... with the drain token, and at the end of the stream.                 *)
PumpDrained == token /\ PumpEnds

PumpReachesEnd ==
  /\ reader \in {"leaving", "notifying", "ended"} /\ inbox = 0
  /\ PumpEnds

(* A stream whose session is gone is dropped as it is. *)
DropStream ==
  /\ owner \in {"holding", "closing"}
  /\ owner' = "gone"
  /\ localOpen' = FALSE
  /\ UNCHANGED <<kind, result, token, tasks, outbox, inbox, remote, release>>

(* shutdown: cancel the token ... *)
BeginShutdown ==
  /\ owner = "holding"
  /\ owner' = "flushing"
  /\ token' = TRUE
  /\ UNCHANGED <<kind, result, tasks, pipes, remote, release>>

(* ... shut the local stream down ... *)
FlushLocal ==
  /\ owner = "flushing"
  /\ owner' = "testing"
  /\ localOpen' = FALSE
  /\ UNCHANGED <<kind, result, token, tasks, outbox, inbox, remote, release>>

(* ... and test the count, wait for a notification and test again.  The    *)
(* wait begins after the test: a notification in between is lost.          *)
TestCount_Early ==
  /\ owner = "testing"
  /\ IF active < 2
     THEN owner' = "gone" /\ result' = "ok"
     ELSE owner' = "arming" /\ UNCHANGED result
  /\ UNCHANGED <<kind, token, tasks, pipes, remote, release>>

TestCount ==
  /\ owner = "testing"
  /\ IF active = 0
     THEN owner' = "gone" /\ result' = "ok"
     ELSE owner' = "arming" /\ UNCHANGED result
  /\ UNCHANGED <<kind, token, tasks, pipes, remote, release>>

ArmWaiter ==
  /\ owner = "arming"
  /\ owner' = "waiting"
  /\ woken' = FALSE
  /\ UNCHANGED <<kind, result, token, writer, reader, active, pipes, remote, release>>

Wake ==
  /\ owner = "waiting"
  /\ woken
  /\ owner' = "testing"
  /\ UNCHANGED <<kind, result, token, tasks, pipes, remote, release>>

(* Returning drops the stream, here with a task perhaps still alive.       *)
ShutdownTimesOut ==
  /\ owner = "waiting"
  /\ ~woken
  /\ owner' = "gone" /\ result' = "timeout"
  /\ UNCHANGED <<kind, token, tasks, pipes, remote, release>>

-----------------------------------------------------------------------------
(* The peer closes its side, ...                                           *)
PeerCloses ==
  /\ peer = "open"
  /\ owner # "connecting"
  /\ peer' = "closed"
  /\ UNCHANGED <<Connection, tasks, pipes, farewell, refusing>>

(* ... or, over iroh, stops ours (STOP_SENDING), whatever its own does; ...*)
PeerStops ==
  /\ kind = "iroh" /\ ~refusing
  /\ peer # "broken" /\ owner # "connecting"
  /\ refusing' = TRUE
  /\ UNCHANGED <<Connection, tasks, pipes, peer, farewell>>

(* ... or the connection breaks.                                           *)
ConnectionBreaks ==
  /\ peer # "broken"
  /\ owner # "connecting"
  /\ peer' = "broken"
  /\ UNCHANGED <<Connection, tasks, pipes, farewell, refusing>>

(* release: the endpoint closes, and every connection with it; the tracker *)
(* is closed and waited for under a timeout.                               *)
CloseEndpoint ==
  /\ kind = "iroh"
  /\ release = "no"
  /\ release' = "waiting"
  /\ peer' = "broken"
  /\ UNCHANGED <<kind, owner, result, token, tasks, pipes, farewell, refusing>>

FinishRelease ==
  /\ release = "waiting"
  /\ release' = IF Ended THEN "ok" ELSE "failed"
  /\ UNCHANGED <<kind, owner, result, token, tasks, pipes, remote>>

WriterStep == WriterCancelled \/ WriterEndOfInput \/ WriterReads \/ SendFails
ReaderStep == MarkerFails \/ ReaderCancelled \/ ReaderPeerEnds \/ ReaderDelivers
OwnerStep  == \/ Split \/ PumpTakes \/ PumpWrites \/ PumpReads \/ ClientTakes
              \/ PumpEnds \/ DropStream
              \/ BeginShutdown \/ FlushLocal \/ TestCount \/ ArmWaiter \/ Wake
              \/ ShutdownTimesOut

(* The pump waits for room that the writer will not make any more, and the *)
(* reader for room that the pump will not make: no step leads out of this. *)
Entangled ==
  /\ owner = "writing_out" /\ outbox = PipeRoom
  /\ reader = "delivering" /\ inbox = PipeRoom
  /\ writer \in {"leaving", "notifying", "ended"}

(* The stream has gone with its tasks, or nothing can move any more. *)
Over  == owner = "gone" /\ Ended /\ UNCHANGED vars
Stuck == Entangled /\ UNCHANGED vars

Next ==
  \/ OpenFails \/ Connected \/ SpawnTasks \/ CancelParent
  \/ WriterStep \/ PeerTakes \/ ReaderStep \/ MarkerArrives \/ ReaderReceives
  \/ CountOut \/ NotifyWaiters
  \/ OwnerStep
  \/ PeerCloses \/ PeerStops \/ ConnectionBreaks \/ CloseEndpoint \/ FinishRelease
  \/ Over \/ Stuck

Spec == Init /\ [][Next]_vars

(* The runtime polls the tasks, and a select! branch that is ready again   *)
(* and again is taken.  The owner of a stream does not sit on it, and its  *)
(* client reads.  Of the peer nothing is assumed.                          *)
Fairness ==
  /\ WF_vars(WriterStep) /\ WF_vars(ReaderStep)
  /\ SF_vars(WriterCancelled) /\ SF_vars(ReaderCancelled)
  /\ WF_vars(CountOut) /\ WF_vars(NotifyWaiters)
  /\ WF_vars(SpawnTasks) /\ WF_vars(Split \/ BeginShutdown \/ DropStream)
  /\ WF_vars(PumpWrites) /\ WF_vars(ClientTakes)
  /\ SF_vars(PumpReads) /\ SF_vars(PumpDrained) /\ SF_vars(PumpReachesEnd)
  /\ WF_vars(FlushLocal) /\ WF_vars(TestCount) /\ WF_vars(ArmWaiter)
  /\ WF_vars(Wake \/ ShutdownTimesOut)

FairSpec == Spec /\ Fairness

-----------------------------------------------------------------------------
(* The shape of the state: the count never underflows. *)
TypeOK ==
  /\ kind \in {"wss", "iroh"}
  /\ owner \in {"connecting", "connected", "holding", "split", "writing_out",
                "writing_in", "closing", "gone", "flushing", "testing", "arming",
                "waiting"}
  /\ result \in {"none", "ok", "timeout"}
  /\ token \in BOOLEAN /\ woken \in BOOLEAN
  /\ writer \in {"none", "reading", "sending", "saying_goodbye", "leaving", "notifying",
                 "ended"}
  /\ reader \in {"none", "marker", "receiving", "delivering", "leaving", "notifying",
                 "ended"}
  /\ active \in 0..2
  /\ outbox \in 0..PipeRoom /\ localOpen \in BOOLEAN /\ inbox \in 0..PipeRoom
  /\ peer \in {"open", "closed", "broken"}
  /\ farewell \in BOOLEAN /\ refusing \in BOOLEAN
  /\ release \in {"no", "waiting", "ok", "failed"}

(* A shutdown that returns Ok has seen both tasks leave their loops: no    *)
(* path through either task counts it out twice or before its end.         *)
ShutdownOkMeansEnded ==
  result = "ok" =>
    writer \in {"notifying", "ended"} /\ reader \in {"notifying", "ended"}

(* The writer never leaves a peer that still listens without telling it:   *)
(* every way out of its loop sends the Close frame, finishes the stream,   *)
(* or follows a broken connection, the peer's own Close frame or its stop. *)
PeerIsTold ==
  writer \in {"leaving", "notifying", "ended"} => farewell \/ refusing \/ peer = "broken"

(* What only the peer can end: a blocked send, an iroh marker not sent.    *)
PeerHolds == writer \in {"sending", "saying_goodbye"} \/ reader = "marker"

(* Cancellation, of the drain token or by shutdown, ends both tasks unless *)
(* the peer holds one of them for ever; entanglement apart, nothing else   *)
(* stands in the way.                                                      *)
CancelEndsBridge ==
  []<>~PeerHolds => ((token /\ writer # "none") ~> (Ended \/ Entangled))

(* Dropping the stream without cancelling it ends both tasks if the peer   *)
(* answers the farewell, or ends its own side after it stopped ours: the   *)
(* reader has no other way to learn of it.                                 *)
DropEndsBridge ==
  ([]<>~PeerHolds /\ (farewell \/ refusing ~> peer # "open")) => (owner = "gone" ~> Ended)

(* release ends the tasks of a stream whatever the peer does, those of a   *)
(* stream that was being opened when the endpoint closed included.         *)
ReleaseEndsBridge == (release # "no") ~> [](Ended \/ Entangled)

(* "Remote disconnect ... does not deadlock the client side": a broken     *)
(* connection ends both tasks.                                             *)
DisconnectEndsBridge == (peer = "broken") ~> Ended

=============================================================================
