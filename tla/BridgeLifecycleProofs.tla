----------------------- MODULE BridgeLifecycleProofs ------------------------
(***************************************************************************)
(* The count of bridge tasks, for every capacity of the local pipe: what   *)
(* TransportStream::shutdown concludes from a count of zero is true.       *)
(***************************************************************************)
EXTENDS BridgeLifecycle, TLAPS

Left(task) == task \in {"notifying", "ended"}

(* Each task counts one until it has left its loop and counted itself out; *)
(* before the tasks are spawned the count stands for both of them.         *)
CountsTasks ==
  active = (IF Left(writer) THEN 0 ELSE 1) + (IF Left(reader) THEN 0 ELSE 1)

(* The result is there once the stream is gone, and Ok is final.           *)
ResultIsFinal ==
  /\ result # "none" => owner = "gone"
  /\ result = "ok" => active = 0

(* The Boolean variables apart from the others. *)
Flags == /\ token \in BOOLEAN /\ woken \in BOOLEAN
         /\ localOpen \in BOOLEAN
         /\ farewell \in BOOLEAN /\ refusing \in BOOLEAN

Places ==
  /\ kind \in {"wss", "iroh"}
  /\ owner \in {"connecting", "connected", "holding", "split", "writing_out",
                "writing_in", "closing", "gone", "flushing", "testing", "arming",
                "waiting"}
  /\ result \in {"none", "ok", "timeout"}
  /\ writer \in {"none", "reading", "sending", "saying_goodbye", "leaving", "notifying",
                 "ended"}
  /\ reader \in {"none", "marker", "receiving", "delivering", "leaving", "notifying",
                 "ended"}
  /\ active \in 0..2
  /\ outbox \in 0..PipeRoom /\ inbox \in 0..PipeRoom
  /\ peer \in {"open", "closed", "broken"}
  /\ release \in {"no", "waiting", "ok", "failed"}

Counting == Places /\ CountsTasks /\ ResultIsFinal

IInv == Flags /\ Counting

LEMMA InitInvariant == Init => IInv
<1>1. Init => Flags
  BY DEF Init, Flags
<1>2. Init => Counting
  BY PipeAssumption
     DEF PipeAssumption, Init, Counting, Places, CountsTasks, ResultIsFinal, Left
<1> QED BY <1>1, <1>2 DEF IInv

LEMMA FlagsPreserved == Flags /\ [Next]_vars => Flags'
<1> SUFFICES ASSUME Flags, [Next]_vars PROVE Flags'
  OBVIOUS
<1> USE DEF Flags, tasks, pipes, remote, Connection
<1>1. CASE UNCHANGED vars  BY <1>1 DEF vars
<1>2. CASE OpenFails \/ Connected \/ SpawnTasks \/ CancelParent
  BY <1>2 DEF OpenFails, Connected, SpawnTasks, CancelParent
<1>3. CASE WriterStep
  <2>1. CASE WriterCancelled   BY <2>1 DEF WriterCancelled, SayGoodbye
  <2>2. CASE WriterEndOfInput  BY <2>2 DEF WriterEndOfInput, SayGoodbye
  <2>3. CASE WriterReads       BY <2>3 DEF WriterReads
  <2>4. CASE SendFails         BY <2>4 DEF SendFails
  <2> QED BY <1>3, <2>1, <2>2, <2>3, <2>4 DEF WriterStep
<1>4. CASE PeerTakes  BY <1>4 DEF PeerTakes
<1>5. CASE ReaderStep \/ MarkerArrives \/ ReaderReceives
  BY <1>5 DEF ReaderStep, MarkerFails, ReaderCancelled, ReaderReceives, ReaderPeerEnds,
              ReaderDelivers, MarkerArrives
<1>6. CASE CountOut \/ NotifyWaiters
  BY <1>6 DEF CountOut, NotifyWaiters
<1>7. CASE OwnerStep
  <2>1. CASE Split \/ PumpTakes \/ PumpWrites \/ PumpReads \/ ClientTakes
    BY <2>1 DEF Split, PumpTakes, PumpWrites, PumpReads, ClientTakes
  <2>4. CASE PumpEnds \/ DropStream
    BY <2>4 DEF PumpEnds, DropStream
  <2>2. CASE BeginShutdown \/ FlushLocal \/ TestCount
    BY <2>2 DEF BeginShutdown, FlushLocal, TestCount
  <2>3. CASE ArmWaiter \/ Wake \/ ShutdownTimesOut
    BY <2>3 DEF ArmWaiter, Wake, ShutdownTimesOut
  <2> QED BY <1>7, <2>1, <2>2, <2>3, <2>4 DEF OwnerStep
<1>8. CASE PeerCloses \/ PeerStops \/ ConnectionBreaks \/ CloseEndpoint \/ FinishRelease
  BY <1>8 DEF PeerCloses, PeerStops, ConnectionBreaks, CloseEndpoint, FinishRelease
<1>9. CASE Over \/ Stuck  BY <1>9, <1>1 DEF Over, Stuck
<1> QED BY <1>1, <1>2, <1>3, <1>4, <1>5, <1>6, <1>7, <1>8, <1>9 DEF Next

(* Opening, cancelling, and everything the environment does to the         *)
(* connection leave the tasks and their count alone.                       *)
LEMMA OpenPreserves ==
  ASSUME Counting, OpenFails \/ Connected \/ SpawnTasks \/ CancelParent
  PROVE  Counting'
<1> USE DEF Counting, Places, CountsTasks, ResultIsFinal, Left, tasks, pipes, remote
<1>1. CASE OpenFails     BY <1>1 DEF OpenFails
<1>2. CASE Connected     BY <1>2 DEF Connected
<1>3. CASE SpawnTasks    BY <1>3 DEF SpawnTasks
<1>4. CASE CancelParent  BY <1>4 DEF CancelParent
<1> QED BY <1>1, <1>2, <1>3, <1>4

LEMMA RemotePreserves ==
  ASSUME Counting,
         PeerCloses \/ PeerStops \/ ConnectionBreaks \/ CloseEndpoint \/ FinishRelease
  PROVE  Counting'
<1> USE DEF Counting, Places, CountsTasks, ResultIsFinal, Left, tasks, pipes, remote, Connection
<1>1. CASE PeerCloses        BY <1>1 DEF PeerCloses
<1>2. CASE ConnectionBreaks  BY <1>2 DEF ConnectionBreaks
<1>3. CASE CloseEndpoint     BY <1>3 DEF CloseEndpoint
<1>4. CASE FinishRelease     BY <1>4 DEF FinishRelease
<1>5. CASE PeerStops         BY <1>5 DEF PeerStops
<1> QED BY <1>1, <1>2, <1>3, <1>4, <1>5

(* Inside its loop a task changes neither the count nor what it stands for. *)
LEMMA WriterPreserves ==
  ASSUME Counting, WriterStep \/ PeerTakes
  PROVE  Counting'
<1> USE DEF Counting, Places, CountsTasks, ResultIsFinal, Left, tasks, pipes, remote, Connection
<1>1. CASE WriterCancelled   BY <1>1 DEF WriterCancelled, SayGoodbye
<1>2. CASE WriterEndOfInput  BY <1>2 DEF WriterEndOfInput, SayGoodbye
<1>3. CASE WriterReads       BY <1>3, PipeAssumption DEF PipeAssumption, WriterReads
<1>4. CASE SendFails         BY <1>4 DEF SendFails
<1>5. CASE PeerTakes         BY <1>5 DEF PeerTakes
<1> QED BY <1>1, <1>2, <1>3, <1>4, <1>5 DEF WriterStep

LEMMA ReaderPreserves ==
  ASSUME Counting, ReaderStep \/ MarkerArrives \/ ReaderReceives
  PROVE  Counting'
<1> USE DEF Counting, Places, CountsTasks, ResultIsFinal, Left, tasks, pipes, remote, Connection
<1>1. CASE MarkerFails      BY <1>1 DEF MarkerFails
<1>2. CASE ReaderCancelled  BY <1>2 DEF ReaderCancelled
<1>3. CASE ReaderReceives   BY <1>3 DEF ReaderReceives
<1>4. CASE ReaderPeerEnds   BY <1>4 DEF ReaderPeerEnds
<1>5. CASE ReaderDelivers   BY <1>5, PipeAssumption DEF PipeAssumption, ReaderDelivers
<1>6. CASE MarkerArrives    BY <1>6 DEF MarkerArrives
<1> QED BY <1>1, <1>2, <1>3, <1>4, <1>5, <1>6 DEF ReaderStep

(* A task that leaves takes its one off the count, and only the last one   *)
(* finds the count at one.                                                 *)
LEMMA CountPreserves ==
  ASSUME Counting, CountOut \/ NotifyWaiters
  PROVE  Counting'
<1> USE DEF Counting, Places, CountsTasks, ResultIsFinal, Left, pipes, remote, Connection
<1>1. CASE CountOut       BY <1>1 DEF CountOut, AfterCount
<1>2. CASE NotifyWaiters  BY <1>2 DEF NotifyWaiters
<1> QED BY <1>1, <1>2

LEMMA OwnerPreserves ==
  ASSUME Counting, OwnerStep
  PROVE  Counting'
<1> USE DEF Counting, Places, CountsTasks, ResultIsFinal, Left, tasks, pipes, remote, Connection
<1>1. CASE Split             BY <1>1 DEF Split
<1>2. CASE PumpTakes         BY <1>2 DEF PumpTakes
<1>3. CASE PumpWrites        BY <1>3, PipeAssumption DEF PipeAssumption, PumpWrites
<1>4. CASE PumpReads         BY <1>4, PipeAssumption DEF PipeAssumption, PumpReads
<1>12. CASE ClientTakes      BY <1>12 DEF ClientTakes
<1>13. CASE PumpEnds         BY <1>13 DEF PumpEnds
<1>5. CASE DropStream        BY <1>5 DEF DropStream
<1>6. CASE BeginShutdown     BY <1>6 DEF BeginShutdown
<1>7. CASE FlushLocal        BY <1>7 DEF FlushLocal
<1>8. CASE TestCount         BY <1>8 DEF TestCount
<1>9. CASE ArmWaiter         BY <1>9 DEF ArmWaiter
<1>10. CASE Wake             BY <1>10 DEF Wake
<1>11. CASE ShutdownTimesOut BY <1>11 DEF ShutdownTimesOut
<1> QED BY <1>1, <1>2, <1>3, <1>4, <1>5, <1>6, <1>7, <1>8, <1>9, <1>10, <1>11,
        <1>12, <1>13
     DEF OwnerStep

LEMMA NextPreserves == IInv /\ [Next]_vars => IInv'
<1> SUFFICES ASSUME IInv, [Next]_vars PROVE IInv'
  OBVIOUS
<1>1. UNCHANGED vars => Counting'
  BY DEF vars, tasks, pipes, remote, IInv, Counting, Places, CountsTasks, ResultIsFinal, Left
<1>2. Over \/ Stuck => Counting'
  BY <1>1 DEF Over, Stuck
<1>3. Counting'
  BY <1>1, <1>2, OpenPreserves, RemotePreserves, WriterPreserves, ReaderPreserves,
     CountPreserves, OwnerPreserves DEF Next, IInv
<1> QED
  BY <1>3, FlagsPreserved DEF IInv

THEOREM InductiveInvariant == Spec => []IInv
  BY InitInvariant, NextPreserves, PTL DEF Spec

(* Every stream keeps its types; in particular the count of tasks, which   *)
(* finish_bridge_task decrements without a check, stays within 0..2.       *)
THEOREM LifecycleTypeCorrect == Spec => []TypeOK
<1>1. IInv => TypeOK
  BY DEF IInv, Flags, Counting, Places, TypeOK
<1> QED BY InductiveInvariant, <1>1, PTL

(* Whatever the peer, the token and the endpoint do, a shutdown that       *)
(* returns Ok has seen both tasks leave their loops.                       *)
THEOREM ShutdownIsTruthful == Spec => []ShutdownOkMeansEnded
<1>1. IInv => ShutdownOkMeansEnded
  BY DEF IInv, Counting, Places, CountsTasks, ResultIsFinal, Left, ShutdownOkMeansEnded
<1> QED BY InductiveInvariant, <1>1, PTL

-----------------------------------------------------------------------------
(* A farewell is not taken back, a peer that refuses does not change its   *)
(* mind and a broken connection stays broken; so it is enough that a       *)
(* writer leaves its loop for one of the three reasons.                    *)
LEMMA WriterExits ==
  ASSUME Flags, PeerIsTold,
         writer' \in {"leaving", "notifying", "ended"} /\ writer' # writer,
         WriterStep \/ PeerTakes \/ CountOut \/ NotifyWaiters
  PROVE  farewell' = TRUE \/ refusing' = TRUE \/ peer' = "broken"
<1> USE DEF Flags, PeerIsTold, pipes, remote, Connection
<1>1. CASE WriterCancelled   BY <1>1 DEF WriterCancelled, SayGoodbye
<1>2. CASE WriterEndOfInput  BY <1>2 DEF WriterEndOfInput, SayGoodbye
<1>3. CASE WriterReads       BY <1>3 DEF WriterReads
<1>4. CASE SendFails         BY <1>4 DEF SendFails, Stopped
<1>5. CASE PeerTakes         BY <1>5 DEF PeerTakes
<1>6. CASE CountOut          BY <1>6 DEF CountOut
<1>7. CASE NotifyWaiters     BY <1>7 DEF NotifyWaiters
<1> QED BY <1>1, <1>2, <1>3, <1>4, <1>5, <1>6, <1>7 DEF WriterStep

LEMMA TellingKept == Flags /\ PeerIsTold /\ [Next]_vars => PeerIsTold'
<1> SUFFICES ASSUME Flags, PeerIsTold, [Next]_vars,
                    writer' \in {"leaving", "notifying", "ended"}
             PROVE  farewell' = TRUE \/ refusing' = TRUE \/ peer' = "broken"
  BY DEF PeerIsTold
<1> USE DEF tasks, pipes, remote, Connection
<1>1. farewell = TRUE => farewell' = TRUE
  <2>5. SayGoodbye => farewell' = farewell \/ farewell' = (farewell \/ ~refusing)
    BY DEF SayGoodbye
  <2>1. WriterStep
          => farewell' = farewell \/ farewell' = (farewell \/ ~refusing)
    BY <2>5 DEF WriterStep, WriterCancelled, WriterEndOfInput, WriterReads, SendFails
  <2>2. PeerTakes => farewell' = farewell \/ farewell' = TRUE
    BY DEF PeerTakes
  <2>3. OwnerStep => farewell' = farewell
    BY DEF OwnerStep, Split, PumpTakes, PumpWrites, PumpReads, ClientTakes, PumpEnds,
           DropStream, BeginShutdown, FlushLocal, TestCount, ArmWaiter, Wake, ShutdownTimesOut
  <2>4. ReaderStep \/ MarkerArrives \/ ReaderReceives => farewell' = farewell
    BY DEF ReaderStep, MarkerFails, ReaderCancelled, ReaderPeerEnds, ReaderDelivers,
           MarkerArrives, ReaderReceives
  <2> QED
    BY <2>1, <2>2, <2>3, <2>4
       DEF Next, OpenFails, Connected, SpawnTasks, CancelParent, CountOut, NotifyWaiters,
           PeerCloses, PeerStops, ConnectionBreaks, CloseEndpoint, FinishRelease, Over,
           Stuck, vars
<1>2. peer = "broken" => peer' = "broken"
  <2>1. WriterStep \/ PeerTakes => peer' = peer
    BY DEF WriterStep, WriterCancelled, WriterEndOfInput, WriterReads, SendFails, PeerTakes
  <2>2. OwnerStep => peer' = peer
    BY DEF OwnerStep, Split, PumpTakes, PumpWrites, PumpReads, ClientTakes, PumpEnds,
           DropStream, BeginShutdown, FlushLocal, TestCount, ArmWaiter, Wake, ShutdownTimesOut
  <2>3. ReaderStep \/ MarkerArrives \/ ReaderReceives => peer' = peer
    BY DEF ReaderStep, MarkerFails, ReaderCancelled, ReaderPeerEnds, ReaderDelivers,
           MarkerArrives, ReaderReceives
  <2> QED
    BY <2>1, <2>2, <2>3
       DEF Next, OpenFails, Connected, SpawnTasks, CancelParent, CountOut, NotifyWaiters,
           PeerCloses, PeerStops, ConnectionBreaks, CloseEndpoint, FinishRelease, Over,
           Stuck, vars
<1>5. refusing = TRUE => refusing' = TRUE
  <2>1. WriterStep \/ PeerTakes => refusing' = refusing
    BY DEF WriterStep, WriterCancelled, WriterEndOfInput, WriterReads, SendFails, PeerTakes
  <2>2. OwnerStep => refusing' = refusing
    BY DEF OwnerStep, Split, PumpTakes, PumpWrites, PumpReads, ClientTakes, PumpEnds,
           DropStream, BeginShutdown, FlushLocal, TestCount, ArmWaiter, Wake, ShutdownTimesOut
  <2>3. ReaderStep \/ MarkerArrives \/ ReaderReceives
          => refusing' = refusing \/ refusing' = (refusing \/ (kind = "wss" /\ peer = "closed"))
    BY DEF ReaderStep, MarkerFails, ReaderCancelled, ReaderPeerEnds, ReaderDelivers,
           MarkerArrives, ReaderReceives
  <2> QED
    BY <2>1, <2>2, <2>3
       DEF Next, OpenFails, Connected, SpawnTasks, CancelParent, CountOut, NotifyWaiters,
           PeerCloses, PeerStops, ConnectionBreaks, CloseEndpoint, FinishRelease, Over,
           Stuck, vars
<1>3. CASE writer' = writer
  BY <1>1, <1>2, <1>5, <1>3 DEF PeerIsTold, Flags
<1>4. CASE writer' # writer
  <2>1. ReaderStep \/ MarkerArrives \/ ReaderReceives => writer' = writer
    BY DEF ReaderStep, MarkerFails, ReaderCancelled, ReaderPeerEnds, ReaderDelivers,
           MarkerArrives, ReaderReceives
  <2>2. OwnerStep => writer' = writer
    BY DEF OwnerStep, Split, PumpTakes, PumpWrites, PumpReads, ClientTakes, PumpEnds,
           DropStream, BeginShutdown, FlushLocal, TestCount, ArmWaiter, Wake, ShutdownTimesOut
  <2>3. OpenFails \/ Connected \/ CancelParent => writer' = writer
    BY DEF OpenFails, Connected, CancelParent
  <2>4. PeerCloses \/ PeerStops \/ ConnectionBreaks \/ CloseEndpoint \/ FinishRelease
          => writer' = writer
    BY DEF PeerCloses, PeerStops, ConnectionBreaks, CloseEndpoint, FinishRelease
  <2>5. Over \/ Stuck \/ UNCHANGED vars => writer' = writer
    BY DEF Over, Stuck, vars
  <2>6. SpawnTasks => writer' = "reading"
    BY DEF SpawnTasks
  <2>7. WriterStep \/ PeerTakes \/ CountOut \/ NotifyWaiters
    BY <1>4, <2>1, <2>2, <2>3, <2>4, <2>5, <2>6 DEF Next
  <2> QED
    BY <1>4, <2>7, WriterExits
<1> QED
  BY <1>3, <1>4

(* The writer never leaves a peer that is there and still listens without  *)
(* a Close frame or the end of the stream, whatever made it leave: the     *)
(* drain token, the end of its input, or a send that failed.               *)
THEOREM PeersAreTold == Spec => []PeerIsTold
<1>1. Init => PeerIsTold
  BY DEF Init, PeerIsTold
<1>2. IInv => Flags
  BY DEF IInv
<1> QED
  BY <1>1, <1>2, TellingKept, InductiveInvariant, PTL DEF Spec

=============================================================================
