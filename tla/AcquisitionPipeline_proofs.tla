---------------------- MODULE AcquisitionPipeline_proofs ----------------------
(***************************************************************************)
(* Proofs about AcquisitionPipeline for any number of modules, any block   *)
(* size and any number of frames: type correctness, the order of teardown, *)
(* the lifetime of the queue and the archive, and the reported failures.   *)
(*                                                                         *)
(* None of the invariants the runs check is inductive.  Lifecycle says, for*)
(* every place of the main thread, which source threads exist, which of    *)
(* them have reached which state, and whether the worker is alive; it is   *)
(* inductive together with TypeOK, and the safety invariants follow.       *)
(***************************************************************************)
EXTENDS AcquisitionPipeline, TLAPS

-----------------------------------------------------------------------------
(* The inductive invariant. *)

\* Nothing of source i runs: no thread, no flag, no hardware.
Off(i) == thread[i] = "none" /\ ~srcRunning[i] /\ ~device[i]

\* Which sources the main thread has started, or stopped again, so far.
StartedAsFarAs(i) ==
  /\ main \in {"idle", "startWorker", "stopQueue", "joinWorker", "finish"} => Off(i)
  /\ main = "startDevice" /\ i >= cursor => Off(i)
  /\ main = "launch" /\ i >= cursor => thread[i] = "none" /\ ~srcRunning[i]
  /\ main = "launch" /\ i > cursor => ~device[i]
  /\ main \in {"stopSource", "joinSource"} /\ i < cursor => Off(i)
  /\ main = "joinSource" /\ i = cursor => ~srcRunning[i]
  /\ main \in {"startDevice", "launch"} /\ i < cursor => thread[i] # "none"
  /\ main \in {"startEngine", "running"} => thread[i] # "none"

SourceLifecycle == \A i \in Sources : StartedAsFarAs(i)

\* What a source thread has written, by where it is.
WrittenSoFar(i) ==
  /\ thread[i] \in {"none", "done"} => ~srcRunning[i]
  /\ main \in StartingStates \cup {"running"} =>
       /\ thread[i] \in {"test", "read", "push", "setState", "clear"} => srcRunning[i]
       /\ thread[i] = "setState" => readError[i]
       /\ thread[i] \in {"clear", "done"} => srcState[i] = "Error"
  /\ readError[i] => thread[i] = "setState" \/ srcState[i] = "Error"
  /\ thread[i] = "none" => srcState[i] # "Running"

ThreadLifecycle == \A i \in Sources : WrittenSoFar(i)

\* The worker, the manager's flag, the queue and the archive, by where the main
\* thread is.
SessionLifecycle ==
  /\ main \in {"idle", "startWorker", "finish"} => worker = "none"
  /\ main \in {"startDevice", "launch", "startEngine", "running", "stopSource", "joinSource"}
       => worker \in {"wait", "frames", "archive"}
  /\ managerRunning => main \in {"startEngine", "running", "stopSource", "joinSource"}
  /\ main \in {"startEngine", "running"} => managerRunning
  /\ main \in StartingStates \cup {"running", "stopSource", "joinSource", "stopQueue"}
       => ~queueStopped
  /\ main # "idle" => archiveOpen
  /\ main = "idle" /\ lastStates # <<>> => lastStates = srcState

Lifecycle == SourceLifecycle /\ ThreadLifecycle /\ SessionLifecycle

\* A block that waits to be pushed is not empty and was counted when it was read.
PendingBlocks ==
  \A i \in Sources : /\ pending[i] <= nextFrame[i]
                     /\ thread[i] = "push" => pending[i] # 0

IInv == TypeOK /\ PendingBlocks /\ Lifecycle

-----------------------------------------------------------------------------
(* The proof that it is inductive. *)

USE DEF mainVars, sourceVars, queueVars, workerVars, slotVars, archiveVars

\* The first module that is started is a module.
LEMMA FirstSource == 1 \in Sources
BY PipelineAssumption DEF PipelineAssumption, Sources

\* After every module but the last there is another one.
LEMMA NextSource == \A i \in Sources : i # SourceCount => i + 1 \in Sources
BY PipelineAssumption DEF PipelineAssumption, Sources

\* The initial states satisfy the invariant.
LEMMA InitIInv == Init => IInv
<1> SUFFICES ASSUME Init PROVE IInv
  OBVIOUS
<1> USE FirstSource DEF Init
<1>1. MainTypeOK /\ QueueTypeOK
  BY DEF MainTypeOK, QueueTypeOK, MainStates
<1>2. StorageTypeOK
  BY DEF StorageTypeOK
<1>3. FlagTypeOK
  BY DEF FlagTypeOK
<1>4. SourceTypeOK
  BY PipelineAssumption DEF PipelineAssumption, SourceTypeOK, ThreadStates, SourceStates
<1>5. WorkerTypeOK
  BY DEF WorkerTypeOK, WorkerStates, NoWork
<1>6. PendingBlocks
  BY DEF PendingBlocks
<1>7. Lifecycle
  BY DEF Lifecycle, SourceLifecycle, StartedAsFarAs, ThreadLifecycle, WrittenSoFar,
         SessionLifecycle, Off, StartingStates
<1> QED
  BY <1>1, <1>2, <1>3, <1>4, <1>5, <1>6, <1>7 DEF IInv, TypeOK

-----------------------------------------------------------------------------
(* Which actions write which part of the state. *)

\* Only the actions of the main thread write the main thread's state.
LEMMA MainFootprint ==
  [Next]_vars => \/ UNCHANGED mainVars
                 \/ StartSession \/ StartRefused \/ MainProgress
                 \/ OnTimerProcess \/ OnTimerSourceLost \/ UserStop
BY DEF vars, Next, SourceThread, WorkerThread, TestRunning, ReceiveBlock, ReadFails, NoData,
       PushBlock, SetFinalState, ClearRunning, PopAnchor, PopBlock, AssembleFrame,
       WriteArchive, WorkerExit

\* The sources' state is written by their threads and where they are started or stopped.
LEMMA SourceFootprint ==
  [Next]_vars => \/ UNCHANGED sourceVars
                 \/ StartSession \/ LaunchSource \/ StopSource \/ JoinSource
                 \/ \E i \in Sources : SourceThread(i)
BY DEF vars, Next, MainProgress, WorkerThread, StartRefused, StartWorker, StartEngine,
       OnTimerProcess, OnTimerSourceLost, UserStop, StopQueue, JoinWorker, Finish, PopAnchor,
       PopBlock, AssembleFrame, WriteArchive, WorkerExit

\* The queue is written where it is cleared, pushed to and popped.
LEMMA QueueFootprint ==
  [Next]_vars => \/ UNCHANGED queue
                 \/ StartSession \/ StartDevice \/ PopAnchor \/ PopBlock
                 \/ \E i \in Sources : PushBlock(i)
BY DEF vars, Next, MainProgress, WorkerThread, SourceThread, StartRefused, StartWorker,
       LaunchSource, DeviceFails, LaunchThread, ThreadFails, StartEngine, OnTimerProcess,
       OnTimerSourceLost, UserStop, StopSource, JoinSource, StopQueue, JoinWorker, Finish,
       TestRunning, ReceiveBlock, ReadFails, NoData, SetFinalState, ClearRunning,
       AssembleFrame, WriteArchive, WorkerExit

\* The worker's state is written by the worker and where it is started or joined.
LEMMA WorkerFootprint ==
  [Next]_vars => \/ UNCHANGED workerVars
                 \/ StartSession \/ StartWorker \/ JoinWorker \/ WorkerThread
BY DEF vars, Next, MainProgress, SourceThread, StartRefused, LaunchSource, StartDevice,
       DeviceFails, LaunchThread, ThreadFails, StartEngine, OnTimerProcess,
       OnTimerSourceLost, UserStop, StopSource, JoinSource, StopQueue, Finish, TestRunning,
       ReceiveBlock, ReadFails, NoData, PushBlock, SetFinalState, ClearRunning

\* Only the worker writes frames to the storage and the archive.
LEMMA StorageFootprint ==
  [Next]_vars => \/ UNCHANGED <<slot, archiveNext, archiveHeld>>
                 \/ StartSession \/ AssembleFrame \/ WriteArchive
BY DEF vars, Next, MainProgress, WorkerThread, SourceThread, StartRefused, StartWorker,
       LaunchSource, StartDevice, DeviceFails, LaunchThread, ThreadFails, StartEngine,
       OnTimerProcess, OnTimerSourceLost, UserStop, StopSource, JoinSource, StopQueue,
       JoinWorker, Finish, TestRunning, ReceiveBlock, ReadFails, NoData, PushBlock,
       SetFinalState, ClearRunning, PopAnchor, PopBlock, WorkerExit

-----------------------------------------------------------------------------
(* Types. *)

\* Every step keeps the types of the flags.
LEMMA NextFlagTypeOK == IInv /\ [Next]_vars => FlagTypeOK'
<1> SUFFICES ASSUME IInv, [Next]_vars PROVE FlagTypeOK'
  OBVIOUS
<1> USE DEF IInv, TypeOK, FlagTypeOK
<1>1. CASE StartSession \/ StartRefused \/ StartWorker \/ StartEngine
  BY <1>1, Zenon DEF StartSession, StartRefused, StartWorker, StartEngine
<1>2. CASE LaunchSource
  BY <1>2, Zenon DEF LaunchSource, StartDevice, DeviceFails, LaunchThread, ThreadFails
<1>3. CASE StopSource \/ JoinSource \/ StopQueue \/ JoinWorker \/ Finish
  BY <1>3, Zenon DEF StopSource, JoinSource, StopQueue, JoinWorker, Finish
<1>4. CASE OnTimerProcess \/ OnTimerSourceLost \/ UserStop
  BY <1>4, Zenon DEF OnTimerProcess, OnTimerSourceLost, UserStop, ReadyAfterRead
<1>5. ASSUME NEW i \in Sources, SourceThread(i) PROVE FlagTypeOK'
  BY <1>5 DEF SourceThread, TestRunning, ReceiveBlock, ReadFails, NoData, PushBlock,
         SetFinalState, ClearRunning
<1>6. CASE WorkerThread
  BY <1>6, Zenon DEF WorkerThread, PopAnchor, PopBlock, AssembleFrame, WriteArchive, WorkerExit
<1>7. CASE UNCHANGED vars
  BY <1>7 DEF vars
<1> QED
  BY <1>1, <1>2, <1>3, <1>4, <1>5, <1>6, <1>7
  DEF Next, MainProgress

\* Every step keeps the types of the main thread's state.
LEMMA NextMainTypeOK == IInv /\ [Next]_vars => MainTypeOK'
<1> SUFFICES ASSUME IInv, [Next]_vars PROVE MainTypeOK'
  OBVIOUS
<1> USE FirstSource, NextSource DEF IInv, TypeOK, MainTypeOK, MainStates
<1>1. CASE StartSession \/ StartRefused
  BY <1>1 DEF StartSession, StartRefused
<1>2. CASE StartWorker
  BY <1>2 DEF StartWorker, CleanupEntry
<1>3. CASE StartEngine
  BY <1>3 DEF StartEngine, CleanupEntry
<1>4. CASE StartDevice \/ DeviceFails
  BY <1>4 DEF StartDevice, DeviceFails, AfterFailedSource
<1>5. CASE LaunchThread
  BY <1>5 DEF LaunchThread
<1>6. CASE ThreadFails
  BY <1>6 DEF ThreadFails, AfterFailedSource
<1>7. CASE OnTimerProcess
  BY <1>7 DEF OnTimerProcess, StorageTypeOK
<1>8. CASE OnTimerSourceLost \/ UserStop
  BY <1>8 DEF OnTimerSourceLost, UserStop, CleanupEntry
<1>9. CASE StopSource
  BY <1>9 DEF StopSource
<1>10. CASE JoinSource
  BY <1>10 DEF JoinSource
<1>11. CASE StopQueue \/ JoinWorker
  BY <1>11 DEF StopQueue, JoinWorker
<1>12. CASE Finish
  BY <1>12 DEF Finish, SourceTypeOK
<1>13. CASE UNCHANGED mainVars
  BY <1>13 DEF mainVars
<1> QED
  BY MainFootprint, <1>1, <1>2, <1>3, <1>4, <1>5, <1>6, <1>7, <1>8, <1>9, <1>10, <1>11, <1>12, <1>13
  DEF MainProgress, LaunchSource

\* Every step keeps the types of the source threads' state.
LEMMA NextSourceTypeOK == IInv /\ [Next]_vars => SourceTypeOK'
<1> SUFFICES ASSUME IInv, [Next]_vars PROVE SourceTypeOK'
  OBVIOUS
<1> USE PipelineAssumption
    DEF PipelineAssumption, IInv, TypeOK, MainTypeOK, SourceTypeOK, ThreadStates, SourceStates
<1>1. CASE StartSession
  BY <1>1 DEF StartSession
<1>2. CASE StartDevice \/ DeviceFails
  BY <1>2 DEF StartDevice, DeviceFails
<1>3. CASE LaunchThread
  BY <1>3 DEF LaunchThread
<1>4. CASE ThreadFails
  BY <1>4 DEF ThreadFails
<1>5. CASE StopSource
  BY <1>5 DEF StopSource
<1>6. CASE JoinSource
  BY <1>6 DEF JoinSource, StateAfterStop
<1>7. ASSUME NEW i \in Sources, TestRunning(i) PROVE SourceTypeOK'
  BY <1>7 DEF TestRunning
<1>8. ASSUME NEW i \in Sources, ReceiveBlock(i) PROVE SourceTypeOK'
  BY <1>8 DEF ReceiveBlock, NextAfterBlock
<1>9. ASSUME NEW i \in Sources, ReadFails(i) PROVE SourceTypeOK'
  BY <1>9 DEF ReadFails
<1>10. ASSUME NEW i \in Sources, NoData(i) PROVE SourceTypeOK'
  BY <1>10 DEF NoData
<1>11. ASSUME NEW i \in Sources, PushBlock(i) PROVE SourceTypeOK'
  BY <1>11 DEF PushBlock
<1>12. ASSUME NEW i \in Sources, SetFinalState(i) PROVE SourceTypeOK'
  BY <1>12 DEF SetFinalState, StateAtExit
<1>13. ASSUME NEW i \in Sources, ClearRunning(i) PROVE SourceTypeOK'
  BY <1>13 DEF ClearRunning
<1>14. CASE UNCHANGED sourceVars
  BY <1>14 DEF sourceVars
<1> QED
  BY SourceFootprint, <1>1, <1>2, <1>3, <1>4, <1>5, <1>6, <1>7, <1>8, <1>9, <1>10, <1>11, <1>12, <1>13, <1>14
  DEF SourceThread, LaunchSource

\* Every step keeps what is known of the blocks that wait to be pushed.
LEMMA NextPendingBlocks == IInv /\ [Next]_vars => PendingBlocks'
<1> SUFFICES ASSUME IInv, [Next]_vars PROVE PendingBlocks'
  OBVIOUS
<1> USE PipelineAssumption
    DEF PipelineAssumption, IInv, TypeOK, MainTypeOK, SourceTypeOK, PendingBlocks
<1>1. CASE StartSession
  BY <1>1 DEF StartSession
<1>2. CASE StartDevice \/ DeviceFails
  BY <1>2 DEF StartDevice, DeviceFails
<1>3. CASE LaunchThread
  BY <1>3 DEF LaunchThread
<1>4. CASE ThreadFails
  BY <1>4 DEF ThreadFails
<1>5. CASE StopSource
  BY <1>5 DEF StopSource
<1>6. CASE JoinSource
  BY <1>6 DEF JoinSource, StateAfterStop
<1>7. ASSUME NEW i \in Sources, TestRunning(i) PROVE PendingBlocks'
  BY <1>7 DEF TestRunning
<1>8. ASSUME NEW i \in Sources, ReceiveBlock(i) PROVE PendingBlocks'
  BY <1>8 DEF ReceiveBlock, NextAfterBlock
<1>9. ASSUME NEW i \in Sources, ReadFails(i) PROVE PendingBlocks'
  BY <1>9 DEF ReadFails
<1>10. ASSUME NEW i \in Sources, NoData(i) PROVE PendingBlocks'
  BY <1>10 DEF NoData
<1>11. ASSUME NEW i \in Sources, PushBlock(i) PROVE PendingBlocks'
  BY <1>11 DEF PushBlock
<1>12. ASSUME NEW i \in Sources, SetFinalState(i) PROVE PendingBlocks'
  BY <1>12 DEF SetFinalState, StateAtExit
<1>13. ASSUME NEW i \in Sources, ClearRunning(i) PROVE PendingBlocks'
  BY <1>13 DEF ClearRunning
<1>14. CASE UNCHANGED sourceVars
  BY <1>14 DEF sourceVars
<1> QED
  BY SourceFootprint, <1>1, <1>2, <1>3, <1>4, <1>5, <1>6, <1>7, <1>8, <1>9, <1>10, <1>11, <1>12, <1>13, <1>14
  DEF SourceThread, LaunchSource

\* Every step keeps the type of the queue.
LEMMA NextQueueTypeOK == IInv /\ [Next]_vars => QueueTypeOK'
<1> SUFFICES ASSUME IInv, [Next]_vars PROVE QueueTypeOK'
  OBVIOUS
<1> USE DEF IInv, TypeOK, QueueTypeOK
<1>1. CASE StartSession
  BY <1>1 DEF StartSession
<1>2. CASE StartDevice
  <2> DEFINE anchor == [kind |-> "anchor", module |-> cursor, first |-> AnchorFirst(cursor)]
  <2>1. anchor \in Events
    BY DEF MainTypeOK, SourceTypeOK, AnchorFirst, Events, AnchorEvents
  <2> QED
    BY <1>2, <2>1 DEF StartDevice
<1>3. CASE PopAnchor
  BY <1>3 DEF PopAnchor
<1>4. CASE PopBlock
  <2>1. queue # <<>> /\ queue' = Tail(queue)
    BY <1>4 DEF PopBlock
  <2> QED
    BY <2>1
<1>5. ASSUME NEW i \in Sources, PushBlock(i) PROVE QueueTypeOK'
  <2> DEFINE block == [kind |-> "block", module |-> i,
                       first |-> nextFrame[i] - pending[i], count |-> pending[i]]
  <2>1. block \in Events
    BY <1>5, PipelineAssumption
    DEF PipelineAssumption, PushBlock, SourceTypeOK, PendingBlocks, Events, BlockEvents
  <2> QED
    BY <1>5, <2>1 DEF PushBlock
<1>6. CASE UNCHANGED queue
  BY <1>6
<1> QED
  BY QueueFootprint, <1>1, <1>2, <1>3, <1>4, <1>5, <1>6

\* The head of a queue that is not empty is an event with a module and a first sample.
LEMMA HeadEvent ==
  IInv /\ queue # <<>> =>
    /\ Head(queue) \in Events
    /\ Head(queue).module \in Sources /\ Head(queue).first \in Nat
    /\ Head(queue).kind = "block" => Head(queue).count \in Nat \ {0}
<1> SUFFICES ASSUME IInv, queue # <<>>
             PROVE  /\ Head(queue) \in Events
                    /\ Head(queue).module \in Sources /\ Head(queue).first \in Nat
                    /\ Head(queue).kind = "block" => Head(queue).count \in Nat \ {0}
  OBVIOUS
<1>1. Head(queue) \in Events
  BY DEF IInv, TypeOK, QueueTypeOK
<1> QED
  BY <1>1 DEF Events, AnchorEvents, BlockEvents

\* Every step keeps the types of the worker's state.
LEMMA NextWorkerTypeOK == IInv /\ [Next]_vars => WorkerTypeOK'
<1> SUFFICES ASSUME IInv, [Next]_vars PROVE WorkerTypeOK'
  OBVIOUS
<1> USE FirstSource, HeadEvent DEF IInv, TypeOK, WorkerTypeOK, WorkerStates
<1>1. CASE StartSession
  BY <1>1 DEF StartSession, NoWork
<1>2. CASE StartWorker
  BY <1>2 DEF StartWorker
<1>3. CASE JoinWorker
  BY <1>3 DEF JoinWorker
<1>4. CASE PopAnchor
  BY <1>4 DEF PopAnchor
<1>5. CASE PopBlock
  BY <1>5 DEF PopBlock, BlockEnd
<1>6. CASE AssembleFrame
  BY <1>6 DEF AssembleFrame, Advance, BlockDone, NoWork
<1>7. CASE WriteArchive
  BY <1>7 DEF WriteArchive, Advance, BlockDone, NoWork
<1>8. CASE WorkerExit
  BY <1>8 DEF WorkerExit
<1>9. CASE UNCHANGED workerVars
  BY <1>9 DEF workerVars
<1> QED
  BY WorkerFootprint, <1>1, <1>2, <1>3, <1>4, <1>5, <1>6, <1>7, <1>8, <1>9
  DEF WorkerThread

\* Every step keeps the types of the storage and the archive.
LEMMA NextStorageTypeOK == IInv /\ [Next]_vars => StorageTypeOK'
<1> SUFFICES ASSUME IInv, [Next]_vars PROVE StorageTypeOK'
  OBVIOUS
<1> USE DEF IInv, TypeOK, WorkerTypeOK, StorageTypeOK
<1>1. CASE StartSession
  BY <1>1 DEF StartSession
<1>2. CASE AssembleFrame
  BY <1>2 DEF AssembleFrame
<1>3. CASE WriteArchive
  BY <1>3 DEF WriteArchive
<1>4. CASE UNCHANGED <<slot, archiveNext, archiveHeld>>
  BY <1>4 DEF slotVars
<1> QED
  BY StorageFootprint, <1>1, <1>2, <1>3, <1>4

-----------------------------------------------------------------------------
(* Lifecycles. *)

\* Every step keeps which sources have been started or stopped again.
LEMMA NextSourceLifecycle == IInv /\ [Next]_vars => SourceLifecycle'
<1> SUFFICES ASSUME IInv, [Next]_vars, NEW j \in Sources PROVE StartedAsFarAs(j)'
  BY DEF SourceLifecycle
<1>0. StartedAsFarAs(j) /\ StartedAsFarAs(j) /\ WrittenSoFar(j)
  BY DEF IInv, Lifecycle, SourceLifecycle, ThreadLifecycle
<1> USE <1>0 DEF IInv, TypeOK, MainTypeOK, SourceTypeOK, Lifecycle, SessionLifecycle, StartedAsFarAs, WrittenSoFar,
        Off, Sources
<1>1. CASE StartSession
  BY <1>1 DEF StartSession
<1>2. CASE StartRefused
  BY <1>2 DEF StartRefused
<1>3. CASE StartWorker
  BY <1>3 DEF StartWorker, CleanupEntry
<1>4. CASE StartEngine
  BY <1>4 DEF StartEngine, CleanupEntry
<1>5. CASE StartDevice
  BY <1>5 DEF StartDevice
<1>6. CASE DeviceFails
  BY <1>6 DEF DeviceFails, AfterFailedSource
<1>7. CASE LaunchThread
  BY <1>7 DEF LaunchThread
<1>8. CASE ThreadFails
  BY <1>8 DEF ThreadFails, AfterFailedSource
<1>9. CASE OnTimerProcess
  BY <1>9 DEF OnTimerProcess
<1>10. CASE OnTimerSourceLost \/ UserStop
  BY <1>10 DEF OnTimerSourceLost, UserStop, CleanupEntry
<1>11. CASE StopSource
  BY <1>11 DEF StopSource
<1>12. CASE JoinSource
  BY <1>12 DEF JoinSource, StateAfterStop
<1>13. CASE StopQueue
  BY <1>13 DEF StopQueue
<1>14. CASE JoinWorker
  BY <1>14 DEF JoinWorker
<1>15. CASE Finish
  BY <1>15 DEF Finish
<1>16. ASSUME NEW i \in Sources, TestRunning(i) PROVE StartedAsFarAs(j)'
  BY <1>16 DEF TestRunning, KeepRunning
<1>17. ASSUME NEW i \in Sources, ReceiveBlock(i) PROVE StartedAsFarAs(j)'
  BY <1>17 DEF ReceiveBlock
<1>18. ASSUME NEW i \in Sources, ReadFails(i) PROVE StartedAsFarAs(j)'
  BY <1>18 DEF ReadFails
<1>19. ASSUME NEW i \in Sources, NoData(i) PROVE StartedAsFarAs(j)'
  BY <1>19 DEF NoData
<1>20. ASSUME NEW i \in Sources, PushBlock(i) PROVE StartedAsFarAs(j)'
  BY <1>20 DEF PushBlock
<1>21. ASSUME NEW i \in Sources, SetFinalState(i) PROVE StartedAsFarAs(j)'
  BY <1>21 DEF SetFinalState, StateAtExit
<1>22. ASSUME NEW i \in Sources, ClearRunning(i) PROVE StartedAsFarAs(j)'
  BY <1>22 DEF ClearRunning
<1>23. CASE UNCHANGED <<mainVars, sourceVars>>
  BY <1>23
<1>24. WorkerThread \/ UNCHANGED vars => UNCHANGED <<mainVars, sourceVars>>
  BY DEF vars, WorkerThread, PopAnchor, PopBlock, AssembleFrame, WriteArchive, WorkerExit
<1> QED
  BY <1>1, <1>2, <1>3, <1>4, <1>5, <1>6, <1>7, <1>8, <1>9, <1>10, <1>11, <1>12, <1>13, <1>14, <1>15, <1>16, <1>17, <1>18, <1>19, <1>20, <1>21, <1>22, <1>23, <1>24
  DEF Next, MainProgress, LaunchSource, SourceThread

\* Every step keeps what the source threads have written so far.
LEMMA NextThreadLifecycle == IInv /\ [Next]_vars => ThreadLifecycle'
<1> SUFFICES ASSUME IInv, [Next]_vars, NEW j \in Sources PROVE WrittenSoFar(j)'
  BY DEF ThreadLifecycle
<1>0. WrittenSoFar(j) /\ StartedAsFarAs(j) /\ WrittenSoFar(j)
  BY DEF IInv, Lifecycle, SourceLifecycle, ThreadLifecycle
<1> USE <1>0 DEF IInv, TypeOK, MainTypeOK, SourceTypeOK, StartedAsFarAs, WrittenSoFar, Off,
        StartingStates
<1>1. CASE StartSession
  BY <1>1 DEF StartSession
<1>2. CASE StartRefused
  BY <1>2 DEF StartRefused
<1>3. CASE StartWorker
  BY <1>3 DEF StartWorker, CleanupEntry
<1>4. CASE StartEngine
  BY <1>4 DEF StartEngine, CleanupEntry
<1>5. CASE StartDevice
  BY <1>5 DEF StartDevice
<1>6. CASE DeviceFails
  BY <1>6 DEF DeviceFails, AfterFailedSource
<1>7. CASE LaunchThread
  BY <1>7 DEF LaunchThread
<1>8. CASE ThreadFails
  BY <1>8 DEF ThreadFails, AfterFailedSource
<1>9. CASE OnTimerProcess
  BY <1>9 DEF OnTimerProcess
<1>10. CASE OnTimerSourceLost \/ UserStop
  BY <1>10 DEF OnTimerSourceLost, UserStop, CleanupEntry
<1>11. CASE StopSource
  BY <1>11 DEF StopSource
<1>12. CASE JoinSource
  BY <1>12 DEF JoinSource, StateAfterStop
<1>13. CASE StopQueue
  BY <1>13 DEF StopQueue
<1>14. CASE JoinWorker
  BY <1>14 DEF JoinWorker
<1>15. CASE Finish
  BY <1>15 DEF Finish
<1>16. ASSUME NEW i \in Sources, TestRunning(i) PROVE WrittenSoFar(j)'
  BY <1>16 DEF TestRunning, KeepRunning
<1>17. ASSUME NEW i \in Sources, ReceiveBlock(i) PROVE WrittenSoFar(j)'
  BY <1>17 DEF ReceiveBlock
<1>18. ASSUME NEW i \in Sources, ReadFails(i) PROVE WrittenSoFar(j)'
  BY <1>18 DEF ReadFails
<1>19. ASSUME NEW i \in Sources, NoData(i) PROVE WrittenSoFar(j)'
  BY <1>19 DEF NoData
<1>20. ASSUME NEW i \in Sources, PushBlock(i) PROVE WrittenSoFar(j)'
  BY <1>20 DEF PushBlock
<1>21. ASSUME NEW i \in Sources, SetFinalState(i) PROVE WrittenSoFar(j)'
  BY <1>21 DEF SetFinalState, StateAtExit
<1>22. ASSUME NEW i \in Sources, ClearRunning(i) PROVE WrittenSoFar(j)'
  BY <1>22 DEF ClearRunning
<1>23. CASE UNCHANGED <<mainVars, sourceVars>>
  BY <1>23
<1>24. WorkerThread \/ UNCHANGED vars => UNCHANGED <<mainVars, sourceVars>>
  BY DEF vars, WorkerThread, PopAnchor, PopBlock, AssembleFrame, WriteArchive, WorkerExit
<1> QED
  BY <1>1, <1>2, <1>3, <1>4, <1>5, <1>6, <1>7, <1>8, <1>9, <1>10, <1>11, <1>12, <1>13, <1>14, <1>15, <1>16, <1>17, <1>18, <1>19, <1>20, <1>21, <1>22, <1>23, <1>24
  DEF Next, MainProgress, LaunchSource, SourceThread

\* Every step keeps the order in which worker, queue and archive are torn down.
LEMMA NextSessionLifecycle == IInv /\ [Next]_vars => SessionLifecycle'
<1> SUFFICES ASSUME IInv, [Next]_vars PROVE SessionLifecycle'
  OBVIOUS
<1> USE DEF IInv, TypeOK, MainTypeOK, WorkerTypeOK, Lifecycle, SessionLifecycle, StartingStates,
        WorkerStates
<1>1. CASE StartSession
  BY <1>1 DEF StartSession
<1>2. CASE StartRefused
  BY <1>2 DEF StartRefused
<1>3. CASE StartWorker
  BY <1>3 DEF StartWorker, CleanupEntry
<1>4. CASE StartEngine
  BY <1>4 DEF StartEngine, CleanupEntry
<1>5. CASE StartDevice
  BY <1>5 DEF StartDevice
<1>6. CASE DeviceFails
  BY <1>6 DEF DeviceFails, AfterFailedSource
<1>7. CASE LaunchThread
  BY <1>7 DEF LaunchThread
<1>8. CASE ThreadFails
  BY <1>8 DEF ThreadFails, AfterFailedSource
<1>9. CASE OnTimerProcess
  BY <1>9 DEF OnTimerProcess
<1>10. CASE OnTimerSourceLost \/ UserStop
  BY <1>10 DEF OnTimerSourceLost, UserStop, CleanupEntry
<1>11. CASE StopSource
  BY <1>11 DEF StopSource
<1>12. CASE JoinSource
  BY <1>12 DEF JoinSource, StateAfterStop
<1>13. CASE StopQueue
  BY <1>13 DEF StopQueue
<1>14. CASE JoinWorker
  BY <1>14 DEF JoinWorker
<1>15. CASE Finish
  BY <1>15 DEF Finish
<1>16. CASE PopAnchor
  BY <1>16 DEF PopAnchor
<1>17. CASE PopBlock
  BY <1>17 DEF PopBlock
<1>18. CASE AssembleFrame
  BY <1>18 DEF AssembleFrame, Advance, BlockDone
<1>19. CASE WriteArchive
  BY <1>19 DEF WriteArchive, Advance, BlockDone
<1>20. CASE WorkerExit
  BY <1>20 DEF WorkerExit, QueueClosed
<1>21. ASSUME NEW i \in Sources, SourceThread(i) PROVE SessionLifecycle'
  BY <1>21 DEF SourceThread, TestRunning, ReceiveBlock, ReadFails, NoData, PushBlock,
         SetFinalState, ClearRunning, ThreadLifecycle, WrittenSoFar, SourceLifecycle, StartedAsFarAs, Off
<1>22. CASE UNCHANGED vars
  BY <1>22 DEF vars
<1> QED
  BY <1>1, <1>2, <1>3, <1>4, <1>5, <1>6, <1>7, <1>8, <1>9, <1>10, <1>11, <1>12, <1>13, <1>14, <1>15, <1>16, <1>17, <1>18, <1>19, <1>20, <1>21, <1>22
  DEF Next, MainProgress, LaunchSource, WorkerThread

-----------------------------------------------------------------------------
(* Theorems. *)

\* The inductive invariant holds in every reachable state of the pipeline.
THEOREM IInvHolds == Spec => []IInv
<1>1. IInv /\ [Next]_vars => IInv'
  BY NextFlagTypeOK, NextMainTypeOK, NextSourceTypeOK, NextPendingBlocks, NextQueueTypeOK,
     NextWorkerTypeOK, NextStorageTypeOK, NextSourceLifecycle, NextThreadLifecycle,
     NextSessionLifecycle
  DEF IInv, TypeOK, Lifecycle
<1> QED
  BY InitIInv, <1>1, PTL DEF Spec

\* Type correctness of the pipeline.
THEOREM PipelineTypes == Spec => []TypeOK
BY IInvHolds, PTL DEF IInv

\* cleanup() destroys the runtime only when every thread has been joined and
\* every device is off, for any number of modules and any failure of start().
THEOREM TeardownIsClean == Spec => []JoinedBeforeTeardown
<1>1. IInv => JoinedBeforeTeardown
  BY DEF IInv, Lifecycle, SourceLifecycle, StartedAsFarAs, SessionLifecycle, Off,
         JoinedBeforeTeardown
<1> QED
  BY IInvHolds, <1>1, PTL

\* The queue and the archive are open whenever a thread may still use them.
THEOREM ResourcesAreOpen == Spec => []ResourcesOutliveTheirUsers
<1>1. IInv => ResourcesOutliveTheirUsers
  BY DEF IInv, TypeOK, MainTypeOK, MainStates, Lifecycle, SourceLifecycle, StartedAsFarAs,
         SessionLifecycle, StartingStates, Off, ResourcesOutliveTheirUsers
<1> QED
  BY IInvHolds, <1>1, PTL

\* A module seen not to run while the server runs is seen in error.
THEOREM LostSourceIsError == Spec => []StoppedByItselfIsError
<1>1. IInv => StoppedByItselfIsError
  BY DEF IInv, TypeOK, SourceTypeOK, ThreadStates, Lifecycle, SourceLifecycle, StartedAsFarAs,
         ThreadLifecycle, WrittenSoFar, StoppedByItselfIsError
<1> QED
  BY IInvHolds, <1>1, PTL

\* The states kept after a session tell the modules that failed.
THEOREM FailuresAreKept == Spec => []FailureReported
<1>1. IInv => FailureReported
  BY DEF IInv, Lifecycle, SourceLifecycle, StartedAsFarAs, ThreadLifecycle, WrittenSoFar,
         SessionLifecycle, Off, FailureReported
<1> QED
  BY IInvHolds, <1>1, PTL

-----------------------------------------------------------------------------
(* The way of the samples through the pipeline, for any number of modules, any
   block size and any number of frames: the reader knows the anchor of every
   block, the publisher gets no frame twice, and, where calculations do not fail,
   every sample that was acquired is stored, in its order.

   The samples of a module that are on their way stand in one line: those of the
   block the worker has taken, those of the blocks in the queue, and those of the
   block its thread is about to push.  Chain says that the blocks of the queue
   follow one another without a gap, and Contiguous that they begin where the
   worker will be and end where the thread goes on.                           *)

-----------------------------------------------------------------------------
(* The queue as a chain of blocks. *)

IsBlockOf(e, i) == e.kind = "block" /\ e.module = i

\* The blocks of module i in a queue follow one another from a sample to another:
\* reach[k] is the sample reached after k events.
Chain(q, i, from, to) ==
  \E reach \in [0..Len(q) -> Nat] :
    /\ reach[0] = from /\ reach[Len(q)] = to
    /\ \A k \in 0..Len(q) : reach[k] <= to
    /\ \A k \in 1..Len(q) :
         IF IsBlockOf(q[k], i)
         THEN q[k].first = reach[k - 1] /\ reach[k] = reach[k - 1] + q[k].count
         ELSE reach[k] = reach[k - 1]

\* An empty queue leads nowhere.
LEMMA EmptyChain ==
  ASSUME NEW i, NEW from \in Nat, NEW to \in Nat
  PROVE  Chain(<<>>, i, from, to) <=> from = to
<1>1. ASSUME from = to PROVE Chain(<<>>, i, from, to)
  <2> DEFINE reach == [k \in 0..0 |-> from]
  <2>1. reach \in [0..0 -> Nat] /\ reach[0] = from
    OBVIOUS
  <2>2. Len(<<>>) = 0 /\ 1..0 = {}
    OBVIOUS
  <2> HIDE DEF reach
  <2> QED
    BY <1>1, <2>1, <2>2 DEF Chain
<1>2. ASSUME Chain(<<>>, i, from, to) PROVE from = to
  BY <1>2 DEF Chain
<1> QED
  BY <1>1, <1>2

\* An event at the end of the queue is a block that follows, or of another module.
LEMMA ChainPushed ==
  ASSUME NEW q \in Seq(Events), NEW e \in Events, NEW i, NEW from \in Nat, NEW to \in Nat,
         NEW further \in Nat, Chain(q, i, from, to),
         IF IsBlockOf(e, i) THEN e.first = to /\ further = to + e.count ELSE further = to
  PROVE  Chain(Append(q, e), i, from, further)
<1> DEFINE n == Len(q)
<1>1. PICK reach \in [0..n -> Nat] :
        /\ reach[0] = from /\ reach[n] = to
        /\ \A k \in 0..n : reach[k] <= to
        /\ \A k \in 1..n :
             IF IsBlockOf(q[k], i)
             THEN q[k].first = reach[k - 1] /\ reach[k] = reach[k - 1] + q[k].count
             ELSE reach[k] = reach[k - 1]
  BY DEF Chain
<1>2. n \in Nat /\ to <= further
  BY DEF IsBlockOf, Events, BlockEvents, AnchorEvents
<1> DEFINE p == Append(q, e)
           longer == [k \in 0..n + 1 |-> IF k = n + 1 THEN further ELSE reach[k]]
<1>3. /\ Len(p) = n + 1 /\ p[n + 1] = e
      /\ \A k \in 1..n : p[k] = q[k]
  OBVIOUS
<1>4. longer \in [0..n + 1 -> Nat]
  BY <1>1, <1>2
<1>5. /\ longer[n + 1] = further
      /\ \A k \in 0..n : longer[k] = reach[k]
  BY <1>2
<1> HIDE DEF longer, p
<1>6. longer[0] = from /\ \A k \in 0..n + 1 : longer[k] <= further
  <2>1. 0 \in 0..n /\ \A k \in 0..n + 1 : k = n + 1 \/ k \in 0..n
    BY <1>2
  <2>2. \A k \in 0..n : longer[k] <= further
    BY <1>1, <1>2, <1>5
  <2> QED
    BY <1>1, <1>5, <2>1, <2>2
<1>7. ASSUME NEW k \in 1..n + 1
      PROVE  IF IsBlockOf(p[k], i)
             THEN p[k].first = longer[k - 1] /\ longer[k] = longer[k - 1] + p[k].count
             ELSE longer[k] = longer[k - 1]
  <2>1. CASE k = n + 1
    BY <1>1, <1>2, <1>3, <1>5, <2>1
  <2>2. CASE k # n + 1
    <3>1. k \in 1..n /\ k - 1 \in 0..n /\ k \in 0..n
      BY <1>2, <2>2
    <3> QED
      BY <1>1, <1>3, <1>5, <3>1
  <2> QED
    BY <2>1, <2>2
<1>8. Chain(p, i, from, further)
  BY <1>3, <1>4, <1>5, <1>6, <1>7 DEF Chain
<1> QED
  BY <1>8 DEF p

\* The event at the head of the queue is the first block, or of another module.
LEMMA ChainPopped ==
  ASSUME NEW q \in Seq(Events), q # <<>>, NEW i, NEW from \in Nat, NEW to \in Nat,
         Chain(q, i, from, to)
  PROVE  LET e == Head(q)
         IN IF IsBlockOf(e, i)
            THEN e.first = from /\ Chain(Tail(q), i, from + e.count, to)
            ELSE Chain(Tail(q), i, from, to)
<1> DEFINE n == Len(q)
           e == q[1]
           t == Tail(q)
<1>1. PICK reach \in [0..n -> Nat] :
        /\ reach[0] = from /\ reach[n] = to
        /\ \A k \in 0..n : reach[k] <= to
        /\ \A k \in 1..n :
             IF IsBlockOf(q[k], i)
             THEN q[k].first = reach[k - 1] /\ reach[k] = reach[k - 1] + q[k].count
             ELSE reach[k] = reach[k - 1]
  BY DEF Chain
<1>2. /\ n \in Nat /\ n >= 1 /\ Head(q) = e
      /\ Len(t) = n - 1
      /\ \A k \in 1..n - 1 : t[k] = q[k + 1]
  OBVIOUS
<1> DEFINE rest == [k \in 0..n - 1 |-> reach[k + 1]]
<1>3. \A k \in 0..n - 1 : k + 1 \in 0..n /\ k + 1 \in 1..n
  BY <1>2
<1>4. /\ rest \in [0..n - 1 -> Nat]
      /\ \A k \in 0..n - 1 : rest[k] = reach[k + 1] /\ rest[k] <= to
      /\ rest[0] = reach[1] /\ rest[n - 1] = to
  BY <1>1, <1>2, <1>3
<1> HIDE DEF rest, t
<1>5. ASSUME NEW k \in 1..n - 1
      PROVE  IF IsBlockOf(t[k], i)
             THEN t[k].first = rest[k - 1] /\ rest[k] = rest[k - 1] + t[k].count
             ELSE rest[k] = rest[k - 1]
  <2>1. /\ k + 1 \in 1..n /\ k - 1 \in 0..n - 1 /\ k \in 0..n - 1
        /\ (k + 1) - 1 = k /\ (k - 1) + 1 = k
    BY <1>2
  <2>2. rest[k] = reach[k + 1] /\ rest[k - 1] = reach[k] /\ t[k] = q[k + 1]
    BY <1>2, <1>4, <2>1
  <2> QED
    BY <1>1, <2>1, <2>2
<1>6. Chain(t, i, reach[1], to)
  BY <1>2, <1>4, <1>5 DEF Chain
<1>7. IF IsBlockOf(e, i) THEN e.first = from /\ reach[1] = from + e.count ELSE reach[1] = from
  BY <1>1, <1>2
<1> QED
  BY <1>2, <1>6, <1>7 DEF t

\* A chain does not go back.
LEMMA ChainForward ==
  ASSUME NEW q \in Seq(Events), NEW i, NEW from \in Nat, NEW to \in Nat, Chain(q, i, from, to)
  PROVE  from <= to
<1>1. 0 \in 0..Len(q)
  OBVIOUS
<1> QED
  BY <1>1 DEF Chain
-----------------------------------------------------------------------------
(* The invariants. *)

\* Frames are numbered upwards, and the buffer and the publisher have had them in
\* this order.
FramesInOrder ==
  /\ delivered <= slot /\ slot < nextNumber
  /\ slotReady => delivered < slot

\* The reader knows the anchor of module i, or will when it has read n events.
AnnouncedBy(n, i) ==
  \/ anchored[i] = 0
  \/ \E j \in 1..n : queue[j].kind = "anchor" /\ queue[j].module = i

\* Every stream begins with sample 0 in a session, and with its anchor.
AnchorsAreFirst ==
  /\ \A i \in Sources : anchored[i] \in {NoAnchor, 0}
  /\ \A k \in 1..Len(queue) : queue[k].kind = "anchor" => queue[k].first = 0
  /\ \A i \in Sources : main \in StartingStates /\ thread[i] = "none" => nextFrame[i] = 0
AnchorsComeFirst ==
  /\ \A k \in 1..Len(queue) : queue[k].kind = "block" => AnnouncedBy(k - 1, queue[k].module)
  /\ \A i \in Sources :
       thread[i] # "none" \/ (main = "launch" /\ cursor = i) => AnnouncedBy(Len(queue), i)

\* The sample of module i the worker will be at after the block it has taken, and
\* the one after the last its thread has pushed.
Taken(i) == IF worker \in {"frames", "archive"} /\ work.module = i THEN work.end ELSE held[i]
Pushed(i) == nextFrame[i] - pending[i]

\* The worker is inside a block, at the sample after the last it has stored.
WorkInOrder ==
  /\ worker \in {"frames", "archive"} => work.next < work.end
  /\ worker = "frames" => held[work.module] = work.next
  /\ worker = "archive" => held[work.module] = work.next + 1

\* Nothing is on its way when nobody works on it.
NothingLeftBehind ==
  /\ worker \in {"none", "exited"} => queue = <<>>
  /\ \A i \in Sources : thread[i] # "push" => pending[i] = 0

Contiguous == \A i \in Sources : Chain(queue, i, Taken(i), Pushed(i))

SamplesInOrder == WorkInOrder /\ NothingLeftBehind /\ Contiguous

\* The last record of the archive is the last frame, or the one before while it is
\* being written.
RecordsInOrder ==
  /\ main = "idle" => ~archiveOpen
  /\ worker = "archive" => nextNumber # 0 /\ \A i \in Sources : held[i] # 0
  /\ archiveNext # 0 /\ archiveOpen =>
       /\ \A i \in Sources : archiveHeld[i] # 0
       /\ IF worker = "archive"
          THEN /\ nextNumber = archiveNext + 1
               /\ held = [archiveHeld EXCEPT ![work.module] = @ + 1]
          ELSE nextNumber = archiveNext /\ held = archiveHeld

-----------------------------------------------------------------------------
(* The order of frames. *)

USE DEF mainVars, sourceVars, queueVars, workerVars, slotVars, archiveVars

\* What the invariant says of a thread that exists, and of the source being started.
LEMMA ThreadsAreServed ==
  ASSUME IInv
  PROVE  /\ \A i \in Sources : thread[i] # "none" =>
              /\ ~queueStopped /\ worker \in {"wait", "frames", "archive"}
              /\ main \notin {"idle", "startWorker", "finish"}
         /\ main = "startDevice" => ~queueStopped /\ thread[cursor] = "none"
         /\ cursor \in Sources
BY DEF IInv, TypeOK, MainTypeOK, MainStates, Lifecycle, SourceLifecycle, StartedAsFarAs,
       SessionLifecycle, StartingStates, Off, Sources

\* Frames are numbered by the worker and delivered by the timer.
LEMMA FrameFootprint ==
  [Next]_vars => \/ UNCHANGED <<delivered, slot, slotReady, nextNumber>>
                 \/ StartSession \/ OnTimerProcess \/ AssembleFrame
BY DEF vars, Next, MainProgress, WorkerThread, SourceThread, StartRefused, StartWorker,
       LaunchSource, StartDevice, DeviceFails, LaunchThread, ThreadFails, StartEngine,
       OnTimerSourceLost, UserStop, StopSource, JoinSource, StopQueue, JoinWorker, Finish,
       TestRunning, ReceiveBlock, ReadFails, NoData, PushBlock, SetFinalState, ClearRunning,
       PopAnchor, PopBlock, WriteArchive, WorkerExit

\* Every step keeps the order of the frames.
LEMMA NextFramesInOrder == IInv /\ FramesInOrder /\ [Next]_vars => FramesInOrder'
<1> SUFFICES ASSUME IInv, FramesInOrder, [Next]_vars PROVE FramesInOrder'
  OBVIOUS
<1>1. delivered \in Int /\ slot \in Int /\ nextNumber \in Nat
  BY DEF IInv, TypeOK, MainTypeOK, StorageTypeOK, WorkerTypeOK
<1>2. CASE StartSession
  BY <1>2 DEF StartSession, FramesInOrder
<1>3. CASE OnTimerProcess
  <2>1. delivered' = slot /\ slot' = slot /\ slotReady' = FALSE /\ nextNumber' = nextNumber
    BY <1>3 DEF OnTimerProcess, ReadyAfterRead
  <2> QED
    BY <1>1, <2>1 DEF FramesInOrder
<1>4. CASE AssembleFrame
  <2>1. /\ delivered' = delivered
        /\ \/ UNCHANGED <<nextNumber, slot, slotReady>>
           \/ nextNumber' = nextNumber + 1 /\ UNCHANGED <<slot, slotReady>>
           \/ nextNumber' = nextNumber + 1 /\ slot' = nextNumber
    BY <1>4 DEF AssembleFrame
  <2> QED
    BY <1>1, <2>1 DEF FramesInOrder
<1>5. CASE UNCHANGED <<delivered, slot, slotReady, nextNumber>>
  BY <1>5 DEF FramesInOrder
<1> QED
  BY FrameFootprint, <1>2, <1>3, <1>4, <1>5

-----------------------------------------------------------------------------
(* Anchors. *)

\* Only a source that runs, or is being started, waits for its anchor.
Awaits(i) == thread[i] # "none" \/ (main = "launch" /\ cursor = i)

\* The steps that queue or read an event, and those that leave both sides alone.
LEMMA AnchorFootprint ==
  ASSUME IInv, [Next]_vars
  PROVE  \/ StartSession \/ StartDevice \/ PopAnchor \/ PopBlock
         \/ \E i \in Sources : PushBlock(i)
         \/ UNCHANGED <<queue, anchored>> /\ \A i \in Sources : Awaits(i)' => Awaits(i)
<1> USE DEF Awaits
<1>1. CASE StartRefused \/ StartWorker \/ StartEngine \/ OnTimerProcess
  BY <1>1 DEF StartRefused, StartWorker, StartEngine, OnTimerProcess, CleanupEntry
<1>2. CASE OnTimerSourceLost \/ UserStop \/ StopSource \/ StopQueue \/ JoinWorker \/ Finish
  BY <1>2 DEF OnTimerSourceLost, UserStop, StopSource, StopQueue, JoinWorker, Finish, CleanupEntry
<1>3. CASE DeviceFails \/ ThreadFails
  BY <1>3 DEF DeviceFails, ThreadFails, AfterFailedSource
<1>4. CASE LaunchThread
  BY <1>4 DEF LaunchThread, IInv, TypeOK, SourceTypeOK
<1>5. CASE JoinSource
  BY <1>5 DEF JoinSource, IInv, TypeOK, SourceTypeOK
<1>6. ASSUME NEW i \in Sources, SourceThread(i), ~PushBlock(i)
      PROVE  UNCHANGED <<queue, anchored>> /\ \A j \in Sources : Awaits(j)' => Awaits(j)
  BY <1>6
  DEF SourceThread, TestRunning, ReceiveBlock, ReadFails, NoData, SetFinalState, ClearRunning,
      IInv, TypeOK, SourceTypeOK
<1>7. CASE AssembleFrame \/ WriteArchive \/ WorkerExit
  BY <1>7 DEF AssembleFrame, WriteArchive, WorkerExit
<1>8. CASE UNCHANGED vars
  BY <1>8 DEF vars
<1> QED
  BY <1>1, <1>2, <1>3, <1>4, <1>5, <1>6, <1>7, <1>8
  DEF Next, MainProgress, LaunchSource, WorkerThread

\* Every step keeps that a stream begins with sample 0.
LEMMA NextAnchorsAreFirst ==
  IInv /\ AnchorsAreFirst /\ [Next]_vars => AnchorsAreFirst'
<1> SUFFICES ASSUME IInv, AnchorsAreFirst, [Next]_vars PROVE AnchorsAreFirst'
  OBVIOUS
<1>1. queue \in Seq(Events) /\ anchored \in [Sources -> Nat \cup {NoAnchor}]
  BY DEF IInv, TypeOK, QueueTypeOK, WorkerTypeOK
<1>2. \A k \in 1..Len(queue)' : queue'[k].kind = "anchor" => queue'[k].first = 0
  <2>1. CASE StartSession
    BY <2>1 DEF StartSession
  <2>2. CASE StartDevice
    <3> DEFINE anchor == [kind |-> "anchor", module |-> cursor, first |-> AnchorFirst(cursor)]
    <3>1. anchor.first = 0
      BY <2>2, ThreadsAreServed DEF StartDevice, AnchorsAreFirst, AnchorFirst, StartingStates
    <3>2. queue' = Append(queue, anchor)
      BY <2>2, ThreadsAreServed DEF StartDevice
    <3> HIDE DEF anchor
    <3> QED
      BY <1>1, <3>1, <3>2 DEF AnchorsAreFirst
  <2>3. CASE PopAnchor \/ PopBlock
    <3>1. queue # <<>> /\ queue' = Tail(queue)
      BY <2>3 DEF PopAnchor, PopBlock
    <3> QED
      BY <1>1, <3>1 DEF AnchorsAreFirst
  <2>4. ASSUME NEW i \in Sources, PushBlock(i)
        PROVE  \A k \in 1..Len(queue)' : queue'[k].kind = "anchor" => queue'[k].first = 0
    <3> DEFINE block == [kind |-> "block", module |-> i,
                         first |-> nextFrame[i] - pending[i], count |-> pending[i]]
    <3>1. block.kind # "anchor" /\ queue' \in {queue, Append(queue, block)}
      BY <2>4 DEF PushBlock
    <3> HIDE DEF block
    <3> QED
      BY <1>1, <3>1 DEF AnchorsAreFirst
  <2>5. CASE UNCHANGED queue
    BY <2>5 DEF AnchorsAreFirst
  <2> QED
    BY QueueFootprint, <2>1, <2>2, <2>3, <2>4, <2>5
<1>3. \A i \in Sources : anchored'[i] \in {NoAnchor, 0}
  <2>1. CASE StartSession
    BY <2>1 DEF StartSession
  <2>2. CASE PopAnchor
    <3>1. Head(queue) = queue[1] /\ 1 \in 1..Len(queue)
      BY <1>1, <2>2 DEF PopAnchor
    <3>2. Head(queue).first = 0
      BY <2>2, <3>1 DEF PopAnchor, AnchorsAreFirst
    <3> QED
      BY <1>1, <2>2, <3>2 DEF PopAnchor, AnchorsAreFirst
  <2>3. CASE UNCHANGED anchored
    BY <2>3 DEF AnchorsAreFirst
  <2>4. PopBlock \/ StartDevice => UNCHANGED anchored
    BY DEF PopBlock, StartDevice
  <2>5. ASSUME NEW i \in Sources, PushBlock(i) PROVE UNCHANGED anchored
    BY <2>5 DEF PushBlock
  <2> QED
    BY AnchorFootprint, <2>1, <2>2, <2>3, <2>4, <2>5
<1>4. ASSUME NEW j \in Sources, main' \in StartingStates, thread'[j] = "none"
      PROVE  nextFrame'[j] = 0
  <2> USE <1>4 DEF StartingStates, IInv, TypeOK, SourceTypeOK, AnchorsAreFirst
  <2>1. CASE StartSession
    BY <2>1 DEF StartSession
  <2>2. CASE StartRefused \/ OnTimerProcess \/ StopQueue \/ JoinWorker \/ Finish \/ StopSource
    BY <2>2 DEF StartRefused, OnTimerProcess, StopQueue, JoinWorker, Finish, StopSource
  <2>3. CASE StartWorker \/ StartEngine \/ OnTimerSourceLost \/ UserStop
    BY <2>3 DEF StartWorker, StartEngine, OnTimerSourceLost, UserStop, CleanupEntry
  <2>4. CASE LaunchSource
    BY <2>4 DEF LaunchSource, StartDevice, DeviceFails, LaunchThread, ThreadFails,
                AfterFailedSource
  <2>5. CASE JoinSource
    BY <2>5 DEF JoinSource
  <2>6. ASSUME NEW i \in Sources, SourceThread(i) PROVE nextFrame'[j] = 0
    BY <2>6 DEF SourceThread, TestRunning, ReceiveBlock, ReadFails, NoData, PushBlock,
                SetFinalState, ClearRunning
  <2>7. CASE UNCHANGED <<mainVars, sourceVars>>
    BY <2>7
  <2>8. WorkerThread \/ UNCHANGED vars => UNCHANGED <<mainVars, sourceVars>>
    BY DEF vars, WorkerThread, PopAnchor, PopBlock, AssembleFrame, WriteArchive, WorkerExit
  <2> QED
    BY <2>1, <2>2, <2>3, <2>4, <2>5, <2>6, <2>7, <2>8 DEF Next, MainProgress
<1> QED
  BY <1>2, <1>3, <1>4 DEF AnchorsAreFirst

\* What n events announce is announced by the rest of them when the first is popped.
LEMMA AnnouncedPopped ==
  ASSUME IInv, AnchorsAreFirst, PopAnchor \/ PopBlock,
         NEW n \in 1..Len(queue), NEW i \in Sources, AnnouncedBy(n, i)
  PROVE  AnnouncedBy(n - 1, i)'
<1>1. /\ queue \in Seq(Events) /\ queue # <<>> /\ queue' = Tail(queue)
      /\ anchored \in [Sources -> Nat \cup {NoAnchor}]
  BY DEF IInv, TypeOK, QueueTypeOK, WorkerTypeOK, PopAnchor, PopBlock
<1>2. Head(queue) = queue[1] /\ \A j \in 2..Len(queue) : queue'[j - 1] = queue[j]
  BY <1>1
<1>3. CASE anchored[i] = 0
  <2>1. CASE PopAnchor
    BY <1>1, <1>2, <1>3, <2>1, HeadEvent DEF PopAnchor, AnchorsAreFirst, AnnouncedBy
  <2>2. CASE PopBlock
    BY <1>3, <2>2 DEF PopBlock, AnnouncedBy
  <2> QED
    BY <2>1, <2>2
<1>4. ASSUME NEW j \in 1..n, queue[j].kind = "anchor", queue[j].module = i
      PROVE  AnnouncedBy(n - 1, i)'
  <2>1. CASE j = 1
    <3>1. PopAnchor
      BY <1>2, <1>4, <2>1 DEF PopBlock
    <3>2. anchored'[i] = 0
      BY <1>1, <1>2, <1>4, <2>1, <3>1 DEF PopAnchor, AnchorsAreFirst
    <3> QED
      BY <3>2 DEF AnnouncedBy
  <2>2. CASE j # 1
    <3>1. j \in 2..Len(queue) /\ j - 1 \in 1..n - 1
      BY <1>1, <2>2
    <3>2. queue'[j - 1].kind = "anchor" /\ queue'[j - 1].module = i
      BY <1>2, <1>4, <3>1
    <3> QED
      BY <3>1, <3>2 DEF AnnouncedBy
  <2> QED
    BY <2>1, <2>2
<1> QED
  BY <1>3, <1>4 DEF AnnouncedBy

\* Every step keeps anchors before the blocks they announce.
LEMMA NextAnchorsComeFirst ==
  ASSUME IInv, AnchorsAreFirst, AnchorsComeFirst, [Next]_vars
  PROVE  AnchorsComeFirst'
<1>1. queue \in Seq(Events)
  BY DEF IInv, TypeOK, QueueTypeOK
<1>2. CASE StartSession
  BY <1>2 DEF StartSession, AnchorsComeFirst
<1>3. CASE StartDevice
  <2> DEFINE e == [kind |-> "anchor", module |-> cursor, first |-> AnchorFirst(cursor)]
  <2>1. e \in Events /\ e.kind = "anchor" /\ e.module = cursor
    BY DEF IInv, TypeOK, MainTypeOK, SourceTypeOK, AnchorFirst, Events, AnchorEvents
  <2>2. queue' = Append(queue, e) /\ anchored' = anchored
    BY <1>3, ThreadsAreServed DEF StartDevice
  <2> HIDE DEF e
  <2>3. /\ Len(queue)' = Len(queue) + 1 /\ queue'[Len(queue) + 1] = e
        /\ \A k \in 1..Len(queue) : queue'[k] = queue[k]
        /\ Len(queue) \in Nat
    BY <1>1, <2>2
  <2>4. ASSUME NEW k \in 1..Len(queue)', queue'[k].kind = "block"
        PROVE  AnnouncedBy(k - 1, queue[k].module)'
    <3>1. k \in 1..Len(queue) /\ k - 1 \in 0..Len(queue) /\ queue'[k] = queue[k]
      BY <2>1, <2>3, <2>4
    <3>2. AnnouncedBy(k - 1, queue[k].module)
      BY <2>4, <3>1 DEF AnchorsComeFirst
    <3>3. (\E j \in 1..k - 1 : queue[j].kind = "anchor" /\ queue[j].module = queue[k].module)
          \/ anchored[queue[k].module] = 0
      BY <3>2 DEF AnnouncedBy
    <3>4. \A j \in 1..k - 1 : queue'[j] = queue[j]
      BY <2>3, <3>1
    <3> QED
      BY <2>2, <3>1, <3>3, <3>4 DEF AnnouncedBy
  <2>5. ASSUME NEW i \in Sources, Awaits(i)' PROVE AnnouncedBy(Len(queue), i)'
    <3>1. CASE i = cursor
      BY <2>1, <2>3, <3>1 DEF AnnouncedBy
    <3>2. CASE i # cursor
      <4>1. Awaits(i)
        BY <1>3, <2>5, <3>2 DEF StartDevice, Awaits
      <4>2. AnnouncedBy(Len(queue), i)
        BY <4>1 DEF Awaits, AnchorsComeFirst
      <4> QED
        BY <2>2, <2>3, <4>2 DEF AnnouncedBy
    <3> QED
      BY <3>1, <3>2
  <2> QED
    BY <2>4, <2>5 DEF AnchorsComeFirst, Awaits
<1>4. ASSUME NEW i \in Sources, PushBlock(i) PROVE AnchorsComeFirst'
  <2> DEFINE e == [kind |-> "block", module |-> i,
                   first |-> nextFrame[i] - pending[i], count |-> pending[i]]
  <2>1. e.module = i /\ queue' = Append(queue, e) /\ anchored' = anchored
    BY <1>4, ThreadsAreServed DEF PushBlock
  <2> HIDE DEF e
  <2>2. /\ Len(queue)' = Len(queue) + 1 /\ queue'[Len(queue) + 1] = e
        /\ \A k \in 1..Len(queue) : queue'[k] = queue[k]
        /\ Len(queue) \in Nat
    BY <1>1, <2>1
  <2>3. AnnouncedBy(Len(queue), i)
    BY <1>4 DEF PushBlock, AnchorsComeFirst
  <2>4. ASSUME NEW n \in 0..Len(queue), NEW j, AnnouncedBy(n, j)
        PROVE  (AnnouncedBy(n, j))'
    BY <2>1, <2>2, <2>4 DEF AnnouncedBy
  <2>5. ASSUME NEW k \in 1..Len(queue)', queue'[k].kind = "block"
        PROVE  AnnouncedBy(k - 1, queue[k].module)'
    <3>1. CASE k = Len(queue) + 1
      BY <2>1, <2>2, <2>3, <3>1 DEF AnnouncedBy
    <3>2. CASE k # Len(queue) + 1
      <4>1. k \in 1..Len(queue) /\ k - 1 \in 0..Len(queue) /\ queue'[k] = queue[k]
        BY <2>2, <3>2
      <4>2. AnnouncedBy(k - 1, queue[k].module)
        BY <2>5, <4>1 DEF AnchorsComeFirst
      <4>3. \A j \in 1..k - 1 : queue'[j] = queue[j]
        BY <2>2, <4>1
      <4> QED
        BY <2>1, <4>1, <4>2, <4>3 DEF AnnouncedBy
    <3> QED
      BY <3>1, <3>2
  <2>6. ASSUME NEW j \in Sources, Awaits(j)' PROVE AnnouncedBy(Len(queue), j)'
    <3>1. Awaits(j)
      BY <1>4, <2>6 DEF PushBlock, Awaits, IInv, TypeOK, SourceTypeOK
    <3>2. AnnouncedBy(Len(queue), j)
      BY <3>1 DEF Awaits, AnchorsComeFirst
    <3> QED
      BY <2>1, <2>2, <3>2 DEF AnnouncedBy
  <2> QED
    BY <2>5, <2>6 DEF AnchorsComeFirst, Awaits
<1>5. CASE PopAnchor \/ PopBlock
  <2>1. queue # <<>> /\ queue' = Tail(queue) /\ UNCHANGED <<thread, main, cursor>>
    BY <1>5 DEF PopAnchor, PopBlock
  <2>2. /\ Len(queue) \in Nat \ {0} /\ Len(queue)' = Len(queue) - 1
        /\ \A k \in 1..Len(queue)' : queue'[k] = queue[k + 1] /\ k + 1 \in 1..Len(queue)
    BY <1>1, <2>1
  <2>3. ASSUME NEW n \in 1..Len(queue), NEW i \in Sources, AnnouncedBy(n, i)
        PROVE  \/ anchored'[i] = 0
               \/ \E j \in 1..n - 1 : queue'[j].kind = "anchor" /\ queue'[j].module = i
    <3>1. AnnouncedBy(n - 1, i)'
      BY <1>5, <2>3, AnnouncedPopped
    <3> QED
      BY <3>1 DEF AnnouncedBy
  <2>4. ASSUME NEW k \in 1..Len(queue)', queue'[k].kind = "block"
        PROVE  AnnouncedBy(k - 1, queue[k].module)'
    <3>1. AnnouncedBy(k, queue[k + 1].module)
      <4>1. k + 1 \in 1..Len(queue) /\ (k + 1) - 1 = k /\ queue[k + 1].kind = "block"
        BY <2>2, <2>4
      <4> QED
        BY <4>1 DEF AnchorsComeFirst
    <3>2. queue[k + 1].module \in Sources /\ k \in 1..Len(queue)
      BY <1>1, <2>2 DEF Events, AnchorEvents, BlockEvents
    <3>3. queue'[k] = queue[k + 1]
      BY <2>2
    <3> QED
      BY <2>3, <3>1, <3>2, <3>3 DEF AnnouncedBy
  <2>5. ASSUME NEW i \in Sources, Awaits(i)' PROVE AnnouncedBy(Len(queue), i)'
    <3>1. AnnouncedBy(Len(queue), i)
      BY <2>1, <2>5 DEF Awaits, AnchorsComeFirst
    <3> QED
      BY <2>2, <2>3, <3>1 DEF AnnouncedBy
  <2> QED
    BY <2>4, <2>5 DEF AnchorsComeFirst, Awaits
<1>6. CASE UNCHANGED <<queue, anchored>> /\ \A i \in Sources : Awaits(i)' => Awaits(i)
  BY <1>6 DEF AnchorsComeFirst, Awaits, AnnouncedBy
<1> QED
  BY AnchorFootprint, <1>2, <1>3, <1>4, <1>5, <1>6

\* What holds of the order of frames and anchors in every state.
OrderInv == IInv /\ FramesInOrder /\ AnchorsAreFirst /\ AnchorsComeFirst

\* The initial states satisfy the invariants of the order.
LEMMA InitOrder == Init => OrderInv
<1> SUFFICES ASSUME Init PROVE OrderInv
  OBVIOUS
<1>1. FramesInOrder /\ AnchorsAreFirst
  BY DEF Init, FramesInOrder, AnchorsAreFirst
<1>2. AnchorsComeFirst
  BY DEF Init, AnchorsComeFirst
<1> QED
  BY InitIInv, <1>1, <1>2 DEF OrderInv

\* The invariants of the order hold in every reachable state.
LEMMA OrderHolds == Spec => []OrderInv
<1>1. IInv /\ FramesInOrder /\ [Next]_vars => FramesInOrder'
  BY NextFramesInOrder
<1>2. IInv /\ AnchorsAreFirst /\ [Next]_vars => AnchorsAreFirst'
  BY NextAnchorsAreFirst
<1>3. IInv /\ AnchorsAreFirst /\ AnchorsComeFirst /\ [Next]_vars => AnchorsComeFirst'
  BY NextAnchorsComeFirst
<1> QED
  BY InitOrder, IInvHolds, <1>1, <1>2, <1>3, PTL DEF OrderInv, Spec

\* The timer publishes no frame twice: the frame in the buffer is newer than the
\* last one it has taken.
THEOREM NoFrameTwice == Spec => []NoFrameDeliveredTwice
<1>1. OrderInv => NoFrameDeliveredTwice
  BY DEF OrderInv, FramesInOrder, NoFrameDeliveredTwice
<1> QED
  BY OrderHolds, <1>1, PTL

\* DataStreamReader never meets a block whose stream has no anchor.
THEOREM AnchorsBeforeBlocks == Spec => []BlocksHaveAnchors
<1>1. ASSUME OrderInv PROVE BlocksHaveAnchors
  <2>1. queue \in Seq(Events)
    BY <1>1 DEF OrderInv, IInv, TypeOK, QueueTypeOK
  <2>2. DOMAIN queue = 1..Len(queue) /\ Len(queue) \in Nat
    BY <2>1
  <2> SUFFICES ASSUME NEW k \in 1..Len(queue), queue[k].kind = "block",
                      NEW i, i = queue[k].module
               PROVE  \/ anchored[i] # NoAnchor /\ anchored[i] <= queue[k].first
                      \/ \E j \in 1..(k - 1) : queue[j].kind = "anchor" /\ queue[j].module = i
                                               /\ queue[j].first <= queue[k].first
    BY <2>2 DEF BlocksHaveAnchors
  <2>3. queue[k].first \in Nat
    BY <2>1 DEF Events, AnchorEvents, BlockEvents
  <2>4. AnnouncedBy(k - 1, i)
    BY <1>1 DEF OrderInv, AnchorsComeFirst
  <2>5. \A j \in 1..(k - 1) : queue[j].kind = "anchor" => queue[j].first = 0
    BY <1>1, <2>2 DEF OrderInv, AnchorsAreFirst
  <2> QED
    BY <2>3, <2>4, <2>5 DEF AnnouncedBy, NoAnchor
<1> QED
  BY OrderHolds, <1>1, PTL

-----------------------------------------------------------------------------
(* The samples, where no calculation fails. *)

SamplesInv == OrderInv /\ SamplesInOrder

\* The steps that move samples, and those that move none.
LEMMA SampleFootprint ==
  [Next]_vars => \/ UNCHANGED <<queue, worker, work, held, nextFrame, pending>>
                 \/ StartSession \/ StartWorker \/ StartDevice \/ JoinWorker \/ WorkerThread
                 \/ \E i \in Sources : ReceiveBlock(i) \/ PushBlock(i)
BY DEF vars, Next, MainProgress, SourceThread, StartRefused, LaunchSource, DeviceFails,
       LaunchThread, ThreadFails, StartEngine, OnTimerProcess, OnTimerSourceLost, UserStop,
       StopSource, JoinSource, StopQueue, Finish, TestRunning, ReadFails, NoData,
       SetFinalState, ClearRunning

\* The reader accepts the block at the head of the queue.
LEMMA HeadIsAccepted ==
  ASSUME SamplesInv, PopBlock
  PROVE  ReaderAccepts(Head(queue))
<1>1. /\ queue \in Seq(Events) /\ queue # <<>> /\ Head(queue).kind = "block"
      /\ Head(queue) = queue[1] /\ 1 \in 1..Len(queue)
  BY DEF SamplesInv, OrderInv, IInv, TypeOK, QueueTypeOK, PopBlock
<1>2. AnnouncedBy(1 - 1, Head(queue).module)
  BY <1>1 DEF SamplesInv, OrderInv, AnchorsComeFirst
<1>3. anchored[Head(queue).module] = 0
  BY <1>2 DEF AnnouncedBy
<1>4. Head(queue).first \in Nat
  BY <1>1, HeadEvent DEF SamplesInv, OrderInv
<1> QED
  BY <1>3, <1>4 DEF ReaderAccepts, NoAnchor

\* Taken and Pushed count samples.
LEMMA PlacesAreSamples ==
  ASSUME IInv, NEW i \in Sources
  PROVE  Taken(i) \in Nat /\ Pushed(i) \in Nat /\ Pushed(i) <= nextFrame[i]
BY PipelineAssumption
DEF PipelineAssumption, IInv, TypeOK, WorkerTypeOK, SourceTypeOK, PendingBlocks, Taken, Pushed

\* The block at the head of the queue goes on where the worker is, and the rest
\* of the queue where this block ends.
LEMMA HeadFollows ==
  ASSUME SamplesInv, worker = "wait", queue # <<>>, NEW i \in Sources
  PROVE  IF IsBlockOf(Head(queue), i)
         THEN /\ Head(queue).first = held[i]
              /\ Chain(Tail(queue), i, held[i] + Head(queue).count, Pushed(i))
         ELSE Chain(Tail(queue), i, held[i], Pushed(i))
<1>1. queue \in Seq(Events) /\ Taken(i) = held[i]
  BY DEF SamplesInv, OrderInv, IInv, TypeOK, QueueTypeOK, Taken
<1>2. Taken(i) \in Nat /\ Pushed(i) \in Nat /\ Chain(queue, i, Taken(i), Pushed(i))
  BY PlacesAreSamples DEF SamplesInv, OrderInv, SamplesInOrder, Contiguous
<1> QED
  BY <1>1, <1>2, ChainPopped

\* Every step keeps the worker where its block says it is.
LEMMA NextWorkInOrder ==
  ASSUME SamplesInv, [Next]_vars
  PROVE  WorkInOrder'
<1> USE DEF WorkInOrder
<1>0. WorkInOrder /\ work \in [module : Sources, next : Nat, end : Nat] /\ held \in [Sources -> Nat]
  BY DEF SamplesInv, SamplesInOrder, OrderInv, IInv, TypeOK, WorkerTypeOK
<1>1. CASE StartSession \/ StartWorker \/ JoinWorker
  <2>1. worker' \notin {"frames", "archive"}
    BY <1>1 DEF StartSession, StartWorker, JoinWorker, SamplesInv, OrderInv, IInv, Lifecycle,
                SessionLifecycle
  <2> QED
    BY <2>1
<1>2. CASE PopAnchor \/ WorkerExit
  BY <1>2 DEF PopAnchor, WorkerExit
<1>3. CASE PopBlock
  <2> DEFINE e == Head(queue)
  <2>1. /\ worker' = "frames" /\ held' = held
        /\ work'.module = e.module /\ work'.next = e.first /\ work'.end = e.first + e.count
    BY <1>3, HeadIsAccepted DEF PopBlock, BlockEnd
  <2>2. e.module \in Sources /\ e.first \in Nat /\ e.count \in Nat \ {0}
    BY <1>3, HeadEvent DEF PopBlock, SamplesInv, OrderInv
  <2>3. e.first = held[e.module]
    BY <1>3, <2>2, HeadFollows DEF PopBlock, IsBlockOf
  <2> HIDE DEF e
  <2> QED
    BY <2>1, <2>2, <2>3
<1>4. CASE AssembleFrame
  <2>1. held' = [held EXCEPT ![work.module] = work.next + 1] /\ worker = "frames"
    BY <1>4 DEF AssembleFrame
  <2>2. CASE Advance
    BY <1>0, <2>1, <2>2 DEF Advance, BlockDone
  <2>3. CASE BlockDone
    BY <2>3 DEF BlockDone
  <2>4. CASE worker' = "archive" /\ UNCHANGED work
    BY <1>0, <2>1, <2>4
  <2> QED
    BY <1>4, <2>2, <2>3, <2>4 DEF AssembleFrame
<1>5. CASE WriteArchive
  BY <1>0, <1>5 DEF WriteArchive, Advance, BlockDone
<1>6. CASE UNCHANGED workerVars
  BY <1>0, <1>6
<1> QED
  BY WorkerFootprint, <1>1, <1>2, <1>3, <1>4, <1>5, <1>6 DEF WorkerThread

\* Every step leaves nothing behind that nobody works on.
LEMMA NextNothingLeftBehind ==
  ASSUME SamplesInv, [Next]_vars
  PROVE  NothingLeftBehind'
<1>0. IInv /\ NothingLeftBehind /\ TypeOK
  BY DEF SamplesInv, SamplesInOrder, OrderInv, IInv
<1>1. worker' \in {"none", "exited"} => queue' = <<>>
  <2>1. CASE StartSession
    BY <2>1 DEF StartSession
  <2>2. CASE StartDevice
    BY <1>0, <2>2 DEF StartDevice, IInv, Lifecycle, SessionLifecycle
  <2>3. CASE PopAnchor \/ PopBlock
    BY <2>3 DEF PopAnchor, PopBlock
  <2>4. ASSUME NEW i \in Sources, PushBlock(i) PROVE worker' \notin {"none", "exited"}
    BY <1>0, <2>4, ThreadsAreServed DEF PushBlock
  <2>5. CASE UNCHANGED queue
    <3>1. CASE StartWorker \/ JoinWorker
      BY <1>0, <2>5, <3>1 DEF StartWorker, JoinWorker, NothingLeftBehind
    <3>2. CASE AssembleFrame \/ WriteArchive
      BY <3>2 DEF AssembleFrame, WriteArchive, Advance, BlockDone
    <3>3. CASE WorkerExit
      BY <2>5, <3>3 DEF WorkerExit, QueueClosed
    <3>4. CASE UNCHANGED worker
      BY <1>0, <2>5, <3>4 DEF NothingLeftBehind
    <3>5. UNCHANGED workerVars => UNCHANGED worker
      OBVIOUS
    <3> QED
      BY WorkerFootprint, <2>1, <2>3, <3>1, <3>2, <3>3, <3>4, <3>5 DEF WorkerThread
  <2> QED
    BY QueueFootprint, <2>1, <2>2, <2>3, <2>4, <2>5
<1>2. ASSUME NEW j \in Sources, thread'[j] # "push" PROVE pending'[j] = 0
  <2> USE <1>0, <1>2 DEF TypeOK, SourceTypeOK, NothingLeftBehind
  <2>1. CASE StartSession
    BY <2>1 DEF StartSession
  <2>2. CASE LaunchSource
    <3>1. pending' = pending /\ (thread' = thread \/ LaunchThread)
      BY <2>2 DEF LaunchSource, StartDevice, DeviceFails, LaunchThread, ThreadFails
    <3>2. CASE LaunchThread
      <4>1. cursor \in Sources /\ thread[cursor] = "none"
        BY <3>2 DEF LaunchThread, IInv, Lifecycle, SourceLifecycle, StartedAsFarAs, MainTypeOK,
                    Sources
      <4> QED
        BY <3>1, <3>2, <4>1 DEF LaunchThread
    <3> QED
      BY <3>1, <3>2
  <2>3. CASE StopSource \/ JoinSource
    BY <2>3 DEF StopSource, JoinSource
  <2>4. ASSUME NEW i \in Sources, SourceThread(i) PROVE pending'[j] = 0
    BY <2>4 DEF SourceThread, TestRunning, ReceiveBlock, ReadFails, NoData, PushBlock,
                SetFinalState, ClearRunning
  <2>5. CASE UNCHANGED sourceVars
    BY <2>5
  <2> QED
    BY SourceFootprint, <2>1, <2>2, <2>3, <2>4, <2>5
<1> QED
  BY <1>1, <1>2 DEF NothingLeftBehind


\* What an event pushed by module i, or announcing it, does to the chains.
LEMMA PushedFollows ==
  ASSUME SamplesInv, NEW e \in Events, NEW j \in Sources, queue' = Append(queue, e),
         Taken(j)' = Taken(j),
         IF IsBlockOf(e, j) THEN e.first = Pushed(j) /\ Pushed(j)' = Pushed(j) + e.count
         ELSE Pushed(j)' = Pushed(j)
  PROVE  Chain(queue, j, Taken(j), Pushed(j))'
<1> DEFINE t == Taken(j)
           u == Pushed(j)
           v == Pushed(j)'
<1>1. queue \in Seq(Events) /\ Chain(queue, j, t, u)
  BY DEF SamplesInv, OrderInv, IInv, TypeOK, QueueTypeOK, SamplesInOrder, Contiguous
<1>2. t \in Nat /\ u \in Nat
  BY PlacesAreSamples DEF SamplesInv, OrderInv
<1>3. v \in Nat
  BY <1>2 DEF IsBlockOf, Events, AnchorEvents, BlockEvents
<1>4. Chain(Append(queue, e), j, t, v)
  <2> HIDE DEF t, u, v
  <2>1. IF IsBlockOf(e, j) THEN e.first = u /\ v = u + e.count ELSE v = u
    BY DEF t, u, v
  <2> QED
    BY <1>1, <1>2, <1>3, <2>1, ChainPushed
<1>5. Chain(queue, j, Taken(j), Pushed(j))' <=> Chain(Append(queue, e), j, t, v)
  BY DEF Chain
<1> QED
  BY <1>4, <1>5

\* A step that leaves the queue and its ends alone keeps the chain.
LEMMA SameChain ==
  ASSUME SamplesInv, NEW j \in Sources, queue' = queue, Taken(j)' = Taken(j),
         Pushed(j)' = Pushed(j)
  PROVE  Chain(queue, j, Taken(j), Pushed(j))'
<1>1. Chain(queue, j, Taken(j), Pushed(j))
  BY DEF SamplesInv, SamplesInOrder, Contiguous
<1>2. Chain(queue, j, Taken(j), Pushed(j))' <=> Chain(queue, j, Taken(j), Pushed(j))
  BY DEF Chain
<1> QED
  BY <1>1, <1>2

\* Every step of the worker keeps the samples in one line.
LEMMA WorkerKeepsLine ==
  ASSUME SamplesInv, CalculationMayFail = FALSE, WorkerThread, NEW j \in Sources
  PROVE  Chain(queue, j, Taken(j), Pushed(j))'
<1>0. /\ WorkInOrder /\ work \in [module : Sources, next : Nat, end : Nat]
      /\ held \in [Sources -> Nat]
  BY DEF SamplesInv, SamplesInOrder, OrderInv, IInv, TypeOK, WorkerTypeOK
<1>1. Pushed(j)' = Pushed(j)
  BY DEF WorkerThread, PopAnchor, PopBlock, AssembleFrame, WriteArchive, WorkerExit, Pushed
<1>2. CASE PopAnchor \/ PopBlock
  <2> DEFINE e == Head(queue)
             u == Pushed(j)
  <2>1. worker = "wait" /\ queue # <<>> /\ queue' = Tail(queue) /\ held' = held
    BY <1>2 DEF PopAnchor, PopBlock
  <2>2. Chain(Tail(queue), j, IF IsBlockOf(e, j) THEN held[j] + e.count ELSE held[j], u)
    BY <2>1, HeadFollows
  <2>3. Taken(j)' = IF IsBlockOf(e, j) THEN held[j] + e.count ELSE held[j]
    <3>1. CASE PopAnchor
      BY <3>1 DEF PopAnchor, IsBlockOf, Taken
    <3>2. CASE PopBlock
      <4>1. /\ worker' = "frames" /\ work'.module = e.module
            /\ work'.end = e.first + e.count /\ e.kind = "block"
        BY <3>2, HeadIsAccepted DEF PopBlock, BlockEnd
      <4>2. IsBlockOf(e, j) => e.first = held[j]
        BY <2>1, HeadFollows
      <4> HIDE DEF e
      <4> QED
        BY <2>1, <4>1, <4>2 DEF IsBlockOf, Taken
    <3> QED
      BY <1>2, <3>1, <3>2
  <2> HIDE DEF e, u
  <2>4. Chain(queue', j, Taken(j)', u)
    BY <2>1, <2>2, <2>3
  <2>5. Chain(queue, j, Taken(j), Pushed(j))' <=> Chain(queue', j, Taken(j)', u)
    BY <1>1 DEF Chain, u
  <2> QED
    BY <2>4, <2>5
<1>3. CASE AssembleFrame
  <2>1. /\ worker = "frames" /\ held' = [held EXCEPT ![work.module] = work.next + 1]
        /\ queue' = queue
    BY <1>3 DEF AssembleFrame
  <2>2. Advance \/ (worker' = "archive" /\ UNCHANGED work)
    BY <1>3 DEF AssembleFrame
  <2>3. Taken(j)' = Taken(j)
    BY <1>0, <2>1, <2>2 DEF Advance, BlockDone, Taken, WorkInOrder
  <2> QED
    BY <1>1, <2>1, <2>3, SameChain
<1>4. CASE WriteArchive
  <2>1. worker = "archive" /\ held' = held /\ queue' = queue /\ Advance
    BY <1>4 DEF WriteArchive
  <2>2. Taken(j)' = Taken(j)
    BY <1>0, <2>1 DEF Advance, BlockDone, Taken, WorkInOrder
  <2> QED
    BY <1>1, <2>1, <2>2, SameChain
<1>5. CASE WorkerExit
  <2>1. Taken(j)' = Taken(j) /\ queue' = queue
    BY <1>5 DEF WorkerExit, Taken
  <2> QED
    BY <1>1, <2>1, SameChain
<1> QED
  BY <1>2, <1>3, <1>4, <1>5 DEF WorkerThread

\* Every step keeps the samples in one line.
LEMMA NextContiguous ==
  ASSUME SamplesInv, CalculationMayFail = FALSE, [Next]_vars
  PROVE  Contiguous'
<1> SUFFICES ASSUME NEW j \in Sources PROVE Chain(queue, j, Taken(j), Pushed(j))'
  BY DEF Contiguous
<1>0. /\ IInv /\ NothingLeftBehind
      /\ nextFrame \in [Sources -> Nat] /\ pending \in [Sources -> 0..BlockCapacity]
  BY DEF SamplesInv, SamplesInOrder, OrderInv, IInv, TypeOK, SourceTypeOK
<1>1. CASE StartSession
  <2>1. queue' = <<>> /\ Taken(j)' = 0 /\ Pushed(j)' = 0
    BY <1>1 DEF StartSession, Taken, Pushed
  <2>2. Chain(<<>>, j, 0, 0)
    BY EmptyChain
  <2>3. Chain(queue, j, Taken(j), Pushed(j))' <=> Chain(queue', j, Taken(j)', Pushed(j)')
    BY DEF Chain
  <2> QED
    BY <2>1, <2>2, <2>3
<1>2. CASE StartWorker \/ JoinWorker
  <2>1. /\ worker \notin {"frames", "archive"} /\ worker' \notin {"frames", "archive"}
        /\ UNCHANGED <<queue, held, nextFrame, pending>>
    BY <1>0, <1>2 DEF StartWorker, JoinWorker, IInv, Lifecycle, SessionLifecycle
  <2>2. Taken(j)' = Taken(j) /\ Pushed(j)' = Pushed(j)
    BY <2>1 DEF Taken, Pushed
  <2> QED
    BY <2>1, <2>2, SameChain
<1>3. CASE StartDevice
  <2> DEFINE e == [kind |-> "anchor", module |-> cursor, first |-> AnchorFirst(cursor)]
  <2>1. e \in Events /\ ~IsBlockOf(e, j)
    BY <1>0 DEF IInv, TypeOK, MainTypeOK, SourceTypeOK, AnchorFirst, Events, AnchorEvents,
                IsBlockOf
  <2>2. queue' = Append(queue, e)
    BY <1>0, <1>3, ThreadsAreServed DEF StartDevice
  <2>3. Taken(j)' = Taken(j) /\ Pushed(j)' = Pushed(j)
    BY <1>3 DEF StartDevice, Taken, Pushed
  <2> QED
    BY <2>1, <2>2, <2>3, PushedFollows
<1>4. CASE WorkerThread
  BY <1>4, WorkerKeepsLine
<1>5. ASSUME NEW i \in Sources, ReceiveBlock(i)
      PROVE  Chain(queue, j, Taken(j), Pushed(j))'
  <2>1. pending[i] = 0
    BY <1>0, <1>5 DEF ReceiveBlock, NothingLeftBehind
  <2>2. PICK n \in 1..BlockCapacity : /\ nextFrame' = [nextFrame EXCEPT ![i] = nextFrame[i] + n]
                                      /\ pending' = [pending EXCEPT ![i] = n]
    BY <1>5, Zenon DEF ReceiveBlock, NextAfterBlock
  <2>3. Pushed(j)' = Pushed(j)
    BY <1>0, <2>1, <2>2 DEF Pushed
  <2>4. Taken(j)' = Taken(j) /\ queue' = queue
    BY <1>5 DEF ReceiveBlock, Taken
  <2> QED
    BY <2>3, <2>4, SameChain
<1>6. ASSUME NEW i \in Sources, PushBlock(i)
      PROVE  Chain(queue, j, Taken(j), Pushed(j))'
  <2> DEFINE e == [kind |-> "block", module |-> i,
                   first |-> nextFrame[i] - pending[i], count |-> pending[i]]
  <2>1. e \in Events /\ (IsBlockOf(e, j) <=> j = i) /\ e.first = Pushed(i) /\ e.count = pending[i]
    BY <1>0, <1>6, PipelineAssumption
    DEF PipelineAssumption, IInv, PendingBlocks, PushBlock, Events, BlockEvents, IsBlockOf, Pushed
  <2>2. queue' = Append(queue, e)
    BY <1>0, <1>6, ThreadsAreServed DEF PushBlock
  <2> HIDE DEF e
  <2>3. Pushed(j)' = IF j = i THEN Pushed(j) + pending[i] ELSE Pushed(j)
    BY <1>0, <1>6, PipelineAssumption DEF PipelineAssumption, PushBlock, Pushed
  <2>4. Taken(j)' = Taken(j)
    BY <1>6 DEF PushBlock, Taken
  <2> QED
    BY <2>1, <2>2, <2>3, <2>4, PushedFollows
<1>7. CASE UNCHANGED <<queue, worker, work, held, nextFrame, pending>>
  <2>1. Taken(j)' = Taken(j) /\ Pushed(j)' = Pushed(j) /\ queue' = queue
    BY <1>7 DEF Taken, Pushed
  <2> QED
    BY <2>1, SameChain
<1> QED
  BY SampleFootprint, <1>1, <1>2, <1>3, <1>4, <1>5, <1>6, <1>7


\* The samples of every module stand in one line in every reachable state.
LEMMA SamplesHold ==
  ASSUME CalculationMayFail = FALSE
  PROVE  Spec => []SamplesInv
<1>1. Init => SamplesInOrder
  <2>1. ASSUME Init PROVE WorkInOrder /\ NothingLeftBehind
    BY <2>1 DEF Init, WorkInOrder, NothingLeftBehind
  <2>2. ASSUME Init, NEW i \in Sources PROVE Chain(queue, i, Taken(i), Pushed(i))
    <3>1. queue = <<>> /\ Taken(i) = 0 /\ Pushed(i) = 0
      BY <2>2 DEF Init, Taken, Pushed
    <3> QED
      BY <3>1, EmptyChain
  <2> QED
    BY <2>1, <2>2 DEF SamplesInOrder, Contiguous
<1>2. SamplesInv /\ [Next]_vars => SamplesInOrder'
  BY NextWorkInOrder, NextNothingLeftBehind, NextContiguous DEF SamplesInOrder
<1> QED
  BY OrderHolds, <1>1, <1>2, PTL DEF SamplesInv, Spec

-----------------------------------------------------------------------------
(* The refinement of SampleLog. *)

\* The main thread is in a session whenever somebody works for one.
LEMMA WorkIsInSession ==
  ASSUME IInv
  PROVE  /\ worker \in {"frames", "archive"} => main # "idle"
         /\ \A i \in Sources : thread[i] # "none" => main # "idle"
BY DEF IInv, Lifecycle, SourceLifecycle, StartedAsFarAs, SessionLifecycle, Off

\* The sample the worker stores next has been acquired.
LEMMA StoredWasAcquired ==
  ASSUME SamplesInv, worker = "frames"
  PROVE  work.next = held[work.module] /\ held[work.module] < nextFrame[work.module]
<1> DEFINE i == work.module
<1>1. /\ i \in Sources /\ work.next \in Nat /\ work.end \in Nat
      /\ nextFrame \in [Sources -> Nat]
      /\ queue \in Seq(Events)
  BY DEF SamplesInv, OrderInv, IInv, TypeOK, WorkerTypeOK, SourceTypeOK, QueueTypeOK
<1>2. held[i] = work.next /\ work.next < work.end /\ Taken(i) = work.end
  BY DEF SamplesInv, SamplesInOrder, WorkInOrder, Taken
<1>3. Chain(queue, i, Taken(i), Pushed(i))
  BY <1>1 DEF SamplesInv, SamplesInOrder, Contiguous
<1>4. Taken(i) \in Nat /\ Pushed(i) \in Nat /\ Pushed(i) <= nextFrame[i]
  BY <1>1, PlacesAreSamples DEF SamplesInv, OrderInv
<1>5. Taken(i) <= Pushed(i)
  BY <1>1, <1>3, <1>4, ChainForward
<1> HIDE DEF i
<1>6. nextFrame[i] \in Nat
  BY <1>1
<1>7. held[i] < nextFrame[i]
  BY <1>1, <1>2, <1>4, <1>5, <1>6
<1> QED
  BY <1>2, <1>7 DEF i

\* When the session is over every sample that was acquired has been stored.
LEMMA EverythingStored ==
  ASSUME SamplesInv, main = "finish"
  PROVE  held = nextFrame
<1>1. /\ worker = "none" /\ queue = <<>>
      /\ held \in [Sources -> Nat] /\ nextFrame \in [Sources -> Nat]
      /\ \A i \in Sources : pending[i] = 0
  BY DEF SamplesInv, SamplesInOrder, OrderInv, NothingLeftBehind, IInv, TypeOK, WorkerTypeOK,
         SourceTypeOK, Lifecycle, SourceLifecycle, StartedAsFarAs, SessionLifecycle, Off
<1>2. ASSUME NEW i \in Sources PROVE held[i] = nextFrame[i]
  <2>1. Taken(i) = held[i] /\ Pushed(i) = nextFrame[i]
    BY <1>1 DEF Taken, Pushed
  <2>2. Chain(<<>>, i, held[i], nextFrame[i])
    BY <1>1, <2>1 DEF SamplesInv, SamplesInOrder, Contiguous
  <2> QED
    BY <1>1, <2>2, EmptyChain
<1> QED
  BY <1>1, <1>2

\* The steps that the abstract log does not see.
LEMMA LogFootprint ==
  [Next]_vars => \/ UNCHANGED <<main, nextFrame, held>>
                 \/ UNCHANGED <<nextFrame, held>> /\ main # "idle" /\ main' # "idle"
                 \/ StartSession \/ Finish \/ AssembleFrame
                 \/ \E i \in Sources : ReceiveBlock(i)
<1> SUFFICES ASSUME [Next]_vars
             PROVE  \/ UNCHANGED <<main, nextFrame, held>>
                    \/ UNCHANGED <<nextFrame, held>> /\ main # "idle" /\ main' # "idle"
                    \/ StartSession \/ Finish \/ AssembleFrame
                    \/ \E i \in Sources : ReceiveBlock(i)
  OBVIOUS
<1>1. CASE StartWorker \/ StartEngine \/ OnTimerSourceLost \/ UserStop
  BY <1>1 DEF StartWorker, StartEngine, OnTimerSourceLost, UserStop, CleanupEntry
<1>2. CASE StopSource \/ JoinSource \/ StopQueue \/ JoinWorker
  BY <1>2 DEF StopSource, JoinSource, StopQueue, JoinWorker
<1>3. CASE LaunchSource
  BY <1>3 DEF LaunchSource, StartDevice, DeviceFails, LaunchThread, ThreadFails,
              AfterFailedSource
<1>4. CASE StartRefused \/ OnTimerProcess
  BY <1>4 DEF StartRefused, OnTimerProcess
<1>5. ASSUME NEW i \in Sources, SourceThread(i), ~ReceiveBlock(i)
      PROVE  UNCHANGED <<main, nextFrame, held>>
  BY <1>5 DEF SourceThread, TestRunning, ReadFails, NoData, PushBlock, SetFinalState,
              ClearRunning
<1>6. CASE PopAnchor \/ PopBlock \/ WriteArchive \/ WorkerExit \/ UNCHANGED vars
  BY <1>6 DEF vars, PopAnchor, PopBlock, WriteArchive, WorkerExit
<1> QED
  BY <1>1, <1>2, <1>3, <1>4, <1>5, <1>6 DEF Next, MainProgress, WorkerThread

\* Every step of the pipeline is a step of the log.
LEMMA StepsOfTheLog ==
  ASSUME SamplesInv, [Next]_vars
  PROVE  [Log!Next]_(Log!vars)
<1> USE DEF Log!Next, Log!vars, Log!Sources, Sources
<1>0. /\ IInv /\ held \in [Sources -> Nat] /\ nextFrame \in [Sources -> Nat]
      /\ work.module \in Sources
  BY DEF SamplesInv, OrderInv, IInv, TypeOK, WorkerTypeOK, SourceTypeOK
<1>1. CASE UNCHANGED <<main, nextFrame, held>>
  BY <1>1
<1>2. CASE UNCHANGED <<nextFrame, held>> /\ main # "idle" /\ main' # "idle"
  BY <1>2
<1>3. CASE StartSession
  <2>1. Log!Open
    BY <1>3 DEF StartSession, Log!Open
  <2> QED
    BY <2>1
<1>4. CASE Finish
  <2>1. held = nextFrame
    BY <1>4, EverythingStored DEF Finish
  <2>2. Log!Close
    BY <1>4, <2>1 DEF Finish, Log!Close
  <2> QED
    BY <2>2
<1>5. CASE AssembleFrame
  <2>1. /\ held' = [held EXCEPT ![work.module] = work.next + 1] /\ worker = "frames"
        /\ UNCHANGED <<main, nextFrame>>
    BY <1>5 DEF AssembleFrame
  <2>2. work.next = held[work.module] /\ held[work.module] < nextFrame[work.module]
    BY <2>1, StoredWasAcquired
  <2>3. main # "idle"
    BY <1>0, <2>1, WorkIsInSession
  <2>4. Log!Store(work.module)
    BY <1>0, <2>1, <2>2, <2>3 DEF Log!Store
  <2> QED
    BY <1>0, <2>4
<1>6. ASSUME NEW i \in Sources, ReceiveBlock(i) PROVE [Log!Next]_(Log!vars)
  <2>1. main # "idle" /\ UNCHANGED <<main, held>>
    BY <1>0, <1>6, WorkIsInSession DEF ReceiveBlock
  <2>2. PICK n \in 1..BlockCapacity : nextFrame' = [nextFrame EXCEPT ![i] = nextFrame[i] + n]
    BY <1>6, Zenon DEF ReceiveBlock, NextAfterBlock
  <2>3. Log!Acquire(i)
    BY <1>0, <2>1, <2>2 DEF Log!Acquire
  <2> QED
    BY <2>3
<1> QED
  BY LogFootprint, <1>1, <1>2, <1>3, <1>4, <1>5, <1>6

\* Where no calculation fails, a session stores every sample it acquires, one by
\* one, in the order they were acquired, before it closes: cleanup() stops the
\* devices, drains the queue and joins the worker in this order.
THEOREM EverySampleIsRecorded ==
  ASSUME CalculationMayFail = FALSE
  PROVE  Spec => RecordsEverySample
<1>1. Init => Log!Init
  BY DEF Init, Log!Init, Log!Sources, Sources
<1>2. SamplesInv /\ [Next]_vars => [Log!Next]_(Log!vars)
  BY StepsOfTheLog
<1> QED
  BY SamplesHold, <1>1, <1>2, PTL DEF Spec, RecordsEverySample, Log!Spec


-----------------------------------------------------------------------------
(* The records of the archive. *)

\* The steps that touch the archive, the frame numbers or the state of the worker.
LEMMA RecordFootprint ==
  [Next]_vars => \/ /\ UNCHANGED <<archiveVars, worker, held, nextNumber, work>>
                    /\ main' = "idle" => main = "idle"
                 \/ StartSession \/ StartRefused \/ StartWorker \/ JoinWorker \/ Finish
                 \/ WorkerThread
BY DEF vars, Next, MainProgress, SourceThread, LaunchSource, StartDevice, DeviceFails,
       LaunchThread, ThreadFails, StartEngine, OnTimerProcess, OnTimerSourceLost, UserStop,
       StopSource, JoinSource, StopQueue, TestRunning, ReceiveBlock, ReadFails, NoData,
       PushBlock, SetFinalState, ClearRunning, CleanupEntry, AfterFailedSource

\* Every step keeps the last record of the archive next to the last frame.
LEMMA NextRecordsInOrder ==
  ASSUME SamplesInv, RecordsInOrder, CalculationMayFail = FALSE, [Next]_vars
  PROVE  RecordsInOrder'
<1>0. /\ work.module \in Sources /\ work.next \in Nat /\ nextNumber \in Nat
      /\ archiveNext \in Nat /\ archiveHeld \in [Sources -> Nat] /\ held \in [Sources -> Nat]
      /\ IInv
  BY DEF SamplesInv, OrderInv, IInv, TypeOK, WorkerTypeOK, StorageTypeOK
<1> USE DEF RecordsInOrder
<1>1. CASE StartSession
  BY <1>1 DEF StartSession
<1>2. CASE StartRefused \/ Finish
  <2>1. archiveOpen' = FALSE /\ UNCHANGED <<worker, held, nextNumber>>
    BY <1>2 DEF StartRefused, Finish
  <2> QED
    BY <2>1
<1>3. CASE StartWorker \/ JoinWorker
  <2>1. /\ worker # "archive" /\ worker' # "archive" /\ main' # "idle"
        /\ UNCHANGED <<archiveVars, held, nextNumber>>
    BY <1>0, <1>3 DEF StartWorker, JoinWorker, CleanupEntry, IInv, Lifecycle, SessionLifecycle
  <2> QED
    BY <2>1
<1>4. CASE PopAnchor \/ PopBlock \/ WorkerExit
  <2>1. /\ worker # "archive" /\ worker' # "archive" /\ main' = main
        /\ UNCHANGED <<archiveVars, held, nextNumber>>
    BY <1>4 DEF PopAnchor, PopBlock, WorkerExit
  <2> QED
    BY <2>1
<1>5. CASE AssembleFrame
  <2> DEFINE newHeld == [held EXCEPT ![work.module] = work.next + 1]
             ready == \A i \in Sources : newHeld[i] # 0
  <2>1. /\ held' = newHeld /\ worker = "frames" /\ UNCHANGED <<archiveVars, main>>
        /\ newHeld = [held EXCEPT ![work.module] = @ + 1]
    BY <1>0, <1>5, StoredWasAcquired DEF AssembleFrame
  <2>2. \/ ~ready /\ Advance /\ nextNumber' = nextNumber
        \/ ready /\ nextNumber' = nextNumber + 1 /\ worker' = "archive" /\ work' = work
    BY <1>5 DEF AssembleFrame
  <2>3. CASE ready /\ nextNumber' = nextNumber + 1 /\ worker' = "archive" /\ work' = work
    <3>1. nextNumber' # 0 /\ \A i \in Sources : held'[i] # 0
      BY <1>0, <2>1, <2>3
    <3>2. ASSUME archiveNext # 0, archiveOpen
          PROVE  /\ nextNumber' = archiveNext' + 1
                 /\ held' = [archiveHeld' EXCEPT ![work'.module] = @ + 1]
                 /\ \A i \in Sources : archiveHeld'[i] # 0
      <4>1. nextNumber = archiveNext /\ held = archiveHeld /\ \A i \in Sources : archiveHeld[i] # 0
        BY <2>1, <3>2
      <4> HIDE DEF RecordsInOrder
      <4>2. /\ nextNumber' = archiveNext' + 1
            /\ \A i \in Sources : archiveHeld'[i] # 0
        BY <2>1, <2>3, <4>1
      <4>3. held' = [archiveHeld' EXCEPT ![work'.module] = @ + 1]
        BY <2>1, <2>3, <4>1
      <4> QED
        BY <4>2, <4>3
    <3> HIDE DEF newHeld, ready
    <3>3. main' = "idle" => ~archiveOpen'
      BY <2>1
    <3> QED
      BY <2>1, <2>3, <3>1, <3>2, <3>3
  <2>4. CASE ~ready /\ Advance /\ nextNumber' = nextNumber
    <3>1. worker' # "archive"
      BY <2>4 DEF Advance, BlockDone
    <3>2. ~(archiveNext # 0 /\ archiveOpen)
      BY <1>0, <2>1, <2>4
    <3> QED
      BY <2>1, <3>1, <3>2
  <2> QED
    BY <2>2, <2>3, <2>4
<1>6. CASE WriteArchive
  <2>1. worker = "archive" /\ worker' # "archive" /\ UNCHANGED <<archiveOpen, held, nextNumber, main>>
    BY <1>6 DEF WriteArchive, Advance, BlockDone
  <2>2. archiveOpen => archiveNext' = nextNumber /\ archiveHeld' = held
    BY <1>6 DEF WriteArchive
  <2> QED
    BY <2>1, <2>2
<1>7. CASE /\ UNCHANGED <<archiveVars, worker, held, nextNumber, work>>
           /\ main' = "idle" => main = "idle"
  BY <1>7
<1> QED
  BY RecordFootprint, <1>1, <1>2, <1>3, <1>4, <1>5, <1>6, <1>7 DEF WorkerThread

\* Consecutive records of the archive differ by one sample of one module, where
\* no calculation fails.
THEOREM RecordsAdvance ==
  ASSUME CalculationMayFail = FALSE
  PROVE  Spec => EachRecordAdvancesOneSample
<1>1. Init => RecordsInOrder
  BY DEF Init, RecordsInOrder
<1>2. SamplesInv /\ RecordsInOrder /\ [Next]_vars => RecordsInOrder'
  BY NextRecordsInOrder
<1>3. ASSUME SamplesInv, RecordsInOrder, [Next]_vars, archiveNext' # archiveNext,
             archiveNext # 0, archiveOpen
      PROVE  /\ archiveNext' = archiveNext + 1
             /\ \E i \in Sources : archiveHeld' = [archiveHeld EXCEPT ![i] = @ + 1]
  <2>1. main # "idle"
    BY <1>3 DEF RecordsInOrder
  <2>2. ~StartSession /\ ~AssembleFrame /\ archiveNext' # archiveNext
    BY <1>3, <2>1 DEF StartSession, AssembleFrame
  <2>3. WriteArchive
    BY <1>3, <2>2, StorageFootprint
  <2>4. worker = "archive" /\ archiveNext' = nextNumber /\ archiveHeld' = held
    BY <1>3, <2>3 DEF WriteArchive
  <2>5. /\ nextNumber = archiveNext + 1 /\ work.module \in Sources
        /\ held = [archiveHeld EXCEPT ![work.module] = @ + 1]
    BY <1>3, <2>4 DEF RecordsInOrder, SamplesInv, OrderInv, IInv, TypeOK, WorkerTypeOK
  <2> QED
    BY <2>4, <2>5
<1>4. SamplesInv /\ RecordsInOrder /\ [Next]_vars =>
        [archiveNext' # archiveNext /\ archiveNext # 0 /\ archiveOpen =>
           /\ archiveNext' = archiveNext + 1
           /\ \E i \in Sources : archiveHeld' = [archiveHeld EXCEPT ![i] = @ + 1]]_vars
  BY <1>3
<1> QED
  BY SamplesHold, <1>1, <1>2, <1>4, PTL DEF Spec, EachRecordAdvancesOneSample

==============================================================================
