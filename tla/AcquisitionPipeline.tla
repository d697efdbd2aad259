------------------------- MODULE AcquisitionPipeline -------------------------
(***************************************************************************)
(* The running system inside DataServer: one thread per acquisition module *)
(* (LCardDataSource::run), the queue they fill (DataBlockQueue), the       *)
(* thread that drains it (DataStreamWorker) through the reader, the frame  *)
(* assembler, the single-slot frame buffer and the archive, and the Qt     *)
(* main thread, which starts all of it, polls it from a 1 ms timer and     *)
(* tears it down (DataServer, DataStreamSourceManager).                    *)
(*                                                                         *)
(* A recording session runs from StartSession to Finish.  The objects of a *)
(* session are constructed by StartSession; what they hold between Finish  *)
(* and the next StartSession is of no consequence, and is left as it was.  *)
(***************************************************************************)
EXTENDS Integers, Sequences

CONSTANTS
  SourceCount,         (* modules of the configuration, started in order    *)
  BlockCapacity,       (* ILCardModule::blockFrameCapacity                  *)
  MaxFrames,           (* bound: frames a module delivers in one session    *)
  CalculationMayFail   (* SignalProcessor::process may return false         *)

ASSUME PipelineAssumption ==
  /\ SourceCount \in Nat \ {0}
  /\ BlockCapacity \in Nat \ {0}
  /\ MaxFrames \in Nat
  /\ CalculationMayFail \in BOOLEAN

Sources == 1..SourceCount

VARIABLES
  \* Qt main thread: ServerController, DataServer, DataStreamSourceManager
  main,            (* where the main thread is                             *)
  cursor,          (* the source its start or stop loop has reached        *)
  serverRunning,   (* DataServer::m_running                                *)
  managerRunning,  (* DataStreamSourceManager::m_running                   *)
  lastStates,      (* DataServer::m_lastModuleStates, <<>> when empty      *)
  delivered,       (* number of the last frame handed to the publisher     *)
  \* one LCardDataSource per module
  thread,          (* where its thread is, "none" when there is none       *)
  srcRunning,      (* m_running                                            *)
  srcState,        (* m_state                                              *)
  readError,       (* the local variable error of run()                    *)
  device,          (* m_moduleStarted: the hardware is acquiring           *)
  nextFrame,       (* m_nextFrameIndex                                     *)
  pending,         (* frames of the block read and not yet pushed          *)
  \* DataBlockQueue
  queue, queueStopped,
  \* DataStreamWorker and the objects only its thread touches
  worker,          (* where the worker thread is                           *)
  work,            (* the frames of the current block still to assemble    *)
  anchored,        (* DataStreamTime::m_anchors: first index, or NoAnchor  *)
  held,            (* per module, 1 + index of the sample in m_frame       *)
  nextNumber,      (* FrameAssembler::m_nextFrameNumber                    *)
  \* BufferManager
  slot, slotReady,
  \* IArchiveWriter: open, number after the last one written, its samples
  archiveOpen, archiveNext, archiveHeld

mainVars    == <<main, cursor, serverRunning, managerRunning, lastStates, delivered>>
sourceVars  == <<thread, srcRunning, srcState, readError, device, nextFrame, pending>>
queueVars   == <<queue, queueStopped>>
workerVars  == <<worker, work, anchored, held, nextNumber>>
slotVars    == <<slot, slotReady>>
archiveVars == <<archiveOpen, archiveNext, archiveHeld>>

vars == <<mainVars, sourceVars, queueVars, workerVars, slotVars, archiveVars>>

-----------------------------------------------------------------------------
(* The data. *)

NoAnchor == -1

AnchorEvents == [kind : {"anchor"}, module : Sources, first : Nat]
BlockEvents  == [kind : {"block"}, module : Sources, first : Nat, count : Nat \ {0}]
Events       == AnchorEvents \cup BlockEvents

NoWork == [module |-> 1, next |-> 0, end |-> 0]

MainStates == {"idle", "startWorker", "startDevice", "launch", "startEngine",
               "running", "stopSource", "joinSource", "stopQueue",
               "joinWorker", "finish"}
StartingStates == {"startWorker", "startDevice", "launch", "startEngine"}
CleanupStates  == {"stopSource", "joinSource", "stopQueue", "joinWorker", "finish"}
ThreadStates   == {"none", "test", "read", "push", "setState", "clear", "done"}
WorkerStates   == {"none", "wait", "frames", "archive", "exited"}
SourceStates   == {"Stopped", "Running", "Error"}

-----------------------------------------------------------------------------
(* Decisions of the code that fit in an expression.  Those with a suffix   *)
(* are the faulty variants the mutation checks put in their place.         *)

\* DataBlockQueue::waitPop returns false: stopped, and nothing left to drain.
QueueClosed_StopFirst == queueStopped
QueueClosed == queueStopped /\ queue = <<>>

\* DataStreamAnchor::firstFrameIndex of a stream being started.
AnchorFirst_Next(i) == nextFrame[i] + 1
AnchorFirst(i) == nextFrame[i]

\* m_nextFrameIndex after a block of n frames.
NextAfterBlock_Capacity(i, n) == nextFrame[i] + BlockCapacity
NextAfterBlock_Kept(i, n) == nextFrame[i]
NextAfterBlock(i, n) == nextFrame[i] + n

\* The condition of the while loop of run().
KeepRunning_Always(i) == TRUE
KeepRunning(i) == srcRunning[i]

\* The state run() stores before it clears m_running.
StateAtExit_Unset(i) == srcState[i]
StateAtExit(i) == IF readError[i] THEN "Error" ELSE "Stopped"

\* The state stop() leaves behind: an error is not overwritten.
StateAfterStop_Always(i) == "Stopped"
StateAfterStop(i) == IF srcState[i] = "Error" THEN "Error" ELSE "Stopped"

\* DataStreamReader::process turns a block into frames first .. first+count-1,
\* unless DataStreamTime::timestamp knows no anchor that covers them.
BlockEnd_Short(e) == e.first + e.count - 1
BlockEnd(e) == e.first + e.count

ReaderAccepts(e) == anchored[e.module] # NoAnchor /\ e.first >= anchored[e.module]

\* BufferManager::m_ready once readFrame has copied the frame out.
ReadyAfterRead_Kept == slotReady
ReadyAfterRead == FALSE

\* DataStreamSourceManager::isRunning().
AllSourcesRunning_Any == managerRunning /\ \E i \in Sources : srcRunning[i]
AllSourcesRunning == managerRunning /\ \A i \in Sources : srcRunning[i]

\* Where DataStreamSourceManager::start() goes when a source does not start.
AfterFailedSource_Leak == "stopQueue"
AfterFailedSource == "stopSource"

\* cleanup(): DataStreamSourceManager::stop() does nothing unless m_running.
CleanupEntry == IF managerRunning THEN "stopSource" ELSE "stopQueue"

-----------------------------------------------------------------------------
Init ==
  /\ main = "idle" /\ cursor = 1
  /\ serverRunning = FALSE /\ managerRunning = FALSE
  /\ lastStates = <<>> /\ delivered = -1
  /\ thread = [i \in Sources |-> "none"]
  /\ srcRunning = [i \in Sources |-> FALSE]
  /\ srcState = [i \in Sources |-> "Stopped"]
  /\ readError = [i \in Sources |-> FALSE]
  /\ device = [i \in Sources |-> FALSE]
  /\ nextFrame = [i \in Sources |-> 0]
  /\ pending = [i \in Sources |-> 0]
  /\ queue = <<>> /\ queueStopped = FALSE
  /\ worker = "none" /\ work = NoWork
  /\ anchored = [i \in Sources |-> NoAnchor]
  /\ held = [i \in Sources |-> 0]
  /\ nextNumber = 0
  /\ slot = -1 /\ slotReady = FALSE
  /\ archiveOpen = FALSE /\ archiveNext = 0
  /\ archiveHeld = [i \in Sources |-> 0]

-----------------------------------------------------------------------------
(* Qt main thread: starting. *)

\* ServerController::start() up to DataServer::start()'s call of
\* streamWorker->start(): a fresh archive, a fresh DataServer with a fresh
\* RuntimeSystem, the queue emptied and opened.
StartSession ==
  /\ main = "idle"
  /\ main' = "startWorker" /\ cursor' = 1
  /\ serverRunning' = FALSE /\ managerRunning' = FALSE
  /\ lastStates' = <<>> /\ delivered' = -1
  /\ thread' = [i \in Sources |-> "none"]
  /\ srcRunning' = [i \in Sources |-> FALSE]
  /\ srcState' = [i \in Sources |-> "Stopped"]
  /\ readError' = [i \in Sources |-> FALSE]
  /\ device' = [i \in Sources |-> FALSE]
  /\ nextFrame' = [i \in Sources |-> 0]
  /\ pending' = [i \in Sources |-> 0]
  /\ queue' = <<>> /\ queueStopped' = FALSE
  /\ worker' = "none" /\ work' = NoWork
  /\ anchored' = [i \in Sources |-> NoAnchor]
  /\ held' = [i \in Sources |-> 0]
  /\ nextNumber' = 0
  /\ slot' = -1 /\ slotReady' = FALSE
  /\ archiveOpen' = TRUE /\ archiveNext' = 0
  /\ archiveHeld' = [i \in Sources |-> 0]

\* DataServer::start() refuses the configuration (port 0, SystemBuilder): the
\* controller drops the server again and closes the archive it had opened.
StartRefused ==
  /\ main = "idle"
  /\ lastStates' = <<>>
  /\ archiveOpen' = FALSE
  /\ UNCHANGED <<main, cursor, serverRunning, managerRunning, delivered, sourceVars,
                 queueVars, workerVars, slotVars, archiveNext, archiveHeld>>

\* DataStreamWorker::start(): the thread starts or std::thread throws.
StartWorker ==
  /\ main = "startWorker"
  /\ \/ worker' = "wait" /\ main' = "startDevice"
     \/ worker' = worker /\ main' = CleanupEntry
  /\ cursor' = 1
  /\ UNCHANGED <<serverRunning, managerRunning, lastStates, delivered, sourceVars, queueVars,
                 work, anchored, held, nextNumber, slotVars, archiveVars>>

\* LCardDataSource::start() up to the anchor: the hardware starts and the
\* anchor of the stream is queued.
StartDevice ==
  LET anchor == [kind |-> "anchor", module |-> cursor, first |-> AnchorFirst(cursor)]
  IN /\ main = "startDevice"
     /\ device' = [device EXCEPT ![cursor] = TRUE]
     /\ queue' = IF queueStopped THEN queue ELSE Append(queue, anchor)
     /\ main' = "launch"
     /\ UNCHANGED <<cursor, serverRunning, managerRunning, lastStates, delivered, thread,
                    srcRunning, srcState, readError, nextFrame, pending, queueStopped,
                    workerVars, slotVars, archiveVars>>

\* The hardware does not start: the manager stops every source.
DeviceFails ==
  /\ main = "startDevice"
  /\ main' = AfterFailedSource /\ cursor' = 1
  /\ managerRunning' = FALSE
  /\ UNCHANGED <<serverRunning, lastStates, delivered, sourceVars, queueVars, workerVars,
                 slotVars, archiveVars>>

\* The rest of LCardDataSource::start(): the thread is created; then the next
\* source, or the end of DataStreamSourceManager::start().
LaunchThread ==
  /\ main = "launch"
  /\ srcRunning' = [srcRunning EXCEPT ![cursor] = TRUE]
  /\ srcState' = [srcState EXCEPT ![cursor] = "Running"]
  /\ thread' = [thread EXCEPT ![cursor] = "test"]
  /\ readError' = [readError EXCEPT ![cursor] = FALSE]
  /\ IF cursor = SourceCount
     THEN main' = "startEngine" /\ cursor' = 1 /\ managerRunning' = TRUE
     ELSE main' = "startDevice" /\ cursor' = cursor + 1 /\ UNCHANGED managerRunning
  /\ UNCHANGED <<serverRunning, lastStates, delivered, device, nextFrame, pending,
                 queueVars, workerVars, slotVars, archiveVars>>

\* std::thread throws: the source undoes its start and is in error, and the
\* manager stops every source.
ThreadFails ==
  /\ main = "launch"
  /\ srcRunning' = [srcRunning EXCEPT ![cursor] = FALSE]
  /\ srcState' = [srcState EXCEPT ![cursor] = "Error"]
  /\ device' = [device EXCEPT ![cursor] = FALSE]
  /\ main' = AfterFailedSource /\ cursor' = 1
  /\ managerRunning' = FALSE
  /\ UNCHANGED <<serverRunning, lastStates, delivered, thread, readError, nextFrame, pending,
                 queueVars, workerVars, slotVars, archiveVars>>

LaunchSource == StartDevice \/ DeviceFails \/ LaunchThread \/ ThreadFails

\* DataEngine::start() and UdpServer::start(), which may fail to bind.
StartEngine ==
  /\ main = "startEngine"
  /\ \/ main' = "running" /\ serverRunning' = TRUE
     \/ main' = CleanupEntry /\ UNCHANGED serverRunning
  /\ cursor' = 1
  /\ UNCHANGED <<managerRunning, lastStates, delivered, sourceVars, queueVars, workerVars,
                 slotVars, archiveVars>>

-----------------------------------------------------------------------------
(* Qt main thread: the running server. *)

\* onTimer(), all sources running: DataEngine::process() takes the frame in
\* the buffer, if there is one, and publishes it.
OnTimerProcess ==
  /\ main = "running"
  /\ AllSourcesRunning
  /\ slotReady
  /\ delivered' = slot
  /\ slotReady' = ReadyAfterRead
  /\ UNCHANGED <<main, cursor, serverRunning, managerRunning, lastStates, sourceVars,
                 queueVars, workerVars, slot, archiveVars>>

\* onTimer(), a source has stopped by itself: the server stops.
OnTimerSourceLost ==
  /\ main = "running"
  /\ ~AllSourcesRunning
  /\ main' = CleanupEntry /\ cursor' = 1
  /\ UNCHANGED <<serverRunning, managerRunning, lastStates, delivered, sourceVars,
                 queueVars, workerVars, slotVars, archiveVars>>

\* The operator stops the server (DataServer::stop).
UserStop ==
  /\ main = "running"
  /\ main' = CleanupEntry /\ cursor' = 1
  /\ UNCHANGED <<serverRunning, managerRunning, lastStates, delivered, sourceVars,
                 queueVars, workerVars, slotVars, archiveVars>>

-----------------------------------------------------------------------------
(* Qt main thread: DataServer::cleanup(). *)

\* LCardDataSource::stop() up to the join.
StopSource ==
  /\ main = "stopSource"
  /\ srcRunning' = [srcRunning EXCEPT ![cursor] = FALSE]
  /\ main' = "joinSource"
  /\ UNCHANGED <<cursor, serverRunning, managerRunning, lastStates, delivered, thread,
                 srcState, readError, device, nextFrame, pending, queueVars, workerVars,
                 slotVars, archiveVars>>

\* The join and the rest of LCardDataSource::stop(); after the last source
\* DataStreamSourceManager::stop() clears its flag.
JoinSource ==
  /\ main = "joinSource"
  /\ thread[cursor] \in {"none", "done"}
  /\ thread' = [thread EXCEPT ![cursor] = "none"]
  /\ device' = [device EXCEPT ![cursor] = FALSE]
  /\ srcState' = [srcState EXCEPT ![cursor] = StateAfterStop(cursor)]
  /\ IF cursor = SourceCount
     THEN main' = "stopQueue" /\ cursor' = 1 /\ managerRunning' = FALSE
     ELSE main' = "stopSource" /\ cursor' = cursor + 1 /\ UNCHANGED managerRunning
  /\ UNCHANGED <<serverRunning, lastStates, delivered, srcRunning, readError, nextFrame,
                 pending, queueVars, workerVars, slotVars, archiveVars>>

\* DataBlockQueue::stop().
StopQueue ==
  /\ main = "stopQueue"
  /\ queueStopped' = TRUE
  /\ main' = "joinWorker"
  /\ UNCHANGED <<cursor, serverRunning, managerRunning, lastStates, delivered, sourceVars,
                 queue, workerVars, slotVars, archiveVars>>

\* DataStreamWorker::join().
JoinWorker ==
  /\ main = "joinWorker"
  /\ worker \in {"none", "exited"}
  /\ worker' = "none"
  /\ main' = "finish"
  /\ UNCHANGED <<cursor, serverRunning, managerRunning, lastStates, delivered, sourceVars,
                 queueVars, work, anchored, held, nextNumber, slotVars, archiveVars>>

\* The rest of cleanup(): the states of the modules are recorded, the runtime
\* is destroyed, and the archive is closed by onDataServerStopped() or by the
\* controller's failure path.
Finish ==
  /\ main = "finish"
  /\ lastStates' = srcState
  /\ serverRunning' = FALSE
  /\ archiveOpen' = FALSE
  /\ main' = "idle"
  /\ UNCHANGED <<cursor, managerRunning, delivered, sourceVars, queueVars, workerVars,
                 slotVars, archiveNext, archiveHeld>>

-----------------------------------------------------------------------------
(* The thread of a source: LCardDataSource::run(). *)

TestRunning(i) ==
  /\ thread[i] = "test"
  /\ thread' = [thread EXCEPT ![i] = IF KeepRunning(i) THEN "read" ELSE "setState"]
  /\ UNCHANGED <<mainVars, srcRunning, srcState, readError, device, nextFrame, pending,
                 queueVars, workerVars, slotVars, archiveVars>>

\* readBlock() returns n frames.
ReceiveBlock(i) ==
  /\ thread[i] = "read"
  /\ \E n \in 1..BlockCapacity :
       /\ nextFrame[i] + n <= MaxFrames
       /\ nextFrame' = [nextFrame EXCEPT ![i] = NextAfterBlock(i, n)]
       /\ pending' = [pending EXCEPT ![i] = n]
  /\ thread' = [thread EXCEPT ![i] = "push"]
  /\ UNCHANGED <<mainVars, srcRunning, srcState, readError, device, queueVars, workerVars,
                 slotVars, archiveVars>>

\* readBlock() returns an error, or a block of an impossible size.
ReadFails(i) ==
  /\ thread[i] = "read"
  /\ readError' = [readError EXCEPT ![i] = TRUE]
  /\ thread' = [thread EXCEPT ![i] = "setState"]
  /\ UNCHANGED <<mainVars, srcRunning, srcState, device, nextFrame, pending, queueVars,
                 workerVars, slotVars, archiveVars>>

\* readBlock() has nothing yet.
NoData(i) ==
  /\ thread[i] = "read"
  /\ thread' = [thread EXCEPT ![i] = "test"]
  /\ UNCHANGED <<mainVars, srcRunning, srcState, readError, device, nextFrame, pending,
                 queueVars, workerVars, slotVars, archiveVars>>

\* DataBlockQueue::push(), which drops the block of a stopped queue.
PushBlock(i) ==
  LET block == [kind |-> "block", module |-> i,
                first |-> nextFrame[i] - pending[i], count |-> pending[i]]
  IN /\ thread[i] = "push"
     /\ queue' = IF queueStopped THEN queue ELSE Append(queue, block)
     /\ pending' = [pending EXCEPT ![i] = 0]
     /\ thread' = [thread EXCEPT ![i] = "test"]
     /\ UNCHANGED <<mainVars, srcRunning, srcState, readError, device, nextFrame,
                    queueStopped, workerVars, slotVars, archiveVars>>

SetFinalState(i) ==
  /\ thread[i] = "setState"
  /\ srcState' = [srcState EXCEPT ![i] = StateAtExit(i)]
  /\ thread' = [thread EXCEPT ![i] = "clear"]
  /\ UNCHANGED <<mainVars, srcRunning, readError, device, nextFrame, pending, queueVars,
                 workerVars, slotVars, archiveVars>>

ClearRunning(i) ==
  /\ thread[i] = "clear"
  /\ srcRunning' = [srcRunning EXCEPT ![i] = FALSE]
  /\ thread' = [thread EXCEPT ![i] = "done"]
  /\ UNCHANGED <<mainVars, srcState, readError, device, nextFrame, pending, queueVars,
                 workerVars, slotVars, archiveVars>>

SourceThread(i) ==
  \/ TestRunning(i) \/ ReceiveBlock(i) \/ ReadFails(i) \/ NoData(i) \/ PushBlock(i)
  \/ SetFinalState(i) \/ ClearRunning(i)

-----------------------------------------------------------------------------
(* The worker thread: DataStreamWorker::run(), DataStreamProcessor. *)

\* waitPop() returns an anchor: DataStreamTime::startStream.
PopAnchor ==
  /\ worker = "wait"
  /\ queue # <<>> /\ Head(queue).kind = "anchor"
  /\ queue' = Tail(queue)
  /\ anchored' = [anchored EXCEPT ![Head(queue).module] = Head(queue).first]
  /\ UNCHANGED <<mainVars, sourceVars, queueStopped, worker, work, held, nextNumber,
                 slotVars, archiveVars>>

\* waitPop() returns a block: the reader splits it into frames or rejects it.
PopBlock ==
  LET e == Head(queue)
  IN /\ worker = "wait"
     /\ queue # <<>> /\ e.kind = "block"
     /\ queue' = Tail(queue)
     /\ IF ReaderAccepts(e)
        THEN worker' = "frames" /\ work' = [module |-> e.module, next |-> e.first,
                                            end |-> BlockEnd(e)]
        ELSE UNCHANGED <<worker, work>>
     /\ UNCHANGED <<mainVars, sourceVars, queueStopped, anchored, held, nextNumber,
                    slotVars, archiveVars>>

BlockDone == worker' = "wait" /\ work' = NoWork

Advance ==
  IF work.next + 1 < work.end
  THEN worker' = "frames" /\ work' = [work EXCEPT !.next = @ + 1]
  ELSE BlockDone

\* One pass of the loop of DataStreamProcessor::process up to the archive:
\* FrameAssembler::push, SignalProcessor::process, BufferManager::publish.  A
\* failed calculation abandons the rest of the block.
AssembleFrame ==
  LET newHeld == [held EXCEPT ![work.module] = work.next + 1]
      ready   == \A i \in Sources : newHeld[i] # 0
  IN /\ worker = "frames"
     /\ held' = newHeld
     /\ \/ ~ready /\ Advance /\ UNCHANGED <<nextNumber, slotVars>>
        \/ /\ ready /\ CalculationMayFail
           /\ nextNumber' = nextNumber + 1
           /\ BlockDone /\ UNCHANGED slotVars
        \/ /\ ready
           /\ nextNumber' = nextNumber + 1
           /\ slot' = nextNumber /\ slotReady' = TRUE
           /\ worker' = "archive" /\ UNCHANGED work
     /\ UNCHANGED <<mainVars, sourceVars, queueVars, anchored, archiveVars>>

\* IArchiveWriter::write of the frame just published.
WriteArchive ==
  /\ worker = "archive"
  /\ IF archiveOpen
     THEN archiveNext' = nextNumber /\ archiveHeld' = held
     ELSE UNCHANGED <<archiveNext, archiveHeld>>
  /\ Advance
  /\ UNCHANGED <<mainVars, sourceVars, queueVars, anchored, held, nextNumber, slotVars,
                 archiveOpen>>

WorkerExit ==
  /\ worker = "wait"
  /\ QueueClosed
  /\ worker' = "exited"
  /\ UNCHANGED <<mainVars, sourceVars, queueVars, work, anchored, held, nextNumber,
                 slotVars, archiveVars>>

WorkerThread == PopAnchor \/ PopBlock \/ AssembleFrame \/ WriteArchive \/ WorkerExit

-----------------------------------------------------------------------------
\* What the main thread does of itself, as opposed to on the operator's word.
MainProgress ==
  \/ StartWorker \/ LaunchSource \/ StartEngine
  \/ StopSource \/ JoinSource \/ StopQueue \/ JoinWorker \/ Finish

Next ==
  \/ StartSession \/ StartRefused
  \/ MainProgress
  \/ OnTimerProcess \/ OnTimerSourceLost \/ UserStop
  \/ \E i \in Sources : SourceThread(i)
  \/ WorkerThread

Spec == Init /\ [][Next]_vars

\* Threads are scheduled; the 1 ms timer keeps firing; readBlock() returns.
Fairness ==
  /\ WF_vars(MainProgress)
  /\ WF_vars(OnTimerSourceLost)
  /\ WF_vars(WorkerThread)
  /\ \A i \in Sources : WF_vars(SourceThread(i))

FairSpec == Spec /\ Fairness

-----------------------------------------------------------------------------
(* Invariants. *)

MainTypeOK ==
  /\ main \in MainStates /\ cursor \in Sources
  /\ lastStates = <<>> \/ lastStates \in [Sources -> SourceStates]
  /\ delivered \in Int

SourceTypeOK ==
  /\ thread \in [Sources -> ThreadStates]
  /\ srcRunning \in [Sources -> BOOLEAN]
  /\ srcState \in [Sources -> SourceStates]
  /\ readError \in [Sources -> BOOLEAN]
  /\ device \in [Sources -> BOOLEAN]
  /\ nextFrame \in [Sources -> Nat]
  /\ pending \in [Sources -> 0..BlockCapacity]

QueueTypeOK == queue \in Seq(Events)

WorkerTypeOK ==
  /\ worker \in WorkerStates
  /\ work \in [module : Sources, next : Nat, end : Nat]
  /\ anchored \in [Sources -> Nat \cup {NoAnchor}]
  /\ held \in [Sources -> Nat]
  /\ nextNumber \in Nat

StorageTypeOK ==
  /\ slot \in Int /\ archiveNext \in Nat
  /\ archiveHeld \in [Sources -> Nat]

FlagTypeOK ==
  /\ serverRunning \in BOOLEAN /\ managerRunning \in BOOLEAN
  /\ queueStopped \in BOOLEAN /\ slotReady \in BOOLEAN /\ archiveOpen \in BOOLEAN

\* Every variable stays in its type.
TypeOK ==
  MainTypeOK /\ SourceTypeOK /\ QueueTypeOK /\ WorkerTypeOK /\ StorageTypeOK /\ FlagTypeOK

\* When cleanup() destroys the runtime no thread can still touch it and no
\* hardware is left acquiring, whichever step of start() failed: the manager
\* stops the sources itself when its start() fails, because its stop(), called
\* again by cleanup(), then does nothing.
JoinedBeforeTeardown ==
  main \in {"finish", "idle"} =>
    /\ worker = "none"
    /\ \A i \in Sources : thread[i] = "none" /\ ~device[i] /\ ~srcRunning[i]

\* The archive is written, and the queue is filled, only by a thread of the
\* session that opened them: the worker writes to an open archive, and a block
\* that has been read is never pushed to a stopped queue, which would drop it.
ResourcesOutliveTheirUsers ==
  /\ worker = "archive" => archiveOpen
  /\ \A i \in Sources : thread[i] # "none" => ~queueStopped /\ worker \in {"wait", "frames", "archive"}

\* The reader never meets a block it has to reject: the anchor of its stream is
\* known, or stands in the queue before it.
BlocksHaveAnchors ==
  \A k \in DOMAIN queue : queue[k].kind = "block" =>
    LET i == queue[k].module
    IN \/ anchored[i] # NoAnchor /\ anchored[i] <= queue[k].first
       \/ \E j \in 1..(k - 1) :
            queue[j].kind = "anchor" /\ queue[j].module = i /\ queue[j].first <= queue[k].first

\* While the server runs, a module that is seen not to run is seen in error:
\* run() stores the state before it clears m_running.
StoppedByItselfIsError ==
  main = "running" =>
    \A i \in Sources : ~srcRunning[i] => srcState[i] = "Error"

\* The states kept after the runtime is gone tell a module that failed from one
\* that was stopped, however the failure and the stop interleaved.
FailureReported ==
  main = "idle" /\ lastStates # <<>> =>
    \A i \in Sources : /\ lastStates[i] # "Running"
                       /\ readError[i] => lastStates[i] = "Error"

\* The timer never publishes the same frame twice: a frame waiting in the buffer
\* is newer than the last one delivered.
NoFrameDeliveredTwice == slotReady => delivered < slot

\* Frames are numbered at the base frequency: by the time a module has delivered
\* n samples no more than n frames have been assembled.  The archive and the
\* publisher turn frame numbers into rates on this footing.
FramesKeepBaseRate == \E i \in Sources : nextNumber <= held[i]

-----------------------------------------------------------------------------
(* Action properties. *)

\* Consecutive archive records carry consecutive frame numbers and differ by
\* exactly one sample of exactly one module: no sample is skipped, repeated or
\* taken out of order between the devices and the archive.
EachRecordAdvancesOneSample ==
  [][archiveNext' # archiveNext /\ archiveNext # 0 /\ archiveOpen =>
       /\ archiveNext' = archiveNext + 1
       /\ \E i \in Sources :
            archiveHeld' = [archiveHeld EXCEPT ![i] = @ + 1]]_vars

-----------------------------------------------------------------------------
(* Refinement: a session records every sample it acquires, in order. *)

Log == INSTANCE SampleLog
         WITH open <- main # "idle", acquired <- nextFrame, stored <- held

\* The pipeline implements SampleLog: queue, worker and cleanup order together
\* store every sample the devices delivered before the session closes.
RecordsEverySample == Log!Spec

-----------------------------------------------------------------------------
(* Liveness. *)

\* A stop, or a start that failed half way, always comes to an end: every join
\* of cleanup() returns.
CleanupCompletes == main \in CleanupStates ~> main = "idle"

\* A module that fails while the server runs stops the whole server.
FailureStopsServer ==
  \A i \in Sources : (main = "running" /\ thread[i] = "done") ~> main = "idle"
==============================================================================
