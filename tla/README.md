# DataServerQt in TLA+

DataServerQt acquires samples from L-Card modules, computes signals from them,
records frames in an archive and publishes live values over UDP to monitors. What
it measures is a configuration in a database, made with an editor.
This directory holds TLA+ specifications of its core, the TLC configurations
that model-check them, and TLAPS proofs about them.

Run a configuration with `tlc -config X.cfg M`, where the table under "Runs"
names `X.cfg` and `M`; check the proofs with `tlapm M_proofs.tla`.

## The system

| component | source | state | what it does |
| --- | --- | --- | --- |
| ServerController | `apps/DataServer/servercontroller.cpp` | loaded configuration, archive, at most one DataServer | loads a configuration, opens an archive directory and a server, closes them |
| DataServer | `apps/DataServer/dataserver.cpp`, `libs/DataServerRuntime` | `m_running`, the runtime, the last states of the modules | starts worker, sources, engine and socket in order; polls from a 1 ms timer; `cleanup()` |
| Sources | `libs/datasource` | one thread per module: `m_running`, `m_state`, `m_nextFrameIndex` | read blocks from the device and push them to the queue |
| Queue and worker | `libs/DataArchive/datablockqueue.cpp`, `datastream*.cpp` | one queue of anchors and blocks, one thread | drains the queue, cuts blocks into time-stamped samples |
| Assembly and buffer | `frameassembler.cpp`, `libs/SignalStorage`, `libs/Engine` | the current frame, its number, a single-slot buffer | merges the samples of all modules into numbered frames; hands the newest one to the main thread |
| Calculation | `libs/SignalProcessor`, `libs/formulas`, `libs/configuration` | compiled formulas, calibrations | computes signals of a frame; may fail |
| Archive | `archivemanager.cpp`, `archivewriter.cpp`, `archivefile.cpp`, `archivereader.cpp` | one file per frequency | decimates frames into files with a header; reads them back by frame number |
| Publisher | `libs/publisher` | schedule and sequence number of every subscription | sends due frames to subscribers |
| PacketDispatcher, SubscriptionManager | `libs/PacketDispatcher`, `libs/subscriptions` | subscriptions, cache of responses | answers requests, once per request id; expires subscriptions |
| ClientConnection | `libs/DataClient` | subscription, pending request, five timers | requests, retries, recovery after a loss of data |
| DataMonitor | `apps/datamonitor/mainwindow.cpp` | `MonitorState` | drives a ClientConnection, shows values |
| Server window | `apps/DataServer/mainwindow.cpp`, `libs/DataWidgets` | selector, table of modules, buttons | drives the ServerController |
| Configuration | `libs/configuration` | the tables of the database; a loaded configuration | statements that read and write; a load of many of them |
| Building | `libs/configurationvalidation`, `libs/formulas`, `libs/SignalStorage`, `libs/DataServerRuntime` | none | checks a loaded configuration; lays out memory; parses, resolves and orders formulas |
| LTR11 module | `libs/hardware` | open, initialized, started; a handle of the maker's library | configures, starts, reads and stops one module |
| ConfigEditor | `apps/ConfigEditor` | copies of what it has read from the database, in seven models | edits the database |

Three kinds of threads share the acquisition half: the Qt main thread, one
thread per source, and the worker. They meet at atomics in each source
(`m_running`, `m_state`), at the mutex of the queue, at the mutex of the frame
buffer, and at the joins of `cleanup()`. The live half runs on the main thread
of the server and on the main threads of the monitors, and meets only through
UDP datagrams. Editor and server are two programs that meet in the database, with
no transaction around what the server reads.

What is hard there, and therefore what the properties are about:

* start and stop: any of five steps of a start may fail, a source may fail while
  it is being stopped, and everything must be joined before it is destroyed;
* the path of a sample: no sample may be lost or repeated between device and
  archive, whatever the order of threads and of the stop;
* publishing: the frames that reach the publisher have gaps, sends fail, and
  the rate and the numbering of every subscription must survive both;
* the archive: a write, a file or the whole program may fail anywhere, and what
  is left on disk must not claim what is not there; frames have gaps, and a
  record is looked up by its frame number;
* the subscription protocol: requests are repeated, answers are late, ports are
  reused, the server restarts and counts its ids from one again, subscriptions
  expire, while the window keeps its own idea of the connection's state;
* editing: every model of the window changes its copy in memory after a write,
  any reading may fail and leave a copy behind, and what is shown in red or
  offered for a choice depends on several copies;
* loading and building: a configuration is pieced together while it may be
  edited, and what is accepted must be exactly what can be calculated: every
  signal in a place of its own, every formula read as it is written, in an order
  in which nothing is used before it is known;
* changing: a change of the experiment is tried on the controller itself and must
  leave no trace when it fails; a module that fails to start must leave no
  hardware open.

`PROJECT.json` lists these as hazards, each at its line with the properties
that would catch it.

## The modules

### AcquisitionPipeline, SampleLog

`AcquisitionPipeline` models a recording session from
`ServerController::start()` to the end of `DataServer::cleanup()`.

* The main thread is `main` with `cursor`, the source its loop has reached. One
  action is one step between two points where another thread could observe a
  difference: `StartDevice` (hardware and anchor) and `LaunchThread` are two
  steps of `LCardDataSource::start()`, `StopSource` and `JoinSource` the two
  sides of a join. Every failure the code handles is a disjunct: the
  configuration is refused, the worker's or a source's `std::thread` throws, a
  device does not start, the socket does not bind.
* The thread of a source is at `test`, `read`, `push`, `setState`, `clear`: each
  is one access to shared state in `run()`. `pending` is the block it has read.
* The worker is at `wait`, `frames`, `archive`. A block is assembled sample by
  sample, because the main thread may read the buffer between two frames.
* A sample is its index. `held[i]` is one more than the index of module i's
  sample in the frame, so that a frame *is* its function `held`, and a record
  of the archive is the pair of its number and that function.

`SampleLog` says what a session promises, with no threads: samples are
acquired, stored one at a time in order, and a session closes only when all are
stored. `RecordsEverySample` is the refinement `Log!Spec`, with `stored <- held`
and `acquired <- nextFrame`.

Abstracted: values, time stamps, statistics, logging. Objects of a session are
reset by `StartSession`, which stands for their construction.

### LivePublisher

`Publisher::publish` for a set of subscriptions that come and go. `Publish(f,
lost)` is one call: every live subscription that is due is sent to, and the sends
in `lost` fail. `DueAgain` is the loop of `updateSchedule` in closed form. The
variables `first`, `last`, `count`, `owed` record what was sent.

### LiveWire, SubscriptionServer, ClientConnection, LiveSession

`LiveWire` has the packets and the network: the set of all packets sent, from
which receiving takes nothing, so that a packet may be lost, repeated, delayed
and reordered. A packet does not outlive the socket of its endpoint, and a packet of
data is gone once `Lifetime` later ones of its subscription have been sent: the
program compares 32-bit numbers by half a circle, and can tell old from new only on a
network that delays no packet by 2^31 others. `count`, of a subscription and of a
packet, and `taken`, of a monitor, are history: how many packets there were, of which
the numbers are what 32 bits keep.
`SubscriptionServer` is `PacketDispatcher` with its cache, `SubscriptionManager`
and the data packets; `ClientConnection` a monitor: the record in `clients[c]`
holds the members of the class and the window's `MonitorState`, the members'
functions are operators on it, and each slot is an action. `LiveSession`
composes them; its server may be restarted, with an empty cache, ids from one,
and another configuration.

The history field `mixed` of a monitor records that it showed values of other
signals; `issued` records which request was given which id.

Abstracted: clocks (any timer that runs may fire; a subscription may expire at
any time, a cached answer be dropped once its request is no longer in flight);
renewals and pings; refusals that one packet alone decides, for which
`InvalidSignal` stands; the capacity of the cache. The server sends no error
`InvalidState`; the client's branch for it is kept.

### ArchiveStorage, ArchiveReader

`ArchiveStorage` models the files of one archive from `initializeArchive()` to
`ArchiveManager::close()`. `phase` and `cursor` say which loop over the targets
is being run and how far it has come: `CreateFile`, `WriteTarget` and `CloseFile`
are one pass of it each, `SkipFrame` is a frame whose calculation failed and
which has used up its number. A file has a `std::fstream` (`stream`, `accepted`:
what it took) in front of the disk (`flushed`, `header`: what would be there if
the program died now). `Spill` writes out some of what was taken, at any time;
`Crash` loses the rest at any step; creating, writing and closing a file may
each fail, and so may the description, seen or unseen. `clean` remembers that
nothing of the kind happened. A record is the number of its frame.

`ArchiveReader` adds `open()`, `read()` and `readFrame()` at any time from when
the description is there: while the archive is written, after it was closed, or
after a crash. `reading[f]` is what the reader keeps of a file: the record count
of the header it saw when it opened it, its position, and whether its stream has
failed. `answer` is the last call of `readFrame()` with what it returned and
whether the archive owed the frame.

Left out: values and channels, the time stamps in headers (they are written
together with the count), descriptions that `open()` rejects, several sessions in
one directory. A part of a record that is left at the end of a file is not
counted: no reader can take it for a record.

### ConfigurationDatabase, ConfigurationEditor

`ConfigurationDatabase` has the tables as sets of rows and an operator for each
statement of `ConfigurationRepository`: `CreateSignal(d, ...)` is the database the
statement leaves, `CanCreateSignal(d, ...)` what statement and schema ask of it
before. Foreign keys that cascade are in the operators that remove, those that
restrict in their conditions. `Loads(d, c)` is `load()` on a database at rest; its
parts (`ModulesAccepted`, `TagsAccepted`, ...) are used again for a load that is
interrupted.

`ConfigurationEditor` is the editor's window. `view` has what its models hold: the
`list` of the selector and the `current` choice, the `tree` of modules and
channels with the marks it computes, the `signals` and the signal in the `panel`,
and the `sources` offered for it; `catalogue` has sensors and types. An edit is an
action: the write, the change of the copy the model makes by itself, and the
readings the handlers connected to it do, which may fail. `stale` names the copies
that the user was warned about. `hidden` has the modules whose rows from channel 16 on
are hidden, as `updateChannelVisibility` leaves them: it is called for every module
when a configuration has been read as far as its signals, and for one module when that
is edited. What is red is what a row that shows has red. A write that fails is not an
action, since it changes neither database nor copies.

Left out: texts that decide nothing, crates and the inventory of modules, the
rows of a calibration while its dialog is open (the dialog is modal, and reaches
every table of points), the order of rows on the screen. A write that was applied
but is reported as failed is taken not to occur.

### FormulaLanguage, SystemBuild, Ltr11Module, ServerApplication

`FormulaLanguage` has the parser, rule by rule, over a sequence of tokens, the
evaluator, and apart from both the grammar: `Meanings` splits a formula at any
operator that leaves readable parts, knows no cursor and no precedence climbing,
and yields the set of outcomes of all readings. `SystemBuild` translates what is
made of a loaded configuration: `Place` and `RawOffset` (the layout),
`RuntimeConfiguration` and `ModulesValidated`, `Compiled` and `Dependencies`,
`CalculationOrder` (the depth-first search with its marks), calibrations, `Built`
(everything that is checked) and `Processed` (a frame). `Sound` and `Consistent`
say the same from what is wanted: no set of calculated signals in which each
reads another, one signal per channel, formulas with a meaning; and a frame in
which every value is what its formula means for the frame's own values.

`Ltr11Module` is one module as its driver sees it: `StartModule` yields every
outcome of the library's calls. `ServerApplication` is the program around it: the
window, the controller, a `loading` that does one statement per action while an
editor writes in between (`EditorWrites`), the measurement and its frames. The
window handles nothing while it loads, since loading is a call. A measurement is
on or off here; how it is started and ended among threads is AcquisitionPipeline.

Doubles are integers, division rounds, and NaN and infinity do not occur. A
formula is a sequence of tokens; scanning characters is left out.

## Runs

| run | module, configuration | shows |
| --- | --- | --- |
| `pipeline_safety` | AcquisitionPipeline, `pipeline_safety.cfg` | clean teardown (`JoinedBeforeTeardown`), queue and archive open while in use (`ResourcesOutliveTheirUsers`), no block before its anchor (`BlocksHaveAnchors`), failures seen and kept (`StoppedByItselfIsError`, `FailureReported`), no frame published twice (`NoFrameDeliveredTwice`), record after record one sample further (`EachRecordAdvancesOneSample`), nothing lost (`RecordsEverySample`) |
| `pipeline_liveness` | AcquisitionPipeline, `pipeline_liveness.cfg` | every cleanup ends (`CleanupCompletes`); a failed module stops the server (`FailureStopsServer`) |
| `pipeline_base_rate` | AcquisitionPipeline, `pipeline_base_rate.cfg` | refutes `FramesKeepBaseRate` |
| `live_publisher` | MCLivePublisher, `live_publisher.cfg` | schedule on its grid (`DueWithinAPeriod`), nothing withheld (`DueOnlyAfterAFailure`), rate kept (`OnePacketPerPeriod`), numbers count packets (`SequenceCountsPackets`) |
| `session_identity` | MCLiveSession, `session_identity.cfg` | a request takes effect once (`OneSubscriptionPerRequest`), a monitor shows only its own signals (`DataBelongsToSubscription`), takes no packet twice or after a newer one and every one that follows, while the numbers wrap (`DataInOrder`) |
| `session_recovery` | MCLiveSession, `session_recovery.cfg` | window and connection agree (`MonitorMatchesConnection`), a recovery goes on (`RecoveryGoesOn`), a watched loss is detected (`LossIsDetectedWhileWatching`) |
| `session_two` | MCLiveSession, `session_two.cfg` | nobody ends another's subscription (`OnlyTheOwnerCancels`) |
| `session_lost_forever` | MCLiveSession, `session_lost_forever.cfg` | refutes `LossIsDetected` |
| `archive` | MCArchive, `archive.cfg` | files before their description (`DescribedFilesExist`), headers never overstate (`HeaderCountsRecords`), a clean archive is complete (`CleanArchiveIsComplete`) and is read back (`ClosedArchiveIsReadable`) |
| `archive_recovers` | MCArchive, `archive_recovers.cfg` | refutes `ReadingRecovers` |
| `editor` | MCConfigurationEditor, `editor.cfg` | the window shows what the database holds (`ViewsMatchDatabase`), no signal measures a channel of another configuration (`SourceWithinConfiguration`), a configuration with nothing in red, whose channels in use all have a row that shows, is loaded and laid out (`UnmarkedConfigurationLoads`), a calibration saved is the one applied (`CalibrationServesItsSensor`) |
| `server` | MCServerApplication, `server.cfg` | a failed change leaves no trace (`WindowAgreesWithController`), exactly the sound configurations are accepted (`AcceptsExactlyTheSound`), frames are consistent (`FrameIsConsistent`), no module is left open (`HardwareFollowsMeasurement`) |

### Bounds

* Pipeline: two modules, which is what it takes for one to fail before, between
  or after the other starts or stops and for their blocks to interleave; blocks
  of one or two frames, so that a block may be partial or full; three frames per
  module, so that a module pushes several blocks. Liveness needs only one frame
  of each. Sessions may follow one another without bound.
* Publisher: frames at 4 Hz with periods of two and four and a rate that does
  not divide; eight frames, two periods of the slow one; a sequence number of
  two values, so that it wraps.
* Session: two requests of a monitor reach the reuse of a request number after
  a restart of the monitor, two ids a second subscription; one restart
  makes ids repeat. For the order of packets `SequenceSpan` is 6 and `Lifetime` 3,
  half of it, and `MaxSequence` lets the first subscription send six packets, which
  takes its numbers round the circle past the reserved zero, with three of them in
  flight in any order and any number of copies, and the second two. With a `Lifetime`
  of four `DataInOrder` fails. `MaxRequests` bounds the
  requests of one process and disables its request actions beyond that, and
  `MaxSequence` the packets of the subscription of each id.
* Archive: two files, so that one fails or is closed while the other is not, one
  at the frame rate and one at half of it, so that frames are due to both and to
  one; three frames, so that the slow file has two records and a skipped frame
  has frames before and behind it. Deadlock is not checked: an archive without a
  description stops for good when it is closed or its writer is dead.

* Editor: it starts on an empty database and on one with two configurations that
  measure the same channel of an LTR11 module, one of them completely, and a
  sensor whose type has a calibration. The module has channels 0 and 16, one with a
  row in every mode and one whose row is hidden in differential mode; three edits
  reach a channel left active in a hidden row, and without the condition on rows in
  `Unmarked` TLC refutes `UnmarkedConfigurationLoads` there. Two configurations are what it takes for
  a copy to belong to the other one. `MaxEdits` is 3: it takes at most three to
  go from a complete configuration to an incomplete one and back (a module or a
  channel off and on with a change of signals between), or from a sensor to
  another owner of its calibration. `MaxFailures` is 1: one failed reading leaves
  a mixture, and any later one is met again from there. Opening, closing and
  choosing are not counted.
* Server: every formula of one to three tokens over two numbers, a signal, the
  calculated signal itself, a function, signs, a quotient and parentheses
  (1110 configurations); three calculated signals that read each other in every
  direction, longer formulas with associativity, precedence and lists of
  arguments among them; configurations with a Test module, without settings, and
  with a channel the hardware refuses; and two configurations with three modules,
  a sensor and a calibration while an editor writes once at any point of a load.
  One write is what it takes to tear a load apart. Two values per channel tell
  the samples of two modules apart.

### Fairness

`AcquisitionPipeline!Fairness`: the operating system schedules every thread,
the 1 ms timer keeps firing, `readBlock()` returns (its time-out is bounded).
Nothing is assumed of the operator, of devices or of the network.
`LiveSession!FairSpec`: the request timer and the data timer of a monitor fire
while they run. Nothing is assumed of the server or the network.

### What the code does not do

* `FramesKeepBaseRate` fails: `FrameAssembler::push` numbers a frame for every
  sample of any module, so that with N modules frames come at N times the base
  frequency, which the archive's and the publisher's periods are computed from.
* `LossIsDetected` fails: `unsubscribe()` stops the data timer, and when the
  request is rejected or answered with an error the subscription is kept but the
  timer is not started again.
* `ReadingRecovers` fails: `readFrame()` asks for the size of the file before it
  seeks, and the size of a stream that has run into its end is 0; the `clear()` in
  `seek()` that is meant to undo this is never reached.

Met while modelling, and not judged by a run because the repository promises
nothing about it, or the model leaves it out:

* `subscribe()` reports an error when the request of a recovery attempt cannot be
  sent (`clientconnection.cpp:186`), which a comment in the window
  (`datamonitor/mainwindow.cpp:500`) says does not happen.
* When the first load fails and a later choice succeeds, the start button stays
  disabled: the handler of the selector does not call `updateControls()`. When the
  controller's configuration is not in the selector's list, a change that fails
  leaves the selector on the configuration that was not loaded.
* `build()` does not check all a start needs: a channel beyond 15 in differential
  mode is refused by the hardware's validator only, and an unknown function or a
  wrong number of arguments fails at every frame. In the model a formula like
  that has a meaning without a value, so that it is sound and yields no frames.
* `Ltr11Module::readBlock()` returns a result whose status is an error when it
  times out or gets part of a frame, so that one late block stops the server.
  A configuration with a Test module starts and never yields a frame.
* The rows the editor hides do not always follow the mode of the module. When the mode
  is edited while the second cell of the module's row is current (the column
  "Параметры"), `rowCount()` of that cell is 0 (`configurationtreemodel.cpp:226`):
  nobody is asked about the channels in use, and no row is hidden or shown again, so
  that the channels of a module set back to 32 stay out of reach until the
  configuration is chosen again or the module's box is used. When the signals of a
  configuration could not be read, all rows show (`configurationeditor.cpp:1728`).
* A change to differential mode keeps the channels from 16 on active. The question the
  user is asked (`configurationpropertiesmodel.cpp:273`) says that they will be
  unavailable for measuring and their settings kept; in fact the server refuses the
  whole configuration, in the layout where such a channel has no raw signal
  and in the hardware's validator where it has. Their rows are hidden, so that no red
  tells of the first: `Unmarked` has to ask that every channel in use has a row.
* The editor marks neither two signals on one channel nor a measuring signal
  without a channel, both of which the server refuses: `Unmarked` has to exclude
  them. The panel offers the sensors there were when the editor started
  (`catalogue.offered`). A tree that cannot be read when no configuration is left
  and a list that cannot be read at the start are not reported.
* The channel rate an operator enters is not used: the builder sets 1000 Hz.

## Proofs

TLAPS checks these for every value of the constants that satisfies the modules'
assumptions.

* `AcquisitionPipeline_proofs` (`PipelineTypes`, `TeardownIsClean`,
  `ResourcesAreOpen`, `LostSourceIsError`, `FailuresAreKept`). The properties
  speak of the end of a session and are not inductive. `Lifecycle` says, for
  every place of the main thread, which sources exist (`SourceLifecycle`), what
  their threads have stored so far (`ThreadLifecycle`), and whether worker,
  queue and archive are alive (`SessionLifecycle`). The lemmas called
  `...Footprint` say which actions write which variables, so that each part of
  the invariant needs a case for those only.
* In the same module, its second half (`NoFrameTwice`, `AnchorsBeforeBlocks`,
  `EverySampleIsRecorded`, `RecordsAdvance`), for any number of modules, any size
  of blocks and any number of frames. Streams begin with sample 0 and are announced
  before their first block (`AnchorsComeFirst`). `Contiguous` puts the samples of a
  module in one line: the queue's blocks (`Chain`) begin where the block taken by the
  worker ends and reach the block its thread is about to push. So the worker's next
  sample is one that was acquired, and with `NothingLeftBehind` the end of `cleanup()`
  finds everything stored: this is the refinement of `SampleLog`. `RecordsInOrder`
  ties the archive's last record to the frame being written. The last two theorems
  assume that no calculation fails (`CalculationMayFail = FALSE`); a failed one
  drops the rest of its block, and the log is then not implemented.
* `LivePublisher_proofs` (`PublisherTypes`, `DueOnTheGrid`, `NothingWithheld`,
  `RateIsRespected`, `NumbersCount`). The invariant puts the next due frame at a
  multiple of the period after the first packet, and the last packet less than a
  period before it; the arithmetic of `\div` is in lemmas of its own.
* `LiveSession_proofs` (`SessionTypes`, `SubscribedOnce`, `WindowTellsTheTruth`,
  `RecoveryNeverStalls`, `OwnersOnly`). For the server, the invariant adds that
  every request that was given an id is still in the cache (`Remembered`) and
  that an accepting answer names an id (`AnswersHaveIds`). For a monitor, `Good`
  is everything the invariant says of it; one lemma per operator of
  ClientConnection says what it does to a good monitor, one per action that it
  leaves a good one, and `FineStepsKeep` puts them together.
* In the same module, its second half (`NoForeignValues`, `InOrder`), about the
  packets of data. `DInv` follows what the server promises: an accepting answer,
  cached or on its way, and a subscription promise an id and its signals
  (`Promises`), at most one list of signals for an id (`OnePromisePerId`), and what
  is promised under the id of a monitor's subscription is what the monitor asked for
  (`Served`). A step of a monitor is one of five kinds (`Quiet`, `Opens`, `Sends`,
  `Learns`, `Takes`), each with a lemma. For the order, `OInv` adds that
  the number of a packet is its count on the circle without zero (`IsNumberOf`,
  `NumbersCount`), that no packet in flight is `Lifetime` older than another one
  (`PacketsAreRecent`) or than the one a monitor took last (`TakenIsRecent`). Then the two counts that
  `isNewerSequence` compares are less than half a circle apart and their numbers are
  in the order of the counts (`CircleOrder`). `InOrder` is thus proved for any number
  of packets; what it assumes is the network's `Lifetime <= SequenceSpan \div 2`.

* `ArchiveReader_proofs` (`ArchiveTypes`, `DescribedIsThere`,
  `HeadersCountRecords`, `CleanIsComplete`,
  `ReadBackWhole`), for any number of files and any periods. The invariant puts
  disk behind stream and header behind disk (`DiskBehindStream`) and files before
  their description (`CreatedInOrder`). `CleanRecords` says that the records of a
  file are exactly the multiples of its period below the frame reached, which
  differs between files on the two sides of the cursor while a frame is written;
  `NextFrameRecorded` is its arithmetic. With `CleanStreams`, which follows the
  files through their closing, that is what a reader finds.

* `ConfigurationDatabase_proofs` has a lemma for each statement: it keeps the
  schema (`SchemaHolds`) and changes only the rows it is about.
* `ConfigurationEditor_proofs` (`EditorTypes`, `ViewsFollow`, `Sources`,
  `UnmarkedLoads`, `Calibrations`), for any inventory, names, rates and
  formulas, any number of edits and of failures. The invariant has a part for each copy
  (`TreeMatches`, `MarksMatch`, ...), which says that it is the database's unless
  it is named in `stale`. Two more parts are needed: marks computed by a tree that
  was not read are stale too, and a signal shown, however old, has in the database
  the kind it is shown with, since edits of stale rows reach the database. Which rows
  are hidden is apart from all of it (`VisibilityIsApart`): nothing ties `hidden` to
  the modes, which the code does not keep together either.
  `UnmarkedLoads`, with the conditions of `Unmarked`, and `Calibrations` follow from the copies being right.
* `SystemBuild_proofs` (`ParseExists`, `VisitExists`, `OrderIsRight`,
  `SampleOfSignal`, `EvaluationIsMeaning`, `FormulasHold`, `ParserFollowsGrammar`,
  `TreeReadsNames`, `OneMeaning`). The
  parser and the order of calculation are recursive functions, and the folds of the
  library are recursive too; what such a function is can only be said once one is
  known to exist. `FoldsExist` says so of folds, by the number of elements;
  `ParseExists` of the parser, by the distance of a call from the end of the formula
  (`Weight`: five times the tokens left, and the methods below the one called);
  `VisitExists` of the visits, by the signals not marked yet (`Todo`). Each is built
  in stages, every stage right for one distance more. `OrderIsRight` says what a visit
  passes on (`Sorted`): what is marked visited is in the order, once, after what it
  depends on; and what is being visited depends on the signal visited now
  (`Chained`), so that an order is refused for a circle only. `SampleOfSignal` ties the
  layout to the assembler: the offset of a module is the number of the tags placed
  before it (`OffsetIsLength`), and every cell is written by the module that has its
  tag and by no other (`FilledStays`).

  `EvaluationIsMeaning` is the proof that parser and evaluator together follow the
  grammar, for every list of tokens and all values. What a list of nodes does to the
  stack is a relation between what lay on it before and after (`Turns`), closed under
  joining lists; a list that stands for a phrase `Pushes` the values of that phrase
  and leaves what lies below alone. `Fits` says for each method of the parser what its
  result is to the grammar: a sum, a product, a signed part and a primary `Mean` the
  phrase from the token they were called at to the one they stop at, and the loops over
  `+`, `-` and over `*`, `/` carry on any phrase that stops where they start
  (`GoesOn`), which is what makes operators group to the left. `RuleFits` shows one
  method to fit if the ones it calls do, and the weight that made the parser terminate
  carries it to all. `FormulasHold` takes this into a frame: every step of the plan writes
  a cell that no signal calculated before reads (`LaterIsNotRead`, from
  `OrderIsRight`), so what was true of a cell when it was written is true at the end
  (`CalculatedTo`, by the number of steps).

  `ParserFollowsGrammar` is the other direction: the parser accepts every formula the
  grammar reads in any way. The grammar splits a phrase at an operator, the parser runs
  into it from the left and stops at the first token it cannot use, so what has to be
  shown is where a method may stop. `AllGot` says it for all phrases between two tokens:
  a method called at the first stops at the second (`Gets`), if the token there cannot
  belong to the phrase; for a sum, a product or a list of arguments it stops wherever what
  follows, called there, would stop. It is carried by the number of tokens between the two
  (`EveryPhraseGot`), with a lemma for each kind of phrase. `TreeReadsNames` says that
  a tree reads exactly the names in its formula; it is carried by the parser's own
  weight, as `EvaluationIsMeaning` is. With both, `Dependencies`, which `CalculationOrder`
  goes by, are the names `WithoutCycles` goes by (`OrderedIfAcyclic`).

  `OneMeaning` says that the grammar is not ambiguous, so that `EvaluationIsMeaning`
  leaves nothing open: a list of tokens the grammar reads has one meaning, and it is
  what the evaluator calculates. Every method of the parser has one result at most
  (`ParseHasOne`), and by `EveryPhraseGot` it stops at the end of any phrase that begins
  where it was called; so a part of a phrase that begins at one token ends at one
  (`EndOnce`), if no token follows that could go on from it. A phrase is a chain of such
  parts (`IsChain`), so it has one first part (`FirstPart`), what begins two chains alike
  can be taken away from both (`RestIsPhrase`), and a phrase is split at one place
  (`OneSplit`). By the length of a phrase it means one thing (`EveryPhraseMeansOne`).
* `ServerApplication_proofs` (`ServerIsTyped`, `WindowAgrees`, `HardwareFollows`,
  `EverySampleInPlace`, `EveryFrameIsConsistent`, `BuiltIsSound`, `OnlyTheSoundIsAccepted`,
  `ModuleStartsOrIsReleased`, `ModuleStops`), for any
  databases an editor leaves (`ServerAssumption`) and any writes of the editor. The
  invariant of the window splits by what is loading: nothing (`Settled`), the first
  configuration (`FirstLoad`), or another one, when it says what to go back to
  (`Switching`). `HInv` adds that the database keeps its schema (`Sane`), that what
  was read are rows of its tables (`Recorded`), and which modules acquire
  (`HardwareRests`): `StartedSources` follows the loop over the sources one by one
  and has an outcome for each module, started or not. `FInv` adds that the signals
  that were read have their own names and ids and that the last frame was
  calculated of one set of samples (`FramesShown`); with the lemmas about assembly
  every cell of it holds a sample, and with `FormulasHold` the whole frame is
  consistent (`EveryFrameIsConsistent`).

  `BuiltIsSound` takes from `SystemBuild_proofs` which formulas are parsed and in which
  configurations they are ordered, and adds the layout: it fails exactly if a channel has
  no signal or two, or a signal no channel (`LaysOutIfSound`). It has two hypotheses besides the
  types of the rows: signals have ids and names of their own (`SignalsApart`), and every
  channel is of a module that was loaded (`TagsHaveModules`); the layout places channels
  module by module and would pass over any other. The keys of the database and the checks
  of the load establish them.
  `AInv` adds that the channels that were read are
  of modules that were read before them (`ModulesBeforeTags`): the two statements may
  see different states of the database, and it is the check between them that keeps
  the two together. That gives `BuiltIsSound` its hypotheses, and so
  `OnlyTheSoundIsAccepted`.

Every safety property a passing run checks is stated by one of these theorems. Only
model-checked is everything about liveness (`CleanupCompletes`, `FailureStopsServer`,
`LossIsDetectedWhileWatching`), which is out of the prover's reach.

## What is left

In the order of what it would add:

1. The pipeline's archive replaced by `ArchiveStorage`, so that the gaps of failed
   calculations reach the reader.
2. Leases of subscriptions with a clock: renewals, expiry, the age and the
   capacity of the cache of responses.
3. The framing of packets and what `PacketReader` refuses; the descriptions of an
   archive that `open()` refuses.

## Not modelled

* Charts, tables, colours, widths and dialogs of settings, and logging: nothing
  else depends on their state.
* Bytes: packets, headers and records are records of their fields, and tokens stand
  for characters. Their limits are only seen where a field wraps.
* Clocks: see the abstractions above. The directory of a session is named by the
  second it starts in, which needs a clock to be told from another one.
* The inventory of crates and modules and the connection to the database: no
  program of the system writes the one, and the other either answers or fails.
* `libs/livestorage`, `LiveScheduler`, `Scheduler`, `HardwareFactory`, `ModuleLoader`,
  `libs/server`, `libs/common`: not part of the build; `3rdparty/qcustomplot`.
