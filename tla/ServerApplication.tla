--------------------------- MODULE ServerApplication ---------------------------
(* The server's window and its controller: opening the application, switching
   the experiment, starting and stopping the measurement, and the frames that are
   calculated while it runs.
   A configuration is loaded by a series of statements outside any transaction,
   each of which may fail, while an editor on another machine writes to the same
   database: what is loaded may never have been in the database as a whole.  The
   window handles nothing else while it loads.                                 *)
EXTENDS SystemBuild, Ltr11Module

CONSTANTS
  InitialDatabases, (* pairs: a database, and the writes of an editor to come  *)
  SavedIds,         (* configurations the settings file may name               *)
  Samples           (* values a channel may have                               *)

\* The databases are ones the editor leaves, and ids are numbers.
ASSUME ServerAssumption ==
  /\ \A d \in InitialDatabases :
       SchemaHolds(d[1]) /\ d[2] \in Nat /\ \A t \in Tables : IsFiniteSet(d[1][t])
  /\ SavedIds \subseteq Nat

VARIABLES
  db,         \* the configuration database
  left,       \* writes the editor will still make, at most
  saved,      \* the configuration the settings file names
  open,       \* the application is running
  controller, \* ServerController: m_configurationId, m_configurationLoaded, ...
  loading,    \* the load in progress
  window,     \* MainWindow: the selector, the table of modules, the start button
  running,    \* a measurement runs
  devices,    \* the modules, as their drivers see them
  frame       \* the last frame published

vars == <<db, left, saved, open, controller, loading, window, running, devices, frame>>

Nothing == [id |-> NoId, modules |-> <<>>, tags |-> <<>>, signals |-> <<>>, types |-> {}, sensors |-> {},
            calibrations |-> {}]
NotLoading == [stage |-> "none", read |-> Nothing, pending |-> {}, previous |-> NoId,
               wasLoaded |-> FALSE, first |-> FALSE]
NoController == [id |-> NoId, loaded |-> FALSE, configuration |-> Nothing]
NoWindow == [list |-> {}, selector |-> NoId, modules |-> <<>>, startEnabled |-> FALSE]
NoFrame == [samples |-> <<>>, raw |-> <<>>, calculated |-> <<>>]

Idle == open /\ loading.stage = "none"

-----------------------------------------------------------------------------
(* The editor, as far as it changes what is loaded. *)

Edited(d) ==
  UNION {
    {SetConfigModuleActive(d, m.configuration, m.module, ~m.active) : m \in d.modules},
    {SetConfigTagActive(d, t.id, ~t.active) : t \in d.tags},
    {RemoveConfiguration(d, c.id) : c \in d.configurations},
    {RemoveSignal(d, s.id) : s \in d.signals},
    {UpdateSignal(d, s.id, "sensor", NoId) : s \in d.signals},
    {UpdateSignal(d, s.id, "tag", NoId) : s \in {r \in d.signals : r.kind = "Raw"}},
    {RemoveSensor(d, s.id) : s \in {r \in d.sensors : CanRemoveSensor(d, r.id)}},
    {CreateSensor(CreateSensorType(d, n), n, d.next["types"]) :
       n \in {m \in Names : CanCreateSensorType(d, m)}}}

EditorWrites ==
  /\ left > 0
  /\ left' = left - 1
  /\ db' \in Edited(db) \ {db}
  /\ UNCHANGED <<saved, open, controller, loading, window, running, devices, frame>>

-----------------------------------------------------------------------------
(* Loading: ServerController::loadConfiguration(). *)

\* A statement is done, with what it added to the configuration.
Reads(stage, column, rows, next) ==
  /\ loading.stage = stage
  /\ loading' = [loading EXCEPT !.stage = next, !.read[column] = rows]
  /\ UNCHANGED <<db, left, saved, open, controller, window, running, devices, frame>>

ReadsConfiguration ==
  /\ controller.id \in Ids(db.configurations)
  /\ Reads("configuration", "id", controller.id, "modules")

ReadsModules ==
  LET rows == ActiveModules(db, controller.id)
  IN /\ ModulesAccepted(rows)
     /\ \E modules \in SetToSeqs(rows) : Reads("modules", "modules", modules, "tags")

ReadsTags ==
  LET rows == ActiveTags(db, controller.id)
  IN /\ TagsAccepted(ToSet(loading.read.modules), rows)
     /\ \E tags \in SetToSeqs(rows) : Reads("tags", "tags", tags, "signals")

ReadsSignals ==
  LET rows == SignalsOf(db, controller.id)
  IN /\ SignalsAccepted(ToSet(loading.read.tags), rows)
     /\ \E signals \in SetToSeqs(rows) : Reads("signals", "signals", signals, "types")

ReadsTypes == Reads("types", "types", db.types, "sensors")

\* loadSensors(): a sensor of a type that was not read fails it.
ReadsSensors ==
  /\ \A s \in db.sensors : s.type \in Ids(loading.read.types)
  /\ Reads("sensors", "sensors", db.sensors, "calibrations")

\* loadCalibrations(): the list, and then the data of each in the order of ids.
ReadsCalibrations ==
  /\ loading.stage = "calibrations"
  /\ loading' = [loading EXCEPT !.stage = "data", !.pending = Ids(db.calibrations)]
  /\ UNCHANGED <<db, left, saved, open, controller, window, running, devices, frame>>

ReadsData ==
  /\ loading.stage = "data"
  /\ \E i \in loading.pending :
       LET k == RowOf(db.calibrations, i)
       IN /\ \A j \in loading.pending : i <= j
          /\ DataIsWhole(k.kind, k.data)
          /\ loading' = [loading EXCEPT !.pending = @ \ {i}, !.read.calibrations = @ \cup {k}]
  /\ UNCHANGED <<db, left, saved, open, controller, window, running, devices, frame>>

\* updateModules(): the table has the modules in their order.
ModulesShown(cfg) == [i \in DOMAIN cfg.modules |-> cfg.modules[i].module]

\* saveConfigurationId(): the settings file, which may not be writable.
SavedAs(c) == IF c = NoId THEN {saved} ELSE {saved, c}

\* All was read.  The constructor then sets the buttons; after a choice in the
\* selector the choice is saved, if it can be, and the buttons stay as they are.
LoadSucceeds ==
  /\ loading.stage = "data" /\ loading.pending = {}
  /\ controller' = [controller EXCEPT !.loaded = TRUE, !.configuration = loading.read]
  /\ window' = [window EXCEPT !.modules = ModulesShown(loading.read),
                              !.startEnabled = IF loading.first THEN TRUE ELSE @]
  /\ saved' \in IF loading.first THEN {saved} ELSE SavedAs(controller.id)
  /\ loading' = NotLoading
  /\ UNCHANGED <<db, left, open, running, devices, frame>>

InSelector(c, otherwise) == IF c \in Ids(window.list) THEN c ELSE otherwise

\* Any statement failed, or what it read was refused: an earlier configuration
\* stays loaded, and the selector goes back to it, where it still has it.
Restored_NewId == [controller EXCEPT !.loaded = loading.wasLoaded]
Restored == [controller EXCEPT !.id = loading.previous, !.loaded = loading.wasLoaded]

LoadFails ==
  /\ loading.stage # "none"
  /\ IF loading.first
     THEN UNCHANGED <<controller, window>>
     ELSE /\ controller' = Restored
          /\ window' = [window EXCEPT !.selector = InSelector(loading.previous, @)]
  /\ loading' = NotLoading
  /\ UNCHANGED <<db, left, saved, open, running, devices, frame>>

-----------------------------------------------------------------------------
(* The window. *)

\* DataStreamSourceManager::stop().
Stopped(all) == [m \in Modules |-> StopModule(all[m])]

\* The constructors of controller and window; the selector's list may fail to load.
Open ==
  /\ ~open
  /\ open' = TRUE
  /\ controller' = [NoController EXCEPT !.id = saved]
  /\ \E list \in {db.configurations, {}} :
       window' = [NoWindow EXCEPT !.list = list,
                                  !.selector = IF saved \in Ids(list) THEN saved ELSE NoId]
  /\ loading' = [NotLoading EXCEPT !.stage = "configuration", !.first = TRUE]
  /\ UNCHANGED <<db, left, saved, running, devices, frame>>

Close ==
  /\ Idle
  /\ open' = FALSE
  /\ controller' = NoController
  /\ window' = NoWindow
  /\ running' = FALSE
  /\ devices' = Stopped(devices)
  /\ frame' = NoFrame
  /\ UNCHANGED <<db, left, saved, loading>>

\* setConfigurationId().  The case of the id it has already does not arise: the
\* selector shows it, and choosing what is shown is no change.
SelectConfiguration(c) ==
  /\ Idle /\ ~running
  /\ c \in Ids(window.list) /\ c # window.selector
  /\ c # controller.id
  /\ window' = [window EXCEPT !.selector = c]
  /\ controller' = [controller EXCEPT !.id = c, !.loaded = FALSE]
  /\ loading' = [NotLoading EXCEPT !.stage = "configuration", !.previous = controller.id,
                                   !.wasLoaded = controller.loaded]
  /\ UNCHANGED <<db, left, saved, open, running, devices, frame>>

\* The factories of registerDataSources(), by the type of the module, and
\* DataStreamSourceManager::initialize(), which makes a source of every module.
SourceCreated(cfg, m) ==
  ModuleType[m.module] = "LTR11" => Ltr11Builds(RuntimeConfiguration(cfg, m))
SourcesCreated(cfg) == \A m \in ToSet(cfg.modules) : SourceCreated(cfg, m)

\* DataStreamSourceManager::start(): the sources in the order of the modules, up
\* to the first that does not start.  A source whose thread cannot be made has
\* stopped its module again.  Test modules have no hardware.
SourceStarts(m, d) ==
  LET runtime == RuntimeConfiguration(controller.configuration, m)
      started == StartModule(d, runtime.settings.mode, ToSet(runtime.tags))
  IN IF ModuleType[m.module] = "Test" THEN {Outcome(d, TRUE)}
     ELSE started \cup {Outcome(StopModule(o.device), FALSE) : o \in started}

SourcesStart(cfg) ==
  FoldLeft(LAMBDA results, m :
             UNION {IF ~r.ok THEN {r}
                    ELSE {[devices |-> [r.devices EXCEPT ![m.module] = o.device], ok |-> o.ok] :
                            o \in SourceStarts(m, r.devices[m.module])} : r \in results},
           {[devices |-> devices, ok |-> TRUE]}, cfg.modules)

\* A start that fails, for the configuration, the archive's directory or the
\* hardware, stops the sources it has started and leaves the window alone.
Start ==
  /\ Idle /\ ~running
  /\ window.startEnabled
  /\ Built(controller.configuration) # {}
  /\ SourcesCreated(controller.configuration)
  /\ \E r \in SourcesStart(controller.configuration) :
       \/ /\ r.ok
          /\ devices' = r.devices
          /\ running' = TRUE
          /\ window' = [window EXCEPT !.startEnabled = FALSE]
       \/ /\ devices' = Stopped(r.devices)
          /\ UNCHANGED <<running, window>>
  /\ UNCHANGED <<db, left, saved, open, controller, loading, frame>>

StopServer ==
  /\ running' = FALSE
  /\ devices' = Stopped(devices)
  /\ frame' = NoFrame
  /\ window' = [window EXCEPT !.startEnabled = controller.loaded]
  /\ UNCHANGED <<db, left, saved, open, controller, loading>>

\* The stop button, or a source that was lost.
Stop == Idle /\ running /\ StopServer

\* A sample of each channel of each module; a frame that cannot be calculated is
\* dropped.  A test module delivers nothing, and the assembler waits for it.
FrameArrives ==
  /\ Idle /\ running
  /\ \A m \in ToSet(controller.configuration.modules) : ModuleType[m.module] # "Test"
  /\ \E plan \in Built(controller.configuration),
        samples \in [Ids(ToSet(controller.configuration.tags)) -> Samples] :
       \E f \in Processed(controller.configuration, plan, samples) :
         frame' = [samples |-> samples, raw |-> f.raw, calculated |-> f.calculated]
  /\ UNCHANGED <<db, left, saved, open, controller, loading, window, running, devices>>

-----------------------------------------------------------------------------
Init ==
  /\ \E d \in InitialDatabases : db = d[1] /\ left = d[2]
  /\ saved \in SavedIds
  /\ open = FALSE
  /\ controller = NoController
  /\ loading = NotLoading
  /\ window = NoWindow
  /\ running = FALSE
  /\ devices = [m \in Modules |-> Off]
  /\ frame = NoFrame

Loading ==
  \/ ReadsConfiguration \/ ReadsModules \/ ReadsTags \/ ReadsSignals
  \/ ReadsTypes \/ ReadsSensors \/ ReadsCalibrations \/ ReadsData
  \/ LoadSucceeds \/ LoadFails

Next ==
  \/ EditorWrites
  \/ Loading
  \/ Open \/ Close
  \/ \E c \in Ids(window.list) : SelectConfiguration(c)
  \/ Start \/ Stop
  \/ FrameArrives

Spec == Init /\ [][Next]_vars

-----------------------------------------------------------------------------
(* Properties. *)

Stages == {"none", "configuration", "modules", "tags", "signals", "types", "sensors",
           "calibrations", "data"}

\* The variables have the shapes the handlers expect: what was read is in the types
\* of the columns, and every cell of a frame holds a number.
TypeOK ==
  /\ RowsAreTyped(db)
  /\ left \in Nat /\ saved \in Nat
  /\ open \in BOOLEAN /\ running \in BOOLEAN
  /\ devices \in [Modules -> Devices]
  /\ controller.id \in Nat /\ controller.loaded \in BOOLEAN
  /\ loading.stage \in Stages /\ loading.previous \in Nat /\ loading.pending \subseteq Nat
  /\ window.selector \in Nat /\ window.startEnabled \in BOOLEAN
  /\ running => \A c \in DOMAIN frame.raw : frame.raw[c] \in Samples

\* Between two clicks the parts agree on what is loaded: a loaded configuration is
\* the one the controller's id names, the selector shows that id where its list has
\* it, the table shows its modules, and the start button and a measurement are only
\* there for a loaded configuration.  A change that cannot be loaded leaves all of
\* this as it was.
WindowAgreesWithController ==
  Idle =>
    /\ controller.loaded =>
         /\ controller.configuration.id = controller.id
         /\ window.modules = ModulesShown(controller.configuration)
    /\ controller.id \in Ids(window.list) => window.selector = controller.id
    /\ window.startEnabled \/ running => controller.loaded
    /\ ~(window.startEnabled /\ running)

\* The hardware follows the measurement: the modules of the loaded configuration
\* acquire while it runs, and no module is left open or acquiring otherwise, no
\* matter which step of which module failed.
HardwareFollowsMeasurement ==
  LET used == {m.module : m \in {n \in ToSet(controller.configuration.modules) :
                                    ModuleType[n.module] = "LTR11"}}
  IN \A m \in Modules :
       devices[m].handle = IF running /\ m \in used THEN "acquiring" ELSE "closed"

\* What is loaded, from whatever states of the database it was pieced together, is
\* accepted exactly if it is sound: no sound configuration is refused and none that
\* is not sound is started.
AcceptsExactlyTheSound ==
  Idle /\ controller.loaded =>
    (Built(controller.configuration) # {} <=> Sound(controller.configuration))

\* A published frame is consistent in itself: no calculated signal was calculated
\* from the value another one had before, and no sample is in another signal's place.
FrameIsConsistent ==
  frame # NoFrame => Consistent(controller.configuration, frame.samples, frame)
==============================================================================
