------------------------ MODULE ServerApplication_proofs ------------------------
(* The window of the server and its controller agree on what is loaded, whatever
   load fails at whatever statement and whatever an editor writes meanwhile; every
   frame is consistent; a configuration is built exactly if it is sound, and so is
   what is loaded accepted exactly if it is sound: for any databases, modules and
   formulas.                                                                    *)
EXTENDS ServerApplication, SystemBuild_proofs, ConfigurationDatabase_proofs, TLAPS,
        WellFoundedInduction, FiniteSetTheorems

-----------------------------------------------------------------------------
(* The inductive invariant. *)

Columns == {"id", "modules", "tags", "signals", "types", "sensors", "calibrations"}

Shapes ==
  /\ DOMAIN controller = {"id", "loaded", "configuration"}
  /\ DOMAIN window = {"list", "selector", "modules", "startEnabled"}
  /\ DOMAIN loading = {"stage", "read", "pending", "previous", "wasLoaded", "first"}
  /\ DOMAIN loading.read = Columns
  /\ controller.loaded \in BOOLEAN /\ window.startEnabled \in BOOLEAN
  /\ loading.wasLoaded \in BOOLEAN /\ loading.first \in BOOLEAN
  /\ running \in BOOLEAN /\ open \in BOOLEAN

\* A configuration that was loaded stays that of an id, and the table shows it.
LoadedAs(i) ==
  controller.configuration.id = i /\ window.modules = ModulesShown(controller.configuration)

SelectorAgrees == controller.id \in Ids(window.list) => window.selector = controller.id

\* Nothing is loading.
Settled ==
  loading.stage = "none" =>
    /\ controller.loaded => LoadedAs(controller.id)
    /\ window.startEnabled \/ running => controller.loaded
    /\ ~(window.startEnabled /\ running)

\* The first load of the application: nothing was loaded before.
FirstLoad ==
  loading.stage # "none" /\ loading.first =>
    ~controller.loaded /\ ~window.startEnabled

\* A load after a choice in the selector: what to go back to when it fails.
Switching ==
  loading.stage # "none" /\ ~loading.first =>
    /\ loading.wasLoaded => LoadedAs(loading.previous)
    /\ window.startEnabled => loading.wasLoaded

\* A load has read the row of the configuration the controller names.
ReadFor ==
  loading.stage \notin {"none", "configuration"} => loading.read.id = controller.id

SInv ==
  /\ Shapes /\ SelectorAgrees /\ Settled /\ FirstLoad /\ Switching /\ ReadFor
  /\ loading.stage # "none" => open /\ ~running
  /\ ~open => ~running

-----------------------------------------------------------------------------
(* Every action keeps it. *)

LEMMA ShapesOfConstants ==
  /\ DOMAIN NoController = {"id", "loaded", "configuration"} /\ NoController.loaded = FALSE
  /\ DOMAIN NoWindow = {"list", "selector", "modules", "startEnabled"}
  /\ NoWindow.startEnabled = FALSE /\ NoWindow.list = {}
  /\ DOMAIN NotLoading = {"stage", "read", "pending", "previous", "wasLoaded", "first"}
  /\ DOMAIN NotLoading.read = Columns /\ NotLoading.stage = "none"
  /\ NotLoading.wasLoaded = FALSE /\ NotLoading.first = FALSE
BY DEF NoController, NoWindow, NotLoading, Nothing, Columns

\* A statement of a load.  The first alone reads the row of the configuration.
RightColumn(stage, column, rows) ==
  /\ stage = "configuration" => column = "id" /\ rows = controller.id
  /\ stage # "configuration" => column # "id"

LEMMA ReadsKeeps ==
  ASSUME SInv, NEW stage, stage \notin {"none"}, NEW column \in Columns, NEW rows, NEW next,
         next \notin {"none", "configuration"}, Reads(stage, column, rows, next),
         RightColumn(stage, column, rows)
  PROVE  SInv'
<1>1. /\ loading.stage = stage
      /\ loading' = [loading EXCEPT !.stage = next, !.read[column] = rows]
      /\ UNCHANGED <<open, controller, window, running>>
  BY DEF Reads
<1>2. /\ DOMAIN loading' = DOMAIN loading /\ loading'.stage = next
      /\ loading'.read = [loading.read EXCEPT ![column] = rows]
      /\ loading'.wasLoaded = loading.wasLoaded /\ loading'.first = loading.first
      /\ loading'.previous = loading.previous
  BY <1>1 DEF SInv, Shapes
<1>3. DOMAIN loading'.read = Columns /\ loading'.read.id = controller.id
  BY <1>1, <1>2 DEF SInv, Shapes, ReadFor, Columns, RightColumn
<1>4. Shapes'
  BY <1>1, <1>2, <1>3 DEF SInv, Shapes
<1>5. SelectorAgrees' /\ Settled' /\ ReadFor'
  BY <1>1, <1>2, <1>3 DEF SInv, SelectorAgrees, Settled, ReadFor
<1>6. FirstLoad' /\ Switching'
  BY <1>1, <1>2 DEF SInv, FirstLoad, Switching, LoadedAs
<1> QED
  BY <1>1, <1>2, <1>4, <1>5, <1>6 DEF SInv

\* The calibrations, which are read one by one.
LEMMA CalibrationsKeep ==
  ASSUME SInv, ReadsCalibrations \/ ReadsData
  PROVE  SInv'
<1>1. /\ loading.stage \in {"calibrations", "data"}
      /\ DOMAIN loading' = DOMAIN loading /\ loading'.stage = "data"
      /\ DOMAIN loading'.read = Columns /\ loading'.read.id = loading.read.id
      /\ loading'.wasLoaded = loading.wasLoaded /\ loading'.first = loading.first
      /\ loading'.previous = loading.previous
      /\ UNCHANGED <<open, controller, window, running>>
  <2>1. CASE ReadsCalibrations
    BY <2>1 DEF SInv, Shapes, ReadsCalibrations
  <2>2. CASE ReadsData
    <3>1. PICK i, k :
            loading' = [loading EXCEPT !.pending = @ \ {i}, !.read.calibrations = @ \cup {k}]
      BY <2>2 DEF ReadsData
    <3>2. /\ DOMAIN loading' = DOMAIN loading /\ loading'.stage = loading.stage
          /\ loading'.read = [loading.read EXCEPT !.calibrations = @ \cup {k}]
          /\ loading'.wasLoaded = loading.wasLoaded /\ loading'.first = loading.first
          /\ loading'.previous = loading.previous
      BY <3>1 DEF SInv, Shapes
    <3>3. DOMAIN loading'.read = Columns /\ loading'.read.id = loading.read.id
      BY <3>2 DEF SInv, Shapes, Columns
    <3> QED
      BY <2>2, <3>2, <3>3 DEF ReadsData
  <2> QED
    BY <2>1, <2>2
<1>2. Shapes' /\ SelectorAgrees' /\ Settled' /\ ReadFor'
  BY <1>1 DEF SInv, Shapes, SelectorAgrees, Settled, ReadFor
<1>3. FirstLoad' /\ Switching'
  BY <1>1 DEF SInv, FirstLoad, Switching, LoadedAs
<1> QED
  BY <1>1, <1>2, <1>3 DEF SInv

LEMMA LoadSucceedsKeeps ==
  ASSUME SInv, LoadSucceeds
  PROVE  SInv'
<1>1. /\ loading.stage = "data" /\ loading' = NotLoading /\ UNCHANGED <<open, running>>
      /\ controller' = [controller EXCEPT !.loaded = TRUE, !.configuration = loading.read]
      /\ window' = [window EXCEPT !.modules = ModulesShown(loading.read),
                                  !.startEnabled = IF loading.first THEN TRUE ELSE @]
  BY DEF LoadSucceeds
<1>2. /\ DOMAIN controller' = DOMAIN controller /\ controller'.id = controller.id
      /\ controller'.loaded = TRUE /\ controller'.configuration = loading.read
  BY <1>1 DEF SInv, Shapes
<1>3. /\ DOMAIN window' = DOMAIN window /\ window'.list = window.list
      /\ window'.selector = window.selector /\ window'.modules = ModulesShown(loading.read)
      /\ window'.startEnabled \in BOOLEAN
  BY <1>1 DEF SInv, Shapes
<1>4. loading.read.id = controller.id /\ ~running
  BY <1>1 DEF SInv, ReadFor
<1>5. Shapes' /\ SelectorAgrees' /\ ReadFor' /\ FirstLoad' /\ Switching'
  BY <1>1, <1>2, <1>3, ShapesOfConstants
     DEF SInv, Shapes, SelectorAgrees, ReadFor, FirstLoad, Switching
<1>6. Settled'
  BY <1>1, <1>2, <1>3, <1>4 DEF Settled, LoadedAs
<1> QED
  BY <1>1, <1>4, <1>5, <1>6, ShapesOfConstants DEF SInv

LEMMA LoadFailsKeeps ==
  ASSUME SInv, LoadFails
  PROVE  SInv'
<1>1. loading.stage # "none" /\ loading' = NotLoading /\ UNCHANGED <<open, running>> /\ ~running
  BY DEF LoadFails, SInv
<1>2. CASE loading.first
  <2>1. UNCHANGED <<controller, window>>
    BY <1>2 DEF LoadFails
  <2> QED
    BY <1>1, <1>2, <2>1, ShapesOfConstants
       DEF SInv, Shapes, SelectorAgrees, Settled, ReadFor, FirstLoad, Switching
<1>3. CASE ~loading.first
  <2>1. /\ controller' = [controller EXCEPT !.id = loading.previous, !.loaded = loading.wasLoaded]
        /\ window' = [window EXCEPT !.selector = InSelector(loading.previous, @)]
    BY <1>3 DEF LoadFails, Restored
  <2>2. /\ DOMAIN controller' = DOMAIN controller /\ controller'.id = loading.previous
        /\ controller'.loaded = loading.wasLoaded
        /\ controller'.configuration = controller.configuration
    BY <2>1 DEF SInv, Shapes
  <2>3. /\ DOMAIN window' = DOMAIN window /\ window'.list = window.list
        /\ window'.selector = InSelector(loading.previous, window.selector)
        /\ window'.modules = window.modules /\ window'.startEnabled = window.startEnabled
    BY <2>1 DEF SInv, Shapes
  <2>4. Shapes' /\ ReadFor' /\ FirstLoad' /\ Switching'
    BY <1>1, <2>2, <2>3, ShapesOfConstants DEF SInv, Shapes, ReadFor, FirstLoad, Switching
  <2>5. SelectorAgrees'
    BY <2>2, <2>3 DEF SelectorAgrees, InSelector
  <2>6. Settled'
    BY <1>1, <1>3, <2>2, <2>3 DEF SInv, Settled, Switching, LoadedAs
  <2> QED
    BY <1>1, <2>4, <2>5, <2>6, ShapesOfConstants DEF SInv
<1> QED
  BY <1>2, <1>3

LEMMA LoadingKeeps ==
  ASSUME SInv, Loading
  PROVE  SInv'
<1>1. CASE ReadsConfiguration
  <2>1. Reads("configuration", "id", controller.id, "modules")
    BY <1>1 DEF ReadsConfiguration
  <2>2. "id" \in Columns /\ RightColumn("configuration", "id", controller.id)
    BY DEF Columns, RightColumn
  <2> QED
    BY <2>1, <2>2, ReadsKeeps
<1>2. CASE ReadsModules
  <2>1. PICK rows : Reads("modules", "modules", rows, "tags")
    BY <1>2 DEF ReadsModules
  <2>2. "modules" \in Columns /\ RightColumn("modules", "modules", rows)
    BY DEF Columns, RightColumn
  <2> QED
    BY <2>1, <2>2, ReadsKeeps
<1>3. CASE ReadsTags
  <2>1. PICK rows : Reads("tags", "tags", rows, "signals")
    BY <1>3 DEF ReadsTags
  <2>2. "tags" \in Columns /\ RightColumn("tags", "tags", rows)
    BY DEF Columns, RightColumn
  <2> QED
    BY <2>1, <2>2, ReadsKeeps
<1>4. CASE ReadsSignals
  <2>1. PICK rows : Reads("signals", "signals", rows, "types")
    BY <1>4 DEF ReadsSignals
  <2>2. "signals" \in Columns /\ RightColumn("signals", "signals", rows)
    BY DEF Columns, RightColumn
  <2> QED
    BY <2>1, <2>2, ReadsKeeps
<1>5. CASE ReadsTypes
  <2>1. PICK rows : Reads("types", "types", rows, "sensors")
    BY <1>5 DEF ReadsTypes
  <2>2. "types" \in Columns /\ RightColumn("types", "types", rows)
    BY DEF Columns, RightColumn
  <2> QED
    BY <2>1, <2>2, ReadsKeeps
<1>6. CASE ReadsSensors
  <2>1. PICK rows : Reads("sensors", "sensors", rows, "calibrations")
    BY <1>6 DEF ReadsSensors
  <2>2. "sensors" \in Columns /\ RightColumn("sensors", "sensors", rows)
    BY DEF Columns, RightColumn
  <2> QED
    BY <2>1, <2>2, ReadsKeeps
<1> QED
  BY <1>1, <1>2, <1>3, <1>4, <1>5, <1>6, CalibrationsKeep, LoadSucceedsKeeps, LoadFailsKeeps
     DEF Loading

LEMMA OpenKeeps ==
  ASSUME SInv, Open
  PROVE  SInv'
<1>1. /\ open' = TRUE /\ running' = running /\ ~running
      /\ controller' = [NoController EXCEPT !.id = saved]
      /\ loading' = [NotLoading EXCEPT !.stage = "configuration", !.first = TRUE]
  BY DEF Open, SInv
<1>2. PICK list :
        window' = [NoWindow EXCEPT !.list = list,
                                   !.selector = IF saved \in Ids(list) THEN saved ELSE NoId]
  BY DEF Open
<1>3. /\ DOMAIN controller' = DOMAIN NoController /\ controller'.id = saved
      /\ controller'.loaded = FALSE
  BY <1>1, ShapesOfConstants
<1>4. /\ DOMAIN window' = DOMAIN NoWindow /\ window'.list = list
      /\ window'.startEnabled = FALSE
      /\ window'.selector = IF saved \in Ids(list) THEN saved ELSE NoId
  BY <1>2, ShapesOfConstants
<1>5. /\ DOMAIN loading' = DOMAIN NotLoading /\ loading'.stage = "configuration"
      /\ loading'.first = TRUE /\ loading'.wasLoaded = FALSE
      /\ loading'.read = NotLoading.read
  BY <1>1, ShapesOfConstants
<1>6. Shapes' /\ SelectorAgrees' /\ ReadFor'
  BY <1>1, <1>3, <1>4, <1>5, ShapesOfConstants DEF SInv, Shapes, SelectorAgrees, ReadFor
<1>7. Settled' /\ FirstLoad' /\ Switching'
  BY <1>3, <1>4, <1>5 DEF Settled, FirstLoad, Switching
<1> QED
  BY <1>1, <1>5, <1>6, <1>7 DEF SInv

LEMMA CloseKeeps ==
  ASSUME SInv, Close
  PROVE  SInv'
<1>1. /\ open' = FALSE /\ running' = FALSE /\ controller' = NoController
      /\ window' = NoWindow /\ loading' = loading /\ loading.stage = "none"
  BY DEF Close, Idle
<1>2. Shapes' /\ SelectorAgrees' /\ ReadFor'
  BY <1>1, ShapesOfConstants DEF SInv, Shapes, SelectorAgrees, ReadFor, Ids
<1>3. Settled' /\ FirstLoad' /\ Switching'
  BY <1>1, ShapesOfConstants DEF Settled, FirstLoad, Switching
<1> QED
  BY <1>1, <1>2, <1>3 DEF SInv

LEMMA SelectConfigurationKeeps ==
  ASSUME SInv, NEW c, SelectConfiguration(c)
  PROVE  SInv'
<1>1. /\ loading.stage = "none" /\ open /\ ~running /\ UNCHANGED <<open, running>>
      /\ window' = [window EXCEPT !.selector = c]
      /\ controller' = [controller EXCEPT !.id = c, !.loaded = FALSE]
      /\ loading' = [NotLoading EXCEPT !.stage = "configuration", !.previous = controller.id,
                                       !.wasLoaded = controller.loaded]
  BY DEF SelectConfiguration, Idle
<1>2. /\ DOMAIN controller' = DOMAIN controller /\ controller'.id = c
      /\ controller'.loaded = FALSE /\ controller'.configuration = controller.configuration
  BY <1>1 DEF SInv, Shapes
<1>3. /\ DOMAIN window' = DOMAIN window /\ window'.list = window.list /\ window'.selector = c
      /\ window'.modules = window.modules /\ window'.startEnabled = window.startEnabled
  BY <1>1 DEF SInv, Shapes
<1>4. /\ DOMAIN loading' = DOMAIN NotLoading /\ loading'.stage = "configuration"
      /\ loading'.first = FALSE /\ loading'.wasLoaded = controller.loaded
      /\ loading'.previous = controller.id /\ loading'.read = NotLoading.read
  BY <1>1, ShapesOfConstants
<1>5. Shapes' /\ SelectorAgrees' /\ ReadFor' /\ Settled' /\ FirstLoad'
  BY <1>1, <1>2, <1>3, <1>4, ShapesOfConstants
     DEF SInv, Shapes, SelectorAgrees, ReadFor, Settled, FirstLoad
<1>6. Switching'
  BY <1>1, <1>2, <1>3, <1>4 DEF SInv, Settled, Switching, LoadedAs
<1> QED
  BY <1>1, <1>4, <1>5, <1>6 DEF SInv

\* Starting and stopping move the button and the measurement alone.
LEMMA MeasurementKeeps ==
  ASSUME SInv, Start \/ Stop
  PROVE  SInv'
<1>1. /\ open /\ loading.stage = "none" /\ UNCHANGED <<open, controller, loading>>
      /\ \/ UNCHANGED <<running, window>>
         \/ /\ running' = TRUE /\ window.startEnabled
            /\ window' = [window EXCEPT !.startEnabled = FALSE]
         \/ /\ running' = FALSE
            /\ window' = [window EXCEPT !.startEnabled = controller.loaded]
  BY DEF Start, Stop, StopServer, Idle
<1>2. /\ DOMAIN window' = DOMAIN window /\ window'.list = window.list
      /\ window'.selector = window.selector /\ window'.modules = window.modules
      /\ \/ running' = running /\ window'.startEnabled = window.startEnabled
         \/ running' = TRUE /\ window.startEnabled /\ window'.startEnabled = FALSE
         \/ running' = FALSE /\ window'.startEnabled = controller.loaded
  BY <1>1 DEF SInv, Shapes
<1>3. Shapes' /\ SelectorAgrees' /\ ReadFor' /\ FirstLoad' /\ Switching'
  BY <1>1, <1>2 DEF SInv, Shapes, SelectorAgrees, ReadFor, FirstLoad, Switching
<1>4. Settled'
  BY <1>1, <1>2 DEF SInv, Shapes, Settled, LoadedAs
<1> QED
  BY <1>1, <1>3, <1>4 DEF SInv

LEMMA InitHolds == Init => SInv
BY ShapesOfConstants
   DEF Init, SInv, Shapes, SelectorAgrees, Settled, FirstLoad, Switching, ReadFor, Ids

LEMMA NextKeeps == SInv /\ [Next]_vars => SInv'
<1> SUFFICES ASSUME SInv, [Next]_vars PROVE SInv'
  OBVIOUS
<1>1. CASE UNCHANGED <<open, controller, loading, window, running>>
  BY <1>1 DEF SInv, Shapes, SelectorAgrees, Settled, FirstLoad, Switching, ReadFor, LoadedAs
<1>2. CASE EditorWrites \/ FrameArrives \/ UNCHANGED vars
  BY <1>1, <1>2 DEF EditorWrites, FrameArrives, vars
<1> QED
  BY <1>2, LoadingKeeps, OpenKeeps, CloseKeeps, SelectConfigurationKeeps, MeasurementKeeps
     DEF Next

\* Between two clicks the window, the controller and the measurement agree on what is
\* loaded: a switch that fails anywhere leaves what was loaded before, with its table,
\* its place in the selector and its start button.
THEOREM WindowAgrees == Spec => []WindowAgreesWithController
<1>1. SInv => WindowAgreesWithController
  BY DEF SInv, SelectorAgrees, Settled, LoadedAs, WindowAgreesWithController, Idle
<1>2. Spec => []SInv
  BY InitHolds, NextKeeps, PTL DEF Spec
<1> QED
  BY <1>1, <1>2, PTL

-----------------------------------------------------------------------------
(* One module of hardware. *)

IsOff(d) == ~d.initialized /\ ~d.opened /\ ~d.started /\ d.handle = "closed"
IsAcquiring(d) == d.initialized /\ d.opened /\ d.started /\ d.handle = "acquiring"

\* A module that is off and is started acquires, or is off again, whichever step of
\* its start failed.
THEOREM ModuleStartsOrIsReleased ==
  ASSUME NEW d \in Devices, IsOff(d), NEW mode, NEW channels,
         NEW o \in StartModule(d, mode, channels)
  PROVE  o.device \in Devices /\ IF o.ok THEN IsAcquiring(o.device) ELSE IsOff(o.device)
<1> DEFINE ready == [d EXCEPT !.initialized = TRUE]
           connected == ConfigureConnection(ready)
           tabled == UNION {IF r.ok THEN ConfigureChannels(r.device, mode, channels)
                                    ELSE {r} : r \in connected}
           timed == UNION {IF r.ok THEN ConfigureFrequency(r.device) ELSE {r} : r \in tabled}
           acquiring == UNION {IF r.ok THEN StartAcquisition(r.device) ELSE {r} : r \in timed}
           fits(r) == /\ r.device \in Devices
                      /\ r.device.initialized /\ ~r.device.started
                      /\ r.ok => r.device.opened /\ r.device.handle = "open"
<1>0. \A x : /\ Outcome(x, TRUE).device = x /\ Outcome(x, TRUE).ok = TRUE
            /\ Outcome(x, FALSE).device = x /\ Outcome(x, FALSE).ok = FALSE
  BY DEF Outcome
<1>1. \A r \in connected : fits(r)
  <2>1. ready \in Devices /\ ready.initialized /\ ~ready.started /\ ~ready.opened
    BY DEF Devices, IsOff
  <2> HIDE DEF ready
  <2> DEFINE shut == [ready EXCEPT !.handle = "closed"]
             joined == [ready EXCEPT !.opened = TRUE, !.handle = "open"]
  <2>2. shut \in Devices /\ shut.initialized /\ ~shut.started
    BY <2>1 DEF Devices
  <2>3. /\ joined \in Devices /\ joined.initialized /\ ~joined.started
        /\ joined.opened /\ joined.handle = "open"
    BY <2>1 DEF Devices
  <2>4. connected = {Outcome(ready, FALSE), Outcome(shut, FALSE), Outcome(joined, TRUE)}
    BY <2>1 DEF ConfigureConnection
  <2> HIDE DEF shut, joined, connected
  <2> TAKE r \in connected
  <2>5. CASE r = Outcome(ready, FALSE)
    BY <1>0, <2>1, <2>5
  <2>6. CASE r = Outcome(shut, FALSE)
    BY <1>0, <2>2, <2>6
  <2>7. CASE r = Outcome(joined, TRUE)
    BY <1>0, <2>3, <2>7
  <2> QED
    BY <2>4, <2>5, <2>6, <2>7
<1> HIDE DEF connected
<1>2. \A r \in tabled : fits(r)
  <2> TAKE r \in tabled
  <2>1. PICK q \in connected :
          r \in IF q.ok THEN ConfigureChannels(q.device, mode, channels) ELSE {q}
    OBVIOUS
  <2>2. q.ok => r.device = q.device
    BY <2>1 DEF ConfigureChannels, Outcome
  <2> QED
    BY <1>1, <2>1, <2>2
<1> HIDE DEF tabled
<1>3. \A r \in timed : fits(r)
  <2> TAKE r \in timed
  <2>1. PICK q \in tabled : r \in IF q.ok THEN ConfigureFrequency(q.device) ELSE {q}
    OBVIOUS
  <2>2. q.ok => r.device = q.device
    BY <1>0, <2>1 DEF ConfigureFrequency
  <2> QED
    BY <1>2, <2>1, <2>2
<1> HIDE DEF timed
<1>4. \A r \in acquiring :
        /\ r.device \in Devices
        /\ r.ok => IsAcquiring(r.device)
        /\ ~r.ok => ~r.device.started
  <2> TAKE r \in acquiring
  <2>1. PICK q \in timed : r \in IF q.ok THEN StartAcquisition(q.device) ELSE {q}
    OBVIOUS
  <2>2. CASE ~q.ok
    BY <1>3, <2>1, <2>2
  <2>3. CASE q.ok
    <3> DEFINE started == [q.device EXCEPT !.started = TRUE, !.handle = "acquiring"]
    <3>1. q.device \in Devices /\ q.device.initialized /\ ~q.device.started /\ q.device.opened
      BY <1>3, <2>3
    <3>2. started \in Devices /\ IsAcquiring(started)
      BY <3>1 DEF Devices, IsAcquiring
    <3>3. r = Outcome(q.device, FALSE) \/ r = Outcome(started, TRUE)
      BY <2>1, <2>3 DEF StartAcquisition
    <3> HIDE DEF started
    <3> QED
      BY <1>0, <3>1, <3>2, <3>3
  <2> QED
    BY <2>2, <2>3
<1>5. \/ o = Outcome(d, FALSE)
      \/ \E r \in acquiring : o = IF r.ok THEN r ELSE Outcome(Released(r.device), FALSE)
  <2> HIDE DEF acquiring
  <2>1. ~d.started
    BY DEF IsOff
  <2>2. CASE ~HardwareAccepts(mode, channels)
    BY <2>1, <2>2 DEF StartModule
  <2>3. CASE HardwareAccepts(mode, channels)
    <3>1. StartModule(d, mode, channels) =
            {IF r.ok THEN r ELSE Outcome(Released(r.device), FALSE) : r \in acquiring} \cup
              (IF d.initialized THEN {} ELSE {Outcome(d, FALSE)})
      BY <2>1, <2>3 DEF StartModule, acquiring, timed, tabled, connected
    <3> QED
      BY <3>1
  <2> QED
    BY <2>2, <2>3
<1> HIDE DEF acquiring
<1>6. \A x \in Devices : ~x.started => Released(x) \in Devices /\ IsOff(Released(x))
  BY DEF Released, IsOff, Devices
<1>7. CASE o = Outcome(d, FALSE)
  BY <1>0, <1>7
<1>8. CASE \E r \in acquiring : o = IF r.ok THEN r ELSE Outcome(Released(r.device), FALSE)
  <2>1. PICK r \in acquiring : o = IF r.ok THEN r ELSE Outcome(Released(r.device), FALSE)
    BY <1>8
  <2>2. CASE r.ok
    BY <1>4, <2>1, <2>2
  <2>3. CASE ~r.ok
    BY <1>0, <1>4, <1>6, <2>1, <2>3
  <2> QED
    BY <2>2, <2>3
<1> QED
  BY <1>5, <1>7, <1>8

\* A module that was started and is stopped is off, so that it can be started again.
THEOREM ModuleStops ==
  ASSUME NEW d \in Devices, IsAcquiring(d) \/ IsOff(d)
  PROVE  StopModule(d) \in Devices /\ IsOff(StopModule(d))
<1>1. CASE IsOff(d)
  <2>1. StopModule(d) = [d EXCEPT !.initialized = FALSE]
    BY <1>1 DEF StopModule, IsOff
  <2> QED
    BY <1>1, <2>1 DEF IsOff, Devices
<1>2. CASE IsAcquiring(d)
  <2> DEFINE halted == [d EXCEPT !.started = FALSE, !.handle = "open"]
             closed == [halted EXCEPT !.opened = FALSE, !.handle = "closed"]
  <2>1. halted \in Devices /\ ~halted.started
    BY DEF Devices
  <2>2. StopModule(d) = [closed EXCEPT !.initialized = FALSE]
    BY <1>2 DEF StopModule, IsAcquiring, Devices
  <2> HIDE DEF halted
  <2>3. closed \in Devices /\ ~closed.started /\ ~closed.opened /\ closed.handle = "closed"
    BY <2>1 DEF Devices
  <2> HIDE DEF closed
  <2> QED
    BY <2>2, <2>3 DEF IsOff, Devices
<1> QED
  BY <1>1, <1>2

-----------------------------------------------------------------------------
(* The rows of a database that an editor has, of which there are finitely many. *)

\* The rows of every table are finitely many.
RowsAreFinite(d) == \A t \in Tables : IsFiniteSet(d[t])

LEMMA ImageIsFinite ==
  ASSUME NEW S, IsFiniteSet(S), NEW f, f \in [S -> {f[x] : x \in S}]
  PROVE  IsFiniteSet({f[x] : x \in S})
<1>1. f \in Surjection(S, {f[x] : x \in S})
  BY DEF Surjection
<1> QED
  BY <1>1, FS_Surjection

LEMMA UpdatedIsFinite ==
  ASSUME NEW rows, IsFiniteSet(rows), NEW i, NEW column, NEW value
  PROVE  IsFiniteSet(Updated(rows, i, column, value))
<1> DEFINE f == [r \in rows |-> IF r.id = i THEN [r EXCEPT ![column] = value] ELSE r]
<1>1. Updated(rows, i, column, value) = {f[r] : r \in rows}
  BY DEF Updated
<1>2. f \in [rows -> {f[r] : r \in rows}]
  OBVIOUS
<1> HIDE DEF f
<1> QED
  BY <1>1, <1>2, ImageIsFinite

LEMMA UpdatedModulesAreFinite ==
  ASSUME NEW d, RowsAreTyped(d), IsFiniteSet(d.modules), NEW c, NEW m, NEW column, NEW value
  PROVE  IsFiniteSet(UpdateConfigModule(d, c, m, column, value).modules)
<1> DEFINE f == [r \in d.modules |-> IF r.configuration = c /\ r.module = m
                                     THEN [r EXCEPT ![column] = value] ELSE r]
<1>1. UpdateConfigModule(d, c, m, column, value).modules = {f[r] : r \in d.modules}
  BY DEF UpdateConfigModule, RowsAreTyped, Tables
<1>2. f \in [d.modules -> {f[r] : r \in d.modules}]
  OBVIOUS
<1> HIDE DEF f
<1> QED
  BY <1>1, <1>2, ImageIsFinite

\* A statement that rewrites or adds to one table.
LEMMA OneTableFinite ==
  ASSUME NEW d, RowsAreFinite(d), RowsAreTyped(d), NEW table \in Tables, NEW rows,
         IsFiniteSet(rows)
  PROVE  RowsAreFinite([d EXCEPT ![table] = rows])
<1>1. \A t \in Tables \ {table} : [d EXCEPT ![table] = rows][t] = d[t]
  BY RewriteIsLocal DEF OnlyTable
<1>2. [d EXCEPT ![table] = rows][table] = rows
  BY RewriteIsLocal
<1> QED
  BY <1>1, <1>2 DEF RowsAreFinite

LEMMA InsertedFinite ==
  ASSUME NEW d, RowsAreFinite(d), RowsAreTyped(d), NEW table \in Tables, NEW row
  PROVE  RowsAreFinite(Inserted(d, table, row))
<1>1. \A t \in Tables \ {table} : Inserted(d, table, row)[t] = d[t]
  BY InsertIsLocal DEF OnlyTable
<1>2. Inserted(d, table, row)[table] = d[table] \cup {row}
  BY InsertIsLocal
<1>3. IsFiniteSet(d[table] \cup {row})
  BY FS_AddElement DEF RowsAreFinite
<1> QED
  BY <1>1, <1>2, <1>3 DEF RowsAreFinite

\* A database the editor may leave.
Sane(d) == SchemaHolds(d) /\ RowsAreFinite(d)

LEMMA RemovedFinite ==
  ASSUME NEW d, Sane(d), NEW i
  PROVE  RowsAreFinite(RemoveConfiguration(d, i))
<1> DEFINE e == RemoveConfiguration(d, i)
<1>1. RowsAreTyped(d)
  BY DEF Sane, SchemaHolds
<1>2. \A t \in Tables : e[t] \in SUBSET d[t]
  BY <1>1 DEF RemoveConfiguration, RowsAreTyped, Tables
<1> QED
  BY <1>2, FS_Subset DEF Sane, RowsAreFinite

LEMMA EditedKeeps ==
  ASSUME NEW d, Sane(d), NEW e \in Edited(d)
  PROVE  Sane(e)
<1>0. SchemaHolds(d) /\ RowsAreTyped(d) /\ RowsAreFinite(d)
  BY DEF Sane, SchemaHolds
<1>1. CASE \E m \in d.modules : e = SetConfigModuleActive(d, m.configuration, m.module, ~m.active)
  <2>1. PICK m \in d.modules : e = SetConfigModuleActive(d, m.configuration, m.module, ~m.active)
    BY <1>1
  <2>2. m.active \in BOOLEAN
    BY <1>0 DEF RowsAreTyped, ModuleRows
  <2>3. SchemaHolds(e)
    BY <1>0, <2>1, <2>2, UpdateConfigModuleKeeps DEF SetConfigModuleActive
  <2>4. RowsAreFinite(e)
    <3>1. IsFiniteSet(d.modules) /\ "modules" \in Tables
      BY <1>0 DEF RowsAreFinite, Tables
    <3>2. IsFiniteSet(e.modules)
      BY <1>0, <2>1, <3>1, UpdatedModulesAreFinite DEF SetConfigModuleActive
    <3>3. e = [d EXCEPT !["modules"] = e.modules]
      BY <1>0, <2>1 DEF SetConfigModuleActive, UpdateConfigModule, RowsAreTyped, Tables
    <3> QED
      BY <1>0, <3>1, <3>2, <3>3, OneTableFinite
  <2> QED
    BY <2>3, <2>4 DEF Sane
<1>2. CASE \E t \in d.tags : e = SetConfigTagActive(d, t.id, ~t.active)
  <2>1. PICK t \in d.tags : e = SetConfigTagActive(d, t.id, ~t.active)
    BY <1>2
  <2>2. t.active \in BOOLEAN
    BY <1>0 DEF RowsAreTyped, TagRows
  <2>3. SchemaHolds(e)
    BY <1>0, <2>1, <2>2, UpdateTagKeeps DEF SetConfigTagActive
  <2>4. RowsAreFinite(e)
    <3>1. IsFiniteSet(d["tags"]) /\ "tags" \in Tables
      BY <1>0 DEF RowsAreFinite, Tables
    <3>2. e = [d EXCEPT !["tags"] = Updated(d.tags, t.id, "active", ~t.active)]
      BY <2>1 DEF SetConfigTagActive
    <3> QED
      BY <1>0, <3>1, <3>2, UpdatedIsFinite, OneTableFinite
  <2> QED
    BY <2>3, <2>4 DEF Sane
<1>3. CASE \E i : e = RemoveConfiguration(d, i)
  BY <1>0, <1>3, RemoveConfigurationKeeps, RemovedFinite DEF Sane
<1>4. CASE \E i : e = RemoveSignal(d, i)
  <2>1. PICK i : e = RemoveSignal(d, i)
    BY <1>4
  <2>2. SchemaHolds(e)
    BY <1>0, <2>1, RemoveSignalKeeps
  <2>3. RowsAreFinite(e)
    <3> DEFINE rows == {s \in d.signals : s.id # i}
    <3>1. IsFiniteSet(d["signals"]) /\ "signals" \in Tables /\ rows \in SUBSET d["signals"]
      BY <1>0 DEF RowsAreFinite, Tables
    <3>2. e = [d EXCEPT !["signals"] = rows]
      BY <2>1 DEF RemoveSignal
    <3> HIDE DEF rows
    <3> QED
      BY <1>0, <3>1, <3>2, FS_Subset, OneTableFinite
  <2> QED
    BY <2>2, <2>3 DEF Sane
<1>5. CASE \E s \in d.signals : \E column \in {"sensor", "tag"} :
             e = UpdateSignal(d, s.id, column, NoId)
  <2>1. PICK s \in d.signals, column \in {"sensor", "tag"} :
          e = UpdateSignal(d, s.id, column, NoId)
    BY <1>5
  <2>2. SchemaHolds(e)
    <3>1. CanUpdateSignalSource(d, s.configuration, s.id, NoId)
      BY DEF CanUpdateSignalSource, HasSignal
    <3>2. NoId \in Nat
      BY DEF NoId
    <3>3. CASE column = "sensor"
      BY <1>0, <2>1, <3>2, <3>3, UpdateSignalKeeps
    <3>4. CASE column = "tag"
      BY <1>0, <2>1, <3>1, <3>4, UpdateSignalKeeps
    <3> QED
      BY <3>3, <3>4
  <2>3. RowsAreFinite(e)
    <3>1. IsFiniteSet(d["signals"]) /\ "signals" \in Tables
      BY <1>0 DEF RowsAreFinite, Tables
    <3>2. e = [d EXCEPT !["signals"] = Updated(d.signals, s.id, column, NoId)]
      BY <2>1 DEF UpdateSignal
    <3> QED
      BY <1>0, <3>1, <3>2, UpdatedIsFinite, OneTableFinite
  <2> QED
    BY <2>2, <2>3 DEF Sane
<1>6. CASE \E i : e = RemoveSensor(d, i) /\ CanRemoveSensor(d, i)
  <2>1. PICK i : e = RemoveSensor(d, i) /\ CanRemoveSensor(d, i)
    BY <1>6
  <2>2. SchemaHolds(e)
    BY <1>0, <2>1, RemoveSensorKeeps
  <2>3. RowsAreFinite(e)
    <3> DEFINE rows == {s \in d.sensors : s.id # i}
    <3>1. IsFiniteSet(d["sensors"]) /\ "sensors" \in Tables /\ rows \in SUBSET d["sensors"]
      BY <1>0 DEF RowsAreFinite, Tables
    <3>2. e = [d EXCEPT !["sensors"] = rows]
      BY <2>1 DEF RemoveSensor
    <3> HIDE DEF rows
    <3> QED
      BY <1>0, <3>1, <3>2, FS_Subset, OneTableFinite
  <2> QED
    BY <2>2, <2>3 DEF Sane
<1>7. CASE \E n \in Names : e = CreateSensor(CreateSensorType(d, n), n, d.next["types"])
  <2>1. PICK n \in Names : e = CreateSensor(CreateSensorType(d, n), n, d.next["types"])
    BY <1>7
  <2> DEFINE typed == CreateSensorType(d, n)
  <2>2. SchemaHolds(typed) /\ RowsAreTyped(typed)
    BY <1>0, CreateSensorTypeKeeps DEF SchemaHolds
  <2>3. RowsAreFinite(typed)
    BY <1>0, InsertedFinite DEF CreateSensorType, Tables
  <2>4. CanCreateSensor(typed, d.next["types"])
    <3>1. typed["types"] = d["types"] \cup {NewSensorType(d, n)}
      BY <1>0, InsertIsLocal DEF CreateSensorType, Tables
    <3>2. NewSensorType(d, n).id = d.next["types"]
      BY DEF NewSensorType
    <3> HIDE DEF typed
    <3> QED
      BY <3>1, <3>2 DEF CanCreateSensor, Ids
  <2> HIDE DEF typed
  <2>5. SchemaHolds(e)
    BY <2>1, <2>2, <2>4, CreateSensorKeeps DEF typed
  <2>6. RowsAreFinite(e)
    BY <2>1, <2>2, <2>3, InsertedFinite DEF typed, CreateSensor, Tables
  <2> QED
    BY <2>5, <2>6 DEF Sane
<1> QED
  BY <1>1, <1>2, <1>3, <1>4, <1>5, <1>6, <1>7 DEF Edited

-----------------------------------------------------------------------------
(* The sources start one by one. *)

IsList(s, S) == \E n \in Nat : s \in [1..n -> S]

LEMMA OkIsBoolean ==
  ASSUME NEW d, NEW mode, NEW channels, NEW o \in StartModule(d, mode, channels)
  PROVE  o.ok \in BOOLEAN
<1> DEFINE ready == [d EXCEPT !.initialized = TRUE]
           connected == ConfigureConnection(ready)
           tabled == UNION {IF r.ok THEN ConfigureChannels(r.device, mode, channels)
                                    ELSE {r} : r \in connected}
           timed == UNION {IF r.ok THEN ConfigureFrequency(r.device) ELSE {r} : r \in tabled}
           acquiring == UNION {IF r.ok THEN StartAcquisition(r.device) ELSE {r} : r \in timed}
<1>0. \A x, ok : Outcome(x, ok).ok = ok
  BY DEF Outcome
<1>1. \A r \in connected : r.ok \in BOOLEAN
  BY <1>0 DEF ConfigureConnection
<1> HIDE DEF connected
<1>2. \A r \in tabled : r.ok \in BOOLEAN
  <2> TAKE r \in tabled
  <2>1. PICK q \in connected : r \in IF q.ok THEN ConfigureChannels(q.device, mode, channels) ELSE {q}
    OBVIOUS
  <2>2. CASE q.ok
    BY <1>0, <2>1, <2>2 DEF ConfigureChannels
  <2>3. CASE ~q.ok
    BY <1>1, <2>1, <2>3
  <2> QED
    BY <1>1, <2>2, <2>3
<1> HIDE DEF tabled
<1>3. \A r \in timed : r.ok \in BOOLEAN
  <2> TAKE r \in timed
  <2>1. PICK q \in tabled : r \in IF q.ok THEN ConfigureFrequency(q.device) ELSE {q}
    OBVIOUS
  <2>2. CASE q.ok
    BY <1>0, <2>1, <2>2 DEF ConfigureFrequency
  <2>3. CASE ~q.ok
    BY <1>2, <2>1, <2>3
  <2> QED
    BY <1>2, <2>2, <2>3
<1> HIDE DEF timed
<1>4. \A r \in acquiring : r.ok \in BOOLEAN
  <2> TAKE r \in acquiring
  <2>1. PICK q \in timed : r \in IF q.ok THEN StartAcquisition(q.device) ELSE {q}
    OBVIOUS
  <2>2. CASE q.ok
    BY <1>0, <2>1, <2>2 DEF StartAcquisition
  <2>3. CASE ~q.ok
    BY <1>3, <2>1, <2>3
  <2> QED
    BY <1>3, <2>2, <2>3
<1>5. \/ o = Outcome(d, TRUE) \/ o = Outcome(d, FALSE)
      \/ \E r \in acquiring : o = IF r.ok THEN r ELSE Outcome(Released(r.device), FALSE)
  <2>1. CASE d.started
    BY <2>1 DEF StartModule
  <2>2. CASE ~d.started /\ ~HardwareAccepts(mode, channels)
    BY <2>2 DEF StartModule
  <2>3. CASE ~d.started /\ HardwareAccepts(mode, channels)
    <3>1. StartModule(d, mode, channels) =
            {IF r.ok THEN r ELSE Outcome(Released(r.device), FALSE) : r \in acquiring} \cup
              (IF d.initialized THEN {} ELSE {Outcome(d, FALSE)})
      BY <2>3 DEF StartModule, acquiring, timed, tabled, connected
    <3> QED
      BY <3>1
  <2> QED
    BY <2>1, <2>2, <2>3
<1> HIDE DEF acquiring
<1> QED
  BY <1>0, <1>4, <1>5

\* What a start of one source leaves of its module.
LEMMA SourceStartsOrIsReleased ==
  ASSUME NEW m, NEW d \in Devices, IsOff(d) \/ IsAcquiring(d), NEW o \in SourceStarts(m, d),
         m.module \in Modules
  PROVE  /\ o.device \in Devices /\ o.ok \in BOOLEAN
         /\ IF ModuleType[m.module] = "LTR11"
            THEN IF o.ok THEN IsAcquiring(o.device) ELSE IsOff(o.device)
            ELSE o.ok /\ o.device = d
<1>0. \A x, ok : Outcome(x, ok).device = x /\ Outcome(x, ok).ok = ok
  BY DEF Outcome
<1>1. CASE ModuleType[m.module] = "Test"
  <2>1. o = Outcome(d, TRUE)
    BY <1>1 DEF SourceStarts
  <2> QED
    BY <1>0, <1>1, <2>1
<1>2. CASE ModuleType[m.module] # "Test"
  <2> DEFINE runtime == RuntimeConfiguration(controller.configuration, m)
             started == StartModule(d, runtime.settings.mode, ToSet(runtime.tags))
  <2>0. ModuleType[m.module] = "LTR11"
    BY <1>2, DatabaseAssumption DEF DatabaseAssumption
  <2>1. \/ o \in started
        \/ \E q \in started : o = Outcome(StopModule(q.device), FALSE)
    BY <1>2 DEF SourceStarts
  <2>2. \A q \in started : /\ q.device \in Devices /\ q.ok \in BOOLEAN
                           /\ IF q.ok THEN IsAcquiring(q.device) ELSE IsOff(q.device)
    <3>1. CASE IsOff(d)
      <4>1. \A q \in started : /\ q.device \in Devices
                               /\ IF q.ok THEN IsAcquiring(q.device) ELSE IsOff(q.device)
        BY <3>1, ModuleStartsOrIsReleased
      <4>2. \A q \in started : q.ok \in BOOLEAN
        BY OkIsBoolean
      <4> QED
        BY <4>1, <4>2
    <3>2. CASE IsAcquiring(d)
      <4>1. started = {Outcome(d, TRUE)}
        BY <3>2 DEF StartModule, IsAcquiring
      <4>2. \A q \in started : q.device = d /\ q.ok = TRUE
        <5> HIDE DEF started
        <5> QED
          BY <1>0, <4>1
      <4> HIDE DEF started
      <4> QED
        BY <3>2, <4>2
    <3> QED
      BY <3>1, <3>2
  <2> HIDE DEF started
  <2>3. CASE o \in started
    BY <2>0, <2>2, <2>3
  <2>4. CASE \E q \in started : o = Outcome(StopModule(q.device), FALSE)
    <3>1. PICK q \in started : o = Outcome(StopModule(q.device), FALSE)
      BY <2>4
    <3>2. StopModule(q.device) \in Devices /\ IsOff(StopModule(q.device))
      BY <2>2, ModuleStops
    <3> QED
      BY <1>0, <2>0, <3>1, <3>2
  <2> QED
    BY <2>1, <2>3, <2>4
<1> QED
  BY <1>1, <1>2

\* The modules a start has come to, and where each of them is.
Rests(d) == IsOff(d) \/ IsAcquiring(d)
Progress == [devices : {f \in [Modules -> Devices] : \A m \in Modules : Rests(f[m])},
             ok : BOOLEAN]

\* The start of one more source, where all before it have started.
OneMoreStarts(results, m) ==
  UNION {IF ~r.ok THEN {r}
         ELSE {[devices |-> [r.devices EXCEPT ![m.module] = o.device], ok |-> o.ok] :
                 o \in SourceStarts(m, r.devices[m.module])} : r \in results}

\* One step, of one result.
LEMMA OneMoreStep ==
  ASSUME NEW results \in SUBSET Progress, NEW m \in ModuleRows,
         NEW q \in OneMoreStarts(results, m)
  PROVE  \E r \in results :
           \/ ~r.ok /\ q = r
           \/ /\ r.ok /\ q \in Progress
              /\ \A n \in Modules \ {m.module} : q.devices[n] = r.devices[n]
              /\ q.ok => IF ModuleType[m.module] = "LTR11"
                         THEN IsAcquiring(q.devices[m.module])
                         ELSE q.devices[m.module] = r.devices[m.module]
<1>1. PICK r \in results :
        q \in IF ~r.ok THEN {r}
              ELSE {[devices |-> [r.devices EXCEPT ![m.module] = o.device], ok |-> o.ok] :
                      o \in SourceStarts(m, r.devices[m.module])}
  BY DEF OneMoreStarts
<1>2. CASE ~r.ok
  BY <1>1, <1>2
<1>3. CASE r.ok
  <2>1. PICK o \in SourceStarts(m, r.devices[m.module]) :
          q = [devices |-> [r.devices EXCEPT ![m.module] = o.device], ok |-> o.ok]
    BY <1>1, <1>3
  <2>2. /\ m.module \in Modules
        /\ r.devices \in [Modules -> Devices]
        /\ \A n \in Modules : Rests(r.devices[n])
    BY DEF Progress, ModuleRows
  <2>3. /\ o.device \in Devices /\ o.ok \in BOOLEAN
        /\ IF ModuleType[m.module] = "LTR11"
           THEN IF o.ok THEN IsAcquiring(o.device) ELSE IsOff(o.device)
           ELSE o.ok /\ o.device = r.devices[m.module]
    BY <2>2, SourceStartsOrIsReleased DEF Rests
  <2>4. /\ q.devices \in [Modules -> Devices] /\ q.ok = o.ok
        /\ q.devices[m.module] = o.device
        /\ \A n \in Modules \ {m.module} : q.devices[n] = r.devices[n]
    BY <2>1, <2>2, <2>3
  <2>5. \A n \in Modules : Rests(q.devices[n])
    BY <2>2, <2>3, <2>4 DEF Rests
  <2>6. q \in Progress
    BY <2>1, <2>3, <2>4, <2>5 DEF Progress
  <2> QED
    BY <1>3, <2>3, <2>4, <2>6
<1> QED
  BY <1>2, <1>3

LEMMA OneMoreProgresses ==
  ASSUME NEW results \in SUBSET Progress, NEW m \in ModuleRows
  PROVE  OneMoreStarts(results, m) \in SUBSET Progress
BY OneMoreStep

\* The sources are started one by one.
LEMMA SourcesStartOneByOne ==
  ASSUME NEW cfg, NEW N \in Nat, cfg.modules \in [1..N -> ModuleRows],
         devices \in [Modules -> Devices], \A m \in Modules : IsOff(devices[m])
  PROVE  \E h \in [0..N -> SUBSET Progress] :
           /\ h[0] = {[devices |-> devices, ok |-> TRUE]}
           /\ \A k \in 1..N : h[k] = OneMoreStarts(h[k - 1], cfg.modules[k])
           /\ SourcesStart(cfg) = h[N]
<1> DEFINE base == {[devices |-> devices, ok |-> TRUE]}
           X == SUBSET Progress
           F == [p \in X \X (1..N) |-> OneMoreStarts(p[1], cfg.modules[p[2]])]
           by(g, s) == IF s = {} THEN base
                       ELSE OneMoreStarts(g[s \ {Max(s)}], cfg.modules[Max(s)])
<1>1. base \in X
  BY DEF Progress, Rests
<1>2. F \in [X \X (1..N) -> X]
  <2>1. \A p \in X \X (1..N) : OneMoreStarts(p[1], cfg.modules[p[2]]) \in X
    <3> TAKE p \in X \X (1..N)
    <3>1. p[1] \in X /\ cfg.modules[p[2]] \in ModuleRows
      OBVIOUS
    <3> HIDE DEF X
    <3> QED
      BY <3>1, OneMoreProgresses DEF X
  <2> QED
    BY <2>1
<1> HIDE DEF F, X, base
<1>3. PICK g \in [SUBSET (1..N) -> X] : FoldsBy(g, N, base, F)
  BY <1>1, <1>2, FoldsExist
<1>4. \A s \in SUBSET (1..N) : g[s] = by(g, s)
  <2> TAKE s \in SUBSET (1..N)
  <2>1. CASE s = {}
    BY <1>3, <2>1 DEF FoldsBy
  <2>2. CASE s # {}
    <3>1. Max(s) \in 1..N /\ s \ {Max(s)} \in SUBSET (1..N)
      BY <2>2, MaxIsThere
    <3>2. g[s] = F[<<g[s \ {Max(s)}], Max(s)>>]
      BY <1>3, <2>2 DEF FoldsBy
    <3>3. g[s \ {Max(s)}] \in X
      BY <1>3, <3>1
    <3>4. F[<<g[s \ {Max(s)}], Max(s)>>] =
            OneMoreStarts(g[s \ {Max(s)}], cfg.modules[Max(s)])
      BY <3>1, <3>3 DEF F
    <3> QED
      BY <2>2, <3>2, <3>4
  <2> QED
    BY <2>1, <2>2
<1> DEFINE iter == CHOOSE i : i = [s \in SUBSET (1..N) |-> by(i, s)]
<1>5. iter = [s \in SUBSET (1..N) |-> by(iter, s)]
  <2>1. g = [s \in SUBSET (1..N) |-> by(g, s)]
    BY <1>3, <1>4
  <2> HIDE DEF by
  <2> QED
    BY <2>1
<1>6. SourcesStart(cfg) = iter[1..N]
  <2>1. DOMAIN cfg.modules = 1..N
    OBVIOUS
  <2> HIDE DEF Max
  <2> QED
    BY <2>1 DEF SourcesStart, FoldLeft, MapThenFoldSet, OneMoreStarts, base
<1> HIDE DEF iter
<1> DEFINE h == [k \in 0..N |-> iter[1..k]]
<1>7. h[0] = base
  <2>1. 1..0 = {} /\ 1..0 \in SUBSET (1..N)
    OBVIOUS
  <2>2. iter[1..0] = by(iter, 1..0)
    BY <1>5, <2>1
  <2> QED
    BY <2>1, <2>2
<1>8. \A k \in 1..N : h[k] = OneMoreStarts(h[k - 1], cfg.modules[k])
  <2> TAKE k \in 1..N
  <2>1. Max(1..k) = k /\ 1..k # {} /\ (1..k) \ {k} = 1..(k - 1)
    BY LastOfPrefix
  <2>2. 1..k \in SUBSET (1..N)
    OBVIOUS
  <2>3. iter[1..k] = by(iter, 1..k)
    BY <1>5, <2>2
  <2>4. by(iter, 1..k) = OneMoreStarts(iter[1..(k - 1)], cfg.modules[k])
    BY <2>1
  <2>5. h[k] = iter[1..k] /\ h[k - 1] = iter[1..(k - 1)]
    OBVIOUS
  <2> HIDE DEF h, by
  <2> QED
    BY <2>3, <2>4, <2>5
<1>9. h[N] = iter[1..N]
  OBVIOUS
<1>10. h \in [0..N -> X]
  <2> DEFINE S == {k \in Nat : k <= N => h[k] \in X}
  <2> HIDE DEF h
  <2>1. 0 \in S
    BY <1>1, <1>7
  <2>2. \A k \in Nat : k \in S => k + 1 \in S
    <3> SUFFICES ASSUME NEW k \in Nat, k + 1 <= N, h[k] \in X PROVE h[k + 1] \in X
      OBVIOUS
    <3>1. h[k + 1] = OneMoreStarts(h[k], cfg.modules[k + 1])
      BY <1>8
    <3>2. cfg.modules[k + 1] \in ModuleRows
      OBVIOUS
    <3> QED
      BY <3>1, <3>2, OneMoreProgresses DEF X
  <2>3. Nat \subseteq S
    <3> HIDE DEF S
    <3> QED
      BY <2>1, <2>2, AllNaturals
  <2>4. \A k \in 0..N : h[k] \in X
    BY <2>3
  <2> QED
    BY <2>4 DEF h
<1> QED
  <2> HIDE DEF h
  <2> QED
    BY <1>6, <1>7, <1>8, <1>9, <1>10 DEF base, X

\* The hardware a configuration uses, and the first of its modules.
Among(cfg, k, n) == ModuleType[n] = "LTR11" /\ \E i \in 1..k : cfg.modules[i].module = n

LEMMA StartedSources ==
  ASSUME NEW cfg, NEW N \in Nat, cfg.modules \in [1..N -> ModuleRows],
         devices \in [Modules -> Devices], \A m \in Modules : IsOff(devices[m]),
         NEW r \in SourcesStart(cfg)
  PROVE  /\ r \in Progress
         /\ r.ok => \A n \in Modules : IF Among(cfg, N, n) THEN IsAcquiring(r.devices[n])
                                                         ELSE IsOff(r.devices[n])
<1>1. PICK h \in [0..N -> SUBSET Progress] :
        /\ h[0] = {[devices |-> devices, ok |-> TRUE]}
        /\ \A k \in 1..N : h[k] = OneMoreStarts(h[k - 1], cfg.modules[k])
        /\ SourcesStart(cfg) = h[N]
  BY SourcesStartOneByOne
<1> DEFINE Right(q, k) == \A n \in Modules : IF Among(cfg, k, n) THEN IsAcquiring(q.devices[n])
                                                                ELSE IsOff(q.devices[n])
           S == {k \in Nat : k <= N => \A q \in h[k] : q.ok => Right(q, k)}
<1>2. 0 \in S
  <2>1. \A n : ~Among(cfg, 0, n)
    BY DEF Among
  <2> QED
    BY <1>1, <2>1
<1>3. \A k \in Nat : k \in S => k + 1 \in S
  <2> SUFFICES ASSUME NEW k \in Nat, k + 1 <= N, \A q \in h[k] : q.ok => Right(q, k),
                      NEW q \in h[k + 1], q.ok
               PROVE  Right(q, k + 1)
    <3> HIDE DEF Right
    <3> QED
      OBVIOUS
  <2> DEFINE m == cfg.modules[k + 1]
  <2>1. m \in ModuleRows /\ h[k] \in SUBSET Progress /\ q \in OneMoreStarts(h[k], m)
    BY <1>1
  <2>2. PICK p \in h[k] :
          \/ ~p.ok /\ q = p
          \/ /\ p.ok /\ q \in Progress
             /\ \A n \in Modules \ {m.module} : q.devices[n] = p.devices[n]
             /\ q.ok => IF ModuleType[m.module] = "LTR11"
                        THEN IsAcquiring(q.devices[m.module])
                        ELSE q.devices[m.module] = p.devices[m.module]
    <3> HIDE DEF m
    <3> QED
      BY <2>1, OneMoreStep
  <2>3. p.ok /\ Right(p, k)
    BY <2>2
  <2>4. \A n : Among(cfg, k + 1, n) <=>
                 Among(cfg, k, n) \/ (ModuleType[n] = "LTR11" /\ n = m.module)
    BY DEF Among
  <2>5. m.module \in Modules
    BY <2>1 DEF ModuleRows
  <2> HIDE DEF m
  <2> SUFFICES ASSUME NEW n \in Modules
               PROVE  IF Among(cfg, k + 1, n) THEN IsAcquiring(q.devices[n])
                                              ELSE IsOff(q.devices[n])
    OBVIOUS
  <2>6. CASE n # m.module
    BY <2>2, <2>3, <2>4, <2>6
  <2>7. CASE n = m.module /\ ModuleType[n] = "LTR11"
    BY <2>2, <2>4, <2>7
  <2>8. CASE n = m.module /\ ModuleType[n] # "LTR11"
    BY <2>2, <2>3, <2>4, <2>8
  <2> QED
    BY <2>6, <2>7, <2>8
<1>4. N \in S
  <2> HIDE DEF S
  <2> QED
    BY <1>2, <1>3, AllNaturals
<1>5. r.ok => Right(r, N)
  BY <1>1, <1>4
<1>6. r \in Progress
  BY <1>1
<1> QED
  BY <1>5, <1>6

-----------------------------------------------------------------------------
(* The hardware, in every state. *)

\* Rows that were read, in the order they came.
IsRead(cfg) ==
  /\ IsList(cfg.modules, ModuleRows)
  /\ IsList(cfg.tags, TagRows)
  /\ IsList(cfg.signals, SignalRows)

Recorded ==
  /\ Sane(db) /\ left \in Nat /\ saved \in Nat
  /\ controller.id \in Nat /\ loading.previous \in Nat /\ loading.pending \subseteq Nat
  /\ loading.stage \in Stages
  /\ window.list \subseteq ConfigurationRows /\ window.selector \in Nat
  /\ IsRead(loading.read) /\ IsRead(controller.configuration)

Used(cfg, n) ==
  ModuleType[n] = "LTR11" /\ \E i \in DOMAIN cfg.modules : cfg.modules[i].module = n

HardwareRests ==
  /\ devices \in [Modules -> Devices]
  /\ \A n \in Modules : IF running /\ Used(controller.configuration, n)
                        THEN IsAcquiring(devices[n]) ELSE IsOff(devices[n])

HInv == SInv /\ Recorded /\ HardwareRests

LEMMA SeqsOfRows ==
  ASSUME NEW rows, IsFiniteSet(rows), NEW S, rows \subseteq S, NEW s \in SetToSeqs(rows)
  PROVE  IsList(s, S)
<1>1. Cardinality(rows) \in Nat
  BY FS_CardinalityType
<1>2. s \in [1..Cardinality(rows) -> rows]
  BY DEF SetToSeqs
<1> QED
  BY <1>1, <1>2 DEF IsList

LEMMA NothingIsRead == IsRead(Nothing)
<1>1. \A S : <<>> \in [1..0 -> S]
  OBVIOUS
<1> QED
  BY <1>1 DEF IsRead, IsList, Nothing

LEMMA InitRecorded == Init => Recorded /\ HardwareRests
<1> SUFFICES ASSUME Init PROVE Recorded /\ HardwareRests
  OBVIOUS
<1>1. Sane(db) /\ left \in Nat /\ saved \in Nat
  BY ServerAssumption DEF Init, ServerAssumption, Sane, RowsAreFinite
<1>2. controller = NoController /\ loading = NotLoading /\ window = NoWindow /\ ~running
  BY DEF Init
<1>3. Recorded
  BY <1>1, <1>2, NothingIsRead
     DEF Recorded, NoController, NotLoading, NoWindow, NoId, Stages
<1>4. HardwareRests
  <2>1. Off \in Devices /\ IsOff(Off)
    BY DEF Off, Devices, IsOff
  <2> QED
    BY <1>2, <2>1 DEF Init, HardwareRests
<1> QED
  BY <1>3, <1>4

LEMMA EditorWritesRecorded ==
  ASSUME HInv, EditorWrites
  PROVE  Recorded' /\ HardwareRests'
<1>1. Sane(db)' /\ left' \in Nat
  <2>1. db' \in Edited(db) /\ left > 0 /\ left' = left - 1
    BY DEF EditorWrites
  <2>2. Sane(db')
    BY <2>1, EditedKeeps DEF HInv, Recorded
  <2>3. Sane(db)' <=> Sane(db')
    BY DEF Sane, RowsAreFinite, SchemaHolds, RowsAreTyped, KeysAreUnique, SourcesAreLocal
  <2> QED
    BY <2>1, <2>2, <2>3 DEF HInv, Recorded
<1> QED
  BY <1>1 DEF EditorWrites, HInv, Recorded, HardwareRests, IsRead, Used

\* The rows of the database, as they can be read.
LEMMA RowsCanBeRead ==
  ASSUME HInv
  PROVE  /\ IsFiniteSet(db.modules) /\ db.modules \subseteq ModuleRows
         /\ IsFiniteSet(db.tags) /\ db.tags \subseteq TagRows
         /\ IsFiniteSet(db.signals) /\ db.signals \subseteq SignalRows
         /\ db.configurations \subseteq ConfigurationRows
         /\ Ids(db.calibrations) \subseteq Nat
<1>1. RowsAreTyped(db) /\ RowsAreFinite(db)
  BY DEF HInv, Recorded, Sane, SchemaHolds
<1> QED
  BY <1>1 DEF RowsAreTyped, RowsAreFinite, Tables, IsCalibration, Ids

\* What a statement reads, if it is one of the rows that are kept in order.
RowsOf(column) ==
  CASE column = "modules" -> ModuleRows
    [] column = "tags" -> TagRows
    [] column = "signals" -> SignalRows

LEMMA ReadsRecorded ==
  ASSUME HInv, NEW stage, stage # "none", NEW column \in Columns, NEW rows, NEW next \in Stages,
         Reads(stage, column, rows, next),
         column \in {"modules", "tags", "signals"} => IsList(rows, RowsOf(column))
  PROVE  Recorded' /\ HardwareRests'
<1>1. /\ loading.stage = stage
      /\ loading' = [loading EXCEPT !.stage = next, !.read[column] = rows]
      /\ UNCHANGED <<db, left, saved, open, controller, window, running, devices>>
  BY DEF Reads
<1>2. /\ loading'.stage = next /\ loading'.previous = loading.previous
      /\ loading'.pending = loading.pending
      /\ loading'.read = [loading.read EXCEPT ![column] = rows]
      /\ DOMAIN loading.read = Columns
  BY <1>1 DEF HInv, SInv, Shapes
<1>4. IsRead(loading'.read)
  BY <1>2 DEF HInv, Recorded, IsRead, RowsOf, Columns
<1>5. HardwareRests'
  BY <1>1 DEF HInv, HardwareRests, Used
<1>6. Recorded'
  BY <1>1, <1>2, <1>4 DEF HInv, Recorded, Sane, RowsAreFinite, SchemaHolds, RowsAreTyped,
     KeysAreUnique, SourcesAreLocal, IsRead
<1> QED
  BY <1>5, <1>6

LEMMA ReadingsRecorded ==
  ASSUME HInv, \/ ReadsConfiguration \/ ReadsModules \/ ReadsTags \/ ReadsSignals
               \/ ReadsTypes \/ ReadsSensors
  PROVE  Recorded' /\ HardwareRests'
<1>0. {"id", "modules", "tags", "signals", "types", "sensors"} \subseteq Columns
  BY DEF Columns
<1>1. CASE ReadsConfiguration
  BY <1>0, <1>1, ReadsRecorded DEF ReadsConfiguration, Stages
<1>2. CASE ReadsModules
  <2>1. PICK s \in SetToSeqs(ActiveModules(db, controller.id)) :
          Reads("modules", "modules", s, "tags")
    BY <1>2 DEF ReadsModules
  <2>2. ActiveModules(db, controller.id) \in SUBSET db.modules
    BY DEF ActiveModules, ModulesOf
  <2>3. IsList(s, ModuleRows)
    BY <2>1, <2>2, RowsCanBeRead, FS_Subset, SeqsOfRows
  <2> QED
    BY <1>0, <2>1, <2>3, ReadsRecorded DEF RowsOf, Stages
<1>3. CASE ReadsTags
  <2>1. PICK s \in SetToSeqs(ActiveTags(db, controller.id)) : Reads("tags", "tags", s, "signals")
    BY <1>3 DEF ReadsTags
  <2>2. ActiveTags(db, controller.id) \in SUBSET db.tags
    BY DEF ActiveTags, TagsOf
  <2>3. IsList(s, TagRows)
    BY <2>1, <2>2, RowsCanBeRead, FS_Subset, SeqsOfRows
  <2> QED
    BY <1>0, <2>1, <2>3, ReadsRecorded DEF RowsOf, Stages
<1>4. CASE ReadsSignals
  <2>1. PICK s \in SetToSeqs(SignalsOf(db, controller.id)) :
          Reads("signals", "signals", s, "types")
    BY <1>4 DEF ReadsSignals
  <2>2. SignalsOf(db, controller.id) \in SUBSET db.signals
    BY DEF SignalsOf
  <2>3. IsList(s, SignalRows)
    BY <2>1, <2>2, RowsCanBeRead, FS_Subset, SeqsOfRows
  <2> QED
    BY <1>0, <2>1, <2>3, ReadsRecorded DEF RowsOf, Stages
<1>5. CASE ReadsTypes
  BY <1>0, <1>5, ReadsRecorded DEF ReadsTypes, Stages
<1>6. CASE ReadsSensors
  BY <1>0, <1>6, ReadsRecorded DEF ReadsSensors, Stages
<1> QED
  BY <1>1, <1>2, <1>3, <1>4, <1>5, <1>6

LEMMA CalibrationsRecorded ==
  ASSUME HInv, ReadsCalibrations \/ ReadsData
  PROVE  Recorded' /\ HardwareRests'
<1>1. UNCHANGED <<db, left, saved, open, controller, window, running, devices>>
  BY DEF ReadsCalibrations, ReadsData
<1>2. /\ loading'.stage \in Stages /\ loading'.previous = loading.previous
      /\ loading'.pending \subseteq Nat /\ IsRead(loading'.read)
  <2>1. CASE ReadsCalibrations
    <3>1. loading' = [loading EXCEPT !.stage = "data", !.pending = Ids(db.calibrations)]
      BY <2>1 DEF ReadsCalibrations
    <3>2. /\ loading'.stage = "data" /\ loading'.previous = loading.previous
          /\ loading'.pending = Ids(db.calibrations) /\ loading'.read = loading.read
      BY <3>1 DEF HInv, SInv, Shapes
    <3> QED
      BY <3>2, RowsCanBeRead DEF HInv, Recorded, Stages
  <2>2. CASE ReadsData
    <3>1. PICK i, k :
            loading' = [loading EXCEPT !.pending = @ \ {i}, !.read.calibrations = @ \cup {k}]
      BY <2>2 DEF ReadsData
    <3>2. /\ loading'.stage = loading.stage /\ loading'.previous = loading.previous
          /\ loading'.pending = loading.pending \ {i}
          /\ loading'.read = [loading.read EXCEPT !.calibrations = @ \cup {k}]
      BY <3>1 DEF HInv, SInv, Shapes
    <3>3. /\ loading'.read.modules = loading.read.modules
          /\ loading'.read.tags = loading.read.tags
          /\ loading'.read.signals = loading.read.signals
      BY <3>2 DEF HInv, SInv, Shapes, Columns
    <3> QED
      BY <3>2, <3>3 DEF HInv, Recorded, IsRead
  <2> QED
    BY <2>1, <2>2
<1>3. HardwareRests'
  BY <1>1 DEF HInv, HardwareRests, Used
<1>4. Recorded'
  BY <1>1, <1>2 DEF HInv, Recorded, Sane, RowsAreFinite, SchemaHolds, RowsAreTyped,
     KeysAreUnique, SourcesAreLocal, IsRead
<1> QED
  BY <1>3, <1>4

LEMMA NotLoadingRecorded ==
  /\ NotLoading.previous \in Nat /\ NotLoading.pending \subseteq Nat
  /\ NotLoading.stage \in Stages /\ IsRead(NotLoading.read)
BY NothingIsRead DEF NotLoading, NoId, Stages

LEMMA LoadSucceedsRecorded ==
  ASSUME HInv, LoadSucceeds
  PROVE  Recorded' /\ HardwareRests'
<1>1. /\ loading' = NotLoading /\ UNCHANGED <<db, left, running, devices>> /\ ~running
      /\ controller' = [controller EXCEPT !.loaded = TRUE, !.configuration = loading.read]
      /\ window' = [window EXCEPT !.modules = ModulesShown(loading.read),
                                  !.startEnabled = IF loading.first THEN TRUE ELSE @]
      /\ saved' \in {saved, controller.id}
  BY DEF LoadSucceeds, SavedAs, HInv, SInv
<1>2. /\ controller'.id = controller.id /\ controller'.configuration = loading.read
      /\ window'.list = window.list /\ window'.selector = window.selector
  BY <1>1 DEF HInv, SInv, Shapes
<1>3. saved' \in Nat
  BY <1>1 DEF HInv, Recorded
<1>4. HardwareRests'
  BY <1>1 DEF HInv, HardwareRests
<1>5. Recorded'
  BY <1>1, <1>2, <1>3, NotLoadingRecorded DEF HInv, Recorded, Sane, RowsAreFinite, SchemaHolds,
     RowsAreTyped, KeysAreUnique, SourcesAreLocal, IsRead
<1> QED
  BY <1>4, <1>5

LEMMA LoadFailsRecorded ==
  ASSUME HInv, LoadFails
  PROVE  Recorded' /\ HardwareRests'
<1>1. loading' = NotLoading /\ UNCHANGED <<db, left, saved, running, devices>> /\ ~running
  BY DEF LoadFails, HInv, SInv
<1>2. /\ controller'.id \in {controller.id, loading.previous}
      /\ controller'.configuration = controller.configuration
      /\ window'.list = window.list /\ window'.selector \in {window.selector, loading.previous}
  <2>1. CASE loading.first
    BY <2>1 DEF LoadFails
  <2>2. CASE ~loading.first
    <3>1. /\ controller' = [controller EXCEPT !.id = loading.previous,
                                              !.loaded = loading.wasLoaded]
          /\ window' = [window EXCEPT !.selector = InSelector(loading.previous, @)]
      BY <2>2 DEF LoadFails, Restored
    <3> QED
      BY <3>1 DEF HInv, SInv, Shapes, InSelector
  <2> QED
    BY <2>1, <2>2
<1>3. HardwareRests'
  BY <1>1 DEF HInv, HardwareRests
<1>4. Recorded'
  BY <1>1, <1>2, NotLoadingRecorded DEF HInv, Recorded, Sane, RowsAreFinite, SchemaHolds,
     RowsAreTyped, KeysAreUnique, SourcesAreLocal, IsRead
<1> QED
  BY <1>3, <1>4

LEMMA StoppedIsOff ==
  ASSUME NEW all \in [Modules -> Devices], \A n \in Modules : Rests(all[n])
  PROVE  /\ Stopped(all) \in [Modules -> Devices]
         /\ \A n \in Modules : IsOff(Stopped(all)[n])
BY ModuleStops DEF Stopped, Rests

LEMMA OpenRecorded ==
  ASSUME HInv, Open
  PROVE  Recorded' /\ HardwareRests'
<1>1. /\ UNCHANGED <<db, left, saved, running, devices>> /\ ~running
      /\ controller' = [NoController EXCEPT !.id = saved]
      /\ loading' = [NotLoading EXCEPT !.stage = "configuration", !.first = TRUE]
  BY DEF Open, HInv, SInv
<1>2. PICK list \in {db.configurations, {}} :
        window' = [NoWindow EXCEPT !.list = list,
                                   !.selector = IF saved \in Ids(list) THEN saved ELSE NoId]
  BY DEF Open
<1>3. controller'.id = saved /\ controller'.configuration = Nothing
  BY <1>1 DEF NoController
<1>4. window'.list = list /\ window'.selector \in {saved, NoId}
  BY <1>2 DEF NoWindow
<1>5. /\ loading'.stage = "configuration" /\ loading'.previous = NotLoading.previous
      /\ loading'.pending = NotLoading.pending /\ loading'.read = NotLoading.read
  BY <1>1, ShapesOfConstants
<1>6. HardwareRests'
  BY <1>1 DEF HInv, HardwareRests
<1>7. list \subseteq ConfigurationRows
  BY <1>2, RowsCanBeRead
<1>8. Recorded'
  BY <1>1, <1>3, <1>4, <1>5, <1>7, NotLoadingRecorded, NothingIsRead
     DEF HInv, Recorded, Sane, RowsAreFinite, SchemaHolds, RowsAreTyped, KeysAreUnique,
         SourcesAreLocal, IsRead, Stages, NoId
<1> QED
  BY <1>6, <1>8

LEMMA CloseRecorded ==
  ASSUME HInv, Close
  PROVE  Recorded' /\ HardwareRests'
<1>1. /\ UNCHANGED <<db, left, saved, loading>> /\ running' = FALSE
      /\ controller' = NoController /\ window' = NoWindow /\ devices' = Stopped(devices)
  BY DEF Close
<1>2. HardwareRests'
  BY <1>1, StoppedIsOff DEF HInv, HardwareRests, Rests
<1>3. Recorded'
  BY <1>1, NothingIsRead DEF HInv, Recorded, Sane, RowsAreFinite, SchemaHolds, RowsAreTyped,
     KeysAreUnique, SourcesAreLocal, IsRead, NoController, NoWindow, NoId
<1> QED
  BY <1>2, <1>3

LEMMA SelectRecorded ==
  ASSUME HInv, NEW c, SelectConfiguration(c)
  PROVE  Recorded' /\ HardwareRests'
<1>1. /\ UNCHANGED <<db, left, saved, running, devices>> /\ ~running /\ c \in Ids(window.list)
      /\ window' = [window EXCEPT !.selector = c]
      /\ controller' = [controller EXCEPT !.id = c, !.loaded = FALSE]
      /\ loading' = [NotLoading EXCEPT !.stage = "configuration", !.previous = controller.id,
                                       !.wasLoaded = controller.loaded]
  BY DEF SelectConfiguration
<1>2. c \in Nat
  BY <1>1 DEF HInv, Recorded, Ids, ConfigurationRows
<1>3. controller'.id = c /\ controller'.configuration = controller.configuration
  BY <1>1 DEF HInv, SInv, Shapes
<1>4. window'.list = window.list /\ window'.selector = c
  BY <1>1 DEF HInv, SInv, Shapes
<1>5. /\ loading'.stage = "configuration" /\ loading'.previous = controller.id
      /\ loading'.pending = NotLoading.pending /\ loading'.read = NotLoading.read
  BY <1>1, ShapesOfConstants
<1>6. HardwareRests'
  BY <1>1 DEF HInv, HardwareRests
<1>7. Recorded'
  BY <1>1, <1>2, <1>3, <1>4, <1>5, NotLoadingRecorded
     DEF HInv, Recorded, Sane, RowsAreFinite, SchemaHolds, RowsAreTyped, KeysAreUnique,
         SourcesAreLocal, IsRead, Stages
<1> QED
  BY <1>6, <1>7

LEMMA StartRecorded ==
  ASSUME HInv, Start
  PROVE  Recorded' /\ HardwareRests'
<1>1. /\ UNCHANGED <<db, left, saved, controller, loading>> /\ ~running
      /\ \E r \in SourcesStart(controller.configuration) :
           \/ /\ r.ok /\ devices' = r.devices /\ running' = TRUE
              /\ window' = [window EXCEPT !.startEnabled = FALSE]
           \/ devices' = Stopped(r.devices) /\ UNCHANGED <<running, window>>
  BY DEF Start
<1>2. window'.list = window.list /\ window'.selector = window.selector
  BY <1>1 DEF HInv, SInv, Shapes
<1>3. Recorded'
  BY <1>1, <1>2 DEF HInv, Recorded, Sane, RowsAreFinite, SchemaHolds, RowsAreTyped,
     KeysAreUnique, SourcesAreLocal, IsRead
<1>4. PICK N \in Nat : controller.configuration.modules \in [1..N -> ModuleRows]
  BY DEF HInv, Recorded, IsRead, IsList
<1>5. devices \in [Modules -> Devices] /\ \A n \in Modules : IsOff(devices[n])
  BY <1>1 DEF HInv, HardwareRests
<1>6. PICK r \in SourcesStart(controller.configuration) :
        \/ r.ok /\ devices' = r.devices /\ running' = TRUE
        \/ devices' = Stopped(r.devices) /\ running' = running
  BY <1>1
<1>7. /\ r \in Progress
      /\ r.ok => \A n \in Modules : IF Among(controller.configuration, N, n)
                                    THEN IsAcquiring(r.devices[n]) ELSE IsOff(r.devices[n])
  BY <1>4, <1>5, StartedSources
<1>8. \A n : Among(controller.configuration, N, n) <=> Used(controller.configuration, n)
  BY <1>4 DEF Among, Used
<1>9. r.devices \in [Modules -> Devices] /\ \A n \in Modules : Rests(r.devices[n])
  BY <1>7 DEF Progress
<1>10. CASE r.ok /\ devices' = r.devices /\ running' = TRUE
  BY <1>1, <1>3, <1>7, <1>8, <1>9, <1>10 DEF HardwareRests, Used
<1>11. CASE devices' = Stopped(r.devices) /\ running' = running
  BY <1>1, <1>3, <1>9, <1>11, StoppedIsOff DEF HardwareRests
<1> QED
  BY <1>6, <1>10, <1>11

LEMMA StopRecorded ==
  ASSUME HInv, Stop
  PROVE  Recorded' /\ HardwareRests'
<1>1. /\ UNCHANGED <<db, left, saved, controller, loading>> /\ running' = FALSE
      /\ devices' = Stopped(devices)
      /\ window' = [window EXCEPT !.startEnabled = controller.loaded]
  BY DEF Stop, StopServer
<1>2. window'.list = window.list /\ window'.selector = window.selector
  BY <1>1 DEF HInv, SInv, Shapes
<1>3. HardwareRests'
  BY <1>1, StoppedIsOff DEF HInv, HardwareRests, Rests
<1>4. Recorded'
  BY <1>1, <1>2 DEF HInv, Recorded, Sane, RowsAreFinite, SchemaHolds, RowsAreTyped,
     KeysAreUnique, SourcesAreLocal, IsRead
<1> QED
  BY <1>3, <1>4

LEMMA NextHInv == HInv /\ [Next]_vars => HInv'
<1> SUFFICES ASSUME HInv, [Next]_vars PROVE HInv'
  OBVIOUS
<1>1. SInv'
  BY NextKeeps DEF HInv
<1>2. Recorded' /\ HardwareRests'
  <2>1. CASE FrameArrives \/ UNCHANGED vars
    <3>1. UNCHANGED <<db, left, saved, controller, loading, window, running, devices>>
      BY <2>1 DEF FrameArrives, vars
    <3>2. Recorded'
      BY <3>1 DEF HInv, Recorded, Sane, RowsAreFinite, SchemaHolds, RowsAreTyped,
         KeysAreUnique, SourcesAreLocal, IsRead
    <3>3. HardwareRests'
      BY <3>1 DEF HInv, HardwareRests, Used
    <3> QED
      BY <3>2, <3>3
  <2> QED
    BY <2>1, EditorWritesRecorded, ReadingsRecorded, CalibrationsRecorded, LoadSucceedsRecorded,
       LoadFailsRecorded, OpenRecorded, CloseRecorded, SelectRecorded, StartRecorded,
       StopRecorded
       DEF Next, Loading
<1> QED
  BY <1>1, <1>2 DEF HInv

THEOREM HardwareFollows == Spec => []HardwareFollowsMeasurement
<1>1. HInv => HardwareFollowsMeasurement
  <2> SUFFICES ASSUME HInv PROVE HardwareFollowsMeasurement
    OBVIOUS
  <2> DEFINE cfg == controller.configuration
             used == {m.module : m \in {n \in ToSet(cfg.modules) : ModuleType[n.module] = "LTR11"}}
  <2>1. \A n : Used(cfg, n) <=> n \in used
    BY DEF Used, ToSet
  <2>2. \A n \in Modules :
          devices[n].handle = IF running /\ n \in used THEN "acquiring" ELSE "closed"
    <3> HIDE DEF used
    <3> QED
      BY <2>1 DEF HInv, HardwareRests, IsAcquiring, IsOff
  <2> QED
    BY <2>2 DEF HardwareFollowsMeasurement
<1>2. Init => HInv
  BY InitHolds, InitRecorded DEF HInv
<1>3. Spec => []HInv
  BY <1>2, NextHInv, PTL DEF Spec
<1> QED
  BY <1>1, <1>3, PTL

-----------------------------------------------------------------------------
(* The frames that are shown. *)

\* The last frame was calculated of one set of samples, as the loaded configuration
\* says.
FrameIsCalculated ==
  frame # NoFrame =>
    \E plan \in Built(controller.configuration),
       samples \in [Ids(ToSet(controller.configuration.tags)) -> Samples] :
      \E f \in Processed(controller.configuration, plan, samples) :
        frame = [samples |-> samples, raw |-> f.raw, calculated |-> f.calculated]

FramesShown ==
  /\ SignalsApart(loading.read) /\ SignalsApart(controller.configuration)
  /\ ~running => frame = NoFrame
  /\ FrameIsCalculated

FInv == HInv /\ FramesShown

\* Signals that were read in one statement have their own ids and names.
LEMMA ReadSignalsAreApart ==
  ASSUME HInv, NEW c, NEW signals \in SetToSeqs(SignalsOf(db, c)), NEW cfg, cfg.signals = signals
  PROVE  SignalsApart(cfg)
<1> DEFINE rows == SignalsOf(db, c)
<1>1. rows \in SUBSET db.signals /\ \A s \in rows : s.configuration = c
  BY DEF SignalsOf
<1>2. KeysAreUnique(db)
  BY DEF HInv, Recorded, Sane, SchemaHolds
<1>3. ToSet(signals) \subseteq rows
  <2>1. signals \in [1..Cardinality(rows) -> rows]
    BY DEF SetToSeqs
  <2> QED
    BY <2>1 DEF ToSet
<1>4. \A r, s \in db.signals : r.id = s.id => r = s
  <2>1. "signals" \in Tables \ {"modules"}
    BY DEF Tables
  <2>2. IdsAreKeys(db["signals"], db.next["signals"])
    BY <1>2, <2>1 DEF KeysAreUnique
  <2> QED
    BY <2>2 DEF IdsAreKeys
<1>5. \A r, s \in rows : r.name = s.name => r.id = s.id
  BY <1>1, <1>2 DEF KeysAreUnique
<1> QED
  BY <1>1, <1>3, <1>4, <1>5 DEF SignalsApart

LEMMA NoSignalsAreApart ==
  ASSUME NEW cfg, cfg.signals = <<>>
  PROVE  SignalsApart(cfg)
<1>1. ToSet(<<>>) = {}
  BY DEF ToSet
<1> QED
  BY <1>1 DEF SignalsApart

LEMMA SameSignalsAreApart ==
  ASSUME NEW cfg, NEW other, SignalsApart(other), cfg.signals = other.signals
  PROVE  SignalsApart(cfg)
BY DEF SignalsApart

\* Where the signals that are kept come from.
SignalsKept ==
  /\ loading'.read.signals \in {loading.read.signals, <<>>}
  /\ controller'.configuration.signals \in
       {controller.configuration.signals, loading.read.signals, <<>>}

FrameKept ==
  \/ frame' = NoFrame
  \/ frame' = frame /\ controller'.configuration = controller.configuration /\ running' = running

LEMMA KeptIsShown ==
  ASSUME FInv, SignalsKept, FrameKept
  PROVE  FramesShown'
<1>1. SignalsApart(loading.read) /\ SignalsApart(controller.configuration)
  BY DEF FInv, FramesShown
<1>2. SignalsApart(loading'.read) /\ SignalsApart(controller'.configuration)
  BY <1>1, NoSignalsAreApart, SameSignalsAreApart DEF SignalsKept
<1>3. (~running => frame = NoFrame)'
  BY DEF FInv, FramesShown, FrameKept
<1>4. FrameIsCalculated'
  BY DEF FInv, FramesShown, FrameKept, FrameIsCalculated, NoFrame
<1> QED
  BY <1>2, <1>3, <1>4 DEF FramesShown, SignalsApart

LEMMA ReadsShown ==
  ASSUME FInv, NEW stage, NEW column \in Columns, NEW rows, NEW next, Reads(stage, column, rows, next)
  PROVE  /\ loading'.read = [loading.read EXCEPT ![column] = rows]
         /\ UNCHANGED <<controller, running, frame>>
         /\ DOMAIN loading.read = Columns
BY DEF Reads, FInv, HInv, SInv, Shapes

LEMMA LoadingShown ==
  ASSUME FInv, Loading
  PROVE  FramesShown'
<1>0. {"id", "modules", "tags", "signals", "types", "sensors"} \subseteq Columns
  BY DEF Columns
<1>1. CASE ReadsConfiguration \/ ReadsModules \/ ReadsTags \/ ReadsTypes \/ ReadsSensors
  <2>0. PICK column \in Columns \ {"signals"} : \E stage, rows, next : Reads(stage, column, rows, next)
    BY <1>0, <1>1
       DEF ReadsConfiguration, ReadsModules, ReadsTags, ReadsTypes, ReadsSensors
  <2>1. PICK stage, rows, next : Reads(stage, column, rows, next)
    BY <2>0
  <2>3. /\ loading'.read = [loading.read EXCEPT ![column] = rows]
        /\ UNCHANGED <<controller, running, frame>> /\ DOMAIN loading.read = Columns
    BY <2>1, ReadsShown
  <2>2. loading'.read.signals = loading.read.signals
    BY <2>3 DEF Columns
  <2> QED
    BY <2>2, <2>3, KeptIsShown DEF SignalsKept, FrameKept
<1>2. CASE ReadsSignals
  <2>1. PICK s \in SetToSeqs(SignalsOf(db, controller.id)) : Reads("signals", "signals", s, "types")
    BY <1>2 DEF ReadsSignals
  <2>4. "signals" \in Columns
    BY DEF Columns
  <2>5. /\ loading'.read = [loading.read EXCEPT !["signals"] = s]
        /\ UNCHANGED <<controller, running, frame>> /\ DOMAIN loading.read = Columns
    BY <2>1, <2>4, ReadsShown
  <2>2. loading'.read.signals = s
    BY <2>4, <2>5
  <2>3. SignalsApart(loading'.read)
    BY <2>1, <2>2, ReadSignalsAreApart DEF FInv
  <2> QED
    BY <2>3, <2>5 DEF FInv, FramesShown, FrameIsCalculated, SignalsApart
<1>3. CASE ReadsCalibrations \/ ReadsData
  <2>1. UNCHANGED <<controller, running, frame>>
    BY <1>3 DEF ReadsCalibrations, ReadsData
  <2>3. /\ DOMAIN loading = {"stage", "read", "pending", "previous", "wasLoaded", "first"}
        /\ DOMAIN loading.read = Columns
    BY DEF FInv, HInv, SInv, Shapes
  <2>2. loading'.read.signals = loading.read.signals
    <3>1. CASE ReadsCalibrations
      BY <2>3, <3>1 DEF ReadsCalibrations
    <3>2. CASE ReadsData
      <4>1. PICK i, k : loading' = [loading EXCEPT !.pending = @ \ {i}, !.read.calibrations = @ \cup {k}]
        BY <3>2 DEF ReadsData
      <4> QED
        BY <2>3, <4>1 DEF Columns
    <3> QED
      BY <1>3, <3>1, <3>2
  <2> QED
    BY <2>1, <2>2, KeptIsShown DEF SignalsKept, FrameKept
<1>4. CASE LoadSucceeds \/ LoadFails
  <2>1. /\ loading' = NotLoading /\ UNCHANGED <<running, frame>> /\ ~running
        /\ controller'.configuration \in {controller.configuration, loading.read}
    BY <1>4 DEF LoadSucceeds, LoadFails, FInv, HInv, SInv, Shapes, Restored
  <2>2. loading'.read.signals = <<>>
    BY <2>1 DEF NotLoading, Nothing
  <2>3. frame' = NoFrame
    BY <2>1 DEF FInv, FramesShown
  <2> QED
    BY <2>1, <2>2, <2>3, KeptIsShown DEF SignalsKept, FrameKept
<1> QED
  BY <1>1, <1>2, <1>3, <1>4 DEF Loading

LEMMA WindowShown ==
  ASSUME FInv, \/ Open \/ Close \/ Start \/ Stop \/ \E c \in Ids(window.list) : SelectConfiguration(c)
  PROVE  FramesShown'
<1>1. CASE Open
  <2>1. /\ loading' = [NotLoading EXCEPT !.stage = "configuration", !.first = TRUE]
        /\ controller' = [NoController EXCEPT !.id = saved]
        /\ UNCHANGED <<running, frame>> /\ ~running
    BY <1>1 DEF Open, FInv, HInv, SInv
  <2>2. loading'.read = Nothing /\ controller'.configuration = Nothing
    BY <2>1 DEF NotLoading, NoController
  <2>3. frame' = NoFrame
    BY <2>1 DEF FInv, FramesShown
  <2> QED
    BY <2>2, <2>3, KeptIsShown DEF SignalsKept, FrameKept, Nothing
<1>2. CASE Close
  <2>1. controller' = NoController /\ frame' = NoFrame /\ UNCHANGED loading
    BY <1>2 DEF Close
  <2>2. controller'.configuration = Nothing
    BY <2>1 DEF NoController
  <2> QED
    BY <2>1, <2>2, KeptIsShown DEF SignalsKept, FrameKept, Nothing
<1>3. CASE Start
  <2>1. UNCHANGED <<controller, loading, frame>> /\ ~running
    BY <1>3 DEF Start
  <2>2. frame' = NoFrame
    BY <2>1 DEF FInv, FramesShown
  <2> QED
    BY <2>1, <2>2, KeptIsShown DEF SignalsKept, FrameKept
<1>4. CASE Stop
  <2>1. UNCHANGED <<controller, loading>> /\ frame' = NoFrame
    BY <1>4 DEF Stop, StopServer
  <2> QED
    BY <2>1, KeptIsShown DEF SignalsKept, FrameKept
<1>5. ASSUME NEW c \in Ids(window.list), SelectConfiguration(c) PROVE FramesShown'
  <2>1. /\ controller' = [controller EXCEPT !.id = c, !.loaded = FALSE]
        /\ loading' = [NotLoading EXCEPT !.stage = "configuration", !.previous = controller.id,
                                         !.wasLoaded = controller.loaded]
        /\ UNCHANGED <<running, frame>>
    BY <1>5 DEF SelectConfiguration
  <2>2. loading'.read = Nothing
    BY <2>1 DEF NotLoading
  <2>3. controller'.configuration = controller.configuration
    BY <2>1 DEF FInv, HInv, SInv, Shapes
  <2> QED
    BY <2>1, <2>2, <2>3, KeptIsShown DEF SignalsKept, FrameKept, Nothing
<1> QED
  BY <1>1, <1>2, <1>3, <1>4, <1>5

LEMMA NextFInv == FInv /\ [Next]_vars => FInv'
<1> SUFFICES ASSUME FInv, [Next]_vars PROVE FInv'
  OBVIOUS
<1>1. HInv'
  BY NextHInv DEF FInv
<1>2. FramesShown'
  <2>1. CASE FrameArrives
    BY <2>1 DEF FrameArrives, FInv, FramesShown, FrameIsCalculated, SignalsApart
  <2>2. CASE EditorWrites \/ UNCHANGED vars
    <3>1. UNCHANGED <<controller, loading, running, frame>>
      BY <2>2 DEF EditorWrites, vars
    <3> QED
      BY <3>1, KeptIsShown DEF SignalsKept, FrameKept
  <2> QED
    BY <2>1, <2>2, LoadingShown, WindowShown DEF Next
<1> QED
  BY <1>1, <1>2 DEF FInv

LEMMA FInvHolds == Spec => []FInv
<1>1. Init => FInv
  <2> SUFFICES ASSUME Init PROVE FInv
    OBVIOUS
  <2>1. /\ controller.configuration = Nothing /\ loading.read = Nothing /\ frame = NoFrame
    BY DEF Init, NoController, NotLoading
  <2>2. SignalsApart(Nothing)
    BY NoSignalsAreApart DEF Nothing
  <2> QED
    BY <2>1, <2>2, InitHolds, InitRecorded DEF FInv, FramesShown, FrameIsCalculated, HInv
<1> QED
  BY <1>1, NextFInv, PTL DEF Spec

\* What was read is a configuration.
LEMMA LoadedIsConfiguration ==
  ASSUME HInv
  PROVE  IsConfiguration(controller.configuration)
<1>1. \A s, S : IsList(s, S) => s \in Seq(S)
  BY DEF IsList
<1> QED
  BY <1>1 DEF HInv, Recorded, IsRead, IsConfiguration

\* A frame shows the samples in their places.
LEMMA ShownSamples ==
  ASSUME FInv, frame # NoFrame
  PROVE  \E samples \in [Ids(ToSet(controller.configuration.tags)) -> Samples] :
           /\ frame.samples = samples
           /\ frame.raw = Assembled(controller.configuration, samples)
<1> DEFINE cfg == controller.configuration
<1>0. PICK plan \in Built(cfg), samples \in [Ids(ToSet(cfg.tags)) -> Samples] :
        \E f \in Processed(cfg, plan, samples) :
          frame = [samples |-> samples, raw |-> f.raw, calculated |-> f.calculated]
  BY DEF FInv, FramesShown, FrameIsCalculated
<1>1. PICK f \in Processed(cfg, plan, samples) :
        frame = [samples |-> samples, raw |-> f.raw, calculated |-> f.calculated]
  BY <1>0
<1>2. IsConfiguration(cfg) /\ SignalsApart(cfg)
  BY LoadedIsConfiguration DEF FInv, FramesShown
<1>3. plan \in CalculationOrder(cfg) /\ FormulasBuilt(cfg)
  BY <1>1 DEF Built, CalculationPlan
<1> HIDE DEF cfg
<1>4. plan \in Seq(CalculatedIds(cfg))
  BY <1>2, <1>3, OrderIsList
<1>5. f.raw = Assembled(cfg, samples)
  BY <1>1, <1>4, ProcessedKeepsSamples
<1> QED
  BY <1>1, <1>5 DEF cfg

\* Every variable has its shape: what is loaded of whatever states of the database is
\* in the types of the columns, and while a measurement runs every cell of a frame
\* holds a sample of a channel.
THEOREM ServerIsTyped == Spec => []TypeOK
<1>1. FInv => TypeOK
  <2> SUFFICES ASSUME FInv PROVE TypeOK
    OBVIOUS
  <2>1. ASSUME NEW c \in DOMAIN frame.raw PROVE frame.raw[c] \in Samples
    <3>1. CASE frame = NoFrame
      BY <2>1, <3>1 DEF NoFrame
    <3>2. CASE frame # NoFrame
      <4> DEFINE cfg == controller.configuration
      <4>1. PICK samples \in [Ids(ToSet(cfg.tags)) -> Samples] : frame.raw = Assembled(cfg, samples)
        BY <3>2, ShownSamples
      <4>2. IsConfiguration(cfg)
        BY LoadedIsConfiguration DEF FInv
      <4> HIDE DEF cfg
      <4>3. \A k \in DOMAIN Assembled(cfg, samples) : Assembled(cfg, samples)[k] \in Samples
        BY <4>1, <4>2, AssembledAreSamples
      <4> QED
        BY <2>1, <4>1, <4>3
    <3> QED
      BY <3>1, <3>2
  <2> QED
    BY <2>1 DEF TypeOK, FInv, HInv, SInv, Shapes, Recorded, HardwareRests, Sane, SchemaHolds
<1> QED
  BY <1>1, FInvHolds, PTL

SamplesInPlace ==
  frame # NoFrame =>
    \A s \in RawSignals(controller.configuration) :
      frame.raw[Place(controller.configuration, s).index] = frame.samples[s.tag]

\* A published frame holds the sample of every channel where the signal of that
\* channel reads it, whatever the order the modules, tags and signals were read in.
THEOREM EverySampleInPlace == Spec => []SamplesInPlace
<1>1. FInv => SamplesInPlace
  <2> SUFFICES ASSUME FInv, frame # NoFrame, NEW s \in RawSignals(controller.configuration)
               PROVE  frame.raw[Place(controller.configuration, s).index] = frame.samples[s.tag]
    BY DEF SamplesInPlace
  <2> DEFINE cfg == controller.configuration
  <2>1. PICK samples \in [Ids(ToSet(cfg.tags)) -> Samples] :
          frame.samples = samples /\ frame.raw = Assembled(cfg, samples)
    BY ShownSamples
  <2>2. IsConfiguration(cfg)
    BY LoadedIsConfiguration DEF FInv
  <2>3. LaysOut(cfg)
    <3>1. Built(cfg) # {}
      BY DEF FInv, FramesShown, FrameIsCalculated
    <3> QED
      BY <3>1 DEF Built
  <2> HIDE DEF cfg
  <2>4. Assembled(cfg, samples)[Place(cfg, s).index] = samples[s.tag]
    BY <2>1, <2>2, <2>3, SampleOfSignal DEF cfg
  <2> QED
    BY <2>1, <2>4 DEF cfg
<1> QED
  BY <1>1, FInvHolds, PTL

\* A frame that was calculated as a sound configuration says is consistent.
LEMMA ProcessedIsConsistent ==
  ASSUME NEW cfg, IsConfiguration(cfg), SignalsApart(cfg), LaysOut(cfg), FormulasBuilt(cfg),
         NEW plan \in CalculationOrder(cfg), NEW samples \in [Ids(ToSet(cfg.tags)) -> Samples],
         NEW f \in Processed(cfg, plan, samples), NEW shown, shown.raw = f.raw,
         shown.calculated = f.calculated
  PROVE  Consistent(cfg, samples, shown)
<1>1. f.raw = Assembled(cfg, samples)
  <2>1. plan \in Seq(CalculatedIds(cfg))
    BY OrderIsList
  <2> QED
    BY <2>1, ProcessedKeepsSamples
<1>2. ASSUME NEW s \in RawSignals(cfg) PROVE shown.raw[Place(cfg, s).index] = samples[s.tag]
  BY <1>1, SampleOfSignal
<1>3. ValuesIn(cfg, shown) = ValuesIn(cfg, f)
  BY DEF ValuesIn
<1>4. ASSUME NEW s \in ToSet(CalculatedSignals(cfg))
      PROVE  shown.calculated[Place(cfg, s).index] \in
               UNION {Calibrated(cfg, s, x) : x \in UNION Meanings(s.formula, ValuesIn(cfg, shown))}
  <2>1. f.calculated[Place(cfg, s).index] \in
          UNION {Calibrated(cfg, s, x) : x \in UNION Meanings(s.formula, ValuesIn(cfg, f))}
    BY FormulasHold
  <2> QED
    BY <1>3, <2>1
<1> QED
  BY <1>2, <1>4 DEF Consistent

\* A published frame is consistent in itself: besides the samples in their places, every
\* calculated signal holds what its formula means for the values the frame itself
\* holds, calibrated, whatever the configuration, the formulas and the samples are.
THEOREM EveryFrameIsConsistent == Spec => []FrameIsConsistent
<1>1. FInv => FrameIsConsistent
  <2> SUFFICES ASSUME FInv, frame # NoFrame
               PROVE  Consistent(controller.configuration, frame.samples, frame)
    BY DEF FrameIsConsistent
  <2> DEFINE cfg == controller.configuration
  <2>1. PICK plan \in Built(cfg), samples \in [Ids(ToSet(cfg.tags)) -> Samples] :
          \E f \in Processed(cfg, plan, samples) :
            frame = [samples |-> samples, raw |-> f.raw, calculated |-> f.calculated]
    BY DEF FInv, FramesShown, FrameIsCalculated
  <2>2. PICK f \in Processed(cfg, plan, samples) :
          frame = [samples |-> samples, raw |-> f.raw, calculated |-> f.calculated]
    BY <2>1
  <2>3. IsConfiguration(cfg) /\ SignalsApart(cfg)
    BY LoadedIsConfiguration DEF FInv, FramesShown
  <2>4. plan \in CalculationOrder(cfg) /\ FormulasBuilt(cfg) /\ LaysOut(cfg)
    BY DEF Built, CalculationPlan
  <2>5. frame.samples = samples /\ frame.raw = f.raw /\ frame.calculated = f.calculated
    BY <2>2
  <2> HIDE DEF cfg
  <2>6. Consistent(cfg, samples, frame)
    BY <2>3, <2>4, <2>5, ProcessedIsConsistent
  <2> QED
    BY <2>5, <2>6 DEF cfg
<1> QED
  BY <1>1, FInvHolds, PTL

-----------------------------------------------------------------------------
(* A configuration is built exactly if it is sound. *)

LEMMA LeastIsThere ==
  ASSUME NEW K \in SUBSET Nat, K # {}
  PROVE  \E x \in K : \A y \in K : ~(y < x)
<1> DEFINE R == OpToRel(<, Nat)
<1>1. IsWellFoundedOn(R, Nat)
  BY NatLessThanWellFounded
<1>2. PICK x \in K : \A y \in K : ~ (<<y, x>> \in R)
  <2> HIDE DEF R
  <2> QED
    BY <1>1, WFMin
<1>3. \A y \in K : ~(y < x)
  BY <1>2 DEF OpToRel
<1> QED
  BY <1>3

LEMMA FormulaIsTokens ==
  ASSUME NEW cfg, IsConfiguration(cfg), NEW s \in ToSet(cfg.signals)
  PROVE  s.formula \in Seq(STRING) /\ Len(s.formula) \in Nat
<1>1. s \in SignalRows
  BY DEF IsConfiguration, ToSet
<1>2. s.formula \in Formulas \cup {NoFormula}
  BY <1>1 DEF SignalRows
<1>3. s.formula \in Seq(STRING)
  <2>1. <<>> \in Seq(STRING)
    OBVIOUS
  <2> QED
    BY <1>2, <2>1, BuildAssumption DEF BuildAssumption, NoFormula
<1> QED
  BY <1>3

\* The names of the signals of a configuration.
SignalNames(cfg) == {s.name : s \in ToSet(cfg.signals)}

\* A formula is compiled if it has a meaning and names signals only.
LEMMA CompiledIfSound ==
  ASSUME NEW cfg, IsConfiguration(cfg), NEW s \in ToSet(cfg.signals), NEW values
  PROVE  /\ Compiled(cfg, s) # {} <=>
              NamesIn(s.formula) \subseteq SignalNames(cfg) /\ Meanings(s.formula, values) # {}
         /\ \A nodes \in Compiled(cfg, s) : ToSet(NamesRead(nodes)) = NamesIn(s.formula)
<1> DEFINE ts == s.formula
<1>1. ts \in Seq(STRING) /\ Len(ts) \in Nat
  BY FormulaIsTokens
<1> HIDE DEF ts
<1>2. \A nodes \in Parsed(ts) : ToSet(NamesRead(nodes)) = NamesIn(ts)
  BY <1>1, TreeReadsNames
<1>3. Parsed(ts) # {} <=> Meanings(ts, values) # {}
  BY <1>1, ParserFollowsGrammar
<1>4. Compiled(cfg, s) = {nodes \in Parsed(ts) : ToSet(NamesRead(nodes)) \subseteq SignalNames(cfg)}
  BY DEF Compiled, SignalNames, ts
<1> QED
  BY <1>2, <1>3, <1>4 DEF ts

\* What is depended on are the signals that are named.
LEMMA DependedOnAreNamed ==
  ASSUME NEW cfg, IsConfiguration(cfg), NEW N, NEW nodes \in Seq(N),
         ToSet(NamesRead(nodes)) \subseteq SignalNames(cfg)
  PROVE  ToSet(Dependencies(cfg, nodes)) = {SignalNamed(cfg, m).id : m \in ToSet(NamesRead(nodes))}
<1> DEFINE names == NamesRead(nodes)
           R == ToSet(names)
           n == Len(names)
           I == Ids(ToSet(cfg.signals))
           D == {SignalNamed(cfg, m).id : m \in R}
<1>0. R \subseteq {r.name : r \in ToSet(cfg.signals)}
  BY DEF SignalNames
<1>1. names \in Seq(R)
  BY NamesAreRead
<1> HIDE DEF names, R
<1>2. n \in Nat /\ names \in [1..n -> R] /\ DOMAIN names = 1..n
  BY <1>1
<1> HIDE DEF n
<1>3. PICK h : DependsBy(h, n, cfg, nodes)
  BY <1>0, <1>2, DependsSteps DEF names
<1>4. /\ \A k \in 0..n : h[k] \in Seq(I)
      /\ h[0] = <<>>
      /\ \A k \in 1..n : h[k] = DependsNext(cfg, h[k - 1], names[k])
      /\ Dependencies(cfg, nodes) = h[n]
  BY <1>3 DEF DependsBy, names
<1> HIDE DEF I
<1> DEFINE X == {s \in Seq(I) : ToSet(s) \subseteq D}
<1>5. h[0] \in X
  <2>1. ToSet(<<>>) = {} /\ <<>> \in Seq(I)
    BY DEF ToSet
  <2> QED
    BY <1>4, <2>1
<1>6. ASSUME NEW k \in 1..n, h[k - 1] \in X PROVE h[k] \in X
  <2> DEFINE s == h[k - 1]
             new == SignalNamed(cfg, names[k]).id
  <2>1. new \in D
    BY <1>2
  <2>2. h[k] = IF new \in ToSet(s) THEN s ELSE Append(s, new)
    BY <1>4 DEF DependsNext
  <2>3. s \in Seq(I) /\ ToSet(s) \subseteq D /\ h[k] \in Seq(I)
    BY <1>2, <1>4, <1>6
  <2> HIDE DEF new, s, D
  <2>4. ToSet(Append(s, new)) = ToSet(s) \cup {new}
    <3>1. s \in Seq(I \cup {new}) /\ new \in I \cup {new}
      BY <2>3
    <3> QED
      BY <3>1, AppendedSet
  <2> QED
    BY <2>1, <2>2, <2>3, <2>4
<1>7. h[n] \in X
  <2> HIDE DEF X
  <2>1. \A k \in 0..n : h[k] \in X
    BY <1>2, <1>5, <1>6, StepsStay
  <2> QED
    BY <1>2, <2>1
<1>8. ToSet(Dependencies(cfg, nodes)) \subseteq D
  BY <1>4, <1>7
<1>9. D \subseteq ToSet(Dependencies(cfg, nodes))
  <2> SUFFICES ASSUME NEW m \in R PROVE SignalNamed(cfg, m).id \in ToSet(Dependencies(cfg, nodes))
    OBVIOUS
  <2> QED
    BY <1>0, NamedAreDependedOn DEF R, names
<1> QED
  BY <1>8, <1>9 DEF R, names

\* A calculated signal depends on the signals its formula names.
LEMMA DependsOnNamed ==
  ASSUME NEW cfg, IsConfiguration(cfg), SignalsApart(cfg), FormulasBuilt(cfg),
         NEW s \in ToSet(CalculatedSignals(cfg))
  PROVE  /\ s.id \in CalculatedIds(cfg)
         /\ \A r \in ToSet(cfg.signals) :
              r.id \in ToSet(DependsOf(cfg)[s.id]) <=> r.name \in NamesIn(s.formula)
<1> DEFINE nodes == CHOOSE n \in Compiled(cfg, RowIn(cfg.signals, s.id)) : TRUE
<1>1. nodes \in Compiled(cfg, s)
  BY DependsOnSignals
<1>2. s \in ToSet(cfg.signals) /\ s.id \in CalculatedIds(cfg)
  BY CalculatedHold DEF CalculatedIds, Ids
<1>3. DependsOf(cfg)[s.id] = Dependencies(cfg, nodes)
  BY <1>2 DEF DependsOf
<1> HIDE DEF nodes
<1>4. /\ nodes \in Seq(Nodes(s.formula))
      /\ ToSet(NamesRead(nodes)) \subseteq SignalNames(cfg)
  BY <1>1, <1>2, CompiledHolds DEF SignalNames
<1>5. ToSet(NamesRead(nodes)) = NamesIn(s.formula)
  BY <1>1, <1>2, CompiledIfSound
<1>6. ToSet(Dependencies(cfg, nodes)) = {SignalNamed(cfg, m).id : m \in NamesIn(s.formula)}
  BY <1>4, <1>5, DependedOnAreNamed
<1>7. \A r \in ToSet(cfg.signals) : SignalNamed(cfg, r.name) = r
  <2> SUFFICES ASSUME NEW r \in ToSet(cfg.signals) PROVE SignalNamed(cfg, r.name) = r
    OBVIOUS
  <2> DEFINE x == SignalNamed(cfg, r.name)
  <2>1. x \in ToSet(cfg.signals) /\ x.name = r.name
    BY DEF SignalNamed
  <2> HIDE DEF x
  <2>2. x = r
    BY <2>1 DEF SignalsApart
  <2> QED
    BY <2>2 DEF x
<1>8. ASSUME NEW r \in ToSet(cfg.signals), r.name \in NamesIn(s.formula)
      PROVE  r.id \in ToSet(Dependencies(cfg, nodes))
  BY <1>6, <1>7, <1>8
<1>9. ASSUME NEW r \in ToSet(cfg.signals), r.id \in ToSet(Dependencies(cfg, nodes))
      PROVE  r.name \in NamesIn(s.formula)
  <2>1. PICK m \in NamesIn(s.formula) : r.id = SignalNamed(cfg, m).id
    BY <1>6, <1>9
  <2>2. PICK q \in ToSet(cfg.signals) : q.name = m
    BY <1>4, <1>5, <2>1 DEF SignalNames
  <2>3. SignalNamed(cfg, m) = q
    BY <1>7, <2>2
  <2>4. q = r
    BY <2>1, <2>2, <2>3 DEF SignalsApart
  <2> QED
    BY <2>1, <2>2, <2>4
<1> QED
  BY <1>2, <1>3, <1>8, <1>9

LEMMA CalculatedAreNotRaw ==
  ASSUME NEW cfg, IsConfiguration(cfg), SignalsApart(cfg), NEW s \in ToSet(CalculatedSignals(cfg))
  PROVE  s \in ToSet(cfg.signals) /\ s.id \notin Ids(RawSignals(cfg))
<1>1. s \in ToSet(cfg.signals) /\ s.kind = "Calculated"
  BY CalculatedHold
<1> QED
  BY <1>1 DEF Ids, RawSignals, SignalsApart

\* The order of a plan rules out loops.
LEMMA PlanHasNoLoops ==
  ASSUME NEW C, NEW depends, NEW raw, NEW plan \in Seq(C),
         \A i \in C : \E k \in 1..Len(plan) : plan[k] = i, DependedFirst(plan, depends, raw)
  PROVE  NoLoops(C, depends, raw)
<1> SUFFICES ASSUME NEW S \in SUBSET C, S # {}
             PROVE  \E i \in S : \A d \in ToSet(depends[i]) \ raw : d \notin S
  BY DEF NoLoops
<1> DEFINE n == Len(plan)
           K == {k \in 1..n : plan[k] \in S}
<1>1. n \in Nat
  OBVIOUS
<1>2. PICK i \in S : TRUE
  OBVIOUS
<1>3. PICK m \in 1..n : plan[m] = i
  OBVIOUS
<1> HIDE DEF n
<1>4. K \in SUBSET Nat /\ K # {}
  <2>1. m \in K
    BY <1>2, <1>3
  <2>2. \A k \in 1..n : k \in Nat
    BY <1>1
  <2> QED
    BY <2>1, <2>2
<1> HIDE DEF K
<1>5. PICK k \in K : \A j \in K : ~(j < k)
  BY <1>4, LeastIsThere
<1>6. k \in 1..n /\ plan[k] \in S
  BY <1>5 DEF K
<1>7. ASSUME NEW d \in ToSet(depends[plan[k]]) \ raw PROVE d \notin S
  <2>1. PICK j \in 1..(k - 1) : plan[j] = d
    BY <1>6, <1>7 DEF DependedFirst, n
  <2>2. j \in 1..n /\ j < k
    BY <1>1, <1>6
  <2> QED
    BY <1>5, <2>1, <2>2 DEF K
<1> QED
  BY <1>6, <1>7

LEMMA LoopsAreCycles ==
  ASSUME NEW cfg, IsConfiguration(cfg), SignalsApart(cfg), FormulasBuilt(cfg)
  PROVE  WithoutCycles(cfg) <=> NoLoops(CalculatedIds(cfg), DependsOf(cfg), Ids(RawSignals(cfg)))
<1> DEFINE calculated == ToSet(CalculatedSignals(cfg))
           raw == Ids(RawSignals(cfg))
           depends == DependsOf(cfg)
           named(s) == {r \in calculated : r.name \in NamesIn(s.formula)}
           Free(C) == \E s \in C : named(s) \cap C = {}
<1>1. WithoutCycles(cfg) <=> \A C \in SUBSET calculated : C # {} => Free(C)
  BY DEF WithoutCycles
<1>2. CalculatedIds(cfg) = Ids(calculated)
  BY CalculatedHold DEF CalculatedIds
<1>3. \A s \in calculated : s \in ToSet(cfg.signals) /\ s.id \notin raw
  BY CalculatedAreNotRaw
<1>4. \A s \in calculated : \A r \in ToSet(cfg.signals) :
        r.id \in ToSet(depends[s.id]) <=> r.name \in NamesIn(s.formula)
  BY DependsOnNamed
<1> HIDE DEF calculated, raw, depends
<1>5. ASSUME \A C \in SUBSET calculated : C # {} => Free(C)
      PROVE  NoLoops(Ids(calculated), depends, raw)
  <2> SUFFICES ASSUME NEW S \in SUBSET Ids(calculated), S # {}
               PROVE  \E i \in S : \A d \in ToSet(depends[i]) \ raw : d \notin S
    BY DEF NoLoops
  <2> DEFINE C == {s \in calculated : s.id \in S}
  <2>1. C \in SUBSET calculated /\ C # {}
    BY DEF Ids
  <2> HIDE DEF C
  <2>2. PICK s \in C : named(s) \cap C = {}
    BY <1>5, <2>1
  <2>3. s \in calculated /\ s.id \in S
    BY DEF C
  <2>4. ASSUME NEW d \in ToSet(depends[s.id]) \ raw, d \in S PROVE FALSE
    <3>1. PICK r \in calculated : r.id = d
      BY <2>4 DEF Ids
    <3>2. r \in C /\ r \in named(s)
      BY <1>3, <1>4, <2>3, <2>4, <3>1 DEF C
    <3> QED
      BY <2>2, <3>2
  <2> QED
    BY <2>3, <2>4
<1>6. ASSUME NoLoops(Ids(calculated), depends, raw), NEW C \in SUBSET calculated, C # {}
      PROVE  Free(C)
  <2> DEFINE S == Ids(C)
  <2>1. S \in SUBSET Ids(calculated) /\ S # {}
    BY <1>6 DEF Ids
  <2> HIDE DEF S
  <2>2. PICK i \in S : \A d \in ToSet(depends[i]) \ raw : d \notin S
    BY <1>6, <2>1 DEF NoLoops
  <2>3. PICK s \in C : s.id = i
    BY DEF S, Ids
  <2>4. ASSUME NEW r \in named(s) \cap C PROVE FALSE
    <3>1. r.id \in S /\ r \in calculated /\ s \in calculated /\ r.name \in NamesIn(s.formula)
      BY <1>6, <2>4 DEF S, Ids
    <3>2. r.id \in ToSet(depends[i]) \ raw
      BY <1>3, <1>4, <2>3, <3>1
    <3> QED
      BY <2>2, <3>1, <3>2
  <2> QED
    BY <2>3, <2>4
<1> QED
  BY <1>1, <1>2, <1>5, <1>6 DEF raw, depends

\* There is an order of calculation exactly if no signals depend on one another.
LEMMA OrderedIfAcyclic ==
  ASSUME NEW cfg, IsConfiguration(cfg), SignalsApart(cfg), FormulasBuilt(cfg)
  PROVE  CalculationOrder(cfg) # {} <=> WithoutCycles(cfg)
<1>1. ASSUME NEW plan \in CalculationOrder(cfg)
      PROVE  NoLoops(CalculatedIds(cfg), DependsOf(cfg), Ids(RawSignals(cfg)))
  <2>1. IsPlan(cfg, plan)
    BY OrderIsRight
  <2> QED
    BY <2>1, PlanHasNoLoops DEF IsPlan
<1> QED
  BY <1>1, OrderIsRight, LoopsAreCycles

\* Every channel is of a module of the configuration.
TagsHaveModules(cfg) ==
  \A t \in ToSet(cfg.tags) : \E m \in ToSet(cfg.modules) : m.module = t.module

LEMMA ListIsFinite ==
  ASSUME NEW S, NEW list \in Seq(S)
  PROVE  IsFiniteSet(ToSet(list))
<1> DEFINE n == Len(list)
           T == ToSet(list)
<1>1. n \in Nat /\ DOMAIN list = 1..n /\ list \in [1..n -> T]
  <2>1. n \in Nat /\ DOMAIN list = 1..n /\ list = [i \in 1..n |-> list[i]]
    OBVIOUS
  <2>2. \A i \in 1..n : list[i] \in T
    BY <2>1 DEF ToSet
  <2> HIDE DEF n, T
  <2> QED
    BY <2>1, <2>2
<1>2. \A x \in T : \E i \in 1..n : list[i] = x
  BY <1>1 DEF ToSet
<1> HIDE DEF n, T
<1>3. IsFiniteSet(1..n)
  BY <1>1, FS_Interval
<1>4. list \in Surjection(1..n, T)
  BY <1>1, <1>2 DEF Surjection
<1>5. IsFiniteSet(T)
  BY <1>3, <1>4, FS_Surjection
<1> QED
  BY <1>5 DEF T

\* A channel of a module has a place.
LEMMA TagsArePlaced ==
  ASSUME NEW cfg, IsConfiguration(cfg), NEW t \in ToSet(cfg.tags),
         NEW m \in ToSet(cfg.modules), m.module = t.module
  PROVE  t \in ToSet(PlacedTags(cfg))
<1> DEFINE N == Len(cfg.modules)
           own == ModuleTags(cfg, t.module)
<1>0. N \in Nat /\ cfg.tags \in Seq(TagRows) /\ DOMAIN cfg.modules = 1..N
  BY DEF IsConfiguration
<1>1. t \in ToSet(own)
  <2> DEFINE set == {x \in ToSet(cfg.tags) : x.module = t.module}
  <2>1. t \in set /\ own = Kept(cfg.tags, set)
    BY DEF ModuleTags
  <2> HIDE DEF set, own
  <2> QED
    BY <1>0, <2>1, KeptHolds
<1>2. own \in Seq(TagRows)
  BY ModuleTagsHold
<1>3. PICK q \in 1..N : cfg.modules[q] = m
  BY <1>0 DEF ToSet
<1> HIDE DEF N
<1>4. PICK p : PlacedBy(p, N, cfg)
  BY <1>0, PlacedSteps DEF N
<1>5. /\ \A k \in 0..N : p[k] \in Seq(TagRows)
      /\ \A k \in 1..N : p[k] = p[k - 1] \o ModuleTags(cfg, cfg.modules[k].module)
      /\ p[N] = PlacedTags(cfg)
  BY <1>0, <1>4, PlacedIsPrefix DEF N
<1> HIDE DEF own
<1>6. \A a, b \in Seq(TagRows) : \A x : x \in ToSet(a) \/ x \in ToSet(b) => x \in ToSet(a \o b)
  <2> SUFFICES ASSUME NEW a \in Seq(TagRows), NEW b \in Seq(TagRows), NEW x,
                      x \in ToSet(a) \/ x \in ToSet(b)
               PROVE  x \in ToSet(a \o b)
    OBVIOUS
  <2> DEFINE c == a \o b
  <2>1. /\ \A i \in DOMAIN a : i \in DOMAIN c /\ c[i] = a[i]
        /\ \A i \in DOMAIN b : Len(a) + i \in DOMAIN c /\ c[Len(a) + i] = b[i]
    OBVIOUS
  <2> HIDE DEF c
  <2>2. x \in ToSet(c)
    BY <2>1 DEF ToSet
  <2> QED
    BY <2>2 DEF c
<1> DEFINE X == {k \in Nat : q + k <= N => t \in ToSet(p[q + k])}
<1>7. 0 \in X
  <2>1. p[q] = p[q - 1] \o own /\ p[q - 1] \in Seq(TagRows)
    <3>1. q - 1 \in 0..N /\ q \in 1..N
      BY <1>0
    <3>2. ModuleTags(cfg, cfg.modules[q].module) = own
      BY <1>3 DEF own
    <3> QED
      BY <1>5, <3>1, <3>2
  <2>2. t \in ToSet(p[q])
    BY <1>1, <1>2, <1>6, <2>1
  <2> QED
    BY <2>2
<1>8. \A k \in Nat : k \in X => k + 1 \in X
  <2> SUFFICES ASSUME NEW k \in Nat, k \in X, q + (k + 1) <= N PROVE t \in ToSet(p[q + (k + 1)])
    OBVIOUS
  <2> DEFINE n == q + k
  <2>1. n \in 0..N /\ n + 1 \in 1..N /\ (n + 1) - 1 = n /\ q + (k + 1) = n + 1 /\ t \in ToSet(p[n])
    BY <1>0
  <2> HIDE DEF n, X
  <2> DEFINE more == ModuleTags(cfg, cfg.modules[n + 1].module)
  <2>2. p[n + 1] = p[n] \o more /\ p[n] \in Seq(TagRows) /\ more \in Seq(TagRows)
    BY <1>5, <2>1, ModuleTagsHold
  <2> HIDE DEF more
  <2>3. t \in ToSet(p[n + 1])
    BY <1>6, <2>1, <2>2
  <2> QED
    BY <2>1, <2>3
<1> HIDE DEF X
<1>9. N - q \in X
  <2>1. N - q \in Nat
    BY <1>0
  <2> QED
    BY <1>7, <1>8, <2>1, AllNaturals
<1>10. q + (N - q) = N
  BY <1>0
<1>11. t \in ToSet(p[N])
  BY <1>0, <1>9, <1>10 DEF X
<1> QED
  BY <1>5, <1>11

\* The layout fails exactly if a channel has no signal or two, or a signal no channel.
LEMMA LaysOutIfSound ==
  ASSUME NEW cfg, IsConfiguration(cfg), SignalsApart(cfg), TagsHaveModules(cfg)
  PROVE  LaysOut(cfg) <=>
           /\ \A t \in ToSet(cfg.tags) : Cardinality({s \in RawSignals(cfg) : s.tag = t.id}) = 1
           /\ \A s \in RawSignals(cfg) : s.tag \in Ids(ToSet(cfg.tags))
<1> DEFINE of(t) == {s \in RawSignals(cfg) : s.tag = t.id}
           tags == ToSet(cfg.tags)
           raw == RawSignals(cfg)
<1>1. ToSet(PlacedTags(cfg)) = tags
  <2>1. \A t \in tags : t \in ToSet(PlacedTags(cfg))
    <3> SUFFICES ASSUME NEW t \in tags PROVE t \in ToSet(PlacedTags(cfg))
      OBVIOUS
    <3>1. PICK m \in ToSet(cfg.modules) : m.module = t.module
      BY DEF TagsHaveModules
    <3> QED
      BY <3>1, TagsArePlaced
  <2>2. ToSet(PlacedTags(cfg)) \subseteq tags
    BY PlacedAreLoaded
  <2> QED
    BY <2>1, <2>2
<1>2. LaysOut(cfg) <=>
        /\ \A r, s \in raw : r.tag = s.tag => r.id = s.id
        /\ \A t \in tags : \E s \in raw : s.tag = t.id
        /\ \A s \in raw : s.tag \in Ids(tags)
  BY <1>1 DEF LaysOut
<1>3. \A r, s \in raw : r.id = s.id => r = s
  BY DEF SignalsApart, RawSignals
<1>4. \A t : IsFiniteSet(of(t))
  <2> TAKE t
  <2>1. IsFiniteSet(ToSet(cfg.signals))
    BY ListIsFinite DEF IsConfiguration
  <2>2. of(t) \subseteq ToSet(cfg.signals)
    BY DEF RawSignals
  <2> HIDE DEF of
  <2> QED
    BY <2>1, <2>2, FS_Subset
<1>5. \A t : Cardinality(of(t)) = 1 <=> \E x : of(t) = {x}
  <2> HIDE DEF of
  <2> QED
    BY <1>4, FS_Singleton
<1> HIDE DEF tags, raw
<1>6. ASSUME LaysOut(cfg), NEW t \in tags PROVE Cardinality(of(t)) = 1
  <2>1. PICK s \in raw : s.tag = t.id
    BY <1>2, <1>6
  <2>2. \A r \in raw : r.tag = t.id => r = s
    BY <1>2, <1>3, <1>6, <2>1
  <2>3. of(t) = {s}
    BY <2>1, <2>2 DEF raw
  <2> HIDE DEF of
  <2> QED
    BY <1>5, <2>3
<1>7. ASSUME \A t \in tags : Cardinality(of(t)) = 1, \A s \in raw : s.tag \in Ids(tags)
      PROVE  LaysOut(cfg)
  <2>1. \A t \in tags : \E x : of(t) = {x}
    <3> HIDE DEF of
    <3> QED
      BY <1>5, <1>7
  <2>2. \A t \in tags : \E s \in raw : s.tag = t.id
    BY <2>1 DEF raw
  <2>3. ASSUME NEW r \in raw, NEW s \in raw, r.tag = s.tag PROVE r.id = s.id
    <3>1. PICK t \in tags : t.id = r.tag
      BY <1>7 DEF Ids
    <3>2. r \in of(t) /\ s \in of(t)
      BY <2>3, <3>1 DEF raw
    <3> QED
      BY <2>1, <3>2
  <2> QED
    BY <1>2, <1>7, <2>2, <2>3
<1>8. LaysOut(cfg) => \A s \in raw : s.tag \in Ids(tags)
  BY <1>2
<1> QED
  BY <1>6, <1>7, <1>8 DEF tags, raw

\* ConfigurationValidator::build() accepts exactly the sound configurations: every
\* channel has one signal and every raw signal a channel, the modules have what their
\* drivers ask for, every formula has a meaning and names signals only, every sensor
\* that is set has a calibration, and no signals are calculated from one another in a
\* circle.  The signals of a loaded configuration have ids and names of their own, and
\* its channels are those of its modules.
THEOREM BuiltIsSound ==
  ASSUME NEW cfg, IsConfiguration(cfg), SignalsApart(cfg), TagsHaveModules(cfg)
  PROVE  Built(cfg) # {} <=> Sound(cfg)
<1> DEFINE calculated == ToSet(CalculatedSignals(cfg))
           values == [n \in SignalNames(cfg) |-> 0]
           means(s) == NamesIn(s.formula) \subseteq SignalNames(cfg) /\ Meanings(s.formula, values) # {}
           laid == /\ \A t \in ToSet(cfg.tags) : Cardinality({s \in RawSignals(cfg) : s.tag = t.id}) = 1
                   /\ \A s \in RawSignals(cfg) : s.tag \in Ids(ToSet(cfg.tags))
<1>1. LaysOut(cfg) <=> laid
  BY LaysOutIfSound
<1>2. FormulasBuilt(cfg) <=> \A s \in calculated : means(s)
  <2>1. \A s \in calculated : s \in ToSet(cfg.signals)
    BY CalculatedHold
  <2> HIDE DEF calculated, values
  <2>2. \A s \in calculated : Compiled(cfg, s) # {} <=> means(s)
    BY <2>1, CompiledIfSound
  <2> HIDE DEF means
  <2> QED
    BY <2>2 DEF FormulasBuilt, calculated
<1>3. FormulasBuilt(cfg) => (CalculationOrder(cfg) # {} <=> WithoutCycles(cfg))
  BY OrderedIfAcyclic
<1>4. Built(cfg) # {} <=>
        /\ LaysOut(cfg) /\ ModulesValidated(cfg) /\ CalibrationsValidated(cfg)
        /\ FormulasBuilt(cfg) /\ CalculationOrder(cfg) # {}
  BY DEF Built, CalculationPlan
<1>5. Sound(cfg) <=>
        /\ laid /\ ModulesValidated(cfg)
        /\ \A s \in calculated : means(s)
        /\ \A s \in calculated : s.sensor # NoId => CalibrationUsed(cfg, s.sensor) # {}
        /\ WithoutCycles(cfg)
  BY DEF Sound, SignalNames
<1>6. CalibrationsValidated(cfg) <=>
        \A s \in calculated : s.sensor # NoId => CalibrationUsed(cfg, s.sensor) # {}
  BY DEF CalibrationsValidated
<1> HIDE DEF calculated, values, means, laid
<1> QED
  BY <1>1, <1>2, <1>3, <1>4, <1>5, <1>6

-----------------------------------------------------------------------------
(* What is accepted. *)

\* The channels that were loaded are of modules that were loaded before them.
ModulesBeforeTags ==
  /\ TagsHaveModules(loading.read) /\ TagsHaveModules(controller.configuration)
  /\ loading.stage \in {"none", "configuration", "modules", "tags"} => loading.read.tags = <<>>

AInv == FInv /\ ModulesBeforeTags

LEMMA NoTagsHaveModules ==
  ASSUME NEW cfg, cfg.tags = <<>>
  PROVE  TagsHaveModules(cfg)
<1>1. ToSet(<<>>) = {}
  BY DEF ToSet
<1> QED
  BY <1>1 DEF TagsHaveModules

\* Nothing is read, or nothing more of modules and tags.
TagsKept ==
  /\ \/ loading'.read = Nothing
     \/ /\ loading'.read.modules = loading.read.modules /\ loading'.read.tags = loading.read.tags
        /\ loading'.stage \in {"none", "configuration", "modules", "tags"} =>
             loading.stage \in {"none", "configuration", "modules", "tags"}
  /\ controller'.configuration \in {controller.configuration, loading.read, Nothing}

LEMMA KeptHaveModules ==
  ASSUME AInv, TagsKept
  PROVE  ModulesBeforeTags'
<1>1. TagsHaveModules(Nothing) /\ Nothing.tags = <<>>
  BY NoTagsHaveModules DEF Nothing
<1>2. CASE loading'.read = Nothing
  BY <1>1, <1>2 DEF AInv, ModulesBeforeTags, TagsKept, TagsHaveModules
<1>3. CASE loading'.read # Nothing
  <2>1. /\ loading'.read.modules = loading.read.modules /\ loading'.read.tags = loading.read.tags
        /\ loading'.stage \in {"none", "configuration", "modules", "tags"} =>
             loading.stage \in {"none", "configuration", "modules", "tags"}
    BY <1>3 DEF TagsKept
  <2>2. TagsHaveModules(loading'.read)
    BY <2>1 DEF AInv, ModulesBeforeTags, TagsHaveModules
  <2>3. TagsHaveModules(controller'.configuration)
    BY <1>1 DEF AInv, ModulesBeforeTags, TagsKept
  <2>4. loading'.stage \in {"none", "configuration", "modules", "tags"} => loading'.read.tags = <<>>
    BY <2>1 DEF AInv, ModulesBeforeTags
  <2> QED
    BY <2>2, <2>3, <2>4 DEF ModulesBeforeTags, TagsHaveModules
<1> QED
  BY <1>2, <1>3

LEMMA ReadsTo ==
  ASSUME AInv, NEW stage, NEW column \in Columns, NEW rows, NEW next, Reads(stage, column, rows, next)
  PROVE  /\ loading.stage = stage /\ loading'.stage = next
         /\ loading'.read = [loading.read EXCEPT ![column] = rows]
         /\ controller' = controller
         /\ DOMAIN loading.read = Columns
BY DEF Reads, AInv, FInv, HInv, SInv, Shapes

LEMMA ReadsKeepTags ==
  ASSUME AInv, NEW stage, NEW column \in Columns \ {"modules", "tags"}, NEW rows, NEW next,
         Reads(stage, column, rows, next),
         next \in {"none", "configuration", "modules", "tags"} =>
           stage \in {"none", "configuration", "modules", "tags"}
  PROVE  ModulesBeforeTags'
<1>1. /\ loading.stage = stage /\ loading'.stage = next
      /\ loading'.read = [loading.read EXCEPT ![column] = rows]
      /\ controller' = controller
      /\ DOMAIN loading.read = Columns
  BY ReadsTo
<1>2. loading'.read.modules = loading.read.modules /\ loading'.read.tags = loading.read.tags
  BY <1>1 DEF Columns
<1> QED
  BY <1>1, <1>2, KeptHaveModules DEF TagsKept

LEMMA LoadingHasModules ==
  ASSUME AInv, Loading
  PROVE  ModulesBeforeTags'
<1>0. Columns = {"id", "modules", "tags", "signals", "types", "sensors", "calibrations"}
  BY DEF Columns
<1>1. CASE ReadsConfiguration
  BY <1>0, <1>1, ReadsKeepTags DEF ReadsConfiguration
<1>2. CASE ReadsModules
  <2>1. PICK s \in SetToSeqs(ActiveModules(db, controller.id)) : Reads("modules", "modules", s, "tags")
    BY <1>2 DEF ReadsModules
  <2>2. /\ loading.stage = "modules" /\ controller' = controller
        /\ loading'.read = [loading.read EXCEPT !["modules"] = s]
        /\ DOMAIN loading.read = Columns
    BY <1>0, <2>1, ReadsTo
  <2>3. loading'.read.tags = <<>>
    BY <1>0, <2>2 DEF AInv, ModulesBeforeTags
  <2>4. TagsHaveModules(loading'.read)
    BY <2>3, NoTagsHaveModules
  <2> QED
    BY <2>2, <2>3, <2>4 DEF AInv, ModulesBeforeTags, TagsHaveModules
<1>3. CASE ReadsTags
  <2> DEFINE rows == ActiveTags(db, controller.id)
  <2>1. PICK s \in SetToSeqs(rows) : Reads("tags", "tags", s, "signals")
    BY <1>3 DEF ReadsTags
  <2>2. /\ loading'.stage = "signals" /\ controller' = controller
        /\ loading'.read = [loading.read EXCEPT !["tags"] = s]
        /\ DOMAIN loading.read = Columns
    BY <1>0, <2>1, ReadsTo
  <2>3. loading'.read.tags = s /\ loading'.read.modules = loading.read.modules
    BY <1>0, <2>2
  <2>4. \A t \in rows : \E m \in ToSet(loading.read.modules) : m.module = t.module
    BY <1>3 DEF ReadsTags, TagsAccepted, TagAdded
  <2>5. ToSet(s) \subseteq rows
    <3> HIDE DEF rows
    <3>1. s \in [1..Cardinality(rows) -> rows]
      BY <2>1 DEF SetToSeqs
    <3> QED
      BY <3>1 DEF ToSet
  <2> HIDE DEF rows
  <2>6. TagsHaveModules(loading'.read)
    BY <2>3, <2>4, <2>5 DEF TagsHaveModules
  <2> QED
    BY <2>2, <2>6 DEF AInv, ModulesBeforeTags, TagsHaveModules
<1>4. CASE ReadsSignals \/ ReadsTypes \/ ReadsSensors
  <2>1. PICK column \in {"signals", "types", "sensors"} : \E stage, rows :
          \E next \in {"types", "sensors", "calibrations"} : Reads(stage, column, rows, next)
    BY <1>4 DEF ReadsSignals, ReadsTypes, ReadsSensors
  <2>2. PICK stage, rows : \E next \in {"types", "sensors", "calibrations"} :
          Reads(stage, column, rows, next)
    BY <2>1
  <2>3. PICK next \in {"types", "sensors", "calibrations"} : Reads(stage, column, rows, next)
    BY <2>2
  <2> QED
    BY <1>0, <2>1, <2>3, ReadsKeepTags
<1>5. CASE ReadsCalibrations \/ ReadsData
  <2>1. controller' = controller
    BY <1>5 DEF ReadsCalibrations, ReadsData
  <2>2. /\ DOMAIN loading = {"stage", "read", "pending", "previous", "wasLoaded", "first"}
        /\ DOMAIN loading.read = Columns
    BY DEF AInv, FInv, HInv, SInv, Shapes
  <2>3. /\ loading'.stage = "data"
        /\ loading'.read.modules = loading.read.modules /\ loading'.read.tags = loading.read.tags
    <3>1. CASE ReadsCalibrations
      BY <2>2, <3>1 DEF ReadsCalibrations
    <3>2. CASE ReadsData
      <4>1. PICK i, k : loading' = [loading EXCEPT !.pending = @ \ {i}, !.read.calibrations = @ \cup {k}]
        BY <3>2 DEF ReadsData
      <4>2. loading.stage = "data"
        BY <3>2 DEF ReadsData
      <4> QED
        BY <1>0, <2>2, <4>1, <4>2
    <3> QED
      BY <1>5, <3>1, <3>2
  <2> QED
    BY <2>1, <2>3, KeptHaveModules DEF TagsKept
<1>6. CASE LoadSucceeds \/ LoadFails
  <2>1. /\ loading' = NotLoading
        /\ controller'.configuration \in {controller.configuration, loading.read}
    BY <1>6 DEF LoadSucceeds, LoadFails, AInv, FInv, HInv, SInv, Shapes, Restored
  <2>2. loading'.read = Nothing
    BY <2>1 DEF NotLoading
  <2> QED
    BY <2>1, <2>2, KeptHaveModules DEF TagsKept
<1> QED
  BY <1>1, <1>2, <1>3, <1>4, <1>5, <1>6 DEF Loading

LEMMA WindowHasModules ==
  ASSUME AInv, \/ Open \/ Close \/ Start \/ Stop \/ \E c \in Ids(window.list) : SelectConfiguration(c)
  PROVE  ModulesBeforeTags'
<1>1. CASE Open
  <2>1. /\ loading' = [NotLoading EXCEPT !.stage = "configuration", !.first = TRUE]
        /\ controller' = [NoController EXCEPT !.id = saved]
    BY <1>1 DEF Open
  <2>2. loading'.read = Nothing /\ controller'.configuration = Nothing
    BY <2>1 DEF NotLoading, NoController
  <2> QED
    BY <2>2, KeptHaveModules DEF TagsKept
<1>2. CASE Close
  <2>1. controller' = NoController /\ UNCHANGED loading
    BY <1>2 DEF Close
  <2>2. controller'.configuration = Nothing
    BY <2>1 DEF NoController
  <2> QED
    BY <2>1, <2>2, KeptHaveModules DEF TagsKept
<1>3. CASE Start \/ Stop
  <2>1. UNCHANGED <<controller, loading>>
    BY <1>3 DEF Start, Stop, StopServer
  <2> QED
    BY <2>1, KeptHaveModules DEF TagsKept
<1>4. ASSUME NEW c \in Ids(window.list), SelectConfiguration(c) PROVE ModulesBeforeTags'
  <2>1. /\ controller' = [controller EXCEPT !.id = c, !.loaded = FALSE]
        /\ loading' = [NotLoading EXCEPT !.stage = "configuration", !.previous = controller.id,
                                         !.wasLoaded = controller.loaded]
    BY <1>4 DEF SelectConfiguration
  <2>2. loading'.read = Nothing
    BY <2>1 DEF NotLoading
  <2>3. controller'.configuration = controller.configuration
    BY <2>1 DEF AInv, FInv, HInv, SInv, Shapes
  <2> QED
    BY <2>2, <2>3, KeptHaveModules DEF TagsKept
<1> QED
  BY <1>1, <1>2, <1>3, <1>4

LEMMA NextAInv == AInv /\ [Next]_vars => AInv'
<1> SUFFICES ASSUME AInv, [Next]_vars PROVE AInv'
  OBVIOUS
<1>1. FInv'
  BY NextFInv DEF AInv
<1>2. ModulesBeforeTags'
  <2>1. CASE FrameArrives \/ EditorWrites \/ UNCHANGED vars
    <3>1. UNCHANGED <<controller, loading>>
      BY <2>1 DEF FrameArrives, EditorWrites, vars
    <3> QED
      BY <3>1, KeptHaveModules DEF TagsKept
  <2> QED
    BY <2>1, LoadingHasModules, WindowHasModules DEF Next
<1> QED
  BY <1>1, <1>2 DEF AInv

LEMMA AInvHolds == Spec => []AInv
<1>1. Init => AInv
  <2> SUFFICES ASSUME Init PROVE AInv
    OBVIOUS
  <2>1. controller.configuration = Nothing /\ loading.read = Nothing /\ frame = NoFrame
    BY DEF Init, NoController, NotLoading
  <2>2. SignalsApart(Nothing)
    BY NoSignalsAreApart DEF Nothing
  <2>3. FInv
    BY <2>1, <2>2, InitHolds, InitRecorded DEF FInv, FramesShown, FrameIsCalculated, HInv
  <2>4. TagsHaveModules(Nothing) /\ Nothing.tags = <<>>
    BY NoTagsHaveModules DEF Nothing
  <2> QED
    BY <2>1, <2>3, <2>4 DEF AInv, ModulesBeforeTags
<1> QED
  BY <1>1, NextAInv, PTL DEF Spec

\* Whatever states of the database a load read its statements from, the server accepts
\* what it loaded exactly if that is sound: ConfigurationValidator::build() refuses no
\* sound configuration, and none that is not sound can be started.
THEOREM OnlyTheSoundIsAccepted == Spec => []AcceptsExactlyTheSound
<1>1. AInv => AcceptsExactlyTheSound
  <2> SUFFICES ASSUME AInv PROVE AcceptsExactlyTheSound
    OBVIOUS
  <2> DEFINE cfg == controller.configuration
  <2>1. IsConfiguration(cfg) /\ SignalsApart(cfg) /\ TagsHaveModules(cfg)
    BY LoadedIsConfiguration DEF AInv, FInv, FramesShown, ModulesBeforeTags
  <2> HIDE DEF cfg
  <2>2. Built(cfg) # {} <=> Sound(cfg)
    BY <2>1, BuiltIsSound
  <2> QED
    BY <2>2 DEF AcceptsExactlyTheSound, cfg
<1> QED
  BY <1>1, AInvHolds, PTL
==============================================================================
