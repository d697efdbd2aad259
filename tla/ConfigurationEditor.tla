-------------------------- MODULE ConfigurationEditor --------------------------
(* The configuration editor: one window on the configuration database.
   The window keeps copies of what it has read, in `view` and `catalogue`, and
   writes through the repository; a copy is changed in memory after the write
   has succeeded, and read again only at the places below.  Any statement may
   fail.  One that writes and fails leaves database and copies alone, and is not
   an action here; one that reads and fails is an outcome of the action it
   belongs to, in which the user is warned and the copy is `stale`.           *)
EXTENDS ConfigurationDatabase

CONSTANTS
  InitialDatabases,   (* what the database may hold when the editor starts     *)
  CalibrationTables,  (* tables a user may leave in the dialog, by kind        *)
  MaxEdits,           (* bound on the number of edits                          *)
  MaxFailures         (* bound on the readings that fail                       *)

ASSUME EditorAssumption ==
  /\ \A d \in InitialDatabases : SchemaHolds(d)
  /\ MaxEdits \in Nat /\ MaxFailures \in Nat

VARIABLES
  db,        \* the database
  open,      \* the editor is running
  view,      \* what the window shows of configurations
  catalogue, \* what it shows of sensors and their types
  edits,     \* edits made so far
  failures   \* failures that left a part of the window behind the database

vars == <<db, open, view, catalogue, edits, failures>>

Parts == {"tree", "marks", "signals", "sources"}
NoSignal == [id |-> NoId]

-----------------------------------------------------------------------------
(* What the models read. *)

RawTags(d, c) == {s.tag : s \in {r \in SignalsOf(d, c) : r.kind = "Raw"}}

\* ConfigurationTreeModel: modules and channels of a configuration, and the tags
\* that have a raw signal.  Modules of the inventory without a row here are shown
\* unchecked.
TreeOf(d, c) ==
  [configuration |-> c, modules |-> ModulesOf(d, c), tags |-> TagsOf(d, c),
   rawTags |-> RawTags(d, c)]

\* The modules the tree shows in differential mode.  These have 16 channels: the
\* window hides the rows of the others.
Differential(rows) ==
  {r.module : r \in {q \in rows : ModuleType[q.module] = "LTR11" /\ q.settings.mode = 0}}

\* ConfigurationSignalModel.
SignalListOf(d, c) == [configuration |-> c, rows |-> SignalsOf(d, c)]

\* Before anything was read, and while the editor is not running.
EmptyView ==
  [list |-> {}, current |-> NoId, tree |-> TreeOf(EmptyDatabase, NoId), hidden |-> {},
   signals |-> SignalListOf(EmptyDatabase, NoId), sources |-> {}, panel |-> NoSignal,
   stale |-> {}]

\* configurationChanged(): the views it may leave.  The first model that cannot
\* be read leaves itself and the rest as they were.  A tree that is read shows
\* every row, until the modules in differential mode are looked for.  Without a
\* configuration the tree alone is read, and nobody is told when that fails.
ConfigurationChanged(v, d) ==
  LET c      == v.current
      closed == [v EXCEPT !.panel = NoSignal]
      tree   == [closed EXCEPT !.tree = TreeOf(d, c), !.hidden = {}]
      both   == [tree EXCEPT !.signals = SignalListOf(d, c),
                             !.hidden = Differential(ModulesOf(d, c))]
  IN IF c = NoId
     THEN {[w EXCEPT !.signals = SignalListOf(d, c), !.sources = {}, !.stale = {}] :
             w \in {tree, closed}}
     ELSE {[closed EXCEPT !.stale = Parts],
           [tree EXCEPT !.stale = {"signals", "sources"}],
           [both EXCEPT !.stale = {"sources"}],
           [both EXCEPT !.sources = TagSources(d, c), !.stale = {}]}

\* The lambda of tagSourcesChanged, and refreshRawSignalTags().  The tree reads
\* the signals of its own configuration, so that a stale tree stays stale.
SourcesRefreshed(v, d) ==
  IF v.current = NoId
  THEN {v}
  ELSE {[v EXCEPT !.sources = TagSources(d, v.current), !.stale = @ \ {"sources"}],
        [v EXCEPT !.stale = @ \cup {"sources"}]}

MarksRefreshed_OnlyNew(v, d) ==
  {[v EXCEPT !.tree.rawTags = @ \cup RawTags(d, v.tree.configuration),
             !.stale = IF "tree" \in @ THEN @ ELSE @ \ {"marks"}],
   [v EXCEPT !.stale = @ \cup {"marks"}]}
MarksRefreshed(v, d) ==
  {[v EXCEPT !.tree.rawTags = RawTags(d, v.tree.configuration),
             !.stale = IF "tree" \in @ THEN @ ELSE @ \ {"marks"}],
   [v EXCEPT !.stale = @ \cup {"marks"}]}

\* ConfigurationSelector::reload() with the choice that follows it.  A list that
\* cannot be read is left empty, and the user is warned.
ListLost(v) == [v EXCEPT !.list = {}, !.current = NoId]
Chosen(v, d, c) == [v EXCEPT !.list = d.configurations, !.current = c]

Edit == open /\ edits < MaxEdits /\ edits' = edits + 1

-----------------------------------------------------------------------------
(* Configurations. *)

SelectConfiguration(c) ==
  /\ c \in Ids(view.list) /\ c # view.current
  /\ view' \in ConfigurationChanged([view EXCEPT !.current = c], db)
  /\ UNCHANGED <<db, open, catalogue, edits>>

\* addConfiguration(): views of the new configuration, unless the list is lost.
AddsConfiguration(n) ==
  /\ Edit
  /\ CanAddConfiguration(db, n)
  /\ db' = AddConfiguration(db, n)
  /\ \/ view' = ListLost(view)
     \/ view' \in ConfigurationChanged(Chosen(view, db', db.next["configurations"]), db')
  /\ UNCHANGED <<open, catalogue>>

\* editConfiguration(): the list alone is read again.
EditsConfiguration(n) ==
  /\ Edit
  /\ view.current # NoId
  /\ CanUpdateConfiguration(db, view.current, n)
  /\ db' = UpdateConfiguration(db, view.current, n)
  /\ view' \in {ListLost(view), Chosen(view, db', view.current)}
  /\ UNCHANGED <<open, catalogue>>

\* removeConfiguration(): then the first of the list is shown, if there is one.
RemovesConfiguration ==
  /\ Edit
  /\ view.current \in Ids(db.configurations)
  /\ db' = RemoveConfiguration(db, view.current)
  /\ \/ view' = ListLost(view)
     \/ \E c \in IF db'.configurations = {} THEN {NoId} ELSE Ids(db'.configurations) :
          view' \in ConfigurationChanged(Chosen(view, db', c), db')
  /\ UNCHANGED <<open, catalogue>>

-----------------------------------------------------------------------------
(* The tree.  It writes to the configuration it was loaded for. *)

ModuleShown(m) == {r \in view.tree.modules : r.module = m}
ChannelShown(m, channel) == {t \in view.tree.tags : t.module = m /\ t.channel = channel}

\* A row of a channel shows unless it is hidden, and can be used only then.
RowShown(m, channel) == m \in view.hidden => channel < 16

\* updateChannelVisibility()
VisibilityUpdated(v, m) ==
  [v EXCEPT !.hidden = (@ \ {m}) \cup ({m} \cap Differential(v.tree.modules))]

\* setData() of a module's box.
ChecksModule(m) ==
  LET c   == view.tree.configuration
      new == AddConfigModule(db, c, m)
  IN /\ Edit
     /\ ModuleShown(m) = {}
     /\ CanAddConfigModule(db, c, m)
     /\ db' = new
     /\ view' \in SourcesRefreshed(
                    VisibilityUpdated(
                      [view EXCEPT !.tree.modules = @ \cup (new.modules \ db.modules)], m),
                    new)
     /\ UNCHANGED <<open, catalogue>>

TogglesModule(m) ==
  LET c == view.tree.configuration
  IN /\ Edit
     /\ HasModule(db, c, m)
     /\ \E r \in ModuleShown(m) :
          /\ db' = SetConfigModuleActive(db, c, m, ~r.active)
          /\ view' \in SourcesRefreshed(
                         VisibilityUpdated(
                           [view EXCEPT !.tree.modules =
                              (@ \ {r}) \cup {[r EXCEPT !.active = ~@]}], m), db')
     /\ UNCHANGED <<open, catalogue>>

\* setData() of a channel's box, which can be checked in an active module only.
ChecksChannel(m, channel) ==
  LET c   == view.tree.configuration
      tag == NewTag(db, c, m, channel)
  IN /\ Edit
     /\ RowShown(m, channel)
     /\ \E r \in ModuleShown(m) : r.active
     /\ ChannelShown(m, channel) = {}
     /\ CanAddConfigTag(db, c, m, channel)
     /\ db' = AddConfigTag(db, c, m, channel)
     /\ view' \in SourcesRefreshed([view EXCEPT !.tree.tags = @ \cup {tag}], db')
     /\ UNCHANGED <<open, catalogue>>

TogglesChannel(m, channel) ==
  /\ Edit
  /\ RowShown(m, channel)
  /\ \E r \in ModuleShown(m) : r.active
  /\ \E t \in ChannelShown(m, channel) :
       /\ t.id \in Ids(db.tags)
       /\ db' = SetConfigTagActive(db, t.id, ~t.active)
       /\ view' \in SourcesRefreshed(
                      [view EXCEPT !.tree.tags =
                         (@ \ {t}) \cup {[t EXCEPT !.active = ~@]}], db')
  /\ UNCHANGED <<open, catalogue>>

\* The properties of a module and of a channel: all settings are written.
NewSettings_OtherKey(settings, key, value) ==
  [settings EXCEPT ![IF key = "rate" THEN "mode" ELSE "rate"] = value]
NewSettings(settings, key, value) == [settings EXCEPT ![key] = value]

\* The properties a module has: those of an LTR11 that has a row.
PropertiesOf(m) ==
  IF ModuleType[m] = "LTR11" /\ ModuleShown(m) # {} THEN {"rate", "mode"} ELSE {}

\* Rows are hidden and shown if it is the first of the module's two cells that is
\* current: the second has no rows below it.  A user asked whether to go on with a
\* mode that hides channels in use may well say yes, and they stay active.
ChangesModule(m, key, value) ==
  /\ Edit
  /\ key \in PropertiesOf(m)
  /\ \E r \in ModuleShown(m) :
       LET settings == NewSettings(r.settings, key, value)
           changed  == [view EXCEPT !.tree.modules =
                          (@ \ {r}) \cup {[r EXCEPT !.settings = settings]}]
       IN /\ settings # r.settings
          /\ db' = UpdateConfigModuleSettings(db, view.tree.configuration, m, settings)
          /\ view' \in {VisibilityUpdated(changed, m), changed}
  /\ UNCHANGED <<open, catalogue>>

ChangesChannel(m, channel, range) ==
  /\ Edit
  /\ RowShown(m, channel)
  /\ \E t \in ChannelShown(m, channel) :
       /\ t.range # range
       /\ db' = UpdateConfigTagSettings(db, t.id, range)
       /\ view' = [view EXCEPT !.tree.tags = (@ \ {t}) \cup {[t EXCEPT !.range = range]}]
  /\ UNCHANGED <<open, catalogue>>

-----------------------------------------------------------------------------
(* Signals, and the panel of the selected one. *)

SelectSignal(s) ==
  /\ s \in view.signals.rows /\ s # view.panel
  /\ view' = [view EXCEPT !.panel = s]
  /\ UNCHANGED <<db, open, catalogue, edits>>

ShownNew_Rate(d, c, n, kind) == [NewSignal(d, c, n, kind) EXCEPT !.archiveRate = 1]

\* createSignal() makes the row it shows itself: the schema's defaults again.
ShownNew(d, c, n, kind) ==
  [id |-> d.next["signals"], configuration |-> c, name |-> n, kind |-> kind,
   tag |-> NoId, sensor |-> NoId, formula |-> NoFormula, archiveRate |-> 10]

CreatesSignal(n, kind) ==
  LET c    == view.signals.configuration
      row  == ShownNew(db, c, n, kind)
      with == [view EXCEPT !.signals.rows = @ \cup {row}, !.panel = row]
  IN /\ Edit
     /\ view.current # NoId
     /\ CanCreateSignal(db, c, n)
     /\ db' = CreateSignal(db, c, n, kind)
     /\ view' \in IF kind = "Raw" THEN MarksRefreshed(with, db') ELSE {with}
     /\ UNCHANGED <<open, catalogue>>

\* updateActions(): there is a signal to remove.
HasSelectedSignal == view.current # NoId /\ view.panel # NoSignal

\* The selected signal; the selection moves on to a signal beside it.
RemovesSignal ==
  LET s    == view.panel
      rows == {r \in view.signals.rows : r.id # s.id}
  IN /\ Edit
     /\ HasSelectedSignal
     /\ HasSignal(db, view.signals.configuration, s.id)
     /\ db' = RemoveSignal(db, s.id)
     /\ \E next \in {r \in rows : r.kind = s.kind} \cup {NoSignal} :
          LET without == [view EXCEPT !.signals.rows = rows, !.panel = next]
          IN view' \in IF s.kind = "Raw" THEN MarksRefreshed(without, db') ELSE {without}
     /\ UNCHANGED <<open, catalogue>>

\* A property of the panel: the model's row and the panel's copy follow the write.
Rewritten(column, value) ==
  LET s   == view.panel
      new == [s EXCEPT ![column] = value]
  IN [view EXCEPT !.signals.rows = (@ \ {s}) \cup {new}, !.panel = new]

Editable(s) ==
  IF s.kind = "Raw" THEN {"name", "archiveRate"}
                    ELSE {"name", "archiveRate", "formula", "sensor"}

ChangesSignal(column, value) ==
  LET s == view.panel
  IN /\ Edit
     /\ s # NoSignal
     /\ column \in Editable(s) /\ s[column] # value
     /\ CanUpdateSignal(db, view.signals.configuration, s.id, column, value)
     /\ db' = UpdateSignal(db, s.id, column, value)
     /\ view' = Rewritten(column, value)
     /\ UNCHANGED <<open, catalogue>>

RenamesSignal(n) == ChangesSignal("name", n)
ChangesArchiveRate(rate) == ChangesSignal("archiveRate", rate)
ChangesFormula(formula) == ChangesSignal("formula", formula)

\* The panel offers the sensors there were when the editor started.
ChangesSensorOf(i) == i \in catalogue.offered \cup {NoId} /\ ChangesSignal("sensor", i)

\* The panel offers the sources it was last given.
ChangesSource(tag) ==
  LET s == view.panel
  IN /\ Edit
     /\ s # NoSignal
     /\ s.kind = "Raw" /\ s.tag # tag
     /\ tag \in view.sources \cup {NoId}
     /\ CanUpdateSignalSource(db, view.signals.configuration, s.id, tag)
     /\ db' = UpdateSignal(db, s.id, "tag", tag)
     /\ view' \in MarksRefreshed(Rewritten("tag", tag), db')
     /\ UNCHANGED <<open, catalogue>>

-----------------------------------------------------------------------------
(* Sensors, their types and their calibrations. *)

CreatesType(n) ==
  /\ Edit
  /\ CanCreateSensorType(db, n)
  /\ db' = CreateSensorType(db, n)
  /\ catalogue' = [catalogue EXCEPT !.types = @ \cup {NewSensorType(db, n)}]
  /\ UNCHANGED <<open, view>>

ChangesType(t, column, value) ==
  LET new == [t EXCEPT ![column] = value]
  IN /\ Edit
     /\ t \in catalogue.types /\ new # t
     /\ CanUpdateSensorType(db, new)
     /\ db' = UpdateSensorType(db, new)
     /\ catalogue' = [catalogue EXCEPT !.types = (@ \ {t}) \cup {new}]
     /\ UNCHANGED <<open, view>>

RemovesType(t) ==
  /\ Edit
  /\ t \in catalogue.types
  /\ CanRemoveSensorType(db, t.id)
  /\ db' = RemoveSensorType(db, t.id)
  /\ catalogue' = [catalogue EXCEPT !.types = @ \ {t}]
  /\ UNCHANGED <<open, view>>

\* updateSensorTypes(), after every change of the types.
OfferedTypes == Ids(catalogue.types)

CreatesSensor(n, type) ==
  /\ Edit
  /\ type \in OfferedTypes
  /\ CanCreateSensor(db, type)
  /\ db' = CreateSensor(db, n, type)
  /\ catalogue' = [catalogue EXCEPT !.sensors = @ \cup {NewSensor(db, n, type)}]
  /\ UNCHANGED <<open, view>>

\* flags(): the kind of a sensor that is calibrated by its type cannot be changed.
EditableSensor(s) ==
  IF s.mode = "Own" THEN {"name", "type", "mode", "kind"} ELSE {"name", "type", "mode"}

ChangesSensor(s, column, value) ==
  LET new == [s EXCEPT ![column] = value]
  IN /\ Edit
     /\ s \in catalogue.sensors /\ new # s
     /\ column \in EditableSensor(s)
     /\ column = "type" => value \in OfferedTypes
     /\ CanUpdateSensor(db, new)
     /\ db' = UpdateSensor(db, new)
     /\ catalogue' = [catalogue EXCEPT !.sensors = (@ \ {s}) \cup {new}]
     /\ UNCHANGED <<open, view>>

RemovesSensor(s) ==
  /\ Edit
  /\ s \in catalogue.sensors
  /\ CanRemoveSensor(db, s.id)
  /\ db' = RemoveSensor(db, s.id)
  /\ catalogue' = [catalogue EXCEPT !.sensors = @ \ {s}]
  /\ UNCHANGED <<open, view>>

\* editCalibration(): whose calibration, and of which kind, it opens.
CalibratedType(t) == [owner |-> [table |-> "sensor_type", id |-> t.id], kind |-> t.kind]
CalibratedSensor_KindOfSensor(s) ==
  {[owner |-> IF s.mode = "Own" THEN [table |-> "sensor", id |-> s.id]
                                ELSE [table |-> "sensor_type", id |-> s.type],
    kind |-> s.kind]}
CalibratedSensor(s) ==
  IF s.mode = "Own"
  THEN {[owner |-> [table |-> "sensor", id |-> s.id], kind |-> s.kind]}
  ELSE {CalibratedType(t) : t \in {u \in catalogue.types : u.id = s.type}}

\* The dialog is modal, and inserting, removing and changing rows reaches every
\* table: what it accepts is any table that is whole.
SavesCalibration(k) ==
  \E data \in CalibrationTables[k.kind] :
    /\ DataIsWhole(k.kind, data)
    /\ \/ /\ CanCreateCalibration(db, k.owner, k.kind, data)
          /\ db' = CreateCalibration(db, k.owner, k.kind, data)
       \/ \E old \in CalibrationOf(db, k.owner, k.kind) :
            /\ CanUpdateCalibration(db, old.id, k.owner, k.kind, data)
            /\ db' = UpdateCalibration(db, old.id, data)

CalibratesType(t) ==
  /\ Edit
  /\ t \in catalogue.types
  /\ SavesCalibration(CalibratedType(t))
  /\ UNCHANGED <<open, view, catalogue>>

CalibratesSensor(s) ==
  /\ Edit
  /\ s \in catalogue.sensors
  /\ \E k \in CalibratedSensor(s) : SavesCalibration(k)
  /\ UNCHANGED <<open, view, catalogue>>

-----------------------------------------------------------------------------
(* What the window shows in red: data() of the tree and of the list of signals.
   A row that is hidden shows nothing.                                         *)

ChannelMarked(t) ==
  RowShown(t.module, t.channel) /\ t.active /\ t.id \notin view.tree.rawTags
SignalMarked(s) == s.kind = "Raw" /\ s.tag # NoId /\ s.tag \notin view.sources

-----------------------------------------------------------------------------
(* Starting: the constructor.  The catalogue is read once; a list of
   configurations that cannot be read is left empty, and nobody is told.  When the
   sensors of the panel cannot be read the constructor gives up, and the window
   that is left does nothing: the editor is not open.                          *)

EmptyCatalogue == [types |-> {}, sensors |-> {}, offered |-> {}, stale |-> FALSE]

\* load() of SensorTypeModel and of SensorModel: a model that cannot be read is
\* left empty, and the user is warned.
LoadedTypes(d) == {d.types, {}}
LoadedSensors(d) == {d.sensors, {}}

OpenedCatalogues(d) ==
  {[types |-> t, sensors |-> s, offered |-> Ids(d.sensors),
    stale |-> t # d.types \/ s # d.sensors] :
     t \in LoadedTypes(d), s \in LoadedSensors(d)}

\* The configuration of the settings file if the list has it, or else the first.
Chooseable(d) == IF d.configurations = {} THEN {NoId} ELSE Ids(d.configurations)

OpenedViews(d) ==
  ConfigurationChanged(EmptyView, d) \cup
  UNION {ConfigurationChanged(Chosen(EmptyView, d, c), d) : c \in Chooseable(d)}

Init ==
  /\ db \in InitialDatabases
  /\ open = FALSE
  /\ view = EmptyView
  /\ catalogue = EmptyCatalogue
  /\ edits = 0
  /\ failures = 0

Open ==
  /\ ~open
  /\ open' = TRUE
  /\ view' \in OpenedViews(db)
  /\ catalogue' \in OpenedCatalogues(db)
  /\ UNCHANGED <<db, edits>>

Close ==
  /\ open
  /\ open' = FALSE
  /\ view' = EmptyView
  /\ catalogue' = EmptyCatalogue
  /\ UNCHANGED <<db, edits>>

Action ==
  \/ \E c \in Ids(view.list) : SelectConfiguration(c)
  \/ \E n \in Names : AddsConfiguration(n) \/ EditsConfiguration(n)
  \/ RemovesConfiguration
  \/ \E m \in Modules :
       \/ ChecksModule(m)
       \/ TogglesModule(m)
       \/ \E rate \in ChannelRates : ChangesModule(m, "rate", rate)
       \/ \E mode \in {0, 1} : ChangesModule(m, "mode", mode)
       \/ \E channel \in Channels :
            \/ ChecksChannel(m, channel)
            \/ TogglesChannel(m, channel)
            \/ \E range \in Ranges : ChangesChannel(m, channel, range)
  \/ \E s \in view.signals.rows : SelectSignal(s)
  \/ \E n \in Names : \E kind \in {"Raw", "Calculated"} : CreatesSignal(n, kind)
  \/ RemovesSignal
  \/ \E n \in Names : RenamesSignal(n)
  \/ \E rate \in ArchiveRates : ChangesArchiveRate(rate)
  \/ \E formula \in Formulas : ChangesFormula(formula)
  \/ \E i \in catalogue.offered \cup {NoId} : ChangesSensorOf(i)
  \/ \E tag \in view.sources \cup {NoId} : ChangesSource(tag)
  \/ \E n \in Names : CreatesType(n)
  \/ \E t \in catalogue.types :
       \/ RemovesType(t)
       \/ CalibratesType(t)
       \/ \E n \in Names : ChangesType(t, "name", n)
       \/ \E kind \in Kinds : ChangesType(t, "kind", kind)
  \/ \E n \in Names : \E type \in Ids(catalogue.types) : CreatesSensor(n, type)
  \/ \E s \in catalogue.sensors :
       \/ RemovesSensor(s)
       \/ CalibratesSensor(s)
       \/ \E n \in Names : ChangesSensor(s, "name", n)
       \/ \E type \in Ids(catalogue.types) : ChangesSensor(s, "type", type)
       \/ \E mode \in {"Own", "ByType"} : ChangesSensor(s, "mode", mode)
       \/ \E kind \in Kinds : ChangesSensor(s, "kind", kind)
  \/ Open
  \/ Close

FallsBehind ==
  ~ view'.stale \subseteq view.stale \/ (catalogue'.stale /\ ~catalogue.stale)

Next ==
  /\ Action
  /\ failures' = IF FallsBehind THEN failures + 1 ELSE failures
  /\ failures' <= MaxFailures

Spec == Init /\ [][Next]_vars

-----------------------------------------------------------------------------
(* Properties. *)

\* The database keeps its rows in the types of their columns, and the window what
\* a row may be.
TypeOK ==
  /\ RowsAreTyped(db)
  /\ view.current \in Nat
  /\ view.stale \subseteq Parts
  /\ view.sources \subseteq Nat
  /\ view.hidden \subseteq Modules
  /\ view.signals.configuration \in Nat /\ view.tree.configuration \in Nat
  /\ catalogue.stale \in BOOLEAN
  /\ open \in BOOLEAN
  /\ edits \in 0..MaxEdits /\ failures \in 0..MaxFailures

\* What the window shows is what the database holds, for every part the user was
\* not told could not be read: the copies the models change in memory after each
\* write follow the database through any sequence of edits.
ViewsMatchDatabase ==
  /\ view.current # NoId =>
       /\ view.list = db.configurations
       /\ "tree" \notin view.stale =>
            /\ view.tree.configuration = view.current
            /\ view.tree.modules = ModulesOf(db, view.current)
            /\ view.tree.tags = TagsOf(db, view.current)
       /\ "marks" \notin view.stale => view.tree.rawTags = RawTags(db, view.current)
       /\ "signals" \notin view.stale => view.signals = SignalListOf(db, view.current)
       /\ "sources" \notin view.stale => view.sources = TagSources(db, view.current)
  /\ view.panel # NoSignal => view.panel \in view.signals.rows
  /\ open /\ ~catalogue.stale => catalogue.types = db.types /\ catalogue.sensors = db.sensors

\* A signal measures a channel of its own configuration, although the panel offers
\* the sources it was last given and these may be of another configuration.
SourceWithinConfiguration == SourcesAreLocal(db)

\* A configuration that shows nothing in red, where every channel in use has a row
\* that shows, every signal that measures has a channel of its own and something
\* is measured, loads, and its signals have a place in memory: the marks tell all
\* the loader and the layout of the server will object to.  They cannot tell of a
\* channel that a change of mode has left active in a hidden row, which the layout
\* refuses without a raw signal: hence the condition on rows.
Unmarked ==
  /\ view.current # NoId /\ view.stale = {}
  /\ \A t \in view.tree.tags :
       ~ChannelMarked(t) /\ (t.active => RowShown(t.module, t.channel))
  /\ \A s \in view.signals.rows : ~SignalMarked(s) /\ (s.kind = "Raw" => s.tag # NoId)
  /\ \A r, s \in view.signals.rows :
       r.kind = "Raw" /\ s.kind = "Raw" /\ r.tag = s.tag => r.id = s.id
  /\ \E t \in view.tree.tags, m \in view.tree.modules :
       t.active /\ m.active /\ m.module = t.module

UnmarkedConfigurationLoads ==
  Unmarked =>
    /\ Loads(db, view.current)
    /\ \A t \in ActiveTags(db, view.current) :
         \E s \in SignalsOf(db, view.current) : s.kind = "Raw" /\ s.tag = t.id

\* A calibration saved for a sensor is the one the server applies to that sensor.
CalibrationServesItsSensor ==
  [][\A s \in catalogue.sensors :
       CalibratesSensor(s) =>
         (db'.calibrations \ db.calibrations) \subseteq CalibrationUsed(db', s.id)]_vars
==============================================================================
