------------------------ MODULE ConfigurationDatabase ------------------------
(* The tables of the configuration database and the statements of
   ConfigurationRepository on them.  A database is a record of tables, a table
   a set of rows.  An operator named after a writing method is the database the
   method leaves when it succeeds, and Can... is what the statement and the
   constraints of the schema ask of the database for that: unique keys, foreign
   keys that restrict, and rows that must exist where the method counts them.
   A method that fails leaves the database alone.  Texts that decide nothing
   (descriptions, serial numbers, the UDP port) are left out, and so is the
   inventory of crates and modules, which no program of the system edits.     *)
EXTENDS Integers, Sequences, FiniteSets

CONSTANTS
  Modules,        (* the modules of the inventory                             *)
  ModuleType,     (* the type of each: "LTR11" or "Test"                      *)
  Channels,       (* channel numbers of a module                              *)
  Names,          (* names of configurations, signals, types and sensors      *)
  Formulas,       (* formulas an operator enters                              *)
  ArchiveRates,   (* ArchiveRate: 1, 10, 100 and 1000 Hz                      *)
  ChannelRates,   (* channel rates an operator enters                         *)
  Ranges          (* input ranges of a channel                                *)

ASSUME DatabaseAssumption ==
  /\ ModuleType \in [Modules -> {"LTR11", "Test"}]
  /\ Channels \subseteq Nat
  /\ 10 \in ArchiveRates

NoId == 0         \* the null of an id column
Unset == -1       \* a key missing from a settings object
NoFormula == <<>>
Kinds == {"Table", "Polynomial"}

NoModuleSettings == [rate |-> Unset, mode |-> Unset]
ModuleSettings == [rate : ChannelRates \cup {Unset}, mode : {Unset, 0, 1}]
Owners == [table : {"sensor", "sensor_type"}, id : Nat]

Tables == {"configurations", "modules", "tags", "signals", "types", "sensors", "calibrations"}

\* The tables as the script creates them, with the next id of each.
EmptyDatabase ==
  [configurations |-> {}, modules |-> {}, tags |-> {}, signals |-> {},
   types |-> {}, sensors |-> {}, calibrations |-> {}, next |-> [t \in Tables |-> 1]]

Ids(rows) == {r.id : r \in rows}
RowOf(rows, i) == CHOOSE r \in rows : r.id = i

\* The rows after an UPDATE of one column of the row with an id.
Updated(rows, i, column, value) ==
  {IF r.id = i THEN [r EXCEPT ![column] = value] ELSE r : r \in rows}

\* The database after an INSERT into a table with an automatic id.
Inserted(d, table, row) ==
  [d EXCEPT ![table] = @ \cup {row}, !.next[table] = @ + 1]

-----------------------------------------------------------------------------
(* Configurations. *)

CanAddConfiguration(d, n) == \A c \in d.configurations : c.name # n
AddConfiguration(d, n) ==
  Inserted(d, "configurations", [id |-> d.next["configurations"], name |-> n])

CanUpdateConfiguration(d, i, n) ==
  i \in Ids(d.configurations) /\ \A c \in d.configurations : c.name = n => c.id = i
UpdateConfiguration(d, i, n) ==
  [d EXCEPT !.configurations = Updated(@, i, "name", n)]

\* Foreign keys take the modules, tags and signals with it.
RemoveConfiguration(d, i) ==
  [d EXCEPT !.configurations = {c \in @ : c.id # i},
            !.modules = {m \in @ : m.configuration # i},
            !.tags = {t \in @ : t.configuration # i},
            !.signals = {s \in @ : s.configuration # i}]

-----------------------------------------------------------------------------
(* Modules and channels of a configuration. *)

ModulesOf(d, c) == {m \in d.modules : m.configuration = c}
TagsOf(d, c) == {t \in d.tags : t.configuration = c}

CanAddConfigModule(d, c, m) ==
  c \in Ids(d.configurations) /\ \A r \in ModulesOf(d, c) : r.module # m
AddConfigModule(d, c, m) ==
  [d EXCEPT !.modules = @ \cup {[configuration |-> c, module |-> m, active |-> TRUE,
                                 settings |-> NoModuleSettings]}]

HasModule(d, c, m) == \E r \in d.modules : r.configuration = c /\ r.module = m

UpdateConfigModule(d, c, m, column, value) ==
  [d EXCEPT !.modules = {IF r.configuration = c /\ r.module = m
                         THEN [r EXCEPT ![column] = value] ELSE r : r \in @}]

\* updateConfigModuleSettings(), which does not count rows, and
\* setConfigModuleActive(), which must change one.
UpdateConfigModuleSettings(d, c, m, settings) ==
  UpdateConfigModule(d, c, m, "settings", settings)
SetConfigModuleActive(d, c, m, active) == UpdateConfigModule(d, c, m, "active", active)

CanAddConfigTag(d, c, m, channel) ==
  HasModule(d, c, m) /\ \A t \in TagsOf(d, c) : ~(t.module = m /\ t.channel = channel)
NewTag(d, c, m, channel) ==
  [id |-> d.next["tags"], configuration |-> c, module |-> m, channel |-> channel,
   active |-> TRUE, range |-> Unset]
AddConfigTag(d, c, m, channel) == Inserted(d, "tags", NewTag(d, c, m, channel))

UpdateConfigTagSettings(d, i, range) == [d EXCEPT !.tags = Updated(@, i, "range", range)]
SetConfigTagActive(d, i, active) == [d EXCEPT !.tags = Updated(@, i, "active", active)]

-----------------------------------------------------------------------------
(* Signals of a configuration. *)

SignalsOf(d, c) == {s \in d.signals : s.configuration = c}

CanCreateSignal(d, c, n) ==
  c \in Ids(d.configurations) /\ \A s \in SignalsOf(d, c) : s.name # n
NewSignal(d, c, n, kind) ==
  [id |-> d.next["signals"], configuration |-> c, name |-> n, kind |-> kind,
   tag |-> NoId, sensor |-> NoId, formula |-> NoFormula, archiveRate |-> 10]
CreateSignal(d, c, n, kind) == Inserted(d, "signals", NewSignal(d, c, n, kind))

RemoveSignal(d, i) == [d EXCEPT !.signals = {s \in @ : s.id # i}]

HasSignal(d, c, i) == \E s \in d.signals : s.id = i /\ s.configuration = c

\* updateSignalName(), updateSignalArchiveRate(), updateSignalFormula() and
\* updateSignalSensor(), which alone does not count the rows it changed.
CanUpdateSignal(d, c, i, column, value) ==
  /\ HasSignal(d, c, i) \/ column = "sensor"
  /\ column = "name" => \A s \in SignalsOf(d, c) : s.name = value => s.id = i
  /\ column = "sensor" => value = NoId \/ value \in Ids(d.sensors)
UpdateSignal(d, i, column, value) == [d EXCEPT !.signals = Updated(@, i, column, value)]

\* updateSignalSource(): a source must be a channel of the same configuration.
CanUpdateSignalSource_Anywhere(d, c, i, t) == HasSignal(d, c, i) /\ t \in Ids(d.tags) \cup {NoId}
CanUpdateSignalSource(d, c, i, t) ==
  HasSignal(d, c, i) /\ (t = NoId \/ t \in Ids(TagsOf(d, c)))

UpdateSignalFormula(d, i, formula) == UpdateSignal(d, i, "formula", formula)

-----------------------------------------------------------------------------
(* Sensors and their types. *)

CanCreateSensorType(d, n) == \A t \in d.types : t.name # n
NewSensorType(d, n) == [id |-> d.next["types"], name |-> n, kind |-> "Table"]
CreateSensorType(d, n) == Inserted(d, "types", NewSensorType(d, n))

\* The statement does not count rows.
CanUpdateSensorType(d, row) == \A t \in d.types : t.name = row.name => t.id = row.id
UpdateSensorType(d, row) ==
  [d EXCEPT !.types = {IF t.id = row.id THEN row ELSE t : t \in @}]

\* Foreign keys of sensors and calibrations restrict.
CanRemoveSensorType(d, i) ==
  /\ \A s \in d.sensors : s.type # i
  /\ \A k \in d.calibrations : k.owner # [table |-> "sensor_type", id |-> i]
RemoveSensorType(d, i) == [d EXCEPT !.types = {t \in @ : t.id # i}]

NewSensor(d, n, type) ==
  [id |-> d.next["sensors"], name |-> n, type |-> type, mode |-> "Own", kind |-> "Table"]
CanCreateSensor(d, type) == type \in Ids(d.types)
CreateSensor(d, n, type) == Inserted(d, "sensors", NewSensor(d, n, type))

CanUpdateSensor(d, row) == row.type \in Ids(d.types)
UpdateSensor(d, row) ==
  [d EXCEPT !.sensors = {IF s.id = row.id THEN row ELSE s : s \in @}]

CanRemoveSensor(d, i) ==
  /\ \A s \in d.signals : s.sensor # i
  /\ \A k \in d.calibrations : k.owner # [table |-> "sensor", id |-> i]
RemoveSensor(d, i) == [d EXCEPT !.sensors = {s \in @ : s.id # i}]

-----------------------------------------------------------------------------
(* Calibrations: points <<x, y>> of a table, or coefficients. *)

\* Calibration::buildSegments(): at least two points, in the order of their x.
BuildsSegments(points) ==
  Len(points) >= 2 /\ \A i \in 1..Len(points) - 1 : points[i][1] < points[i + 1][1]

\* What createCalibration() and updateCalibration() check before they write.
DataIsWhole(kind, data) == IF kind = "Table" THEN BuildsSegments(data) ELSE Len(data) >= 1

OwnerExists(d, owner) ==
  owner.id \in Ids(IF owner.table = "sensor" THEN d.sensors ELSE d.types)

\* One transaction: a calibration is there with all its data, or not at all.
CanCreateCalibration(d, owner, kind, data) ==
  /\ DataIsWhole(kind, data)
  /\ OwnerExists(d, owner)
  /\ \A k \in d.calibrations : ~(k.owner = owner /\ k.kind = kind)
CreateCalibration(d, owner, kind, data) ==
  Inserted(d, "calibrations",
           [id |-> d.next["calibrations"], owner |-> owner, kind |-> kind, data |-> data])

\* The owner and the kind of the row must be those of the calibration.
CanUpdateCalibration(d, i, owner, kind, data) ==
  /\ DataIsWhole(kind, data)
  /\ \E k \in d.calibrations : k.id = i /\ k.owner = owner /\ k.kind = kind
UpdateCalibration(d, i, data) == [d EXCEPT !.calibrations = Updated(@, i, "data", data)]

\* sensorCalibration() and sensorTypeCalibration(): the row of an owner and a
\* kind, of which there is at most one.
CalibrationOf(d, owner, kind) == {k \in d.calibrations : k.owner = owner /\ k.kind = kind}

\* validateCalibrations(): the calibration that applies to a sensor.
CalibrationUsed(d, i) ==
  UNION {IF s.mode = "Own"
         THEN CalibrationOf(d, [table |-> "sensor", id |-> i], s.kind)
         ELSE UNION {CalibrationOf(d, [table |-> "sensor_type", id |-> t.id], t.kind) :
                       t \in {u \in d.types : u.id = s.type}} :
           s \in {r \in d.sensors : r.id = i}}

-----------------------------------------------------------------------------
(* Loading a configuration. *)

\* The three statements of load() that read rows.
ActiveModules(d, c) == {m \in ModulesOf(d, c) : m.active}
ActiveTags(d, c) ==
  {t \in TagsOf(d, c) : t.active /\ \E m \in ActiveModules(d, c) : m.module = t.module}

\* tagSources(), which offers what load() will find.
TagSources(d, c) == Ids(ActiveTags(d, c))

\* What load() asks of the rows before it goes on.
ModulesAccepted(modules) == modules # {}
TagAdded(modules, t) == \E m \in modules : m.module = t.module
TagsAccepted(modules, tags) == tags # {} /\ \A t \in tags : TagAdded(modules, t)
SignalsAccepted(tags, signals) ==
  /\ \A s \in signals : s.kind = "Raw" => s.tag \in Ids(tags)
  /\ \A r, s \in signals : r.name = s.name => r.id = s.id

\* load() on a database that stays as it is.
Loads(d, c) ==
  /\ c \in Ids(d.configurations)
  /\ ModulesAccepted(ActiveModules(d, c))
  /\ TagsAccepted(ActiveModules(d, c), ActiveTags(d, c))
  /\ SignalsAccepted(ActiveTags(d, c), SignalsOf(d, c))

-----------------------------------------------------------------------------
(* The constraints of the schema, as they are seen through every operator above. *)

ConfigurationRows == [id : Nat, name : Names]
ModuleRows ==
  [configuration : Nat, module : Modules, active : BOOLEAN, settings : ModuleSettings]
TagRows ==
  [id : Nat, configuration : Nat, module : Modules, channel : Channels, active : BOOLEAN,
   range : Ranges \cup {Unset}]
SignalRows ==
  [id : Nat, configuration : Nat, name : Names, kind : {"Raw", "Calculated"}, tag : Nat,
   sensor : Nat, formula : Formulas \cup {NoFormula}, archiveRate : ArchiveRates]
TypeRows == [id : Nat, name : Names, kind : Kinds]
SensorRows ==
  [id : Nat, name : Names, type : Nat, mode : {"Own", "ByType"}, kind : Kinds]

IsCalibration(k) ==
  /\ DOMAIN k = {"id", "owner", "kind", "data"}
  /\ k.id \in Nat /\ k.owner \in Owners /\ k.kind \in Kinds

RowsAreTyped(d) ==
  /\ DOMAIN d = Tables \cup {"next"}
  /\ d.configurations \subseteq ConfigurationRows
  /\ d.modules \subseteq ModuleRows
  /\ d.tags \subseteq TagRows
  /\ d.signals \subseteq SignalRows
  /\ d.types \subseteq TypeRows
  /\ d.sensors \subseteq SensorRows
  /\ \A k \in d.calibrations : IsCalibration(k)
  /\ d.next \in [Tables -> Nat]

\* Keys: ids are unique and given only once, a module is in a configuration once,
\* and a name names one signal of a configuration.
IdsAreKeys(rows, next) ==
  /\ \A r \in rows : r.id < next
  /\ \A r, s \in rows : r.id = s.id => r = s
KeysAreUnique(d) ==
  /\ \A t \in Tables \ {"modules"} : IdsAreKeys(d[t], d.next[t])
  /\ \A m, n \in d.modules :
       m.configuration = n.configuration /\ m.module = n.module => m = n
  /\ \A r, s \in d.signals :
       r.configuration = s.configuration /\ r.name = s.name => r.id = s.id

\* A signal measures a channel of its own configuration.
SourcesAreLocal(d) ==
  \A s \in d.signals : s.tag # NoId => s.tag \in Ids(TagsOf(d, s.configuration))

SchemaHolds(d) == RowsAreTyped(d) /\ KeysAreUnique(d) /\ SourcesAreLocal(d)
==============================================================================
