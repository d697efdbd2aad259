--------------------- MODULE ConfigurationDatabase_proofs ---------------------
(* Every statement that writes to the database keeps its schema.              *)
EXTENDS ConfigurationDatabase, TLAPS

\* What an INSERT with an automatic id leaves.
LEMMA InsertedTables ==
  ASSUME NEW d, RowsAreTyped(d), NEW table \in Tables, NEW row
  PROVE  LET e == Inserted(d, table, row) IN
         /\ DOMAIN e = Tables \cup {"next"}
         /\ e[table] = d[table] \cup {row}
         /\ \A t \in Tables \ {table} : e[t] = d[t]
         /\ e.next \in [Tables -> Nat]
         /\ e.next[table] = d.next[table] + 1
         /\ \A t \in Tables \ {table} : e.next[t] = d.next[t]
<1>1. "next" \notin Tables
  BY DEF Tables
<1>2. /\ d.next \in [Tables -> Nat]
      /\ DOMAIN d = Tables \cup {"next"}
  BY DEF RowsAreTyped
<1> DEFINE e == Inserted(d, table, row)
           grown == [d EXCEPT ![table] = @ \cup {row}]
<1>3. /\ DOMAIN grown = Tables \cup {"next"}
      /\ grown[table] = d[table] \cup {row}
      /\ \A t \in Tables \ {table} : grown[t] = d[t]
      /\ grown.next = d.next
  BY <1>1, <1>2
<1>4. e = [grown EXCEPT !["next"] = [d.next EXCEPT ![table] = @ + 1]]
  BY <1>1, <1>2, <1>3 DEF Inserted
<1> HIDE DEF grown, e
<1>5. /\ DOMAIN e = Tables \cup {"next"}
      /\ \A t \in Tables : e[t] = grown[t]
      /\ e.next = [d.next EXCEPT ![table] = @ + 1]
  BY <1>1, <1>3, <1>4
<1>6. /\ e.next \in [Tables -> Nat]
      /\ e.next[table] = d.next[table] + 1
      /\ \A t \in Tables \ {table} : e.next[t] = d.next[t]
  BY <1>2, <1>5
<1> QED
  BY <1>3, <1>5, <1>6 DEF e

\* A new row with the next id keeps the ids keys.
LEMMA InsertedKeys ==
  ASSUME NEW rows, NEW next \in Nat, IdsAreKeys(rows, next), NEW row, row.id = next,
         \A r \in rows : r.id \in Nat
  PROVE  IdsAreKeys(rows \cup {row}, next + 1)
BY DEF IdsAreKeys

\* Rows that go, and rows that keep their ids, keep the ids keys.
LEMMA RemovedKeys ==
  ASSUME NEW rows, NEW next, IdsAreKeys(rows, next), NEW fewer \in SUBSET rows
  PROVE  IdsAreKeys(fewer, next)
BY DEF IdsAreKeys

LEMMA UpdatedKeys ==
  ASSUME NEW rows, NEW next, IdsAreKeys(rows, next), NEW i, NEW column, column # "id",
         NEW value, \A r \in rows : "id" \in DOMAIN r
  PROVE  IdsAreKeys(Updated(rows, i, column, value), next)
<1>1. \A r \in rows : [r EXCEPT ![column] = value].id = r.id
  OBVIOUS
<1> QED
  BY <1>1 DEF Updated, IdsAreKeys

-----------------------------------------------------------------------------
(* A statement changes one table.  What it has to keep depends on which. *)

OnlyTable(d, e, table) ==
  /\ DOMAIN e = Tables \cup {"next"}
  /\ e.next \in [Tables -> Nat]
  /\ \A t \in Tables \ {table} : e[t] = d[t] /\ e.next[t] = d.next[t]

LEMMA InsertIsLocal ==
  ASSUME NEW d, RowsAreTyped(d), NEW table \in Tables, NEW row
  PROVE  /\ OnlyTable(d, Inserted(d, table, row), table)
         /\ Inserted(d, table, row)[table] = d[table] \cup {row}
         /\ Inserted(d, table, row).next[table] = d.next[table] + 1
<1> DEFINE e == Inserted(d, table, row)
<1>1. /\ DOMAIN e = Tables \cup {"next"}
      /\ e[table] = d[table] \cup {row}
      /\ \A t \in Tables \ {table} : e[t] = d[t]
      /\ e.next \in [Tables -> Nat]
      /\ e.next[table] = d.next[table] + 1
      /\ \A t \in Tables \ {table} : e.next[t] = d.next[t]
  BY InsertedTables
<1> HIDE DEF e
<1>2. OnlyTable(d, e, table)
  BY <1>1 DEF OnlyTable
<1> QED
  BY <1>1, <1>2 DEF e

LEMMA RewriteIsLocal ==
  ASSUME NEW d, RowsAreTyped(d), NEW table \in Tables, NEW rows
  PROVE  /\ OnlyTable(d, [d EXCEPT ![table] = rows], table)
         /\ [d EXCEPT ![table] = rows][table] = rows
         /\ [d EXCEPT ![table] = rows].next[table] = d.next[table]
<1>1. "next" \notin Tables
  BY DEF Tables
<1> QED
  BY <1>1 DEF OnlyTable, RowsAreTyped

\* The same with the database after the statement named.
Rewrites(d, e, table, rows) == e = [d EXCEPT ![table] = rows]

LEMMA RewriteKeepsTables ==
  ASSUME NEW d, RowsAreTyped(d), NEW table \in Tables, NEW rows,
         NEW e, Rewrites(d, e, table, rows)
  PROVE  OnlyTable(d, e, table) /\ e[table] = rows /\ e.next[table] = d.next[table]
  BY RewriteIsLocal DEF Rewrites

LEMMA SignalsChange ==
  ASSUME NEW d, SchemaHolds(d), NEW e, OnlyTable(d, e, "signals"),
         e.signals \subseteq SignalRows, IdsAreKeys(e.signals, e.next["signals"]),
         \A r, s \in e.signals :
           r.configuration = s.configuration /\ r.name = s.name => r.id = s.id,
         SourcesAreLocal(e)
  PROVE  SchemaHolds(e)
<1>1. RowsAreTyped(d) /\ KeysAreUnique(d)
  BY DEF SchemaHolds
<1>2. RowsAreTyped(e)
  BY <1>1 DEF OnlyTable, RowsAreTyped, Tables
<1>3. KeysAreUnique(e)
  <2>1. ASSUME NEW t \in Tables \ {"modules"}
        PROVE  IdsAreKeys(e[t], e.next[t])
    BY <1>1 DEF OnlyTable, KeysAreUnique
  <2>2. e.modules = d.modules
    BY DEF OnlyTable, Tables
  <2> QED
    BY <1>1, <2>1, <2>2 DEF KeysAreUnique
<1> QED
  BY <1>2, <1>3 DEF SchemaHolds

LEMMA TagsChange ==
  ASSUME NEW d, SchemaHolds(d), NEW e, OnlyTable(d, e, "tags"),
         e.tags \subseteq TagRows, IdsAreKeys(e.tags, e.next["tags"]),
         \A t \in d.tags : \E u \in e.tags : u.id = t.id /\ u.configuration = t.configuration
  PROVE  SchemaHolds(e)
<1>1. RowsAreTyped(d) /\ KeysAreUnique(d) /\ SourcesAreLocal(d)
  BY DEF SchemaHolds
<1>2. e.signals = d.signals /\ e.modules = d.modules
  BY DEF OnlyTable, Tables
<1>3. RowsAreTyped(e)
  BY <1>1 DEF OnlyTable, RowsAreTyped, Tables
<1>4. KeysAreUnique(e)
  <2>1. ASSUME NEW t \in Tables \ {"modules"}
        PROVE  IdsAreKeys(e[t], e.next[t])
    BY <1>1 DEF OnlyTable, KeysAreUnique
  <2> QED
    BY <1>1, <1>2, <2>1 DEF KeysAreUnique
<1>5. SourcesAreLocal(e)
  BY <1>1, <1>2 DEF SourcesAreLocal, TagsOf, Ids
<1> QED
  BY <1>3, <1>4, <1>5 DEF SchemaHolds

LEMMA ModulesChange ==
  ASSUME NEW d, SchemaHolds(d), NEW e, OnlyTable(d, e, "modules"),
         e.modules \subseteq ModuleRows,
         \A m, n \in e.modules :
           m.configuration = n.configuration /\ m.module = n.module => m = n
  PROVE  SchemaHolds(e)
<1>1. RowsAreTyped(d) /\ KeysAreUnique(d) /\ SourcesAreLocal(d)
  BY DEF SchemaHolds
<1>2. e.signals = d.signals /\ e.tags = d.tags
  BY DEF OnlyTable, Tables
<1>3. RowsAreTyped(e)
  BY <1>1 DEF OnlyTable, RowsAreTyped, Tables
<1>4. KeysAreUnique(e)
  <2>1. ASSUME NEW t \in Tables \ {"modules"}
        PROVE  IdsAreKeys(e[t], e.next[t])
    BY <1>1 DEF OnlyTable, KeysAreUnique
  <2> QED
    BY <1>1, <1>2, <2>1 DEF KeysAreUnique
<1>5. SourcesAreLocal(e)
  BY <1>1, <1>2 DEF SourcesAreLocal, TagsOf
<1> QED
  BY <1>3, <1>4, <1>5 DEF SchemaHolds

\* The tables nothing but their ids is asked of.
PlainRows(table, rows) ==
  CASE table = "configurations" -> rows \subseteq ConfigurationRows
    [] table = "types" -> rows \subseteq TypeRows
    [] table = "sensors" -> rows \subseteq SensorRows
    [] table = "calibrations" -> \A k \in rows : IsCalibration(k)

LEMMA PlainTableChanges ==
  ASSUME NEW d, SchemaHolds(d), NEW e,
         NEW table \in {"configurations", "types", "sensors", "calibrations"},
         OnlyTable(d, e, table), PlainRows(table, e[table]),
         IdsAreKeys(e[table], e.next[table])
  PROVE  SchemaHolds(e)
<1>1. RowsAreTyped(d) /\ KeysAreUnique(d) /\ SourcesAreLocal(d)
  BY DEF SchemaHolds
<1>2. e.signals = d.signals /\ e.tags = d.tags /\ e.modules = d.modules
  BY DEF OnlyTable, Tables
<1>3. RowsAreTyped(e)
  <2>1. CASE table = "configurations"
    BY <1>1, <2>1 DEF OnlyTable, RowsAreTyped, Tables, PlainRows
  <2>2. CASE table = "types"
    BY <1>1, <2>2 DEF OnlyTable, RowsAreTyped, Tables, PlainRows
  <2>3. CASE table = "sensors"
    BY <1>1, <2>3 DEF OnlyTable, RowsAreTyped, Tables, PlainRows
  <2>4. CASE table = "calibrations"
    BY <1>1, <2>4 DEF OnlyTable, RowsAreTyped, Tables, PlainRows
  <2> QED
    BY <2>1, <2>2, <2>3, <2>4
<1>4. KeysAreUnique(e)
  <2>1. ASSUME NEW t \in Tables \ {"modules"}
        PROVE  IdsAreKeys(e[t], e.next[t])
    BY <1>1 DEF OnlyTable, KeysAreUnique
  <2> QED
    BY <1>1, <1>2, <2>1 DEF KeysAreUnique
<1>5. SourcesAreLocal(e)
  BY <1>1, <1>2 DEF SourcesAreLocal, TagsOf
<1> QED
  BY <1>3, <1>4, <1>5 DEF SchemaHolds

\* The facts about one table of a database whose schema holds.
LEMMA TableFacts ==
  ASSUME NEW d, SchemaHolds(d)
  PROVE  /\ RowsAreTyped(d)
         /\ \A t \in Tables \ {"modules"} :
              IdsAreKeys(d[t], d.next[t]) /\ d.next[t] \in Nat
         /\ \A r \in d.configurations : r.id \in Nat
         /\ \A r \in d.tags : r.id \in Nat
         /\ \A r \in d.signals : r.id \in Nat
         /\ \A r \in d.types : r.id \in Nat
         /\ \A r \in d.sensors : r.id \in Nat
         /\ \A r \in d.calibrations : r.id \in Nat
BY DEF SchemaHolds, KeysAreUnique, RowsAreTyped, ConfigurationRows, TagRows, SignalRows,
       TypeRows, SensorRows, IsCalibration

-----------------------------------------------------------------------------
(* Configurations, modules and channels. *)

LEMMA AddConfigurationKeeps ==
  ASSUME NEW d, SchemaHolds(d), NEW n \in Names
  PROVE  SchemaHolds(AddConfiguration(d, n))
<1> DEFINE row == [id |-> d.next["configurations"], name |-> n]
           e == Inserted(d, "configurations", row)
<1>1. /\ OnlyTable(d, e, "configurations")
      /\ e.configurations = d.configurations \cup {row}
      /\ e.next["configurations"] = d.next["configurations"] + 1
  BY TableFacts, InsertIsLocal DEF Tables
<1>2. d.next["configurations"] \in Nat /\ IdsAreKeys(d.configurations, d.next["configurations"])
  BY TableFacts DEF Tables
<1> HIDE DEF e
<1>3. PlainRows("configurations", e.configurations)
  BY <1>1, <1>2, TableFacts DEF PlainRows, RowsAreTyped, ConfigurationRows
<1>4. IdsAreKeys(e.configurations, e.next["configurations"])
  <2>1. row.id = d.next["configurations"]
    OBVIOUS
  <2> HIDE DEF row
  <2> QED
    BY <1>1, <1>2, <2>1, TableFacts, InsertedKeys
<1>5. SchemaHolds(e)
  BY <1>1, <1>3, <1>4, PlainTableChanges
<1> QED
  BY <1>5 DEF e, AddConfiguration

LEMMA UpdateConfigurationKeeps ==
  ASSUME NEW d, SchemaHolds(d), NEW i, NEW n \in Names
  PROVE  SchemaHolds(UpdateConfiguration(d, i, n))
<1> DEFINE rows == Updated(d.configurations, i, "name", n)
           e == [d EXCEPT !["configurations"] = rows]
<1> HIDE DEF rows
<1>1. /\ OnlyTable(d, e, "configurations") /\ e.configurations = rows
      /\ e.next["configurations"] = d.next["configurations"]
  BY TableFacts, RewriteIsLocal DEF Tables
<1>2. d.configurations \subseteq ConfigurationRows
  BY TableFacts DEF RowsAreTyped
<1>3. PlainRows("configurations", rows)
  BY <1>2 DEF rows, PlainRows, Updated, ConfigurationRows
<1>4. IdsAreKeys(rows, d.next["configurations"])
  BY <1>2, TableFacts, UpdatedKeys DEF rows, Tables, ConfigurationRows
<1> HIDE DEF e
<1>5. SchemaHolds(e)
  BY <1>1, <1>3, <1>4, PlainTableChanges
<1> QED
  BY <1>5 DEF e, rows, UpdateConfiguration

LEMMA RemoveConfigurationKeeps ==
  ASSUME NEW d, SchemaHolds(d), NEW i
  PROVE  SchemaHolds(RemoveConfiguration(d, i))
<1> DEFINE e == RemoveConfiguration(d, i)
<1>1. RowsAreTyped(d) /\ KeysAreUnique(d) /\ SourcesAreLocal(d)
  BY DEF SchemaHolds
<1>2. /\ DOMAIN e = DOMAIN d
      /\ e.configurations = {c \in d.configurations : c.id # i}
      /\ e.modules = {m \in d.modules : m.configuration # i}
      /\ e.tags = {t \in d.tags : t.configuration # i}
      /\ e.signals = {s \in d.signals : s.configuration # i}
      /\ e.types = d.types /\ e.sensors = d.sensors /\ e.calibrations = d.calibrations
      /\ e.next = d.next
  BY <1>1 DEF RemoveConfiguration, RowsAreTyped, Tables
<1> HIDE DEF e
<1>3. RowsAreTyped(e)
  BY <1>1, <1>2 DEF RowsAreTyped
<1>4. KeysAreUnique(e)
  <2>1. ASSUME NEW t \in Tables \ {"modules"}
        PROVE  IdsAreKeys(e[t], e.next[t])
    <3>1. e[t] \subseteq d[t]
      BY <1>2 DEF Tables
    <3> QED
      BY <1>1, <1>2, <3>1, RemovedKeys DEF KeysAreUnique
  <2> QED
    BY <1>1, <1>2, <2>1 DEF KeysAreUnique
<1>5. SourcesAreLocal(e)
  <2> SUFFICES ASSUME NEW s \in e.signals, s.tag # NoId
               PROVE  s.tag \in Ids(TagsOf(e, s.configuration))
    BY DEF SourcesAreLocal
  <2>1. PICK t \in d.tags : t.configuration = s.configuration /\ t.id = s.tag
    BY <1>1, <1>2 DEF SourcesAreLocal, TagsOf, Ids
  <2>2. t \in TagsOf(e, s.configuration)
    BY <1>2, <2>1 DEF TagsOf
  <2> QED
    BY <2>1, <2>2 DEF Ids
<1> QED
  BY <1>3, <1>4, <1>5 DEF SchemaHolds, e

LEMMA AddConfigModuleKeeps ==
  ASSUME NEW d, SchemaHolds(d), NEW c, NEW m \in Modules, CanAddConfigModule(d, c, m)
  PROVE  SchemaHolds(AddConfigModule(d, c, m))
<1> DEFINE row == [configuration |-> c, module |-> m, active |-> TRUE,
                   settings |-> NoModuleSettings]
           rows == d.modules \cup {row}
           e == [d EXCEPT !["modules"] = rows]
<1> HIDE DEF rows
<1>1. OnlyTable(d, e, "modules") /\ e.modules = rows
  BY TableFacts, RewriteIsLocal DEF Tables
<1>2. c \in Nat
  BY TableFacts DEF CanAddConfigModule, Ids
<1>3. rows \subseteq ModuleRows
  <2>1. row \in ModuleRows
    BY <1>2 DEF ModuleRows, NoModuleSettings, ModuleSettings
  <2> QED
    BY <2>1, TableFacts DEF rows, RowsAreTyped
<1>4. \A q, r \in rows : q.configuration = r.configuration /\ q.module = r.module => q = r
  <2>1. \A q, r \in d.modules :
          q.configuration = r.configuration /\ q.module = r.module => q = r
    BY DEF SchemaHolds, KeysAreUnique
  <2>2. \A q \in d.modules : ~(q.configuration = c /\ q.module = m)
    BY DEF CanAddConfigModule, ModulesOf
  <2>3. row.configuration = c /\ row.module = m
    OBVIOUS
  <2> HIDE DEF row
  <2> QED
    BY <2>1, <2>2, <2>3 DEF rows
<1> HIDE DEF e
<1>5. SchemaHolds(e)
  BY <1>1, <1>3, <1>4, ModulesChange
<1> QED
  BY <1>5 DEF e, rows, AddConfigModule

\* A column of a module that is not part of its key.
LEMMA UpdateConfigModuleKeeps ==
  ASSUME NEW d, SchemaHolds(d), NEW c, NEW m, NEW column, NEW value,
         \/ column = "active" /\ value \in BOOLEAN
         \/ column = "settings" /\ value \in ModuleSettings
  PROVE  SchemaHolds(UpdateConfigModule(d, c, m, column, value))
<1> DEFINE new(r) == IF r.configuration = c /\ r.module = m
                     THEN [r EXCEPT ![column] = value] ELSE r
           rows == {new(r) : r \in d.modules}
           e == [d EXCEPT !["modules"] = rows]
<1> HIDE DEF rows, new
<1>a. RowsAreTyped(d) /\ "modules" \in Tables
  BY TableFacts DEF Tables
<1>1. OnlyTable(d, e, "modules") /\ e.modules = rows
  BY <1>a, RewriteIsLocal
<1>2. d.modules \subseteq ModuleRows
  BY TableFacts DEF RowsAreTyped
<1>3. \A r \in d.modules : /\ new(r) \in ModuleRows
                           /\ new(r).configuration = r.configuration /\ new(r).module = r.module
  BY <1>2 DEF new, ModuleRows
<1>4. \A q, r \in rows : q.configuration = r.configuration /\ q.module = r.module => q = r
  <2>1. \A q, r \in d.modules :
          q.configuration = r.configuration /\ q.module = r.module => q = r
    BY DEF SchemaHolds, KeysAreUnique
  <2> QED
    BY <1>3, <2>1 DEF rows
<1>5. rows \subseteq ModuleRows
  BY <1>3 DEF rows
<1> HIDE DEF e
<1>6. SchemaHolds(e)
  BY <1>1, <1>4, <1>5, ModulesChange
<1> QED
  BY <1>6 DEF e, rows, new, UpdateConfigModule

LEMMA AddConfigTagKeeps ==
  ASSUME NEW d, SchemaHolds(d), NEW c, NEW m, NEW channel \in Channels,
         CanAddConfigTag(d, c, m, channel)
  PROVE  SchemaHolds(AddConfigTag(d, c, m, channel))
<1> DEFINE row == NewTag(d, c, m, channel)
           e == Inserted(d, "tags", row)
<1>1. /\ OnlyTable(d, e, "tags") /\ e.tags = d.tags \cup {row}
      /\ e.next["tags"] = d.next["tags"] + 1
  BY TableFacts, InsertIsLocal DEF Tables
<1>2. d.next["tags"] \in Nat /\ IdsAreKeys(d.tags, d.next["tags"])
  BY TableFacts DEF Tables
<1>3. row \in TagRows /\ row.id = d.next["tags"]
  <2>1. c \in Nat /\ m \in Modules
    BY TableFacts DEF CanAddConfigTag, HasModule, RowsAreTyped, ModuleRows
  <2> QED
    BY <1>2, <2>1 DEF TagRows, NewTag
<1> HIDE DEF e, row
<1>4. IdsAreKeys(e.tags, e.next["tags"])
  BY <1>1, <1>2, <1>3, TableFacts, InsertedKeys
<1>5. e.tags \subseteq TagRows
  BY <1>1, <1>3, TableFacts DEF RowsAreTyped
<1>6. SchemaHolds(e)
  BY <1>1, <1>4, <1>5, TagsChange
<1> QED
  BY <1>6 DEF e, row, AddConfigTag

\* A column of a channel that is not part of its key.
LEMMA UpdateTagKeeps ==
  ASSUME NEW d, SchemaHolds(d), NEW i, NEW column, NEW value,
         \/ column = "active" /\ value \in BOOLEAN
         \/ column = "range" /\ value \in Ranges
  PROVE  SchemaHolds([d EXCEPT !.tags = Updated(@, i, column, value)])
<1> DEFINE new(r) == IF r.id = i THEN [r EXCEPT ![column] = value] ELSE r
           rows == Updated(d.tags, i, column, value)
           e == [d EXCEPT !["tags"] = rows]
<1> HIDE DEF rows, new
<1>a. RowsAreTyped(d) /\ "tags" \in Tables
  BY TableFacts DEF Tables
<1>1. OnlyTable(d, e, "tags") /\ e.tags = rows /\ e.next["tags"] = d.next["tags"]
  BY <1>a, RewriteIsLocal
<1>2. d.tags \subseteq TagRows
  BY TableFacts DEF RowsAreTyped
<1>3. \A r \in d.tags : /\ new(r) \in TagRows
                        /\ new(r).id = r.id /\ new(r).configuration = r.configuration
  BY <1>2 DEF new, TagRows
<1>4. rows = {new(r) : r \in d.tags}
  BY DEF rows, new, Updated
<1>5. rows \subseteq TagRows
  BY <1>3, <1>4
<1>6. \A r \in d.tags : \E u \in rows : u.id = r.id /\ u.configuration = r.configuration
  BY <1>3, <1>4
<1>7. IdsAreKeys(rows, d.next["tags"])
  BY <1>2, TableFacts, UpdatedKeys DEF rows, Tables, TagRows
<1> HIDE DEF e
<1>8. SchemaHolds(e)
  BY <1>1, <1>5, <1>6, <1>7, TagsChange
<1> QED
  BY <1>8 DEF e, rows

-----------------------------------------------------------------------------
(* Signals. *)

LEMMA CreateSignalKeeps ==
  ASSUME NEW d, SchemaHolds(d), NEW c, NEW n \in Names, NEW kind \in {"Raw", "Calculated"},
         CanCreateSignal(d, c, n), 10 \in ArchiveRates
  PROVE  SchemaHolds(CreateSignal(d, c, n, kind))
<1> DEFINE row == NewSignal(d, c, n, kind)
           e == Inserted(d, "signals", row)
<1>a. RowsAreTyped(d) /\ KeysAreUnique(d) /\ SourcesAreLocal(d) /\ "signals" \in Tables
  BY DEF SchemaHolds, Tables
<1>1. /\ OnlyTable(d, e, "signals") /\ e.signals = d.signals \cup {row}
      /\ e.next["signals"] = d.next["signals"] + 1
  BY <1>a, InsertIsLocal
<1>2. d.next["signals"] \in Nat /\ IdsAreKeys(d.signals, d.next["signals"])
  BY TableFacts DEF Tables
<1>3. /\ row \in SignalRows /\ row.id = d.next["signals"]
      /\ row.configuration = c /\ row.name = n /\ row.tag = NoId
  <2>1. c \in Nat
    BY TableFacts DEF CanCreateSignal, Ids
  <2> QED
    BY <1>2, <2>1 DEF SignalRows, NewSignal, NoId
<1> HIDE DEF e, row
<1>4. IdsAreKeys(e.signals, e.next["signals"])
  BY <1>1, <1>2, <1>3, TableFacts, InsertedKeys
<1>5. e.signals \subseteq SignalRows
  BY <1>a, <1>1, <1>3 DEF RowsAreTyped
<1>6. ASSUME NEW q \in e.signals, NEW r \in e.signals,
             q.configuration = r.configuration, q.name = r.name
      PROVE  q.id = r.id
  <2>1. \A s \in d.signals : ~(s.configuration = c /\ s.name = n)
    BY DEF CanCreateSignal, SignalsOf
  <2> QED
    BY <1>a, <1>1, <1>3, <1>6, <2>1 DEF KeysAreUnique
<1>7. SourcesAreLocal(e)
  <2>1. e.tags = d.tags
    BY <1>1 DEF OnlyTable, Tables
  <2> QED
    BY <1>a, <1>1, <1>3, <2>1 DEF SourcesAreLocal, TagsOf
<1>8. SchemaHolds(e)
  BY <1>1, <1>4, <1>5, <1>6, <1>7, SignalsChange
<1> QED
  BY <1>8 DEF e, row, CreateSignal

LEMMA RemoveSignalKeeps ==
  ASSUME NEW d, SchemaHolds(d), NEW i
  PROVE  SchemaHolds(RemoveSignal(d, i))
<1> DEFINE rows == {s \in d.signals : s.id # i}
           e == [d EXCEPT !["signals"] = rows]
<1> HIDE DEF rows
<1>a. RowsAreTyped(d) /\ KeysAreUnique(d) /\ SourcesAreLocal(d) /\ "signals" \in Tables
  BY DEF SchemaHolds, Tables
<1>1. OnlyTable(d, e, "signals") /\ e.signals = rows /\ e.next["signals"] = d.next["signals"]
  BY <1>a, RewriteIsLocal
<1>2. rows \subseteq d.signals
  BY DEF rows
<1> HIDE DEF e
<1>3. IdsAreKeys(e.signals, e.next["signals"])
  BY <1>1, <1>2, TableFacts, RemovedKeys DEF Tables
<1>4. e.tags = d.tags
  BY <1>1 DEF OnlyTable, Tables
<1>5. SourcesAreLocal(e)
  BY <1>a, <1>1, <1>2, <1>4 DEF SourcesAreLocal, TagsOf
<1>6. e.signals \subseteq SignalRows
  BY <1>a, <1>1, <1>2 DEF RowsAreTyped
<1>7. \A q, r \in e.signals :
        q.configuration = r.configuration /\ q.name = r.name => q.id = r.id
  BY <1>a, <1>1, <1>2 DEF KeysAreUnique
<1>8. SchemaHolds(e)
  BY <1>1, <1>3, <1>5, <1>6, <1>7, SignalsChange
<1> QED
  BY <1>8 DEF e, rows, RemoveSignal

\* A change of one signal: the columns it may reach, and what each asks for.
LEMMA UpdateSignalKeeps ==
  ASSUME NEW d, SchemaHolds(d), NEW i, NEW c, NEW column, NEW value,
         \/ /\ column = "name" /\ value \in Names
            /\ CanUpdateSignal(d, c, i, column, value)
         \/ column = "archiveRate" /\ value \in ArchiveRates
         \/ column = "formula" /\ value \in Formulas
         \/ column = "sensor" /\ value \in Nat
         \/ column = "tag" /\ CanUpdateSignalSource(d, c, i, value)
  PROVE  SchemaHolds(UpdateSignal(d, i, column, value))
<1> DEFINE new(r) == IF r.id = i THEN [r EXCEPT ![column] = value] ELSE r
           rows == Updated(d.signals, i, column, value)
           e == [d EXCEPT !["signals"] = rows]
<1> HIDE DEF rows, new
<1>a. /\ RowsAreTyped(d) /\ KeysAreUnique(d) /\ SourcesAreLocal(d) /\ "signals" \in Tables
      /\ d.signals \subseteq SignalRows /\ d.tags \subseteq TagRows
      /\ IdsAreKeys(d.signals, d.next["signals"])
  BY DEF SchemaHolds, Tables, RowsAreTyped, KeysAreUnique
<1>1. OnlyTable(d, e, "signals") /\ e.signals = rows /\ e.next["signals"] = d.next["signals"]
  BY <1>a, RewriteIsLocal
<1>2. rows = {new(r) : r \in d.signals}
  BY DEF rows, new, Updated
<1>3. value \in Nat \/ column # "tag"
  BY <1>a DEF CanUpdateSignalSource, Ids, TagsOf, NoId, TagRows
<1>4. \A r \in d.signals : new(r) \in SignalRows
  BY <1>a, <1>3 DEF new, SignalRows
<1>5. \A r \in d.signals : /\ new(r).id = r.id /\ new(r).configuration = r.configuration
                           /\ r.id # i => new(r) = r
                           /\ column # "name" => new(r).name = r.name
                           /\ column # "tag" => new(r).tag = r.tag
                           /\ r.id = i /\ column = "name" => new(r).name = value
                           /\ r.id = i /\ column = "tag" => new(r).tag = value
  BY <1>a DEF new, SignalRows
<1>6. IdsAreKeys(rows, d.next["signals"])
  <2>1. column # "id" /\ \A r \in d.signals : "id" \in DOMAIN r
    BY <1>a DEF SignalRows
  <2> QED
    BY <1>a, <2>1, UpdatedKeys DEF rows
<1>7. ASSUME NEW q \in d.signals, NEW r \in d.signals,
             new(q).configuration = new(r).configuration, new(q).name = new(r).name
      PROVE  q.id = r.id
  <2>1. CASE column # "name"
    BY <1>a, <1>5, <1>7, <2>1 DEF KeysAreUnique
  <2>2. CASE column = "name"
    <3>1. HasSignal(d, c, i) /\ \A s \in SignalsOf(d, c) : s.name = value => s.id = i
      BY <2>2 DEF CanUpdateSignal
    <3>2. PICK s \in d.signals : s.id = i /\ s.configuration = c
      BY <3>1 DEF HasSignal
    <3>3. \A t \in d.signals : t.id = i => t = s
      BY <1>a, <3>2 DEF IdsAreKeys
    <3> QED
      BY <1>a, <1>5, <1>7, <2>2, <3>1, <3>2, <3>3 DEF KeysAreUnique, SignalsOf
  <2> QED
    BY <2>1, <2>2
<1>8. \A q, r \in rows : q.configuration = r.configuration /\ q.name = r.name => q.id = r.id
  BY <1>2, <1>5, <1>7
<1> HIDE DEF e
<1>9. SourcesAreLocal(e)
  <2> SUFFICES ASSUME NEW r \in d.signals, new(r).tag # NoId
               PROVE  new(r).tag \in Ids(TagsOf(e, new(r).configuration))
    BY <1>1, <1>2 DEF SourcesAreLocal
  <2>1. TagsOf(e, r.configuration) = TagsOf(d, r.configuration)
    BY <1>1 DEF OnlyTable, Tables, TagsOf
  <2>2. CASE column # "tag" \/ r.id # i
    BY <1>a, <1>5, <2>1, <2>2 DEF SourcesAreLocal
  <2>3. CASE column = "tag" /\ r.id = i
    <3>1. HasSignal(d, c, i) /\ (value = NoId \/ value \in Ids(TagsOf(d, c)))
      BY <2>3 DEF CanUpdateSignalSource
    <3>2. r.configuration = c
      BY <1>a, <2>3, <3>1 DEF HasSignal, IdsAreKeys
    <3> QED
      BY <1>5, <2>1, <2>3, <3>1, <3>2
  <2> QED
    BY <2>2, <2>3
<1>10. SchemaHolds(e)
  <2>1. e.signals \subseteq SignalRows
    BY <1>1, <1>2, <1>4
  <2> QED
    BY <1>1, <1>6, <1>8, <1>9, <2>1, SignalsChange
<1> QED
  BY <1>10 DEF e, rows, UpdateSignal

-----------------------------------------------------------------------------
(* Sensors, their types and calibrations. *)

\* A row with a new id in a table of which nothing else is asked.
LEMMA InsertKeeps ==
  ASSUME NEW d, SchemaHolds(d), NEW table \in {"types", "sensors", "calibrations"},
         NEW row, PlainRows(table, {row}), row.id = d.next[table]
  PROVE  SchemaHolds(Inserted(d, table, row))
<1> DEFINE e == Inserted(d, table, row)
<1>1. RowsAreTyped(d) /\ table \in Tables
  BY DEF SchemaHolds, Tables
<1>2. /\ OnlyTable(d, e, table) /\ e[table] = d[table] \cup {row}
      /\ e.next[table] = d.next[table] + 1
  BY <1>1, InsertIsLocal
<1> HIDE DEF e
<1>3. d.next[table] \in Nat /\ IdsAreKeys(d[table], d.next[table])
  BY TableFacts DEF Tables
<1>4. \A r \in d[table] : r.id \in Nat
  BY TableFacts
<1>5. IdsAreKeys(e[table], e.next[table])
  BY <1>2, <1>3, <1>4, InsertedKeys
<1>6. PlainRows(table, e[table])
  BY <1>1, <1>2 DEF PlainRows, RowsAreTyped
<1>7. SchemaHolds(e)
  BY <1>2, <1>5, <1>6, PlainTableChanges
<1> QED
  BY <1>7 DEF e

\* Rows that keep their ids, or fewer rows.
LEMMA RewriteKeeps ==
  ASSUME NEW d, SchemaHolds(d), NEW table \in {"types", "sensors", "calibrations"},
         NEW rows, PlainRows(table, rows), IdsAreKeys(rows, d.next[table])
  PROVE  SchemaHolds([d EXCEPT ![table] = rows])
<1> DEFINE e == [d EXCEPT ![table] = rows]
<1>1. RowsAreTyped(d) /\ table \in Tables
  BY DEF SchemaHolds, Tables
<1>2. OnlyTable(d, e, table) /\ e[table] = rows /\ e.next[table] = d.next[table]
  BY <1>1, RewriteIsLocal
<1> HIDE DEF e
<1>3. SchemaHolds(e)
  BY <1>2, PlainTableChanges
<1> QED
  BY <1>3 DEF e

LEMMA CreateSensorTypeKeeps ==
  ASSUME NEW d, SchemaHolds(d), NEW n \in Names
  PROVE  SchemaHolds(CreateSensorType(d, n))
<1>1. d.next["types"] \in Nat
  BY TableFacts DEF Tables
<1>2. PlainRows("types", {NewSensorType(d, n)})
  BY <1>1 DEF PlainRows, NewSensorType, TypeRows, Kinds
<1> QED
  BY <1>2, InsertKeeps DEF CreateSensorType, NewSensorType

LEMMA UpdateSensorTypeKeeps ==
  ASSUME NEW d, SchemaHolds(d), NEW row \in TypeRows
  PROVE  SchemaHolds(UpdateSensorType(d, row))
<1> DEFINE rows == {IF t.id = row.id THEN row ELSE t : t \in d.types}
<1>1. /\ d.types \subseteq TypeRows
      /\ IdsAreKeys(d.types, d.next["types"])
  BY TableFacts DEF RowsAreTyped, Tables
<1>2. PlainRows("types", rows)
  BY <1>1 DEF PlainRows
<1>3. IdsAreKeys(rows, d.next["types"])
  BY <1>1 DEF IdsAreKeys
<1> HIDE DEF rows
<1>4. SchemaHolds([d EXCEPT !["types"] = rows])
  BY <1>2, <1>3, RewriteKeeps
<1> QED
  BY <1>4 DEF rows, UpdateSensorType

LEMMA RemoveSensorTypeKeeps ==
  ASSUME NEW d, SchemaHolds(d), NEW i
  PROVE  SchemaHolds(RemoveSensorType(d, i))
<1> DEFINE rows == {t \in d.types : t.id # i}
<1>1. PlainRows("types", rows)
  BY TableFacts DEF PlainRows, RowsAreTyped
<1>2. IdsAreKeys(rows, d.next["types"])
  BY TableFacts DEF IdsAreKeys, Tables
<1> HIDE DEF rows
<1>3. SchemaHolds([d EXCEPT !["types"] = rows])
  BY <1>1, <1>2, RewriteKeeps
<1> QED
  BY <1>3 DEF rows, RemoveSensorType

LEMMA CreateSensorKeeps ==
  ASSUME NEW d, SchemaHolds(d), NEW n \in Names, NEW type, CanCreateSensor(d, type)
  PROVE  SchemaHolds(CreateSensor(d, n, type))
<1>1. d.next["sensors"] \in Nat /\ type \in Nat
  BY TableFacts DEF Tables, CanCreateSensor, Ids
<1>2. PlainRows("sensors", {NewSensor(d, n, type)})
  BY <1>1 DEF PlainRows, NewSensor, SensorRows, Kinds
<1> QED
  BY <1>2, InsertKeeps DEF CreateSensor, NewSensor

LEMMA UpdateSensorKeeps ==
  ASSUME NEW d, SchemaHolds(d), NEW row \in SensorRows
  PROVE  SchemaHolds(UpdateSensor(d, row))
<1> DEFINE rows == {IF s.id = row.id THEN row ELSE s : s \in d.sensors}
<1>1. /\ d.sensors \subseteq SensorRows
      /\ IdsAreKeys(d.sensors, d.next["sensors"])
  BY TableFacts DEF RowsAreTyped, Tables
<1>2. PlainRows("sensors", rows)
  BY <1>1 DEF PlainRows
<1>3. IdsAreKeys(rows, d.next["sensors"])
  BY <1>1 DEF IdsAreKeys
<1> HIDE DEF rows
<1>4. SchemaHolds([d EXCEPT !["sensors"] = rows])
  BY <1>2, <1>3, RewriteKeeps
<1> QED
  BY <1>4 DEF rows, UpdateSensor

LEMMA RemoveSensorKeeps ==
  ASSUME NEW d, SchemaHolds(d), NEW i
  PROVE  SchemaHolds(RemoveSensor(d, i))
<1> DEFINE rows == {s \in d.sensors : s.id # i}
<1>1. PlainRows("sensors", rows)
  BY TableFacts DEF PlainRows, RowsAreTyped
<1>2. IdsAreKeys(rows, d.next["sensors"])
  BY TableFacts DEF IdsAreKeys, Tables
<1> HIDE DEF rows
<1>3. SchemaHolds([d EXCEPT !["sensors"] = rows])
  BY <1>1, <1>2, RewriteKeeps
<1> QED
  BY <1>3 DEF rows, RemoveSensor

LEMMA CreateCalibrationKeeps ==
  ASSUME NEW d, SchemaHolds(d), NEW owner \in Owners, NEW kind \in Kinds, NEW data
  PROVE  SchemaHolds(CreateCalibration(d, owner, kind, data))
<1> DEFINE row == [id |-> d.next["calibrations"], owner |-> owner, kind |-> kind,
                   data |-> data]
<1>1. d.next["calibrations"] \in Nat
  BY TableFacts DEF Tables
<1>2. PlainRows("calibrations", {row}) /\ row.id = d.next["calibrations"]
  BY <1>1 DEF PlainRows, IsCalibration
<1> HIDE DEF row
<1>3. SchemaHolds(Inserted(d, "calibrations", row))
  BY <1>2, InsertKeeps
<1> QED
  BY <1>3 DEF row, CreateCalibration

LEMMA UpdateCalibrationKeeps ==
  ASSUME NEW d, SchemaHolds(d), NEW i, NEW data
  PROVE  SchemaHolds(UpdateCalibration(d, i, data))
<1> DEFINE rows == Updated(d.calibrations, i, "data", data)
<1>1. \A k \in d.calibrations : IsCalibration(k)
  BY TableFacts DEF RowsAreTyped
<1>2. \A k \in d.calibrations : IsCalibration([k EXCEPT !["data"] = data])
  BY <1>1 DEF IsCalibration
<1>3. PlainRows("calibrations", rows)
  BY <1>1, <1>2 DEF PlainRows, Updated
<1>4. IdsAreKeys(rows, d.next["calibrations"])
  BY <1>1, TableFacts, UpdatedKeys DEF Tables, IsCalibration
<1> HIDE DEF rows
<1>5. SchemaHolds([d EXCEPT !["calibrations"] = rows])
  BY <1>3, <1>4, RewriteKeeps
<1> QED
  BY <1>5 DEF rows, UpdateCalibration
==============================================================================
