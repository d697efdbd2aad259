---------------------- MODULE ConfigurationEditor_proofs ----------------------
(* What the window of the editor shows is what the database holds, through any
   sequence of edits and of readings that fail, for any modules, channels, names
   and databases; and what follows from it.                                    *)
EXTENDS ConfigurationEditor, ConfigurationDatabase_proofs

-----------------------------------------------------------------------------
(* The inductive invariant. *)

Trees ==
  [configuration : Nat, modules : SUBSET ModuleRows, tags : SUBSET TagRows,
   rawTags : SUBSET Nat]
SignalLists == [configuration : Nat, rows : SUBSET SignalRows]
Views ==
  [list : SUBSET ConfigurationRows, current : Nat, tree : Trees, hidden : SUBSET Modules,
   signals : SignalLists,
   sources : SUBSET Nat, panel : SignalRows \cup {NoSignal}, stale : SUBSET Parts]
Catalogues ==
  [types : SUBSET TypeRows, sensors : SUBSET SensorRows, offered : SUBSET Nat,
   stale : BOOLEAN]

\* A list that could not be read is empty, and nothing is chosen from it.
ListMatches(v, d) ==
  /\ v.list # {} => v.list = d.configurations
  /\ v.current # NoId => v.current \in Ids(v.list)
TreeMatches(v, d) ==
  v.current # NoId /\ "tree" \notin v.stale =>
    /\ v.tree.configuration = v.current
    /\ v.tree.modules = ModulesOf(d, v.current)
    /\ v.tree.tags = TagsOf(d, v.current)
MarksMatch(v, d) ==
  v.current # NoId /\ "marks" \notin v.stale => v.tree.rawTags = RawTags(d, v.current)
SignalsMatch(v, d) ==
  v.current # NoId /\ "signals" \notin v.stale => v.signals = SignalListOf(d, v.current)
SourcesMatch(v, d) ==
  v.current # NoId /\ "sources" \notin v.stale => v.sources = TagSources(d, v.current)

\* The marks of a tree that was not read are not those of the configuration shown.
StaleMarks(v) == "tree" \in v.stale => "marks" \in v.stale

\* A signal that is shown, stale or not, is of the kind it has in the database if it
\* still is there, and its id is not given again.
KindsAgree(v, d) ==
  \A r \in v.signals.rows :
    r.id < d.next["signals"] /\ \A s \in d.signals : s.id = r.id => s.kind = r.kind
PanelIsShown(v) == v.panel # NoSignal => v.panel \in v.signals.rows

ViewInv(v, d) ==
  /\ v \in Views
  /\ ListMatches(v, d) /\ TreeMatches(v, d) /\ MarksMatch(v, d)
  /\ SignalsMatch(v, d) /\ SourcesMatch(v, d)
  /\ StaleMarks(v) /\ KindsAgree(v, d) /\ PanelIsShown(v)

CatalogueInv(k, d, running) ==
  /\ k \in Catalogues
  /\ k.types \subseteq d.types /\ k.sensors \subseteq d.sensors
  /\ running /\ ~k.stale => k.types = d.types /\ k.sensors = d.sensors

Kept ==
  /\ SchemaHolds(db)
  /\ ViewInv(view, db)
  /\ CatalogueInv(catalogue, db, open)
  /\ open \in BOOLEAN
  /\ edits \in 0..MaxEdits

IInv == Kept /\ failures \in 0..MaxFailures

-----------------------------------------------------------------------------
(* What the models read from a database whose schema holds. *)

LEMMA ReadTypes ==
  ASSUME NEW d, SchemaHolds(d), NEW c \in Nat
  PROVE  /\ TreeOf(d, c) \in Trees
         /\ SignalListOf(d, c) \in SignalLists
         /\ TagSources(d, c) \in SUBSET Nat
         /\ RawTags(d, c) \in SUBSET Nat
         /\ d.configurations \in SUBSET ConfigurationRows
         /\ Differential(ModulesOf(d, c)) \in SUBSET Modules
<1>1. /\ d.configurations \subseteq ConfigurationRows
      /\ d.modules \subseteq ModuleRows /\ d.tags \subseteq TagRows
      /\ d.signals \subseteq SignalRows
  BY DEF SchemaHolds, RowsAreTyped
<1>2. RawTags(d, c) \in SUBSET Nat
  BY <1>1 DEF RawTags, SignalsOf, SignalRows
<1>3. TagSources(d, c) \in SUBSET Nat
  BY <1>1 DEF TagSources, ActiveTags, TagsOf, Ids, TagRows
<1>4. TreeOf(d, c) \in Trees
  BY <1>1, <1>2 DEF TreeOf, Trees, ModulesOf, TagsOf
<1>5. SignalListOf(d, c) \in SignalLists
  BY <1>1 DEF SignalListOf, SignalLists, SignalsOf
<1>6. Differential(ModulesOf(d, c)) \in SUBSET Modules
  BY <1>1 DEF Differential, ModulesOf, ModuleRows
<1> QED
  BY <1>1, <1>2, <1>3, <1>4, <1>5, <1>6

\* configurationChanged() leaves a view that tells what it shows from what it could
\* not read.
LEMMA ConfigurationChangedMatches ==
  ASSUME NEW d, SchemaHolds(d), NEW v \in Views, ListMatches(v, d), KindsAgree(v, d),
         NEW w \in ConfigurationChanged(v, d)
  PROVE  ViewInv(w, d)
<1> DEFINE c == v.current
<1>1. c \in Nat
  BY DEF Views
<1>2. /\ TreeOf(d, c) \in Trees /\ SignalListOf(d, c) \in SignalLists
      /\ TagSources(d, c) \in SUBSET Nat
      /\ Differential(ModulesOf(d, c)) \in SUBSET Modules
  BY <1>1, ReadTypes
<1>3. ASSUME NEW r \in SignalsOf(d, c)
      PROVE  /\ r.id < d.next["signals"]
             /\ \A s \in d.signals : s.id = r.id => s.kind = r.kind
  BY <1>3 DEF SignalsOf, SchemaHolds, KeysAreUnique, IdsAreKeys, Tables
<1>4. \A r \in SignalListOf(d, c).rows :
        r.id < d.next["signals"] /\ \A s \in d.signals : s.id = r.id => s.kind = r.kind
  BY <1>3 DEF SignalListOf
<1>5. CASE c = NoId
  <2>1. \/ w = [v EXCEPT !.panel = NoSignal, !.tree = TreeOf(d, c), !.hidden = {},
                         !.signals = SignalListOf(d, c), !.sources = {}, !.stale = {}]
        \/ w = [v EXCEPT !.panel = NoSignal, !.signals = SignalListOf(d, c),
                         !.sources = {}, !.stale = {}]
    BY <1>5 DEF ConfigurationChanged, Views
  <2>2. /\ w \in Views /\ w.current = NoId /\ w.panel = NoSignal /\ w.stale = {}
        /\ w.list = v.list /\ w.signals = SignalListOf(d, c)
    BY <1>2, <1>5, <2>1 DEF Views
  <2> QED
    BY <1>4, <2>2 DEF ViewInv, ListMatches, TreeMatches, MarksMatch, SignalsMatch,
         SourcesMatch, StaleMarks, KindsAgree, PanelIsShown
<1>6. CASE c # NoId
  <2>1. \/ w = [v EXCEPT !.panel = NoSignal, !.stale = Parts]
        \/ w = [v EXCEPT !.panel = NoSignal, !.tree = TreeOf(d, c), !.hidden = {},
                         !.stale = {"signals", "sources"}]
        \/ w = [v EXCEPT !.panel = NoSignal, !.tree = TreeOf(d, c),
                         !.hidden = Differential(ModulesOf(d, c)),
                         !.signals = SignalListOf(d, c), !.stale = {"sources"}]
        \/ w = [v EXCEPT !.panel = NoSignal, !.tree = TreeOf(d, c),
                         !.hidden = Differential(ModulesOf(d, c)),
                         !.signals = SignalListOf(d, c), !.sources = TagSources(d, c),
                         !.stale = {}]
    BY <1>6 DEF ConfigurationChanged, Views
  <2>2. /\ w \in Views /\ w.current = c /\ w.panel = NoSignal /\ w.list = v.list
        /\ \/ w.stale = Parts /\ w.signals = v.signals
           \/ /\ w.stale = {"signals", "sources"} /\ w.tree = TreeOf(d, c)
              /\ w.signals = v.signals
           \/ /\ w.stale = {"sources"} /\ w.tree = TreeOf(d, c)
              /\ w.signals = SignalListOf(d, c)
           \/ /\ w.stale = {} /\ w.tree = TreeOf(d, c) /\ w.signals = SignalListOf(d, c)
              /\ w.sources = TagSources(d, c)
    BY <1>2, <2>1 DEF Views, Parts
  <2>3. KindsAgree(w, d)
    BY <1>4, <2>2 DEF KindsAgree
  <2> QED
    BY <1>6, <2>2, <2>3 DEF ViewInv, ListMatches, TreeMatches, MarksMatch, SignalsMatch,
         SourcesMatch, StaleMarks, PanelIsShown, Parts, TreeOf
<1> QED
  BY <1>5, <1>6

\* A view in which all but the sources follow the database, and then these.
LEMMA SourcesRefreshedMatches ==
  ASSUME NEW d, SchemaHolds(d), NEW v \in Views,
         ListMatches(v, d), TreeMatches(v, d), MarksMatch(v, d), SignalsMatch(v, d),
         StaleMarks(v), KindsAgree(v, d), PanelIsShown(v),
         NEW w \in SourcesRefreshed(v, d)
  PROVE  ViewInv(w, d)
<1>1. CASE v.current = NoId
  BY <1>1 DEF SourcesRefreshed, ViewInv, SourcesMatch
<1>2. CASE v.current # NoId
  <2>1. TagSources(d, v.current) \in SUBSET Nat
    BY ReadTypes DEF Views
  <2>2. \/ w = [v EXCEPT !.sources = TagSources(d, v.current), !.stale = @ \ {"sources"}]
        \/ w = [v EXCEPT !.stale = @ \cup {"sources"}]
    BY <1>2 DEF SourcesRefreshed
  <2>3. /\ w \in Views
        /\ w.list = v.list /\ w.current = v.current /\ w.tree = v.tree
        /\ w.signals = v.signals /\ w.panel = v.panel
        /\ \/ w.stale = v.stale \ {"sources"} /\ w.sources = TagSources(d, v.current)
           \/ w.stale = v.stale \cup {"sources"}
    BY <2>1, <2>2 DEF Views, Parts
  <2> QED
    BY <2>3 DEF ViewInv, ListMatches, TreeMatches, MarksMatch, SignalsMatch,
         SourcesMatch, StaleMarks, KindsAgree, PanelIsShown
<1> QED
  BY <1>1, <1>2

\* A view in which all but the marks follow the database, and then these.
LEMMA MarksRefreshedMatches ==
  ASSUME NEW d, SchemaHolds(d), NEW v \in Views,
         ListMatches(v, d), TreeMatches(v, d), SignalsMatch(v, d), SourcesMatch(v, d),
         StaleMarks(v), KindsAgree(v, d), PanelIsShown(v),
         NEW w \in MarksRefreshed(v, d)
  PROVE  ViewInv(w, d)
<1> DEFINE marks == RawTags(d, v.tree.configuration)
<1>1. marks \in SUBSET Nat
  BY ReadTypes DEF Views, Trees
<1>2. \/ w = [v EXCEPT !.tree.rawTags = marks,
                       !.stale = IF "tree" \in @ THEN @ ELSE @ \ {"marks"}]
      \/ w = [v EXCEPT !.stale = @ \cup {"marks"}]
  BY DEF MarksRefreshed
<1>3. [v.tree EXCEPT !.rawTags = marks] \in Trees
  BY <1>1 DEF Views, Trees
<1>4. /\ w \in Views
      /\ w.list = v.list /\ w.current = v.current
      /\ w.signals = v.signals /\ w.panel = v.panel /\ w.sources = v.sources
      /\ \/ /\ w.stale = IF "tree" \in v.stale THEN v.stale ELSE v.stale \ {"marks"}
            /\ w.tree = [v.tree EXCEPT !.rawTags = marks]
         \/ w.stale = v.stale \cup {"marks"} /\ w.tree = v.tree
  BY <1>2, <1>3 DEF Views, Parts
<1>5. CASE w.stale = v.stale \cup {"marks"} /\ w.tree = v.tree
  BY <1>4, <1>5 DEF ViewInv, ListMatches, TreeMatches, MarksMatch, SignalsMatch,
       SourcesMatch, StaleMarks, KindsAgree, PanelIsShown
<1>6. CASE /\ w.stale = IF "tree" \in v.stale THEN v.stale ELSE v.stale \ {"marks"}
           /\ w.tree = [v.tree EXCEPT !.rawTags = marks]
  <2>1. /\ w.tree.configuration = v.tree.configuration /\ w.tree.modules = v.tree.modules
        /\ w.tree.tags = v.tree.tags /\ w.tree.rawTags = marks
    BY <1>6 DEF Views, Trees
  <2>2. TreeMatches(w, d) /\ MarksMatch(w, d)
    BY <1>4, <1>6, <2>1 DEF TreeMatches, MarksMatch, StaleMarks
  <2> QED
    BY <1>4, <1>6, <2>2 DEF ViewInv, ListMatches, SignalsMatch,
         SourcesMatch, StaleMarks, KindsAgree, PanelIsShown
<1> QED
  BY <1>4, <1>5, <1>6

-----------------------------------------------------------------------------
(* What an edit of one table leaves of the rest. *)

\* What the views are read from.
SameForViews(d, e) ==
  /\ e.configurations = d.configurations /\ e.modules = d.modules
  /\ e.tags = d.tags /\ e.signals = d.signals
  /\ e.next["signals"] = d.next["signals"]

LEMMA ViewFrame ==
  ASSUME NEW d, NEW e, NEW v, ViewInv(v, d), SameForViews(d, e)
  PROVE  ViewInv(v, e)
<1> USE DEF SameForViews
<1>1. /\ TreeMatches(v, e) /\ ListMatches(v, e)
  BY DEF ViewInv, ListMatches, TreeMatches, ModulesOf, TagsOf
<1>2. MarksMatch(v, e) /\ SignalsMatch(v, e) /\ KindsAgree(v, e)
  BY DEF ViewInv, MarksMatch, SignalsMatch, KindsAgree, RawTags, SignalListOf, SignalsOf
<1>3. SourcesMatch(v, e)
  BY DEF ViewInv, SourcesMatch, TagSources, ActiveTags, ActiveModules, ModulesOf, TagsOf
<1> QED
  BY <1>1, <1>2, <1>3 DEF ViewInv

LEMMA CatalogueFrame ==
  ASSUME NEW d, NEW e, NEW k, NEW running, CatalogueInv(k, d, running),
         e.types = d.types, e.sensors = d.sensors
  PROVE  CatalogueInv(k, e, running)
BY DEF CatalogueInv

\* The catalogue does not depend on the tables of configurations, nor the views on
\* those of sensors.
LEMMA TablesApart ==
  ASSUME NEW d, NEW e, NEW table \in Tables, OnlyTable(d, e, table)
  PROVE  /\ table \notin {"types", "sensors"} => e.types = d.types /\ e.sensors = d.sensors
         /\ table \in {"types", "sensors", "calibrations"} => SameForViews(d, e)
         /\ \A t \in Tables \ {table} : e[t] = d[t] /\ e.next[t] = d.next[t]
BY DEF OnlyTable, Tables, SameForViews

\* An edit of modules, tags or signals, seen from the parts it does not show in.
LEMMA ModulesEdited ==
  ASSUME NEW d, NEW e, OnlyTable(d, e, "modules"), NEW v, ViewInv(v, d),
         NEW shown \in SUBSET ModuleRows,
         v.tree.modules = ModulesOf(d, v.tree.configuration) =>
           shown = ModulesOf(e, v.tree.configuration)
  PROVE  LET w == [v EXCEPT !.tree.modules = shown] IN
         /\ w \in Views
         /\ ListMatches(w, e) /\ TreeMatches(w, e) /\ MarksMatch(w, e) /\ SignalsMatch(w, e)
         /\ StaleMarks(w) /\ KindsAgree(w, e) /\ PanelIsShown(w)
         /\ w.sources = v.sources /\ w.current = v.current /\ w.stale = v.stale
<1> DEFINE w == [v EXCEPT !.tree.modules = shown]
<1>1. /\ e.configurations = d.configurations /\ e.tags = d.tags /\ e.signals = d.signals
      /\ e.next["signals"] = d.next["signals"]
  BY TablesApart DEF Tables
<1>2. v \in Views
  BY DEF ViewInv
<1>3. [v.tree EXCEPT !.modules = shown] \in Trees
  BY <1>2 DEF Views, Trees
<1>4. /\ w \in Views
      /\ w.list = v.list /\ w.current = v.current /\ w.signals = v.signals
      /\ w.panel = v.panel /\ w.sources = v.sources /\ w.stale = v.stale
      /\ w.tree = [v.tree EXCEPT !.modules = shown]
  BY <1>2, <1>3 DEF Views
<1>5. /\ w.tree.configuration = v.tree.configuration /\ w.tree.modules = shown
      /\ w.tree.tags = v.tree.tags /\ w.tree.rawTags = v.tree.rawTags
  BY <1>2, <1>4 DEF Views, Trees
<1> HIDE DEF w
<1>6. TreeMatches(w, e) /\ ListMatches(w, e)
  BY <1>1, <1>4, <1>5 DEF ViewInv, TreeMatches, ListMatches, TagsOf
<1>7. MarksMatch(w, e) /\ SignalsMatch(w, e) /\ KindsAgree(w, e)
  BY <1>1, <1>4, <1>5 DEF ViewInv, MarksMatch, SignalsMatch, KindsAgree, RawTags,
       SignalListOf, SignalsOf
<1>8. StaleMarks(w) /\ PanelIsShown(w)
  BY <1>4 DEF ViewInv, StaleMarks, PanelIsShown
<1> QED
  BY <1>4, <1>6, <1>7, <1>8 DEF w

LEMMA TagsEdited ==
  ASSUME NEW d, NEW e, OnlyTable(d, e, "tags"), NEW v, ViewInv(v, d),
         NEW shown \in SUBSET TagRows,
         v.tree.tags = TagsOf(d, v.tree.configuration) =>
           shown = TagsOf(e, v.tree.configuration)
  PROVE  LET w == [v EXCEPT !.tree.tags = shown] IN
         /\ w \in Views
         /\ ListMatches(w, e) /\ TreeMatches(w, e) /\ MarksMatch(w, e) /\ SignalsMatch(w, e)
         /\ StaleMarks(w) /\ KindsAgree(w, e) /\ PanelIsShown(w)
         /\ w.sources = v.sources /\ w.current = v.current /\ w.stale = v.stale
<1> DEFINE w == [v EXCEPT !.tree.tags = shown]
<1>1. /\ e.configurations = d.configurations /\ e.modules = d.modules
      /\ e.signals = d.signals /\ e.next["signals"] = d.next["signals"]
  BY TablesApart DEF Tables
<1>2. v \in Views
  BY DEF ViewInv
<1>3. [v.tree EXCEPT !.tags = shown] \in Trees
  BY <1>2 DEF Views, Trees
<1>4. /\ w \in Views
      /\ w.list = v.list /\ w.current = v.current /\ w.signals = v.signals
      /\ w.panel = v.panel /\ w.sources = v.sources /\ w.stale = v.stale
      /\ w.tree = [v.tree EXCEPT !.tags = shown]
  BY <1>2, <1>3 DEF Views
<1>5. /\ w.tree.configuration = v.tree.configuration /\ w.tree.tags = shown
      /\ w.tree.modules = v.tree.modules /\ w.tree.rawTags = v.tree.rawTags
  BY <1>2, <1>4 DEF Views, Trees
<1> HIDE DEF w
<1>6. TreeMatches(w, e) /\ ListMatches(w, e)
  BY <1>1, <1>4, <1>5 DEF ViewInv, TreeMatches, ListMatches, ModulesOf
<1>7. MarksMatch(w, e) /\ SignalsMatch(w, e) /\ KindsAgree(w, e)
  BY <1>1, <1>4, <1>5 DEF ViewInv, MarksMatch, SignalsMatch, KindsAgree, RawTags,
       SignalListOf, SignalsOf
<1>8. StaleMarks(w) /\ PanelIsShown(w)
  BY <1>4 DEF ViewInv, StaleMarks, PanelIsShown
<1> QED
  BY <1>4, <1>6, <1>7, <1>8 DEF w

\* The list of signals and the panel after an edit of the signals; the marks follow
\* when the edit does not touch what is measured.
LEMMA SignalsEdited ==
  ASSUME NEW d, NEW e, OnlyTable(d, e, "signals"), NEW v, ViewInv(v, d),
         NEW shown \in SUBSET SignalRows, NEW panel \in shown \cup {NoSignal},
         v.signals.rows = SignalsOf(d, v.signals.configuration) =>
           shown = SignalsOf(e, v.signals.configuration),
         \A r \in shown :
           r.id < e.next["signals"] /\ \A s \in e.signals : s.id = r.id => s.kind = r.kind
  PROVE  LET w == [v EXCEPT !.signals.rows = shown, !.panel = panel] IN
         /\ w \in Views
         /\ ListMatches(w, e) /\ TreeMatches(w, e) /\ SignalsMatch(w, e)
         /\ SourcesMatch(w, e) /\ StaleMarks(w) /\ KindsAgree(w, e) /\ PanelIsShown(w)
         /\ RawTags(e, v.current) = RawTags(d, v.current) => ViewInv(w, e)
<1> DEFINE w == [v EXCEPT !.signals.rows = shown, !.panel = panel]
<1>1. /\ e.configurations = d.configurations /\ e.modules = d.modules /\ e.tags = d.tags
  BY TablesApart DEF Tables
<1>2. v \in Views
  BY DEF ViewInv
<1>3. [v.signals EXCEPT !.rows = shown] \in SignalLists
  BY <1>2 DEF Views, SignalLists
<1>4. /\ w \in Views
      /\ w.list = v.list /\ w.current = v.current /\ w.tree = v.tree
      /\ w.panel = panel /\ w.sources = v.sources /\ w.stale = v.stale
      /\ w.signals = [v.signals EXCEPT !.rows = shown]
  BY <1>2, <1>3 DEF Views
<1>5. /\ w.signals.configuration = v.signals.configuration /\ w.signals.rows = shown
      /\ DOMAIN v.signals = {"configuration", "rows"}
  BY <1>2, <1>4 DEF Views, SignalLists
<1> HIDE DEF w
<1>6. TreeMatches(w, e) /\ ListMatches(w, e)
  BY <1>1, <1>4 DEF ViewInv, TreeMatches, ListMatches, ModulesOf, TagsOf
<1>7. SignalsMatch(w, e)
  <2> SUFFICES ASSUME v.current # NoId, "signals" \notin v.stale
               PROVE  w.signals = SignalListOf(e, v.current)
    BY <1>4 DEF SignalsMatch
  <2>1. v.signals = SignalListOf(d, v.current)
    BY DEF ViewInv, SignalsMatch
  <2>2. /\ v.signals.configuration = v.current
        /\ v.signals.rows = SignalsOf(d, v.signals.configuration)
    BY <2>1 DEF SignalListOf
  <2>3. shown = SignalsOf(e, v.current)
    BY <2>2
  <2> QED
    BY <1>4, <2>1, <2>3 DEF SignalListOf
<1>8. SourcesMatch(w, e)
  BY <1>1, <1>4 DEF ViewInv, SourcesMatch, TagSources, ActiveTags, ActiveModules,
       ModulesOf, TagsOf
<1>9. KindsAgree(w, e) /\ StaleMarks(w) /\ PanelIsShown(w)
  BY <1>4, <1>5 DEF ViewInv, StaleMarks, KindsAgree, PanelIsShown
<1>10. RawTags(e, v.current) = RawTags(d, v.current) => MarksMatch(w, e)
  BY <1>4 DEF ViewInv, MarksMatch
<1> QED
  BY <1>4, <1>6, <1>7, <1>8, <1>9, <1>10 DEF ViewInv, w

-----------------------------------------------------------------------------
(* Every action keeps the invariant. *)

LEMMA EditCounts ==
  ASSUME Kept, Edit
  PROVE  edits' \in 0..MaxEdits /\ open = TRUE
BY EditorAssumption DEF Kept, Edit

LEMMA SelectConfigurationKeeps ==
  ASSUME Kept, NEW c \in Ids(view.list), SelectConfiguration(c)
  PROVE  Kept'
<1> DEFINE v == [view EXCEPT !.current = c]
<1>1. view \in Views /\ ListMatches(view, db) /\ KindsAgree(view, db) /\ SchemaHolds(db)
  BY DEF Kept, ViewInv
<1>2. c \in Nat
  BY <1>1 DEF Views, Ids, ConfigurationRows
<1>3. /\ v \in Views /\ v.list = view.list /\ v.current = c /\ v.signals = view.signals
  BY <1>1, <1>2 DEF Views
<1>4. ListMatches(v, db) /\ KindsAgree(v, db)
  BY <1>1, <1>3 DEF ListMatches, KindsAgree, Ids
<1>5. view' \in ConfigurationChanged(v, db)
  BY DEF SelectConfiguration
<1> HIDE DEF v
<1>6. ViewInv(view', db)
  BY <1>1, <1>3, <1>4, <1>5, ConfigurationChangedMatches
<1> QED
  BY <1>6 DEF Kept, SelectConfiguration

\* A list that is lost, and one that is read again with a choice from it.
LEMMA ListLostMatches ==
  ASSUME NEW d, NEW e, NEW v, ViewInv(v, d),
         e.signals \subseteq d.signals, e.next["signals"] = d.next["signals"]
  PROVE  ViewInv(ListLost(v), e)
<1> DEFINE w == ListLost(v)
<1>1. v \in Views
  BY DEF ViewInv
<1>2. /\ w \in Views /\ w.list = {} /\ w.current = NoId /\ w.stale = v.stale
      /\ w.signals = v.signals /\ w.panel = v.panel
  BY <1>1 DEF Views, ListLost, NoId
<1> HIDE DEF w
<1>3. KindsAgree(w, e) /\ StaleMarks(w) /\ PanelIsShown(w)
  BY <1>2 DEF ViewInv, KindsAgree, StaleMarks, PanelIsShown
<1>4. ViewInv(w, e)
  BY <1>2, <1>3 DEF ViewInv, ListMatches, TreeMatches, MarksMatch, SignalsMatch, SourcesMatch
<1> QED
  BY <1>4 DEF w

LEMMA ChosenMatches ==
  ASSUME NEW d, NEW e, NEW v \in Views, KindsAgree(v, d), SchemaHolds(e),
         e.signals \subseteq d.signals, e.next["signals"] = d.next["signals"],
         NEW c, c \in Ids(e.configurations) \/ c = NoId
  PROVE  LET w == Chosen(v, e, c) IN
         /\ w \in Views /\ w.list = e.configurations /\ w.current = c
         /\ w.tree = v.tree /\ w.signals = v.signals /\ w.sources = v.sources
         /\ w.panel = v.panel /\ w.stale = v.stale
         /\ ListMatches(w, e) /\ KindsAgree(w, e)
<1> DEFINE w == Chosen(v, e, c)
<1>1. e.configurations \in SUBSET ConfigurationRows
  BY DEF SchemaHolds, RowsAreTyped
<1>2. c \in Nat
  BY <1>1 DEF Ids, ConfigurationRows, NoId
<1>3. /\ w \in Views /\ w.list = e.configurations /\ w.current = c
      /\ w.tree = v.tree /\ w.signals = v.signals /\ w.sources = v.sources
      /\ w.panel = v.panel /\ w.stale = v.stale
  BY <1>1, <1>2 DEF Views, Chosen
<1> HIDE DEF w
<1>4. ListMatches(w, e) /\ KindsAgree(w, e)
  BY <1>3 DEF ListMatches, KindsAgree
<1> QED
  BY <1>3, <1>4 DEF w

LEMMA AddsConfigurationKeeps ==
  ASSUME Kept, NEW n \in Names, AddsConfiguration(n)
  PROVE  Kept'
<1> DEFINE c == db.next["configurations"]
           row == [id |-> c, name |-> n]
<1>1. SchemaHolds(db) /\ ViewInv(view, db) /\ CatalogueInv(catalogue, db, open)
  BY DEF Kept
<1>2. db' = AddConfiguration(db, n) /\ Edit
  BY DEF AddsConfiguration
<1>3. SchemaHolds(db')
  BY <1>1, <1>2, AddConfigurationKeeps
<1>4. OnlyTable(db, db', "configurations") /\ db'.configurations = db.configurations \cup {row}
  <2>1. RowsAreTyped(db) /\ "configurations" \in Tables
    BY <1>1 DEF SchemaHolds, Tables
  <2> QED
    BY <1>2, <2>1, InsertIsLocal DEF AddConfiguration
<1>5. /\ db'.signals = db.signals /\ db'.next["signals"] = db.next["signals"]
      /\ db'.types = db.types /\ db'.sensors = db.sensors
  BY <1>4, TablesApart DEF Tables
<1>6. ViewInv(view', db')
  <2>1. CASE view' = ListLost(view)
    BY <1>1, <1>5, <2>1, ListLostMatches
  <2>2. CASE view' \in ConfigurationChanged(Chosen(view, db', c), db')
    <3> DEFINE v == Chosen(view, db', c)
    <3>1. c \in Ids(db'.configurations)
      BY <1>4 DEF Ids
    <3>2. v \in Views /\ ListMatches(v, db') /\ KindsAgree(v, db')
      <4> HIDE DEF c
      <4> QED
        BY <1>1, <1>3, <1>5, <3>1, ChosenMatches DEF ViewInv
    <3> HIDE DEF v
    <3> QED
      BY <1>3, <2>2, <3>2, ConfigurationChangedMatches DEF v
  <2> QED
    BY <2>1, <2>2 DEF AddsConfiguration
<1>7. CatalogueInv(catalogue', db', open')
  BY <1>1, <1>5, CatalogueFrame DEF AddsConfiguration
<1> QED
  BY <1>2, <1>3, <1>6, <1>7, EditCounts DEF Kept, AddsConfiguration

LEMMA EditsConfigurationKeeps ==
  ASSUME Kept, NEW n \in Names, EditsConfiguration(n)
  PROVE  Kept'
<1> DEFINE c == view.current
           rows == Updated(db.configurations, c, "name", n)
<1>1. SchemaHolds(db) /\ ViewInv(view, db) /\ CatalogueInv(catalogue, db, open)
  BY DEF Kept
<1>2. db' = UpdateConfiguration(db, c, n) /\ Edit /\ c \in Ids(db.configurations)
  BY DEF EditsConfiguration, CanUpdateConfiguration
<1>3. SchemaHolds(db')
  BY <1>1, <1>2, UpdateConfigurationKeeps
<1>4. OnlyTable(db, db', "configurations") /\ db'.configurations = rows
  <2>1. RowsAreTyped(db) /\ "configurations" \in Tables
    BY <1>1 DEF SchemaHolds, Tables
  <2>2. Rewrites(db, db', "configurations", rows)
    BY <1>2 DEF UpdateConfiguration, Rewrites
  <2> HIDE DEF rows
  <2> QED
    BY <2>1, <2>2, RewriteKeepsTables
<1>5. /\ db'.signals = db.signals /\ db'.next["signals"] = db.next["signals"]
      /\ db'.types = db.types /\ db'.sensors = db.sensors
      /\ db'.modules = db.modules /\ db'.tags = db.tags
  BY <1>4, TablesApart DEF Tables
<1>6. ViewInv(view', db')
  <2>1. CASE view' = ListLost(view)
    BY <1>1, <1>5, <2>1, ListLostMatches
  <2>2. CASE view' = Chosen(view, db', c)
    <3>1. c \in Ids(db'.configurations)
      <4>1. PICK r \in db.configurations : r.id = c
        BY <1>2 DEF Ids
      <4>2. [r EXCEPT !["name"] = n].id = c
        BY <1>1, <4>1 DEF SchemaHolds, RowsAreTyped, ConfigurationRows
      <4>3. [r EXCEPT !["name"] = n] \in rows
        BY <4>1 DEF Updated
      <4> HIDE DEF rows
      <4> QED
        BY <1>4, <4>2, <4>3 DEF Ids
    <3>2. /\ view' \in Views /\ view'.list = db'.configurations /\ view'.current = c
          /\ view'.tree = view.tree /\ view'.signals = view.signals
          /\ view'.sources = view.sources
          /\ view'.panel = view.panel /\ view'.stale = view.stale
          /\ ListMatches(view', db') /\ KindsAgree(view', db')
      <4> HIDE DEF c
      <4> QED
        BY <1>1, <1>3, <1>5, <2>2, <3>1, ChosenMatches DEF ViewInv
    <3>3. TreeMatches(view', db') /\ StaleMarks(view') /\ PanelIsShown(view')
      BY <1>1, <1>5, <3>2 DEF ViewInv, TreeMatches, StaleMarks, PanelIsShown, ModulesOf, TagsOf
    <3>4. MarksMatch(view', db') /\ SignalsMatch(view', db')
      BY <1>1, <1>5, <3>2 DEF ViewInv, MarksMatch, SignalsMatch, RawTags, SignalListOf, SignalsOf
    <3>5. SourcesMatch(view', db')
      BY <1>1, <1>5, <3>2 DEF ViewInv, SourcesMatch, TagSources, ActiveTags, ActiveModules,
           ModulesOf, TagsOf
    <3> QED
      BY <3>2, <3>3, <3>4, <3>5 DEF ViewInv
  <2> QED
    BY <2>1, <2>2 DEF EditsConfiguration
<1>7. CatalogueInv(catalogue', db', open')
  BY <1>1, <1>5, CatalogueFrame DEF EditsConfiguration
<1> QED
  BY <1>2, <1>3, <1>6, <1>7, EditCounts DEF Kept, EditsConfiguration

LEMMA RemovesConfigurationKeeps ==
  ASSUME Kept, RemovesConfiguration
  PROVE  Kept'
<1> DEFINE i == view.current
<1>1. SchemaHolds(db) /\ ViewInv(view, db) /\ CatalogueInv(catalogue, db, open)
  BY DEF Kept
<1>2. db' = RemoveConfiguration(db, i) /\ Edit
  BY DEF RemovesConfiguration
<1>3. SchemaHolds(db')
  BY <1>1, <1>2, RemoveConfigurationKeeps
<1>4. /\ db'.signals \subseteq db.signals /\ db'.next["signals"] = db.next["signals"]
      /\ db'.types = db.types /\ db'.sensors = db.sensors
  <2>1. DOMAIN db = Tables \cup {"next"}
    BY <1>1 DEF SchemaHolds, RowsAreTyped
  <2> QED
    BY <1>2, <2>1 DEF RemoveConfiguration, Tables
<1>5. ViewInv(view', db')
  <2>1. CASE view' = ListLost(view)
    BY <1>1, <1>4, <2>1, ListLostMatches
  <2>2. CASE \E c \in IF db'.configurations = {} THEN {NoId} ELSE Ids(db'.configurations) :
               view' \in ConfigurationChanged(Chosen(view, db', c), db')
    <3>1. PICK c \in IF db'.configurations = {} THEN {NoId} ELSE Ids(db'.configurations) :
            view' \in ConfigurationChanged(Chosen(view, db', c), db')
      BY <2>2
    <3> DEFINE v == Chosen(view, db', c)
    <3>2. v \in Views /\ ListMatches(v, db') /\ KindsAgree(v, db')
      <4>1. c \in Ids(db'.configurations) \/ c = NoId
        OBVIOUS
      <4> QED
        BY <1>1, <1>3, <1>4, <4>1, ChosenMatches DEF ViewInv
    <3> HIDE DEF v
    <3> QED
      BY <1>3, <3>1, <3>2, ConfigurationChangedMatches DEF v
  <2> QED
    BY <2>1, <2>2 DEF RemovesConfiguration
<1>6. CatalogueInv(catalogue', db', open')
  BY <1>1, <1>4, CatalogueFrame DEF RemovesConfiguration
<1> QED
  BY <1>2, <1>3, <1>5, <1>6, EditCounts DEF Kept, RemovesConfiguration

\* Which rows are hidden is apart from what the rest of a view shows.
LEMMA VisibilityIsApart ==
  ASSUME NEW d, NEW m \in Modules, NEW v \in Views,
         ListMatches(v, d), TreeMatches(v, d), MarksMatch(v, d), SignalsMatch(v, d),
         StaleMarks(v), KindsAgree(v, d), PanelIsShown(v)
  PROVE  LET w == VisibilityUpdated(v, m) IN
         /\ w \in Views
         /\ ListMatches(w, d) /\ TreeMatches(w, d) /\ MarksMatch(w, d) /\ SignalsMatch(w, d)
         /\ StaleMarks(w) /\ KindsAgree(w, d) /\ PanelIsShown(w)
         /\ w.sources = v.sources /\ w.current = v.current /\ w.stale = v.stale
<1> DEFINE w == VisibilityUpdated(v, m)
           rows == (v.hidden \ {m}) \cup ({m} \cap Differential(v.tree.modules))
<1>1. rows \in SUBSET Modules
  BY DEF Views
<1>2. w = [v EXCEPT !.hidden = rows]
  BY DEF VisibilityUpdated
<1> HIDE DEF w, rows
<1>3. /\ w \in Views /\ w.list = v.list /\ w.current = v.current /\ w.tree = v.tree
      /\ w.signals = v.signals /\ w.panel = v.panel /\ w.sources = v.sources
      /\ w.stale = v.stale
  BY <1>1, <1>2 DEF Views
<1>4. /\ ListMatches(w, d) /\ TreeMatches(w, d) /\ MarksMatch(w, d) /\ SignalsMatch(w, d)
      /\ StaleMarks(w) /\ KindsAgree(w, d) /\ PanelIsShown(w)
  BY <1>3 DEF ListMatches, TreeMatches, MarksMatch, SignalsMatch, StaleMarks, KindsAgree,
       PanelIsShown
<1> QED
  BY <1>3, <1>4 DEF w

\* The modules of the tree.
LEMMA ChecksModuleKeeps ==
  ASSUME Kept, NEW m \in Modules, ChecksModule(m)
  PROVE  Kept'
<1> DEFINE c == view.tree.configuration
           row == [configuration |-> c, module |-> m, active |-> TRUE,
                   settings |-> NoModuleSettings]
           shown == view.tree.modules \cup (db'.modules \ db.modules)
           v == [view EXCEPT !.tree.modules = shown]
<1>1. SchemaHolds(db) /\ ViewInv(view, db) /\ CatalogueInv(catalogue, db, open)
  BY DEF Kept
<1>2. /\ db' = AddConfigModule(db, c, m) /\ Edit /\ CanAddConfigModule(db, c, m)
      /\ view' \in SourcesRefreshed(VisibilityUpdated(v, m), db')
  BY DEF ChecksModule
<1>3. SchemaHolds(db')
  BY <1>1, <1>2, AddConfigModuleKeeps
<1>4. OnlyTable(db, db', "modules") /\ db'.modules = db.modules \cup {row}
  <2> DEFINE rows == db.modules \cup {row}
  <2>1. RowsAreTyped(db) /\ "modules" \in Tables
    BY <1>1 DEF SchemaHolds, Tables
  <2>2. Rewrites(db, db', "modules", rows)
    BY <1>2 DEF AddConfigModule, Rewrites
  <2> HIDE DEF rows
  <2>3. OnlyTable(db, db', "modules") /\ db'.modules = rows
    BY <2>1, <2>2, RewriteKeepsTables
  <2> QED
    BY <2>3 DEF rows
<1>5. db'.types = db.types /\ db'.sensors = db.sensors
  BY <1>4, TablesApart DEF Tables
<1>6. shown \in SUBSET ModuleRows
  BY <1>1, <1>3 DEF ViewInv, Views, Trees, SchemaHolds, RowsAreTyped
<1>7. view.tree.modules = ModulesOf(db, c) => shown = ModulesOf(db', c)
  BY <1>4 DEF ModulesOf
<1>8. /\ v \in Views
      /\ ListMatches(v, db') /\ TreeMatches(v, db') /\ MarksMatch(v, db')
      /\ SignalsMatch(v, db') /\ StaleMarks(v) /\ KindsAgree(v, db') /\ PanelIsShown(v)
  <2> HIDE DEF shown
  <2> QED
    BY <1>1, <1>4, <1>6, <1>7, ModulesEdited
<1> DEFINE u == VisibilityUpdated(v, m)
<1> HIDE DEF v
<1>9. /\ u \in Views
       /\ ListMatches(u, db') /\ TreeMatches(u, db') /\ MarksMatch(u, db')
       /\ SignalsMatch(u, db') /\ StaleMarks(u) /\ KindsAgree(u, db') /\ PanelIsShown(u)
  BY <1>8, VisibilityIsApart
<1>10. view' \in SourcesRefreshed(u, db')
  BY <1>2
<1> HIDE DEF u
<1>11. ViewInv(view', db')
  BY <1>3, <1>9, <1>10, SourcesRefreshedMatches
<1>12. CatalogueInv(catalogue', db', open')
  BY <1>1, <1>5, CatalogueFrame DEF ChecksModule
<1> QED
  BY <1>2, <1>3, <1>11, <1>12, EditCounts DEF Kept, ChecksModule

\* A column of a module's row, in the database and in the tree.
LEMMA ModuleRewritten ==
  ASSUME NEW d, SchemaHolds(d), NEW c, NEW m, NEW column, NEW value,
         \/ column = "active" /\ value \in BOOLEAN
         \/ column = "settings" /\ value \in ModuleSettings,
         NEW rows \in SUBSET ModuleRows, NEW r \in rows, r.module = m
  PROVE  LET e == UpdateConfigModule(d, c, m, column, value)
             new == [r EXCEPT ![column] = value]
         IN /\ SchemaHolds(e) /\ OnlyTable(d, e, "modules")
            /\ new \in ModuleRows
            /\ rows = ModulesOf(d, c) => (rows \ {r}) \cup {new} = ModulesOf(e, c)
<1> DEFINE e == UpdateConfigModule(d, c, m, column, value)
           new(q) == [q EXCEPT ![column] = value]
           here(q) == q.configuration = c /\ q.module = m
           all == {IF here(q) THEN new(q) ELSE q : q \in d.modules}
<1>1. SchemaHolds(e)
  BY UpdateConfigModuleKeeps
<1>2. OnlyTable(d, e, "modules") /\ e.modules = all
  <2>1. RowsAreTyped(d) /\ "modules" \in Tables
    BY DEF SchemaHolds, Tables
  <2>2. Rewrites(d, e, "modules", all)
    BY DEF UpdateConfigModule, Rewrites
  <2> HIDE DEF all, e
  <2> QED
    BY <2>1, <2>2, RewriteKeepsTables
<1>3. \A q \in ModuleRows : /\ new(q) \in ModuleRows
                            /\ new(q).configuration = q.configuration
  BY DEF ModuleRows
<1>4. ASSUME rows = ModulesOf(d, c)
      PROVE  (rows \ {r}) \cup {new(r)} = ModulesOf(e, c)
  <2>1. d.modules \subseteq ModuleRows
    BY DEF SchemaHolds, RowsAreTyped
  <2>2. r \in d.modules /\ here(r)
    BY <1>4 DEF ModulesOf
  <2>3. \A q \in d.modules : here(q) => q = r
    BY <2>2 DEF SchemaHolds, KeysAreUnique
  <2> HIDE DEF new
  <2>4. ASSUME NEW q \in (rows \ {r}) \cup {new(r)}
        PROVE  q \in all /\ q.configuration = c
    <3>1. CASE q \in rows \ {r}
      <4>1. q \in d.modules /\ q.configuration = c /\ ~here(q)
        BY <1>4, <2>3, <3>1 DEF ModulesOf
      <4> QED
        BY <4>1
    <3>2. CASE q = new(r)
      BY <1>3, <2>1, <2>2, <3>2
    <3> QED
      BY <3>1, <3>2
  <2>5. ASSUME NEW q \in all, q.configuration = c
        PROVE  q \in (rows \ {r}) \cup {new(r)}
    <3>1. PICK p \in d.modules : q = IF here(p) THEN new(p) ELSE p
      OBVIOUS
    <3> HIDE DEF all
    <3>2. CASE here(p)
      BY <2>3, <3>1, <3>2
    <3>3. CASE ~here(p)
      BY <1>4, <2>2, <2>5, <3>1, <3>3 DEF ModulesOf
    <3> QED
      BY <3>2, <3>3
  <2> HIDE DEF all
  <2> QED
    BY <1>2, <2>4, <2>5 DEF ModulesOf
<1> HIDE DEF e
<1> QED
  BY <1>1, <1>2, <1>3, <1>4 DEF e

LEMMA TogglesModuleKeeps ==
  ASSUME Kept, NEW m \in Modules, TogglesModule(m)
  PROVE  Kept'
<1> DEFINE c == view.tree.configuration
<1>1. SchemaHolds(db) /\ ViewInv(view, db) /\ CatalogueInv(catalogue, db, open)
  BY DEF Kept
<1>2. PICK r \in ModuleShown(m) :
        /\ db' = SetConfigModuleActive(db, c, m, ~r.active)
        /\ view' \in SourcesRefreshed(
                       VisibilityUpdated(
                         [view EXCEPT !.tree.modules =
                            (@ \ {r}) \cup {[r EXCEPT !.active = ~@]}], m), db')
  BY DEF TogglesModule
<1> DEFINE value == ~r.active
           new == [r EXCEPT !["active"] = value]
           shown == (view.tree.modules \ {r}) \cup {new}
           v == [view EXCEPT !.tree.modules = shown]
<1>3. view.tree.modules \in SUBSET ModuleRows
  BY <1>1 DEF ViewInv, Views, Trees
<1>4. r \in view.tree.modules /\ r.module = m
  BY DEF ModuleShown
<1>5. value \in BOOLEAN
  BY <1>3, <1>4 DEF ModuleRows
<1>6. db' = UpdateConfigModule(db, c, m, "active", value)
  BY <1>2 DEF SetConfigModuleActive
<1>7. view' \in SourcesRefreshed(VisibilityUpdated(v, m), db')
  BY <1>2
<1>8. /\ SchemaHolds(db') /\ OnlyTable(db, db', "modules") /\ new \in ModuleRows
      /\ view.tree.modules = ModulesOf(db, c) => shown = ModulesOf(db', c)
  <2> HIDE DEF value, c
  <2> QED
    BY <1>1, <1>3, <1>4, <1>5, <1>6, ModuleRewritten
<1>9. shown \in SUBSET ModuleRows
  BY <1>3, <1>8
<1>10. db'.types = db.types /\ db'.sensors = db.sensors
  BY <1>8, TablesApart DEF Tables
<1>11. /\ v \in Views
       /\ ListMatches(v, db') /\ TreeMatches(v, db') /\ MarksMatch(v, db')
       /\ SignalsMatch(v, db') /\ StaleMarks(v) /\ KindsAgree(v, db') /\ PanelIsShown(v)
  <2> HIDE DEF shown
  <2> QED
    BY <1>1, <1>8, <1>9, ModulesEdited
<1> DEFINE u == VisibilityUpdated(v, m)
<1> HIDE DEF v
<1>12. /\ u \in Views
       /\ ListMatches(u, db') /\ TreeMatches(u, db') /\ MarksMatch(u, db')
       /\ SignalsMatch(u, db') /\ StaleMarks(u) /\ KindsAgree(u, db') /\ PanelIsShown(u)
  BY <1>11, VisibilityIsApart
<1>13. view' \in SourcesRefreshed(u, db')
  BY <1>7
<1> HIDE DEF u
<1>14. ViewInv(view', db')
  BY <1>8, <1>12, <1>13, SourcesRefreshedMatches
<1>15. CatalogueInv(catalogue', db', open')
  BY <1>1, <1>10, CatalogueFrame DEF TogglesModule
<1> QED
  BY <1>8, <1>14, <1>15, EditCounts DEF Kept, TogglesModule

\* The channels that load() will find do not depend on the settings of modules.
LEMMA SettingsKeepSources ==
  ASSUME NEW d, SchemaHolds(d), NEW c, NEW m, NEW settings, NEW x
  PROVE  TagSources(UpdateConfigModuleSettings(d, c, m, settings), x) = TagSources(d, x)
<1> DEFINE new(q) == [q EXCEPT !["settings"] = settings]
           here(q) == q.configuration = c /\ q.module = m
           all == {IF here(q) THEN new(q) ELSE q : q \in d.modules}
           e == UpdateConfigModuleSettings(d, c, m, settings)
<1>1. d.modules \subseteq ModuleRows /\ RowsAreTyped(d)
  BY DEF SchemaHolds, RowsAreTyped
<1>2. e.modules = all /\ e.tags = d.tags
  <2>1. "modules" \in Tables
    BY DEF Tables
  <2>2. Rewrites(d, e, "modules", all)
    BY DEF UpdateConfigModuleSettings, UpdateConfigModule, Rewrites
  <2> HIDE DEF all, e
  <2>3. e.modules = all /\ OnlyTable(d, e, "modules")
    BY <1>1, <2>1, <2>2, RewriteKeepsTables
  <2> QED
    BY <2>3, TablesApart DEF Tables
<1>3. \A q \in ModuleRows : /\ new(q).module = q.module /\ new(q).active = q.active
                            /\ new(q).configuration = q.configuration
  BY DEF ModuleRows
<1> HIDE DEF e
<1>4. \A t : (\E k \in ActiveModules(e, x) : k.module = t.module)
               <=> (\E k \in ActiveModules(d, x) : k.module = t.module)
  <2> TAKE t
  <2> HIDE DEF new
  <2>1. ASSUME NEW k \in ActiveModules(e, x), k.module = t.module
        PROVE  \E l \in ActiveModules(d, x) : l.module = t.module
    <3>1. k \in all /\ k.configuration = x /\ k.active
      BY <1>2 DEF ActiveModules, ModulesOf
    <3>2. PICK q \in d.modules : k = IF here(q) THEN new(q) ELSE q
      BY <3>1
    <3>3. q.configuration = x /\ q.active /\ q.module = t.module
      BY <1>1, <1>3, <2>1, <3>1, <3>2
    <3> QED
      BY <3>3 DEF ActiveModules, ModulesOf
  <2>2. ASSUME NEW q \in ActiveModules(d, x), q.module = t.module
        PROVE  \E l \in ActiveModules(e, x) : l.module = t.module
    <3>1. q \in d.modules /\ q.configuration = x /\ q.active
      BY DEF ActiveModules, ModulesOf
    <3> DEFINE k == IF here(q) THEN new(q) ELSE q
    <3>2. k \in all
      BY <3>1
    <3>3. k.configuration = x /\ k.active /\ k.module = t.module
      BY <1>1, <1>3, <2>2, <3>1
    <3> HIDE DEF k, all
    <3> QED
      BY <1>2, <3>2, <3>3 DEF ActiveModules, ModulesOf
  <2> QED
    BY <2>1, <2>2
<1>5. ActiveTags(e, x) = ActiveTags(d, x)
  BY <1>2, <1>4 DEF ActiveTags, TagsOf
<1> QED
  BY <1>5 DEF TagSources, e

LEMMA ChangesModuleKeeps ==
  ASSUME Kept, NEW m \in Modules, NEW key, NEW value, ChangesModule(m, key, value),
         \/ key = "rate" /\ value \in ChannelRates
         \/ key = "mode" /\ value \in {0, 1}
  PROVE  Kept'
<1> DEFINE c == view.tree.configuration
<1>1. SchemaHolds(db) /\ ViewInv(view, db) /\ CatalogueInv(catalogue, db, open)
  BY DEF Kept
<1>2. PICK r \in ModuleShown(m) :
        /\ db' = UpdateConfigModuleSettings(db, c, m, NewSettings(r.settings, key, value))
        /\ LET changed == [view EXCEPT !.tree.modules =
                  (@ \ {r}) \cup {[r EXCEPT !.settings = NewSettings(r.settings, key, value)]}]
           IN view' \in {VisibilityUpdated(changed, m), changed}
  BY DEF ChangesModule
<1> DEFINE settings == NewSettings(r.settings, key, value)
           new == [r EXCEPT !["settings"] = settings]
           shown == (view.tree.modules \ {r}) \cup {new}
           v == [view EXCEPT !.tree.modules = shown]
<1>3. view.tree.modules \in SUBSET ModuleRows
  BY <1>1 DEF ViewInv, Views, Trees
<1>4. r \in view.tree.modules /\ r.module = m
  BY DEF ModuleShown
<1>5. settings \in ModuleSettings
  <2>1. r.settings \in ModuleSettings
    BY <1>3, <1>4 DEF ModuleRows
  <2>2. CASE key = "rate" /\ value \in ChannelRates
    BY <2>1, <2>2 DEF NewSettings, ModuleSettings
  <2>3. CASE key = "mode" /\ value \in {0, 1}
    BY <2>1, <2>3 DEF NewSettings, ModuleSettings
  <2> QED
    BY <2>2, <2>3
<1> HIDE DEF settings
<1>6. db' = UpdateConfigModule(db, c, m, "settings", settings)
  BY <1>2 DEF UpdateConfigModuleSettings, settings
<1>7. view' \in {VisibilityUpdated(v, m), v}
  BY <1>2 DEF settings
<1>8. /\ SchemaHolds(db') /\ OnlyTable(db, db', "modules") /\ new \in ModuleRows
      /\ view.tree.modules = ModulesOf(db, c) => shown = ModulesOf(db', c)
  <2> HIDE DEF c
  <2> QED
    BY <1>1, <1>3, <1>4, <1>5, <1>6, ModuleRewritten
<1>9. shown \in SUBSET ModuleRows
  BY <1>3, <1>8
<1>10. db'.types = db.types /\ db'.sensors = db.sensors
  BY <1>8, TablesApart DEF Tables
<1>11. TagSources(db', view.current) = TagSources(db, view.current)
  BY <1>1, <1>2, SettingsKeepSources
<1>12. /\ v \in Views
       /\ ListMatches(v, db') /\ TreeMatches(v, db') /\ MarksMatch(v, db')
       /\ SignalsMatch(v, db') /\ StaleMarks(v) /\ KindsAgree(v, db') /\ PanelIsShown(v)
       /\ v.sources = view.sources /\ v.current = view.current /\ v.stale = view.stale
  <2> HIDE DEF shown
  <2> QED
    BY <1>1, <1>8, <1>9, ModulesEdited
<1> HIDE DEF v
<1>13. /\ view' \in Views
       /\ ListMatches(view', db') /\ TreeMatches(view', db') /\ MarksMatch(view', db')
       /\ SignalsMatch(view', db') /\ StaleMarks(view') /\ KindsAgree(view', db')
       /\ PanelIsShown(view') /\ view'.sources = view.sources
       /\ view'.current = view.current /\ view'.stale = view.stale
  <2>1. CASE view' = v
    BY <1>12, <2>1
  <2>2. CASE view' = VisibilityUpdated(v, m)
    BY <1>12, <2>2, VisibilityIsApart
  <2> QED
    BY <1>7, <2>1, <2>2
<1>14. ViewInv(view', db')
  BY <1>1, <1>11, <1>13 DEF ViewInv, SourcesMatch
<1>15. CatalogueInv(catalogue', db', open')
  BY <1>1, <1>10, CatalogueFrame DEF ChangesModule
<1> QED
  BY <1>8, <1>14, <1>15, EditCounts DEF Kept, ChangesModule

\* The channels of the tree.
LEMMA ChecksChannelKeeps ==
  ASSUME Kept, NEW m \in Modules, NEW channel \in Channels, ChecksChannel(m, channel)
  PROVE  Kept'
<1> DEFINE c == view.tree.configuration
           tag == NewTag(db, c, m, channel)
           shown == view.tree.tags \cup {tag}
           v == [view EXCEPT !.tree.tags = shown]
<1>1. SchemaHolds(db) /\ ViewInv(view, db) /\ CatalogueInv(catalogue, db, open)
  BY DEF Kept
<1>2. /\ db' = AddConfigTag(db, c, m, channel) /\ CanAddConfigTag(db, c, m, channel)
      /\ view' \in SourcesRefreshed(v, db')
  BY DEF ChecksChannel
<1>3. SchemaHolds(db')
  <2> HIDE DEF c
  <2> QED
    BY <1>1, <1>2, AddConfigTagKeeps
<1>4. OnlyTable(db, db', "tags") /\ db'.tags = db.tags \cup {tag}
  <2>1. RowsAreTyped(db) /\ "tags" \in Tables
    BY <1>1 DEF SchemaHolds, Tables
  <2> HIDE DEF tag
  <2>2. db' = Inserted(db, "tags", tag)
    BY <1>2 DEF AddConfigTag, tag
  <2> QED
    BY <2>1, <2>2, InsertIsLocal
<1>5. db'.types = db.types /\ db'.sensors = db.sensors
  BY <1>4, TablesApart DEF Tables
<1>6. tag.configuration = c
  BY DEF NewTag
<1> HIDE DEF tag
<1>7. shown \in SUBSET TagRows
  BY <1>1, <1>3, <1>4 DEF ViewInv, Views, Trees, SchemaHolds, RowsAreTyped
<1>8. view.tree.tags = TagsOf(db, c) => shown = TagsOf(db', c)
  BY <1>4, <1>6 DEF TagsOf
<1>9. /\ v \in Views
      /\ ListMatches(v, db') /\ TreeMatches(v, db') /\ MarksMatch(v, db')
      /\ SignalsMatch(v, db') /\ StaleMarks(v) /\ KindsAgree(v, db') /\ PanelIsShown(v)
  <2> HIDE DEF shown
  <2> QED
    BY <1>1, <1>4, <1>7, <1>8, TagsEdited
<1> HIDE DEF v
<1>10. ViewInv(view', db')
  BY <1>2, <1>3, <1>9, SourcesRefreshedMatches
<1>11. CatalogueInv(catalogue', db', open')
  BY <1>1, <1>5, CatalogueFrame DEF ChecksChannel
<1> QED
  BY <1>3, <1>10, <1>11, EditCounts DEF Kept, ChecksChannel

\* A column of a channel's row, in the database and in the tree.
TagValue(column, value) ==
  \/ column = "active" /\ value \in BOOLEAN
  \/ column = "range" /\ value \in Ranges

LEMMA TagRewritten ==
  ASSUME NEW d, SchemaHolds(d), NEW column, NEW value, TagValue(column, value),
         NEW rows \in SUBSET TagRows, NEW t \in rows
  PROVE  LET e == [d EXCEPT !.tags = Updated(@, t.id, column, value)]
             new == [t EXCEPT ![column] = value]
         IN /\ SchemaHolds(e) /\ OnlyTable(d, e, "tags")
            /\ new \in TagRows
            /\ \A c : rows = TagsOf(d, c) => (rows \ {t}) \cup {new} = TagsOf(e, c)
<1> DEFINE new(q) == [q EXCEPT ![column] = value]
           all == {IF q.id = t.id THEN new(q) ELSE q : q \in d.tags}
           e == [d EXCEPT !.tags = Updated(@, t.id, column, value)]
<1>1. SchemaHolds(e)
  BY UpdateTagKeeps DEF TagValue
<1>2. OnlyTable(d, e, "tags") /\ e.tags = all
  <2>1. RowsAreTyped(d) /\ "tags" \in Tables
    BY DEF SchemaHolds, Tables
  <2>2. Rewrites(d, e, "tags", all)
    BY DEF Updated, Rewrites
  <2> HIDE DEF all, e
  <2> QED
    BY <2>1, <2>2, RewriteKeepsTables
<1>3. \A q \in TagRows : new(q) \in TagRows /\ new(q).configuration = q.configuration
  BY DEF TagRows, TagValue
<1>4. ASSUME NEW c, rows = TagsOf(d, c)
      PROVE  (rows \ {t}) \cup {new(t)} = TagsOf(e, c)
  <2>1. d.tags \subseteq TagRows
    BY DEF SchemaHolds, RowsAreTyped
  <2>2. t \in d.tags /\ t.configuration = c
    BY <1>4 DEF TagsOf
  <2>3. \A q \in d.tags : q.id = t.id => q = t
    BY <2>2 DEF SchemaHolds, KeysAreUnique, IdsAreKeys, Tables
  <2> HIDE DEF new, e
  <2>4. ASSUME NEW q \in (rows \ {t}) \cup {new(t)}
        PROVE  q \in all /\ q.configuration = c
    <3>1. CASE q \in rows \ {t}
      <4>1. q \in d.tags /\ q.configuration = c /\ q.id # t.id
        BY <1>4, <2>3, <3>1 DEF TagsOf
      <4> QED
        BY <4>1
    <3>2. CASE q = new(t)
      BY <1>3, <2>1, <2>2, <3>2
    <3> QED
      BY <3>1, <3>2
  <2>5. ASSUME NEW q \in all, q.configuration = c
        PROVE  q \in (rows \ {t}) \cup {new(t)}
    <3>1. PICK p \in d.tags : q = IF p.id = t.id THEN new(p) ELSE p
      OBVIOUS
    <3> HIDE DEF all
    <3>2. CASE p.id = t.id
      BY <2>3, <3>1, <3>2
    <3>3. CASE p.id # t.id
      BY <1>4, <2>2, <2>5, <3>1, <3>3 DEF TagsOf
    <3> QED
      BY <3>2, <3>3
  <2> HIDE DEF all
  <2> QED
    BY <1>2, <2>4, <2>5 DEF TagsOf
<1> HIDE DEF e
<1> QED
  BY <1>1, <1>2, <1>3, <1>4 DEF e

LEMMA TogglesChannelKeeps ==
  ASSUME Kept, NEW m \in Modules, NEW channel \in Channels, TogglesChannel(m, channel)
  PROVE  Kept'
<1> DEFINE c == view.tree.configuration
<1>1. SchemaHolds(db) /\ ViewInv(view, db) /\ CatalogueInv(catalogue, db, open)
  BY DEF Kept
<1>2. PICK t \in ChannelShown(m, channel) :
        /\ db' = SetConfigTagActive(db, t.id, ~t.active)
        /\ view' \in SourcesRefreshed(
                       [view EXCEPT !.tree.tags =
                          (@ \ {t}) \cup {[t EXCEPT !.active = ~@]}], db')
  BY DEF TogglesChannel
<1> DEFINE value == ~t.active
           new == [t EXCEPT !["active"] = value]
           shown == (view.tree.tags \ {t}) \cup {new}
           v == [view EXCEPT !.tree.tags = shown]
<1>3. view.tree.tags \in SUBSET TagRows
  BY <1>1 DEF ViewInv, Views, Trees
<1>4. t \in view.tree.tags
  BY DEF ChannelShown
<1>5. value \in BOOLEAN
  BY <1>3, <1>4 DEF TagRows
<1>6. db' = [db EXCEPT !.tags = Updated(@, t.id, "active", value)]
  BY <1>2 DEF SetConfigTagActive
<1>7. view' \in SourcesRefreshed(v, db')
  BY <1>2
<1>8. /\ SchemaHolds(db') /\ OnlyTable(db, db', "tags") /\ new \in TagRows
      /\ view.tree.tags = TagsOf(db, c) => shown = TagsOf(db', c)
  <2>1. TagValue("active", value)
    BY <1>5 DEF TagValue
  <2> HIDE DEF value, c
  <2> QED
    BY <1>1, <1>3, <1>4, <1>6, <2>1, TagRewritten
<1>9. shown \in SUBSET TagRows
  BY <1>3, <1>8
<1>10. db'.types = db.types /\ db'.sensors = db.sensors
  BY <1>8, TablesApart DEF Tables
<1>11. /\ v \in Views
       /\ ListMatches(v, db') /\ TreeMatches(v, db') /\ MarksMatch(v, db')
       /\ SignalsMatch(v, db') /\ StaleMarks(v) /\ KindsAgree(v, db') /\ PanelIsShown(v)
  <2> HIDE DEF shown
  <2> QED
    BY <1>1, <1>8, <1>9, TagsEdited
<1> HIDE DEF v
<1>12. ViewInv(view', db')
  BY <1>7, <1>8, <1>11, SourcesRefreshedMatches
<1>13. CatalogueInv(catalogue', db', open')
  BY <1>1, <1>10, CatalogueFrame DEF TogglesChannel
<1> QED
  BY <1>8, <1>12, <1>13, EditCounts DEF Kept, TogglesChannel

\* Nor do they depend on the settings of channels.
LEMMA RangeKeepsSources ==
  ASSUME NEW d, SchemaHolds(d), NEW i, NEW range, NEW x
  PROVE  TagSources(UpdateConfigTagSettings(d, i, range), x) = TagSources(d, x)
<1> DEFINE new(q) == [q EXCEPT !["range"] = range]
           all == {IF q.id = i THEN new(q) ELSE q : q \in d.tags}
           e == UpdateConfigTagSettings(d, i, range)
           counts(q) == /\ q.configuration = x /\ q.active
                        /\ \E k \in ActiveModules(d, x) : k.module = q.module
<1>1. d.tags \subseteq TagRows /\ RowsAreTyped(d)
  BY DEF SchemaHolds, RowsAreTyped
<1>2. e.tags = all /\ e.modules = d.modules
  <2>1. "tags" \in Tables
    BY DEF Tables
  <2>2. Rewrites(d, e, "tags", all)
    BY DEF UpdateConfigTagSettings, Updated, Rewrites
  <2> HIDE DEF all, e
  <2>3. e.tags = all /\ OnlyTable(d, e, "tags")
    BY <1>1, <2>1, <2>2, RewriteKeepsTables
  <2> QED
    BY <2>3, TablesApart DEF Tables
<1>3. \A q \in TagRows : /\ new(q).module = q.module /\ new(q).active = q.active
                         /\ new(q).configuration = q.configuration /\ new(q).id = q.id
  BY DEF TagRows
<1> HIDE DEF e, new
<1>4. /\ TagSources(e, x) = {q.id : q \in {r \in all : counts(r)}}
      /\ TagSources(d, x) = {q.id : q \in {r \in d.tags : counts(r)}}
  <2> HIDE DEF all
  <2> QED
    BY <1>2 DEF TagSources, ActiveTags, ActiveModules, ModulesOf, TagsOf, Ids
<1>5. \A q \in d.tags : counts(new(q)) <=> counts(q)
  BY <1>1, <1>3
<1> HIDE DEF counts
<1>6. \A p \in {r \in all : counts(r)} : \E q \in {r \in d.tags : counts(r)} : q.id = p.id
  BY <1>1, <1>3, <1>5
<1>7. \A q \in {r \in d.tags : counts(r)} : \E p \in {r \in all : counts(r)} : p.id = q.id
  <2> TAKE q \in {r \in d.tags : counts(r)}
  <2> DEFINE p == IF q.id = i THEN new(q) ELSE q
  <2>1. p \in all /\ counts(p) /\ p.id = q.id
    BY <1>1, <1>3, <1>5
  <2> QED
    BY <2>1
<1> HIDE DEF all
<1> QED
  BY <1>4, <1>6, <1>7 DEF e

LEMMA ChangesChannelKeeps ==
  ASSUME Kept, NEW m \in Modules, NEW channel \in Channels, NEW range \in Ranges,
         ChangesChannel(m, channel, range)
  PROVE  Kept'
<1> DEFINE c == view.tree.configuration
<1>1. SchemaHolds(db) /\ ViewInv(view, db) /\ CatalogueInv(catalogue, db, open)
  BY DEF Kept
<1>2. PICK t \in ChannelShown(m, channel) :
        /\ db' = UpdateConfigTagSettings(db, t.id, range)
        /\ view' = [view EXCEPT !.tree.tags = (@ \ {t}) \cup {[t EXCEPT !.range = range]}]
  BY DEF ChangesChannel
<1> DEFINE new == [t EXCEPT !["range"] = range]
           shown == (view.tree.tags \ {t}) \cup {new}
<1>3. view.tree.tags \in SUBSET TagRows
  BY <1>1 DEF ViewInv, Views, Trees
<1>4. t \in view.tree.tags
  BY DEF ChannelShown
<1>5. db' = [db EXCEPT !.tags = Updated(@, t.id, "range", range)]
  BY <1>2 DEF UpdateConfigTagSettings
<1>6. view' = [view EXCEPT !.tree.tags = shown]
  BY <1>2
<1>7. /\ SchemaHolds(db') /\ OnlyTable(db, db', "tags") /\ new \in TagRows
      /\ view.tree.tags = TagsOf(db, c) => shown = TagsOf(db', c)
  <2>1. TagValue("range", range)
    BY DEF TagValue
  <2> HIDE DEF c
  <2> QED
    BY <1>1, <1>3, <1>4, <1>5, <2>1, TagRewritten
<1>8. shown \in SUBSET TagRows
  BY <1>3, <1>7
<1>9. db'.types = db.types /\ db'.sensors = db.sensors
  BY <1>7, TablesApart DEF Tables
<1>10. TagSources(db', view.current) = TagSources(db, view.current)
  BY <1>1, <1>2, RangeKeepsSources
<1>11. /\ view' \in Views
       /\ ListMatches(view', db') /\ TreeMatches(view', db') /\ MarksMatch(view', db')
       /\ SignalsMatch(view', db') /\ StaleMarks(view') /\ KindsAgree(view', db')
       /\ PanelIsShown(view') /\ view'.sources = view.sources
       /\ view'.current = view.current /\ view'.stale = view.stale
  <2> HIDE DEF shown
  <2> QED
    BY <1>1, <1>6, <1>7, <1>8, TagsEdited
<1>12. ViewInv(view', db')
  BY <1>1, <1>10, <1>11 DEF ViewInv, SourcesMatch
<1>13. CatalogueInv(catalogue', db', open')
  BY <1>1, <1>9, CatalogueFrame DEF ChangesChannel
<1> QED
  BY <1>7, <1>12, <1>13, EditCounts DEF Kept, ChangesChannel

\* The list of signals.
LEMMA SelectSignalKeeps ==
  ASSUME Kept, NEW s, SelectSignal(s)
  PROVE  Kept'
<1>1. ViewInv(view, db) /\ view \in Views
  BY DEF Kept, ViewInv
<1>2. s \in view.signals.rows /\ view' = [view EXCEPT !.panel = s]
  BY DEF SelectSignal
<1>3. s \in SignalRows
  BY <1>1, <1>2 DEF Views, SignalLists
<1>4. /\ view' \in Views
      /\ view'.list = view.list /\ view'.current = view.current /\ view'.tree = view.tree
      /\ view'.signals = view.signals /\ view'.sources = view.sources
      /\ view'.panel = s /\ view'.stale = view.stale
  BY <1>1, <1>2, <1>3 DEF Views
<1>5. ViewInv(view', db)
  BY <1>1, <1>2, <1>4 DEF ViewInv, ListMatches, TreeMatches, MarksMatch, SignalsMatch,
       SourcesMatch, StaleMarks, KindsAgree, PanelIsShown
<1> QED
  BY <1>5 DEF Kept, SelectSignal

LEMMA CreatesSignalKeeps ==
  ASSUME Kept, NEW n \in Names, NEW kind \in {"Raw", "Calculated"}, CreatesSignal(n, kind)
  PROVE  Kept'
<1> DEFINE c == view.signals.configuration
           row == ShownNew(db, c, n, kind)
           shown == view.signals.rows \cup {row}
           w == [view EXCEPT !.signals.rows = shown, !.panel = row]
<1>1. /\ SchemaHolds(db) /\ ViewInv(view, db) /\ CatalogueInv(catalogue, db, open)
      /\ view \in Views
  BY DEF Kept, ViewInv
<1>2. /\ db' = CreateSignal(db, c, n, kind) /\ CanCreateSignal(db, c, n) /\ Edit
      /\ view' \in IF kind = "Raw" THEN MarksRefreshed(w, db') ELSE {w}
  BY DEF CreatesSignal
<1>3. SchemaHolds(db')
  <2>1. 10 \in ArchiveRates
    BY DatabaseAssumption
  <2> HIDE DEF c
  <2> QED
    BY <1>1, <1>2, <2>1, CreateSignalKeeps
<1>4. /\ OnlyTable(db, db', "signals") /\ db'.signals = db.signals \cup {row}
      /\ db'.next["signals"] = db.next["signals"] + 1
  <2>1. RowsAreTyped(db) /\ "signals" \in Tables
    BY <1>1 DEF SchemaHolds, Tables
  <2>2. db' = Inserted(db, "signals", row)
    BY <1>2 DEF CreateSignal, NewSignal, ShownNew
  <2> HIDE DEF row
  <2> QED
    BY <2>1, <2>2, InsertIsLocal
<1>5. db'.types = db.types /\ db'.sensors = db.sensors
  BY <1>4, TablesApart DEF Tables
<1>6. row.id = db.next["signals"] /\ row.configuration = c /\ row.kind = kind
  BY DEF ShownNew
<1> HIDE DEF row
<1>7. shown \in SUBSET SignalRows
  BY <1>1, <1>3, <1>4 DEF Views, SignalLists, SchemaHolds, RowsAreTyped
<1>8. view.signals.rows = SignalsOf(db, c) => shown = SignalsOf(db', c)
  BY <1>4, <1>6 DEF SignalsOf
<1>9. \A r \in shown :
        r.id < db'.next["signals"] /\ \A s \in db'.signals : s.id = r.id => s.kind = r.kind
  <2>1. db.next["signals"] \in Nat
    BY <1>1, TableFacts DEF Tables
  <2>2. \A s \in db.signals : s.id < db.next["signals"] /\ s.id \in Nat
    BY <1>1, TableFacts DEF Tables, IdsAreKeys
  <2>3. \A r \in view.signals.rows :
          /\ r.id < db.next["signals"] /\ r.id \in Nat
          /\ \A s \in db.signals : s.id = r.id => s.kind = r.kind
    BY <1>1 DEF ViewInv, KindsAgree, Views, SignalLists, SignalRows
  <2> QED
    BY <1>4, <1>6, <2>1, <2>2, <2>3
<1>10. row \in shown
  OBVIOUS
<1>11. /\ w \in Views
       /\ ListMatches(w, db') /\ TreeMatches(w, db') /\ SignalsMatch(w, db')
       /\ SourcesMatch(w, db') /\ StaleMarks(w) /\ KindsAgree(w, db') /\ PanelIsShown(w)
       /\ RawTags(db', view.current) = RawTags(db, view.current) => ViewInv(w, db')
  <2> HIDE DEF shown
  <2> QED
    BY <1>1, <1>4, <1>7, <1>8, <1>9, <1>10, SignalsEdited
<1>12. kind # "Raw" => RawTags(db', view.current) = RawTags(db, view.current)
  BY <1>4, <1>6 DEF RawTags, SignalsOf
<1> HIDE DEF w
<1>13. ViewInv(view', db')
  <2>1. CASE kind = "Raw"
    BY <1>2, <1>3, <1>11, <2>1, MarksRefreshedMatches
  <2>2. CASE kind # "Raw"
    BY <1>2, <1>11, <1>12, <2>2
  <2> QED
    BY <2>1, <2>2
<1>14. CatalogueInv(catalogue', db', open')
  BY <1>1, <1>5, CatalogueFrame DEF CreatesSignal
<1> QED
  BY <1>2, <1>3, <1>13, <1>14, EditCounts DEF Kept, CreatesSignal

LEMMA RemovesSignalKeeps ==
  ASSUME Kept, RemovesSignal
  PROVE  Kept'
<1> DEFINE i == view.panel.id
           kind == view.panel.kind
           c == view.signals.configuration
           shown == {r \in view.signals.rows : r.id # i}
<1>1. /\ SchemaHolds(db) /\ ViewInv(view, db) /\ CatalogueInv(catalogue, db, open)
      /\ view \in Views
  BY DEF Kept, ViewInv
<1>2. /\ db' = RemoveSignal(db, i) /\ Edit /\ view.panel # NoSignal
  BY DEF RemovesSignal, HasSelectedSignal
<1>3. SchemaHolds(db')
  BY <1>1, <1>2, RemoveSignalKeeps
<1>4. /\ OnlyTable(db, db', "signals") /\ db'.signals = {s \in db.signals : s.id # i}
      /\ db'.next["signals"] = db.next["signals"]
  <2> DEFINE rows == {s \in db.signals : s.id # i}
  <2>1. RowsAreTyped(db) /\ "signals" \in Tables
    BY <1>1 DEF SchemaHolds, Tables
  <2>2. Rewrites(db, db', "signals", rows)
    BY <1>2 DEF RemoveSignal, Rewrites
  <2> HIDE DEF rows
  <2>3. /\ OnlyTable(db, db', "signals") /\ db'.signals = rows
        /\ db'.next["signals"] = db.next["signals"]
    BY <2>1, <2>2, RewriteKeepsTables
  <2> QED
    BY <2>3 DEF rows
<1>5. db'.types = db.types /\ db'.sensors = db.sensors
  BY <1>4, TablesApart DEF Tables
<1>6. PICK next \in {r \in shown : r.kind = kind} \cup {NoSignal} :
        LET without == [view EXCEPT !.signals.rows = shown, !.panel = next]
        IN view' \in IF kind = "Raw" THEN MarksRefreshed(without, db') ELSE {without}
  BY DEF RemovesSignal
<1> DEFINE w == [view EXCEPT !.signals.rows = shown, !.panel = next]
<1>7. shown \in SUBSET SignalRows
  BY <1>1 DEF Views, SignalLists
<1>8. view.signals.rows = SignalsOf(db, c) => shown = SignalsOf(db', c)
  BY <1>4 DEF SignalsOf
<1>9. \A r \in shown :
        r.id < db'.next["signals"] /\ \A s \in db'.signals : s.id = r.id => s.kind = r.kind
  BY <1>1, <1>4 DEF ViewInv, KindsAgree
<1>10. next \in shown \cup {NoSignal}
  BY <1>6
<1>11. view.panel \in view.signals.rows
  BY <1>1, <1>2 DEF ViewInv, PanelIsShown
<1>12. kind # "Raw" => RawTags(db', view.current) = RawTags(db, view.current)
  <2>1. \A s \in db.signals : s.id = i => s.kind = kind
    BY <1>1, <1>11 DEF ViewInv, KindsAgree
  <2> QED
    BY <1>4, <2>1 DEF RawTags, SignalsOf
<1>13. /\ w \in Views
       /\ ListMatches(w, db') /\ TreeMatches(w, db') /\ SignalsMatch(w, db')
       /\ SourcesMatch(w, db') /\ StaleMarks(w) /\ KindsAgree(w, db') /\ PanelIsShown(w)
       /\ RawTags(db', view.current) = RawTags(db, view.current) => ViewInv(w, db')
  <2> HIDE DEF shown
  <2> QED
    BY <1>1, <1>4, <1>7, <1>8, <1>9, <1>10, SignalsEdited
<1>14. view' \in IF kind = "Raw" THEN MarksRefreshed(w, db') ELSE {w}
  BY <1>6
<1> HIDE DEF w
<1>15. ViewInv(view', db')
  <2>1. CASE kind = "Raw"
    BY <1>3, <1>13, <1>14, <2>1, MarksRefreshedMatches
  <2>2. CASE kind # "Raw"
    BY <1>12, <1>13, <1>14, <2>2
  <2> QED
    BY <2>1, <2>2
<1>16. CatalogueInv(catalogue', db', open')
  BY <1>1, <1>5, CatalogueFrame DEF RemovesSignal
<1> QED
  BY <1>2, <1>3, <1>15, <1>16, EditCounts DEF Kept, RemovesSignal

\* A property of the panel's signal, in the database, in the list and in the panel.
SignalValue(d, i, c, column, value) ==
  \/ /\ column = "name" /\ value \in Names
     /\ CanUpdateSignal(d, c, i, column, value)
  \/ column = "archiveRate" /\ value \in ArchiveRates
  \/ column = "formula" /\ value \in Formulas
  \/ column = "sensor" /\ value \in Nat
  \/ column = "tag" /\ CanUpdateSignalSource(d, c, i, value)

LEMMA SignalValueFits ==
  ASSUME NEW d, SchemaHolds(d), NEW i, NEW c, NEW column, NEW value,
         SignalValue(d, i, c, column, value), NEW s \in SignalRows
  PROVE  LET new == [s EXCEPT ![column] = value] IN
         /\ new \in SignalRows
         /\ new.id = s.id /\ new.kind = s.kind /\ new.configuration = s.configuration
         /\ column # "tag" => new.tag = s.tag
<1>1. CASE column = "name" /\ value \in Names
  BY <1>1 DEF SignalRows
<1>2. CASE column = "archiveRate" /\ value \in ArchiveRates
  BY <1>2 DEF SignalRows
<1>3. CASE column = "formula" /\ value \in Formulas
  BY <1>3 DEF SignalRows
<1>4. CASE column = "sensor" /\ value \in Nat
  BY <1>4 DEF SignalRows
<1>5. CASE column = "tag" /\ CanUpdateSignalSource(d, c, i, value)
  <2>1. d.tags \subseteq TagRows
    BY DEF SchemaHolds, RowsAreTyped
  <2>2. value \in Nat
    BY <1>5, <2>1 DEF CanUpdateSignalSource, Ids, TagsOf, TagRows, NoId
  <2> QED
    BY <1>5, <2>2 DEF SignalRows
<1> QED
  BY <1>1, <1>2, <1>3, <1>4, <1>5 DEF SignalValue

LEMMA SignalUpdated ==
  ASSUME NEW d, SchemaHolds(d), NEW i, NEW c, NEW column, NEW value,
         SignalValue(d, i, c, column, value)
  PROVE  LET e == UpdateSignal(d, i, column, value) IN
         /\ SchemaHolds(e) /\ OnlyTable(d, e, "signals")
         /\ e.next["signals"] = d.next["signals"]
         /\ e.signals = {IF s.id = i THEN [s EXCEPT ![column] = value] ELSE s : s \in d.signals}
<1> DEFINE all == {IF s.id = i THEN [s EXCEPT ![column] = value] ELSE s : s \in d.signals}
           e == UpdateSignal(d, i, column, value)
<1>1. SchemaHolds(e)
  BY UpdateSignalKeeps DEF SignalValue
<1>2. RowsAreTyped(d) /\ "signals" \in Tables
  BY DEF SchemaHolds, Tables
<1>3. Rewrites(d, e, "signals", all)
  BY DEF UpdateSignal, Updated, Rewrites
<1> HIDE DEF all, e
<1>4. /\ OnlyTable(d, e, "signals") /\ e.signals = all
      /\ e.next["signals"] = d.next["signals"]
  BY <1>2, <1>3, RewriteKeepsTables
<1> QED
  BY <1>1, <1>4 DEF e, all

LEMMA MeasuredTagsKept ==
  ASSUME NEW d, SchemaHolds(d), NEW i, NEW c, NEW column, NEW value,
         SignalValue(d, i, c, column, value), column # "tag", NEW x
  PROVE  RawTags(UpdateSignal(d, i, column, value), x) = RawTags(d, x)
<1> DEFINE e == UpdateSignal(d, i, column, value)
           new(s) == [s EXCEPT ![column] = value]
           all == {IF s.id = i THEN new(s) ELSE s : s \in d.signals}
           counts(s) == s.configuration = x /\ s.kind = "Raw"
<1>1. e.signals = all
  BY SignalUpdated
<1>2. \A s \in d.signals : s \in SignalRows
  BY DEF SchemaHolds, RowsAreTyped
<1>3. \A s \in d.signals :
        /\ new(s).kind = s.kind /\ new(s).configuration = s.configuration
        /\ new(s).tag = s.tag
  <2>1. \A s \in SignalRows :
          /\ new(s) \in SignalRows
          /\ new(s).id = s.id /\ new(s).kind = s.kind /\ new(s).configuration = s.configuration
          /\ column # "tag" => new(s).tag = s.tag
    BY SignalValueFits
  <2> QED
    BY <1>2, <2>1
<1> HIDE DEF e, new
<1>4. /\ RawTags(e, x) = {s.tag : s \in {r \in all : counts(r)}}
      /\ RawTags(d, x) = {s.tag : s \in {r \in d.signals : counts(r)}}
  <2> HIDE DEF all
  <2> QED
    BY <1>1 DEF RawTags, SignalsOf
<1>5. \A p \in {r \in all : counts(r)} : \E s \in {r \in d.signals : counts(r)} : s.tag = p.tag
  BY <1>3
<1>6. \A s \in {r \in d.signals : counts(r)} : \E p \in {r \in all : counts(r)} : p.tag = s.tag
  <2> TAKE s \in {r \in d.signals : counts(r)}
  <2> DEFINE p == IF s.id = i THEN new(s) ELSE s
  <2>1. p \in all /\ counts(p) /\ p.tag = s.tag
    BY <1>3
  <2> QED
    BY <2>1
<1> HIDE DEF all
<1> QED
  BY <1>4, <1>5, <1>6 DEF e

LEMMA SignalRewritten ==
  ASSUME NEW d, SchemaHolds(d), NEW v, ViewInv(v, d), v.panel # NoSignal,
         NEW c, NEW column, NEW value, SignalValue(d, v.panel.id, c, column, value)
  PROVE  LET e == UpdateSignal(d, v.panel.id, column, value)
             new == [v.panel EXCEPT ![column] = value]
             w == [v EXCEPT !.signals.rows = (@ \ {v.panel}) \cup {new}, !.panel = new]
         IN /\ w \in Views
            /\ ListMatches(w, e) /\ TreeMatches(w, e) /\ SignalsMatch(w, e)
            /\ SourcesMatch(w, e) /\ StaleMarks(w) /\ KindsAgree(w, e) /\ PanelIsShown(w)
            /\ column # "tag" => ViewInv(w, e)
<1> DEFINE i == v.panel.id
           x == v.signals.configuration
           e == UpdateSignal(d, i, column, value)
           new(s) == [s EXCEPT ![column] = value]
           all == {IF s.id = i THEN new(s) ELSE s : s \in d.signals}
           shown == (v.signals.rows \ {v.panel}) \cup {new(v.panel)}
           w == [v EXCEPT !.signals.rows = shown, !.panel = new(v.panel)]
<1>1. /\ SchemaHolds(e) /\ OnlyTable(d, e, "signals")
      /\ e.next["signals"] = d.next["signals"] /\ e.signals = all
  <2> HIDE DEF i
  <2> QED
    BY SignalUpdated DEF i
<1>2. v.panel \in v.signals.rows /\ v.signals.rows \subseteq SignalRows
  BY DEF ViewInv, PanelIsShown, Views, SignalLists
<1>3. \A s \in SignalRows :
        /\ new(s) \in SignalRows /\ new(s).id = s.id /\ new(s).kind = s.kind
        /\ new(s).configuration = s.configuration
  <2> HIDE DEF i
  <2> QED
    BY SignalValueFits DEF i
<1>4. d.signals \subseteq SignalRows
  BY DEF SchemaHolds, RowsAreTyped
<1> HIDE DEF new, e
<1>5. shown \in SUBSET SignalRows
  BY <1>2, <1>3
<1>6. ASSUME v.signals.rows = SignalsOf(d, x)
      PROVE  shown = SignalsOf(e, x)
  <2>1. v.panel \in d.signals /\ v.panel.configuration = x
    BY <1>2, <1>6 DEF SignalsOf
  <2>2. \A s \in d.signals : s.id = i => s = v.panel
    BY <2>1 DEF SchemaHolds, KeysAreUnique, IdsAreKeys, Tables
  <2>3. ASSUME NEW s \in shown
        PROVE  s \in all /\ s.configuration = x
    <3>1. CASE s \in v.signals.rows \ {v.panel}
      <4>1. s \in d.signals /\ s.configuration = x /\ s.id # i
        BY <1>6, <2>2, <3>1 DEF SignalsOf
      <4> QED
        BY <4>1
    <3>2. CASE s = new(v.panel)
      BY <1>3, <1>4, <2>1, <3>2
    <3> QED
      BY <3>1, <3>2
  <2>4. ASSUME NEW s \in all, s.configuration = x
        PROVE  s \in shown
    <3>1. PICK p \in d.signals : s = IF p.id = i THEN new(p) ELSE p
      OBVIOUS
    <3> HIDE DEF all
    <3>2. CASE p.id = i
      BY <2>2, <3>1, <3>2
    <3>3. CASE p.id # i
      BY <1>6, <2>4, <3>1, <3>3 DEF SignalsOf
    <3> QED
      BY <3>2, <3>3
  <2> HIDE DEF all, shown
  <2> QED
    BY <1>1, <2>3, <2>4 DEF SignalsOf
<1>7. \A r \in shown :
        r.id < e.next["signals"] /\ \A s \in e.signals : s.id = r.id => s.kind = r.kind
  <2>1. \A r \in v.signals.rows :
          r.id < d.next["signals"] /\ \A s \in d.signals : s.id = r.id => s.kind = r.kind
    BY DEF ViewInv, KindsAgree
  <2>2. \A s \in all : \E p \in d.signals : p.id = s.id /\ p.kind = s.kind
    BY <1>3, <1>4
  <2>3. \A r \in shown : \E q \in v.signals.rows : q.id = r.id /\ q.kind = r.kind
    BY <1>2, <1>3
  <2> HIDE DEF all, shown
  <2> QED
    BY <1>1, <2>1, <2>2, <2>3
<1>8. new(v.panel) \in shown \cup {NoSignal}
  OBVIOUS
<1>9. /\ w \in Views
      /\ ListMatches(w, e) /\ TreeMatches(w, e) /\ SignalsMatch(w, e)
      /\ SourcesMatch(w, e) /\ StaleMarks(w) /\ KindsAgree(w, e) /\ PanelIsShown(w)
      /\ RawTags(e, v.current) = RawTags(d, v.current) => ViewInv(w, e)
  <2> HIDE DEF shown
  <2> QED
    BY <1>1, <1>5, <1>6, <1>7, <1>8, SignalsEdited
<1>10. column # "tag" => RawTags(e, v.current) = RawTags(d, v.current)
  <2> HIDE DEF i
  <2> QED
    BY MeasuredTagsKept DEF i, e
<1> HIDE DEF w
<1> QED
  BY <1>9, <1>10 DEF w, e, new

LEMMA ChangesSignalKeeps ==
  ASSUME Kept, NEW column, NEW value, ChangesSignal(column, value),
         \/ column = "name" /\ value \in Names
         \/ column = "archiveRate" /\ value \in ArchiveRates
         \/ column = "formula" /\ value \in Formulas
         \/ column = "sensor" /\ value \in Nat
  PROVE  Kept'
<1> DEFINE i == view.panel.id
           c == view.signals.configuration
           new == [view.panel EXCEPT ![column] = value]
           w == [view EXCEPT !.signals.rows = (@ \ {view.panel}) \cup {new}, !.panel = new]
<1>1. SchemaHolds(db) /\ ViewInv(view, db) /\ CatalogueInv(catalogue, db, open)
  BY DEF Kept
<1>2. /\ db' = UpdateSignal(db, i, column, value) /\ view' = w
      /\ view.panel # NoSignal /\ CanUpdateSignal(db, c, i, column, value)
  BY DEF ChangesSignal, Rewritten
<1>3. SignalValue(db, i, c, column, value) /\ column # "tag"
  BY <1>2 DEF SignalValue
<1>4. SchemaHolds(db') /\ OnlyTable(db, db', "signals")
  <2> HIDE DEF i, c
  <2> QED
    BY <1>1, <1>2, <1>3, SignalUpdated
<1>5. db'.types = db.types /\ db'.sensors = db.sensors
  BY <1>4, TablesApart DEF Tables
<1>6. ViewInv(view', db')
  <2>1. ViewInv(w, UpdateSignal(db, i, column, value))
    <3> HIDE DEF c
    <3> QED
      BY <1>1, <1>2, <1>3, SignalRewritten
  <2> HIDE DEF w
  <2> QED
    BY <1>2, <2>1
<1>7. CatalogueInv(catalogue', db', open')
  BY <1>1, <1>5, CatalogueFrame DEF ChangesSignal
<1> QED
  BY <1>4, <1>6, <1>7, EditCounts DEF Kept, ChangesSignal

LEMMA ChangesSourceKeeps ==
  ASSUME Kept, NEW tag, ChangesSource(tag)
  PROVE  Kept'
<1> DEFINE i == view.panel.id
           c == view.signals.configuration
           new == [view.panel EXCEPT !["tag"] = tag]
           w == [view EXCEPT !.signals.rows = (@ \ {view.panel}) \cup {new}, !.panel = new]
<1>1. SchemaHolds(db) /\ ViewInv(view, db) /\ CatalogueInv(catalogue, db, open)
  BY DEF Kept
<1>2. /\ db' = UpdateSignal(db, i, "tag", tag) /\ view' \in MarksRefreshed(w, db')
      /\ view.panel # NoSignal /\ CanUpdateSignalSource(db, c, i, tag)
  BY DEF ChangesSource, Rewritten
<1>3. SignalValue(db, i, c, "tag", tag)
  BY <1>2 DEF SignalValue
<1>4. SchemaHolds(db') /\ OnlyTable(db, db', "signals")
  <2> HIDE DEF i, c
  <2> QED
    BY <1>1, <1>2, <1>3, SignalUpdated
<1>5. db'.types = db.types /\ db'.sensors = db.sensors
  BY <1>4, TablesApart DEF Tables
<1>6. /\ w \in Views
      /\ ListMatches(w, db') /\ TreeMatches(w, db') /\ SignalsMatch(w, db')
      /\ SourcesMatch(w, db') /\ StaleMarks(w) /\ KindsAgree(w, db') /\ PanelIsShown(w)
  <2> HIDE DEF c
  <2> QED
    BY <1>1, <1>2, <1>3, SignalRewritten
<1> HIDE DEF w
<1>7. ViewInv(view', db')
  BY <1>2, <1>4, <1>6, MarksRefreshedMatches
<1>8. CatalogueInv(catalogue', db', open')
  BY <1>1, <1>5, CatalogueFrame DEF ChangesSource
<1> QED
  BY <1>4, <1>7, <1>8, EditCounts DEF Kept, ChangesSource

-----------------------------------------------------------------------------
(* The catalogue. *)

LEMMA CreatesTypeKeeps ==
  ASSUME Kept, NEW n \in Names, CreatesType(n)
  PROVE  Kept'
<1> DEFINE row == NewSensorType(db, n)
<1>1. SchemaHolds(db) /\ ViewInv(view, db) /\ CatalogueInv(catalogue, db, open)
  BY DEF Kept
<1>2. /\ db' = Inserted(db, "types", row)
      /\ catalogue' = [catalogue EXCEPT !.types = @ \cup {row}]
      /\ view' = view /\ open' = open /\ Edit
  BY DEF CreatesType, CreateSensorType
<1>3. SchemaHolds(db')
  BY <1>1, CreateSensorTypeKeeps DEF CreatesType
<1>4. OnlyTable(db, db', "types") /\ db'.types = db.types \cup {row}
  <2>1. RowsAreTyped(db) /\ "types" \in Tables
    BY <1>1 DEF SchemaHolds, Tables
  <2> HIDE DEF row
  <2> QED
    BY <1>2, <2>1, InsertIsLocal
<1>5. db'.sensors = db.sensors /\ SameForViews(db, db')
  BY <1>4, TablesApart DEF Tables
<1>6. row \in TypeRows
  BY <1>3, <1>4 DEF SchemaHolds, RowsAreTyped
<1> HIDE DEF row
<1>7. CatalogueInv(catalogue', db', open')
  BY <1>1, <1>2, <1>4, <1>5, <1>6 DEF CatalogueInv, Catalogues
<1>8. ViewInv(view', db')
  BY <1>1, <1>2, <1>5, ViewFrame
<1> QED
  BY <1>2, <1>3, <1>7, <1>8, EditCounts DEF Kept

LEMMA ChangesTypeKeeps ==
  ASSUME Kept, NEW t, NEW column, NEW value, ChangesType(t, column, value),
         \/ column = "name" /\ value \in Names
         \/ column = "kind" /\ value \in Kinds
  PROVE  Kept'
<1> DEFINE new == [t EXCEPT ![column] = value]
           all == {IF u.id = new.id THEN new ELSE u : u \in db.types}
<1>1. SchemaHolds(db) /\ ViewInv(view, db) /\ CatalogueInv(catalogue, db, open)
  BY DEF Kept
<1>2. /\ db' = UpdateSensorType(db, new) /\ t \in catalogue.types
      /\ catalogue' = [catalogue EXCEPT !.types = (@ \ {t}) \cup {new}]
      /\ view' = view /\ open' = open /\ Edit
  BY DEF ChangesType
<1>3. t \in db.types /\ t \in TypeRows
  BY <1>1, <1>2 DEF CatalogueInv, Catalogues
<1>4. new \in TypeRows /\ new.id = t.id
  BY <1>3 DEF TypeRows
<1> HIDE DEF new
<1>5. SchemaHolds(db')
  BY <1>1, <1>2, <1>4, UpdateSensorTypeKeeps
<1>6. OnlyTable(db, db', "types") /\ db'.types = all
  <2>1. RowsAreTyped(db) /\ "types" \in Tables
    BY <1>1 DEF SchemaHolds, Tables
  <2>2. Rewrites(db, db', "types", all)
    BY <1>2 DEF UpdateSensorType, Rewrites
  <2> HIDE DEF all
  <2> QED
    BY <2>1, <2>2, RewriteKeepsTables
<1>7. db'.sensors = db.sensors /\ SameForViews(db, db')
  BY <1>6, TablesApart DEF Tables
<1>8. \A u \in db.types : u.id = t.id => u = t
  BY <1>1, <1>3 DEF SchemaHolds, KeysAreUnique, IdsAreKeys, Tables
<1>9. all = (db.types \ {t}) \cup {new}
  BY <1>3, <1>4, <1>8
<1> HIDE DEF all
<1>10. CatalogueInv(catalogue', db', open')
  BY <1>1, <1>2, <1>4, <1>6, <1>7, <1>9 DEF CatalogueInv, Catalogues
<1>11. ViewInv(view', db')
  BY <1>1, <1>2, <1>7, ViewFrame
<1> QED
  BY <1>2, <1>5, <1>10, <1>11, EditCounts DEF Kept

LEMMA RemovesTypeKeeps ==
  ASSUME Kept, NEW t, RemovesType(t)
  PROVE  Kept'
<1> DEFINE all == {u \in db.types : u.id # t.id}
<1>1. SchemaHolds(db) /\ ViewInv(view, db) /\ CatalogueInv(catalogue, db, open)
  BY DEF Kept
<1>2. /\ db' = RemoveSensorType(db, t.id) /\ t \in catalogue.types
      /\ catalogue' = [catalogue EXCEPT !.types = @ \ {t}]
      /\ view' = view /\ open' = open /\ Edit
  BY DEF RemovesType
<1>3. SchemaHolds(db')
  BY <1>1, <1>2, RemoveSensorTypeKeeps
<1>4. OnlyTable(db, db', "types") /\ db'.types = all
  <2>1. RowsAreTyped(db) /\ "types" \in Tables
    BY <1>1 DEF SchemaHolds, Tables
  <2>2. Rewrites(db, db', "types", all)
    BY <1>2 DEF RemoveSensorType, Rewrites
  <2> HIDE DEF all
  <2> QED
    BY <2>1, <2>2, RewriteKeepsTables
<1>5. db'.sensors = db.sensors /\ SameForViews(db, db')
  BY <1>4, TablesApart DEF Tables
<1>6. t \in db.types
  BY <1>1, <1>2 DEF CatalogueInv
<1>7. \A u \in db.types : u.id = t.id => u = t
  BY <1>1, <1>6 DEF SchemaHolds, KeysAreUnique, IdsAreKeys, Tables
<1>8. all = db.types \ {t}
  BY <1>7
<1> HIDE DEF all
<1>9. CatalogueInv(catalogue', db', open')
  BY <1>1, <1>2, <1>4, <1>5, <1>8 DEF CatalogueInv, Catalogues
<1>10. ViewInv(view', db')
  BY <1>1, <1>2, <1>5, ViewFrame
<1> QED
  BY <1>2, <1>3, <1>9, <1>10, EditCounts DEF Kept

LEMMA CreatesSensorKeeps ==
  ASSUME Kept, NEW n \in Names, NEW type, CreatesSensor(n, type)
  PROVE  Kept'
<1> DEFINE row == NewSensor(db, n, type)
<1>1. SchemaHolds(db) /\ ViewInv(view, db) /\ CatalogueInv(catalogue, db, open)
  BY DEF Kept
<1>2. /\ db' = Inserted(db, "sensors", row) /\ CanCreateSensor(db, type)
      /\ catalogue' = [catalogue EXCEPT !.sensors = @ \cup {row}]
      /\ view' = view /\ open' = open /\ Edit
  BY DEF CreatesSensor, CreateSensor
<1>3. SchemaHolds(db')
  BY <1>1, <1>2, CreateSensorKeeps DEF CreatesSensor
<1>4. OnlyTable(db, db', "sensors") /\ db'.sensors = db.sensors \cup {row}
  <2>1. RowsAreTyped(db) /\ "sensors" \in Tables
    BY <1>1 DEF SchemaHolds, Tables
  <2> HIDE DEF row
  <2> QED
    BY <1>2, <2>1, InsertIsLocal
<1>5. db'.types = db.types /\ SameForViews(db, db')
  BY <1>4, TablesApart DEF Tables
<1>6. row \in SensorRows
  BY <1>3, <1>4 DEF SchemaHolds, RowsAreTyped
<1> HIDE DEF row
<1>7. CatalogueInv(catalogue', db', open')
  BY <1>1, <1>2, <1>4, <1>5, <1>6 DEF CatalogueInv, Catalogues
<1>8. ViewInv(view', db')
  BY <1>1, <1>2, <1>5, ViewFrame
<1> QED
  BY <1>2, <1>3, <1>7, <1>8, EditCounts DEF Kept

LEMMA ChangesSensorKeeps ==
  ASSUME Kept, NEW s, NEW column, NEW value, ChangesSensor(s, column, value),
         \/ column = "name" /\ value \in Names
         \/ column = "type"
         \/ column = "mode" /\ value \in {"Own", "ByType"}
         \/ column = "kind" /\ value \in Kinds
  PROVE  Kept'
<1> DEFINE new == [s EXCEPT ![column] = value]
           all == {IF u.id = new.id THEN new ELSE u : u \in db.sensors}
<1>1. SchemaHolds(db) /\ ViewInv(view, db) /\ CatalogueInv(catalogue, db, open)
  BY DEF Kept
<1>2. /\ db' = UpdateSensor(db, new) /\ s \in catalogue.sensors
      /\ column = "type" => value \in Ids(catalogue.types)
      /\ catalogue' = [catalogue EXCEPT !.sensors = (@ \ {s}) \cup {new}]
      /\ view' = view /\ open' = open /\ Edit
  BY DEF ChangesSensor, OfferedTypes
<1>3. s \in db.sensors /\ s \in SensorRows
  BY <1>1, <1>2 DEF CatalogueInv, Catalogues
<1>4. column = "type" => value \in Nat
  BY <1>1, <1>2 DEF CatalogueInv, Catalogues, Ids, TypeRows
<1>5. new \in SensorRows /\ new.id = s.id
  <2>1. CASE column = "name" /\ value \in Names
    BY <1>3, <2>1 DEF SensorRows
  <2>2. CASE column = "type"
    BY <1>3, <1>4, <2>2 DEF SensorRows
  <2>3. CASE column = "mode" /\ value \in {"Own", "ByType"}
    BY <1>3, <2>3 DEF SensorRows
  <2>4. CASE column = "kind" /\ value \in Kinds
    BY <1>3, <2>4 DEF SensorRows
  <2> QED
    BY <2>1, <2>2, <2>3, <2>4
<1> HIDE DEF new
<1>6. SchemaHolds(db')
  BY <1>1, <1>2, <1>5, UpdateSensorKeeps
<1>7. OnlyTable(db, db', "sensors") /\ db'.sensors = all
  <2>1. RowsAreTyped(db) /\ "sensors" \in Tables
    BY <1>1 DEF SchemaHolds, Tables
  <2>2. Rewrites(db, db', "sensors", all)
    BY <1>2 DEF UpdateSensor, Rewrites
  <2> HIDE DEF all
  <2> QED
    BY <2>1, <2>2, RewriteKeepsTables
<1>8. db'.types = db.types /\ SameForViews(db, db')
  BY <1>7, TablesApart DEF Tables
<1>9. \A u \in db.sensors : u.id = s.id => u = s
  BY <1>1, <1>3 DEF SchemaHolds, KeysAreUnique, IdsAreKeys, Tables
<1>10. all = (db.sensors \ {s}) \cup {new}
  BY <1>3, <1>5, <1>9
<1> HIDE DEF all
<1>11. CatalogueInv(catalogue', db', open')
  BY <1>1, <1>2, <1>5, <1>7, <1>8, <1>10 DEF CatalogueInv, Catalogues
<1>12. ViewInv(view', db')
  BY <1>1, <1>2, <1>8, ViewFrame
<1> QED
  BY <1>2, <1>6, <1>11, <1>12, EditCounts DEF Kept

LEMMA RemovesSensorKeeps ==
  ASSUME Kept, NEW s, RemovesSensor(s)
  PROVE  Kept'
<1> DEFINE all == {u \in db.sensors : u.id # s.id}
<1>1. SchemaHolds(db) /\ ViewInv(view, db) /\ CatalogueInv(catalogue, db, open)
  BY DEF Kept
<1>2. /\ db' = RemoveSensor(db, s.id) /\ s \in catalogue.sensors
      /\ catalogue' = [catalogue EXCEPT !.sensors = @ \ {s}]
      /\ view' = view /\ open' = open /\ Edit
  BY DEF RemovesSensor
<1>3. SchemaHolds(db')
  BY <1>1, <1>2, RemoveSensorKeeps
<1>4. OnlyTable(db, db', "sensors") /\ db'.sensors = all
  <2>1. RowsAreTyped(db) /\ "sensors" \in Tables
    BY <1>1 DEF SchemaHolds, Tables
  <2>2. Rewrites(db, db', "sensors", all)
    BY <1>2 DEF RemoveSensor, Rewrites
  <2> HIDE DEF all
  <2> QED
    BY <2>1, <2>2, RewriteKeepsTables
<1>5. db'.types = db.types /\ SameForViews(db, db')
  BY <1>4, TablesApart DEF Tables
<1>6. s \in db.sensors
  BY <1>1, <1>2 DEF CatalogueInv
<1>7. \A u \in db.sensors : u.id = s.id => u = s
  BY <1>1, <1>6 DEF SchemaHolds, KeysAreUnique, IdsAreKeys, Tables
<1>8. all = db.sensors \ {s}
  BY <1>7
<1> HIDE DEF all
<1>9. CatalogueInv(catalogue', db', open')
  BY <1>1, <1>2, <1>4, <1>5, <1>8 DEF CatalogueInv, Catalogues
<1>10. ViewInv(view', db')
  BY <1>1, <1>2, <1>5, ViewFrame
<1> QED
  BY <1>2, <1>3, <1>9, <1>10, EditCounts DEF Kept

\* A calibration touches no other table, and the rows it writes are of its owner and
\* its kind.
LEMMA CalibrationSaved ==
  ASSUME Kept, NEW k, k.owner \in Owners, k.kind \in Kinds, SavesCalibration(k)
  PROVE  /\ SchemaHolds(db') /\ SameForViews(db, db')
         /\ db'.types = db.types /\ db'.sensors = db.sensors
         /\ db'.calibrations \ db.calibrations \subseteq CalibrationOf(db', k.owner, k.kind)
<1>1. SchemaHolds(db) /\ RowsAreTyped(db) /\ "calibrations" \in Tables
  BY DEF Kept, SchemaHolds, Tables
<1>2. PICK data \in CalibrationTables[k.kind] :
        \/ db' = CreateCalibration(db, k.owner, k.kind, data)
        \/ \E old \in CalibrationOf(db, k.owner, k.kind) :
             db' = UpdateCalibration(db, old.id, data)
  BY DEF SavesCalibration
<1>3. CASE db' = CreateCalibration(db, k.owner, k.kind, data)
  <2> DEFINE row == [id |-> db.next["calibrations"], owner |-> k.owner, kind |-> k.kind,
                     data |-> data]
  <2>1. SchemaHolds(db')
    BY <1>1, <1>3, CreateCalibrationKeeps
  <2>2. db' = Inserted(db, "calibrations", row)
    BY <1>3 DEF CreateCalibration
  <2>3. row.owner = k.owner /\ row.kind = k.kind
    OBVIOUS
  <2> HIDE DEF row
  <2>4. OnlyTable(db, db', "calibrations") /\ db'.calibrations = db.calibrations \cup {row}
    BY <1>1, <2>2, InsertIsLocal
  <2>5. SameForViews(db, db') /\ db'.types = db.types /\ db'.sensors = db.sensors
    BY <2>4, TablesApart DEF Tables
  <2> QED
    BY <2>1, <2>3, <2>4, <2>5 DEF CalibrationOf
<1>4. CASE \E old \in CalibrationOf(db, k.owner, k.kind) :
             db' = UpdateCalibration(db, old.id, data)
  <2>1. PICK old \in CalibrationOf(db, k.owner, k.kind) :
          db' = UpdateCalibration(db, old.id, data)
    BY <1>4
  <2> DEFINE rows == Updated(db.calibrations, old.id, "data", data)
  <2>2. SchemaHolds(db')
    BY <1>1, <2>1, UpdateCalibrationKeeps
  <2>3. Rewrites(db, db', "calibrations", rows)
    BY <2>1 DEF UpdateCalibration, Rewrites
  <2>4. \A r \in rows \ db.calibrations : r.owner = k.owner /\ r.kind = k.kind
    <3> TAKE r \in rows \ db.calibrations
    <3>1. PICK q \in db.calibrations :
            q.id = old.id /\ r = [q EXCEPT !["data"] = data]
      BY DEF Updated
    <3>2. old \in db.calibrations /\ old.owner = k.owner /\ old.kind = k.kind
      BY DEF CalibrationOf
    <3>3. q = old
      BY <1>1, <3>1, <3>2 DEF SchemaHolds, KeysAreUnique, IdsAreKeys, Tables
    <3>4. r.owner = q.owner /\ r.kind = q.kind
      <4>1. IsCalibration(q)
        BY <1>1 DEF RowsAreTyped
      <4> QED
        BY <3>1, <4>1 DEF IsCalibration
    <3> QED
      BY <3>2, <3>3, <3>4
  <2> HIDE DEF rows
  <2>5. OnlyTable(db, db', "calibrations") /\ db'.calibrations = rows
    BY <1>1, <2>3, RewriteKeepsTables
  <2>6. SameForViews(db, db') /\ db'.types = db.types /\ db'.sensors = db.sensors
    BY <2>5, TablesApart DEF Tables
  <2> QED
    BY <2>2, <2>4, <2>5, <2>6 DEF CalibrationOf
<1> QED
  BY <1>2, <1>3, <1>4

LEMMA CalibratedFits ==
  ASSUME Kept
  PROVE  /\ \A t \in catalogue.types :
              CalibratedType(t).owner \in Owners /\ CalibratedType(t).kind \in Kinds
         /\ \A s \in catalogue.sensors : \A k \in CalibratedSensor(s) :
              k.owner \in Owners /\ k.kind \in Kinds
<1>1. catalogue.types \subseteq TypeRows /\ catalogue.sensors \subseteq SensorRows
  BY DEF Kept, CatalogueInv, Catalogues
<1>2. \A t \in catalogue.types :
        CalibratedType(t).owner \in Owners /\ CalibratedType(t).kind \in Kinds
  BY <1>1 DEF CalibratedType, Owners, TypeRows
<1>3. ASSUME NEW s \in catalogue.sensors, NEW k \in CalibratedSensor(s)
      PROVE  k.owner \in Owners /\ k.kind \in Kinds
  <2>1. CASE s.mode = "Own"
    BY <1>1, <2>1 DEF CalibratedSensor, Owners, SensorRows
  <2>2. CASE s.mode # "Own"
    <3>1. PICK t \in catalogue.types : k = CalibratedType(t)
      BY <2>2 DEF CalibratedSensor
    <3> QED
      BY <1>2, <3>1
  <2> QED
    BY <2>1, <2>2
<1> QED
  BY <1>2, <1>3

LEMMA CalibratesKeeps ==
  ASSUME Kept, \/ \E t \in catalogue.types : CalibratesType(t)
               \/ \E s \in catalogue.sensors : CalibratesSensor(s)
  PROVE  Kept'
<1>1. /\ Edit /\ view' = view /\ catalogue' = catalogue /\ open' = open
      /\ \E k : k.owner \in Owners /\ k.kind \in Kinds /\ SavesCalibration(k)
  BY CalibratedFits DEF CalibratesType, CalibratesSensor
<1>2. /\ SchemaHolds(db') /\ SameForViews(db, db')
      /\ db'.types = db.types /\ db'.sensors = db.sensors
  BY <1>1, CalibrationSaved
<1>3. ViewInv(view', db')
  BY <1>1, <1>2, ViewFrame DEF Kept
<1>4. CatalogueInv(catalogue', db', open')
  BY <1>1, <1>2, CatalogueFrame DEF Kept
<1> QED
  BY <1>1, <1>2, <1>3, <1>4, EditCounts DEF Kept

-----------------------------------------------------------------------------
(* Starting and closing. *)

LEMMA EmptyMatches ==
  ASSUME NEW d, SchemaHolds(d)
  PROVE  /\ ViewInv(EmptyView, d) /\ EmptyView.current = NoId
         /\ CatalogueInv(EmptyCatalogue, d, FALSE)
<1>1. /\ TreeOf(EmptyDatabase, NoId) \in Trees
      /\ SignalListOf(EmptyDatabase, NoId) \in SignalLists
      /\ SignalListOf(EmptyDatabase, NoId).rows = {}
  BY DEF EmptyDatabase, TreeOf, SignalListOf, Trees, SignalLists, ModulesOf, TagsOf,
       RawTags, SignalsOf, NoId
<1>2. /\ EmptyView \in Views /\ EmptyView.list = {} /\ EmptyView.current = NoId
      /\ EmptyView.stale = {} /\ EmptyView.panel = NoSignal /\ EmptyView.signals.rows = {}
  BY <1>1 DEF EmptyView, Views, Parts, NoId
<1>3. ViewInv(EmptyView, d)
  BY <1>2 DEF ViewInv, ListMatches, TreeMatches, MarksMatch, SignalsMatch, SourcesMatch,
       StaleMarks, KindsAgree, PanelIsShown
<1>4. CatalogueInv(EmptyCatalogue, d, FALSE)
  BY DEF EmptyCatalogue, CatalogueInv, Catalogues
<1> QED
  BY <1>2, <1>3, <1>4

LEMMA OpenKeeps ==
  ASSUME Kept, Open
  PROVE  Kept'
<1>1. /\ SchemaHolds(db) /\ db' = db /\ edits' = edits /\ open' = TRUE
      /\ view' \in OpenedViews(db) /\ catalogue' \in OpenedCatalogues(db)
  BY DEF Kept, Open
<1>2. ViewInv(EmptyView, db) /\ EmptyView \in Views
  BY <1>1, EmptyMatches DEF ViewInv
<1>3. ViewInv(view', db)
  <2>1. CASE view' \in ConfigurationChanged(EmptyView, db)
    BY <1>1, <1>2, <2>1, ConfigurationChangedMatches DEF ViewInv
  <2>2. CASE \E c \in Chooseable(db) :
               view' \in ConfigurationChanged(Chosen(EmptyView, db, c), db)
    <3>1. PICK c \in Chooseable(db) :
            view' \in ConfigurationChanged(Chosen(EmptyView, db, c), db)
      BY <2>2
    <3>2. c \in Ids(db.configurations) \/ c = NoId
      BY DEF Chooseable
    <3> DEFINE v == Chosen(EmptyView, db, c)
    <3>3. v \in Views /\ ListMatches(v, db) /\ KindsAgree(v, db)
      BY <1>1, <1>2, <3>2, ChosenMatches DEF ViewInv
    <3> HIDE DEF v
    <3> QED
      BY <1>1, <3>1, <3>3, ConfigurationChangedMatches DEF v
  <2> QED
    BY <1>1, <2>1, <2>2 DEF OpenedViews
<1>4. CatalogueInv(catalogue', db, TRUE)
  <2>1. db.types \subseteq TypeRows /\ db.sensors \subseteq SensorRows
    BY <1>1 DEF SchemaHolds, RowsAreTyped
  <2>2. PICK t \in {db.types, {}}, s \in {db.sensors, {}} :
          catalogue' = [types |-> t, sensors |-> s, offered |-> Ids(db.sensors),
                        stale |-> t # db.types \/ s # db.sensors]
    BY <1>1 DEF OpenedCatalogues, LoadedTypes, LoadedSensors
  <2>3. Ids(db.sensors) \subseteq Nat
    BY <2>1 DEF Ids, SensorRows
  <2> DEFINE stale == t # db.types \/ s # db.sensors
  <2>4. stale \in BOOLEAN /\ (~stale => t = db.types /\ s = db.sensors)
    OBVIOUS
  <2>5. /\ catalogue'.types = t /\ catalogue'.sensors = s
        /\ catalogue'.stale = stale
    BY <2>2
  <2> HIDE DEF stale
  <2>6. catalogue' = [types |-> t, sensors |-> s, offered |-> Ids(db.sensors),
                      stale |-> stale]
    BY <2>2 DEF stale
  <2>7. catalogue' \in Catalogues
    BY <2>1, <2>3, <2>4, <2>6 DEF Catalogues
  <2> QED
    BY <2>4, <2>5, <2>7 DEF CatalogueInv
<1> QED
  BY <1>1, <1>3, <1>4 DEF Kept

LEMMA CloseKeeps ==
  ASSUME Kept, Close
  PROVE  Kept'
BY EmptyMatches DEF Kept, Close

-----------------------------------------------------------------------------
(* The invariant. *)

LEMMA InitHolds == Init => IInv
<1> SUFFICES ASSUME Init PROVE IInv
  OBVIOUS
<1>1. SchemaHolds(db) /\ view = EmptyView /\ catalogue = EmptyCatalogue /\ open = FALSE
  BY EditorAssumption DEF Init
<1>2. ViewInv(view, db) /\ CatalogueInv(catalogue, db, open)
  BY <1>1, EmptyMatches
<1>3. edits \in 0..MaxEdits /\ failures \in 0..MaxFailures
  BY EditorAssumption DEF Init
<1> QED
  BY <1>1, <1>2, <1>3 DEF IInv, Kept

LEMMA ActionKeeps ==
  ASSUME Kept, Action
  PROVE  Kept'
<1>0. catalogue.offered \subseteq Nat /\ NoId \in Nat
  BY DEF Kept, CatalogueInv, Catalogues, NoId
<1>1. CASE \E c \in Ids(view.list) : SelectConfiguration(c)
  BY <1>1, SelectConfigurationKeeps
<1>2. CASE \E n \in Names : AddsConfiguration(n) \/ EditsConfiguration(n)
  BY <1>2, AddsConfigurationKeeps, EditsConfigurationKeeps
<1>3. CASE RemovesConfiguration
  BY <1>3, RemovesConfigurationKeeps
<1>4. CASE \E m \in Modules : ChecksModule(m) \/ TogglesModule(m)
  BY <1>4, ChecksModuleKeeps, TogglesModuleKeeps
<1>5. CASE \E m \in Modules : \/ \E rate \in ChannelRates : ChangesModule(m, "rate", rate)
                              \/ \E mode \in {0, 1} : ChangesModule(m, "mode", mode)
  BY <1>5, ChangesModuleKeeps
<1>6. CASE \E m \in Modules : \E channel \in Channels :
             \/ ChecksChannel(m, channel)
             \/ TogglesChannel(m, channel)
             \/ \E range \in Ranges : ChangesChannel(m, channel, range)
  BY <1>6, ChecksChannelKeeps, TogglesChannelKeeps, ChangesChannelKeeps
<1>7. CASE \E s \in view.signals.rows : SelectSignal(s)
  BY <1>7, SelectSignalKeeps
<1>8. CASE \E n \in Names : \E kind \in {"Raw", "Calculated"} : CreatesSignal(n, kind)
  BY <1>8, CreatesSignalKeeps
<1>9. CASE RemovesSignal
  BY <1>9, RemovesSignalKeeps
<1>10. CASE \E n \in Names : RenamesSignal(n)
  BY <1>10, ChangesSignalKeeps DEF RenamesSignal
<1>11. CASE \E rate \in ArchiveRates : ChangesArchiveRate(rate)
  BY <1>11, ChangesSignalKeeps DEF ChangesArchiveRate
<1>12. CASE \E formula \in Formulas : ChangesFormula(formula)
  BY <1>12, ChangesSignalKeeps DEF ChangesFormula
<1>13. CASE \E i \in catalogue.offered \cup {NoId} : ChangesSensorOf(i)
  BY <1>0, <1>13, ChangesSignalKeeps DEF ChangesSensorOf
<1>14. CASE \E tag \in view.sources \cup {NoId} : ChangesSource(tag)
  BY <1>14, ChangesSourceKeeps
<1>15. CASE \E n \in Names : CreatesType(n)
  BY <1>15, CreatesTypeKeeps
<1>16. CASE \E t \in catalogue.types :
              \/ RemovesType(t)
              \/ \E n \in Names : ChangesType(t, "name", n)
              \/ \E kind \in Kinds : ChangesType(t, "kind", kind)
  BY <1>16, RemovesTypeKeeps, ChangesTypeKeeps
<1>17. CASE \E n \in Names : \E type \in Ids(catalogue.types) : CreatesSensor(n, type)
  BY <1>17, CreatesSensorKeeps
<1>18. CASE \E s \in catalogue.sensors :
              \/ RemovesSensor(s)
              \/ \E n \in Names : ChangesSensor(s, "name", n)
              \/ \E type \in Ids(catalogue.types) : ChangesSensor(s, "type", type)
              \/ \E mode \in {"Own", "ByType"} : ChangesSensor(s, "mode", mode)
              \/ \E kind \in Kinds : ChangesSensor(s, "kind", kind)
  BY <1>18, RemovesSensorKeeps, ChangesSensorKeeps
<1>19. CASE \/ \E t \in catalogue.types : CalibratesType(t)
            \/ \E s \in catalogue.sensors : CalibratesSensor(s)
  BY <1>19, CalibratesKeeps
<1>20. CASE Open
  BY <1>20, OpenKeeps
<1>21. CASE Close
  BY <1>21, CloseKeeps
<1> QED
  BY <1>1, <1>2, <1>3, <1>4, <1>5, <1>6, <1>7, <1>8, <1>9, <1>10, <1>11, <1>12, <1>13,
     <1>14, <1>15, <1>16, <1>17, <1>18, <1>19, <1>20, <1>21 DEF Action

LEMMA NextKeeps == IInv /\ [Next]_vars => IInv'
<1>1. ASSUME IInv, Next
      PROVE  IInv'
  <2>1. Kept'
    BY <1>1, ActionKeeps DEF IInv, Next
  <2>2. failures' \in 0..MaxFailures
    BY <1>1, EditorAssumption DEF IInv, Next
  <2> QED
    BY <2>1, <2>2 DEF IInv
<1>2. ASSUME IInv, UNCHANGED vars
      PROVE  IInv'
  BY <1>2 DEF vars, IInv, Kept
<1> QED
  BY <1>1, <1>2

\* The invariant of the editor: its copies follow the database wherever they are not
\* known to be behind, and the database keeps its schema.
THEOREM Invariant == Spec => []IInv
BY InitHolds, NextKeeps, PTL DEF Spec

\* The database keeps its rows in the types of their columns, and the window what a
\* row may be.
THEOREM EditorTypes == Spec => []TypeOK
<1>1. IInv => TypeOK
  <2> SUFFICES ASSUME IInv PROVE TypeOK
    OBVIOUS
  <2>1. RowsAreTyped(db)
    BY DEF IInv, Kept, SchemaHolds
  <2>2. view \in Views /\ catalogue \in Catalogues
    BY DEF IInv, Kept, ViewInv, CatalogueInv
  <2>3. /\ view.current \in Nat /\ view.stale \subseteq Parts /\ view.sources \subseteq Nat
        /\ view.hidden \subseteq Modules
        /\ view.signals.configuration \in Nat /\ view.tree.configuration \in Nat
        /\ catalogue.stale \in BOOLEAN
    BY <2>2 DEF Views, Trees, SignalLists, Catalogues
  <2> QED
    BY <2>1, <2>3 DEF TypeOK, IInv, Kept
<1> QED
  BY <1>1, Invariant, PTL

\* A signal measures a channel of its own configuration, whatever the panel offers.
THEOREM Sources == Spec => []SourceWithinConfiguration
<1>1. IInv => SourceWithinConfiguration
  BY DEF IInv, Kept, SchemaHolds, SourceWithinConfiguration
<1> QED
  BY <1>1, Invariant, PTL

\* What the window shows and did not fail to read is what the database holds.
THEOREM ViewsFollow == Spec => []ViewsMatchDatabase
<1>1. IInv => ViewsMatchDatabase
  <2> SUFFICES ASSUME IInv PROVE ViewsMatchDatabase
    OBVIOUS
  <2>1. ViewInv(view, db) /\ CatalogueInv(catalogue, db, open)
    BY DEF IInv, Kept
  <2>2. view.current # NoId => view.list = db.configurations
    BY <2>1 DEF ViewInv, ListMatches, Ids
  <2> QED
    BY <2>1, <2>2 DEF ViewInv, CatalogueInv, TreeMatches, MarksMatch, SignalsMatch,
         SourcesMatch, PanelIsShown, ViewsMatchDatabase
<1> QED
  BY <1>1, Invariant, PTL

\* A configuration that shows nothing in red, in which every channel in use has a row
\* that shows, every measuring signal a channel of its own, and something is measured,
\* is one that load() accepts and the layout has a place for.
THEOREM UnmarkedLoads == Spec => []UnmarkedConfigurationLoads
<1>1. IInv => UnmarkedConfigurationLoads
  <2> DEFINE c == view.current
  <2> SUFFICES ASSUME IInv, Unmarked
               PROVE  /\ Loads(db, c)
                      /\ \A t \in ActiveTags(db, c) :
                           \E s \in SignalsOf(db, c) : s.kind = "Raw" /\ s.tag = t.id
    BY DEF UnmarkedConfigurationLoads
  <2>1. ViewInv(view, db) /\ SchemaHolds(db) /\ c # NoId /\ view.stale = {}
    BY DEF IInv, Kept, Unmarked
  <2>2. /\ view.tree.modules = ModulesOf(db, c) /\ view.tree.tags = TagsOf(db, c)
        /\ view.tree.rawTags = RawTags(db, c) /\ view.signals.rows = SignalsOf(db, c)
        /\ view.sources = TagSources(db, c)
    BY <2>1 DEF ViewInv, TreeMatches, MarksMatch, SignalsMatch, SourcesMatch, SignalListOf
  <2>3. c \in Ids(db.configurations)
    BY <2>1 DEF ViewInv, ListMatches, Ids
  <2>4. /\ ModulesAccepted(ActiveModules(db, c))
        /\ TagsAccepted(ActiveModules(db, c), ActiveTags(db, c))
    <3>1. \E t \in TagsOf(db, c), m \in ModulesOf(db, c) :
            t.active /\ m.active /\ m.module = t.module
      BY <2>2 DEF Unmarked
    <3> QED
      BY <3>1 DEF ModulesAccepted, TagsAccepted, TagAdded, ActiveTags, ActiveModules
  <2>5. SignalsAccepted(ActiveTags(db, c), SignalsOf(db, c))
    <3>1. \A s \in SignalsOf(db, c) : s.kind = "Raw" => s.tag \in Ids(ActiveTags(db, c))
      BY <2>2 DEF Unmarked, SignalMarked, TagSources
    <3>2. \A r, s \in SignalsOf(db, c) : r.name = s.name => r.id = s.id
      BY <2>1 DEF SignalsOf, SchemaHolds, KeysAreUnique
    <3> QED
      BY <3>1, <3>2 DEF SignalsAccepted
  <2>6. \A t \in ActiveTags(db, c) :
          \E s \in SignalsOf(db, c) : s.kind = "Raw" /\ s.tag = t.id
    <3> TAKE t \in ActiveTags(db, c)
    <3>1. t \in view.tree.tags /\ t.active
      BY <2>2 DEF ActiveTags
    <3>2. t.id \in RawTags(db, c)
      BY <2>2, <3>1 DEF Unmarked, ChannelMarked
    <3> QED
      BY <3>2 DEF RawTags
  <2> QED
    BY <2>3, <2>4, <2>5, <2>6 DEF Loads
<1> QED
  BY <1>1, Invariant, PTL

\* A calibration saved for a sensor is the one the server applies to it.
THEOREM Calibrations == Spec => CalibrationServesItsSensor
<1> DEFINE Serves == \A s \in catalogue.sensors :
                       CalibratesSensor(s) =>
                         db'.calibrations \ db.calibrations \subseteq CalibrationUsed(db', s.id)
<1>1. IInv => Serves
  <2> SUFFICES ASSUME IInv, NEW s \in catalogue.sensors, CalibratesSensor(s)
               PROVE  db'.calibrations \ db.calibrations \subseteq CalibrationUsed(db', s.id)
    OBVIOUS
  <2>1. Kept /\ s \in db.sensors /\ catalogue.types \subseteq db.types
    BY DEF IInv, Kept, CatalogueInv
  <2>2. PICK k \in CalibratedSensor(s) : SavesCalibration(k)
    BY DEF CalibratesSensor
  <2>3. k.owner \in Owners /\ k.kind \in Kinds
    BY <2>1, CalibratedFits
  <2>4. /\ db'.types = db.types /\ db'.sensors = db.sensors
        /\ db'.calibrations \ db.calibrations \subseteq CalibrationOf(db', k.owner, k.kind)
    BY <2>1, <2>2, <2>3, CalibrationSaved
  <2>5. s \in {r \in db'.sensors : r.id = s.id}
    BY <2>1, <2>4
  <2>6. CASE s.mode = "Own"
    <3>1. k.owner = [table |-> "sensor", id |-> s.id] /\ k.kind = s.kind
      BY <2>6 DEF CalibratedSensor
    <3> QED
      BY <2>4, <2>5, <2>6, <3>1 DEF CalibrationUsed
  <2>7. CASE s.mode # "Own"
    <3>1. PICK t \in catalogue.types : t.id = s.type /\ k = CalibratedType(t)
      BY <2>7 DEF CalibratedSensor
    <3>2. /\ t \in {u \in db'.types : u.id = s.type}
          /\ k.owner = [table |-> "sensor_type", id |-> t.id] /\ k.kind = t.kind
      BY <2>1, <2>4, <3>1 DEF CalibratedType
    <3> QED
      BY <2>4, <2>5, <2>7, <3>2 DEF CalibrationUsed
  <2> QED
    BY <2>6, <2>7
<1>2. IInv => [Serves]_vars
  BY <1>1
<1> QED
  BY <1>2, Invariant, PTL DEF CalibrationServesItsSensor
==============================================================================
