------------------------------ MODULE SystemBuild ------------------------------
(* What the server makes of a configuration it has loaded: the places of the
   signals in memory, the compiled formulas, the order of their calculation, the
   checks of modules and calibrations, and the calculation of one frame.
   A loaded configuration has its modules, channels and signals in the order the
   rows came, which no statement asks for, and the rows of sensors, types and
   calibrations as they were when each was read.  A step that fails yields no
   result.                                                                     *)
EXTENDS ConfigurationDatabase, FormulaLanguage

\* Signal names are the identifiers of formulas, and formulas lists of tokens.
ASSUME BuildAssumption == Names \subseteq STRING /\ Formulas \subseteq Seq(STRING)

RowIn(rows, i) == CHOOSE r \in ToSet(rows) : r.id = i

\* The elements of a list that are in a set, in their order.
Kept(list, set) ==
  FoldLeft(LAMBDA kept, x : IF x \in set THEN Append(kept, x) ELSE kept, <<>>, list)

CalculatedSignals(cfg) == Kept(cfg.signals, {s \in ToSet(cfg.signals) : s.kind = "Calculated"})
RawSignals(cfg) == {s \in ToSet(cfg.signals) : s.kind = "Raw"}
IdsOf(rows) == [i \in DOMAIN rows |-> rows[i].id]

-----------------------------------------------------------------------------
(* The places of signals in memory. *)

\* The channels of a module, in the order they were loaded.
ModuleTags(cfg, m) == Kept(cfg.tags, {t \in ToSet(cfg.tags) : t.module = m})

\* The first cell of each module.
RawOffset_AfterModule(cfg, k) ==
  FoldLeft(LAMBDA n, m : n + Len(ModuleTags(cfg, m.module)), 0, SubSeq(cfg.modules, 1, k))
RawOffset(cfg, k) ==
  FoldLeft(LAMBDA n, m : n + Len(ModuleTags(cfg, m.module)), 0, SubSeq(cfg.modules, 1, k - 1))

PlacedTags(cfg) == FoldLeft(LAMBDA ts, m : ts \o ModuleTags(cfg, m.module), <<>>, cfg.modules)

LaysOut(cfg) ==
  /\ \A r, s \in RawSignals(cfg) : r.tag = s.tag => r.id = s.id
  /\ \A t \in ToSet(PlacedTags(cfg)) : \E s \in RawSignals(cfg) : s.tag = t.id
  /\ \A s \in RawSignals(cfg) : s.tag \in Ids(ToSet(PlacedTags(cfg)))

Cell(area, index) == [area |-> area, index |-> index]

\* reference() of a signal.
Place(cfg, s) ==
  IF s.kind = "Raw"
  THEN Cell("Raw", (CHOOSE i \in DOMAIN PlacedTags(cfg) : PlacedTags(cfg)[i].id = s.tag) - 1)
  ELSE Cell("Calculated", (CHOOSE i \in DOMAIN CalculatedSignals(cfg) :
                             CalculatedSignals(cfg)[i].id = s.id) - 1)

-----------------------------------------------------------------------------
(* The checks of modules. *)

\* moduleRuntimeConfiguration(): the settings of a module and its channels, from a
\* list of its own that is kept beside the one above.
RuntimeConfiguration(cfg, m) ==
  [settings |-> m.settings, tags |-> Kept(cfg.tags, {t \in ToSet(cfg.tags) : t.module = m.module})]

\* Ltr11ConfigurationBuilder::build().
Ltr11Builds(runtime) ==
  /\ runtime.settings.mode # Unset
  /\ \A t \in ToSet(runtime.tags) : t.range # Unset
  /\ runtime.tags # <<>>

\* The validators registered for the types of modules.
ModuleAccepted(cfg, m) ==
  ModuleType[m.module] = "LTR11" => Ltr11Builds(RuntimeConfiguration(cfg, m))

ModulesValidated(cfg) == \A m \in ToSet(cfg.modules) : ModuleAccepted(cfg, m)

-----------------------------------------------------------------------------
(* Formulas, and the order they are calculated in. *)

SignalNamed(cfg, n) == CHOOSE s \in ToSet(cfg.signals) : s.name = n

NamesRead(nodes) ==
  LET signals == Kept(nodes, {node \in ToSet(nodes) : node.op = "signal"})
  IN [i \in DOMAIN signals |-> signals[i].at]

\* The formula of a signal with its names resolved.
Compiled(cfg, s) ==
  {nodes \in Parsed(s.formula) : ToSet(NamesRead(nodes)) \subseteq {r.name : r \in ToSet(cfg.signals)}}

\* The signals a compiled formula reads, each once, in the order of reading.
Dependencies(cfg, nodes) ==
  FoldLeft(LAMBDA ids, n : LET i == SignalNamed(cfg, n).id
                           IN IF i \in ToSet(ids) THEN ids ELSE Append(ids, i),
           <<>>, NamesRead(nodes))

FormulasBuilt(cfg) == \A s \in ToSet(CalculatedSignals(cfg)) : Compiled(cfg, s) # {}

\* CalculationOrder: visit() marks a signal, visits what it depends on and then
\* puts it last; a signal met again while it is being visited is on a cycle.
Visit_First(visit, p, dependencies, raw) ==
  LET start == [marks |-> [p.marks EXCEPT ![p.id] = "Visiting"], order |-> Append(p.order, p.id)]
      after == FoldLeft(LAMBDA results, d :
                          IF d \in raw THEN results
                          ELSE UNION {visit[[id |-> d, marks |-> r.marks, order |-> r.order]] :
                                        r \in results},
                        {start}, dependencies)
  IN {[marks |-> [r.marks EXCEPT ![p.id] = "Visited"], order |-> r.order] : r \in after}

Visit(visit, p, dependencies, raw) ==
  LET start == [marks |-> [p.marks EXCEPT ![p.id] = "Visiting"], order |-> p.order]
      after == FoldLeft(LAMBDA results, d :
                          IF d \in raw THEN results
                          ELSE UNION {visit[[id |-> d, marks |-> r.marks, order |-> r.order]] :
                                        r \in results},
                        {start}, dependencies)
  IN {[marks |-> [r.marks EXCEPT ![p.id] = "Visited"], order |-> Append(r.order, p.id)] :
        r \in after}

\* What a visit comes to, by the mark it finds.
VisitFrom(visit, p, depends, raw) ==
  CASE p.marks[p.id] = "Visited"    -> {[marks |-> p.marks, order |-> p.order]}
    [] p.marks[p.id] = "Visiting"   -> {}
    [] p.marks[p.id] = "NotVisited" -> Visit(visit, p, depends[p.id], raw)

CalculationOrder(cfg) ==
  LET calculated == IdsOf(CalculatedSignals(cfg))
      raw        == Ids(RawSignals(cfg))
      depends    == [i \in ToSet(calculated) |->
                       Dependencies(cfg, CHOOSE n \in Compiled(cfg, RowIn(cfg.signals, i)) : TRUE)]
      Visits     == [id : ToSet(calculated),
                     marks : [ToSet(calculated) -> {"NotVisited", "Visiting", "Visited"}],
                     order : Seq(ToSet(calculated))]
      visit[p \in Visits] == VisitFrom(visit, p, depends, raw)
      unmarked   == [marks |-> [i \in ToSet(calculated) |-> "NotVisited"], order |-> <<>>]
  IN {r.order :
        r \in FoldLeft(LAMBDA results, i :
                         UNION {visit[[id |-> i, marks |-> r.marks, order |-> r.order]] :
                                  r \in results},
                       {unmarked}, calculated)}

-----------------------------------------------------------------------------
(* Calibrations. *)

\* A signal without a sensor needs none; the loaded data are whole.
CalibrationsValidated(cfg) ==
  \A s \in ToSet(CalculatedSignals(cfg)) :
    s.sensor # NoId => CalibrationUsed(cfg, s.sensor) # {}

\* apply(): the segment a value lies in or beyond, or the polynomial.
Interpolated(points, x) ==
  LET below == {i \in 1..Len(points) - 1 : points[i][1] <= x}
      i == IF below = {} THEN 1 ELSE Greatest(SetToSeq(below))
      p == points[i]
      q == points[i + 1]
  IN p[2] + Divided((x - p[1]) * (q[2] - p[2]), q[1] - p[1])

Polynomial(coefficients, x) ==
  FoldLeft(LAMBDA y, c : y * x + c, 0, Reverse(coefficients))

Applied(k, x) == IF k.kind = "Table" THEN Interpolated(k.data, x) ELSE Polynomial(k.data, x)

Calibrated(cfg, s, x) ==
  IF s.sensor = NoId THEN {x} ELSE {Applied(k, x) : k \in CalibrationUsed(cfg, s.sensor)}

-----------------------------------------------------------------------------
(* Building, and the calculation of a frame. *)

\* CalculationCompiler::build(): a formula for each calculated signal, in an order.
CalculationPlan(cfg) == IF FormulasBuilt(cfg) THEN CalculationOrder(cfg) ELSE {}

\* ConfigurationValidator::build(), which ConfigEditor runs too: the plan of
\* calculation, or nothing when a check fails.
Built(cfg) ==
  IF LaysOut(cfg) /\ ModulesValidated(cfg) /\ CalibrationsValidated(cfg)
  THEN CalculationPlan(cfg) ELSE {}

InvalidSignalValue == -99   \* not a number

\* FrameAssembler::push() of a sample of every channel: a module delivers them in
\* the order of its own list of channels, and they go where the layout begins it.
Assembled(cfg, samples) ==
  FoldLeft(LAMBDA raw, k :
             LET tags   == RuntimeConfiguration(cfg, cfg.modules[k]).tags
                 offset == RawOffset(cfg, k)
             IN [c \in DOMAIN raw |-> IF c \in offset..offset + Len(tags) - 1
                                      THEN samples[tags[c - offset + 1].id] ELSE raw[c]],
           [c \in 0..Len(PlacedTags(cfg)) - 1 |-> InvalidSignalValue],
           [k \in DOMAIN cfg.modules |-> k])

\* What the signals are worth in a frame, by name.
ValuesIn(cfg, frame) ==
  [n \in {s.name : s \in ToSet(cfg.signals)} |->
     LET place == Place(cfg, SignalNamed(cfg, n))
     IN IF place.area = "Raw" THEN frame.raw[place.index] ELSE frame.calculated[place.index]]

\* SignalProcessor::process(): each step of the plan is evaluated, calibrated and
\* written; the memory of calculated signals starts invalid.
Processed(cfg, plan, samples) ==
  LET empty == [raw |-> Assembled(cfg, samples),
                calculated |-> [c \in 0..Len(CalculatedSignals(cfg)) - 1 |-> InvalidSignalValue]]
      step(frames, i) ==
        LET s == RowIn(cfg.signals, i)
            nodes == CHOOSE n \in Compiled(cfg, s) : TRUE
        IN UNION {UNION {{[f EXCEPT !.calculated[Place(cfg, s).index] = y] :
                            y \in Calibrated(cfg, s, x)} :
                           x \in Evaluated(nodes, ValuesIn(cfg, f))} : f \in frames}
  IN FoldLeft(step, {empty}, plan)

-----------------------------------------------------------------------------
(* What a configuration must be to be run. *)

\* Every set of calculated signals has one that reads none of the set.
WithoutCycles(cfg) ==
  LET reads(s) == {r \in ToSet(CalculatedSignals(cfg)) : r.name \in NamesIn(s.formula)}
  IN \A C \in SUBSET ToSet(CalculatedSignals(cfg)) :
       C # {} => \E s \in C : reads(s) \cap C = {}

Sound(cfg) ==
  LET names == {s.name : s \in ToSet(cfg.signals)}
  IN /\ \A t \in ToSet(cfg.tags) : Cardinality({s \in RawSignals(cfg) : s.tag = t.id}) = 1
     /\ \A s \in RawSignals(cfg) : s.tag \in Ids(ToSet(cfg.tags))
     /\ ModulesValidated(cfg)
     /\ \A s \in ToSet(CalculatedSignals(cfg)) :
          /\ NamesIn(s.formula) \subseteq names
          /\ Meanings(s.formula, [n \in names |-> 0]) # {}
          /\ s.sensor # NoId => CalibrationUsed(cfg, s.sensor) # {}
     /\ WithoutCycles(cfg)

\* A frame holds the sample of every channel, and of every calculated signal what
\* its formula means for the values the frame itself holds, calibrated.
Consistent(cfg, samples, frame) ==
  /\ \A s \in RawSignals(cfg) : frame.raw[Place(cfg, s).index] = samples[s.tag]
  /\ \A s \in ToSet(CalculatedSignals(cfg)) :
       frame.calculated[Place(cfg, s).index] \in
         UNION {Calibrated(cfg, s, x) : x \in UNION Meanings(s.formula, ValuesIn(cfg, frame))}
==============================================================================
