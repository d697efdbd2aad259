-------------------------- MODULE MCServerApplication --------------------------
(* Formulas: every one of up to three tokens, and signals that are calculated from
   each other in any direction.  Loading: two configurations with three modules,
   while an editor writes.                                                     *)
EXTENDS ServerApplication

MCModuleType == [m \in Modules |-> IF m = 4 THEN "Test" ELSE "LTR11"]
Tokens == {"0", "2", "a", "d", "abs", "+", "-", "/", "(", ")"}
Short == UNION {[1..n -> Tokens] : n \in 1..3}

Calculating(d, c, n, formula) ==
  UpdateSignal(CreateSignal(d, c, n, "Calculated"), d.next["signals"], "formula", formula)

\* A module more in a configuration, with a channel and its signal; and its settings.
Measures(d, c, m, channel, n) ==
  LET tagged == AddConfigTag(AddConfigModule(d, c, m), c, m, channel)
  IN UpdateSignal(CreateSignal(tagged, c, n, "Raw"), d.next["signals"], "tag", d.next["tags"])
MeasuresOn(d, c, m, channel, n) ==
  UpdateConfigTagSettings(
    UpdateConfigModuleSettings(Measures(d, c, m, channel, n), c, m, [rate |-> 1000, mode |-> 0]),
    d.next["tags"], 0)
Measuring(d, c, m, n) == MeasuresOn(d, c, m, 0, n)

One == Measuring(AddConfiguration(EmptyDatabase, "a"), 1, 1, "a")

Written == {<<Calculating(One, 1, "d", f), 0>> : f \in Short}

FormulasOfC == {<<"d", "+", "e">>, <<"d">>}
FormulasOfD == {<<"e", "*", "a">>, <<"a">>, <<"c">>}
FormulasOfE == {<<"a", "-", "8", "-", "2">>, <<"max", "(", "a", ",", "-", "a", ")">>, <<"d">>}
Chains ==
  {<<Calculating(Calculating(Calculating(One, 1, "c", f), 1, "d", g), 1, "e", h), 0>> :
     f \in FormulasOfC, g \in FormulasOfD, h \in FormulasOfE}

\* Two modules measure, and a calculated signal a sensor.
Shared ==
  LET both == Measuring(Measuring(AddConfiguration(One, "b"), 1, 2, "b"), 2, 3, "a")
      sensor == CreateSensor(CreateSensorType(both, "a"), "a", 1)
      known == CreateCalibration(sensor, [table |-> "sensor", id |-> 1], "Table",
                                 <<<<0, 0>>, <<2, 4>>, <<4, 5>>>>)
  IN UpdateSignal(Calculating(known, 1, "c", <<"a", "-", "b">>), 4, "sensor", 1)

\* A test module beside, one without settings, and a channel its mode has not.
Odd == {<<Measures(One, 1, 4, 0, "b"), 0>>, <<Measures(One, 1, 2, 0, "b"), 0>>,
        <<MeasuresOn(One, 1, 2, 16, "b"), 0>>}

MCInitialDatabases == Written \cup Chains \cup Odd \cup {<<Shared, 1>>}
MCSamples == {-1, 3}
MCFormulas ==
  Short \cup FormulasOfC \cup FormulasOfD \cup FormulasOfE \cup {<<"a", "-", "b">>}
==============================================================================
