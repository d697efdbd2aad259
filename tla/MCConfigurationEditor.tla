------------------------- MODULE MCConfigurationEditor -------------------------
(* An LTR11 module with one channel, two configurations that measure it, and a
   sensor whose type has a calibration.                                        *)
EXTENDS ConfigurationEditor

MCModuleType == [m \in Modules |-> "LTR11"]
MCFormulas == {<<"x">>}
MCTables ==
  [Table |-> {<<<<0, 0>>, <<1, 1>>>>, <<<<1, 0>>, <<0, 1>>>>}, Polynomial |-> {<<>>, <<0>>}]

Prepared ==
  LET two == AddConfiguration(AddConfiguration(EmptyDatabase, "a"), "b")
      modules == AddConfigModule(AddConfigModule(two, 1, "m"), 2, "m")
      tags == AddConfigTag(AddConfigTag(modules, 1, "m", 0), 2, "m", 0)
      raws == UpdateSignal(CreateSignal(tags, 1, "a", "Raw"), 1, "tag", 1)
      all == CreateSignal(raws, 2, "a", "Raw")
      type == CreateSensorType(all, "a")
      sensor == CreateSensor(type, "a", 1)
  IN CreateCalibration(sensor, [table |-> "sensor_type", id |-> 1], "Table",
                       <<<<0, 0>>, <<1, 1>>>>)

MCInitialDatabases == {EmptyDatabase, Prepared}
==============================================================================
