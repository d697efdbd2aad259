------------------------------ MODULE Ltr11Module ------------------------------
(* One LTR11 module, as Ltr11Module::Impl drives it through the library of its
   maker.  A device is the members of the class together with what the library
   holds: the connection, and whether the module acquires.  Calls of the library
   may fail; one that closes or stops is taken to do so.  A step of start()
   yields every outcome it may have: the device it leaves and its success.    *)
EXTENDS Naturals, FiniteSets

Devices ==
  [initialized : BOOLEAN, opened : BOOLEAN, started : BOOLEAN,
   handle : {"closed", "open", "acquiring"}]

Off == [initialized |-> FALSE, opened |-> FALSE, started |-> FALSE, handle |-> "closed"]

Outcome(d, ok) == [device |-> d, ok |-> ok]

MaxChannels(mode) == IF mode = 0 THEN 16 ELSE 32

\* Ltr11ConfigurationValidator, which start() runs: what of a module's settings and
\* channels the hardware can do.  All channels are sampled at 1000 Hz, which even
\* 32 of them may be.
HardwareAccepts(mode, channels) ==
  /\ mode \in {0, 1}
  /\ channels # {}
  /\ \A c \in channels : c.channel < MaxChannels(mode) /\ c.range \in 0..3
  /\ \A c, d \in channels : c.channel = d.channel => c = d

\* LTR11_Close() and the flags cleared with it, when a step of start() fails.
Released_Flags(d) == [d EXCEPT !.opened = FALSE, !.initialized = FALSE]
Released(d) == [d EXCEPT !.opened = FALSE, !.initialized = FALSE, !.handle = "closed"]

\* configureConnection(): a module whose settings cannot be read back is closed.
ConfigureConnection(d) ==
  IF d.opened
  THEN {Outcome(d, TRUE)}
  ELSE {Outcome(d, FALSE),
        Outcome([d EXCEPT !.handle = "closed"], FALSE),
        Outcome([d EXCEPT !.opened = TRUE, !.handle = "open"], TRUE)}

\* configureChannels() and configureFrequency().
ConfigureChannels(d, mode, channels) ==
  {Outcome(d, /\ mode \in {0, 1} /\ channels # {}
              /\ \A c \in channels : c.channel < MaxChannels(mode) /\ c.range \in 0..3)}
ConfigureFrequency(d) == {Outcome(d, FALSE), Outcome(d, TRUE)}

\* LTR11_SetADC() and LTR11_Start().
StartAcquisition(d) ==
  {Outcome(d, FALSE), Outcome([d EXCEPT !.started = TRUE, !.handle = "acquiring"], TRUE)}

\* start(): a step that fails closes the module.
StartModule(d, mode, channels) ==
  LET ready     == [d EXCEPT !.initialized = TRUE]
      connected == ConfigureConnection(ready)
      tabled    == UNION {IF o.ok THEN ConfigureChannels(o.device, mode, channels)
                                  ELSE {o} : o \in connected}
      timed     == UNION {IF o.ok THEN ConfigureFrequency(o.device) ELSE {o} : o \in tabled}
      acquiring == UNION {IF o.ok THEN StartAcquisition(o.device) ELSE {o} : o \in timed}
  IN CASE d.started -> {Outcome(d, TRUE)}
       [] ~d.started /\ ~HardwareAccepts(mode, channels) -> {Outcome(d, FALSE)}
       [] OTHER -> {IF o.ok THEN o ELSE Outcome(Released(o.device), FALSE) : o \in acquiring} \cup
                   (IF d.initialized THEN {} ELSE {Outcome(d, FALSE)})

\* stop().
StopModule(d) ==
  LET halted == IF d.started THEN [d EXCEPT !.started = FALSE, !.handle = "open"] ELSE d
      closed == IF d.opened THEN [halted EXCEPT !.opened = FALSE, !.handle = "closed"] ELSE halted
  IN [closed EXCEPT !.initialized = FALSE]
==============================================================================
