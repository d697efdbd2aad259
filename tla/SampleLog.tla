------------------------------ MODULE SampleLog ------------------------------
(***************************************************************************)
(* What a recording session of DataServer promises about the samples of    *)
(* its modules, with no thread, no queue and no device in sight: while a   *)
(* session is open every module acquires samples and the session stores    *)
(* them one at a time, in the order they were acquired; a session closes   *)
(* only when everything acquired has been stored.  AcquisitionPipeline is  *)
(* checked to implement this specification.                                *)
(***************************************************************************)
EXTENDS Integers

CONSTANTS SourceCount,   (* number of acquisition modules                  *)
          BlockCapacity  (* samples a module delivers at once, at most     *)

Sources == 1..SourceCount

VARIABLES open,      (* a session is being recorded                         *)
          acquired,  (* samples each module has delivered in this session   *)
          stored     (* samples of each module merged into the frame stream *)

vars == <<open, acquired, stored>>

Init ==
  /\ open = FALSE
  /\ acquired = [i \in Sources |-> 0]
  /\ stored = [i \in Sources |-> 0]

Open ==
  /\ ~open
  /\ open' = TRUE
  /\ acquired' = [i \in Sources |-> 0]
  /\ stored' = [i \in Sources |-> 0]

Acquire(i) ==
  /\ open
  /\ \E n \in 1..BlockCapacity : acquired' = [acquired EXCEPT ![i] = @ + n]
  /\ UNCHANGED <<open, stored>>

Store(i) ==
  /\ open
  /\ stored[i] < acquired[i]
  /\ stored' = [stored EXCEPT ![i] = @ + 1]
  /\ UNCHANGED <<open, acquired>>

Close ==
  /\ open
  /\ stored = acquired
  /\ open' = FALSE
  /\ UNCHANGED <<acquired, stored>>

Next ==
  \/ Open
  \/ Close
  \/ \E i \in Sources : Acquire(i) \/ Store(i)

Spec == Init /\ [][Next]_vars
==============================================================================
