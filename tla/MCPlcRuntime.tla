---------------------------- MODULE MCPlcRuntime ----------------------------
(* Small instances of PlcRuntime for TLC.                                   *)
EXTENDS PlcRuntime, TLC

CONSTANTS c1, c2, o1, o2, i1

\* Configuration c1 drives o1, c2 drives o2 where that output exists.
MCOutputsOf == [c \in Configs |-> (IF c = c1 THEN {o1} ELSE {o2}) \cap Outputs]

\* What an operator posts.
MCOperator == [type : {"Stop", "Pause", "Resume"}] \cup [type : {"SetManualInput"}, value : InputValues]

\* The shortest programme of starts and stops.
MCStartStop == [type : {"Stop", "Resume"}]

\* Forces on both outputs, while either configuration is installed or activated.
MCForces ==
       [type : {"Stop"}]
  \cup [type : {"Activate"}, program : Configs]
  \cup [type : {"ForceOutput"}, output : Outputs, force : {"timed", "permanent"}]
  \cup [type : {"ClearForce"}, output : Outputs]
=============================================================================
