---------------------------- MODULE MCSimulation -----------------------------
(* Two programs with an input and an output each.                          *)
EXTENDS Simulation

CONSTANTS tank, irrigation, level, pump, timer, valve

MCInputsOf == [p \in Programs |-> IF p = tank THEN {level} ELSE {timer}]
MCOutputsOf == [p \in Programs |-> IF p = tank THEN {pump} ELSE {valve}]
=============================================================================
