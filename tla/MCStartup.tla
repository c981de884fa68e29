------------------------------ MODULE MCStartup ------------------------------
(* Two processes on one file for TLC.                                       *)
EXTENDS Startup

CONSTANTS p1, p2, admin, operator, tank, irrigation

MCSeed == <<admin, operator>>
MCDemos == <<tank, irrigation>>
=============================================================================
