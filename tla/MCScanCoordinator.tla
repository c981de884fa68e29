------------------------ MODULE MCScanCoordinator ------------------------
(* Two configurations on two outputs for TLC.                               *)
EXTENDS ScanCoordinator, TLC

CONSTANTS c1, c2, o1, o2, on, off, r1, r2

\* c1 drives both outputs, c2 only the second and has no failsafe value for it.
MCOutputsOf == (c1 :> {o1, o2}) @@ (c2 :> {o2})

MCFailsafeOf == [c \in Configs |-> [o \in Outputs |-> IF c = c1 THEN off ELSE NoValue]]

\* In c1 two interlocks overlap on o1, with different safe values.
MCInterlocksOf ==
  (c1 :> <<[affects |-> {o1}, safe |-> off], [affects |-> {o1, o2}, safe |-> on]>>)
  @@ (c2 :> <<[affects |-> {o2}, safe |-> off]>>)

Rule(r, o, v) == [output |-> o, value |-> v, priority |-> AutomaticControl, source |-> r]

\* The rules of c1 may contradict each other on o1, those of c2 on o2.
MCLogicOf ==
  (c1 :> SUBSET {Rule(r1, o1, on), Rule(r2, o1, off), Rule(r1, o2, on)})
  @@ (c2 :> SUBSET {Rule(r1, o2, on), Rule(r2, o2, off)})

MCDefaultOf == [o \in Outputs |-> off]
=============================================================================
