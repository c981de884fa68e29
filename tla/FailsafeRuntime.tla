--------------------------- MODULE FailsafeRuntime ---------------------------
(***************************************************************************)
(* What PlcRuntimeService promises of the outputs everybody reads, however *)
(* its threads interleave: they are a scan's only while the runtime is     *)
(* Running, and each thread that takes it out of Running leaves failsafe   *)
(* outputs behind.  A scan is committed once its result will be published  *)
(* whatever happens; a halt after that point comes too late for it.        *)
(***************************************************************************)
CONSTANT Threads  \* the threads that may take the runtime out of Running

VARIABLES
  state,      \* Stopped, Running or Faulted
  committed,  \* a scan is past its decision point and not published
  late,       \* the last halt overtook a committed scan
  halting,    \* threads that have left Running and have not published the failsafe
  shown       \* the published outputs: live or failsafe

vars == <<state, committed, late, halting, shown>>

Init ==
  /\ state = "Stopped" /\ ~committed /\ ~late
  /\ halting = {} /\ shown = "failsafe"

\* Resume or ActivateProgram: nothing is being scanned.
Start ==
  /\ ~committed
  /\ state' = "Running" /\ ~late'
  /\ UNCHANGED <<committed, halting, shown>>

\* Stop, Pause, shutdown, an exception or the watchdog.
Halt(t) ==
  /\ t \notin halting
  /\ state' \in {"Stopped", "Faulted"}
  /\ late' = committed
  /\ halting' = halting \cup {t}
  /\ UNCHANGED <<committed, shown>>

\* Only a scan of a runtime that is Running is committed.
Commit ==
  /\ state = "Running" /\ ~committed
  /\ committed'
  /\ UNCHANGED <<state, late, halting, shown>>

\* The committed scan's outputs, or the failsafe ones a halt has written over them.
Show ==
  /\ committed /\ ~committed'
  /\ \/ shown' = "live"
     \/ shown' = "failsafe" /\ (halting # {} \/ shown = "failsafe")
  /\ UNCHANGED <<state, late, halting>>

\* What excuses a halt that does not end in failsafe outputs.
Excused(t) == state = "Running" \/ late \/ halting # {t}

\* A halt ends in failsafe outputs, unless it is excused: then a scan's may stay, or be
\* shown a step ahead of the scan's own publication.
Settle(t) ==
  /\ t \in halting
  /\ halting' = halting \ {t}
  /\ \/ shown' = "failsafe"
     \/ Excused(t) /\ shown' = shown
     \/ Excused(t) /\ committed /\ shown' = "live"
  /\ UNCHANGED <<state, committed, late>>

Next == Start \/ Commit \/ Show \/ \E t \in Threads : Halt(t) \/ Settle(t)

Spec == Init /\ [][Next]_vars

-----------------------------------------------------------------------------
\* A runtime that is out of Running, with no halt under way and no scan overtaken, shows
\* failsafe outputs; and a committed scan is one of a Running runtime, or overtaken.
SettledIsSafe ==
  /\ state # "Running" /\ halting = {} /\ ~late => shown = "failsafe"
  /\ committed => state = "Running" \/ late
=============================================================================
