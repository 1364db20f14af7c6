------------------------------ MODULE BusClock ------------------------------
(***************************************************************************)
(* What a bus model promises about time, and nothing else: the bus follows *)
(* simulation time.  It is never ahead of it, it never goes back, and when *)
(* a step is over it is less than one communication cycle behind.          *)
(***************************************************************************)
EXTENDS Integers

CONSTANTS
  CycleTime,  \* how long a communication cycle lasts
  Steps       \* the lengths a simulation step may have

VARIABLES
  now,       \* simulation time granted to the bus
  done,      \* how far the bus has come
  stepping   \* the bus is consuming a simulation step

clockVars == <<now, done, stepping>>

ClockInit == now = 0 /\ done = 0 /\ stepping = FALSE

\* The simulation grants the bus a step.
Tick(s) ==
  /\ ~stepping
  /\ now' = now + s
  /\ stepping' = TRUE
  /\ UNCHANGED done

\* The bus comes further, at most up to the simulation time.
Advance ==
  /\ stepping
  /\ done' \in Nat
  /\ done < done' /\ done' <= now
  /\ UNCHANGED <<now, stepping>>

\* The step is over.
Rest ==
  /\ stepping
  /\ now - done < CycleTime
  /\ stepping' = FALSE
  /\ UNCHANGED <<now, done>>

\* The bus is moved to another position and time is counted from there.
Resync ==
  /\ ~stepping
  /\ done' \in Nat
  /\ now' = done'
  /\ UNCHANGED stepping

ClockNext == (\E s \in Steps : Tick(s)) \/ Advance \/ Rest \/ Resync

ClockSpec == ClockInit /\ [][ClockNext]_clockVars
=============================================================================
