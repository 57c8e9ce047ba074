---------------------------- MODULE TimerSystem ----------------------------
(***************************************************************************)
(* Timer with the thread that counts, TimerMainLoop (timer.cpp): each      *)
(* iteration reads the system's clock, which an operator or a time server  *)
(* may set, and advances the counter by one tic if it is due.              *)
(*                                                                         *)
(* Abstractions.  AbsTimer counts relative to the clock, in tics, rounded  *)
(* up: how the two lie in their seconds, which decides what truncation     *)
(* does to the differences, is a choice.  An iteration takes a tic or more *)
(* (usleep), so that less is a clock that was set back.                    *)
(***************************************************************************)
EXTENDS Timer

CONSTANTS
  Hundredth,     \* 1/100 s, the unit of dif, in tics
  JumpThreshold, \* JMPTRESHOLD in tics
  ClockSteps,    \* by how much the clock goes on from one iteration to the next
  MaxBehind,     \* bound: how far AbsTimer may be behind the clock
  MaxSetbacks    \* bound: how often the clock is set back

ASSUME LoopAssumption ==
  /\ Hundredth \in Nat \ {0} /\ JumpThreshold \in Nat \ {0}
  /\ ClockSteps \subseteq Int
  /\ MaxBehind \in Nat /\ MaxSetbacks \in Nat

VARIABLES
  ahead,     \* AbsTimer - now
  setbacks   \* how often the clock has been set back (history)

systemVars == <<vars, ahead, setbacks>>

-----------------------------------------------------------------------------

SystemInit ==
  /\ Init
  /\ ahead = 0
  /\ setbacks = 0

\* Fault: a clock that is set back is not noticed.
JumpedForwardOnly(step) ==
  IF step < JumpThreshold + Hundredth THEN {FALSE} ELSE {TRUE}

\* The test "dif < 0 || dif > JMPTRESHOLD": what it may yield.  A fraction of 1/100
\* s is cut off, which may hide a small step back or forward.
Jumped(step) ==
  IF step <= -Hundredth \/ step >= JumpThreshold + Hundredth THEN {TRUE}
  ELSE IF step \in 0..JumpThreshold THEN {FALSE}
  ELSE BOOLEAN

\* The test "sign <= 0"; a fraction of a tic is cut off.
TicDue(distance) ==
  IF distance <= 0 THEN {TRUE} ELSE IF distance = 1 THEN BOOLEAN ELSE {FALSE}

\* One iteration: AbsTimer = now after a jump, and one tic if it is due, however
\* many are.
Iterate ==
  \E step \in ClockSteps :
    \E jumped \in Jumped(step) :
      LET distance == IF jumped THEN 0 ELSE ahead - step
      IN  /\ distance >= -MaxBehind
          /\ step < 1 => setbacks < MaxSetbacks
          /\ setbacks' = IF step < 1 THEN setbacks + 1 ELSE setbacks
          /\ \/ TRUE \in TicDue(distance) /\ Tick /\ ahead' = distance + 1
             \/ FALSE \in TicDue(distance) /\ UNCHANGED vars /\ ahead' = distance

Application == UserStep /\ UNCHANGED <<ahead, setbacks>>

SystemNext == Iterate \/ Application

SystemSpec == SystemInit /\ [][SystemNext]_systemVars

\* The counting thread runs, and so does the one that waits.
FairSystemSpec ==
  /\ SystemSpec
  /\ WF_systemVars(Iterate)
  /\ WF_systemVars(Poll /\ UNCHANGED <<ahead, setbacks>>)
  /\ WF_systemVars((WaitExpires \/ PauseExpires) /\ UNCHANGED <<ahead, setbacks>>)

-----------------------------------------------------------------------------
(* Properties.                                                             *)

\* "handle large time-jumps" (timer.cpp:193): however far the clock is set back,
\* the counter does not wait for it to come back.  Only what truncation hides,
\* less than 1/100 s each time, can hold the next tic up.
FreezeBounded == ahead <= 2 + (Hundredth - 1) * setbacks
=============================================================================
