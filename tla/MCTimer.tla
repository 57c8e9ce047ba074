------------------------------- MODULE MCTimer -------------------------------
(* Instances of Timer and TimerSystem for TLC. *)
EXTENDS TimerSystem

\* One tic, less and more than a pause, the most an int holds and beyond.
Arguments == {0, 1, 2, 5, 6, 13}

\* As in the program, the years are too short, the months out of reach and the
\* years no multiple of the rest.
Periods ==
  [Years |-> 5, Months |-> 1000, Days |-> 8, Hours |-> 4, Minutes |-> 2, Secs |-> 1]

\* The clock is set back far or a little, goes on at its pace, is late, or jumps
\* ahead about or beyond the threshold.
Steps == {-6, -2, 1, 2, 4, 9}
=============================================================================
