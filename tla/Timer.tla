------------------------------- MODULE Timer -------------------------------
(***************************************************************************)
(* Class Timer (timer.cpp): a counter of tics that a thread of its own     *)
(* advances and wraps around, and a timer object that compares it with a   *)
(* start and an end value.  InitTx and Pause wait by polling the object.   *)
(*                                                                         *)
(* Abstractions.  Times are in tics, which are milliseconds.  Where the    *)
(* code turns seconds back into one of them, the rounded quotient may cost *)
(* one; for which numbers it does is left open.  The counter is advanced   *)
(* by Tick; TimerSystem says when.  Only the first object of the program   *)
(* is initialised: the others hold what their memory held, of which an     *)
(* undefined mode counts as an active one.                                 *)
(***************************************************************************)
EXTENDS Integers

CONSTANTS
  Wrap,         \* VTMR_WRAPAROUND: 2^31, so that an int is in -Wrap..Wrap-1
  TicsPerSec,   \* TIMER_FREQ
  MaxTimeout,   \* VTMR_MAXTIMEOUT in tics; it does not fit in an int
  Values,       \* the arguments of Set and Pause, in tics
  Period,       \* what the periods of ConvTime are as int: years, months, ...
  MinPause,     \* 0.01 s: a shorter Pause leaves the object alone
  MaxAge,       \* bound: ages from here on are not told apart
  MaxLag        \* the tics that may pass between two polls of a waiting thread

ASSUME WrapAssumption == Wrap \in Nat \ {0}
ASSUME FreqAssumption == TicsPerSec \in Nat \ {0}
ASSUME MaxTimeoutAssumption == MaxTimeout \in Nat /\ MaxTimeout >= Wrap
ASSUME ValuesAssumption == Values \subseteq Nat
Unit == {"Years", "Months", "Days", "Hours", "Minutes", "Secs"}

\* 31557600*1000 is 1492828928 as an int, 2592000*1000 negative, hence larger than
\* everything as an unsigned long long; the others are what they should be.
ASSUME PeriodAssumption == Period \in [Unit -> Nat \ {0}]
ASSUME MonthsAssumption == Period.Months > Period.Years
ASSUME NestedAssumption ==
  Period.Days % Period.Hours = 0 /\ Period.Hours % Period.Minutes = 0
ASSUME BoundAssumption ==
  MinPause \in Nat /\ MaxAge \in Nat /\ MaxAge >= Wrap /\ MaxLag \in Nat \ {0}

VARIABLES
  monotonic,  \* Monotonic, the counter
  timer,      \* the object's struct vtmr
  asked,      \* the argument of the last Set, in whole tics (history; during a
              \* Pause also its local value)
  age,        \* the tics since then (history)
  lag,        \* the tics since a waiting thread last polled
  waiting,    \* "no", "set" (a loop until Timeout) or "pause"
  remain      \* the local TimeRemain of Pause

vars == <<monotonic, timer, asked, age, lag, waiting, remain>>

-----------------------------------------------------------------------------

Mode == {"UNINITIALIZED", "ACTIVE", "DONE", "NEVER"}

Word == 2 * Wrap     \* how many values an unsigned int has
Never == -TicsPerSec \* the value -1, in tics

\* asked before the first Set: less than any time.
NotSet == -Word - TicsPerSec

Lesser(a, b) == IF a < b THEN a ELSE b

\* The conversion of a double to int.  Out of range it is undefined: x86 gives
\* the least int, ARM the nearest one.
ToInt(x) == IF x \in (-Wrap)..(Wrap - 1) THEN {x} ELSE {-Wrap, Wrap - 1}

\* Fault: the wrap-around is ignored.
NowIgnoringWrap == monotonic

\* The counter as Timeout and Remain see it: unwrapped since the start.
Now == IF monotonic < timer.start THEN monotonic + Wrap ELSE monotonic

Expired == timer.mode = "ACTIVE" /\ Now >= timer.timeout

\* What Remain returns, in tics.
Remain ==
  CASE timer.mode = "NEVER" -> Never
    [] timer.mode = "ACTIVE" /\ ~Expired -> timer.timeout - Now
    [] OTHER -> 0

\* Looking at the object settles its mode.
Polled ==
  [timer EXCEPT !.mode = IF @ = "UNINITIALIZED" \/ Expired THEN "DONE" ELSE @]

\* Elapsed, in tics: less than 0 once the counter has come round since Set.
Elapsed ==
  IF timer.mode = "UNINITIALIZED" THEN Never ELSE monotonic - timer.start

\* What is left of a number of tics that was divided by 1000.0, multiplied by 1000
\* and cut off: 1001/1000.0 is a little less than 1.001.
Truncated(tics) ==
  CASE tics > 0 -> {tics - 1, tics}
    [] tics < 0 -> {tics, tics + 1}
    [] OTHER -> {0}

\* Fault: a whole period is left in the rest.
ConvTimeStrict(now, period) ==
  IF now = 0 THEN [field |-> 0, now |-> 0]
  ELSE [field |-> (now - 1) \div period, now |-> 1 + ((now - 1) % period)]

\* ConvTime, by subtraction in a loop; and its use from years to milliseconds.
ConvTime(now, period) == [field |-> now \div period, now |-> now % period]

ReadableTimer(now) ==
  LET years == ConvTime(now, Period.Years)
      months == ConvTime(years.now, Period.Months)
      days == ConvTime(months.now, Period.Days)
      hours == ConvTime(days.now, Period.Hours)
      minutes == ConvTime(hours.now, Period.Minutes)
      secs == ConvTime(minutes.now, Period.Secs)
  IN  [Years |-> years.field, Months |-> months.field, Days |-> days.field,
       Hours |-> hours.field, Minutes |-> minutes.field, Secs |-> secs.field,
       mSecs |-> secs.now]

ElapsedMsec(now) ==
  ReadableTimer(now).Secs * Period.Secs + ReadableTimer(now).mSecs

\* What memory may hold: values at the limits, beyond those of the counter.
Garbage == {0, Wrap - 1, Word - 1}

Init ==
  /\ monotonic = 0
  /\ timer \in {[mode |-> "UNINITIALIZED", start |-> 0, timeout |-> 0]}
               \cup [mode : Mode, start : Garbage, timeout : Garbage]
  /\ asked = NotSet
  /\ age = 0
  /\ lag = 0
  /\ waiting = "no"
  /\ remain = 0

-----------------------------------------------------------------------------

\* TimerMainLoop: one tic.  A thread that waits polls often enough.
Tick ==
  /\ waiting # "no" => lag < MaxLag
  /\ monotonic' = (monotonic + 1) % Wrap
  /\ age' = Lesser(age + 1, MaxAge)
  /\ lag' = IF waiting = "no" THEN 0 ELSE lag + 1
  /\ UNCHANGED <<timer, asked, waiting, remain>>

SetNever ==
  /\ asked' = Never
  /\ age' = 0
  /\ timer' = [timer EXCEPT !.mode = "NEVER", !.start = monotonic]

\* Fault: the end is not relative to now.
SetFromZero(value) ==
  /\ asked' = value
  /\ age' = 0
  /\ \E i \in ToInt(Lesser(value, MaxTimeout)) :
       timer' = [mode |-> "ACTIVE", start |-> monotonic, timeout |-> i % Word]

\* A value too large is cut to MaxTimeout, then converted, then added.
SetActive(value) ==
  /\ asked' = value
  /\ age' = 0
  /\ \E i \in ToInt(Lesser(value, MaxTimeout)) :
       timer' = [mode |-> "ACTIVE", start |-> monotonic,
                 timeout |-> (monotonic + i) % Word]

Set(value) == IF value = Never THEN SetNever ELSE SetActive(value)

\* A caller sets the object and goes on with something else, or waits in a loop.
SetOnly(value) ==
  /\ waiting = "no"
  /\ Set(value)
  /\ UNCHANGED <<monotonic, lag, waiting, remain>>

SetAndWait(value) ==
  /\ waiting = "no"
  /\ Set(value)
  /\ waiting' = "set"
  /\ lag' = 0
  /\ UNCHANGED <<monotonic, remain>>

\* Timeout or Remain, called once.
Look ==
  /\ waiting = "no"
  /\ timer' = Polled
  /\ UNCHANGED <<monotonic, asked, age, lag, waiting, remain>>

\* Pause asks for the remaining time, which settles the object; a short one then
\* only sleeps, a longer one uses the object for its own loop.
PauseShort(value) ==
  /\ waiting = "no"
  /\ value < MinPause
  /\ timer' = Polled
  /\ UNCHANGED <<monotonic, asked, age, lag, waiting, remain>>

PauseLong(value) ==
  /\ waiting = "no"
  /\ value >= MinPause
  /\ remain' = Remain
  /\ Set(value)
  /\ waiting' = "pause"
  /\ lag' = 0
  /\ UNCHANGED monotonic

\* The loop polls once more ...
Poll ==
  /\ waiting # "no"
  /\ ~Expired
  /\ lag' = 0
  /\ UNCHANGED <<monotonic, timer, asked, age, waiting, remain>>

\* ... or ends: the object is done, or its connection has come up first.
WaitEndsEarly ==
  /\ waiting = "set"
  /\ waiting' = "no"
  /\ lag' = 0
  /\ UNCHANGED <<monotonic, timer, asked, age, remain>>

WaitExpires ==
  /\ waiting = "set"
  /\ Expired
  /\ timer' = Polled
  /\ waiting' = "no"
  /\ lag' = 0
  /\ UNCHANGED <<monotonic, asked, age, remain>>

\* A pause ends with Set(TimeRemain - value), if there was time remaining, even
\* if the difference is 0 or negative, or happens to be the -1 that means never.
PauseExpires ==
  /\ waiting = "pause"
  /\ Expired
  /\ waiting' = "no"
  /\ lag' = 0
  /\ \/ remain = 0 /\ timer' = Polled /\ UNCHANGED <<asked, age>>
     \/ remain # 0 /\ remain - asked = Never /\ SetNever
     \/ remain # 0 /\ \E value \in Truncated(remain - asked) : SetActive(value)
  /\ remain' = 0
  /\ UNCHANGED monotonic

-----------------------------------------------------------------------------

\* What the threads of an application do.
UserStep ==
  \/ \E value \in Values \cup {Never} : SetOnly(value)
  \/ \E value \in Values : SetAndWait(value) \/ PauseShort(value) \/ PauseLong(value)
  \/ Look
  \/ Poll
  \/ WaitEndsEarly
  \/ WaitExpires
  \/ PauseExpires

Next == Tick \/ UserStep

Spec == Init /\ [][Next]_vars

-----------------------------------------------------------------------------
(* Properties.                                                             *)

\* The times that an int can hold: 24 days of the three years that
\* VTMR_MAXTIMEOUT would allow.
Representable == asked \in 0..(Wrap - 1)

\* For one turn of the counter, Remain (and with it Timeout) is exact, wherever
\* the counter stood when the object was set and wherever it wraps.
RemainExact ==
  timer.mode = "ACTIVE" /\ Representable /\ age < Wrap
    => Remain = IF age < asked THEN asked - age ELSE 0

\* However late it is looked at, a timer that is done was due.
NeverEarly == timer.mode = "DONE" /\ Representable => age >= asked

\* Elapsed is the time since Set up to turns of the counter.  The fields of the
\* readable time together are as long, but for a millisecond that the way over
\* seconds may cost and no more; and ElapsedMsec is what is left of them when the
\* years (as the int has them) and then whole minutes are taken off.
ElapsedExact ==
  asked # NotSet /\ age < Wrap =>
    /\ (age - Elapsed) % Wrap = 0
    /\ Elapsed >= 0 => \A now \in Truncated(Elapsed) :
         LET readable == ReadableTimer(now)
         IN  /\ readable.Years * Period.Years + readable.Months * Period.Months
                  + readable.Days * Period.Days + readable.Hours * Period.Hours
                  + readable.Minutes * Period.Minutes + ElapsedMsec(now)
                  \in {age - 1, age}
             /\ ElapsedMsec(now) = (now % Period.Years) % Period.Minutes

\* A loop until Timeout ends, unless the time is so long that the counter may
\* come round between two polls.
WaitEnds ==
  (waiting # "no" /\ asked \in 0..(Wrap - 1 - MaxLag)) ~> (waiting = "no")

\* "Maximum timeout in seconds" (inc/timer.h:31): longer times are cut to that
\* one, and a timer set to it is not done before.  False: it overflows an int.
MaxTimeoutHonoured ==
  timer.mode = "DONE" => age >= Lesser(asked, MaxTimeout)
=============================================================================
