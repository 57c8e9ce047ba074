------------------------------ MODULE Console ------------------------------
(***************************************************************************)
(* main.cpp: the console with its auto run, the callback that turns a      *)
(* sample into a temperature, and how long the exchanges take that both    *)
(* start.  XBeeHandler says what an exchange does on the line; here an     *)
(* attempt succeeds or fails, and time counts.                             *)
(*                                                                         *)
(* Abstractions.  Time is in half seconds, and whatever takes much less    *)
(* takes none: no time passes while a thread can go on.  The greeting over *)
(* ipcSocket is a Tx of SocketTx.  The port is open and configured:        *)
(* XBeeHandler has the other cases.  The commands 0, 1 and c, which differ *)
(* in what they send, are "status".                                        *)
(***************************************************************************)
EXTENDS Integers, Sequences, SequencesExt

CONSTANTS
  ThreadLimit,   \* the threads that the system lets the process have
  GlobalRetries, \* the argument of xbee_handler's constructor
  Size, Raw,     \* the sizes and the samples a frame may have
  MaxTyped,      \* bound: requests that are typed
  MaxFailures    \* bound: attempts that fail

ASSUME ConsoleAssumption ==
  /\ ThreadLimit \in Nat /\ GlobalRetries \in Nat \ {0}
  /\ Size \subseteq Nat /\ Raw \subseteq Nat
  /\ MaxTyped \in Nat /\ MaxFailures \in Nat

VARIABLES
  process,  \* "running", "exited", or what it crashed of
  stdin,    \* "open" or "eof"
  cmd,      \* human_cmd
  auto,     \* main is in the loop of the auto run
  due,      \* how long it still sleeps
  mutex,    \* recieve_mutex is locked
  waiting,  \* how many exchange threads wait for it, by their callback
  holders,  \* the threads that got it and have not unlocked it, as they came
  releasing, \* how many threads are between their two unlocks
  shown,    \* the sample just printed as "Temperature (2)", and as what
  typed,    \* the requests typed so far (history)
  failures  \* the attempts failed so far (history)

threads == <<waiting, holders, releasing>>
consoleVars == <<stdin, cmd, auto, due, typed>>
vars == <<process, mutex, threads, shown, failures, consoleVars>>

-----------------------------------------------------------------------------
(* Threads.                                                                *)

Command == {"t", "status", "a", "b", "q", "other"}

Callback == {"temp", "status"}

Live == waiting["temp"] + waiting["status"] + Len(holders) + releasing

NoneWaiting == [callback \in Callback |-> 0]

\* The process ends; the histories stay.
End(how) ==
  /\ process' = how
  /\ waiting' = NoneWaiting
  /\ holders' = <<>>
  /\ releasing' = 0

\* Fault: VTIME counts in seconds.
AttemptSlow == {2, 12}

\* Until an attempt is decided: sleep(1), and a read() that may wait for VTIME.
Attempt == {2, 3}

\* The resistance of the sensor, below its divider of 10 kOhm.
Ohm(raw) == (10230000 \div raw) - 10000

\* What to_temp2 returns: the logarithm of 0 gives the absolute zero, that of a
\* negative number none.
ToTemp2(raw) ==
  IF Ohm(raw) > 0 THEN "number"
  ELSE IF Ohm(raw) = 0 THEN "absolute_zero" ELSE "nan"

Nothing == [as |-> "nothing"]

\* Fault: one byte less passes.
IncompleteByOne(size) == size < 7

\* The "hot-fix" of get_temp_callback.
Incomplete(size) == size < 8

-----------------------------------------------------------------------------
(* The console.                                                            *)

Init ==
  /\ process = "running"
  /\ stdin = "open"
  /\ cmd = "other"
  /\ auto = FALSE
  /\ due = 0
  /\ mutex = FALSE
  /\ waiting = NoneWaiting
  /\ holders = <<>>
  /\ releasing = 0
  /\ shown = Nothing
  /\ typed = 0
  /\ failures = 0

\* send(): a thread more, or an exception that nobody catches.
Send(callback) ==
  IF Live < ThreadLimit
  THEN /\ waiting' = [waiting EXCEPT ![callback] = @ + 1]
       /\ UNCHANGED <<process, holders, releasing>>
  ELSE End("out_of_threads")

\* What the switch does with a command; b ends in frame_constructer, which writes
\* to element 0 of an empty vector.
Obey(c) ==
  \/ c = "t" /\ Send("temp") /\ UNCHANGED auto
  \/ c = "status" /\ Send("status") /\ UNCHANGED auto
  \/ c = "a" /\ auto' = TRUE /\ UNCHANGED <<process, threads>>
  \/ c = "b" /\ End("null_pointer") /\ UNCHANGED auto
  \/ c = "q" /\ End("exited") /\ UNCHANGED auto
  \/ c = "other" /\ UNCHANGED <<process, threads, auto>>

Prompt == process = "running" /\ ~auto

Type(c) ==
  /\ Prompt
  /\ stdin = "open"
  /\ cmd' = c
  /\ Obey(c)
  /\ typed' = IF c \in {"t", "status"} THEN typed + 1 ELSE typed
  /\ typed' <= MaxTyped
  /\ UNCHANGED <<stdin, due, mutex, shown, failures>>

EndOfInput ==
  /\ Prompt
  /\ stdin = "open"
  /\ stdin' = "eof"
  /\ UNCHANGED <<process, mutex, threads, shown, failures, cmd, auto, due, typed>>

\* At the end of the input cin leaves human_cmd as it is, and the loop goes on.
Repeat ==
  /\ Prompt
  /\ stdin = "eof"
  /\ Obey(cmd)
  /\ UNCHANGED <<stdin, cmd, due, mutex, shown, typed, failures>>

\* Fault: sleep(2).
AutoSendOften ==
  /\ process = "running" /\ auto /\ due = 0
  /\ Send("temp")
  /\ due' = 4
  /\ UNCHANGED <<stdin, cmd, auto, mutex, shown, typed, failures>>

\* Auto run: send, sleep(4), for ever; cin is not read any more.
AutoSend ==
  /\ process = "running" /\ auto /\ due = 0
  /\ Send("temp")
  /\ due' = 8
  /\ UNCHANGED <<stdin, cmd, auto, mutex, shown, typed, failures>>

-----------------------------------------------------------------------------
(* The exchange threads.                                                   *)

\* The lock_guard, sleep(1) and the first attempt.
Lock(callback) ==
  /\ waiting[callback] > 0 /\ ~mutex
  /\ mutex' = TRUE
  /\ waiting' = [waiting EXCEPT ![callback] = @ - 1]
  /\ \E left \in Attempt :
       holders' = Append(holders, [callback |-> callback, left |-> 2 + left,
                                   retries |-> GlobalRetries])
  /\ UNCHANGED <<process, releasing, shown, failures, consoleVars>>

\* The attempt is over; with no retries left, the loop is.
Decided(i) == holders[i].left = 0 /\ holders[i].retries > 0

\* receive() returns false: sleep(3) and one retry less, down to 0.
Fail(i) ==
  /\ Decided(i)
  /\ failures < MaxFailures
  /\ failures' = failures + 1
  /\ \E left \in IF holders[i].retries = 1 THEN {0} ELSE Attempt :
       holders' = [holders EXCEPT ![i].left = 6 + left, ![i].retries = @ - 1]
  /\ UNCHANGED <<process, mutex, waiting, releasing, shown, consoleVars>>

\* The loop is over: recieve_mutex.unlock(), the first of two.
Unlock(i) ==
  /\ mutex' = FALSE
  /\ holders' = RemoveAt(holders, i)
  /\ releasing' = releasing + 1
  /\ UNCHANGED waiting

\* What get_temp_callback does with a frame: .at() throws if there is no byte 6 or
\* 7, and a sample of 0 is a division by zero, which raises a signal or yields 0,
\* depending on the processor.
Outcome(size, raw) ==
  IF Incomplete(size) THEN {"nothing"}
  ELSE IF size < 8 THEN {"out_of_range"}
  ELSE IF raw = 0 THEN {"division_by_zero", "nan"}
  ELSE {ToTemp2(raw)}

\* receive() accepts a frame, whatever it answers, and calls the callback.
Succeed(i) ==
  /\ Decided(i)
  /\ UNCHANGED <<failures, consoleVars>>
  /\ \/ holders[i].callback = "status" /\ Unlock(i) /\ UNCHANGED <<process, shown>>
     \/ /\ holders[i].callback = "temp"
        /\ \E size \in Size, raw \in Raw :
             \E outcome \in Outcome(size, raw) :
               IF outcome \in {"out_of_range", "division_by_zero"}
               THEN End(outcome) /\ UNCHANGED <<mutex, shown>>
               ELSE /\ shown' = IF outcome = "nothing" THEN Nothing
                                ELSE [raw |-> raw, as |-> outcome]
                    /\ Unlock(i) /\ UNCHANGED process

GiveUp(i) ==
  /\ holders[i].left = 0 /\ holders[i].retries = 0
  /\ Unlock(i)
  /\ UNCHANGED <<process, shown, failures, consoleVars>>

\* The lock_guard unlocks once more, and the thread is gone.
Release ==
  /\ releasing > 0
  /\ mutex' = FALSE
  /\ releasing' = releasing - 1
  /\ UNCHANGED <<process, waiting, holders, shown, failures, consoleVars>>

Thread ==
  /\ process = "running"
  /\ \/ \E callback \in Callback : Lock(callback)
     \/ \E i \in DOMAIN holders : Fail(i) \/ Succeed(i) \/ GiveUp(i)
     \/ Release

-----------------------------------------------------------------------------

Older(holder) == [holder EXCEPT !.left = @ - 1]

\* Half a second goes by, when nothing is left to do before it does.
Tick ==
  /\ process = "running"
  /\ auto => due > 0
  /\ stdin = "eof" /\ ~auto => cmd \notin {"t", "status"}
  /\ mutex \/ waiting = NoneWaiting
  /\ releasing = 0
  /\ \A i \in DOMAIN holders : holders[i].left > 0
  /\ due' = IF auto THEN due - 1 ELSE due
  /\ holders' = [i \in DOMAIN holders |-> Older(holders[i])]
  /\ shown' = Nothing
  /\ UNCHANGED <<process, stdin, cmd, auto, mutex, waiting, releasing, typed, failures>>

Next ==
  \/ \E c \in Command : Type(c)
  \/ EndOfInput
  \/ Repeat
  \/ AutoSend
  \/ Thread
  \/ Tick

Spec == Init /\ [][Next]_vars

\* Time goes on, which it does only once every thread has done what it can; nobody has
\* to type.
FairSpec ==
  /\ Spec
  /\ WF_vars(Tick) /\ WF_vars(AutoSend) /\ WF_vars(Thread)

-----------------------------------------------------------------------------
(* Properties.                                                             *)

\* The threads that wait are bounded by the attempts that failed: each holds up the
\* line for 4.5 s at most, in which the auto run (main.cpp:211-214) adds one thread
\* or two, and the second unlock never makes it worse.
BacklogBounded ==
  process = "running" /\ stdin = "open" =>
    Live <= 1 + typed + (5 + 9 * failures) \div 8

\* "Sample remote temp every 4 sec forever" (main.cpp:209): once the attempts
\* stop failing the auto run catches up, and from then on each sample is over
\* before the next one is asked for.
AutoRunCatchesUp == <>[](process = "running" /\ auto => Live <= 1)

\* "Hot-Fix to ensure no overflow" (main.cpp:103), and what is shown is a number
\* for every sample of the sensor's range and for no other one.
TemperatureSound ==
  /\ process # "out_of_range"
  /\ shown # Nothing => (shown.as = "number" <=> shown.raw \in 1..1022)
=============================================================================
