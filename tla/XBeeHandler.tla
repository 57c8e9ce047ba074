---------------------------- MODULE XBeeHandler ----------------------------
(***************************************************************************)
(* The XBee exchange engine: XBeeHandler::init, send, exchange_thread and  *)
(* receive (XBeeHandler.cpp, XBeeHandler.h), the tty they share and, as an *)
(* environment, the local XBee module and the node behind it.              *)
(*                                                                         *)
(* Every call of send() starts a detached thread.  A thread takes          *)
(* recieve_mutex, writes one AT command frame to the tty, reads the tty    *)
(* and repeats both until receive() returns true or the retry counter is   *)
(* used up.  It then unlocks recieve_mutex itself, and the destructor of   *)
(* its lock_guard unlocks it a second time.                                *)
(*                                                                         *)
(* Abstractions.  A frame is a record that names the request it answers    *)
(* (the code cannot see that: every request carries frame id 0x01 and      *)
(* receive() compares no field with the request).  A frame comes over the  *)
(* UART in two pieces, so that a read() may fall between them; all pieces  *)
(* present fit in the 128 bytes of one read().  A damaged, partial or      *)
(* multiple frame never has a valid checksum.  Time is left out: sleep()   *)
(* only widens the windows in which other steps may happen.                *)
(***************************************************************************)
EXTENDS Integers, Sequences, FiniteSets

CONSTANTS
  Exchange,       \* the calls of send(); each is an exchange_thread
  GlobalRetries,  \* global_retries, the constructor's argument
  Word,           \* how many values a uint32_t has (2^32 in the program)
  Status,         \* the values of a response's status byte told apart
  MaxUnsolicited  \* bound: frames the module emits without being asked

ASSUME WordAssumption == Word \in Nat \ {0}
ASSUME RetriesAssumption == GlobalRetries \in 0..(Word - 1)
ASSUME StatusAssumption == Status \subseteq {"ok", "error", "other"}
ASSUME UnsolicitedAssumption == MaxUnsolicited \in Nat

VARIABLES
  process,    \* "starting", "running", "exited" or "crashed"
  serial,     \* what serial_fd is: see Serial
  mutex,      \* recieve_mutex is locked; the mutex records no owner
  pc,         \* pc[e]: where thread e stands in exchange_thread
  retries,    \* retries[e]: the local of that name
  buf,        \* buf[e]: what read() stored in receive()'s local buffer
  delivered,  \* delivered[e]: the frames handed to e's callback, in order
  attempts,   \* attempts[e]: how many frames e has written (history)
  output,     \* requests written to the tty, not yet transmitted
  air,        \* frames on their way from the module to the tty
  arriving,   \* the frame of which the UART has passed only the first half
  input,      \* pieces of frames in the tty's input queue
  unsolicited \* how many frames came without a request (bounded)

threadVars == <<mutex, pc, retries, buf, delivered, attempts>>
lineVars == <<output, air, arriving, input, unsolicited>>
vars == <<process, serial, threadVars, lineVars>>

-----------------------------------------------------------------------------
(* Frames and pieces of frames.                                            *)

\* The remote AT response to one transmission of a request; status byte 0x00 is
\* "ok", 0x01 "error" and the rest "other".
Reply(e, k, s) == [kind |-> "reply", req |-> e, attempt |-> k, status |-> s]

\* A frame nobody asked for: a modem status (2 bytes of payload, shorter than
\* the 15 receive() subtracts) or one long enough to pass for a response.
Extra(kind, n) == [kind |-> kind, number |-> n, status |-> "ok"]

ReplyFrame ==
  [kind : {"reply"}, req : Exchange, attempt : Nat \ {0}, status : Status]
ExtraFrame == [kind : {"modem", "sample"}, number : Nat \ {0}, status : {"ok"}]
Frame == ReplyFrame \cup ExtraFrame

FirstHalf(f) == <<f, "first">>
SecondHalf(f) == <<f, "second">>
Piece == Frame \X {"first", "second"}

-----------------------------------------------------------------------------
(* The state machine's vocabulary.                                         *)

Serial == {"unopened", "invalid", "unconfigured", "configured"}

Critical == {"prepare", "write", "flush", "read", "parse", "retry", "unlock"}
Finished == {"release", "done"}
Location == {"idle", "lock"} \cup Critical \cup Finished

NoFrame == [kind |-> "none"]

Running == process = "running"

\* e is at `from' in a live process and goes on at `to'.
Step(e, from, to) ==
  /\ Running
  /\ pc[e] = from
  /\ pc' = [pc EXCEPT ![e] = to]

\* That the process ends takes its memory and its descriptor with it, and nobody
\* looks at the line any more.  The histories stay, as what has happened.
End(how) ==
  /\ Running
  /\ process' = how
  /\ mutex' = FALSE
  /\ retries' = [e \in Exchange |-> 0]
  /\ buf' = [e \in Exchange |-> {}]
  /\ output' = {}
  /\ air' = {}
  /\ arriving' = NoFrame
  /\ input' = {}
  /\ UNCHANGED <<serial, pc, delivered, attempts, unsolicited>>

\* Fault: the counter does not wrap around.
RedundancySigned(r) == r - 1

\* Fault: the counter is decremented twice.
RedundancyOffByOne(r) == IF r = 0 THEN 0 ELSE (r - 2) % Word

\* The lambda `redundancy': one retry less, in uint32_t arithmetic.
Redundancy(r) == (r - 1) % Word

\* receive()'s checksum test: it holds for one whole frame and nothing else.
Holds(b, f) == b = {FirstHalf(f), SecondHalf(f)}

\* receive() rejects status 0x01 and a bad checksum, and accepts the rest: 0x00,
\* and every other status as "UNKNOWN".
Accepted(b, f) == Holds(b, f) /\ f.status # "error"

\* The frames that buffer b could be taken for.
FramesIn(b) == {p[1] : p \in b}
Rejected(b) == \A f \in FramesIn(b) : ~Accepted(b, f)

\* Fault: the bytes stay in the input queue.
LeftByPeek(in) == in

\* What a read() leaves in the input queue.
LeftByRead(in) == {}

-----------------------------------------------------------------------------
(* The program's steps.                                                    *)

Init ==
  /\ process = "starting"
  /\ serial = "unopened"
  /\ mutex = FALSE
  /\ pc = [e \in Exchange |-> "idle"]
  /\ retries = [e \in Exchange |-> 0]
  /\ buf = [e \in Exchange |-> {}]
  /\ delivered = [e \in Exchange |-> <<>>]
  /\ attempts = [e \in Exchange |-> 0]
  /\ output = {}
  /\ air = {}
  /\ arriving = NoFrame
  /\ input = {}
  /\ unsolicited = 0

\* init(): open() may fail (serial_fd = -1), tcgetattr() or tcsetattr() may fail
\* (a descriptor with its old settings).  main() ignores the result.
OpenPort(s) ==
  /\ process = "starting"
  /\ serial' = s
  /\ process' = "running"
  /\ UNCHANGED <<threadVars, lineVars>>

\* send(): a detached thread; nothing limits how many there are.
Send(e) ==
  /\ Step(e, "idle", "lock")
  /\ UNCHANGED <<process, serial, mutex, retries, buf, delivered, attempts,
                 lineVars>>

\* Fault: the thread does not wait for recieve_mutex.
LockUnguarded(e) ==
  /\ Step(e, "lock", "prepare")
  /\ mutex' = TRUE
  /\ UNCHANGED <<process, serial, retries, buf, delivered, attempts, lineVars>>

\* The lock_guard takes recieve_mutex.
LockReceive(e) ==
  /\ ~mutex
  /\ Step(e, "lock", "prepare")
  /\ mutex' = TRUE
  /\ UNCHANGED <<process, serial, retries, buf, delivered, attempts, lineVars>>

\* sleep(1), the frame is built, the retry counter is set.
PrepareFrame(e) ==
  /\ serial # "invalid"
  /\ Step(e, "prepare", "write")
  /\ retries' = [retries EXCEPT ![e] = GlobalRetries]
  /\ UNCHANGED <<process, serial, mutex, buf, delivered, attempts, lineVars>>

\* serial_fd == -1: exit(EXIT_FAILURE), from the thread, for the whole process.
ExitOnBadPort(e) ==
  /\ pc[e] = "prepare"
  /\ serial = "invalid"
  /\ End("exited")

\* write(); its result is not looked at.  A write that fails is one that is
\* never transmitted.  Then sleep(1).
WriteFrame(e) ==
  /\ Step(e, "write", "flush")
  /\ attempts' = [attempts EXCEPT ![e] = @ + 1]
  /\ output' = output \cup {<<e, attempts[e] + 1>>}
  /\ UNCHANGED <<process, serial, mutex, retries, buf, delivered, air, arriving,
                 input, unsolicited>>

\* tcflush(TCOFLUSH) drops whatever is not transmitted yet, whoever wrote it.
FlushOutput(e) ==
  /\ Step(e, "flush", "read")
  /\ output' = {}
  /\ UNCHANGED <<process, serial, mutex, retries, buf, delivered, attempts, air,
                 arriving, input, unsolicited>>

\* Fault: read() has no timeout.
ReadBytesBlocking(e) ==
  /\ input # {}
  /\ Step(e, "read", "parse")
  /\ buf' = [buf EXCEPT ![e] = input]
  /\ input' = LeftByRead(input)
  /\ UNCHANGED <<process, serial, mutex, retries, delivered, attempts, output,
                 air, arriving, unsolicited>>

\* read() takes what the tty holds, or nothing at all once VTIME is over; without
\* init()'s settings it waits for input.
ReadBytes(e) ==
  /\ input # {} \/ serial = "configured"
  /\ Step(e, "read", "parse")
  /\ buf' = [buf EXCEPT ![e] = input]
  /\ input' = LeftByRead(input)
  /\ UNCHANGED <<process, serial, mutex, retries, delivered, attempts, output,
                 air, arriving, unsolicited>>

\* read() returns -1.
ReadError(e) ==
  /\ Step(e, "read", "retry")
  /\ UNCHANGED <<process, serial, mutex, retries, buf, delivered, attempts,
                 lineVars>>

\* receive() returns false for what it read: status 0x01 or a bad checksum.
Reject(e) ==
  /\ Rejected(buf[e])
  /\ Step(e, "parse", "retry")
  /\ buf' = [buf EXCEPT ![e] = {}]
  /\ UNCHANGED <<process, serial, mutex, retries, delivered, attempts, lineVars>>

\* A valid frame: tcflush(TCIFLUSH), the callback, receive() returns true and
\* the loop ends with retries = 0.
Accept(e) ==
  \E f \in FramesIn(buf[e]) :
    /\ Accepted(buf[e], f) /\ f.kind # "modem"
    /\ Step(e, "parse", "unlock")
    /\ buf' = [buf EXCEPT ![e] = {}]
    /\ input' = {}
    /\ delivered' = [delivered EXCEPT ![e] = Append(@, f)]
    /\ retries' = [retries EXCEPT ![e] = 0]
    /\ UNCHANGED <<process, serial, mutex, attempts, output, air, arriving,
                   unsolicited>>

\* A valid frame of fewer than 15 bytes: the array data has a negative length,
\* and the loop over it runs off the stack.
CrashOnShortFrame(e) ==
  /\ pc[e] = "parse"
  /\ \E f \in FramesIn(buf[e]) : Accepted(buf[e], f) /\ f.kind = "modem"
  /\ End("crashed")

\* receive() returned false: sleep(3), one retry less, again while any are left.
Retry(e) ==
  /\ Step(e, "retry", IF Redundancy(retries[e]) > 0 THEN "write" ELSE "unlock")
  /\ retries' = [retries EXCEPT ![e] = Redundancy(@)]
  /\ UNCHANGED <<process, serial, mutex, buf, delivered, attempts, lineVars>>

\* recieve_mutex.unlock().
Unlock(e) ==
  /\ Step(e, "unlock", "release")
  /\ mutex' = FALSE
  /\ UNCHANGED <<process, serial, retries, buf, delivered, attempts, lineVars>>

\* The lock_guard's destructor unlocks once more.  That is undefined; the mutex
\* the program is built with has no owner check and is simply left unlocked,
\* even when another thread has locked it in between.
ReleaseGuard(e) ==
  /\ Step(e, "release", "done")
  /\ mutex' = FALSE
  /\ UNCHANGED <<process, serial, retries, buf, delivered, attempts, lineVars>>

\* main() leaves with exit(); detached threads end where they are.
Quit == End("exited")

-----------------------------------------------------------------------------
(* The environment: the local module, the radio and the end node.          *)

\* A request leaves the tty.  The reply is on its way; lost is never to arrive.
Transmit(e, k, s) ==
  /\ <<e, k>> \in output
  /\ output' = output \ {<<e, k>>}
  /\ air' = air \cup {Reply(e, k, s)}
  /\ UNCHANGED <<process, serial, threadVars, arriving, input, unsolicited>>

\* The module reports something of its own.
Unsolicited(kind) ==
  /\ unsolicited < MaxUnsolicited
  /\ unsolicited' = unsolicited + 1
  /\ air' = air \cup {Extra(kind, unsolicited + 1)}
  /\ UNCHANGED <<process, serial, threadVars, output, arriving, input>>

\* The first half of a frame reaches the tty ...
ArriveFirst(f) ==
  /\ f \in air
  /\ arriving = NoFrame
  /\ air' = air \ {f}
  /\ arriving' = f
  /\ input' = input \cup {FirstHalf(f)}
  /\ UNCHANGED <<process, serial, threadVars, output, unsolicited>>

\* ... and the second half follows it, with nothing in between.
ArriveSecond ==
  /\ arriving # NoFrame
  /\ arriving' = NoFrame
  /\ input' = input \cup {SecondHalf(arriving)}
  /\ UNCHANGED <<process, serial, threadVars, output, air, unsolicited>>

-----------------------------------------------------------------------------

Thread(e) ==
  \/ LockReceive(e)
  \/ PrepareFrame(e)
  \/ ExitOnBadPort(e)
  \/ WriteFrame(e)
  \/ FlushOutput(e)
  \/ ReadBytes(e)
  \/ Reject(e)
  \/ Accept(e)
  \/ CrashOnShortFrame(e)
  \/ Retry(e)
  \/ Unlock(e)
  \/ ReleaseGuard(e)

Environment ==
  /\ Running
  /\ \/ \E r \in output, s \in Status : Transmit(r[1], r[2], s)
     \/ \E kind \in {"modem", "sample"} : Unsolicited(kind)
     \/ \E f \in air : ArriveFirst(f)
     \/ ArriveSecond

Next ==
  \/ \E s \in Serial \ {"unopened"} : OpenPort(s)
  \/ \E e \in Exchange : Send(e) \/ Thread(e) \/ ReadError(e)
  \/ Quit
  \/ Environment

Spec == Init /\ [][Next]_vars

\* The kernel schedules every thread of the process.  A thread that waits for
\* recieve_mutex gets its turn because only finitely many others do.  Nothing
\* obliges main() to send or to quit, the module to answer or read() to fail.
Fairness == \A e \in Exchange : WF_vars(Thread(e))
FairSpec == Spec /\ Fairness

-----------------------------------------------------------------------------
(* Properties.                                                             *)

\* The types of the variables.
TypeOK ==
  /\ process \in {"starting", "running", "exited", "crashed"}
  /\ serial \in Serial
  /\ mutex \in BOOLEAN
  /\ pc \in [Exchange -> Location]
  /\ retries \in [Exchange -> 0..(Word - 1)]
  /\ buf \in [Exchange -> SUBSET Piece]
  /\ delivered \in [Exchange -> Seq(Frame)]
  /\ attempts \in [Exchange -> Nat]
  /\ output \subseteq Exchange \X (Nat \ {0})
  /\ air \subseteq Frame
  /\ arriving \in Frame \cup {NoFrame}
  /\ input \subseteq Piece
  /\ unsolicited \in 0..MaxUnsolicited

\* The threads between taking recieve_mutex and unlocking it.
Owners == {e \in Exchange : pc[e] \in Critical}
Done == {e \in Exchange : pc[e] = "done"}

\* "Lock mutex to make exchange thread-safe" (XBeeHandler.cpp:86): at most one
\* thread at a time uses the serial line.  True of two calls of send(), false
\* of three.
MutualExclusion == \A e1, e2 \in Owners : e1 = e2

\* How far the second unlock can undermine the mutex: every thread that has
\* ended may have let in one thread too many, and nothing else does.
IntrudersBounded == Cardinality(Owners) <= 1 + Cardinality(Done)

\* No frame read from the line reaches two callbacks, or one callback twice,
\* even when several threads read at the same time.
DeliveredOnce ==
  \A e1, e2 \in Exchange :
    \A i \in DOMAIN delivered[e1], j \in DOMAIN delivered[e2] :
      delivered[e1][i] = delivered[e2][j] => e1 = e2 /\ i = j

\* How often the do-while loop may write.  A counter that starts at 0 wraps
\* around, and the loop goes through all the values of a uint32_t.
AttemptBudget == IF GlobalRetries = 0 THEN Word ELSE GlobalRetries

\* A thread writes its frame at most AttemptBudget times, and one that ends
\* without having called its callback has written it exactly so often: no
\* failed read, lost reply or interleaving makes it give up early.
RetriesExact ==
  \A e \in Exchange :
    /\ attempts[e] <= AttemptBudget
    /\ pc[e] \in {"unlock"} \cup Finished /\ delivered[e] = <<>>
         => attempts[e] = AttemptBudget

\* A callback gets the reply to its own request ("parse the temperature data
\* received from the end node", main.cpp:100).  False: nothing in receive()
\* ties a frame to a request.
OwnReplyOnly ==
  \A e \in Exchange :
    \A i \in DOMAIN delivered[e] :
      delivered[e][i].kind = "reply" /\ delivered[e][i].req = e

\* While the mutex does its work, a foreign reply is a late one: the thread
\* that asked for it has already ended.
ForeignReplyIsLate ==
  \A e \in Exchange :
    \A i \in DOMAIN delivered[e] :
      delivered[e][i].kind = "reply" /\ delivered[e][i].req # e
        => pc[delivered[e][i].req] \in Finished

\* Every exchange ends, or the process does, provided init() has set the read
\* timeout: no lost reply, late reply or stray unlock blocks a thread for good.
EveryExchangeEnds ==
  \A e \in Exchange :
    pc[e] = "lock" /\ serial = "configured" ~> pc[e] = "done" \/ ~Running
=============================================================================
