----------------------- MODULE XBeeRefinement_proofs -----------------------
(***************************************************************************)
(* No frame is delivered twice, and XBeeHandler implements ExchangeService,*)
(* for any set of exchanges, any retry count and any width of the counter. *)
(***************************************************************************)
EXTENDS XBeeHandler_proofs

-----------------------------------------------------------------------------
(* Where a frame is.                                                       *)

\* f has been handed to the callback of e.
Given(e, f) == \E i \in DOMAIN delivered[e] : delivered[e][i] = f

\* The first half of f is on its way, in the tty, in a buffer, or was delivered.
Seen(f) ==
  \/ f \in air
  \/ FirstHalf(f) \in input
  \/ \E e \in Exchange : FirstHalf(f) \in buf[e] \/ Given(e, f)

\* The numbers that identify a frame.  Those of a frame to come are new.
Past(f) ==
  IF f.kind = "reply"
  THEN f.attempt <= attempts[f.req] /\ <<f.req, f.attempt>> \notin output
  ELSE f.number <= unsolicited

HistoryInv ==
  /\ \A f \in Frame : Seen(f) => Past(f)
  /\ \A r \in output : r[2] <= attempts[r[1]]

\* The inductive form of DeliveredOnce: the first half of a frame is in one
\* place at most, and no callback gets two frames.
OnePlaceOf(f) ==
  /\ f \in air => FirstHalf(f) \notin input
  /\ f \in air \/ FirstHalf(f) \in input
       => \A e \in Exchange : FirstHalf(f) \notin buf[e] /\ ~Given(e, f)
  /\ \A e, d \in Exchange :
       FirstHalf(f) \in buf[e]
         => (FirstHalf(f) \in buf[d] => e = d) /\ ~Given(d, f)
  /\ \A e, d \in Exchange : Given(e, f) /\ Given(d, f) => e = d

FrameInv ==
  /\ HistoryInv
  /\ \A f \in Frame : OnePlaceOf(f)
  /\ \A e \in Exchange : Len(delivered[e]) <= 1

LEMMA HalvesDiffer ==
  \A f, g : /\ FirstHalf(f) # SecondHalf(g)
            /\ FirstHalf(f) = FirstHalf(g) => f = g
BY DEF FirstHalf, SecondHalf

\* Steps that move no first half forward and write no request: frames may get
\* lost, requests may be dropped.
LEMMA FrameInvLoss ==
  ASSUME TypeOK, FrameInv, UNCHANGED <<delivered, attempts, unsolicited>>,
         air' \subseteq air, output' \subseteq output,
         \A f \in Frame : FirstHalf(f) \in input' => FirstHalf(f) \in input,
         \A e \in Exchange : buf'[e] \subseteq buf[e]
  PROVE  FrameInv'
<1>1. \A e, f : Given(e, f)' <=> Given(e, f)
  BY DEF Given
<1>2. \A f \in Frame : Seen(f)' => Seen(f)
  BY <1>1 DEF Seen
<1>3. \A f \in Frame : Past(f) => Past(f)'
  BY DEF Past
<1>4. HistoryInv'
  BY <1>2, <1>3 DEF FrameInv, HistoryInv
<1>5. \A f \in Frame : OnePlaceOf(f)'
  BY <1>1 DEF FrameInv, OnePlaceOf
<1>6. QED
  BY <1>4, <1>5 DEF FrameInv

\* A new frame starts on its way.
LEMMA FrameInvNew ==
  ASSUME TypeOK, FrameInv, NEW n \in Frame, ~Seen(n), Past(n)',
         air' = air \cup {n}, UNCHANGED <<input, buf, delivered, attempts>>,
         output' \subseteq output, unsolicited' \in Nat, unsolicited' >= unsolicited
  PROVE  FrameInv'
<1>1. \A e, f : Given(e, f)' <=> Given(e, f)
  BY DEF Given
<1>2. \A f \in Frame : Seen(f)' => Seen(f) \/ f = n
  BY <1>1 DEF Seen
<1>3. \A f \in Frame : Past(f) => Past(f)'
  <2> SUFFICES ASSUME NEW f \in Frame, Past(f)
               PROVE  Past(f)'
    OBVIOUS
  <2>1. CASE f.kind = "reply"
    BY <2>1 DEF Past
  <2>2. CASE f.kind # "reply"
    <3>1. f.number \in Nat
      BY <2>2 DEF Frame, ReplyFrame, ExtraFrame
    <3> QED
      BY <2>2, <3>1, UnsolicitedAssumption DEF Past, TypeOK
  <2> QED
    BY <2>1, <2>2
<1>4. HistoryInv'
  BY <1>2, <1>3 DEF FrameInv, HistoryInv
<1>5. \A f \in Frame : OnePlaceOf(f)'
  BY <1>1 DEF FrameInv, OnePlaceOf, Seen
<1>6. QED
  BY <1>4, <1>5 DEF FrameInv

\* Accept hands over one frame, which the thread's buffer held.
LEMMA AcceptGives ==
  ASSUME TypeOK, RetryInv, NEW e \in Exchange, Accept(e)
  PROVE  \E f \in Frame :
           /\ FirstHalf(f) \in buf[e]
           /\ Step(e, "parse", "unlock")
           /\ buf' = [buf EXCEPT ![e] = {}]
           /\ input' = {}
           /\ delivered[e] = <<>>
           /\ delivered' = [delivered EXCEPT ![e] = <<f>>]
           /\ \A d \in Exchange : \A g :
                Given(d, g)' <=> Given(d, g) \/ (d = e /\ g = f)
           /\ UNCHANGED <<attempts, output, air, unsolicited>>
<1>1. PICK f \in FramesIn(buf[e]) :
        /\ Accepted(buf[e], f)
        /\ Step(e, "parse", "unlock")
        /\ buf' = [buf EXCEPT ![e] = {}]
        /\ input' = {}
        /\ delivered' = [delivered EXCEPT ![e] = Append(@, f)]
        /\ UNCHANGED <<attempts, output, air, unsolicited>>
  BY DEF Accept
<1>2. f \in Frame /\ FirstHalf(f) \in buf[e]
  BY <1>1, FrameTypes DEF TypeOK, Accepted, Holds
<1>3. delivered[e] = <<>>
  BY <1>1 DEF Step, RetryInv, RetryInvOf, AfterLoop, Finished
<1>4. delivered' = [delivered EXCEPT ![e] = <<f>>]
  BY <1>1, <1>3
<1>5. \A d \in Exchange : \A g :
        Given(d, g)' <=> Given(d, g) \/ (d = e /\ g = f)
  <2> SUFFICES ASSUME NEW d \in Exchange, NEW g
               PROVE  Given(d, g)' <=> Given(d, g) \/ (d = e /\ g = f)
    OBVIOUS
  <2>1. CASE d = e
    <3>1. DOMAIN delivered[e] = {} /\ delivered'[e] = <<f>>
      BY <1>3, <1>4 DEF TypeOK
    <3>2. DOMAIN <<f>> = {1} /\ <<f>>[1] = f
      OBVIOUS
    <3> QED
      BY <2>1, <3>1, <3>2 DEF Given
  <2>2. CASE d # e
    <3>1. delivered'[d] = delivered[d]
      BY <1>4, <2>2 DEF TypeOK
    <3> QED
      BY <2>2, <3>1 DEF Given
  <2> QED
    BY <2>1, <2>2
<1> QED
  BY <1>1, <1>2, <1>3, <1>4, <1>5

LEMMA FrameInvStep == TypeOK /\ RetryInv /\ FrameInv /\ [Next]_vars => FrameInv'
<1> SUFFICES ASSUME TypeOK, RetryInv, FrameInv, [Next]_vars
             PROVE  FrameInv'
  OBVIOUS
<1>1. ASSUME UNCHANGED <<buf, delivered, attempts, lineVars>>
      PROVE  FrameInv'
  BY <1>1, FrameInvLoss DEF lineVars
<1>2. ASSUME NEW how \in {"exited", "crashed"}, End(how)
      PROVE  FrameInv'
  <2>1. /\ UNCHANGED <<delivered, attempts, unsolicited>>
        /\ air' \subseteq air /\ output' \subseteq output
        /\ \A f \in Frame : FirstHalf(f) \in input' => FirstHalf(f) \in input
        /\ \A e \in Exchange : buf'[e] \subseteq buf[e]
    BY <1>2 DEF End
  <2> QED
    BY <2>1, FrameInvLoss
<1>3. ASSUME NEW e \in Exchange, FlushOutput(e) \/ Reject(e)
      PROVE  FrameInv'
  <2>1. /\ UNCHANGED <<delivered, attempts, unsolicited, air, input>>
        /\ output' \subseteq output
        /\ \A d \in Exchange : buf'[d] \subseteq buf[d]
    BY <1>3 DEF FlushOutput, Reject, TypeOK, lineVars
  <2> QED
    BY <2>1, FrameInvLoss
<1>4. ASSUME NEW e \in Exchange, WriteFrame(e)
      PROVE  FrameInv'
  <2>1. /\ attempts' = [attempts EXCEPT ![e] = @ + 1]
        /\ output' = output \cup {<<e, attempts[e] + 1>>}
        /\ UNCHANGED <<buf, delivered, air, input, unsolicited>>
    BY <1>4 DEF WriteFrame
  <2>2. \A d, f : Given(d, f)' <=> Given(d, f)
    BY <2>1 DEF Given
  <2>3. \A f \in Frame : Past(f) => Past(f)'
    <3> SUFFICES ASSUME NEW f \in Frame, Past(f)
                 PROVE  Past(f)'
      OBVIOUS
    <3>1. CASE f.kind = "reply"
      <4>1. f.req \in Exchange /\ f.attempt \in Nat
        BY <3>1 DEF Frame, ReplyFrame, ExtraFrame
      <4>2. f.attempt <= attempts[f.req] /\ <<f.req, f.attempt>> \notin output
        BY <3>1 DEF Past
      <4>3. f.attempt <= attempts'[f.req]
        BY <2>1, <4>1, <4>2 DEF TypeOK
      <4>4. <<f.req, f.attempt>> # <<e, attempts[e] + 1>>
        BY <4>1, <4>2 DEF TypeOK
      <4> QED
        BY <2>1, <3>1, <4>2, <4>3, <4>4 DEF Past
    <3>2. CASE f.kind # "reply"
      BY <2>1, <3>2 DEF Past
    <3> QED
      BY <3>1, <3>2
  <2>4. \A f \in Frame : Seen(f)' => Seen(f)
    BY <2>1, <2>2 DEF Seen
  <2>5. \A r \in output' : r[2] <= attempts'[r[1]]
    BY <2>1 DEF FrameInv, HistoryInv, TypeOK
  <2>6. \A f \in Frame : OnePlaceOf(f)'
    BY <2>1, <2>2 DEF FrameInv, OnePlaceOf
  <2> QED
    BY <2>1, <2>3, <2>4, <2>5, <2>6 DEF FrameInv, HistoryInv
<1>5. ASSUME NEW e \in Exchange, ReadBytes(e)
      PROVE  FrameInv'
  <2>1. /\ buf' = [buf EXCEPT ![e] = input] /\ input' = {}
        /\ UNCHANGED <<delivered, attempts, output, air, unsolicited>>
    BY <1>5 DEF ReadBytes, LeftByRead
  <2>2. \A d, f : Given(d, f)' <=> Given(d, f)
    BY <2>1 DEF Given
  <2>3. \A f \in Frame : (Seen(f)' => Seen(f)) /\ (Past(f) => Past(f)')
    BY <2>1, <2>2 DEF Seen, Past, TypeOK
  <2>4. \A f \in Frame : OnePlaceOf(f)'
    BY <2>1, <2>2 DEF FrameInv, OnePlaceOf, TypeOK
  <2> QED
    BY <2>1, <2>3, <2>4 DEF FrameInv, HistoryInv
<1>6. ASSUME NEW e \in Exchange, Accept(e)
      PROVE  FrameInv'
  <2>1. PICK f \in Frame :
          /\ FirstHalf(f) \in buf[e]
          /\ buf' = [buf EXCEPT ![e] = {}] /\ input' = {}
          /\ delivered' = [delivered EXCEPT ![e] = <<f>>]
          /\ \A d \in Exchange : \A g :
               Given(d, g)' <=> Given(d, g) \/ (d = e /\ g = f)
          /\ UNCHANGED <<attempts, output, air, unsolicited>>
    BY <1>6, AcceptGives
  <2>2. \A g \in Frame : (Seen(g)' => Seen(g)) /\ (Past(g) => Past(g)')
    BY <2>1 DEF Seen, Past, TypeOK
  <2>3. \A g \in Frame : OnePlaceOf(g)'
    <3> SUFFICES ASSUME NEW g \in Frame
                 PROVE  OnePlaceOf(g)'
      OBVIOUS
    <3>1. OnePlaceOf(g)
      BY DEF FrameInv
    <3>2. \A d \in Exchange : FirstHalf(g) \in buf'[d] => FirstHalf(g) \in buf[d] /\ d # e
      BY <2>1 DEF TypeOK
    <3>3. FirstHalf(g) \notin input' /\ air' = air
      BY <2>1
    <3>4. CASE g = f
      <4>1. /\ f \notin air /\ \A d \in Exchange : ~Given(d, f)
            /\ \A d \in Exchange : FirstHalf(f) \in buf[d] => d = e
        BY <2>1, <3>1, <3>4 DEF OnePlaceOf
      <4>2. \A d \in Exchange : FirstHalf(f) \notin buf'[d]
        BY <3>2, <3>4, <4>1
      <4>3. \A d \in Exchange : Given(d, f)' => d = e
        BY <2>1, <4>1
      <4> QED
        BY <3>3, <3>4, <4>1, <4>2, <4>3 DEF OnePlaceOf
    <3>5. CASE g # f
      <4>1. \A d \in Exchange : Given(d, g)' <=> Given(d, g)
        BY <2>1, <3>5
      <4> QED
        BY <3>1, <3>2, <3>3, <4>1 DEF OnePlaceOf
    <3> QED
      BY <3>4, <3>5
  <2>4. \A d \in Exchange : Len(delivered'[d]) <= 1
    BY <2>1 DEF FrameInv, TypeOK
  <2> QED
    BY <2>1, <2>2, <2>3, <2>4 DEF FrameInv, HistoryInv
<1>7. ASSUME NEW r \in output, NEW s \in Status, Transmit(r[1], r[2], s)
      PROVE  FrameInv'
  <2> DEFINE n == Reply(r[1], r[2], s)
  <2>1. /\ n \in Frame /\ n.kind = "reply" /\ n.req = r[1] /\ n.attempt = r[2]
        /\ r = <<r[1], r[2]>>
    BY FrameTypes DEF TypeOK, Reply
  <2>2. /\ output' = output \ {r} /\ air' = air \cup {n}
        /\ UNCHANGED <<input, buf, delivered, attempts, unsolicited>>
    BY <1>7, <2>1 DEF Transmit, threadVars
  <2>3. ~Seen(n)
    BY <2>1 DEF FrameInv, HistoryInv, Past
  <2>4. Past(n)'
    BY <2>1, <2>2 DEF FrameInv, HistoryInv, Past
  <2>5. unsolicited' \in Nat /\ unsolicited' >= unsolicited
    BY <2>2, UnsolicitedAssumption DEF TypeOK
  <2> HIDE DEF n
  <2> QED
    BY <2>1, <2>2, <2>3, <2>4, <2>5, FrameInvNew
<1>8. ASSUME NEW kind \in {"modem", "sample"}, Unsolicited(kind)
      PROVE  FrameInv'
  <2>1. unsolicited \in Nat
    BY UnsolicitedAssumption DEF TypeOK
  <2>2. PICK n : n = Extra(kind, unsolicited + 1)
    OBVIOUS
  <2>3. n \in Frame
    BY <2>1, <2>2, FrameTypes
  <2>4. n.kind # "reply" /\ n.number = unsolicited + 1
    BY <2>2 DEF Extra
  <2>5. /\ air' = air \cup {n} /\ unsolicited' = unsolicited + 1
        /\ UNCHANGED <<input, buf, delivered, attempts, output>>
    BY <1>8, <2>2 DEF Unsolicited, threadVars
  <2>6. ~Past(n)
    BY <2>1, <2>4 DEF Past
  <2>7. ~Seen(n)
    BY <2>3, <2>6 DEF FrameInv, HistoryInv
  <2>8. Past(n)'
    BY <2>4, <2>5 DEF Past
  <2>9. unsolicited' \in Nat /\ unsolicited' >= unsolicited
    BY <2>1, <2>5
  <2> QED
    BY <2>3, <2>5, <2>7, <2>8, <2>9, FrameInvNew
<1>9. ASSUME NEW g \in air, ArriveFirst(g)
      PROVE  FrameInv'
  <2>1. /\ air' = air \ {g} /\ input' = input \cup {FirstHalf(g)}
        /\ UNCHANGED <<buf, delivered, attempts, output, unsolicited>>
    BY <1>9 DEF ArriveFirst, threadVars
  <2>2. \A d, f : Given(d, f)' <=> Given(d, f)
    BY <2>1 DEF Given
  <2>3. \A f \in Frame : FirstHalf(f) \in input' => FirstHalf(f) \in input \/ f = g
    BY <2>1, HalvesDiffer
  <2>4. \A f \in Frame : (Seen(f)' => Seen(f)) /\ (Past(f) => Past(f)')
    BY <2>1, <2>2, <2>3 DEF Seen, Past
  <2>5. \A f \in Frame : OnePlaceOf(f)'
    BY <2>1, <2>2, <2>3 DEF FrameInv, OnePlaceOf
  <2> QED
    BY <2>1, <2>4, <2>5 DEF FrameInv, HistoryInv
<1>10. CASE ArriveSecond
  <2>1. /\ UNCHANGED <<delivered, attempts, unsolicited, air, output, buf>>
        /\ input' = input \cup {SecondHalf(arriving)}
    BY <1>10 DEF ArriveSecond, threadVars
  <2>2. \A f \in Frame : FirstHalf(f) \in input' => FirstHalf(f) \in input
    BY <2>1, HalvesDiffer
  <2> QED
    BY <2>1, <2>2, FrameInvLoss
<1>11. ASSUME NEW s \in Serial \ {"unopened"}, OpenPort(s)
       PROVE  FrameInv'
  BY <1>11, <1>1 DEF OpenPort, threadVars
<1>12. ASSUME NEW e \in Exchange, Send(e) \/ Thread(e) \/ ReadError(e)
       PROVE  FrameInv'
  BY <1>12, <1>1, <1>2, <1>3, <1>4, <1>5, <1>6
     DEF Thread, ExitOnBadPort, CrashOnShortFrame, Send, LockReceive,
         PrepareFrame, ReadError, Retry, Unlock, ReleaseGuard
<1>13. CASE UNCHANGED vars
  BY <1>13, <1>1 DEF vars, threadVars
<1> QED
  BY <1>2, <1>7, <1>8, <1>9, <1>10, <1>11, <1>12, <1>13
     DEF Next, Environment, Quit

LEMMA FrameInvAlways == Spec => []FrameInv
<1>1. Init => FrameInv
  BY DEF Init, FrameInv, HistoryInv, OnePlaceOf, Seen, Given
<1>2. QED
  BY <1>1, FrameInvStep, TypeCorrect, RetryInvAlways, PTL DEF Spec

\* No frame reaches two callbacks, or one of them twice, even when the mutex
\* lets several threads read the line at the same time.
THEOREM DeliveredAtMostOnce == Spec => []DeliveredOnce
<1>1. TypeOK /\ FrameInv => DeliveredOnce
  <2> SUFFICES ASSUME TypeOK, FrameInv,
                      NEW e1 \in Exchange, NEW e2 \in Exchange,
                      NEW i \in DOMAIN delivered[e1],
                      NEW j \in DOMAIN delivered[e2],
                      delivered[e1][i] = delivered[e2][j]
               PROVE  e1 = e2 /\ i = j
    BY DEF DeliveredOnce
  <2>1. delivered[e1][i] \in Frame
    BY DEF TypeOK
  <2>2. e1 = e2
    BY <2>1 DEF FrameInv, OnePlaceOf, Given
  <2>3. i = 1 /\ j = 1
    BY DEF TypeOK, FrameInv
  <2> QED
    BY <2>2, <2>3
<1>2. QED
  BY <1>1, FrameInvAlways, TypeCorrect, PTL

-----------------------------------------------------------------------------
(* Foreign replies.                                                        *)

\* A thread that has finished stays so.
LEMMA FinishedForGood ==
  ASSUME TypeOK, [Next]_vars, NEW r \in Exchange, pc[r] \in Finished
  PROVE  pc'[r] \in Finished
<1>1. CASE UNCHANGED pc
  BY <1>1
<1>2. ASSUME NEW e \in Exchange, NEW from \in Location \ {"done"}, NEW to \in Location,
             Step(e, from, to), from = "release" => to = "done"
      PROVE  pc'[r] \in Finished
  BY <1>2 DEF Step, TypeOK, Finished
<1>3. ASSUME NEW e \in Exchange, Send(e) \/ Thread(e) \/ ReadError(e), ~UNCHANGED pc
      PROVE  pc'[r] \in Finished
  <2>1. CASE Send(e)
    BY <2>1, <1>2 DEF Send, Location, Critical, Finished
  <2>2. CASE ReadError(e)
    BY <2>2, <1>2 DEF ReadError, Location, Critical, Finished
  <2>3. CASE LockReceive(e) \/ PrepareFrame(e) \/ WriteFrame(e) \/ FlushOutput(e)
    BY <2>3, <1>2 DEF LockReceive, PrepareFrame, WriteFrame, FlushOutput,
                      Location, Critical, Finished
  <2>4. CASE ReadBytes(e) \/ Reject(e) \/ Unlock(e) \/ ReleaseGuard(e)
    BY <2>4, <1>2 DEF ReadBytes, Reject, Unlock, ReleaseGuard,
                      Location, Critical, Finished
  <2>5. CASE Accept(e)
    <3>1. Step(e, "parse", "unlock")
      BY <2>5 DEF Accept
    <3>2. QED
      BY <3>1, <1>2 DEF Location, Critical, Finished
  <2>6. CASE Retry(e)
    <3>1. Step(e, "retry", "write") \/ Step(e, "retry", "unlock")
      BY <2>6 DEF Retry
    <3>2. QED
      BY <3>1, <1>2 DEF Location, Critical, Finished
  <2>7. CASE ExitOnBadPort(e) \/ CrashOnShortFrame(e)
    BY <2>7, <1>3 DEF ExitOnBadPort, CrashOnShortFrame, End
  <2>8. QED
    BY <1>3, <2>1, <2>2, <2>3, <2>4, <2>5, <2>6, <2>7 DEF Thread
<1>4. CASE Quit \/ Environment \/ UNCHANGED vars
  BY <1>1, <1>4 DEF Quit, End, Environment, Transmit, Unsolicited, ArriveFirst,
                    ArriveSecond, threadVars, vars
<1>5. ASSUME NEW s \in Serial, OpenPort(s) PROVE UNCHANGED pc
  BY <1>5 DEF OpenPort, threadVars
<1> QED
  BY <1>1, <1>3, <1>4, <1>5 DEF Next

\* Only Accept hands frames over.
LEMMA OnlyAcceptDelivers ==
  ASSUME [Next]_vars, \A e \in Exchange : ~Accept(e)
  PROVE  UNCHANGED delivered
BY DEF Next, OpenPort, Send, Thread, LockReceive, PrepareFrame, ExitOnBadPort,
       WriteFrame, FlushOutput, ReadBytes, Reject, CrashOnShortFrame, Retry, Unlock,
       ReleaseGuard, ReadError, Quit, End, Environment, Transmit, Unsolicited,
       ArriveFirst, ArriveSecond, threadVars, vars

\* With two exchanges, which the mutex keeps apart, a callback gets another
\* request's reply only after that request's thread has ended.
THEOREM ForeignRepliesAreLate ==
  ASSUME IsFiniteSet(Exchange), Cardinality(Exchange) <= 2
  PROVE  Spec => []ForeignReplyIsLate
<1> DEFINE Late(f, e) == f.kind = "reply" /\ f.req # e => pc[f.req] \in Finished
           LateInv == \A e \in Exchange, f \in Frame : Given(e, f) => Late(f, e)
<1>1. Init => LateInv
  BY DEF Init, Given
<1>2. /\ TypeOK /\ RetryInv /\ FrameInv /\ MutualExclusion /\ LateInv /\ [Next]_vars
      => LateInv'
  <2> SUFFICES ASSUME TypeOK, RetryInv, FrameInv, MutualExclusion, LateInv, [Next]_vars,
                      NEW e \in Exchange, NEW f \in Frame, Given(e, f)',
                      f.kind = "reply", f.req # e
               PROVE  pc'[f.req] \in Finished
    OBVIOUS
  <2>1. f.req \in Exchange /\ f.attempt \in Nat \ {0}
    BY DEF Frame, ReplyFrame, ExtraFrame
  <2>2. CASE Given(e, f)
    BY <2>1, <2>2, FinishedForGood
  <2>3. CASE ~Given(e, f)
    <3>1. PICK d \in Exchange : Accept(d)
      BY <2>3, OnlyAcceptDelivers DEF Given
    <3>2. PICK g \in Frame :
            /\ FirstHalf(g) \in buf[d]
            /\ Step(d, "parse", "unlock")
            /\ \A c \in Exchange : \A h : Given(c, h)' <=> Given(c, h) \/ (c = d /\ h = g)
      BY <3>1, AcceptGives
    <3>3. d = e /\ g = f
      BY <2>3, <3>2
    <3>4. Seen(f)
      BY <3>2, <3>3 DEF Seen
    <3>5. f.attempt <= attempts[f.req]
      BY <3>4 DEF FrameInv, HistoryInv, Past
    <3>6. pc[f.req] \notin BeforeLoop
      BY <2>1, <3>5 DEF RetryInv, RetryInvOf, TypeOK
    <3>7. f.req \notin Owners
      BY <2>1, <3>2, <3>3 DEF MutualExclusion, Owners, Step, Critical
    <3>8. pc[f.req] \in Finished
      BY <2>1, <3>6, <3>7 DEF Owners, Location, BeforeLoop, Critical, TypeOK
    <3> QED
      BY <2>1, <3>8, FinishedForGood
  <2> QED
    BY <2>2, <2>3
<1>3. TypeOK /\ LateInv => ForeignReplyIsLate
  BY DEF TypeOK, ForeignReplyIsLate, Given
<1>4. Spec => []MutualExclusion
  BY PairMutuallyExcluded
<1> QED
  BY <1>1, <1>2, <1>3, <1>4, FrameInvAlways, RetryInvAlways, TypeCorrect, PTL DEF Spec

-----------------------------------------------------------------------------
(* The implementation of the service.                                      *)

LEMMA ConsumedIsGiven ==
  \A f : f \in Consumed <=> \E e \in Exchange : Given(e, f)
BY DEF Consumed, Given

\* A frame that was seen is one of those the service reckons with.
LEMMA SeenIsPossible ==
  ASSUME TypeOK, RetryInv, FrameInv, NEW f \in Frame, Seen(f)
  PROVE  f \in PossibleFrame
<1>1. Past(f)
  BY DEF FrameInv, HistoryInv
<1>2. CASE f \in ReplyFrame
  <2>1. /\ f.kind = "reply" /\ f.req \in Exchange /\ f.attempt \in Nat \ {0}
        /\ f.status \in Status
        /\ f = [kind |-> f.kind, req |-> f.req, attempt |-> f.attempt,
                status |-> f.status]
    BY <1>2 DEF ReplyFrame
  <2>2. f.attempt <= attempts[f.req] /\ attempts[f.req] <= AttemptBudget
    BY <1>1, <2>1 DEF Past, RetryInv, RetryInvOf
  <2>3. attempts[f.req] \in Nat /\ AttemptBudget \in Nat
    BY <2>1, BudgetType DEF TypeOK
  <2>4. f.attempt \in 1..AttemptBudget
    BY <2>1, <2>2, <2>3
  <2> QED
    BY <2>1, <2>4 DEF PossibleFrame
<1>3. CASE f \in ExtraFrame
  <2>1. /\ f.kind \in {"modem", "sample"} /\ f.kind # "reply"
        /\ f.number \in Nat \ {0} /\ f.status = "ok"
        /\ f = [kind |-> f.kind, number |-> f.number, status |-> f.status]
    BY <1>3 DEF ExtraFrame
  <2>2. f.number <= unsolicited
    BY <1>1, <2>1 DEF Past
  <2>3. unsolicited \in Nat /\ unsolicited <= MaxUnsolicited
    BY UnsolicitedAssumption DEF TypeOK
  <2>4. f.number \in 1..MaxUnsolicited
    BY <2>1, <2>2, <2>3, UnsolicitedAssumption
  <2> QED
    BY <2>1, <2>4 DEF PossibleFrame
<1> QED
  BY <1>2, <1>3 DEF Frame

\* A step that delivers nothing and moves e without starting or ending its loop
\* cannot be seen from outside.
LEMMA ServiceStutters ==
  ASSUME TypeOK, NEW e \in Exchange, NEW to \in Location,
         pc' = [pc EXCEPT ![e] = to], UNCHANGED delivered,
         pc[e] = "idle" <=> to = "idle", pc[e] \in AfterLoop <=> to \in AfterLoop
  PROVE  UNCHANGED Service!vars
<1>1. Consumed' = Consumed
  BY DEF Consumed
<1>2. ASSUME NEW d \in Exchange
      PROVE  Outcome(d)' = Outcome(d)
  BY DEF Outcome, TypeOK, AfterLoop
<1>3. [d \in Exchange |-> Outcome(d)]' = [d \in Exchange |-> Outcome(d)]
  BY <1>2
<1> QED
  BY <1>1, <1>3 DEF Service!vars

LEMMA ServiceUntouched ==
  ASSUME UNCHANGED <<pc, delivered>>
  PROVE  UNCHANGED Service!vars
BY DEF Service!vars, Outcome, Consumed

LEMMA ServiceStep ==
  TypeOK /\ RetryInv /\ FrameInv /\ [Next]_vars => [Service!Next]_(Service!vars)
<1> SUFFICES ASSUME TypeOK, RetryInv, FrameInv, [Next]_vars
             PROVE  Service!Next \/ UNCHANGED Service!vars
  OBVIOUS
<1>1. ASSUME NEW e \in Exchange, Send(e)
      PROVE  Service!Next
  <2>1. /\ pc[e] = "idle" /\ pc' = [pc EXCEPT ![e] = "lock"]
        /\ UNCHANGED delivered
    BY <1>1 DEF Send, Step
  <2>2. delivered[e] = <<>>
    BY <2>1 DEF RetryInv, RetryInvOf, AfterLoop, Finished
  <2>3. Outcome(e) = "idle" /\ Outcome(e)' = "open"
    BY <2>1, <2>2 DEF Outcome, TypeOK, Finished
  <2>4. \A d \in Exchange \ {e} : Outcome(d)' = Outcome(d)
    BY <2>1 DEF Outcome, TypeOK
  <2>5. Consumed' = Consumed
    BY <2>1 DEF Consumed
  <2>6. Service!Request(e)
    BY <2>3, <2>4, <2>5 DEF Service!Request
  <2> QED
    BY <2>6 DEF Service!Next
<1>2. ASSUME NEW e \in Exchange, Accept(e)
      PROVE  Service!Next
  <2>1. PICK f \in Frame :
          /\ FirstHalf(f) \in buf[e]
          /\ Step(e, "parse", "unlock")
          /\ delivered[e] = <<>>
          /\ delivered' = [delivered EXCEPT ![e] = <<f>>]
          /\ \A d \in Exchange : \A g :
               Given(d, g)' <=> Given(d, g) \/ (d = e /\ g = f)
    BY <1>2, AcceptGives
  <2>2. pc[e] = "parse" /\ pc' = [pc EXCEPT ![e] = "unlock"]
    BY <2>1 DEF Step
  <2>3. delivered'[e] # <<>>
    BY <2>1 DEF TypeOK
  <2>4. Outcome(e) = "open" /\ Outcome(e)' = "answered"
    <3>1. pc[e] = "parse" /\ pc'[e] = "unlock"
      BY <2>2 DEF TypeOK
    <3>2. Outcome(e) = "open"
      BY <2>1, <3>1 DEF Outcome, Finished
    <3>3. pc'[e] # "idle"
      BY <3>1
    <3>4. Outcome(e)' = "answered"
      BY <2>3, <3>3, Zenon DEF Outcome
    <3> QED
      BY <3>2, <3>4
  <2>5. \A d \in Exchange \ {e} : Outcome(d)' = Outcome(d)
    BY <2>1, <2>2 DEF Outcome, TypeOK
  <2>6. f \notin Consumed /\ Consumed' = Consumed \cup {f}
    <3>1. \A d \in Exchange : ~Given(d, f)
      BY <2>1 DEF FrameInv, OnePlaceOf
    <3>2. \A g : g \in Consumed' <=> g \in Consumed \/ g = f
      <4>1. \A g : g \in Consumed' <=> \E d \in Exchange : Given(d, g)'
        BY ConsumedIsGiven DEF Consumed, Given
      <4> QED
        BY <2>1, <4>1, ConsumedIsGiven
    <3> QED
      BY <3>1, <3>2, ConsumedIsGiven
  <2>7. f \in PossibleFrame
    BY <2>1, SeenIsPossible DEF Seen
  <2>8. Service!Answer(e, f)
    BY <2>4, <2>5, <2>6 DEF Service!Answer
  <2> QED
    BY <2>7, <2>8 DEF Service!Next
<1>3. ASSUME NEW e \in Exchange, Retry(e)
      PROVE  Service!Next \/ UNCHANGED Service!vars
  <2>1. pc[e] = "retry" /\ UNCHANGED delivered
    BY <1>3 DEF Retry, Step
  <2>2. CASE pc' = [pc EXCEPT ![e] = "write"]
    BY <2>1, <2>2, ServiceStutters DEF AfterLoop, Finished, Location, Critical
  <2>3. CASE pc' = [pc EXCEPT ![e] = "unlock"]
    <3>1. delivered[e] = <<>>
      BY <2>1 DEF RetryInv, RetryInvOf, AfterLoop, Finished
    <3>2. Outcome(e) = "open" /\ Outcome(e)' = "failed"
      BY <2>1, <2>3, <3>1 DEF Outcome, TypeOK, Finished
    <3>3. \A d \in Exchange \ {e} : Outcome(d)' = Outcome(d)
      BY <2>1, <2>3 DEF Outcome, TypeOK
    <3>4. Consumed' = Consumed
      BY <2>1 DEF Consumed
    <3>5. Service!GiveUp(e)
      BY <3>2, <3>3, <3>4 DEF Service!GiveUp
    <3> QED
      BY <3>5 DEF Service!Next
  <2> QED
    BY <1>3, <2>2, <2>3 DEF Retry, Step
<1>4. ASSUME NEW e \in Exchange, NEW from \in Location, NEW to \in Location,
             Step(e, from, to), UNCHANGED delivered,
             from # "idle", to # "idle", from \in AfterLoop <=> to \in AfterLoop
      PROVE  UNCHANGED Service!vars
  BY <1>4, ServiceStutters DEF Step
<1>5. ASSUME NEW e \in Exchange,
             LockReceive(e) \/ PrepareFrame(e) \/ WriteFrame(e) \/ FlushOutput(e)
      PROVE  UNCHANGED Service!vars
  BY <1>5, <1>4 DEF LockReceive, PrepareFrame, WriteFrame, FlushOutput,
                    Location, Critical, AfterLoop, Finished
<1>6. ASSUME NEW e \in Exchange,
             ReadBytes(e) \/ ReadError(e) \/ Reject(e) \/ Unlock(e) \/ ReleaseGuard(e)
      PROVE  UNCHANGED Service!vars
  BY <1>6, <1>4 DEF ReadBytes, ReadError, Reject, Unlock, ReleaseGuard,
                    Location, Critical, AfterLoop, Finished
<1>7. ASSUME NEW how \in {"exited", "crashed"}, End(how)
      PROVE  UNCHANGED Service!vars
  BY <1>7, ServiceUntouched DEF End
<1>8. CASE Environment
  BY <1>8, ServiceUntouched DEF Environment, Transmit, Unsolicited, ArriveFirst,
                                ArriveSecond, threadVars
<1>9. ASSUME NEW s \in Serial \ {"unopened"}, OpenPort(s)
      PROVE  UNCHANGED Service!vars
  BY <1>9, ServiceUntouched DEF OpenPort, threadVars
<1>10. CASE UNCHANGED vars
  BY <1>10, ServiceUntouched DEF vars, threadVars
<1>11. ASSUME NEW e \in Exchange, Thread(e)
       PROVE  Service!Next \/ UNCHANGED Service!vars
  BY <1>11, <1>2, <1>3, <1>5, <1>6, <1>7
     DEF Thread, ExitOnBadPort, CrashOnShortFrame
<1> QED
  BY <1>1, <1>6, <1>7, <1>8, <1>9, <1>10, <1>11 DEF Next, Quit

\* Whatever the threads, the line and the module do, the callers of send() see
\* at most one callback per request, none after the request was given up and
\* none with a frame used before.
THEOREM HandlerImplementsService == Spec => ImplementsService
<1>1. Init => Service!Init
  <2> SUFFICES ASSUME Init
               PROVE  Service!Init
    OBVIOUS
  <2>1. \A e \in Exchange : Outcome(e) = "idle"
    <3> SUFFICES ASSUME NEW e \in Exchange
                 PROVE  Outcome(e) = "idle"
      OBVIOUS
    <3>1. pc[e] = "idle" /\ delivered[e] = <<>>
      BY DEF Init
    <3> QED
      BY <3>1 DEF Outcome, Finished
  <2>2. \A e \in Exchange : DOMAIN delivered[e] = {}
    <3>1. DOMAIN <<>> = {}
      OBVIOUS
    <3>2. \A e \in Exchange : delivered[e] = <<>>
      BY DEF Init
    <3> QED
      BY <3>1, <3>2, Zenon
  <2>3. Consumed = {}
    BY <2>2, ConsumedIsGiven DEF Given
  <2> QED
    BY <2>1, <2>3, Zenon DEF Service!Init
<1>2. QED
  BY <1>1, ServiceStep, FrameInvAlways, RetryInvAlways, TypeCorrect, PTL
     DEF Spec, ImplementsService
=============================================================================
