------------------------- MODULE XBeeHandler_proofs -------------------------
(***************************************************************************)
(* Theorems about XBeeHandler, for any set of exchanges, any retry count   *)
(* and any width of the retry counter.                                     *)
(***************************************************************************)
EXTENDS XBeeRefinement, FiniteSetTheorems, TLAPS

\* One retry less, spelled out: the counter wraps at zero and nowhere else.
LEMMA RedundancyValue ==
  ASSUME NEW r \in 0..(Word - 1)
  PROVE  Redundancy(r) = IF r = 0 THEN Word - 1 ELSE r - 1
<1>1. CASE r = 0
  <2>1. (-1) % Word = Word - 1
    BY WordAssumption, SMT
  <2>2. QED
    BY <1>1, <2>1 DEF Redundancy
<1>2. CASE r # 0
  <2>1. r - 1 \in 0..(Word - 1)
    BY <1>2, WordAssumption
  <2>2. (r - 1) % Word = r - 1
    BY <2>1, WordAssumption, SMT
  <2>3. QED
    BY <1>2, <2>2 DEF Redundancy
<1>3. QED
  BY <1>1, <1>2

LEMMA RedundancyType ==
  ASSUME NEW r \in 0..(Word - 1)
  PROVE  Redundancy(r) \in 0..(Word - 1)
BY RedundancyValue, WordAssumption

-----------------------------------------------------------------------------
(* Type correctness.                                                       *)

LEMMA FrameTypes ==
  /\ \A e \in Exchange, k \in Nat \ {0}, s \in Status : Reply(e, k, s) \in Frame
  /\ \A kind \in {"modem", "sample"}, n \in Nat \ {0} : Extra(kind, n) \in Frame
  /\ \A f \in Frame : FirstHalf(f) \in Piece /\ SecondHalf(f) \in Piece
  /\ \A b \in SUBSET Piece : FramesIn(b) \subseteq Frame
BY DEF Reply, Extra, Frame, ReplyFrame, ExtraFrame, Piece, FirstHalf, SecondHalf,
       FramesIn

\* Every behaviour of the program keeps every variable in its type: the retry
\* counter is a uint32_t, callbacks only ever get frames.
THEOREM TypeCorrect == Spec => []TypeOK
<1>1. Init => TypeOK
  <2> HAVE Init
  <2>1. /\ 0 \in 0..(Word - 1)
        /\ 0 \in 0..MaxUnsolicited
    BY WordAssumption, UnsolicitedAssumption
  <2>2. <<>> \in Seq(Frame)
    OBVIOUS
  <2>3. delivered \in [Exchange -> Seq(Frame)]
    BY <2>2 DEF Init
  <2>4. /\ pc \in [Exchange -> Location]
        /\ retries \in [Exchange -> 0..(Word - 1)]
        /\ buf \in [Exchange -> SUBSET Piece]
        /\ attempts \in [Exchange -> Nat]
    BY <2>1 DEF Init, Location
  <2> QED
    BY <2>1, <2>3, <2>4 DEF Init, TypeOK, Serial
<1>2. TypeOK /\ [Next]_vars => TypeOK'
  <2> SUFFICES ASSUME TypeOK, [Next]_vars
               PROVE  TypeOK'
    OBVIOUS
  <2> USE DEF TypeOK, threadVars, lineVars
  <2>1. ASSUME NEW s \in Serial \ {"unopened"}, OpenPort(s)
        PROVE  TypeOK'
    BY <2>1 DEF OpenPort
  <2>2. ASSUME NEW e \in Exchange, Send(e)
        PROVE  TypeOK'
    BY <2>2 DEF Send, Step, Location
  <2>3. ASSUME NEW e \in Exchange, LockReceive(e)
        PROVE  TypeOK'
    BY <2>3 DEF LockReceive, Step, Location, Critical
  <2>4. ASSUME NEW e \in Exchange, PrepareFrame(e)
        PROVE  TypeOK'
    BY <2>4, RetriesAssumption DEF PrepareFrame, Step, Location, Critical
  <2>5. ASSUME NEW how \in {"exited", "crashed"}, End(how)
        PROVE  TypeOK'
    <3>1. 0 \in 0..(Word - 1)
      BY WordAssumption
    <3> QED
      BY <2>5, <3>1 DEF End
  <2>6. ASSUME NEW e \in Exchange, WriteFrame(e)
        PROVE  TypeOK'
    <3>1. <<e, attempts[e] + 1>> \in Exchange \X (Nat \ {0})
      OBVIOUS
    <3> QED
      BY <2>6, <3>1 DEF WriteFrame, Step, Location, Critical
  <2>7. ASSUME NEW e \in Exchange, FlushOutput(e)
        PROVE  TypeOK'
    BY <2>7 DEF FlushOutput, Step, Location, Critical
  <2>8. ASSUME NEW e \in Exchange, ReadBytes(e)
        PROVE  TypeOK'
    BY <2>8 DEF ReadBytes, Step, Location, Critical, LeftByRead
  <2>9. ASSUME NEW e \in Exchange, ReadError(e)
        PROVE  TypeOK'
    BY <2>9 DEF ReadError, Step, Location, Critical
  <2>10. ASSUME NEW e \in Exchange, Reject(e)
         PROVE  TypeOK'
    BY <2>10 DEF Reject, Step, Location, Critical
  <2>11. ASSUME NEW e \in Exchange, Accept(e)
         PROVE  TypeOK'
    <3>1. PICK f \in FramesIn(buf[e]) :
            /\ Step(e, "parse", "unlock")
            /\ buf' = [buf EXCEPT ![e] = {}]
            /\ input' = {}
            /\ delivered' = [delivered EXCEPT ![e] = Append(@, f)]
            /\ retries' = [retries EXCEPT ![e] = 0]
            /\ UNCHANGED <<process, serial, mutex, attempts, output, air,
                           arriving, unsolicited>>
      BY <2>11 DEF Accept
    <3>2. f \in Frame
      BY FrameTypes
    <3>3. delivered' \in [Exchange -> Seq(Frame)]
      BY <3>1, <3>2
    <3>4. 0 \in 0..(Word - 1)
      BY WordAssumption
    <3> QED
      BY <3>1, <3>3, <3>4 DEF Step, Location, Critical
  <2>12. ASSUME NEW e \in Exchange, Retry(e)
         PROVE  TypeOK'
    BY <2>12, RedundancyType DEF Retry, Step, Location, Critical
  <2>13. ASSUME NEW e \in Exchange, Unlock(e) \/ ReleaseGuard(e)
         PROVE  TypeOK'
    BY <2>13 DEF Unlock, ReleaseGuard, Step, Location, Finished
  <2>14. ASSUME NEW r \in output, NEW s \in Status, Transmit(r[1], r[2], s)
         PROVE  TypeOK'
    <3>1. Reply(r[1], r[2], s) \in Frame
      BY FrameTypes
    <3> QED
      BY <2>14, <3>1 DEF Transmit
  <2>15. ASSUME NEW kind \in {"modem", "sample"}, Unsolicited(kind)
         PROVE  TypeOK'
    <3>1. Extra(kind, unsolicited + 1) \in Frame
      BY FrameTypes, UnsolicitedAssumption
    <3> QED
      BY <2>15, <3>1, UnsolicitedAssumption DEF Unsolicited
  <2>16. ASSUME NEW f \in air, ArriveFirst(f)
         PROVE  TypeOK'
    BY <2>16, FrameTypes DEF ArriveFirst
  <2>17. CASE ArriveSecond
    BY <2>17, FrameTypes DEF ArriveSecond
  <2>18. CASE UNCHANGED vars
    BY <2>18 DEF vars
  <2> QED
    BY <2>1, <2>2, <2>3, <2>4, <2>5, <2>6, <2>7, <2>8, <2>9, <2>10, <2>11,
       <2>12, <2>13, <2>14, <2>15, <2>16, <2>17, <2>18
       DEF Next, Thread, Environment, ExitOnBadPort, CrashOnShortFrame, Quit
<1>3. QED
  BY <1>1, <1>2, PTL DEF Spec

-----------------------------------------------------------------------------
(* The mutex that is unlocked twice.                                       *)

Started == {e \in Exchange : pc[e] # "idle"}

Ended == process \in {"exited", "crashed"}

\* The inductive form of IntrudersBounded: whenever the mutex is free, the
\* threads in the critical section are no more than the ones that have ended,
\* so the next to lock it is at most one too many.
MutexInv ==
  /\ IsFiniteSet(Started)
  /\ Cardinality(Owners) <= 1 + Cardinality(Done)
  /\ ~mutex /\ ~Ended => Cardinality(Owners) <= Cardinality(Done)

\* Only threads that have been started are in the critical section or through.
LEMMA OwnersFinite ==
  ASSUME TypeOK, IsFiniteSet(Started)
  PROVE  /\ IsFiniteSet(Owners) /\ Cardinality(Owners) \in Nat
         /\ IsFiniteSet(Done) /\ Cardinality(Done) \in Nat
<1>1. Owners \in SUBSET Started /\ Done \in SUBSET Started
  BY DEF Owners, Done, Started, Critical
<1>2. IsFiniteSet(Owners) /\ IsFiniteSet(Done)
  BY <1>1, FS_Subset
<1>3. QED
  BY <1>2, FS_CardinalityType

\* A step that moves no thread into or out of the critical section.
LEMMA MutexInvKept ==
  ASSUME MutexInv, Owners' = Owners, Done' = Done, Started' = Started,
         (mutex' = mutex /\ (Ended => Ended')) \/ Ended'
  PROVE  MutexInv'
BY DEF MutexInv

\* A thread moves on inside the critical section.
LEMMA MoveInside ==
  ASSUME TypeOK, NEW e \in Exchange, pc[e] \in Critical,
         NEW l \in Critical, pc' = [pc EXCEPT ![e] = l]
  PROVE  Owners' = Owners /\ Done' = Done /\ Started' = Started
BY DEF TypeOK, Owners, Done, Started, Critical

LEMMA MutexInvStep == TypeOK /\ MutexInv /\ [Next]_vars => MutexInv'
<1> SUFFICES ASSUME TypeOK, MutexInv, [Next]_vars
             PROVE  MutexInv'
  OBVIOUS
<1>0. /\ IsFiniteSet(Owners) /\ Cardinality(Owners) \in Nat
      /\ IsFiniteSet(Done) /\ Cardinality(Done) \in Nat
  BY OwnersFinite DEF MutexInv
<1>1. ASSUME UNCHANGED <<pc, mutex>>, UNCHANGED process \/ process = "starting"
      PROVE  MutexInv'
  <2>1. Ended => Ended'
    BY <1>1 DEF Ended
  <2>2. Owners' = Owners /\ Done' = Done /\ Started' = Started
    BY <1>1 DEF Owners, Done, Started
  <2> QED
    BY <1>1, <2>1, <2>2, MutexInvKept
<1>2. ASSUME NEW how \in {"exited", "crashed"}, End(how)
      PROVE  MutexInv'
  <2>1. Owners' = Owners /\ Done' = Done /\ Started' = Started
    BY <1>2 DEF End, Owners, Done, Started
  <2>2. Ended'
    BY <1>2 DEF End, Ended
  <2> QED
    BY <2>1, <2>2, MutexInvKept
<1>3. ASSUME NEW e \in Exchange, NEW from \in Critical, NEW to \in Critical,
             Step(e, from, to), UNCHANGED <<process, mutex>>
      PROVE  MutexInv'
  <2>1. Owners' = Owners /\ Done' = Done /\ Started' = Started
    BY <1>3, MoveInside DEF Step
  <2>2. Ended => Ended'
    BY <1>3 DEF Ended
  <2> QED
    BY <1>3, <2>1, <2>2, MutexInvKept
<1>4. ASSUME NEW e \in Exchange, Send(e)
      PROVE  MutexInv'
  <2>1. Owners' = Owners /\ Done' = Done
    BY <1>4 DEF Send, Step, TypeOK, Owners, Done, Critical
  <2>2. Started' = Started \cup {e}
    BY <1>4 DEF Send, Step, TypeOK, Started
  <2>3. IsFiniteSet(Started')
    BY <2>2, FS_AddElement DEF MutexInv
  <2>4. Ended' = Ended /\ mutex' = mutex
    BY <1>4 DEF Send, Ended
  <2> QED
    BY <2>1, <2>3, <2>4 DEF MutexInv
<1>5. ASSUME NEW e \in Exchange, LockReceive(e)
      PROVE  MutexInv'
  <2>1. /\ e \notin Owners /\ Owners' = Owners \cup {e}
        /\ Done' = Done /\ Started' = Started
    BY <1>5 DEF LockReceive, Step, TypeOK, Owners, Done, Started, Critical
  <2>2. Cardinality(Owners') = Cardinality(Owners) + 1
    BY <1>0, <2>1, FS_AddElement
  <2>3. Cardinality(Owners) <= Cardinality(Done)
    BY <1>5 DEF LockReceive, Step, Running, Ended, MutexInv
  <2>4. Cardinality(Owners') <= 1 + Cardinality(Done)
    BY <1>0, <2>2, <2>3
  <2>5. mutex'
    BY <1>5 DEF LockReceive
  <2> QED
    BY <2>1, <2>4, <2>5 DEF MutexInv
<1>6. ASSUME NEW e \in Exchange, Unlock(e)
      PROVE  MutexInv'
  <2>1. e \in Owners /\ Owners' = Owners \ {e} /\ Done' = Done /\ Started' = Started
    BY <1>6 DEF Unlock, Step, TypeOK, Owners, Done, Started, Critical
  <2>2. Cardinality(Owners') = Cardinality(Owners) - 1
    BY <1>0, <2>1, FS_RemoveElement
  <2>3. Cardinality(Owners') <= Cardinality(Done)
    BY <1>0, <2>2 DEF MutexInv
  <2>4. Cardinality(Owners') <= 1 + Cardinality(Done)
    BY <1>0, <2>2, <2>3
  <2> QED
    BY <2>1, <2>3, <2>4 DEF MutexInv
<1>7. ASSUME NEW e \in Exchange, ReleaseGuard(e)
      PROVE  MutexInv'
  <2>1. e \notin Done /\ Owners' = Owners /\ Done' = Done \cup {e} /\ Started' = Started
    BY <1>7 DEF ReleaseGuard, Step, TypeOK, Owners, Done, Started, Critical
  <2>2. Cardinality(Done') = Cardinality(Done) + 1
    BY <1>0, <2>1, FS_AddElement
  <2>3. Cardinality(Owners') <= Cardinality(Done')
    BY <1>0, <2>1, <2>2 DEF MutexInv
  <2>4. Cardinality(Owners') <= 1 + Cardinality(Done')
    BY <1>0, <2>1, <2>2, <2>3
  <2> QED
    BY <2>1, <2>3, <2>4 DEF MutexInv
<1>8. ASSUME NEW e \in Exchange, Thread(e)
      PROVE  MutexInv'
  <2>1. CASE PrepareFrame(e)
    BY <2>1, <1>3 DEF PrepareFrame, Critical
  <2>2. CASE WriteFrame(e)
    BY <2>2, <1>3 DEF WriteFrame, Critical
  <2>3. CASE FlushOutput(e)
    BY <2>3, <1>3 DEF FlushOutput, Critical
  <2>4. CASE ReadBytes(e)
    BY <2>4, <1>3 DEF ReadBytes, Critical
  <2>5. CASE Reject(e)
    BY <2>5, <1>3 DEF Reject, Critical
  <2>6. CASE Accept(e)
    BY <2>6, <1>3 DEF Accept, Critical
  <2>7. CASE Retry(e)
    BY <2>7, <1>3 DEF Retry, Critical
  <2> QED
    BY <1>8, <1>2, <1>5, <1>6, <1>7, <2>1, <2>2, <2>3, <2>4, <2>5, <2>6, <2>7
       DEF Thread, ExitOnBadPort, CrashOnShortFrame
<1>9. ASSUME NEW e \in Exchange, ReadError(e)
      PROVE  MutexInv'
  BY <1>9, <1>3 DEF ReadError, Critical
<1>10. CASE Environment
  BY <1>10, <1>1 DEF Environment, Transmit, Unsolicited, ArriveFirst,
                     ArriveSecond, threadVars
<1>11. ASSUME NEW s \in Serial \ {"unopened"}, OpenPort(s)
       PROVE  MutexInv'
  BY <1>11, <1>1 DEF OpenPort, threadVars
<1>12. CASE UNCHANGED vars
  BY <1>12, <1>1 DEF vars, threadVars
<1> QED
  BY <1>2, <1>4, <1>8, <1>9, <1>10, <1>11, <1>12 DEF Next, Quit

\* The second unlock lets in at most one thread too many for every thread that
\* has ended, however many calls of send() there are.
THEOREM IntrudersAreBounded == Spec => []IntrudersBounded
<1>1. Init => MutexInv
  <2> SUFFICES ASSUME Init
               PROVE  MutexInv
    OBVIOUS
  <2>1. Started = {} /\ Owners = {} /\ Done = {}
    BY DEF Init, Started, Owners, Done, Critical
  <2> QED
    BY <2>1, FS_EmptySet DEF MutexInv
<1>2. MutexInv => IntrudersBounded
  BY DEF MutexInv, IntrudersBounded
<1>3. QED
  BY <1>1, <1>2, MutexInvStep, TypeCorrect, PTL DEF Spec

\* Two calls of send() are safe from each other: the second unlock of the
\* first thread comes too late to let anybody in beside the second.
THEOREM PairMutuallyExcluded ==
  ASSUME IsFiniteSet(Exchange), Cardinality(Exchange) <= 2
  PROVE  Spec => []MutualExclusion
<1>1. TypeOK /\ IntrudersBounded => MutualExclusion
  <2> SUFFICES ASSUME TypeOK, IntrudersBounded,
                      NEW e1 \in Owners, NEW e2 \in Owners, e1 # e2
               PROVE  FALSE
    BY DEF MutualExclusion
  <2>1. Owners \in SUBSET Exchange /\ {e1, e2} \in SUBSET Owners
    BY DEF Owners
  <2>2. IsFiniteSet({e1, e2}) /\ Cardinality({e1, e2}) = 2
    <3>1. {e1, e2} = {e1} \cup {e2}
      OBVIOUS
    <3>2. IsFiniteSet({e1}) /\ Cardinality({e1}) = 1 /\ e2 \notin {e1}
      BY FS_Singleton
    <3>3. /\ IsFiniteSet({e1} \cup {e2})
          /\ Cardinality({e1} \cup {e2}) = Cardinality({e1}) + 1
      BY <3>2, FS_AddElement
    <3> QED
      BY <3>1, <3>2, <3>3
  <2>3. /\ IsFiniteSet(Owners) /\ Cardinality(Owners) >= 2
        /\ Cardinality(Owners) <= Cardinality(Exchange)
        /\ Cardinality(Owners) = Cardinality(Exchange) => Owners = Exchange
    <3>1. /\ IsFiniteSet(Owners)
          /\ Cardinality(Owners) <= Cardinality(Exchange)
          /\ Cardinality(Exchange) = Cardinality(Owners) => Exchange = Owners
      BY <2>1, FS_Subset
    <3>2. Cardinality({e1, e2}) <= Cardinality(Owners)
      BY <2>1, <3>1, FS_Subset
    <3> QED
      BY <2>2, <3>1, <3>2, FS_CardinalityType
  <2>4. Owners = Exchange
    BY <2>3, FS_CardinalityType
  <2>5. Done = {}
    BY <2>4 DEF Owners, Done, Critical
  <2> QED
    BY <2>3, <2>5, FS_EmptySet, FS_CardinalityType DEF IntrudersBounded
<1>2. QED
  BY <1>1, TypeCorrect, IntrudersAreBounded, PTL

-----------------------------------------------------------------------------
(* The retry loop.                                                         *)

\* How many more times a loop that stands at counter value r writes.
WritesLeft(r) == IF r = 0 THEN Word ELSE r

BeforeLoop == {"idle", "lock", "prepare"}
AfterWrite == {"flush", "read", "parse", "retry"}
AfterLoop == {"unlock"} \cup Finished

\* The inductive form of RetriesExact: what a thread has written and what its
\* counter still allows add up to the budget.
RetryInvOf(e) ==
  /\ pc[e] \in BeforeLoop => attempts[e] = 0
  /\ pc[e] \notin AfterLoop => delivered[e] = <<>>
  /\ ~Ended /\ pc[e] = "write"
       => attempts[e] + WritesLeft(retries[e]) = AttemptBudget
  /\ ~Ended /\ pc[e] \in AfterWrite
       => attempts[e] + WritesLeft(retries[e]) = AttemptBudget + 1
  /\ attempts[e] <= AttemptBudget
  /\ pc[e] \in AfterLoop /\ delivered[e] = <<>> => attempts[e] = AttemptBudget

RetryInv == \A e \in Exchange : RetryInvOf(e)

LEMMA BudgetType ==
  /\ AttemptBudget = WritesLeft(GlobalRetries)
  /\ \A r \in 0..(Word - 1) : WritesLeft(r) \in Nat /\ WritesLeft(r) >= 1
  /\ AttemptBudget \in Nat \ {0}
BY WordAssumption, RetriesAssumption DEF AttemptBudget, WritesLeft

\* One turn of the counter costs one write, at the wrap-around too.
LEMMA RedundancyCosts ==
  ASSUME NEW r \in 0..(Word - 1)
  PROVE  /\ Redundancy(r) = WritesLeft(r) - 1
         /\ Redundancy(r) > 0 => WritesLeft(Redundancy(r)) = WritesLeft(r) - 1
BY RedundancyValue, WordAssumption DEF WritesLeft

\* The step of one thread leaves the loops of the others alone.
LEMMA RetryInvOfOthers ==
  ASSUME TypeOK, RetryInv, NEW e \in Exchange, RetryInvOf(e)',
         Ended => Ended',
         \A d \in Exchange \ {e} :
           /\ pc'[d] = pc[d] /\ delivered'[d] = delivered[d]
           /\ attempts'[d] = attempts[d] /\ (~Ended' => retries'[d] = retries[d])
  PROVE  RetryInv'
<1>1. \A d \in Exchange \ {e} : RetryInvOf(d)'
  BY DEF RetryInv, RetryInvOf
<1>2. QED
  BY <1>1 DEF RetryInv

LEMMA RetryInvStep == TypeOK /\ RetryInv /\ [Next]_vars => RetryInv'
<1> SUFFICES ASSUME TypeOK, RetryInv, [Next]_vars
             PROVE  RetryInv'
  OBVIOUS
<1> USE DEF BeforeLoop, AfterWrite, AfterLoop, Finished
<1>1. ASSUME UNCHANGED <<pc, delivered, attempts>>,
             Ended => Ended', ~Ended' => UNCHANGED retries
      PROVE  RetryInv'
  BY <1>1 DEF RetryInv, RetryInvOf
<1>2. ASSUME NEW how \in {"exited", "crashed"}, End(how)
      PROVE  RetryInv'
  BY <1>2, <1>1 DEF End, Ended
<1>3. ASSUME NEW e \in Exchange,
             \/ Send(e) \/ LockReceive(e) \/ FlushOutput(e) \/ ReadBytes(e)
             \/ ReadError(e) \/ Reject(e) \/ Unlock(e) \/ ReleaseGuard(e)
      PROVE  RetryInv'
  <2>1. UNCHANGED <<process, retries, delivered, attempts>>
    BY <1>3 DEF Send, LockReceive, FlushOutput, ReadBytes, ReadError, Reject,
                Unlock, ReleaseGuard
  <2>2. \/ Step(e, "idle", "lock") \/ Step(e, "lock", "prepare")
        \/ Step(e, "flush", "read") \/ Step(e, "read", "parse")
        \/ Step(e, "read", "retry") \/ Step(e, "parse", "retry")
        \/ Step(e, "unlock", "release") \/ Step(e, "release", "done")
    BY <1>3 DEF Send, LockReceive, FlushOutput, ReadBytes, ReadError, Reject,
                Unlock, ReleaseGuard
  <2>3. RetryInvOf(e)'
    BY <2>1, <2>2 DEF TypeOK, Step, Running, Ended, RetryInv, RetryInvOf
  <2>4. \A d \in Exchange \ {e} : pc'[d] = pc[d]
    BY <2>2 DEF TypeOK, Step
  <2> QED
    BY <2>1, <2>3, <2>4, RetryInvOfOthers DEF Ended
<1>4. ASSUME NEW e \in Exchange, PrepareFrame(e)
      PROVE  RetryInv'
  <2>1. pc[e] = "prepare" /\ pc' = [pc EXCEPT ![e] = "write"] /\ ~Ended
    BY <1>4 DEF PrepareFrame, Step, Running, Ended
  <2>2. /\ retries' = [retries EXCEPT ![e] = GlobalRetries]
        /\ UNCHANGED <<process, delivered, attempts>>
    BY <1>4 DEF PrepareFrame
  <2>3. attempts[e] = 0 /\ delivered[e] = <<>>
    BY <2>1 DEF RetryInv, RetryInvOf
  <2>4. RetryInvOf(e)'
    BY <2>1, <2>2, <2>3, BudgetType DEF TypeOK, RetryInvOf
  <2> QED
    BY <2>1, <2>2, <2>4, RetryInvOfOthers DEF TypeOK, Ended
<1>5. ASSUME NEW e \in Exchange, WriteFrame(e)
      PROVE  RetryInv'
  <2>1. pc[e] = "write" /\ pc' = [pc EXCEPT ![e] = "flush"] /\ ~Ended
    BY <1>5 DEF WriteFrame, Step, Running, Ended
  <2>2. /\ attempts' = [attempts EXCEPT ![e] = @ + 1]
        /\ UNCHANGED <<process, delivered, retries>>
    BY <1>5 DEF WriteFrame
  <2>3. /\ attempts[e] + WritesLeft(retries[e]) = AttemptBudget
        /\ delivered[e] = <<>>
    BY <2>1 DEF RetryInv, RetryInvOf
  <2>4. WritesLeft(retries[e]) \in Nat /\ WritesLeft(retries[e]) >= 1
    BY BudgetType DEF TypeOK
  <2>5. /\ attempts[e] + 1 <= AttemptBudget
        /\ attempts[e] + 1 + WritesLeft(retries[e]) = AttemptBudget + 1
    BY <2>3, <2>4, BudgetType DEF TypeOK
  <2>6. RetryInvOf(e)'
    BY <2>1, <2>2, <2>3, <2>5 DEF TypeOK, RetryInvOf, WritesLeft
  <2> QED
    BY <2>1, <2>2, <2>6, RetryInvOfOthers DEF TypeOK, Ended
<1>6. ASSUME NEW e \in Exchange, Accept(e)
      PROVE  RetryInv'
  <2>1. PICK f \in FramesIn(buf[e]) :
          /\ Step(e, "parse", "unlock")
          /\ delivered' = [delivered EXCEPT ![e] = Append(@, f)]
          /\ retries' = [retries EXCEPT ![e] = 0]
          /\ UNCHANGED <<process, attempts>>
    BY <1>6 DEF Accept
  <2>2. delivered'[e] # <<>>
    BY <2>1 DEF TypeOK
  <2>3. RetryInvOf(e)'
    BY <2>1, <2>2 DEF TypeOK, Step, Running, Ended, RetryInv, RetryInvOf
  <2> QED
    BY <2>1, <2>3, RetryInvOfOthers DEF TypeOK, Step, Ended
<1>7. ASSUME NEW e \in Exchange, Retry(e)
      PROVE  RetryInv'
  <2> DEFINE r == retries[e]
  <2>1. /\ pc[e] = "retry" /\ ~Ended
        /\ pc' = [pc EXCEPT ![e] = IF Redundancy(r) > 0 THEN "write" ELSE "unlock"]
    BY <1>7 DEF Retry, Step, Running, Ended
  <2>2. /\ retries' = [retries EXCEPT ![e] = Redundancy(r)]
        /\ UNCHANGED <<process, delivered, attempts>>
    BY <1>7 DEF Retry
  <2>3. attempts[e] + WritesLeft(r) = AttemptBudget + 1 /\ delivered[e] = <<>>
    BY <2>1 DEF RetryInv, RetryInvOf
  <2>4. WritesLeft(r) \in Nat /\ WritesLeft(r) >= 1
    BY BudgetType DEF TypeOK
  <2>5. CASE Redundancy(r) > 0
    <3>1. attempts[e] + WritesLeft(Redundancy(r)) = AttemptBudget
      <4>1. r \in 0..(Word - 1)
        BY DEF TypeOK
      <4>2. WritesLeft(Redundancy(r)) = WritesLeft(r) - 1
        BY <2>5, <4>1, RedundancyCosts
      <4>3. attempts[e] \in Nat
        BY DEF TypeOK
      <4> HIDE DEF r
      <4> QED
        BY <2>3, <2>4, <4>2, <4>3, BudgetType
    <3>2. attempts[e] <= AttemptBudget
      BY DEF RetryInv, RetryInvOf
    <3>3. RetryInvOf(e)'
      BY <2>1, <2>2, <2>3, <2>5, <3>1, <3>2 DEF TypeOK, RetryInvOf, WritesLeft
    <3> QED
      BY <2>1, <2>2, <3>3, RetryInvOfOthers DEF TypeOK, Ended
  <2>6. CASE ~(Redundancy(r) > 0)
    <3>1. attempts[e] = AttemptBudget
      <4>1. WritesLeft(r) = 1
        BY <2>4, <2>6, RedundancyCosts DEF TypeOK
      <4> QED
        BY <2>3, <4>1, BudgetType DEF TypeOK
    <3>2. RetryInvOf(e)'
      BY <2>1, <2>2, <2>3, <2>6, <3>1, BudgetType DEF TypeOK, RetryInvOf
    <3> QED
      BY <2>1, <2>2, <3>2, RetryInvOfOthers DEF TypeOK, Ended
  <2> QED
    BY <2>5, <2>6
<1>8. CASE Environment
  BY <1>8, <1>1 DEF Environment, Transmit, Unsolicited, ArriveFirst,
                    ArriveSecond, threadVars, Ended
<1>9. ASSUME NEW s \in Serial \ {"unopened"}, OpenPort(s)
      PROVE  RetryInv'
  BY <1>9, <1>1 DEF OpenPort, threadVars, Ended
<1>10. CASE UNCHANGED vars
  BY <1>10, <1>1 DEF vars, threadVars, Ended
<1> QED
  BY <1>2, <1>3, <1>4, <1>5, <1>6, <1>7, <1>8, <1>9, <1>10
     DEF Next, Thread, ExitOnBadPort, CrashOnShortFrame, Quit

LEMMA RetryInvAlways == Spec => []RetryInv
<1>1. Init => RetryInv
  BY BudgetType DEF Init, RetryInv, RetryInvOf, BeforeLoop, AfterWrite,
                    AfterLoop, Finished
<1>2. QED
  BY <1>1, RetryInvStep, TypeCorrect, PTL DEF Spec

\* The loop writes at most as often as the retry counter says, 2^32 times if it
\* says 0, and gives up no earlier, whatever the line does.
THEOREM RetriesAreExact == Spec => []RetriesExact
<1>1. RetryInv => RetriesExact
  BY DEF RetryInv, RetryInvOf, RetriesExact, AfterLoop
<1>2. QED
  BY <1>1, RetryInvAlways, PTL
=============================================================================
