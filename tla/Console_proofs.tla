-------------------------- MODULE Console_proofs --------------------------
(***************************************************************************)
(* What the callback prints, and how many threads pile up, for every set   *)
(* of sizes and of samples, any number of threads and any retry count.     *)
(***************************************************************************)
EXTENDS Console, SequenceTheorems, TLAPS

\* A product grows with its first factor.
LEMMA ProductGrows ==
  ASSUME NEW a \in Int, NEW b \in Int, NEW n \in Nat, a <= b
  PROVE  a * n <= b * n
<1>1. PICK d \in Nat : b = a + d
  <2>1. b - a \in Nat /\ b = a + (b - a)
    OBVIOUS
  <2> QED
    BY <2>1
<1>2. b * n = a * n + d * n /\ d * n \in Nat
  BY <1>1
<1> QED
  BY <1>2, SMTT(30)

\* The divider of the sensor: the resistance comes out positive for the samples from
\* 1 to 1022, and for none above (to_temp2, main.cpp:91-97).
LEMMA RangeOfSensor ==
  ASSUME NEW raw \in Nat, raw # 0
  PROVE  ToTemp2(raw) = "number" <=> raw \in 1..1022
<1> DEFINE ratio == 10230000 \div raw
<1>1. ratio \in Int /\ ratio * raw <= 10230000 /\ 10230000 < ratio * raw + raw
  OBVIOUS
<1>2. Ohm(raw) = ratio - 10000
  BY DEF Ohm
<1>3. raw \in Int /\ raw >= 1
  OBVIOUS
<1> HIDE DEF ratio
<1>4. ToTemp2(raw) = "number" <=> ratio > 10000
  <2>1. Ohm(raw) > 0 <=> ratio > 10000
    <3>1. ratio \in Int
      BY <1>1
    <3> QED
      BY <3>1, <1>2
  <2> QED
    BY <2>1 DEF ToTemp2
<1>5. PICK product \in Int : product = ratio * raw
  BY <1>1, <1>3
<1>6. product <= 10230000 /\ 10230000 < product + raw
  BY <1>1, <1>5
<1>7. ASSUME raw <= 1022, ratio <= 10000
      PROVE  FALSE
  <2>1. product <= 10000 * raw
    BY <1>1, <1>3, <1>5, <1>7, ProductGrows
  <2> QED
    BY <1>3, <1>6, <1>7, <2>1
<1>8. ASSUME raw > 1022, ratio > 10000
      PROVE  FALSE
  <2>1. 10001 * raw <= product
    BY <1>1, <1>3, <1>5, <1>8, ProductGrows
  <2> QED
    BY <1>3, <1>6, <1>8, <2>1
<1>9. ratio > 10000 <=> raw <= 1022
  <2>1. ratio \in Int
    BY <1>1
  <2> QED
    BY <2>1, <1>3, <1>7, <1>8
<1> QED
  BY <1>3, <1>4, <1>9

\* to_temp2 always returns (main.cpp:91-97).
LEMMA ToTemp2Returns ==
  ASSUME NEW raw
  PROVE  ToTemp2(raw) # "out_of_range"
<1>1. /\ "number" # "out_of_range" /\ "nan" # "out_of_range"
      /\ "absolute_zero" # "out_of_range"
  OBVIOUS
<1> QED
  BY <1>1, Zenon DEF ToTemp2

\* What get_temp_callback makes of a frame never is the exception of .at(), and it is a
\* number for the sensor's range only (main.cpp:103-131).
LEMMA OutcomeSound ==
  ASSUME NEW size \in Nat, NEW raw \in Nat, NEW result \in Outcome(size, raw)
  PROVE  /\ result # "out_of_range"
         /\ result = "number" => raw \in 1..1022
         /\ raw \in 1..1022 => result \in {"nothing", "number"}
<1>1. CASE Incomplete(size)
  <2>1. result = "nothing"
    BY <1>1 DEF Outcome
  <2> QED
    BY <2>1
<1>2. CASE ~Incomplete(size) /\ raw = 0
  <2>1. result \in {"division_by_zero", "nan"}
    BY <1>2 DEF Outcome, Incomplete
  <2> QED
    BY <1>2, <2>1
<1>3. CASE ~Incomplete(size) /\ raw # 0
  <2>1. result = ToTemp2(raw)
    BY <1>3 DEF Outcome, Incomplete
  <2>2. raw \in Nat \ {0}
    BY <1>3
  <2>3. result = "number" <=> raw \in 1..1022
    BY <2>1, <2>2, RangeOfSensor
  <2>4. result # "out_of_range"
    BY <2>1, ToTemp2Returns
  <2> QED
    BY <2>3, <2>4
<1> QED
  BY <1>1, <1>2, <1>3

-----------------------------------------------------------------------------

\* A callback that does not throw shows nothing, or a sample and what it became.
LEMMA SucceedSound ==
  ASSUME TemperatureSound, NEW i, Succeed(i), process = "running"
  PROVE  TemperatureSound'
<1>1. CASE holders[i].callback = "status" /\ Unlock(i) /\ UNCHANGED <<process, shown>>
  BY <1>1 DEF TemperatureSound, Nothing
<1>2. CASE /\ holders[i].callback = "temp"
           /\ \E size \in Size, raw \in Raw :
                \E result \in Outcome(size, raw) :
                  IF result \in {"out_of_range", "division_by_zero"}
                  THEN End(result) /\ UNCHANGED <<mutex, shown>>
                  ELSE /\ shown' = IF result = "nothing" THEN Nothing
                                   ELSE [raw |-> raw, as |-> result]
                       /\ Unlock(i) /\ UNCHANGED process
  <2>1. PICK size \in Size, raw \in Raw :
          \E result \in Outcome(size, raw) :
            IF result \in {"out_of_range", "division_by_zero"}
            THEN End(result) /\ UNCHANGED <<mutex, shown>>
            ELSE /\ shown' = IF result = "nothing" THEN Nothing
                             ELSE [raw |-> raw, as |-> result]
                 /\ Unlock(i) /\ UNCHANGED process
    BY <1>2
  <2>2. size \in Nat /\ raw \in Nat
    BY ConsoleAssumption, Zenon
  <2>3. PICK result :
          /\ result \in Outcome(size, raw)
          /\ IF result \in {"out_of_range", "division_by_zero"}
             THEN End(result) /\ UNCHANGED <<mutex, shown>>
             ELSE /\ shown' = IF result = "nothing" THEN Nothing
                              ELSE [raw |-> raw, as |-> result]
                  /\ Unlock(i) /\ UNCHANGED process
    BY <2>1
  <2>4. /\ result # "out_of_range"
        /\ result = "number" => raw \in 1..1022
        /\ raw \in 1..1022 => result \in {"nothing", "number"}
    BY <2>2, <2>3, OutcomeSound
  <2>5. CASE result = "division_by_zero"
    BY <2>3, <2>5 DEF TemperatureSound, End, Nothing
  <2>6. CASE result = "nothing"
    <3>1. shown' = Nothing /\ process' = process
      BY <2>3, <2>6
    <3> QED
      BY <3>1 DEF TemperatureSound
  <2>7. CASE result \notin {"nothing", "division_by_zero"}
    <3>1. shown' = [raw |-> raw, as |-> result] /\ process' = process
      BY <2>3, <2>4, <2>7
    <3> QED
      BY <3>1, <2>4, <2>7 DEF TemperatureSound
  <2> QED
    BY <2>5, <2>6, <2>7
<1> QED
  BY <1>1, <1>2 DEF Succeed

\* Whatever a command ends in, it is not the exception of .at().
LEMMA CommandsSound ==
  ASSUME TemperatureSound, process = "running", shown' = shown,
         \/ \E callback : Send(callback)
         \/ \E c : Obey(c)
  PROVE  TemperatureSound'
<1>1. process' # "out_of_range"
  BY DEF Obey, Send, End
<1> QED
  BY <1>1 DEF TemperatureSound, Nothing

\* The bytes the callback reads are there, and what it prints is a number for every
\* sample of the sensor's range and for no other one (main.cpp:101-131), for all
\* frames and samples and whatever else goes on.
THEOREM TemperatureIsSound == Spec => []TemperatureSound
<1>1. Init => TemperatureSound
  BY DEF Init, TemperatureSound, Nothing
<1>2. TemperatureSound /\ [Next]_vars => TemperatureSound'
  <2> SUFFICES ASSUME TemperatureSound, [Next]_vars
               PROVE  TemperatureSound'
    OBVIOUS
  <2>1. ASSUME NEW c \in Command, Type(c)
        PROVE  TemperatureSound'
    BY <2>1, CommandsSound DEF Type, Prompt
  <2>2. CASE EndOfInput
    BY <2>2 DEF EndOfInput, TemperatureSound, Nothing
  <2>3. CASE Repeat
    BY <2>3, CommandsSound DEF Repeat, Prompt
  <2>4. CASE AutoSend
    BY <2>4, CommandsSound DEF AutoSend
  <2>5. CASE Thread
    <3>1. CASE \E i \in DOMAIN holders : Succeed(i)
      BY <2>5, <3>1, SucceedSound DEF Thread
    <3>2. CASE \/ \E callback \in Callback : Lock(callback)
               \/ \E i \in DOMAIN holders : Fail(i) \/ GiveUp(i)
               \/ Release
      <4>1. UNCHANGED <<process, shown>>
        BY <3>2, Zenon DEF Lock, Fail, GiveUp, Release
      <4> QED
        BY <4>1 DEF TemperatureSound, Nothing
    <3> QED
      BY <2>5, <3>1, <3>2 DEF Thread
  <2>6. CASE Tick
    BY <2>6 DEF Tick, TemperatureSound, Nothing
  <2>7. CASE UNCHANGED vars
    BY <2>7 DEF vars, TemperatureSound, Nothing
  <2> QED
    BY <2>1, <2>2, <2>3, <2>4, <2>5, <2>6, <2>7 DEF Next
<1> QED
  BY <1>1, <1>2, PTL DEF Spec

-----------------------------------------------------------------------------
(* The backlog.                                                            *)

Holder == [callback : Callback, left : 0..9, retries : 0..GlobalRetries]

\* The times are those of the code; and while the mutex is locked, somebody holds it.
ConsoleType ==
  /\ due \in 0..8
  /\ waiting \in [Callback -> Nat]
  /\ holders \in Seq(Holder)
  /\ releasing \in Nat
  /\ typed \in Nat /\ failures \in Nat
  /\ process = "running" /\ mutex => holders # <<>>

\* The time that threads may still cost: 4 s for each request typed, 4.5 s for each
\* failure and, for those of the auto run, what it still sleeps until the next.
Credit == due + 8 * typed + 9 * failures

\* When the threads at the line have to do something next.
Times ==
  {holders[i].left : i \in DOMAIN holders} \cup (IF releasing > 0 THEN {0} ELSE {})

\* Each thread costs 4 s, of which 2.5 s are on credit until the one that is next has
\* gone.  One that has failed just now may be next then, and needs its 4.5 s in full.
Covered(times, live, credit) ==
  IF times = {} THEN 8 * live <= credit
  ELSE /\ \E left \in times : 8 * live + left <= credit + 5
       /\ {0, 9} \subseteq times => 8 * live + 1 <= credit + 5

BacklogInv ==
  process = "running" /\ stdin = "open" => Covered(Times, Live, Credit)

ConsoleInv == ConsoleType /\ BacklogInv

LEMMA RemoveAtFacts ==
  ASSUME NEW S, NEW seq \in Seq(S), NEW i \in DOMAIN seq
  PROVE  /\ RemoveAt(seq, i) \in Seq(S)
         /\ Len(RemoveAt(seq, i)) = Len(seq) - 1
         /\ \A j \in DOMAIN RemoveAt(seq, i) :
              \E k \in DOMAIN seq : RemoveAt(seq, i)[j] = seq[k]
<1> DEFINE front == SubSeq(seq, 1, i - 1)
           rear == SubSeq(seq, i + 1, Len(seq))
<1>1. Len(seq) \in Nat /\ i \in 1..Len(seq)
  OBVIOUS
<1>2. /\ front \in Seq(S) /\ Len(front) = i - 1
      /\ \A j \in 1..(i - 1) : front[j] = seq[j]
  <2>1. \A j \in 1..(i - 1) : seq[j] \in S
    BY <1>1
  <2>2. /\ front \in Seq(S)
        /\ Len(front) = IF 1 <= i - 1 THEN (i - 1) - 1 + 1 ELSE 0
        /\ \A j \in 1..((i - 1) - 1 + 1) : front[j] = seq[1 + j - 1]
    BY <1>1, <2>1, SubSeqProperties
  <2> HIDE DEF front
  <2>3. QED
    BY <1>1, <2>2
<1>3. /\ rear \in Seq(S) /\ Len(rear) = Len(seq) - i
      /\ \A j \in 1..(Len(seq) - i) : rear[j] = seq[i + j]
  <2>1. \A j \in (i + 1)..Len(seq) : seq[j] \in S
    BY <1>1
  <2>2. /\ rear \in Seq(S)
        /\ Len(rear) = IF i + 1 <= Len(seq) THEN Len(seq) - (i + 1) + 1 ELSE 0
        /\ \A j \in 1..(Len(seq) - (i + 1) + 1) : rear[j] = seq[(i + 1) + j - 1]
    BY <1>1, <2>1, SubSeqProperties
  <2> HIDE DEF rear
  <2>3. QED
    BY <1>1, <2>2
<1>4. RemoveAt(seq, i) = front \o rear
  BY DEF RemoveAt
<1> HIDE DEF front, rear
<1>5. /\ front \o rear \in Seq(S) /\ Len(front \o rear) = Len(seq) - 1
  BY <1>1, <1>2, <1>3
<1>6. ASSUME NEW j \in 1..(Len(seq) - 1)
      PROVE  \E k \in DOMAIN seq : (front \o rear)[j] = seq[k]
  <2>1. CASE j <= i - 1
    <3>1. (front \o rear)[j] = front[j] /\ front[j] = seq[j] /\ j \in DOMAIN seq
      BY <1>1, <1>2, <1>3, <2>1
    <3>2. QED
      BY <3>1
  <2>2. CASE j > i - 1
    <3>1. (front \o rear)[j] = rear[j - (i - 1)]
      <4>1. j \in 1..(Len(front) + Len(rear)) /\ ~(j <= Len(front))
        BY <1>1, <1>2, <1>3, <2>2
      <4>2. (front \o rear)[j] = rear[j - Len(front)]
        BY <1>2, <1>3, <4>1, ConcatProperties
      <4>3. QED
        BY <1>2, <4>2
    <3>2. j - (i - 1) \in 1..(Len(seq) - i) /\ i + (j - (i - 1)) = j + 1
      BY <1>1, <2>2
    <3>3. rear[j - (i - 1)] = seq[j + 1] /\ j + 1 \in DOMAIN seq
      <4>1. PICK m \in 1..(Len(seq) - i) : m = j - (i - 1)
        BY <3>2
      <4>2. rear[m] = seq[i + m] /\ i + m = j + 1
        BY <1>3, <3>2, <4>1
      <4>3. j + 1 \in 1..Len(seq)
        BY <1>1, <2>2
      <4>4. QED
        BY <4>1, <4>2, <4>3
    <3>4. QED
      BY <3>1, <3>3
  <2>3. j <= i - 1 \/ j > i - 1
    BY <1>1
  <2>4. QED
    BY <2>1, <2>2, <2>3, Zenon
<1>7. DOMAIN (front \o rear) = 1..(Len(seq) - 1)
  BY <1>5
<1>8. QED
  BY <1>4, <1>5, <1>6, <1>7, Zenon

\* Whatever comes is paid for.
LEMMA PaidFor ==
  ASSUME NEW times \in SUBSET (0..9), NEW l \in Nat, NEW c \in Nat, Covered(times, l, c),
         NEW l2 \in Nat, NEW c2 \in Nat, 8 * l2 + c <= 8 * l + c2
  PROVE  Covered(times, l2, c2)
<1>1. CASE times = {}
  BY <1>1 DEF Covered
<1>2. CASE times # {}
  <2>1. PICK left \in times : 8 * l + left <= c + 5
    BY <1>2 DEF Covered
  <2>2. 8 * l2 + left <= c2 + 5
    BY <2>1
  <2>3. {0, 9} \subseteq times => 8 * l + 1 <= c + 5
    BY <1>2, Zenon DEF Covered
  <2>4. 8 * l + 1 <= c + 5 => 8 * l2 + 1 <= c2 + 5
    OBVIOUS
  <2>5. QED
    BY <1>2, <2>1, <2>2, <2>3, <2>4, Zenon DEF Covered
<1>3. QED
  BY <1>1, <1>2

\* Time goes by for all at the line and for the auto run.
LEMMA TimeCovered ==
  ASSUME NEW times \in SUBSET (1..9), times # {},
         NEW l \in Nat, NEW c \in Nat, Covered(times, l, c),
         NEW c2 \in Nat, c2 >= c - 1
  PROVE  Covered({t - 1 : t \in times}, l, c2)
<1>1. PICK left \in times : 8 * l + left <= c + 5
  BY DEF Covered
<1>2. left - 1 \in {t - 1 : t \in times} /\ 8 * l + (left - 1) <= c2 + 5
  <2>1. left - 1 \in {t - 1 : t \in times}
    OBVIOUS
  <2>2. left \in 1..9
    OBVIOUS
  <2>3. 8 * l + (left - 1) <= c2 + 5
    BY <1>1, <2>2
  <2>4. QED
    BY <2>1, <2>3
<1>3. ~({0, 9} \subseteq {t - 1 : t \in times})
  OBVIOUS
<1>4. {t - 1 : t \in times} # {}
  BY <1>1
<1> DEFINE times2 == {t - 1 : t \in times}
<1> HIDE DEF times2
<1>5. QED
  <2>1. Covered(times2, l, c2)
    BY <1>2, <1>3, <1>4, Zenon DEF Covered, times2
  <2>2. QED
    BY <2>1 DEF times2

\* A failure pays for the attempt after it.
LEMMA FailureCovered ==
  ASSUME NEW times \in SUBSET (0..9), times # {},
         NEW l \in Nat, NEW c \in Nat, Covered(times, l, c),
         NEW times2 \in SUBSET (0..9), times2 # {}
  PROVE  Covered(times2, l, c + 9)
<1>1. PICK left \in times : 8 * l + left <= c + 5
  BY DEF Covered
<1>2. PICK y \in times2 : TRUE
  OBVIOUS
<1>3. left \in 0..9 /\ y \in 0..9
  OBVIOUS
<1>4. 8 * l + y <= c + 9 + 5 /\ 8 * l + 1 <= c + 9 + 5
  BY <1>1, <1>3
<1>5. QED
  BY <1>2, <1>4, Zenon DEF Covered

\* Who comes to the line is over soon enough, unless it fails.
LEMMA LockCovered ==
  ASSUME NEW times \in SUBSET (0..9), NEW l \in Nat, NEW c \in Nat,
         Covered(times, l, c), NEW left \in {4, 5}
  PROVE  Covered(times \cup {left}, l, c)
<1>1. CASE times = {}
  <2>1. 8 * l + left <= c + 5
    BY <1>1 DEF Covered
  <2>2. ~({0, 9} \subseteq times \cup {left}) /\ left \in times \cup {left}
    BY <1>1
  <2>3. QED
    BY <2>1, <2>2, Zenon DEF Covered
<1>2. CASE times # {}
  <2>1. {0, 9} \subseteq times \cup {left} => {0, 9} \subseteq times
    OBVIOUS
  <2>2. times \cup {left} # {} /\ times \subseteq times \cup {left}
    OBVIOUS
  <2>3. QED
    BY <1>2, <2>1, <2>2, Zenon DEF Covered
<1>3. QED
  BY <1>1, <1>2

\* A thread that is done with the line is still there, but only to unlock it again.
LEMMA UnlockCovered ==
  ASSUME NEW times \in SUBSET (0..9), NEW l \in Nat, NEW c \in Nat,
         Covered(times, l, c), NEW times2 \in SUBSET times, 0 \in times2
  PROVE  Covered(times2, l, c)
<1>1. PICK left \in times : 8 * l + left <= c + 5
  BY DEF Covered
<1>2. left \in 0..9
  OBVIOUS
<1>3. 8 * l + 0 <= c + 5
  BY <1>1, <1>2
<1>4. {0, 9} \subseteq times2 => 8 * l + 1 <= c + 5
  <2>1. {0, 9} \subseteq times2 => {0, 9} \subseteq times
    OBVIOUS
  <2>2. times # {}
    OBVIOUS
  <2>3. QED
    BY <2>1, <2>2, Zenon DEF Covered
<1>5. QED
  BY <1>3, <1>4, Zenon DEF Covered

\* The one that is gone pays for the one that is next.
LEMMA ReleaseCovered ==
  ASSUME NEW times \in SUBSET (0..9), NEW l \in Nat \ {0}, NEW c \in Nat,
         Covered(times, l, c), 0 \in times, NEW times2 \in SUBSET times
  PROVE  Covered(times2, l - 1, c)
<1>1. PICK left \in times : 8 * l + left <= c + 5
  BY DEF Covered
<1>2. left \in 0..9
  OBVIOUS
<1>3. 8 * l <= c + 5
  BY <1>1, <1>2
<1>4. CASE times2 = {}
  BY <1>3, <1>4 DEF Covered
<1>5. CASE times2 # {}
  <2>1. PICK y \in times2 : TRUE
    BY <1>5
  <2>2. y \in 0..9
    OBVIOUS
  <2>3. 8 * (l - 1) + y <= c + 5
    <3>1. CASE y = 9
      <4>1. {0, 9} \subseteq times /\ times # {}
        BY <3>1
      <4>2. 8 * l + 1 <= c + 5
        BY <4>1, Zenon DEF Covered
      <4>3. QED
        BY <3>1, <4>2
    <3>2. CASE y # 9
      BY <1>3, <2>2, <3>2
    <3>3. QED
      BY <3>1, <3>2
  <2>4. 8 * (l - 1) + 1 <= c + 5
    BY <1>3
  <2>5. QED
    BY <1>5, <2>1, <2>3, <2>4, Zenon DEF Covered
<1>6. QED
  BY <1>4, <1>5

-----------------------------------------------------------------------------
(* The actions.                                                            *)

LEMMA LiveType ==
  ASSUME ConsoleType
  PROVE  Live \in Nat /\ Credit \in Nat /\ Times \in SUBSET (0..9)
<1>1. /\ waiting["temp"] \in Nat /\ waiting["status"] \in Nat /\ Len(holders) \in Nat
      /\ releasing \in Nat /\ due \in Nat /\ typed \in Nat /\ failures \in Nat
  BY DEF ConsoleType, Callback
<1>2. Live \in Nat
  BY <1>1 DEF Live
<1>3. Credit \in Nat
  BY <1>1 DEF Credit
<1>4. \A i \in DOMAIN holders : holders[i].left \in 0..9
  <2>1. holders \in Seq(Holder)
    BY DEF ConsoleType
  <2>2. \A i \in DOMAIN holders : holders[i] \in Holder
    BY <2>1
  <2>3. QED
    BY <2>2 DEF Holder
<1>5. Times \in SUBSET (0..9)
  BY <1>4 DEF Times
<1>6. QED
  BY <1>2, <1>3, <1>5

\* The same of the next state.
LEMMA LiveTypeNext ==
  ASSUME ConsoleType'
  PROVE  Live' \in Nat /\ Credit' \in Nat /\ Times' \in SUBSET (0..9)
<1>1. /\ waiting'["temp"] \in Nat /\ waiting'["status"] \in Nat
      /\ Len(holders') \in Nat /\ releasing' \in Nat
      /\ due' \in Nat /\ typed' \in Nat /\ failures' \in Nat
  BY DEF ConsoleType, Callback
<1>2. Live' \in Nat
  BY <1>1 DEF Live
<1>3. Credit' \in Nat
  <2>1. PICK d \in Nat, m \in Nat, f \in Nat : d = due' /\ m = typed' /\ f = failures'
    BY <1>1
  <2>2. Credit' = d + 8 * m + 9 * f
    BY <2>1, Zenon DEF Credit
  <2>3. QED
    BY <2>2
<1>4. \A i \in DOMAIN holders' : holders'[i].left \in 0..9
  <2>1. holders' \in Seq(Holder)
    BY DEF ConsoleType
  <2>2. \A i \in DOMAIN holders' : holders'[i] \in Holder
    BY <2>1
  <2>3. QED
    BY <2>2 DEF Holder
<1>5. Times' \in SUBSET (0..9)
  BY <1>4 DEF Times
<1>6. QED
  BY <1>2, <1>3, <1>5

\* The console itself: the line stays as it is, and what comes is paid for.
LEMMA BacklogKept ==
  ASSUME ConsoleInv, ConsoleType',
         stdin' = "open" => stdin = "open",
         process' = "running" =>
           /\ process = "running" /\ UNCHANGED <<holders, releasing>>
           /\ 8 * Live' + Credit <= 8 * Live + Credit'
  PROVE  BacklogInv'
<1>1. SUFFICES ASSUME process' = "running", stdin' = "open"
               PROVE  Covered(Times', Live', Credit')
  BY DEF BacklogInv
<1>2. Times' = Times
  BY <1>1 DEF Times
<1>3. Covered(Times, Live, Credit)
  BY <1>1 DEF ConsoleInv, BacklogInv
<1>4. Live \in Nat /\ Credit \in Nat /\ Times \in SUBSET (0..9)
  BY LiveType DEF ConsoleInv
<1>5. Live' \in Nat /\ Credit' \in Nat
  BY LiveTypeNext
<1>6. Covered(Times, Live', Credit')
  BY <1>1, <1>3, <1>4, <1>5, PaidFor
<1>7. QED
  BY <1>2, <1>6

\* A thread more, at the cost of 4 s, or the end of the process.
LEMMA SendStep ==
  ASSUME ConsoleInv, NEW callback \in Callback, Send(callback)
  PROVE  /\ waiting' \in [Callback -> Nat] /\ holders' \in Seq(Holder)
         /\ releasing' \in Nat
         /\ process' = "running" =>
              /\ process = "running" /\ UNCHANGED <<holders, releasing>>
              /\ Live' = Live + 1
<1>1. /\ waiting \in [Callback -> Nat] /\ holders \in Seq(Holder)
      /\ releasing \in Nat /\ Len(holders) \in Nat
  BY DEF ConsoleInv, ConsoleType
<1>2. CASE Live < ThreadLimit
  <2>1. /\ waiting' = [waiting EXCEPT ![callback] = @ + 1]
        /\ UNCHANGED <<process, holders, releasing>>
    BY <1>2 DEF Send
  <2>2. waiting' \in [Callback -> Nat]
    BY <1>1, <2>1
  <2>3. /\ waiting["temp"] \in Nat /\ waiting["status"] \in Nat
        /\ waiting'["temp"] = waiting["temp"] + (IF callback = "temp" THEN 1 ELSE 0)
        /\ waiting'["status"] = waiting["status"] + (IF callback = "temp" THEN 0 ELSE 1)
    BY <1>1, <2>1 DEF Callback
  <2>4. Live' = Live + 1
    <3>1. Live' = waiting'["temp"] + waiting'["status"] + Len(holders) + releasing
      BY <2>1 DEF Live
    <3>2. PICK a \in Nat, b \in Nat, h \in Nat, r \in Nat :
            /\ a = waiting["temp"] /\ b = waiting["status"]
            /\ h = Len(holders) /\ r = releasing
      BY <1>1, <2>3
    <3>3. Live = a + b + h + r
      BY <3>2 DEF Live
    <3>4. \/ waiting'["temp"] = a + 1 /\ waiting'["status"] = b
          \/ waiting'["temp"] = a /\ waiting'["status"] = b + 1
      BY <2>3, <3>2
    <3>5. Live' = (a + 1) + b + h + r \/ Live' = a + (b + 1) + h + r
      BY <3>1, <3>2, <3>4, Zenon
    <3>6. QED
      BY <3>3, <3>5
  <2>5. QED
    BY <1>1, <2>1, <2>2, <2>4
<1>3. CASE ~(Live < ThreadLimit)
  <2>1. End("out_of_threads")
    BY <1>3 DEF Send
  <2>2. QED
    BY <2>1 DEF End, NoneWaiting
<1>4. QED
  BY <1>2, <1>3

\* A command costs at most one thread, and only t and the status commands one.
LEMMA ObeyStep ==
  ASSUME ConsoleInv, NEW c \in Command, Obey(c)
  PROVE  /\ waiting' \in [Callback -> Nat] /\ holders' \in Seq(Holder)
         /\ releasing' \in Nat
         /\ process' = "running" =>
              /\ process = "running" /\ UNCHANGED <<holders, releasing>>
              /\ Live' = IF c \in {"t", "status"} THEN Live + 1 ELSE Live
<1>1. /\ waiting \in [Callback -> Nat] /\ holders \in Seq(Holder)
      /\ releasing \in Nat
  BY DEF ConsoleInv, ConsoleType
<1>2. CASE c \in {"t", "status"}
  <2>1. PICK callback \in Callback : Send(callback)
    BY <1>2 DEF Obey, Callback
  <2>2. QED
    BY <1>2, <2>1, SendStep
<1>3. CASE c = "b" \/ c = "q"
  <2>1. PICK how : how # "running" /\ End(how)
    BY <1>3 DEF Obey
  <2>2. QED
    BY <2>1 DEF End, NoneWaiting
<1>4. CASE c \notin {"t", "status", "b", "q"}
  <2>1. UNCHANGED <<process, threads>>
    BY <1>4 DEF Obey
  <2>2. UNCHANGED <<process, waiting, holders, releasing>>
    BY <2>1 DEF threads
  <2>3. Live' = Live
    BY <2>2 DEF Live
  <2>4. QED
    BY <1>1, <1>4, <2>2, <2>3
<1>5. QED
  BY <1>2, <1>3, <1>4

LEMMA ConsoleActions ==
  ASSUME ConsoleInv,
         \/ \E c \in Command : Type(c)
         \/ EndOfInput \/ Repeat \/ AutoSend \/ UNCHANGED vars
  PROVE  ConsoleInv'
<1>1. /\ due \in 0..8 /\ waiting \in [Callback -> Nat] /\ holders \in Seq(Holder)
      /\ releasing \in Nat /\ typed \in Nat /\ failures \in Nat
      /\ process = "running" /\ mutex => holders # <<>>
  BY DEF ConsoleInv, ConsoleType
<1>2. Live \in Nat /\ Credit \in Nat
  BY LiveType DEF ConsoleInv
<1>3. ASSUME NEW c \in Command, Type(c) PROVE ConsoleInv'
  <2>1. /\ Obey(c) /\ UNCHANGED <<stdin, due, mutex, failures>>
        /\ typed' = IF c \in {"t", "status"} THEN typed + 1 ELSE typed
    BY <1>3 DEF Type
  <2>2. /\ waiting' \in [Callback -> Nat] /\ holders' \in Seq(Holder)
        /\ releasing' \in Nat
        /\ process' = "running" =>
             /\ process = "running" /\ UNCHANGED <<holders, releasing>>
             /\ Live' = IF c \in {"t", "status"} THEN Live + 1 ELSE Live
    BY <2>1, ObeyStep
  <2>3. ConsoleType'
    BY <1>1, <2>1, <2>2 DEF ConsoleType
  <2>4. Credit' = IF c \in {"t", "status"} THEN Credit + 8 ELSE Credit
    BY <1>1, <2>1 DEF Credit
  <2>5. process' = "running" => 8 * Live' + Credit <= 8 * Live + Credit'
    BY <1>2, <2>2, <2>4
  <2>6. QED
    BY <2>1, <2>2, <2>3, <2>5, BacklogKept DEF ConsoleInv
<1>4. CASE EndOfInput \/ UNCHANGED vars
  <2>1. UNCHANGED <<process, mutex, threads, failures, due, typed>>
    BY <1>4 DEF EndOfInput, vars, consoleVars
  <2>2. UNCHANGED <<waiting, holders, releasing>>
    BY <2>1 DEF threads
  <2>3. ConsoleType'
    BY <1>1, <2>1, <2>2 DEF ConsoleType
  <2>4. Live' = Live /\ Credit' = Credit
    BY <2>1, <2>2 DEF Live, Credit
  <2>5. stdin' = "open" => stdin = "open"
    BY <1>4 DEF EndOfInput, vars, consoleVars
  <2>6. QED
    BY <1>2, <2>1, <2>2, <2>3, <2>4, <2>5, BacklogKept DEF ConsoleInv
<1>5. CASE Repeat
  <2>1. /\ Obey(cmd) /\ UNCHANGED <<stdin, due, mutex, typed, failures>>
        /\ stdin = "eof"
    BY <1>5 DEF Repeat
  <2>2. /\ waiting' \in [Callback -> Nat] /\ holders' \in Seq(Holder)
        /\ releasing' \in Nat
        /\ process' = "running" => process = "running" /\ UNCHANGED holders
    <3>1. cmd \in Command
      BY <2>1 DEF Obey, Command
    <3>2. QED
      BY <2>1, <3>1, ObeyStep
  <2>3. ConsoleType'
    BY <1>1, <2>1, <2>2 DEF ConsoleType
  <2>4. BacklogInv'
    BY <2>1 DEF BacklogInv
  <2>5. QED
    BY <2>3, <2>4 DEF ConsoleInv
<1>6. CASE AutoSend
  <2>1. /\ Send("temp") /\ due = 0 /\ due' = 8
        /\ UNCHANGED <<stdin, mutex, typed, failures>>
    BY <1>6 DEF AutoSend
  <2>2. /\ waiting' \in [Callback -> Nat] /\ holders' \in Seq(Holder)
        /\ releasing' \in Nat
        /\ process' = "running" =>
             /\ process = "running" /\ UNCHANGED <<holders, releasing>>
             /\ Live' = Live + 1
    BY <2>1, SendStep DEF Callback
  <2>3. ConsoleType'
    BY <1>1, <2>1, <2>2 DEF ConsoleType
  <2>4. Credit' = Credit + 8
    BY <1>1, <2>1 DEF Credit
  <2>5. process' = "running" => 8 * Live' + Credit <= 8 * Live + Credit'
    BY <1>2, <2>2, <2>4
  <2>6. QED
    BY <2>1, <2>2, <2>3, <2>5, BacklogKept DEF ConsoleInv
<1>7. QED
  BY <1>3, <1>4, <1>5, <1>6

\* Half a second goes by, in which a thread at the line gets nearer to its end.
LEMMA TickKeeps ==
  ASSUME ConsoleInv, Tick
  PROVE  ConsoleInv'
<1>1. /\ due \in 0..8 /\ waiting \in [Callback -> Nat] /\ holders \in Seq(Holder)
      /\ releasing \in Nat /\ typed \in Nat /\ failures \in Nat
      /\ process = "running" /\ mutex => holders # <<>>
  BY DEF ConsoleInv, ConsoleType
<1>2. /\ process = "running"
      /\ mutex \/ waiting = NoneWaiting
      /\ releasing = 0
      /\ \A i \in DOMAIN holders : holders[i].left > 0
      /\ (due > 0 /\ due' = due - 1) \/ due' = due
      /\ holders' = [i \in DOMAIN holders |-> Older(holders[i])]
      /\ UNCHANGED <<process, stdin, mutex, waiting, releasing, typed, failures>>
  BY Zenon DEF Tick
<1>3. \A i \in DOMAIN holders :
        /\ holders[i] \in Holder /\ holders[i].left \in 1..9
        /\ Older(holders[i]) \in Holder
        /\ Older(holders[i]).left = holders[i].left - 1
  <2>1. ASSUME NEW i \in DOMAIN holders
        PROVE  /\ holders[i] \in Holder /\ holders[i].left \in 1..9
               /\ Older(holders[i]) \in Holder
               /\ Older(holders[i]).left = holders[i].left - 1
    <3>1. holders[i] \in Holder /\ holders[i].left > 0
      BY <1>1, <1>2
    <3>2. PICK h \in Holder : h = holders[i] /\ h.left > 0
      BY <3>1
    <3>3. h.left \in 1..9
      BY <3>2 DEF Holder
    <3>4. Older(h) = [h EXCEPT !.left = h.left - 1]
      BY DEF Older
    <3>5. Older(h) \in Holder /\ Older(h).left = h.left - 1
      BY <3>3, <3>4 DEF Holder
    <3>6. QED
      BY <3>2, <3>3, <3>5
  <2>2. QED
    BY <2>1
<1>4. /\ holders' \in Seq(Holder) /\ Len(holders') = Len(holders)
      /\ DOMAIN holders' = DOMAIN holders
      /\ \A i \in DOMAIN holders : holders'[i].left = holders[i].left - 1
  <2>1. holders' = [i \in 1..Len(holders) |-> Older(holders[i])] /\ Len(holders) \in Nat
    BY <1>1, <1>2
  <2>2. \A i \in 1..Len(holders) : Older(holders[i]) \in Holder
    BY <1>1, <1>3
  <2>3. holders' \in Seq(Holder) /\ Len(holders') = Len(holders)
    BY <2>1, <2>2
  <2>4. QED
    BY <1>1, <1>3, <2>1, <2>3
<1>5. ConsoleType'
  <2>1. due' \in 0..8
    BY <1>1, <1>2
  <2>2. holders # <<>> => holders' # <<>>
    BY <1>1, <1>4
  <2>3. QED
    BY <1>1, <1>2, <1>4, <2>1, <2>2 DEF ConsoleType
<1>6. Live' = Live
  BY <1>2, <1>4 DEF Live
<1>7. PICK l \in Nat, c \in Nat, c2 \in Nat :
        /\ l = Live /\ c = Credit /\ c2 = Credit' /\ c2 >= c - 1
  <2>1. Credit' >= Credit - 1
    <3>1. PICK e \in Nat : e = 8 * typed + 9 * failures
      BY <1>1
    <3>2. Credit = due + e /\ Credit' = due' + e
      BY <1>1, <1>2, <3>1 DEF Credit
    <3>3. QED
      BY <1>1, <1>2, <3>2
  <2>2. Live \in Nat /\ Credit \in Nat /\ Credit' \in Nat
    BY <1>5, LiveType, LiveTypeNext DEF ConsoleInv
  <2>3. QED
    BY <2>1, <2>2
<1>8. ASSUME stdin = "open" PROVE Covered(Times', Live', Credit')
  <2>1. Covered(Times, l, c)
    <3>1. Covered(Times, Live, Credit)
      BY <1>2, <1>8, Zenon DEF ConsoleInv, BacklogInv
    <3>2. QED
      BY <1>7, <3>1, Zenon
  <2>2. Times = {holders[i].left : i \in DOMAIN holders}
    BY <1>2 DEF Times
  <2>3. Times' = {t - 1 : t \in Times}
    <3>1. Times' = {holders'[i].left : i \in DOMAIN holders'}
      BY <1>2 DEF Times
    <3>2. {holders'[i].left : i \in DOMAIN holders'}
            = {holders[i].left - 1 : i \in DOMAIN holders}
      BY <1>4
    <3>3. \A x : x \in {holders[i].left - 1 : i \in DOMAIN holders}
                  <=> x \in {t - 1 : t \in {holders[i].left : i \in DOMAIN holders}}
      OBVIOUS
    <3>4. QED
      BY <2>2, <3>1, <3>2, <3>3
  <2>4. CASE Times = {}
    <3>1. holders = <<>>
      <4>1. Len(holders) \in Nat /\ DOMAIN holders = 1..Len(holders)
        BY <1>1
      <4>2. DOMAIN holders = {}
        BY <2>2, <2>4
      <4>3. Len(holders) = 0
        BY <4>1, <4>2
      <4>4. QED
        BY <1>1, <4>3, EmptySeq
    <3>2. waiting = NoneWaiting /\ releasing = 0
      BY <1>1, <1>2, <3>1
    <3>3. Live = 0
      BY <3>1, <3>2 DEF Live, NoneWaiting, Callback
    <3>4. Times' = {}
      BY <2>3, <2>4
    <3>5. 8 * 0 <= c2
      OBVIOUS
    <3>6. QED
      BY <1>6, <1>7, <3>3, <3>4, <3>5, Zenon DEF Covered
  <2>5. CASE Times # {}
    <3>1. Times \in SUBSET (1..9)
      BY <1>3, <2>2
    <3>2. Covered({t - 1 : t \in Times}, l, c2)
      BY <1>7, <2>1, <2>5, <3>1, TimeCovered
    <3>3. QED
      BY <1>6, <1>7, <2>3, <3>2
  <2>6. QED
    BY <2>4, <2>5
<1>9. QED
  BY <1>2, <1>5, <1>8 DEF ConsoleInv, BacklogInv

LEMMA LockKeeps ==
  ASSUME ConsoleInv, process = "running", NEW callback \in Callback, Lock(callback)
  PROVE  ConsoleInv'
<1>1. /\ due \in 0..8 /\ waiting \in [Callback -> Nat] /\ holders \in Seq(Holder)
      /\ releasing \in Nat /\ typed \in Nat /\ failures \in Nat
      /\ Len(holders) \in Nat
  BY DEF ConsoleInv, ConsoleType
<1>2. /\ waiting[callback] > 0
      /\ waiting' = [waiting EXCEPT ![callback] = @ - 1]
      /\ UNCHANGED <<process, releasing, failures, stdin, due, typed>>
  BY DEF Lock, consoleVars
<1>3. PICK new \in Holder : new.left \in {4, 5} /\ holders' = Append(holders, new)
  <2>1. PICK left \in Attempt :
          holders' = Append(holders, [callback |-> callback, left |-> 2 + left,
                                      retries |-> GlobalRetries])
    BY DEF Lock
  <2>2. PICK new : new = [callback |-> callback, left |-> 2 + left,
                          retries |-> GlobalRetries]
    OBVIOUS
  <2>3. new \in Holder /\ new.left \in {4, 5}
    BY <2>2, ConsoleAssumption DEF Holder, Attempt
  <2>4. QED
    BY <2>1, <2>2, <2>3
<1>4. /\ holders' \in Seq(Holder) /\ Len(holders') = Len(holders) + 1
      /\ \A i \in DOMAIN holders : holders'[i] = holders[i]
      /\ holders'[Len(holders) + 1] = new
  BY <1>1, <1>3
<1>5. waiting' \in [Callback -> Nat]
  BY <1>1, <1>2
<1>6. ConsoleType'
  BY <1>1, <1>2, <1>4, <1>5 DEF ConsoleType
<1>7. Live' = Live
  <2>1. /\ waiting["temp"] \in Nat /\ waiting["status"] \in Nat
        /\ \/ /\ waiting'["temp"] = waiting["temp"] - 1
              /\ waiting'["status"] = waiting["status"]
           \/ /\ waiting'["temp"] = waiting["temp"]
              /\ waiting'["status"] = waiting["status"] - 1
    BY <1>1, <1>2 DEF Callback
  <2>2. PICK t \in Nat, u \in Nat, tt \in Int, uu \in Int :
          /\ t = waiting["temp"] /\ u = waiting["status"]
          /\ tt = waiting'["temp"] /\ uu = waiting'["status"]
          /\ tt + uu = t + u - 1
    BY <2>1
  <2>3. PICK n \in Nat, r \in Nat : n = Len(holders) /\ r = releasing
    BY <1>1
  <2>4. Live = t + u + n + r
    BY <2>2, <2>3 DEF Live
  <2>5. Live' = tt + uu + (n + 1) + r
    BY <1>2, <1>4, <2>2, <2>3 DEF Live
  <2>6. tt + uu = t + u - 1
    BY <2>2, Zenon
  <2>7. tt + uu + (n + 1) + r = t + u + n + r
    BY <2>6
  <2>8. QED
    BY <2>4, <2>5, <2>7, Zenon
<1>8. Credit' = Credit
  BY <1>2 DEF Credit
<1>9. Times' = Times \cup {new.left}
  <2>1. {holders'[i].left : i \in DOMAIN holders'}
          = {holders[i].left : i \in DOMAIN holders} \cup {new.left}
    <3>1. DOMAIN holders' = DOMAIN holders \cup {Len(holders) + 1}
      BY <1>1, <1>4
    <3>2. QED
      BY <1>4, <3>1
  <2>2. QED
    BY <1>2, <2>1 DEF Times
<1>10. Live \in Nat /\ Credit \in Nat /\ Times \in SUBSET (0..9)
  BY LiveType DEF ConsoleInv
<1>11. ASSUME stdin = "open" PROVE Covered(Times', Live', Credit')
  <2>1. Covered(Times, Live, Credit)
    BY <1>11, Zenon DEF ConsoleInv, BacklogInv
  <2>2. Covered(Times \cup {new.left}, Live, Credit)
    BY <1>3, <1>10, <2>1, LockCovered
  <2>3. QED
    BY <1>7, <1>8, <1>9, <2>2, Zenon
<1>12. QED
  BY <1>2, <1>6, <1>11 DEF ConsoleInv, BacklogInv

LEMMA FailKeeps ==
  ASSUME ConsoleInv, process = "running", NEW i \in DOMAIN holders, Fail(i)
  PROVE  ConsoleInv'
<1>1. /\ due \in 0..8 /\ waiting \in [Callback -> Nat] /\ holders \in Seq(Holder)
      /\ releasing \in Nat /\ typed \in Nat /\ failures \in Nat
      /\ Len(holders) \in Nat
  BY DEF ConsoleInv, ConsoleType
<1>2. /\ failures' = failures + 1
      /\ holders[i].left = 0 /\ holders[i].retries > 0
      /\ UNCHANGED <<process, mutex, waiting, releasing, stdin, due, typed>>
  BY DEF Fail, Decided, consoleVars
<1>3. PICK new \in Holder : holders' = [holders EXCEPT ![i] = new]
  <2>1. PICK left \in {0, 2, 3} :
          holders' = [holders EXCEPT ![i].left = 6 + left, ![i].retries = @ - 1]
    BY DEF Fail, Attempt
  <2>2. PICK old \in Holder : old = holders[i]
    BY <1>1
  <2>3. holders' = [holders EXCEPT ![i] = [old EXCEPT !.left = 6 + left,
                                                      !.retries = old.retries - 1]]
    BY <1>1, <2>1, <2>2
  <2>4. [old EXCEPT !.left = 6 + left, !.retries = old.retries - 1] \in Holder
    <3>1. old.retries > 0 /\ old.retries \in 0..GlobalRetries
      BY <1>2, <2>2 DEF Holder
    <3>2. GlobalRetries \in Nat
      BY ConsoleAssumption
    <3>3. 6 + left \in 0..9 /\ old.retries - 1 \in 0..GlobalRetries
      BY <3>1, <3>2
    <3>4. QED
      BY <3>3 DEF Holder
  <2>5. QED
    BY <2>3, <2>4
<1>4. holders' \in Seq(Holder) /\ Len(holders') = Len(holders) /\ holders' # <<>>
  BY <1>1, <1>3
<1>5. ConsoleType'
  BY <1>1, <1>2, <1>4 DEF ConsoleType
<1>6. Live' = Live
  BY <1>2, <1>4 DEF Live
<1>7. Credit' = Credit + 9
  BY <1>1, <1>2 DEF Credit
<1>8. Times # {}
  BY DEF Times
<1>9. Times' # {}
  <2>1. i \in DOMAIN holders'
    BY <1>1, <1>4
  <2>2. QED
    BY <2>1 DEF Times
<1>10. /\ Live \in Nat /\ Credit \in Nat /\ Times \in SUBSET (0..9)
       /\ Times' \in SUBSET (0..9)
  BY <1>5, LiveType, LiveTypeNext DEF ConsoleInv
<1>11. ASSUME stdin = "open" PROVE Covered(Times', Live', Credit')
  <2>1. Covered(Times, Live, Credit)
    BY <1>11, Zenon DEF ConsoleInv, BacklogInv
  <2>2. Covered(Times', Live, Credit + 9)
    BY <1>8, <1>9, <1>10, <2>1, FailureCovered
  <2>3. QED
    BY <1>6, <1>7, <2>2, Zenon
<1>12. QED
  BY <1>2, <1>5, <1>11 DEF ConsoleInv, BacklogInv

\* The end of a loop: the thread leaves the line, but still has to unlock.
LEMMA UnlockKeeps ==
  ASSUME ConsoleInv, process = "running", NEW i \in DOMAIN holders, Unlock(i),
         holders[i].left = 0, UNCHANGED <<process, failures, consoleVars>>
  PROVE  ConsoleInv'
<1>1. /\ due \in 0..8 /\ waiting \in [Callback -> Nat] /\ holders \in Seq(Holder)
      /\ releasing \in Nat /\ typed \in Nat /\ failures \in Nat
      /\ Len(holders) \in Nat
  BY DEF ConsoleInv, ConsoleType
<1>2. /\ mutex' = FALSE /\ holders' = RemoveAt(holders, i)
      /\ releasing' = releasing + 1
      /\ UNCHANGED <<process, waiting, failures, stdin, due, typed>>
  BY DEF Unlock, consoleVars
<1>3. /\ holders' \in Seq(Holder) /\ Len(holders') = Len(holders) - 1
      /\ \A j \in DOMAIN holders' : \E k \in DOMAIN holders : holders'[j] = holders[k]
  BY <1>1, <1>2, RemoveAtFacts
<1>4. ConsoleType'
  BY <1>1, <1>2, <1>3 DEF ConsoleType
<1>5. Live' = Live
  <2>1. waiting["temp"] \in Nat /\ waiting["status"] \in Nat
    BY <1>1 DEF Callback
  <2>2. Live' = waiting["temp"] + waiting["status"] + (Len(holders) - 1)
                  + (releasing + 1)
    BY <1>2, <1>3 DEF Live
  <2>3. PICK a \in Nat, b \in Nat, h \in Nat, r \in Nat :
          /\ a = waiting["temp"] /\ b = waiting["status"]
          /\ h = Len(holders) /\ r = releasing
    BY <1>1, <2>1
  <2>4. Live' = a + b + (h - 1) + (r + 1) /\ Live = a + b + h + r
    BY <2>2, <2>3 DEF Live
  <2>5. QED
    BY <2>4
<1>6. Credit' = Credit
  BY <1>2 DEF Credit
<1>7. 0 \in Times
  BY DEF Times
<1>8. 0 \in Times'
  BY <1>1, <1>2 DEF Times
<1>9. Times' \in SUBSET Times
  <2>1. \A j \in DOMAIN holders' : holders'[j].left \in Times
    BY <1>3 DEF Times
  <2>2. QED
    BY <1>7, <2>1 DEF Times
<1>10. Live \in Nat /\ Credit \in Nat /\ Times \in SUBSET (0..9)
  BY LiveType DEF ConsoleInv
<1>11. ASSUME stdin = "open" PROVE Covered(Times', Live', Credit')
  <2>1. Covered(Times, Live, Credit)
    BY <1>11, Zenon DEF ConsoleInv, BacklogInv
  <2>2. Covered(Times', Live, Credit)
    BY <1>8, <1>9, <1>10, <2>1, UnlockCovered
  <2>3. QED
    BY <1>5, <1>6, <2>2, Zenon
<1>12. QED
  BY <1>2, <1>4, <1>11 DEF ConsoleInv, BacklogInv

\* The second unlock, after which the thread is gone.
LEMMA ReleaseKeeps ==
  ASSUME ConsoleInv, process = "running", Release
  PROVE  ConsoleInv'
<1>1. /\ due \in 0..8 /\ waiting \in [Callback -> Nat] /\ holders \in Seq(Holder)
      /\ releasing \in Nat /\ typed \in Nat /\ failures \in Nat
      /\ Len(holders) \in Nat
  BY DEF ConsoleInv, ConsoleType
<1>2. /\ mutex' = FALSE /\ releasing > 0 /\ releasing' = releasing - 1
      /\ UNCHANGED <<process, waiting, holders, failures, stdin, due, typed>>
  BY DEF Release, consoleVars
<1>3. ConsoleType'
  BY <1>1, <1>2 DEF ConsoleType
<1>4. Live' = Live - 1 /\ Live \in Nat \ {0}
  <2>1. waiting["temp"] \in Nat /\ waiting["status"] \in Nat
    BY <1>1 DEF Callback
  <2>2. Live' = waiting["temp"] + waiting["status"] + Len(holders) + (releasing - 1)
    BY <1>2 DEF Live
  <2>3. QED
    BY <1>1, <1>2, <2>1, <2>2 DEF Live
<1>5. Credit' = Credit
  BY <1>2 DEF Credit
<1>6. 0 \in Times
  BY <1>2 DEF Times
<1>7. Times' \in SUBSET Times
  BY <1>2, <1>6 DEF Times
<1>8. Credit \in Nat /\ Times \in SUBSET (0..9)
  BY LiveType DEF ConsoleInv
<1>9. ASSUME stdin = "open" PROVE Covered(Times', Live', Credit')
  <2>1. Covered(Times, Live, Credit)
    BY <1>9, Zenon DEF ConsoleInv, BacklogInv
  <2>2. Covered(Times', Live - 1, Credit)
    BY <1>4, <1>6, <1>7, <1>8, <2>1, ReleaseCovered
  <2>3. QED
    BY <1>4, <1>5, <2>2, Zenon
<1>10. QED
  BY <1>2, <1>3, <1>9 DEF ConsoleInv, BacklogInv

LEMMA ThreadKeeps ==
  ASSUME ConsoleInv, Thread
  PROVE  ConsoleInv'
<1>1. process = "running"
  BY DEF Thread
<1>2. ASSUME NEW callback \in Callback, Lock(callback) PROVE ConsoleInv'
  BY <1>1, <1>2, LockKeeps
<1>3. ASSUME NEW i \in DOMAIN holders, Fail(i) PROVE ConsoleInv'
  BY <1>1, <1>3, FailKeeps
<1>4. ASSUME NEW i \in DOMAIN holders, Succeed(i) PROVE ConsoleInv'
  <2>1. holders[i].left = 0 /\ UNCHANGED <<failures, consoleVars>>
    BY <1>4 DEF Succeed, Decided
  <2>2. CASE Unlock(i) /\ UNCHANGED process
    BY <1>1, <2>1, <2>2, UnlockKeeps
  <2>3. ASSUME NEW how \in {"out_of_range", "division_by_zero"}, End(how)
        PROVE  ConsoleInv'
    <3>1. process' # "running" /\ UNCHANGED <<due, typed, failures>>
      BY <2>1, <2>3 DEF End, consoleVars
    <3>2. /\ waiting' \in [Callback -> Nat] /\ holders' \in Seq(Holder)
          /\ releasing' \in Nat
      BY <2>3 DEF End, NoneWaiting
    <3>3. QED
      BY <3>1, <3>2 DEF ConsoleInv, ConsoleType, BacklogInv
  <2>4. \/ Unlock(i) /\ UNCHANGED process
        \/ \E how \in {"out_of_range", "division_by_zero"} : End(how)
    BY <1>4, Zenon DEF Succeed
  <2>5. QED
    BY <2>2, <2>3, <2>4
<1>5. ASSUME NEW i \in DOMAIN holders, GiveUp(i) PROVE ConsoleInv'
  BY <1>1, <1>5, UnlockKeeps DEF GiveUp
<1>6. CASE Release
  BY <1>1, <1>6, ReleaseKeeps
<1>7. QED
  BY <1>2, <1>3, <1>4, <1>5, <1>6 DEF Thread

\* The threads of the process stay within one for the auto run, one for each request
\* typed and 9/8 for each failure (main.cpp:211-214, XBeeHandler.cpp:86-161), for every
\* number of retries, of failures and of threads, and in spite of the second unlock.
THEOREM BacklogIsBounded == Spec => []BacklogBounded
<1>1. Init => ConsoleInv
  <2> SUFFICES ASSUME Init PROVE ConsoleInv
    OBVIOUS
  <2>1. /\ waiting = NoneWaiting /\ holders = <<>> /\ releasing = 0 /\ due = 0
        /\ typed = 0 /\ failures = 0 /\ mutex = FALSE
    BY DEF Init
  <2>2. ConsoleType
    BY <2>1 DEF ConsoleType, NoneWaiting
  <2>3. Times = {} /\ Live = 0 /\ Credit = 0
    BY <2>1 DEF Times, Live, Credit, NoneWaiting, Callback
  <2>4. QED
    BY <2>2, <2>3 DEF ConsoleInv, BacklogInv, Covered
<1>2. ConsoleInv /\ [Next]_vars => ConsoleInv'
  BY ConsoleActions, TickKeeps, ThreadKeeps DEF Next
<1>3. ConsoleInv => BacklogBounded
  <2> SUFFICES ASSUME ConsoleInv, process = "running", stdin = "open"
               PROVE  Live <= 1 + typed + ((5 + 9 * failures) \div 8)
    BY DEF BacklogBounded
  <2>1. PICK l \in Nat, c \in Nat, times \in SUBSET (0..9) :
          l = Live /\ c = Credit /\ times = Times
    BY LiveType DEF ConsoleInv
  <2>2. Covered(times, l, c)
    BY <2>1 DEF ConsoleInv, BacklogInv
  <2>3. 8 * l <= c + 5
    <3>1. CASE times = {}
      BY <2>2, <3>1 DEF Covered
    <3>2. CASE times # {}
      <4>1. PICK left \in times : 8 * l + left <= c + 5
        BY <2>2, <3>2 DEF Covered
      <4>2. left \in 0..9
        OBVIOUS
      <4>3. QED
        BY <4>1, <4>2
    <3>3. QED
      BY <3>1, <3>2
  <2>4. PICK m \in Nat, f \in Nat : m = typed /\ f = failures
    BY DEF ConsoleInv, ConsoleType
  <2>5. c <= 8 + 8 * m + 9 * f
    BY <2>1, <2>4 DEF ConsoleInv, ConsoleType, Credit
  <2>6. l - 1 - m <= (5 + 9 * f) \div 8
    BY <2>3, <2>5
  <2>7. QED
    BY <2>1, <2>4, <2>6
<1>4. QED
  BY <1>1, <1>2, <1>3, PTL DEF Spec
=============================================================================
