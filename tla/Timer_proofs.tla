---------------------------- MODULE Timer_proofs ----------------------------
(***************************************************************************)
(* Proofs about Timer and TimerSystem, for every width of the counter,     *)
(* every time asked for and every behaviour of the clock.                  *)
(***************************************************************************)
EXTENDS TimerSystem, TLAPS

-----------------------------------------------------------------------------
(* Arithmetic of the counter.                                              *)

LEMMA ModWithin ==
  ASSUME NEW w \in Nat \ {0}, NEW n \in 0..(w - 1)
  PROVE  n % w = n
  OBVIOUS

LEMMA ModNat ==
  ASSUME NEW w \in Nat \ {0}, NEW n \in Int
  PROVE  n % w \in 0..(w - 1)
  OBVIOUS

LEMMA ModSelf ==
  ASSUME NEW w \in Nat \ {0}
  PROVE  w % w = 0
  OBVIOUS

LEMMA DivMod ==
  ASSUME NEW n \in Nat, NEW w \in Nat \ {0}
  PROVE  /\ n \div w \in Nat /\ n % w \in 0..(w - 1)
         /\ (n \div w) * w + (n % w) = n
  OBVIOUS

LEMMA ProductAtLeast ==
  ASSUME NEW n \in Nat \ {0}, NEW w \in Nat
  PROVE  n * w >= w
<1>1. PICK m \in Nat : n = m + 1
  OBVIOUS
<1>2. n * w = m * w + w /\ m * w \in Nat
  BY <1>1
<1>3. QED
  BY <1>2

\* What is left of a multiple of w and less than w is the latter.
LEMMA RestIsUnique ==
  ASSUME NEW q \in Nat, NEW w \in Nat \ {0}, NEW s \in 0..(w - 1)
  PROVE  (q * w + s) % w = s
<1> DEFINE n == q * w + s
<1>1. q * w \in Nat /\ n \in Nat
  OBVIOUS
<1>2. PICK p \in Nat, t \in 0..(w - 1) : p * w + t = n /\ t = n % w
  BY <1>1, DivMod
<1>3. p * w \in Nat /\ p * w + t = q * w + s
  BY <1>2
<1>4. ~(p > q)
  <2>1. SUFFICES ASSUME p - q \in Nat \ {0} PROVE FALSE
    OBVIOUS
  <2>2. (p - q) * w >= w /\ (p - q) * w = p * w - q * w
    BY <2>1, ProductAtLeast
  <2>3. QED
    BY <1>1, <1>3, <2>2
<1>5. ~(q > p)
  <2>1. SUFFICES ASSUME q - p \in Nat \ {0} PROVE FALSE
    OBVIOUS
  <2>2. (q - p) * w >= w /\ (q - p) * w = q * w - p * w
    BY <2>1, ProductAtLeast
  <2>3. QED
    BY <1>1, <1>3, <2>2
<1>6. p = q
  BY <1>4, <1>5
<1>7. QED
  BY <1>1, <1>2, <1>3, <1>6

\* Taking off a multiple of a period first does not change what the period leaves.
LEMMA RestOfRest ==
  ASSUME NEW n \in Nat, NEW v \in Nat \ {0}, NEW w \in Nat \ {0}
  PROVE  \A k \in Nat : v = k * w => (n % v) % w = n % w
<1> DEFINE rest == n % v
<1>1. PICK a \in Nat : a = n \div v /\ a * v + rest = n
  BY DivMod
<1>2. rest \in Nat
  BY DivMod
<1> HIDE DEF rest
<1>3. PICK b \in Nat : b = rest \div w /\ b * w + (rest % w) = rest
  BY <1>2, DivMod
<1>4. PICK s \in 0..(w - 1) : s = rest % w
  BY <1>2, DivMod
<1>5. ASSUME NEW k \in Nat, v = k * w PROVE n % w = s
  <2>1. a * (k * w) + (b * w + s) = n
    BY <1>1, <1>3, <1>4, <1>5
  <2>2. PICK q \in Nat : q = a * k + b
    OBVIOUS
  <2>3. q * w + s = n
    BY <2>1, <2>2
  <2>4. QED
    BY <2>3, RestIsUnique
<1>6. QED
  BY <1>4, <1>5, Zenon DEF rest

LEMMA MultipleOf ==
  ASSUME NEW v \in Nat \ {0}, NEW w \in Nat \ {0}, v % w = 0
  PROVE  \E k \in Nat : v = k * w
<1>1. PICK k \in Nat : k = v \div w /\ k * w + (v % w) = v
  BY DivMod
<1>2. k * w \in Nat /\ v % w = 0
  OBVIOUS
<1>3. v = k * w
  BY <1>1, <1>2
<1>4. QED
  BY <1>3

LEMMA RestOfMultiple ==
  ASSUME NEW n \in Nat, NEW v \in Nat \ {0}, NEW w \in Nat \ {0}, v % w = 0
  PROVE  (n % v) % w = n % w
<1>1. PICK k \in Nat : v = k * w
  BY MultipleOf, Zenon
<1>2. \A j \in Nat : v = j * w => (n % v) % w = n % w
  BY RestOfRest, Zenon
<1>3. QED
  BY <1>1, <1>2, Zenon

LEMMA WordType == Word \in Nat \ {0} /\ Word = 2 * Wrap
  BY WrapAssumption DEF Word

-----------------------------------------------------------------------------
(* The invariant.                                                          *)

TimerType ==
  /\ monotonic \in 0..(Wrap - 1)
  /\ timer \in [mode : Mode, start : Nat, timeout : Nat]
  /\ asked \in Int
  /\ age \in 0..MaxAge
  /\ remain \in Int

\* Where the counter stands, age tics after the object was set.
CounterAt(start, n) == IF start + n < Wrap THEN start + n ELSE start + n - Wrap

\* Once set, an object stays so, and the counter is where age says.
StartInv ==
  asked # NotSet =>
    /\ timer.mode # "UNINITIALIZED"
    /\ timer.start < Wrap
    /\ age < Wrap => monotonic = CounterAt(timer.start, age)

\* An object set to a time that an int can hold has its end so far behind its
\* start, the counter is where age says, and it is not done too early.
SetInv ==
  Representable =>
    /\ timer.mode \in {"ACTIVE", "DONE"}
    /\ timer.start < Wrap
    /\ timer.timeout = timer.start + asked
    /\ age < Wrap => monotonic = CounterAt(timer.start, age)
    /\ timer.mode = "DONE" => age >= asked

TimerInv == TimerType /\ StartInv /\ SetInv

\* For one turn of the counter, Now is the counter unwrapped.
LEMMA NowUnwrapped ==
  ASSUME TimerInv, Representable, age < Wrap
  PROVE  Now = timer.start + age
<1>1. /\ timer.start \in Nat /\ timer.start < Wrap /\ age \in Nat /\ Wrap \in Nat
      /\ monotonic = CounterAt(timer.start, age)
  BY WrapAssumption, BoundAssumption DEF TimerInv, TimerType, SetInv
<1>2. QED
  BY <1>1 DEF Now, CounterAt

LEMMA NowType == ASSUME TimerInv PROVE Now \in Nat
  BY WrapAssumption DEF TimerInv, TimerType, Now

LEMMA ExpiredIsDue ==
  ASSUME TimerInv, Representable, Expired
  PROVE  age >= asked
<1>1. asked \in Nat /\ asked < Wrap /\ age \in Nat /\ timer.start \in Nat
      /\ Wrap \in Nat /\ timer.timeout = timer.start + asked
  BY WrapAssumption, BoundAssumption
     DEF TimerInv, TimerType, SetInv, Representable
<1>2. CASE age < Wrap
  BY <1>1, <1>2, NowUnwrapped DEF Expired
<1>3. CASE ~(age < Wrap)
  BY <1>1, <1>3
<1>4. QED
  BY <1>2, <1>3

LEMMA PolledKeeps ==
  ASSUME TimerInv, timer' = Polled, UNCHANGED <<monotonic, asked, age, remain>>
  PROVE  TimerInv'
<1>1. /\ timer' \in [mode : Mode, start : Nat, timeout : Nat]
      /\ timer'.start = timer.start /\ timer'.timeout = timer.timeout
      /\ timer'.mode = IF timer.mode = "UNINITIALIZED" \/ Expired THEN "DONE"
                       ELSE timer.mode
  BY DEF TimerInv, TimerType, Polled, Mode
<1>2. TimerType'
  BY <1>1 DEF TimerInv, TimerType
<1>3. SetInv'
  BY <1>1, ExpiredIsDue DEF TimerInv, SetInv, Representable, CounterAt
<1>4. StartInv'
  BY <1>1 DEF TimerInv, StartInv, CounterAt
<1>5. QED
  BY <1>2, <1>3, <1>4 DEF TimerInv

LEMMA SetNeverKeeps ==
  ASSUME TimerInv, SetNever, UNCHANGED monotonic, remain' \in Int
  PROVE  TimerInv'
<1>1. /\ monotonic \in 0..(Wrap - 1) /\ Wrap \in Nat \ {0}
      /\ timer \in [mode : Mode, start : Nat, timeout : Nat]
      /\ MaxAge \in Nat /\ TicsPerSec \in Nat \ {0}
  BY WrapAssumption, FreqAssumption, BoundAssumption DEF TimerInv, TimerType
<1>2. asked' = Never /\ age' = 0
  BY DEF SetNever
<1>3. timer' = [timer EXCEPT !.mode = "NEVER", !.start = monotonic]
  BY DEF SetNever
<1>4. timer' \in [mode : Mode, start : Nat, timeout : Nat]
  <2>1. monotonic \in Nat /\ "NEVER" \in Mode
    BY <1>1 DEF Mode
  <2>2. timer.timeout \in Nat
    BY <1>1
  <2>3. timer' = [mode |-> "NEVER", start |-> monotonic, timeout |-> timer.timeout]
    BY <1>1, <1>3
  <2>4. QED
    BY <2>1, <2>2, <2>3
<1>5. ~Representable'
  BY <1>1, <1>2 DEF Representable, Never
<1>6. timer'.mode = "NEVER" /\ timer'.start = monotonic
  BY <1>1, <1>3
<1>7. StartInv'
  BY <1>1, <1>2, <1>6 DEF StartInv, CounterAt
<1>8. asked' \in Int
  BY <1>1, <1>2 DEF Never
<1>9. QED
  BY <1>1, <1>2, <1>4, <1>5, <1>7, <1>8 DEF TimerInv, TimerType, SetInv

LEMMA SetActiveKeeps ==
  ASSUME TimerInv, NEW value \in Int, SetActive(value),
         UNCHANGED monotonic, remain' \in Int
  PROVE  TimerInv'
<1>1. /\ monotonic \in 0..(Wrap - 1) /\ Wrap \in Nat \ {0}
      /\ timer \in [mode : Mode, start : Nat, timeout : Nat]
      /\ MaxAge \in Nat
      /\ MaxTimeout \in Nat /\ MaxTimeout >= Wrap
  BY WrapAssumption, MaxTimeoutAssumption, BoundAssumption
     DEF TimerInv, TimerType
<1>2. asked' = value /\ age' = 0
  BY DEF SetActive
<1>3. PICK i \in ToInt(Lesser(value, MaxTimeout)) :
        timer' = [mode |-> "ACTIVE", start |-> monotonic,
                  timeout |-> (monotonic + i) % Word]
  BY DEF SetActive
<1>4. i \in Int
  BY <1>1, <1>3 DEF ToInt, Lesser
<1>5. (monotonic + i) % Word \in Nat
  BY <1>1, <1>4, WordType, ModNat
<1>6. timer' \in [mode : Mode, start : Nat, timeout : Nat]
  BY <1>1, <1>3, <1>5 DEF Mode
<1>7. ASSUME value \in 0..(Wrap - 1)
      PROVE  timer'.timeout = monotonic + value
  <2>1. Lesser(value, MaxTimeout) = value
    BY <1>1, <1>7 DEF Lesser
  <2>2. i = value
    BY <1>1, <1>3, <1>7, <2>1 DEF ToInt
  <2>3. monotonic + value \in 0..(Word - 1)
    BY <1>1, <1>7, WordType
  <2>4. (monotonic + value) % Word = monotonic + value
    BY <2>3, WordType, ModWithin
  <2>5. QED
    BY <1>3, <2>2, <2>4
<1>8. timer'.mode = "ACTIVE" /\ timer'.start = monotonic
  BY <1>3
<1>9. SetInv'
  BY <1>1, <1>2, <1>7, <1>8 DEF SetInv, Representable, CounterAt
<1>10. StartInv'
  BY <1>1, <1>2, <1>8 DEF StartInv, CounterAt
<1>11. QED
  BY <1>1, <1>2, <1>6, <1>9, <1>10 DEF TimerInv, TimerType

LEMMA SetKeeps ==
  ASSUME TimerInv, NEW value \in Int, Set(value),
         UNCHANGED monotonic, remain' \in Int
  PROVE  TimerInv'
<1>1. CASE value = Never
  BY <1>1, SetNeverKeeps DEF Set
<1>2. CASE value # Never
  BY <1>2, SetActiveKeeps DEF Set
<1>3. QED
  BY <1>1, <1>2

LEMMA TickKeeps ==
  ASSUME TimerInv, Tick
  PROVE  TimerInv'
<1>1. /\ monotonic \in 0..(Wrap - 1) /\ Wrap \in Nat \ {0}
      /\ age \in 0..MaxAge /\ MaxAge \in Nat /\ MaxAge >= Wrap
      /\ timer.start \in Nat
      /\ UNCHANGED <<timer, asked, remain>>
  BY WrapAssumption, BoundAssumption DEF TimerInv, TimerType, Tick
<1>2. /\ monotonic' \in 0..(Wrap - 1)
      /\ monotonic' = IF monotonic + 1 = Wrap THEN 0 ELSE monotonic + 1
  <2>1. CASE monotonic + 1 = Wrap
    BY <1>1, <2>1, ModSelf DEF Tick
  <2>2. CASE monotonic + 1 # Wrap
    <3>1. monotonic + 1 \in 0..(Wrap - 1)
      BY <1>1, <2>2
    <3>2. (monotonic + 1) % Wrap = monotonic + 1
      BY <1>1, <3>1, ModWithin
    <3>3. QED
      BY <2>2, <3>1, <3>2 DEF Tick
  <2>3. QED
    BY <2>1, <2>2
<1>3. /\ age' \in 0..MaxAge /\ age' >= age
      /\ age' < Wrap => age' = age + 1
  BY <1>1 DEF Tick, Lesser
<1>4. TimerType'
  BY <1>1, <1>2, <1>3 DEF TimerInv, TimerType
<1>5. SetInv'
  <2>1. SUFFICES ASSUME Representable' PROVE SetInv'
    BY DEF SetInv
  <2>2. /\ timer.mode \in {"ACTIVE", "DONE"}
        /\ timer.start < Wrap
        /\ timer.timeout = timer.start + asked
        /\ age < Wrap => monotonic = CounterAt(timer.start, age)
        /\ timer.mode = "DONE" => age >= asked
    BY <1>1, <2>1 DEF TimerInv, SetInv, Representable
  <2>3. age' < Wrap => monotonic' = CounterAt(timer.start, age')
    BY <1>1, <1>2, <1>3, <2>2 DEF CounterAt
  <2>4. asked \in Int
    BY DEF TimerInv, TimerType
  <2>5. timer.mode = "DONE" => age' >= asked
    BY <1>1, <1>3, <2>2, <2>4
  <2>6. QED
    BY <1>1, <2>2, <2>3, <2>5 DEF SetInv, CounterAt
<1>6. StartInv'
  BY <1>1, <1>2, <1>3 DEF TimerInv, StartInv, CounterAt
<1>7. QED
  BY <1>4, <1>5, <1>6 DEF TimerInv

LEMMA RemainType == ASSUME TimerInv PROVE Remain \in Int
  BY NowType, FreqAssumption DEF Remain, Never, TimerInv, TimerType

LEMMA TimerInductive == Spec => []TimerInv
<1>1. Init => TimerInv
  <2> SUFFICES ASSUME Init PROVE TimerInv
    OBVIOUS
  <2>1. 0 \in 0..(Wrap - 1) /\ 0 \in 0..MaxAge /\ Garbage \subseteq Nat
    BY WrapAssumption, BoundAssumption, WordType DEF Garbage
  <2>2. NotSet \in Int /\ NotSet < 0
    BY WordType, FreqAssumption DEF NotSet
  <2>3. TimerType
    <3>1. timer \in [mode : Mode, start : Nat, timeout : Nat]
      <4>1. CASE timer = [mode |-> "UNINITIALIZED", start |-> 0, timeout |-> 0]
        BY <4>1 DEF Mode
      <4>2. CASE timer \in [mode : Mode, start : Garbage, timeout : Garbage]
        BY <2>1, <4>2
      <4>3. QED
        BY <4>1, <4>2 DEF Init
    <3>2. QED
      BY <2>1, <2>2, <3>1 DEF Init, TimerType
  <2>4. ~Representable
    BY <2>2, WrapAssumption DEF Init, Representable
  <2>5. QED
    BY <2>3, <2>4 DEF TimerInv, Init, StartInv, SetInv
<1>2. TimerInv /\ [Next]_vars => TimerInv'
  <2> SUFFICES ASSUME TimerInv, [Next]_vars PROVE TimerInv'
    OBVIOUS
  <2>1. remain \in Int /\ Never \in Int /\ Values \subseteq Int /\ 0 \in Int
    BY FreqAssumption, ValuesAssumption DEF TimerInv, TimerType, Never
  <2>2. CASE Tick
    BY <2>2, TickKeeps
  <2>3. ASSUME NEW value \in Values \cup {Never}, SetOnly(value) PROVE TimerInv'
    BY <2>1, <2>3, SetKeeps DEF SetOnly
  <2>4. ASSUME NEW value \in Values, SetAndWait(value) PROVE TimerInv'
    BY <2>1, <2>4, SetKeeps DEF SetAndWait
  <2>5. ASSUME NEW value \in Values, PauseShort(value) PROVE TimerInv'
    BY <2>5, PolledKeeps DEF PauseShort
  <2>6. ASSUME NEW value \in Values, PauseLong(value) PROVE TimerInv'
    <3>1. remain' \in Int
      BY <2>1, <2>6, RemainType DEF PauseLong
    <3>2. QED
      BY <2>1, <2>6, <3>1, SetKeeps DEF PauseLong
  <2>7. CASE Look
    BY <2>7, PolledKeeps DEF Look
  <2>8. CASE Poll
    BY <2>8 DEF Poll, TimerInv, TimerType, StartInv, SetInv, Representable,
               CounterAt
  <2>9. CASE WaitEndsEarly
    BY <2>9 DEF WaitEndsEarly, TimerInv, TimerType, StartInv, SetInv, Representable,
               CounterAt
  <2>10. CASE WaitExpires
    BY <2>10, PolledKeeps DEF WaitExpires
  <2>11. CASE PauseExpires
    <3>0. /\ asked \in Int /\ UNCHANGED monotonic /\ remain' = 0
          /\ \/ remain = 0 /\ timer' = Polled /\ UNCHANGED <<asked, age>>
             \/ SetNever
             \/ \E value \in Truncated(remain - asked) : SetActive(value)
      BY <2>11 DEF PauseExpires, TimerInv, TimerType
    <3>1. CASE remain = 0 /\ timer' = Polled /\ UNCHANGED <<asked, age>>
      BY <3>0, <3>1, PolledKeeps
    <3>2. CASE SetNever
      BY <2>1, <3>0, <3>2, SetNeverKeeps
    <3>3. ASSUME NEW value \in Truncated(remain - asked), SetActive(value)
          PROVE  TimerInv'
      <4>1. value \in Int
        BY <2>1, <3>0 DEF Truncated
      <4>2. QED
        BY <2>1, <3>0, <3>3, <4>1, SetActiveKeeps
    <3>4. QED
      BY <3>0, <3>1, <3>2, <3>3
  <2>12. CASE UNCHANGED vars
    BY <2>12 DEF vars, TimerInv, TimerType, StartInv, SetInv, Representable,
               CounterAt
  <2>13. QED
    BY <2>2, <2>3, <2>4, <2>5, <2>6, <2>7, <2>8, <2>9, <2>10, <2>11, <2>12
       DEF Next, UserStep
<1>3. QED
  BY <1>1, <1>2, PTL DEF Spec

-----------------------------------------------------------------------------
(* The theorems.                                                           *)

\* The counting thread drives the timer as Timer allows: a tic at a time, and
\* nothing else, whatever the clock does.
THEOREM SystemRefinesTimer == SystemSpec => Spec
<1>1. SystemInit => Init
  BY DEF SystemInit
<1>2. [SystemNext]_systemVars => [Next]_vars
  BY DEF SystemNext, systemVars, Iterate, Application, Next
<1>3. QED
  BY <1>1, <1>2, PTL DEF SystemSpec, Spec

\* For one turn of the counter Remain (timer.cpp:50) is exact.
THEOREM RemainIsExact == SystemSpec => []RemainExact
<1>1. TimerInv => RemainExact
  <2> SUFFICES ASSUME TimerInv, timer.mode = "ACTIVE", Representable, age < Wrap
               PROVE  Remain = IF age < asked THEN asked - age ELSE 0
    BY DEF RemainExact
  <2>1. /\ Now = timer.start + age /\ timer.timeout = timer.start + asked
        /\ timer.start \in Nat /\ age \in Nat /\ asked \in Int
    BY NowUnwrapped, BoundAssumption DEF TimerInv, TimerType, SetInv
  <2>2. Expired <=> age >= asked
    BY <2>1 DEF Expired
  <2>3. CASE age >= asked
    BY <2>1, <2>2, <2>3 DEF Remain
  <2>4. CASE ~(age >= asked)
    BY <2>1, <2>2, <2>4 DEF Remain
  <2>5. QED
    BY <2>3, <2>4
<1>2. QED
  BY <1>1, TimerInductive, SystemRefinesTimer, PTL

\* A timer that is done was due, however late it is looked at.
THEOREM TimerIsNeverEarly == SystemSpec => []NeverEarly
<1>1. TimerInv => NeverEarly
  BY DEF TimerInv, SetInv, NeverEarly
<1>2. QED
  BY <1>1, TimerInductive, SystemRefinesTimer, PTL

\* Days are whole hours, and these whole minutes.
LEMMA MinutesAreLeft ==
  ASSUME NEW n \in Nat
  PROVE  ((n % Period.Days) % Period.Hours) % Period.Minutes = n % Period.Minutes
<1>1. PICK D \in Nat \ {0}, H \in Nat \ {0}, M \in Nat \ {0} :
        D = Period.Days /\ H = Period.Hours /\ M = Period.Minutes
  BY PeriodAssumption DEF Unit
<1>2. (n % D) % H = n % H
  <2>1. D % H = 0
    BY <1>1, NestedAssumption, Zenon
  <2>2. QED
    BY <2>1, RestOfMultiple, Zenon
<1>3. (n % H) % M = n % M
  <2>1. H % M = 0
    BY <1>1, NestedAssumption, Zenon
  <2>2. QED
    BY <2>1, RestOfMultiple, Zenon
<1>4. QED
  BY <1>1, <1>2, <1>3, Zenon

\* The readable fields add up, and what is left below the minutes does not depend
\* on the months, days and hours taken off before.
LEMMA FieldsAddUp ==
  ASSUME NEW e \in Nat
  PROVE  /\ ReadableTimer(e).Years * Period.Years
              + ReadableTimer(e).Months * Period.Months
              + ReadableTimer(e).Days * Period.Days
              + ReadableTimer(e).Hours * Period.Hours
              + ReadableTimer(e).Minutes * Period.Minutes + ElapsedMsec(e) = e
         /\ ElapsedMsec(e) = (e % Period.Years) % Period.Minutes
<1>2. PICK Y \in Nat \ {0}, Mo \in Nat \ {0}, D \in Nat \ {0}, H \in Nat \ {0},
           M \in Nat \ {0}, S \in Nat \ {0} :
        /\ Y = Period.Years /\ Mo = Period.Months /\ D = Period.Days
        /\ H = Period.Hours /\ M = Period.Minutes /\ S = Period.Secs
  BY PeriodAssumption DEF Unit
<1> DEFINE years == ConvTime(e, Y)
           months == ConvTime(years.now, Mo)
           days == ConvTime(months.now, D)
           hours == ConvTime(days.now, H)
           minutes == ConvTime(hours.now, M)
           secs == ConvTime(minutes.now, S)
<1>3. /\ ReadableTimer(e).Years = years.field /\ ReadableTimer(e).Months = months.field
      /\ ReadableTimer(e).Days = days.field /\ ReadableTimer(e).Hours = hours.field
      /\ ReadableTimer(e).Minutes = minutes.field
      /\ ElapsedMsec(e) = secs.field * S + secs.now
  BY <1>2 DEF ReadableTimer, ElapsedMsec
<1>4. ASSUME NEW n \in Nat, NEW w \in Nat \ {0}
      PROVE  /\ ConvTime(n, w).now \in Nat /\ ConvTime(n, w).now = n % w
             /\ ConvTime(n, w).field * w \in Nat
             /\ ConvTime(n, w).field * w + ConvTime(n, w).now = n
  BY DivMod DEF ConvTime
<1>5. /\ years.now \in Nat /\ years.now = e % Y
      /\ years.field * Y \in Nat /\ years.field * Y + years.now = e
  BY <1>2, <1>4
<1> HIDE DEF years
<1>6. /\ months.now \in Nat /\ months.now = years.now % Mo
      /\ months.field * Mo \in Nat /\ months.field * Mo + months.now = years.now
  BY <1>2, <1>4, <1>5
<1> HIDE DEF months
<1>7. /\ days.now \in Nat /\ days.now = months.now % D
      /\ days.field * D \in Nat /\ days.field * D + days.now = months.now
  BY <1>2, <1>4, <1>6
<1> HIDE DEF days
<1>8. /\ hours.now \in Nat /\ hours.now = days.now % H
      /\ hours.field * H \in Nat /\ hours.field * H + hours.now = days.now
  BY <1>2, <1>4, <1>7
<1> HIDE DEF hours
<1>9. /\ minutes.now \in Nat /\ minutes.now = hours.now % M
      /\ minutes.field * M \in Nat /\ minutes.field * M + minutes.now = hours.now
  BY <1>2, <1>4, <1>8
<1> HIDE DEF minutes
<1>10. secs.field * S + secs.now = minutes.now
  BY <1>2, <1>4, <1>9
<1> HIDE DEF secs
<1>11. ElapsedMsec(e) = minutes.now
  BY <1>3, <1>10
<1>12. years.field * Y + months.field * Mo + days.field * D + hours.field * H
         + minutes.field * M + minutes.now = e
  <2>1. PICK a \in Nat, b \in Nat, c \in Nat, d \in Nat, f \in Nat :
          /\ a = years.field * Y /\ b = months.field * Mo /\ c = days.field * D
          /\ d = hours.field * H /\ f = minutes.field * M
    BY <1>5, <1>6, <1>7, <1>8, <1>9
  <2>2. a + years.now = e
    BY <1>5, <2>1, Zenon
  <2>3. b + months.now = years.now
    BY <1>6, <2>1, Zenon
  <2>4. c + days.now = months.now
    BY <1>7, <2>1, Zenon
  <2>5. d + hours.now = days.now
    BY <1>8, <2>1, Zenon
  <2>6. f + minutes.now = hours.now
    BY <1>9, <2>1, Zenon
  <2>7. a + b + c + d + f + minutes.now = e
    <3>1. PICK u \in Nat, v \in Nat, w \in Nat, x \in Nat, y \in Nat :
            /\ u = years.now /\ v = months.now /\ w = days.now
            /\ x = hours.now /\ y = minutes.now
      BY <1>5, <1>6, <1>7, <1>8, <1>9, Zenon
    <3>2. a + u = e /\ b + v = u /\ c + w = v /\ d + x = w /\ f + y = x
      BY <2>2, <2>3, <2>4, <2>5, <2>6, <3>1, Zenon
    <3>3. a + b + c + d + f + y = e
      BY <3>2
    <3>4. QED
      BY <3>1, <3>3, Zenon
  <2>8. QED
    BY <2>1, <2>7, Zenon
<1>13. months.now = years.now
  <2>1. Mo > Y
    BY <1>2, MonthsAssumption
  <2>2. years.now < Y
    BY <1>2, <1>5, DivMod
  <2>3. years.now \in 0..(Mo - 1)
    BY <1>5, <2>1, <2>2
  <2>4. QED
    BY <1>2, <1>6, <2>3, ModWithin
<1>14. minutes.now = months.now % M
  <2>1. minutes.now = ((months.now % D) % H) % M
    BY <1>7, <1>8, <1>9
  <2>2. ((months.now % D) % H) % M = months.now % M
    BY <1>2, <1>6, MinutesAreLeft
  <2>3. QED
    BY <2>1, <2>2
<1>15. ElapsedMsec(e) = (e % Y) % M
  BY <1>5, <1>11, <1>13, <1>14
<1>16. QED
  BY <1>2, <1>3, <1>11, <1>12, <1>15

\* For one turn of the counter Elapsed (timer.cpp:89) is right modulo the counter,
\* its fields add up to it or to one millisecond less, and ElapsedMsec is the part
\* below the minutes.
THEOREM ElapsedIsExact == SystemSpec => []ElapsedExact
<1>1. TimerInv => ElapsedExact
  <2> SUFFICES ASSUME TimerInv, asked # NotSet, age < Wrap PROVE ElapsedExact
    BY DEF ElapsedExact
  <2>1. /\ Wrap \in Nat \ {0} /\ age \in Nat /\ timer.start \in Nat
        /\ timer.mode # "UNINITIALIZED"
        /\ monotonic = CounterAt(timer.start, age)
    BY WrapAssumption, BoundAssumption DEF TimerInv, TimerType, StartInv
  <2>2. Elapsed = IF timer.start + age < Wrap THEN age ELSE age - Wrap
    BY <2>1 DEF Elapsed, CounterAt
  <2>3. (age - Elapsed) % Wrap = 0
    <3>1. age - Elapsed = 0 \/ age - Elapsed = Wrap
      BY <2>1, <2>2
    <3>2. 0 % Wrap = 0
      BY <2>1, ModWithin
    <3>3. QED
      BY <2>1, <3>1, <3>2, ModSelf
  <2>4. ASSUME Elapsed >= 0, NEW now \in Truncated(Elapsed)
        PROVE  LET readable == ReadableTimer(now)
               IN  /\ readable.Years * Period.Years
                        + readable.Months * Period.Months
                        + readable.Days * Period.Days
                        + readable.Hours * Period.Hours
                        + readable.Minutes * Period.Minutes + ElapsedMsec(now)
                        \in {age - 1, age}
                   /\ ElapsedMsec(now) = (now % Period.Years) % Period.Minutes
    <3>1. Elapsed = age
      BY <2>1, <2>2, <2>4
    <3>2. now \in Nat /\ now \in {age - 1, age}
      BY <2>1, <2>4, <3>1 DEF Truncated
    <3>3. QED
      BY <3>2, FieldsAddUp, Zenon
  <2>5. QED
    BY <2>3, <2>4 DEF ElapsedExact
<1>2. QED
  BY <1>1, TimerInductive, SystemRefinesTimer, PTL

-----------------------------------------------------------------------------
(* The counting thread.                                                    *)

FreezeInv ==
  /\ ahead \in Int /\ setbacks \in Nat
  /\ FreezeBounded

LEMMA IterateKeepsBound ==
  ASSUME FreezeInv, Iterate
  PROVE  FreezeInv'
<1>0. PICK step \in ClockSteps :
        \E jumped \in Jumped(step) :
          LET distance == IF jumped THEN 0 ELSE ahead - step
          IN  /\ distance >= -MaxBehind
              /\ step < 1 => setbacks < MaxSetbacks
              /\ setbacks' = IF step < 1 THEN setbacks + 1 ELSE setbacks
              /\ \/ TRUE \in TicDue(distance) /\ Tick /\ ahead' = distance + 1
                 \/ FALSE \in TicDue(distance) /\ UNCHANGED vars
                      /\ ahead' = distance
  BY DEF Iterate
<1>1. PICK jumped \in Jumped(step) :
        LET distance == IF jumped THEN 0 ELSE ahead - step
        IN  /\ distance >= -MaxBehind
            /\ step < 1 => setbacks < MaxSetbacks
            /\ setbacks' = IF step < 1 THEN setbacks + 1 ELSE setbacks
            /\ \/ TRUE \in TicDue(distance) /\ Tick /\ ahead' = distance + 1
               \/ FALSE \in TicDue(distance) /\ UNCHANGED vars
                    /\ ahead' = distance
  BY <1>0
<1> DEFINE distance == IF jumped THEN 0 ELSE ahead - step
           slack == (Hundredth - 1) * setbacks
<1>2. /\ step \in Int /\ ahead \in Int /\ setbacks \in Nat
      /\ Hundredth \in Nat \ {0} /\ JumpThreshold \in Nat
      /\ ahead <= 2 + slack
  BY LoopAssumption DEF FreezeInv, FreezeBounded
<1>3. /\ slack \in Nat
      /\ (Hundredth - 1) * (setbacks + 1) = slack + (Hundredth - 1)
  BY <1>2
<1>4. ~jumped => step > -Hundredth
  <2>1. step <= -Hundredth => Jumped(step) = {TRUE}
    BY DEF Jumped
  <2>2. ASSUME step <= -Hundredth, ~jumped PROVE FALSE
    <3>1. jumped \in {TRUE}
      BY <2>1, <2>2, Zenon
    <3>2. jumped = TRUE
      BY <3>1, Zenon
    <3>3. QED
      BY <2>2, <3>2, Zenon
  <2>3. step <= -Hundredth \/ step > -Hundredth
    BY <1>2
  <2>4. QED
    BY <2>2, <2>3, Zenon
<1>5. setbacks' = IF step < 1 THEN setbacks + 1 ELSE setbacks
  BY <1>1
<1>6. \/ distance <= 1 /\ ahead' = distance + 1
      \/ ahead' = distance
  <2>1. distance \in Int
    BY <1>2
  <2> HIDE DEF distance
  <2>2. ~(distance <= 1) => TicDue(distance) = {FALSE}
    <3>1. ~(distance <= 1) => ~(distance <= 0) /\ distance # 1
      BY <2>1
    <3>2. QED
      BY <3>1, Zenon DEF TicDue
  <2>3. TRUE \in TicDue(distance) => distance <= 1
    BY <2>2, Zenon
  <2>4. \/ TRUE \in TicDue(distance) /\ ahead' = distance + 1
        \/ ahead' = distance
    BY <1>1, Zenon DEF distance
  <2>5. QED
    BY <2>3, <2>4, Zenon
<1> HIDE DEF slack
<1>7. /\ setbacks' \in Nat /\ ahead' \in Int
      /\ (Hundredth - 1) * setbacks'
            = IF step < 1 THEN slack + (Hundredth - 1) ELSE slack
  BY <1>2, <1>3, <1>5, <1>6 DEF slack
<1>8. /\ slack \in Nat /\ ahead <= 2 + slack
  BY <1>2, <1>3
<1>9. ahead' <= 2 + (IF step < 1 THEN slack + (Hundredth - 1) ELSE slack)
  BY <1>2, <1>4, <1>6, <1>8
<1>10. QED
  BY <1>7, <1>9 DEF FreezeInv, FreezeBounded

\* However often and far the clock is set back, the next tic is due within two
\* tics and what truncation hides (timer.cpp:196-201).
THEOREM FreezeIsBounded == SystemSpec => []FreezeBounded
<1>1. SystemInit => FreezeInv
  BY LoopAssumption DEF SystemInit, FreezeInv, FreezeBounded
<1>2. FreezeInv /\ [SystemNext]_systemVars => FreezeInv'
  <2>1. CASE Iterate
    BY <2>1, IterateKeepsBound
  <2>2. CASE UNCHANGED <<ahead, setbacks>>
    BY <2>2 DEF FreezeInv, FreezeBounded
  <2>3. QED
    BY <2>1, <2>2 DEF SystemNext, Application, systemVars
<1>3. FreezeInv => FreezeBounded
  BY DEF FreezeInv
<1>4. QED
  BY <1>1, <1>2, <1>3, PTL DEF SystemSpec
=============================================================================
