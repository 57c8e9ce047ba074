-------------------------- MODULE SocketRx_proofs --------------------------
(***************************************************************************)
(* Proofs about SocketRx, for every set of peers, every length of the list *)
(* and of the buffers, and every size of a package.                        *)
(***************************************************************************)
EXTENDS SocketRx, SequenceTheorems, TLAPS

-----------------------------------------------------------------------------
(* The inductive invariant: what holds until something undefined happens.  *)

\* The one entry that is ever used.
First == clientList[0]

Moving == {"copy", "load", "store"}
Fetching == {"copied", "cleared"}

\* A number of bytes that is one of whole packages.
Whole(n) == \E q \in 0..n : n = q * PackageSize

\* The bytes of c from the one after the first o.
Stream(c, o, n) == [j \in 1..n |-> Byte(c, o + j)]

\* The entries.  One without a client is as DestroyRx leaves it, and all but the
\* first always are.
ListInv ==
  /\ \A i \in Slot \ {0} : clientList[i] = Unused
  /\ First.Id = NoClient => First = Unused
  /\ First.Id # NoClient => First.RawFlag /\ First.Id \in connected
  /\ First.freed => destroyed
  /\ app.at \in {"free", "clear", "forget"} => destroyed

\* Where RxListen stands and what it may rely on there.
ListenerInv ==
  /\ listener.at = "none" => connected = {}
  /\ IF listener.at \in {"accepted", "fill"}
     THEN listener.peer \in connected /\ listener.peer # First.Id
     ELSE listener.peer = NoClient
  /\ listener.at \in Busy => listener.slot = 0
  /\ listener.at \in Busy \ {"fill"} => First.Id # NoClient /\ ~First.freed
  /\ listener.at \in Moving \cup {"announce", "raise"} => ~First.ReadyFlag
  /\ listener.at \in Moving =>
       Whole(listener.size) /\ listener.size \in 1..Len(First.inBuf)
  /\ listener.at = "load" => First.ready + listener.size <= Capacity
  /\ listener.at = "store" => listener.loaded + listener.size <= Capacity
  /\ listener.at = "call" => callback
  /\ listener.at # "call" => listener.called = 0

\* Where the application stands in Rx.
FetchInv ==
  /\ app.at \in Fetching =>
       ~callback /\ app.slot = 0 /\ First.Id # NoClient /\ listener.at # "fill"
  /\ app.at = "copied" => First.ReadyFlag /\ app.size = First.ready

\* A state in which nothing undefined has happened.
Steady == Running /\ TypeOK /\ ListInv /\ ListenerInv /\ FetchInv

\* How many bytes of c have been moved to the ready buffer and taken off the input.
MovedOf(c) == sent[c] - Len(wire[c]) - Len(First.inBuf)

\* What is not read yet is the end of the stream.
WireInv ==
  \A c \in Client :
    /\ Len(wire[c]) <= sent[c]
    /\ \A j \in 1..Len(wire[c]) :
         wire[c][j] = Byte(c, sent[c] - Len(wire[c]) + j)
    /\ c \notin connected \/ listener.peer = c =>
         sent[c] = 0 /\ wire[c] = <<>> /\ delivered[c] = <<>>

\* The input buffer comes before it, and begins with a package.
InputInv ==
  \A c \in Client : First.Id = c =>
    /\ Len(First.inBuf) + Len(wire[c]) <= sent[c]
    /\ Whole(MovedOf(c))
    /\ \A j \in 1..Len(First.inBuf) : First.inBuf[j] = Byte(c, MovedOf(c) + j)

\* With a callback, the ready buffer is empty and its flag down but for the time in
\* which the packages are on their way through it.
CallbackFlow ==
  /\ First.ReadyFlag => listener.at = "call"
  /\ First.ready > 0 => listener.at \in {"announce", "raise", "call"}
  /\ listener.at = "store" => listener.loaded = 0
  /\ listener.at \in {"load", "store"} =>
       \A j \in 1..listener.size : First.readyBuf[j] = First.inBuf[j]
  /\ listener.at = "call" =>
       /\ listener.size = First.ready
       /\ Whole(listener.called) /\ listener.called <= First.ready

\* It holds the moved bytes of c that the callback has not been given, and those of
\* the packages that the callback has been given since the flag went up.
HeldOf(c) ==
  /\ Whole(First.ready) /\ First.ready <= MovedOf(c)
  /\ \A j \in 1..First.ready :
       First.readyBuf[j] = Byte(c, MovedOf(c) - First.ready + j)
  /\ MovedOf(c) - First.ready + listener.called = Len(delivered[c]) * PackageSize

\* The callback has been given the first packages of c, which c has sent.
Handed(c) ==
  /\ \A k \in DOMAIN delivered[c] : delivered[c][k] = Package(c, k)
  /\ Len(delivered[c]) * PackageSize <= sent[c]

CallbackInv ==
  callback =>
    /\ CallbackFlow
    /\ \A c \in Client : Handed(c) /\ (First.Id = c => HeldOf(c))

\* When the application polls: where the moved bytes of c end, those included that
\* are copied already, and up to where the ready buffer is or can become full.
Top(c) ==
  MovedOf(c) + IF listener.at \in {"load", "store"} THEN listener.size ELSE 0
Reach ==
  CASE listener.at = "load"  -> First.ready + listener.size
    [] listener.at = "store" -> listener.loaded + listener.size
    [] OTHER                 -> First.ready

\* The place in the stream of the package that is p bytes behind the buffer's start.
Offset(p) == First.readyBuf[p + 1][2] - 1

\* There is a package of c.
Good(c, p) ==
  /\ Offset(p) \in 0..(Top(c) - PackageSize)
  /\ Whole(Offset(p))
  /\ \A j \in 1..PackageSize : First.readyBuf[p + j] = Byte(c, Offset(p) + j)

\* The packages of the ready buffer are whole and in order; those fetched before
\* come before or are the same as its first, which is there, stale perhaps,
\* whenever Rx may fetch it.
BufferOf(c) ==
  /\ Whole(Reach)
  /\ \A p \in 0..(Reach - PackageSize) : Whole(p) => Good(c, p)
  /\ \A p, q \in 0..(Reach - PackageSize) :
       Whole(p) /\ Whole(q) /\ p <= q => Offset(p) <= Offset(q)
  /\ First.ReadyFlag \/ listener.at = "raise" \/ delivered[c] # <<>> => Good(c, 0)
  /\ delivered[c] # <<>> => delivered[c][Len(delivered[c])][1][2] <= 1 + Offset(0)

HistoryOf(c) ==
  /\ \A k \in DOMAIN delivered[c] :
       \E o \in 0..(MaxBytes - PackageSize) :
         Whole(o) /\ delivered[c][k] = Stream(c, o, PackageSize)
  /\ \A k \in 2..Len(delivered[c]) :
       delivered[c][k][1][2] >= delivered[c][k - 1][1][2]

PolledInv ==
  ~callback =>
    \A c \in Client :
      /\ HistoryOf(c)
      /\ First.Id = c => BufferOf(c)

\* A DestroyRx that has returned has left no descriptor to accept from.
SocketInv ==
  destroyed /\ app.at \notin {"free", "clear", "forget"} => rxSocket # "listening"

IInv ==
  /\ TypeOK
  /\ CallbackSafe
  /\ Running =>
       /\ ListInv /\ ListenerInv /\ FetchInv /\ SocketInv
       /\ WireInv /\ InputInv
       /\ CallbackInv /\ PolledInv

-----------------------------------------------------------------------------
(* Whole packages.                                                         *)

LEMMA SizeFacts ==
  /\ PackageSize \in Nat \ {0} /\ Capacity \in Nat /\ MaxBytes \in Nat
  /\ PackageSize <= Capacity
  /\ 0 \in Slot /\ Slot \subseteq Nat
  /\ NoClient \notin Client
  BY SizeAssumption, ClientAssumption DEF Slot

LEMMA ProductGrows ==
  ASSUME NEW a \in Nat, NEW b \in Nat, NEW n \in Nat, a <= b
  PROVE  a * n <= b * n
<1>1. b - a \in Nat /\ b * n = a * n + (b - a) * n
  OBVIOUS
<1>2. (b - a) * n \in Nat /\ a * n \in Nat
  OBVIOUS
<1>3. QED
  BY <1>1, <1>2

LEMMA WholeZero == Whole(0)
  BY SizeFacts DEF Whole

LEMMA WholeProduct ==
  ASSUME NEW q \in Nat
  PROVE  q * PackageSize \in Nat /\ Whole(q * PackageSize)
<1>1. q * PackageSize \in Nat /\ q <= q * PackageSize
  <2>1. 1 <= PackageSize /\ 1 \in Nat
    BY SizeFacts
  <2>2. 1 * q <= PackageSize * q
    BY <2>1, ProductGrows, SizeFacts
  <2>3. QED
    BY <2>2, SizeFacts
<1>2. q \in 0..(q * PackageSize)
  BY <1>1
<1>3. QED
  BY <1>1, <1>2 DEF Whole

LEMMA WholeSum ==
  ASSUME NEW m \in Nat, NEW n \in Nat, Whole(m), Whole(n)
  PROVE  Whole(m + n)
<1>1. PICK p \in 0..m : m = p * PackageSize
  BY DEF Whole
<1>2. PICK q \in 0..n : n = q * PackageSize
  BY DEF Whole
<1>3. p + q \in Nat /\ (p + q) * PackageSize = m + n
  BY <1>1, <1>2, SizeFacts
<1>4. QED
  BY <1>3, WholeProduct

LEMMA WholeDifference ==
  ASSUME NEW m \in Nat, NEW n \in Nat, Whole(m), Whole(n), n <= m
  PROVE  Whole(m - n)
<1>1. PICK p \in 0..m : m = p * PackageSize
  BY DEF Whole
<1>2. PICK q \in 0..n : n = q * PackageSize
  BY DEF Whole
<1>3. p \in Nat /\ q \in Nat
  BY <1>1, <1>2
<1>4. CASE q <= p
  <2>1. p - q \in Nat /\ (p - q) * PackageSize = m - n
    BY <1>1, <1>2, <1>3, <1>4, SizeFacts
  <2>2. QED
    BY <2>1, WholeProduct
<1>5. CASE p < q
  <2>1. p * PackageSize <= q * PackageSize
    BY <1>3, <1>5, ProductGrows, SizeFacts
  <2>2. m = n
    BY <1>1, <1>2, <2>1
  <2>3. QED
    BY <2>2, WholeZero
<1>6. QED
  BY <1>3, <1>4, <1>5

LEMMA WholePositive ==
  ASSUME NEW n \in Nat, Whole(n), n > 0
  PROVE  n >= PackageSize
<1>1. PICK q \in 0..n : n = q * PackageSize
  BY DEF Whole
<1>2. q \in Nat /\ q # 0
  BY <1>1, SizeFacts
<1>3. 1 * PackageSize <= q * PackageSize
  BY <1>2, ProductGrows, SizeFacts
<1>4. QED
  BY <1>1, <1>3, SizeFacts

\* As many whole packages as fit.
LEMMA QuotientBounds ==
  ASSUME NEW n \in Nat
  PROVE  /\ n \div PackageSize \in Nat
         /\ (n \div PackageSize) * PackageSize <= n
         /\ n < (n \div PackageSize) * PackageSize + PackageSize
  BY SizeFacts

LEMMA QuotientOfProduct ==
  ASSUME NEW n \in Nat, NEW q \in Nat, q * PackageSize <= n
  PROVE  q <= n \div PackageSize
<1> DEFINE d == n \div PackageSize
<1>1. d \in Nat /\ n < d * PackageSize + PackageSize
  BY QuotientBounds
<1>2. CASE q > d
  <2>1. (d + 1) * PackageSize <= q * PackageSize
    BY <1>1, <1>2, ProductGrows, SizeFacts
  <2>2. (d + 1) * PackageSize = d * PackageSize + PackageSize
    BY <1>1, SizeFacts
  <2>3. QED
    BY <1>1, <2>1, <2>2, SizeFacts
<1>3. QED
  BY <1>1, <1>2

LEMMA QuotientOfWhole ==
  ASSUME NEW n \in Nat, Whole(n)
  PROVE  (n \div PackageSize) * PackageSize = n
<1>1. PICK q \in 0..n : n = q * PackageSize
  BY DEF Whole
<1>2. q <= n \div PackageSize /\ q \in Nat
  BY <1>1, QuotientOfProduct
<1>3. q * PackageSize <= (n \div PackageSize) * PackageSize
  BY <1>2, QuotientBounds, ProductGrows, SizeFacts
<1>4. QED
  BY <1>1, <1>3, QuotientBounds, SizeFacts

LEMMA PackSizeFacts ==
  ASSUME NEW entry, Len(entry.inBuf) \in Nat
  PROVE  PackSize(entry) \in 0..Len(entry.inBuf) /\ Whole(PackSize(entry))
<1> DEFINE packages == Len(entry.inBuf) \div PackageSize
<1>1. packages \in Nat /\ packages * PackageSize <= Len(entry.inBuf)
  BY QuotientBounds
<1> DEFINE fit == Capacity \div PackageSize
           q == IF fit < packages THEN fit ELSE packages
<1>2. PackSize(entry) = PackageSize * q
  BY DEF PackSize
<1>3. q \in Nat /\ q <= packages
  <2>1. fit \in Nat
    BY QuotientBounds, SizeFacts
  <2> HIDE DEF fit, packages
  <2>2. QED
    BY <1>1, <2>1
<1>4. PackSize(entry) = q * PackageSize
  <2> HIDE DEF q
  <2> QED
    BY <1>2, <1>3, SizeFacts
<1>5. q * PackageSize <= packages * PackageSize
  BY <1>1, <1>3, ProductGrows, SizeFacts
<1>6. PackSize(entry) \in 0..Len(entry.inBuf) /\ Whole(PackSize(entry))
  <2> HIDE DEF q, packages
  <2>1. q * PackageSize \in Nat /\ Whole(q * PackageSize)
    BY <1>3, WholeProduct
  <2>2. packages * PackageSize \in Nat
    BY <1>1, SizeFacts
  <2>3. q * PackageSize \in 0..Len(entry.inBuf)
    BY <1>1, <1>5, <2>1, <2>2
  <2>4. QED
    BY <1>4, <2>1, <2>3
<1>7. QED
  BY <1>6

-----------------------------------------------------------------------------
(* What the steps make of an entry.                                        *)

LEMMA EntryFacts ==
  ASSUME NEW e \in Entry
  PROVE  /\ e.Id \in Client \cup {NoClient} /\ e.Flag = 0
         /\ e.RawFlag \in BOOLEAN /\ e.ReadyFlag \in BOOLEAN /\ e.freed \in BOOLEAN
         /\ e.inBuf \in Seq(AnyByte) /\ Len(e.inBuf) \in Nat
         /\ e.readyBuf \in [1..Capacity -> AnyByte]
         /\ e.ready \in 0..Capacity /\ e.ready \in Nat
  BY SizeFacts, LenProperties DEF Entry

LEMMA UnusedEntry ==
  /\ Unused \in Entry /\ Unused.Id = NoClient /\ ~Unused.RawFlag
  /\ ~Unused.ReadyFlag /\ Unused.inBuf = <<>> /\ Unused.ready = 0
  /\ ~Unused.freed /\ Len(Unused.inBuf) = 0
<1>1. Zero \in AnyByte /\ <<>> \in Seq(AnyByte) /\ Len(<<>>) = 0
  BY EmptySeq DEF AnyByte
<1>2. QED
  BY <1>1, SizeFacts DEF Unused, Entry

LEMMA EstablishedEntry ==
  ASSUME NEW c \in Client
  PROVE  /\ Established(c) \in Entry
         /\ Established(c).Id = c /\ Established(c).RawFlag
         /\ ~Established(c).ReadyFlag /\ ~Established(c).freed
         /\ Established(c).inBuf = <<>> /\ Established(c).ready = 0
         /\ Len(Established(c).inBuf) = 0
  BY UnusedEntry DEF Established, Entry

LEMMA EmptiedEntry ==
  ASSUME NEW e \in Entry
  PROVE  /\ Emptied(e) \in Entry
         /\ Emptied(e).Id = e.Id /\ Emptied(e).RawFlag = e.RawFlag
         /\ ~Emptied(e).ReadyFlag /\ Emptied(e).freed = e.freed
         /\ Emptied(e).inBuf = e.inBuf /\ Emptied(e).ready = 0
<1>1. 0 \in 0..Capacity /\ FALSE \in BOOLEAN
  BY SizeFacts
<1>2. [e EXCEPT !.ReadyFlag = FALSE] \in Entry
  BY DEF Entry
<1>3. Emptied(e) = [[e EXCEPT !.ReadyFlag = FALSE] EXCEPT !.ready = 0]
  BY DEF Emptied
<1>4. QED
  BY <1>1, <1>2, <1>3 DEF Entry

\* What remains of a sequence without its first n elements.
LEMMA RestOfSeq ==
  ASSUME NEW S, NEW seq \in Seq(S), NEW n \in 0..Len(seq)
  PROVE  /\ SubSeq(seq, n + 1, Len(seq)) \in Seq(S)
         /\ Len(SubSeq(seq, n + 1, Len(seq))) = Len(seq) - n
         /\ \A j \in 1..(Len(seq) - n) :
              SubSeq(seq, n + 1, Len(seq))[j] = seq[n + j]
<1>1. Len(seq) \in Nat /\ n \in Nat
  BY LenProperties
<1>2. \A i \in (n + 1)..Len(seq) : seq[i] \in S
  BY <1>1, ElementOfSeq
<1>3. /\ SubSeq(seq, n + 1, Len(seq)) \in Seq(S)
      /\ Len(SubSeq(seq, n + 1, Len(seq))) =
           IF n + 1 <= Len(seq) THEN Len(seq) - (n + 1) + 1 ELSE 0
      /\ \A i \in 1..(Len(seq) - (n + 1) + 1) :
           SubSeq(seq, n + 1, Len(seq))[i] = seq[n + 1 + i - 1]
  BY <1>1, <1>2, SubSeqProperties
<1> DEFINE rest == SubSeq(seq, n + 1, Len(seq))
<1> HIDE DEF rest
<1>4. QED
  BY <1>1, <1>3 DEF rest

\* memcpy() into the ready buffer changes only the bytes that it copies.
LEMMA CopiedBytes ==
  ASSUME NEW e \in Entry, NEW size \in 0..Len(e.inBuf), e.ready + size <= Capacity
  PROVE  /\ CopiedBehind(e, size) \in [1..Capacity -> AnyByte]
         /\ \A j \in 1..e.ready : CopiedBehind(e, size)[j] = e.readyBuf[j]
         /\ \A j \in 1..size : CopiedBehind(e, size)[e.ready + j] = e.inBuf[j]
<1>1. /\ e.ready \in Nat /\ size \in Nat /\ Len(e.inBuf) \in Nat /\ Capacity \in Nat
      /\ e.readyBuf \in [1..Capacity -> AnyByte] /\ e.inBuf \in Seq(AnyByte)
      /\ e.ready <= Capacity
  BY EntryFacts, SizeFacts
<1>2. ASSUME NEW j \in 1..Capacity
      PROVE  /\ j \in (e.ready + 1)..(e.ready + size) => e.inBuf[j - e.ready] \in AnyByte
             /\ e.readyBuf[j] \in AnyByte
  <2>1. ASSUME j \in (e.ready + 1)..(e.ready + size)
        PROVE  j - e.ready \in 1..Len(e.inBuf)
    BY <1>1, <2>1
  <2>2. QED
    BY <1>1, <2>1, ElementOfSeq
<1>3. CopiedBehind(e, size) \in [1..Capacity -> AnyByte]
  BY <1>2 DEF CopiedBehind
<1>4. ASSUME NEW j \in 1..e.ready
      PROVE  CopiedBehind(e, size)[j] = e.readyBuf[j]
  <2>1. j \in 1..Capacity /\ j \notin (e.ready + 1)..(e.ready + size)
    BY <1>1
  <2>2. QED
    BY <2>1 DEF CopiedBehind
<1>5. ASSUME NEW j \in 1..size
      PROVE  CopiedBehind(e, size)[e.ready + j] = e.inBuf[j]
  <2>1. PICK k \in 1..Capacity :
          /\ k = e.ready + j
          /\ k \in (e.ready + 1)..(e.ready + size) /\ k - e.ready = j
    <3>1. PICK r \in Nat, n \in Nat : r = e.ready /\ n = size
      BY <1>1
    <3>2. /\ r + j \in 1..Capacity /\ r + j \in (r + 1)..(r + n)
          /\ (r + j) - r = j
      BY <1>1, <3>1
    <3>3. QED
      BY <3>1, <3>2, Zenon
  <2>2. CopiedBehind(e, size)[k] = e.inBuf[k - e.ready]
    BY <2>1 DEF CopiedBehind
  <2>3. QED
    BY <2>1, <2>2
<1>6. QED
  BY <1>3, <1>4, <1>5

\* What Rx makes of an entry whose buffer holds more than one package.
LEMMA ShiftedEntry ==
  ASSUME NEW e \in Entry, e.ready > PackageSize
  PROVE  /\ Shifted(e, e.ready - PackageSize) \in Entry
         /\ Shifted(e, e.ready - PackageSize).Id = e.Id
         /\ Shifted(e, e.ready - PackageSize).RawFlag = e.RawFlag
         /\ Shifted(e, e.ready - PackageSize).ReadyFlag = e.ReadyFlag
         /\ Shifted(e, e.ready - PackageSize).freed = e.freed
         /\ Shifted(e, e.ready - PackageSize).inBuf = e.inBuf
         /\ Shifted(e, e.ready - PackageSize).ready = e.ready - PackageSize
         /\ \A j \in 1..(e.ready - PackageSize) :
              Shifted(e, e.ready - PackageSize).readyBuf[j] = e.readyBuf[j + PackageSize]
<1> DEFINE remain == e.ready - PackageSize
           buf == [j \in 1..Capacity |->
                     IF j <= remain THEN e.readyBuf[j + PackageSize] ELSE e.readyBuf[j]]
<1>1. /\ e.ready \in Nat /\ e.ready <= Capacity /\ PackageSize \in Nat
      /\ Capacity \in Nat /\ e.readyBuf \in [1..Capacity -> AnyByte]
  BY EntryFacts, SizeFacts
<1>2. remain \in 0..Capacity /\ remain \in Nat
  BY <1>1
<1>3. ASSUME NEW j \in 1..Capacity, j <= remain
      PROVE  j + PackageSize \in 1..Capacity
  BY <1>1, <1>3
<1>4. buf \in [1..Capacity -> AnyByte]
  BY <1>1, <1>3
<1>5. \A j \in 1..remain : buf[j] = e.readyBuf[j + PackageSize]
  BY <1>1
<1>6. Shifted(e, remain) = [e EXCEPT !.readyBuf = buf, !.ready = remain]
  BY DEF Shifted
<1> HIDE DEF remain, buf
<1>7. QED
  <2>1. /\ Shifted(e, remain) \in Entry
        /\ Shifted(e, remain).Id = e.Id
        /\ Shifted(e, remain).RawFlag = e.RawFlag
        /\ Shifted(e, remain).ReadyFlag = e.ReadyFlag
        /\ Shifted(e, remain).freed = e.freed
        /\ Shifted(e, remain).inBuf = e.inBuf
        /\ Shifted(e, remain).ready = remain
        /\ Shifted(e, remain).readyBuf = buf
    BY <1>2, <1>4, <1>6 DEF Entry
  <2>2. QED
    BY <1>5, <2>1 DEF remain

-----------------------------------------------------------------------------
(* The list: only its first entry changes.                                 *)

LEMMA SteadyFacts ==
  ASSUME Steady
  PROVE  /\ clientList \in [Slot -> Entry] /\ First \in Entry
         /\ \A i \in Slot \ {0} : clientList[i] = Unused
         /\ \A c \in Client : Listed(c) <=> First.Id = c
         /\ First.RawFlag <=> First.Id # NoClient
         /\ First.Id # NoClient <=> First.Id \in Client
         /\ FreeSlot = 0
         /\ listener.at \in Busy => Current = First
<1>1. /\ clientList \in [Slot -> Entry] /\ First \in Entry
      /\ \A i \in Slot \ {0} : clientList[i] = Unused
  BY SizeFacts DEF Steady, TypeOK, ListInv, First
<1>2. \A c \in Client : Listed(c) <=> First.Id = c
  BY <1>1, UnusedEntry, SizeFacts DEF Listed, First
<1>3. First.RawFlag <=> First.Id # NoClient
  BY UnusedEntry DEF Steady, ListInv
<1>4. First.Id # NoClient <=> First.Id \in Client
  BY <1>1, EntryFacts, SizeFacts
<1>5. FreeSlot = 0
  <2> DEFINE Free(i) == /\ clientList[i].Flag = 0
                        /\ \A j \in 0..(i - 1) : clientList[j].Flag # 0
  <2>1. Free(0)
    BY <1>1, EntryFacts, SizeFacts
  <2>2. \A i \in Slot : Free(i) => i = 0
    <3>1. ASSUME NEW i \in Slot, i # 0
          PROVE  0 \in 0..(i - 1)
      BY <3>1, SizeFacts DEF Slot
    <3>2. QED
      BY <2>1, <3>1
  <2>3. FreeSlot = CHOOSE i \in Slot : Free(i)
    BY DEF FreeSlot
  <2> HIDE DEF Free
  <2>4. QED
    BY <2>1, <2>2, <2>3, SizeFacts
<1>6. listener.at \in Busy => Current = First
  BY DEF Steady, ListenerInv, Current, First
<1>7. QED
  BY <1>1, <1>2, <1>3, <1>4, <1>5, <1>6

\* A step that replaces the first entry.
LEMMA FirstReplaced ==
  ASSUME Steady, NEW e \in Entry, clientList' = [clientList EXCEPT ![0] = e]
  PROVE  /\ clientList' \in [Slot -> Entry] /\ First' = e
         /\ \A i \in Slot \ {0} : clientList'[i] = Unused
  BY SteadyFacts, SizeFacts DEF First

-----------------------------------------------------------------------------
(* What the steps do: to the first entry, and to the place of the thread that *)
(* takes them.                                                                *)

LEMMA SlotFacts ==
  ASSUME Steady, listener.at \in Busy
  PROVE  listener.slot = 0 /\ 0 \in Slot
  BY SizeFacts DEF Steady, ListenerInv

\* accept() always takes the first entry.
LEMMA FindEntryEffect ==
  ASSUME Steady, FindEntry, Running'
  PROVE  /\ listener.at = "accepted" /\ listener.peer \in Client
         /\ listener' = [listener EXCEPT !.at = "fill", !.slot = 0]
         /\ app.at \notin Fetching
         /\ UNCHANGED <<process, callback, rxSocket, app, destroyed, clientList,
                        connected, peerVars, delivered>>
<1>1. listener.at = "accepted"
  BY DEF FindEntry, Listen
<1>2. listener.peer \in Client
  BY <1>1 DEF Steady, ListenerInv, TypeOK
<1>3. FreeSlot = 0
  BY SteadyFacts
<1>4. ~Undefined
  BY DEF Undefined, Running
<1>5. /\ ~(app.at \in {"copied", "cleared"} /\ app.slot = 0)
      /\ Goto([listener EXCEPT !.at = "fill", !.slot = 0])
      /\ UNCHANGED <<clientList, connected, peerVars, delivered>>
  BY <1>3, <1>4 DEF FindEntry
<1>6. app.at \notin Fetching
  BY <1>5 DEF Steady, FetchInv, Fetching
<1>7. QED
  BY <1>1, <1>2, <1>5, <1>6 DEF Goto

LEMMA FillEntryEffect ==
  ASSUME Steady, FillEntry
  PROVE  /\ listener.at = "fill" /\ listener.peer \in Client
         /\ listener' = At("receiving", 0)
         /\ clientList' = [clientList EXCEPT ![0] = Established(listener.peer)]
         /\ First' = Established(listener.peer)
         /\ UNCHANGED <<process, callback, rxSocket, app, destroyed, connected,
                        peerVars, delivered>>
<1>1. listener.at = "fill"
  BY DEF FillEntry, Listen
<1>2. listener.peer \in Client /\ listener.slot = 0
  BY <1>1 DEF Steady, ListenerInv, TypeOK, Busy
<1>3. clientList' = [clientList EXCEPT ![0] = Established(listener.peer)]
  BY <1>2 DEF FillEntry
<1>4. First' = Established(listener.peer)
  BY <1>2, <1>3, FirstReplaced, EstablishedEntry
<1>5. QED
  BY <1>1, <1>2, <1>3, <1>4 DEF FillEntry, Goto

\* The loops pass over all entries but the first, which are unused.
LEMMA TestRawEffect ==
  ASSUME Steady, NEW i \in Slot, TestRaw(i), Running'
  PROVE  /\ listener.at = "receiving" /\ listener' = At("receive", 0)
         /\ First.Id \in Client /\ ~First.freed
         /\ UNCHANGED <<process, callback, rxSocket, app, destroyed, clientList,
                        connected, peerVars, delivered>>
<1>1. listener.at = "receiving" /\ clientList[i].RawFlag
  BY DEF TestRaw, Listen, Following, MayRead
<1>2. i = 0
  BY <1>1, SteadyFacts, UnusedEntry
<1>3. First.Id \in Client
  BY <1>1, <1>2, SteadyFacts DEF First
<1>4. ~Undefined
  BY DEF Undefined, Running
<1>5. /\ ~clientList[i].freed /\ Goto(At("receive", i))
      /\ UNCHANGED <<clientList, connected, peerVars, delivered>>
  BY <1>4 DEF TestRaw
<1>6. QED
  BY <1>1, <1>2, <1>3, <1>5 DEF Goto, First

LEMMA TestReadyEffect ==
  ASSUME Steady, NEW i \in Slot, TestReady(i), Running'
  PROVE  /\ listener.at = "analysing"
         /\ First.Id \in Client /\ ~First.freed /\ ~First.ReadyFlag
         /\ PackSize(First) \in 0..Len(First.inBuf) /\ Whole(PackSize(First))
         /\ listener' = [At(IF PackSize(First) = 0 THEN "announce" ELSE "copy", 0)
                           EXCEPT !.size = PackSize(First)]
         /\ UNCHANGED <<process, callback, rxSocket, app, destroyed, clientList,
                        connected, peerVars, delivered>>
<1>1. /\ listener.at = "analysing" /\ clientList[i].RawFlag
      /\ ~clientList[i].ReadyFlag
  BY DEF TestReady, Listen, Following, MayMove
<1>2. i = 0
  BY <1>1, SteadyFacts, UnusedEntry
<1>3. First.Id \in Client /\ ~First.ReadyFlag
  BY <1>1, <1>2, SteadyFacts DEF First
<1>4. ~Undefined
  BY DEF Undefined, Running
<1>5. /\ ~clientList[i].freed
      /\ Goto([At(IF PackSize(clientList[i]) = 0 THEN "announce" ELSE "copy", i)
                 EXCEPT !.size = PackSize(clientList[i])])
      /\ UNCHANGED <<clientList, connected, peerVars, delivered>>
  BY <1>4 DEF TestReady
<1>6. PackSize(First) \in 0..Len(First.inBuf) /\ Whole(PackSize(First))
  BY SteadyFacts, EntryFacts, PackSizeFacts
<1>7. QED
  BY <1>1, <1>2, <1>3, <1>5, <1>6 DEF Goto, First

\* What recv() of n bytes makes of an entry.
Received(e, n) == [e EXCEPT !.inBuf = e.inBuf \o SubSeq(wire[e.Id], 1, n)]

LEMMA ReceivedEntry ==
  ASSUME NEW e \in Entry, e.Id \in Client,
         wire \in [Client -> Seq(AnyByte)], NEW n \in 0..Len(wire[e.Id])
  PROVE  /\ Received(e, n) \in Entry
         /\ Received(e, n).Id = e.Id /\ Received(e, n).RawFlag = e.RawFlag
         /\ Received(e, n).ReadyFlag = e.ReadyFlag
         /\ Received(e, n).ready = e.ready /\ Received(e, n).freed = e.freed
         /\ Received(e, n).readyBuf = e.readyBuf
         /\ Len(Received(e, n).inBuf) = Len(e.inBuf) + n
         /\ \A j \in 1..(Len(e.inBuf) + n) :
              Received(e, n).inBuf[j] =
                IF j <= Len(e.inBuf) THEN e.inBuf[j]
                ELSE wire[e.Id][j - Len(e.inBuf)]
<1> DEFINE w == wire[e.Id]
           part == SubSeq(w, 1, n)
<1>1. w \in Seq(AnyByte) /\ Len(w) \in Nat /\ n \in Nat
  BY LenProperties
<1>2. /\ part \in Seq(AnyByte) /\ Len(part) = n
      /\ \A j \in 1..n : part[j] = w[j]
  <2>1. \A i \in 1..n : w[i] \in AnyByte
    BY <1>1, ElementOfSeq
  <2>2. /\ part \in Seq(AnyByte)
        /\ Len(part) = IF 1 <= n THEN n - 1 + 1 ELSE 0
        /\ \A i \in 1..(n - 1 + 1) : part[i] = w[1 + i - 1]
    BY <1>1, <2>1, SubSeqProperties
  <2> HIDE DEF part, w
  <2>3. QED
    BY <1>1, <2>2
<1> HIDE DEF part
<1>3. /\ e.inBuf \o part \in Seq(AnyByte)
      /\ Len(e.inBuf \o part) = Len(e.inBuf) + n
      /\ \A j \in 1..(Len(e.inBuf) + n) :
           (e.inBuf \o part)[j] = IF j <= Len(e.inBuf) THEN e.inBuf[j]
                                  ELSE part[j - Len(e.inBuf)]
  <2>1. e.inBuf \in Seq(AnyByte) /\ Len(e.inBuf) \in Nat
    BY EntryFacts
  <2>2. /\ e.inBuf \o part \in Seq(AnyByte)
        /\ Len(e.inBuf \o part) = Len(e.inBuf) + Len(part)
        /\ \A j \in 1..(Len(e.inBuf) + Len(part)) :
             (e.inBuf \o part)[j] = IF j <= Len(e.inBuf) THEN e.inBuf[j]
                                    ELSE part[j - Len(e.inBuf)]
    BY <1>2, <2>1, ConcatProperties
  <2>3. QED
    BY <1>2, <2>2
<1>4. \A j \in 1..(Len(e.inBuf) + n) :
        j > Len(e.inBuf) => part[j - Len(e.inBuf)] = w[j - Len(e.inBuf)]
  BY <1>1, <1>2, EntryFacts
<1>5. Received(e, n) = [e EXCEPT !.inBuf = e.inBuf \o part]
  BY DEF Received, part
<1>6. /\ Received(e, n) \in Entry
      /\ Received(e, n).Id = e.Id /\ Received(e, n).RawFlag = e.RawFlag
      /\ Received(e, n).ReadyFlag = e.ReadyFlag
      /\ Received(e, n).ready = e.ready /\ Received(e, n).freed = e.freed
      /\ Received(e, n).readyBuf = e.readyBuf
      /\ Received(e, n).inBuf = e.inBuf \o part
  BY <1>3, <1>5 DEF Entry
<1>7. QED
  BY <1>3, <1>4, <1>6, EntryFacts

LEMMA ReceiveEffect ==
  ASSUME Steady, Receive
  PROVE  /\ listener.at = "receive" /\ First.Id \in Client
         /\ listener' = At("receiving", 1)
         /\ UNCHANGED <<process, callback, rxSocket, app, destroyed, connected, sent,
                        delivered>>
         /\ \E n \in 0..Len(wire[First.Id]) :
              /\ Len(First.inBuf) + n <= Capacity
              /\ clientList' = [clientList EXCEPT ![0] = Received(First, n)]
              /\ First' = Received(First, n)
              /\ wire' = [wire EXCEPT ![First.Id] =
                            SubSeq(wire[First.Id], n + 1, Len(wire[First.Id]))]
<1>1. listener.at = "receive"
  BY DEF Receive, Listen
<1>2. /\ listener.slot = 0 /\ First.Id \in Client /\ Current = First
      /\ listener.at \in Busy
  BY <1>1, SteadyFacts DEF Steady, ListenerInv, Busy
<1>3. PICK n \in 0..Capacity :
        /\ n <= Len(wire[First.Id]) /\ n <= Room(First)
        /\ clientList' = [clientList EXCEPT ![0].inBuf =
                            @ \o SubSeq(wire[First.Id], 1, n)]
        /\ wire' = [wire EXCEPT ![First.Id] = SubSeq(@, n + 1, Len(@))]
  BY <1>2 DEF Receive
<1>4. wire \in [Client -> Seq(AnyByte)]
  BY DEF Steady, TypeOK
<1>5. n \in 0..Len(wire[First.Id]) /\ Len(First.inBuf) + n <= Capacity
  <2>1. Len(wire[First.Id]) \in Nat /\ Len(First.inBuf) \in Nat
    BY <1>2, <1>4, SteadyFacts, EntryFacts, LenProperties
  <2>2. QED
    BY <1>3, <2>1, SizeFacts DEF Room
<1>6. clientList' = [clientList EXCEPT ![0] = Received(First, n)]
  BY <1>3 DEF Received, First
<1>7. First' = Received(First, n)
  BY <1>2, <1>4, <1>5, <1>6, ReceivedEntry, FirstReplaced, SteadyFacts
<1>8. wire' = [wire EXCEPT ![First.Id] =
                 SubSeq(wire[First.Id], n + 1, Len(wire[First.Id]))]
  BY <1>3
<1>9. listener' = At("receiving", 1)
  <2>1. listener' = At("receiving", listener.slot + 1)
    BY DEF Receive, Goto
  <2>2. listener.slot + 1 = 1
    BY <1>2
  <2>3. QED
    BY <2>1, <2>2
<1>10. UNCHANGED <<process, callback, rxSocket, app, destroyed, connected, sent,
                   delivered>>
  BY DEF Receive, Goto
<1>11. QED
  BY <1>1, <1>2, <1>5, <1>6, <1>7, <1>8, <1>9, <1>10

LEMMA CopyPackagesEffect ==
  ASSUME Steady, CopyPackages, Running'
  PROVE  /\ listener.at = "copy" /\ First.Id \in Client
         /\ First.ready + listener.size <= Capacity
         /\ listener.size \in 1..Len(First.inBuf)
         /\ listener' = [listener EXCEPT !.at = "load"]
         /\ clientList' = [clientList EXCEPT ![0] =
              [First EXCEPT !.readyBuf = CopiedBehind(First, listener.size)]]
         /\ First' = [First EXCEPT !.readyBuf = CopiedBehind(First, listener.size)]
         /\ UNCHANGED <<process, callback, rxSocket, app, destroyed, connected,
                        peerVars, delivered>>
<1>1. listener.at = "copy"
  BY DEF CopyPackages, Listen
<1>2. /\ listener.slot = 0 /\ First.Id \in Client /\ Current = First
      /\ listener.size \in 1..Len(First.inBuf)
  BY <1>1, SteadyFacts DEF Steady, ListenerInv, Busy, Moving
<1>3. ~Undefined
  BY DEF Undefined, Running
<1>4. /\ First.ready + listener.size <= Capacity
      /\ Goto([listener EXCEPT !.at = "load"])
      /\ clientList' = [clientList EXCEPT ![0].readyBuf =
                          CopiedBehind(First, listener.size)]
      /\ UNCHANGED <<connected, peerVars, delivered>>
  <2>1. ~(First.ready + listener.size > Capacity)
    BY <1>2, <1>3 DEF CopyPackages
  <2>2. First.ready \in Nat /\ listener.size \in Nat /\ Capacity \in Nat
    BY SteadyFacts, EntryFacts, SizeFacts DEF Steady, TypeOK
  <2>3. QED
    BY <1>2, <2>1, <2>2 DEF CopyPackages
<1>5. clientList' = [clientList EXCEPT ![0] =
        [First EXCEPT !.readyBuf = CopiedBehind(First, listener.size)]]
  BY <1>4 DEF First
<1>6. CopiedBehind(First, listener.size) \in [1..Capacity -> AnyByte]
  <2>1. listener.size \in 0..Len(First.inBuf)
    BY <1>2
  <2>2. QED
    BY <1>4, <2>1, CopiedBytes, SteadyFacts
<1>7. [First EXCEPT !.readyBuf = CopiedBehind(First, listener.size)] \in Entry
  BY <1>6, SteadyFacts DEF Entry
<1>8. QED
  BY <1>1, <1>2, <1>4, <1>5, <1>7, FirstReplaced DEF Goto

LEMMA LoadReadyEffect ==
  ASSUME Steady, LoadReady
  PROVE  /\ listener.at = "load" /\ First.Id \in Client
         /\ listener' = [listener EXCEPT !.at = "store", !.loaded = First.ready]
         /\ UNCHANGED <<process, callback, rxSocket, app, destroyed, clientList,
                        connected, peerVars, delivered>>
<1>1. listener.at = "load"
  BY DEF LoadReady, Listen
<1>2. First.Id \in Client /\ Current = First
  BY <1>1, SteadyFacts DEF Steady, ListenerInv, Busy
<1>3. QED
  BY <1>1, <1>2 DEF LoadReady, Goto

\* What "pReady += PackSize" and the lines after it make of an entry.
Stored(e) == [e EXCEPT !.ready = listener.loaded + listener.size,
                       !.inBuf = InputLeft(e, listener.size)]

LEMMA StoreReadyEffect ==
  ASSUME Steady, StoreReady
  PROVE  /\ listener.at = "store" /\ First.Id \in Client
         /\ listener.loaded + listener.size \in 0..Capacity
         /\ listener.loaded \in Nat /\ listener.size \in 1..Len(First.inBuf)
         /\ listener' = At("announce", 0)
         /\ clientList' = [clientList EXCEPT ![0] = Stored(First)]
         /\ First' = Stored(First) /\ Stored(First) \in Entry
         /\ Stored(First).Id = First.Id /\ Stored(First).RawFlag = First.RawFlag
         /\ Stored(First).ReadyFlag = First.ReadyFlag
         /\ Stored(First).freed = First.freed
         /\ Stored(First).readyBuf = First.readyBuf
         /\ Stored(First).ready = listener.loaded + listener.size
         /\ Len(Stored(First).inBuf) = Len(First.inBuf) - listener.size
         /\ \A j \in 1..(Len(First.inBuf) - listener.size) :
              Stored(First).inBuf[j] = First.inBuf[listener.size + j]
         /\ UNCHANGED <<process, callback, rxSocket, app, destroyed, connected,
                        peerVars, delivered>>
<1>1. listener.at = "store"
  BY DEF StoreReady, Listen
<1>2. /\ listener.slot = 0 /\ First.Id \in Client /\ Current = First
      /\ listener.size \in 1..Len(First.inBuf)
      /\ listener.loaded + listener.size <= Capacity
  BY <1>1, SteadyFacts DEF Steady, ListenerInv, Busy, Moving
<1>3. clientList' = [clientList EXCEPT ![0] = Stored(First)]
  <2>1. clientList' = [clientList EXCEPT
          ![0].ready = listener.loaded + listener.size,
          ![0].inBuf = InputLeft(First, listener.size)]
    BY <1>2 DEF StoreReady
  <2>2. 0 \in Slot /\ clientList \in [Slot -> Entry]
    BY SizeFacts, SteadyFacts
  <2>3. QED
    BY <2>1, <2>2 DEF Stored, First
<1>4. /\ listener.loaded \in Nat /\ listener.size \in Nat
      /\ listener.loaded + listener.size \in 0..Capacity
      /\ First \in Entry /\ First.inBuf \in Seq(AnyByte)
      /\ listener.size \in 0..Len(First.inBuf)
  <2>1. listener.loaded \in Nat /\ listener.size \in Nat
    BY SizeFacts DEF Steady, TypeOK
  <2>2. First \in Entry /\ First.inBuf \in Seq(AnyByte)
    BY SteadyFacts, EntryFacts
  <2>3. QED
    BY <1>2, <2>1, <2>2, SizeFacts
<1>5. /\ InputLeft(First, listener.size) \in Seq(AnyByte)
      /\ Len(InputLeft(First, listener.size)) = Len(First.inBuf) - listener.size
      /\ \A j \in 1..(Len(First.inBuf) - listener.size) :
           InputLeft(First, listener.size)[j] = First.inBuf[listener.size + j]
  BY <1>4, RestOfSeq DEF InputLeft
<1>6. /\ Stored(First) \in Entry
      /\ Stored(First).Id = First.Id /\ Stored(First).RawFlag = First.RawFlag
      /\ Stored(First).ReadyFlag = First.ReadyFlag
      /\ Stored(First).freed = First.freed
      /\ Stored(First).readyBuf = First.readyBuf
      /\ Stored(First).ready = listener.loaded + listener.size
      /\ Stored(First).inBuf = InputLeft(First, listener.size)
  BY <1>4, <1>5 DEF Stored, Entry
<1>7. First' = Stored(First)
  BY <1>3, <1>6, FirstReplaced
<1>8. listener' = At("announce", 0)
  BY <1>2 DEF StoreReady, Goto
<1>9. UNCHANGED <<process, callback, rxSocket, app, destroyed, connected, peerVars,
                  delivered>>
  BY DEF StoreReady, Goto
<1>10. QED
  BY <1>1, <1>2, <1>3, <1>4, <1>5, <1>6, <1>7, <1>8, <1>9

LEMMA AnnounceEffect ==
  ASSUME Steady, Announce
  PROVE  /\ listener.at = "announce" /\ First.Id \in Client
         /\ listener' = IF First.ready > 0 THEN At("raise", 0) ELSE At("analysing", 1)
         /\ UNCHANGED <<process, callback, rxSocket, app, destroyed, clientList,
                        connected, peerVars, delivered>>
<1>1. listener.at = "announce"
  BY DEF Announce, Listen
<1>2. First.Id \in Client /\ Current = First /\ listener.slot = 0
  BY <1>1, SteadyFacts DEF Steady, ListenerInv, Busy
<1>3. listener' = IF First.ready > 0 THEN At("raise", 0) ELSE At("analysing", 0 + 1)
  BY <1>2 DEF Announce, Goto
<1>4. 0 + 1 = 1
  OBVIOUS
<1>5. UNCHANGED <<process, callback, rxSocket, app, destroyed, clientList, connected,
                  peerVars, delivered>>
  BY DEF Announce, Goto
<1>6. QED
  BY <1>1, <1>2, <1>3, <1>4, <1>5

LEMMA RaiseReadyEffect ==
  ASSUME Steady, RaiseReady
  PROVE  /\ listener.at = "raise" /\ First.Id \in Client
         /\ listener' = IF callback THEN [At("call", 0) EXCEPT !.size = First.ready]
                        ELSE At("analysing", 1)
         /\ clientList' = [clientList EXCEPT ![0] = [First EXCEPT !.ReadyFlag = TRUE]]
         /\ First' = [First EXCEPT !.ReadyFlag = TRUE]
         /\ UNCHANGED <<process, callback, rxSocket, app, destroyed, connected,
                        peerVars, delivered>>
<1>1. listener.at = "raise"
  BY DEF RaiseReady, Listen
<1>2. First.Id \in Client /\ Current = First /\ listener.slot = 0
  BY <1>1, SteadyFacts DEF Steady, ListenerInv, Busy
<1>3. clientList' = [clientList EXCEPT ![0] = [First EXCEPT !.ReadyFlag = TRUE]]
  BY <1>2 DEF RaiseReady, First
<1>4. [First EXCEPT !.ReadyFlag = TRUE] \in Entry
  BY SteadyFacts DEF Entry
<1>5. listener' = IF callback THEN [At("call", 0) EXCEPT !.size = First.ready]
                  ELSE At("analysing", 0 + 1)
  BY <1>2 DEF RaiseReady, Goto
<1>6. 0 + 1 = 1
  OBVIOUS
<1>7. UNCHANGED <<process, callback, rxSocket, app, destroyed, connected, peerVars,
                  delivered>>
  BY DEF RaiseReady, Goto
<1>8. QED
  BY <1>1, <1>2, <1>3, <1>4, <1>5, <1>6, <1>7, FirstReplaced

LEMMA CallEffect ==
  ASSUME Steady, Call
  PROVE  /\ listener.at = "call" /\ First.Id \in Client
         /\ listener.called < listener.size
         /\ listener' = [listener EXCEPT !.called = listener.called + PackageSize]
         /\ delivered' = [delivered EXCEPT ![First.Id] =
              Append(@, ReadyPackage(First, 1 + listener.called \div PackageSize))]
         /\ UNCHANGED <<process, callback, rxSocket, app, destroyed, clientList,
                        connected, peerVars>>
<1>1. listener.at = "call"
  BY DEF Call, Listen
<1>2. First.Id \in Client /\ Current = First /\ listener.slot = 0
  BY <1>1, SteadyFacts DEF Steady, ListenerInv, Busy
<1>3. QED
  BY <1>1, <1>2 DEF Call, Goto

LEMMA CalledEffect ==
  ASSUME Steady, Called
  PROVE  /\ listener.at = "call" /\ First.Id \in Client
         /\ listener.called >= listener.size
         /\ listener' = At("analysing", 1)
         /\ clientList' = [clientList EXCEPT ![0] = Emptied(First)]
         /\ First' = Emptied(First)
         /\ UNCHANGED <<process, callback, rxSocket, app, destroyed, connected,
                        peerVars, delivered>>
<1>1. listener.at = "call"
  BY DEF Called, Listen
<1>2. First.Id \in Client /\ Current = First /\ listener.slot = 0
  BY <1>1, SteadyFacts DEF Steady, ListenerInv, Busy
<1>3. clientList' = [clientList EXCEPT ![0] = Emptied(First)]
  BY <1>2 DEF Called, First
<1>4. Emptied(First) \in Entry
  BY SteadyFacts, EmptiedEntry
<1>5. listener' = At("analysing", 0 + 1)
  BY <1>2 DEF Called, Goto
<1>6. 0 + 1 = 1
  OBVIOUS
<1>7. UNCHANGED <<process, callback, rxSocket, app, destroyed, connected, peerVars,
                  delivered>>
  BY DEF Called, Goto
<1>8. QED
  BY <1>1, <1>2, <1>3, <1>4, <1>5, <1>6, <1>7, FirstReplaced DEF Called

\* Rx only sees the first entry.
LEMMA RxCopyEffect ==
  ASSUME Steady, NEW i \in Slot, RxCopy(i), Running'
  PROVE  /\ app.at = "out" /\ ~callback /\ First.Id \in Client /\ First.ReadyFlag
         /\ listener.at # "fill"
         /\ app' = [at |-> "copied", slot |-> 0, size |-> First.ready]
         /\ delivered' = [delivered EXCEPT ![First.Id] =
                            Append(@, ReadyPackage(First, 1))]
         /\ UNCHANGED <<process, callback, rxSocket, listener, destroyed, clientList,
                        connected, peerVars>>
<1>1. app.at = "out" /\ ~callback /\ clientList[i].ReadyFlag
  BY DEF RxCopy, Apply
<1>2. i = 0
  BY <1>1, SteadyFacts, UnusedEntry
<1>3. First.Id \in Client /\ First.ReadyFlag
  BY <1>1, <1>2, SteadyFacts, UnusedEntry DEF Steady, ListInv, First
<1>4. ~Undefined
  BY DEF Undefined, Running
<1>5. /\ ~(listener.at = "fill" /\ listener.slot = i)
      /\ Return([at |-> "copied", slot |-> i, size |-> clientList[i].ready])
      /\ delivered' = [delivered EXCEPT ![clientList[i].Id] =
                         Append(@, ReadyPackage(clientList[i], 1))]
      /\ UNCHANGED <<rxSocket, clientList, destroyed>>
  BY <1>4 DEF RxCopy
<1>6. listener.at # "fill"
  BY <1>2, <1>5 DEF Steady, ListenerInv, Busy
<1>7. QED
  BY <1>1, <1>2, <1>3, <1>5, <1>6 DEF Return, First

LEMMA FetchFacts ==
  ASSUME Steady, app.at \in Fetching
  PROVE  /\ ~callback /\ app.slot = 0 /\ First.Id \in Client /\ listener.at # "fill"
         /\ app.at = "copied" => First.ReadyFlag /\ app.size = First.ready
  BY SteadyFacts DEF Steady, FetchInv

LEMMA RxShiftEffect ==
  ASSUME Steady, RxShift, Running'
  PROVE  /\ app.at = "copied" /\ First.ready > PackageSize
         /\ app' = Outside
         /\ clientList' = [clientList EXCEPT ![0] =
                             Shifted(First, First.ready - PackageSize)]
         /\ First' = Shifted(First, First.ready - PackageSize)
         /\ UNCHANGED <<process, callback, rxSocket, listener, destroyed, connected,
                        peerVars, delivered>>
<1>1. app.at = "copied" /\ app.size # PackageSize
  BY DEF RxShift, Apply
<1>2. app.slot = 0 /\ app.size = First.ready
  BY <1>1, FetchFacts DEF Fetching
<1>3. ~Undefined
  BY DEF Undefined, Running
<1>4. /\ ~(app.size < PackageSize)
      /\ Return(Outside)
      /\ clientList' = [clientList EXCEPT ![app.slot] =
                          Shifted(@, app.size - PackageSize)]
      /\ UNCHANGED <<rxSocket, destroyed, delivered>>
  BY <1>3 DEF RxShift
<1>5. First.ready > PackageSize
  BY <1>1, <1>2, <1>4, SteadyFacts, EntryFacts, SizeFacts
<1>6. clientList' = [clientList EXCEPT ![0] =
                       Shifted(First, First.ready - PackageSize)]
  BY <1>2, <1>4 DEF First
<1>7. First' = Shifted(First, First.ready - PackageSize)
  BY <1>5, <1>6, FirstReplaced, ShiftedEntry, SteadyFacts
<1>8. QED
  BY <1>1, <1>4, <1>5, <1>6, <1>7 DEF Return

LEMMA RxClearFlagEffect ==
  ASSUME Steady, RxClearFlag
  PROVE  /\ app.at = "copied" /\ First.ready = PackageSize
         /\ app' = [app EXCEPT !.at = "cleared"]
         /\ clientList' = [clientList EXCEPT ![0] = [First EXCEPT !.ReadyFlag = FALSE]]
         /\ First' = [First EXCEPT !.ReadyFlag = FALSE]
         /\ UNCHANGED <<process, callback, rxSocket, listener, destroyed, connected,
                        peerVars, delivered>>
<1>1. app.at = "copied" /\ app.size = PackageSize
  BY DEF RxClearFlag, Apply
<1>2. app.slot = 0 /\ app.size = First.ready
  BY <1>1, FetchFacts DEF Fetching
<1>3. clientList' = [clientList EXCEPT ![0] = [First EXCEPT !.ReadyFlag = FALSE]]
  BY <1>2 DEF RxClearFlag, First
<1>4. [First EXCEPT !.ReadyFlag = FALSE] \in Entry
  BY SteadyFacts DEF Entry
<1>5. QED
  BY <1>1, <1>2, <1>3, <1>4, FirstReplaced DEF RxClearFlag, Return

LEMMA RxResetReadyEffect ==
  ASSUME Steady, RxResetReady
  PROVE  /\ app.at = "cleared" /\ app' = Outside
         /\ clientList' = [clientList EXCEPT ![0] = [First EXCEPT !.ready = 0]]
         /\ First' = [First EXCEPT !.ready = 0]
         /\ UNCHANGED <<process, callback, rxSocket, listener, destroyed, connected,
                        peerVars, delivered>>
<1>1. app.at = "cleared"
  BY DEF RxResetReady, Apply
<1>2. app.slot = 0
  BY <1>1, FetchFacts DEF Fetching
<1>3. clientList' = [clientList EXCEPT ![0] = [First EXCEPT !.ready = 0]]
  BY <1>2 DEF RxResetReady, First
<1>4. [First EXCEPT !.ready = 0] \in Entry
  <2>1. 0 \in 0..Capacity /\ First \in Entry
    BY SteadyFacts, SizeFacts
  <2>2. QED
    BY <2>1 DEF Entry
<1>5. QED
  BY <1>1, <1>3, <1>4, FirstReplaced DEF RxResetReady, Return

\* DestroyRx leaves an unused entry as it is.
LEMMA DestroyBuffersEffect ==
  ASSUME Steady, DestroyBuffers, Running'
  PROVE  /\ app.at = "free" /\ app' = [app EXCEPT !.at = "clear"]
         /\ clientList' \in [Slot -> Entry]
         /\ \A i \in Slot \ {0} : clientList'[i] = Unused
         /\ First' = First
            \/ /\ First' = [First EXCEPT !.freed = TRUE] /\ First.Id \in Client
               /\ listener.at \notin Busy
         /\ UNCHANGED <<process, callback, rxSocket, listener, destroyed, connected,
                        peerVars, delivered>>
<1>1. app.at = "free" /\ app.slot \in Slot
  BY DEF DestroyBuffers, Apply, Steady, TypeOK
<1>2. ~Undefined
  BY DEF Undefined, Running
<1>3. /\ ~Uses(app.slot) /\ Return([app EXCEPT !.at = "clear"])
      /\ clientList' = [clientList EXCEPT ![app.slot].freed = @ \/
                          clientList[app.slot].Id # NoClient]
      /\ UNCHANGED <<rxSocket, destroyed, delivered>>
  BY <1>2 DEF DestroyBuffers
<1> DEFINE e == clientList[app.slot]
           f == [e EXCEPT !.freed = e.freed \/ e.Id # NoClient]
<1>4. /\ e \in Entry /\ f \in Entry
      /\ clientList' = [clientList EXCEPT ![app.slot] = f]
      /\ e.Id = NoClient => e = Unused
  <2>1. e \in Entry /\ (e.Id = NoClient => e = Unused)
    BY <1>1, SteadyFacts DEF Steady, ListInv, First
  <2>2. f \in Entry
    BY <2>1, EntryFacts DEF Entry
  <2>3. QED
    BY <1>3, <2>1, <2>2
<1>5. CASE e.Id = NoClient
  <2>1. e = Unused /\ Unused.Id = NoClient /\ Unused.freed = FALSE
    BY <1>4, <1>5, UnusedEntry DEF Unused
  <2>2. f = e
    BY <1>5, <2>1 DEF Unused
  <2>3. clientList' = clientList
    BY <1>1, <1>4, <2>2, SteadyFacts
  <2>4. QED
    BY <1>1, <1>3, <2>3, SteadyFacts DEF Return, First
<1>6. CASE e.Id # NoClient
  <2>1. app.slot = 0 /\ e = First
    BY <1>1, <1>6, SteadyFacts, UnusedEntry DEF First
  <2>2. f = [First EXCEPT !.freed = TRUE]
    BY <1>6, <2>1
  <2>3. listener.at \notin Busy /\ First.Id \in Client
    BY <1>3, <1>6, <2>1, SteadyFacts DEF Uses, Steady, ListenerInv
  <2> HIDE DEF e, f
  <2>4. /\ clientList' \in [Slot -> Entry] /\ First' = f
        /\ \A i \in Slot \ {0} : clientList'[i] = Unused
    BY <1>4, <2>1, FirstReplaced
  <2>5. QED
    BY <1>1, <1>3, <2>2, <2>3, <2>4 DEF Return
<1>7. QED
  BY <1>5, <1>6

LEMMA DestroyEntryEffect ==
  ASSUME Steady, DestroyEntry, Running'
  PROVE  /\ app.at = "clear"
         /\ app'.at \in {"free", "forget"} /\ app'.slot \in Slot
         /\ app' \in [at : {"free", "forget"}, slot : Slot, size : 0..Capacity]
         /\ clientList' \in [Slot -> Entry]
         /\ \A i \in Slot \ {0} : clientList'[i] = Unused
         /\ First' = First \/ (First' = Unused /\ listener.at \notin Busy)
         /\ UNCHANGED <<process, callback, rxSocket, listener, destroyed, connected,
                        peerVars, delivered>>
<1>1. /\ app.at = "clear" /\ app.slot \in Slot
      /\ app \in [at : {"out", "copied", "cleared", "free", "clear", "forget"},
                  slot : Slot, size : 0..Capacity]
  BY DEF DestroyEntry, Apply, Steady, TypeOK
<1>2. ~Undefined
  BY DEF Undefined, Running
<1>3. /\ ~Uses(app.slot)
      /\ Return(IF app.slot + 1 \in Slot
                THEN [app EXCEPT !.at = "free", !.slot = @ + 1]
                ELSE [Outside EXCEPT !.at = "forget"])
      /\ clientList' = [clientList EXCEPT ![app.slot] = Unused]
      /\ UNCHANGED <<rxSocket, destroyed, delivered>>
  BY <1>2 DEF DestroyEntry
<1>4. app' \in [at : {"free", "forget"}, slot : Slot, size : 0..Capacity]
  <2>1. CASE app.slot + 1 \in Slot
    <3>1. app' = [app EXCEPT !.at = "free", !.slot = app.slot + 1]
      BY <1>3, <2>1 DEF Return
    <3>2. QED
      BY <1>1, <2>1, <3>1
  <2>2. CASE app.slot + 1 \notin Slot
    <3>1. app' = [Outside EXCEPT !.at = "forget"]
      BY <1>3, <2>2 DEF Return
    <3>2. QED
      BY <3>1, SizeFacts DEF Outside
  <2>3. QED
    BY <2>1, <2>2
<1>5. CASE app.slot = 0
  <2>1. /\ clientList' \in [Slot -> Entry] /\ First' = Unused
        /\ \A i \in Slot \ {0} : clientList'[i] = Unused
    BY <1>3, <1>5, FirstReplaced, UnusedEntry
  <2>2. listener.at \notin Busy
    BY <1>3, <1>5 DEF Uses, Steady, ListenerInv
  <2>3. QED
    BY <1>1, <1>3, <1>4, <2>1, <2>2 DEF Return
<1>6. CASE app.slot # 0
  <2>1. clientList' = clientList
    BY <1>1, <1>3, <1>6, SteadyFacts
  <2>2. QED
    BY <1>1, <1>3, <1>4, <2>1, SteadyFacts DEF Return, First
<1>7. QED
  BY <1>5, <1>6

\* recv() takes bytes from the wire to the end of the input buffer.
LEMMA ReceivedFirst ==
  ASSUME Steady, Receive, NEW c \in Client, First.Id = c
  PROVE  \E n \in 0..Len(wire[c]) :
           /\ \A d \in Client : d # c => wire'[d] = wire[d]
           /\ wire' \in [Client -> Seq(AnyByte)]
           /\ Len(wire'[c]) = Len(wire[c]) - n
           /\ \A j \in 1..(Len(wire[c]) - n) : wire'[c][j] = wire[c][n + j]
           /\ clientList' \in [Slot -> Entry]
           /\ \A i \in Slot \ {0} : clientList'[i] = Unused
           /\ First' \in Entry
           /\ First'.Id = c /\ First'.RawFlag = First.RawFlag
           /\ First'.ReadyFlag = First.ReadyFlag /\ First'.freed = First.freed
           /\ First'.ready = First.ready /\ First'.readyBuf = First.readyBuf
           /\ Len(First.inBuf) + n <= Capacity
           /\ Len(First'.inBuf) = Len(First.inBuf) + n
           /\ \A j \in 1..(Len(First.inBuf) + n) :
                First'.inBuf[j] = IF j <= Len(First.inBuf) THEN First.inBuf[j]
                                  ELSE wire[c][j - Len(First.inBuf)]
<1>1. PICK n \in 0..Len(wire[c]) :
        /\ Len(First.inBuf) + n <= Capacity
        /\ clientList' = [clientList EXCEPT ![0] = Received(First, n)]
        /\ First' = Received(First, n)
        /\ wire' = [wire EXCEPT ![c] = SubSeq(wire[c], n + 1, Len(wire[c]))]
  BY ReceiveEffect
<1>2. First \in Entry /\ wire \in [Client -> Seq(AnyByte)] /\ wire[c] \in Seq(AnyByte)
  BY SteadyFacts DEF Steady, TypeOK
<1>3. /\ SubSeq(wire[c], n + 1, Len(wire[c])) \in Seq(AnyByte)
      /\ Len(SubSeq(wire[c], n + 1, Len(wire[c]))) = Len(wire[c]) - n
      /\ \A j \in 1..(Len(wire[c]) - n) :
           SubSeq(wire[c], n + 1, Len(wire[c]))[j] = wire[c][n + j]
  BY <1>2, RestOfSeq
<1>4. /\ wire' \in [Client -> Seq(AnyByte)]
      /\ wire'[c] = SubSeq(wire[c], n + 1, Len(wire[c]))
      /\ \A d \in Client : d # c => wire'[d] = wire[d]
  BY <1>1, <1>2, <1>3
<1>5. /\ Received(First, n) \in Entry
      /\ Received(First, n).Id = c /\ Received(First, n).RawFlag = First.RawFlag
      /\ Received(First, n).ReadyFlag = First.ReadyFlag
      /\ Received(First, n).ready = First.ready
      /\ Received(First, n).freed = First.freed
      /\ Received(First, n).readyBuf = First.readyBuf
      /\ Len(Received(First, n).inBuf) = Len(First.inBuf) + n
      /\ \A j \in 1..(Len(First.inBuf) + n) :
           Received(First, n).inBuf[j] =
             IF j <= Len(First.inBuf) THEN First.inBuf[j]
             ELSE wire[c][j - Len(First.inBuf)]
  BY <1>2, ReceivedEntry
<1>6. /\ clientList' \in [Slot -> Entry]
      /\ \A i \in Slot \ {0} : clientList'[i] = Unused
  BY <1>1, <1>5, FirstReplaced
<1>7. QED
  BY <1>1, <1>3, <1>4, <1>5, <1>6

LEMMA CopiedFirst ==
  ASSUME Steady, CopyPackages, Running'
  PROVE  /\ First' \in Entry
         /\ First'.Id = First.Id /\ First'.RawFlag = First.RawFlag
         /\ First'.ReadyFlag = First.ReadyFlag /\ First'.freed = First.freed
         /\ First'.inBuf = First.inBuf /\ First'.ready = First.ready
         /\ First'.readyBuf = CopiedBehind(First, listener.size)
<1>1. /\ First' = [First EXCEPT !.readyBuf = CopiedBehind(First, listener.size)]
      /\ listener.size \in 0..Len(First.inBuf)
      /\ First.ready + listener.size <= Capacity /\ First \in Entry
  BY CopyPackagesEffect, SteadyFacts
<1>2. CopiedBehind(First, listener.size) \in [1..Capacity -> AnyByte]
  BY <1>1, CopiedBytes
<1>3. QED
  BY <1>1, <1>2 DEF Entry

LEMMA FlagFirst ==
  ASSUME Steady, NEW b \in BOOLEAN, First' = [First EXCEPT !.ReadyFlag = b]
  PROVE  /\ First' \in Entry
         /\ First'.Id = First.Id /\ First'.RawFlag = First.RawFlag
         /\ First'.ReadyFlag = b /\ First'.freed = First.freed
         /\ First'.inBuf = First.inBuf /\ First'.ready = First.ready
         /\ First'.readyBuf = First.readyBuf
  BY SteadyFacts DEF Entry

LEMMA ResetFirst ==
  ASSUME Steady, First' = [First EXCEPT !.ready = 0]
  PROVE  /\ First' \in Entry
         /\ First'.Id = First.Id /\ First'.RawFlag = First.RawFlag
         /\ First'.ReadyFlag = First.ReadyFlag /\ First'.freed = First.freed
         /\ First'.inBuf = First.inBuf /\ First'.ready = 0
         /\ First'.readyBuf = First.readyBuf
<1>1. 0 \in 0..Capacity /\ First \in Entry
  BY SteadyFacts, SizeFacts
<1>2. QED
  BY <1>1 DEF Entry

LEMMA PackageInBuffer ==
  ASSUME NEW e \in Entry, NEW p \in Nat, p + PackageSize <= Capacity
  PROVE  \A j \in 1..PackageSize :
           p + j \in 1..Capacity /\ e.readyBuf[p + j] \in AnyByte
<1>1. /\ PackageSize \in Nat /\ Capacity \in Nat
      /\ e.readyBuf \in [1..Capacity -> AnyByte]
  BY EntryFacts, SizeFacts
<1>2. ASSUME NEW j \in 1..PackageSize
      PROVE  p + j \in 1..Capacity
  BY <1>1
<1>3. QED
  BY <1>1, <1>2

\* The package of the ready buffer that begins p bytes behind its start.
PackageAt(e, p) == [j \in 1..PackageSize |-> e.readyBuf[p + j]]

LEMMA ReadyPackageAt ==
  ASSUME NEW e, NEW n \in Nat, Whole(n)
  PROVE  ReadyPackage(e, 1 + n \div PackageSize) = PackageAt(e, n)
<1>1. n \div PackageSize \in Nat /\ (n \div PackageSize) * PackageSize = n
  BY QuotientBounds, QuotientOfWhole
<1>2. PICK q \in Nat : q = n \div PackageSize
  BY <1>1
<1>3. (1 + q) - 1 = q
  BY <1>2
<1>4. ((1 + (n \div PackageSize)) - 1) * PackageSize = n
  BY <1>1, <1>2, <1>3, Zenon
<1>5. QED
  BY <1>4 DEF ReadyPackage, PackageAt

LEMMA FirstPackageAt ==
  ASSUME NEW e
  PROVE  ReadyPackage(e, 1) = PackageAt(e, 0)
<1>1. (1 - 1) * PackageSize = 0
  BY SizeFacts
<1>2. QED
  BY <1>1, Zenon DEF ReadyPackage, PackageAt

LEMMA PackageAtType ==
  ASSUME NEW e \in Entry, NEW p \in Nat, p + PackageSize <= Capacity
  PROVE  PackageAt(e, p) \in [1..PackageSize -> AnyByte]
  BY PackageInBuffer DEF PackageAt

-----------------------------------------------------------------------------
(* Where the threads stand, and the types.                                 *)

LEMMA ListInductive ==
  ASSUME Steady, Next, Running'
  PROVE  ListInv'
<1>1. ASSUME NEW c \in Client, Accept(c) PROVE ListInv'
  BY <1>1 DEF Accept, Goto, Steady, ListInv, First
<1>2. ASSUME AcceptNothing PROVE ListInv'
  BY <1>2 DEF AcceptNothing, Goto, Steady, ListInv, First
<1>3. ASSUME FindEntry PROVE ListInv'
  BY <1>3, FindEntryEffect DEF Steady, ListInv, First
<1>4. ASSUME FillEntry PROVE ListInv'
  <2>1. listener.peer \in connected
    BY <1>4, FillEntryEffect DEF Steady, ListenerInv
  <2>2. \A i \in Slot \ {0} : clientList'[i] = Unused
    BY <1>4, FillEntryEffect, EstablishedEntry, FirstReplaced
  <2>3. First'.Id # NoClient
    BY <1>4, FillEntryEffect, EstablishedEntry, SizeFacts
  <2>4. QED
    BY <1>4, <2>1, <2>2, <2>3, FillEntryEffect, EstablishedEntry DEF Steady, ListInv
<1>5. ASSUME NEW i \in Slot, TestRaw(i) PROVE ListInv'
  BY <1>5, TestRawEffect DEF Steady, ListInv, First
<1>6. ASSUME RawTested PROVE ListInv'
  BY <1>6 DEF RawTested, Goto, Steady, ListInv, First
<1>7. ASSUME Receive PROVE ListInv'
  <2>1. First.Id \in Client
    BY <1>7, ReceiveEffect
  <2>2. /\ First'.Id = First.Id /\ First'.RawFlag = First.RawFlag
        /\ First'.freed = First.freed
        /\ \A i \in Slot \ {0} : clientList'[i] = Unused
    BY <1>7, <2>1, ReceivedFirst
  <2>3. QED
    BY <1>7, <2>1, <2>2, ReceiveEffect, SizeFacts DEF Steady, ListInv
<1>8. ASSUME NEW i \in Slot, TestReady(i) PROVE ListInv'
  BY <1>8, TestReadyEffect DEF Steady, ListInv, First
<1>9. ASSUME ReadyTested PROVE ListInv'
  BY <1>9 DEF ReadyTested, Goto, Steady, ListInv, First
<1>10. ASSUME CopyPackages PROVE ListInv'
  <2>1. /\ First' \in Entry
        /\ First'.Id = First.Id /\ First'.RawFlag = First.RawFlag
        /\ First'.freed = First.freed
    BY <1>10, CopyPackagesEffect, CopiedFirst
  <2>2. \A i \in Slot \ {0} : clientList'[i] = Unused
    BY <1>10, <2>1, CopyPackagesEffect, FirstReplaced
  <2>3. QED
    BY <1>10, <2>1, <2>2, CopyPackagesEffect, SizeFacts DEF Steady, ListInv
<1>11. ASSUME LoadReady PROVE ListInv'
  BY <1>11, LoadReadyEffect DEF Steady, ListInv, First
<1>12. ASSUME StoreReady PROVE ListInv'
  <2>1. \A i \in Slot \ {0} : clientList'[i] = Unused
    BY <1>12, StoreReadyEffect, FirstReplaced
  <2>2. QED
    BY <1>12, <2>1, StoreReadyEffect, SizeFacts DEF Steady, ListInv
<1>13. ASSUME Announce PROVE ListInv'
  BY <1>13, AnnounceEffect DEF Steady, ListInv, First
<1>14. ASSUME RaiseReady PROVE ListInv'
  <2>1. /\ First' \in Entry
        /\ First'.Id = First.Id /\ First'.RawFlag = First.RawFlag
        /\ First'.freed = First.freed
    BY <1>14, RaiseReadyEffect, FlagFirst
  <2>2. \A i \in Slot \ {0} : clientList'[i] = Unused
    BY <1>14, <2>1, RaiseReadyEffect, FirstReplaced
  <2>3. QED
    BY <1>14, <2>1, <2>2, RaiseReadyEffect, SizeFacts DEF Steady, ListInv
<1>15. ASSUME Call PROVE ListInv'
  BY <1>15, CallEffect DEF Steady, ListInv, First
<1>16. ASSUME Called PROVE ListInv'
  <2>1. First \in Entry
    BY SteadyFacts
  <2>2. \A i \in Slot \ {0} : clientList'[i] = Unused
    BY <1>16, <2>1, CalledEffect, EmptiedEntry, FirstReplaced
  <2>3. QED
    BY <1>16, <2>1, <2>2, CalledEffect, EmptiedEntry, SizeFacts DEF Steady, ListInv
<1>17. ASSUME InitRx PROVE ListInv'
  <2>1. CASE UNCHANGED destroyed
    BY <1>17, <2>1 DEF InitRx, Steady, ListInv, First
  <2>2. CASE listener' = At("accept", 0)
    <3>1. First = Unused
      BY <1>17, SizeFacts, UnusedEntry
         DEF InitRx, Apply, Steady, ListInv, ListenerInv
    <3>2. QED
      BY <1>17, <3>1, UnusedEntry DEF InitRx, Apply, Steady, ListInv, First
  <2>3. QED
    BY <1>17, <2>1, <2>2 DEF InitRx
<1>18. ASSUME InitRxAgain PROVE ListInv'
  BY <1>18 DEF InitRxAgain, Return, Steady, ListInv, First
<1>19. ASSUME NEW i \in Slot, RxCopy(i) PROVE ListInv'
  BY <1>19, RxCopyEffect DEF Steady, ListInv, First
<1>20. ASSUME RxShift PROVE ListInv'
  <2>1. First \in Entry
    BY SteadyFacts
  <2>2. \A i \in Slot \ {0} : clientList'[i] = Unused
    BY <1>20, <2>1, RxShiftEffect, ShiftedEntry, FirstReplaced
  <2>3. First.Id # NoClient
    BY <1>20, RxShiftEffect, FetchFacts, SizeFacts DEF Fetching
  <2>4. QED
    BY <1>20, <2>1, <2>2, <2>3, RxShiftEffect, ShiftedEntry DEF Steady, ListInv, Outside
<1>21. ASSUME RxClearFlag PROVE ListInv'
  <2>1. /\ First' \in Entry
        /\ First'.Id = First.Id /\ First'.RawFlag = First.RawFlag
        /\ First'.freed = First.freed
    BY <1>21, RxClearFlagEffect, FlagFirst
  <2>2. \A i \in Slot \ {0} : clientList'[i] = Unused
    BY <1>21, <2>1, RxClearFlagEffect, FirstReplaced
  <2>3. First.Id # NoClient
    BY <1>21, RxClearFlagEffect, FetchFacts, SizeFacts DEF Fetching
  <2>4. app'.at = "cleared"
    BY <1>21, RxClearFlagEffect DEF Steady, TypeOK
  <2>5. QED
    BY <1>21, <2>1, <2>2, <2>3, <2>4, RxClearFlagEffect DEF Steady, ListInv
<1>22. ASSUME RxResetReady PROVE ListInv'
  <2>1. /\ First' \in Entry
        /\ First'.Id = First.Id /\ First'.RawFlag = First.RawFlag
        /\ First'.freed = First.freed
    BY <1>22, RxResetReadyEffect, ResetFirst
  <2>2. \A i \in Slot \ {0} : clientList'[i] = Unused
    BY <1>22, <2>1, RxResetReadyEffect, FirstReplaced
  <2>3. First.Id # NoClient
    BY <1>22, RxResetReadyEffect, FetchFacts, SizeFacts DEF Fetching
  <2>4. QED
    BY <1>22, <2>1, <2>2, <2>3, RxResetReadyEffect DEF Steady, ListInv, Outside
<1>23. ASSUME DestroyRx PROVE ListInv'
  BY <1>23 DEF DestroyRx, Return, Steady, ListInv, First
<1>24. ASSUME DestroyBuffers PROVE ListInv'
  <2>1. destroyed
    BY <1>24, DestroyBuffersEffect DEF Steady, ListInv
  <2>2. First' = First \/ (First' = [First EXCEPT !.freed = TRUE] /\ First.Id \in Client)
    BY <1>24, DestroyBuffersEffect
  <2>3. First'.Id = First.Id /\ First'.RawFlag = First.RawFlag
    BY <2>2, SteadyFacts DEF Entry
  <2>4. First'.Id = NoClient => First' = Unused
    BY <2>2, <2>3, SizeFacts DEF Steady, ListInv
  <2>5. QED
    BY <1>24, <2>1, <2>3, <2>4, DestroyBuffersEffect DEF Steady, ListInv
<1>25. ASSUME DestroyEntry PROVE ListInv'
  <2>1. destroyed
    BY <1>25, DestroyEntryEffect DEF Steady, ListInv
  <2>2. QED
    BY <1>25, <2>1, DestroyEntryEffect, UnusedEntry DEF Steady, ListInv
<1>26. ASSUME DestroySocket PROVE ListInv'
  BY <1>26 DEF DestroySocket, Return, Outside, Apply, Steady, ListInv, First
<1>27. ASSUME NEW c \in Client, SendByte(c) PROVE ListInv'
  BY <1>27 DEF SendByte, Steady, ListInv, First
<1>28. QED
  BY <1>1, <1>2, <1>3, <1>4, <1>5, <1>6, <1>7, <1>8, <1>9, <1>10, <1>11, <1>12,
     <1>13, <1>14, <1>15, <1>16, <1>17, <1>18, <1>19, <1>20, <1>21, <1>22, <1>23,
     <1>24, <1>25, <1>26, <1>27
     DEF Next, RxListen, Rx, Destroying

\* The places of RxListen, and the values of its variable.
Place == Busy \cup {"none", "accept", "accepted", "receiving", "analysing"}
Listener ==
  [at : Place, slot : 0..MaxClients, peer : Client \cup {NoClient},
   size : 0..Capacity, loaded : 0..Capacity, called : Nat]

LEMMA AtType ==
  ASSUME NEW place \in Place, NEW i \in 0..MaxClients
  PROVE  At(place, i) \in Listener
<1>1. 0 \in 0..Capacity /\ 0 \in Nat
  BY SizeFacts
<1>2. QED
  BY <1>1 DEF At, Listener

LEMMA SizedType ==
  ASSUME NEW l \in Listener, NEW n \in 0..Capacity
  PROVE  [l EXCEPT !.size = n] \in Listener
  BY DEF Listener

\* The types of what most steps leave alone, and what is left to show of the rest.
LEMMA TypeFrom ==
  ASSUME Steady, UNCHANGED callback,
         destroyed' \in BOOLEAN,
         rxSocket' \in {"none", "unbound", "listening"},
         clientList' \in [Slot -> Entry],
         \A i \in Slot \ {0} : clientList'[i] = Unused,
         Len(First'.inBuf) <= Capacity,
         listener' \in Listener,
         app' \in [at : {"out", "copied", "cleared", "free", "clear", "forget"},
                   slot : Slot, size : 0..Capacity],
         connected' \subseteq Client,
         sent' \in [Client -> 0..MaxBytes],
         wire' \in [Client -> Seq(AnyByte)],
         delivered' \in [Client -> Seq([1..PackageSize -> AnyByte])]
  PROVE  TypeOK'
<1>1. \A i \in Slot : Len(clientList'[i].inBuf) <= Capacity
  BY UnusedEntry, SizeFacts DEF First
<1>2. callback' \in BOOLEAN
  BY DEF Steady, TypeOK
<1>3. QED
  BY <1>1, <1>2 DEF TypeOK, Listener, Place

LEMMA TypeFacts ==
  ASSUME Steady
  PROVE  /\ destroyed \in BOOLEAN /\ rxSocket \in {"none", "unbound", "listening"}
         /\ Len(First.inBuf) <= Capacity
         /\ listener \in Listener
         /\ app \in [at : {"out", "copied", "cleared", "free", "clear", "forget"},
                     slot : Slot, size : 0..Capacity]
         /\ connected \subseteq Client
         /\ sent \in [Client -> 0..MaxBytes]
         /\ wire \in [Client -> Seq(AnyByte)]
         /\ delivered \in [Client -> Seq([1..PackageSize -> AnyByte])]
         /\ Outside \in [at : {"out", "copied", "cleared", "free", "clear", "forget"},
                         slot : Slot, size : 0..Capacity]
         /\ 0 \in 0..MaxClients /\ 1 \in 0..MaxClients
<1>1. /\ 0 \in Slot /\ 0 \in 0..Capacity
      /\ 0 \in 0..MaxClients /\ 1 \in 0..MaxClients
  BY SizeFacts, SizeAssumption
<1>2. QED
  BY <1>1 DEF Steady, TypeOK, First, Outside, Listener, Place

LEMMA PlacesType ==
  ASSUME Steady
  PROVE  /\ At("accept", 0) \in Listener
         /\ At("receiving", 0) \in Listener /\ At("receiving", 1) \in Listener
         /\ At("analysing", 0) \in Listener /\ At("analysing", 1) \in Listener
<1>1. /\ 0 \in 0..MaxClients /\ 1 \in 0..MaxClients
      /\ "accept" \in Place /\ "receiving" \in Place /\ "analysing" \in Place
  BY TypeFacts DEF Place
<1>2. QED
  BY <1>1, AtType

LEMMA AppendPackage ==
  ASSUME Steady, NEW c \in Client, NEW p \in [1..PackageSize -> AnyByte],
         delivered' = [delivered EXCEPT ![c] = Append(@, p)]
  PROVE  /\ delivered' \in [Client -> Seq([1..PackageSize -> AnyByte])]
         /\ Len(delivered[c]) \in Nat /\ Len(delivered'[c]) = Len(delivered[c]) + 1
         /\ delivered'[c][Len(delivered[c]) + 1] = p
         /\ \A k \in 1..Len(delivered[c]) : delivered'[c][k] = delivered[c][k]
         /\ \A d \in Client : d # c => delivered'[d] = delivered[d]
<1>1. delivered[c] \in Seq([1..PackageSize -> AnyByte])
  BY TypeFacts
<1>2. /\ Append(delivered[c], p) \in Seq([1..PackageSize -> AnyByte])
      /\ Len(Append(delivered[c], p)) = Len(delivered[c]) + 1
      /\ Append(delivered[c], p)[Len(delivered[c]) + 1] = p
      /\ \A k \in 1..Len(delivered[c]) :
           Append(delivered[c], p)[k] = delivered[c][k]
      /\ Len(delivered[c]) \in Nat
  BY <1>1, AppendProperties, LenProperties
<1>3. /\ delivered'[c] = Append(delivered[c], p)
      /\ \A d \in Client : d # c => delivered'[d] = delivered[d]
      /\ delivered' \in [Client -> Seq([1..PackageSize -> AnyByte])]
  BY <1>2, TypeFacts
<1>4. QED
  BY <1>2, <1>3

LEMMA SentByte ==
  ASSUME Steady, NEW d \in Client, SendByte(d)
  PROVE  /\ sent' \in [Client -> 0..MaxBytes] /\ wire' \in [Client -> Seq(AnyByte)]
         /\ sent'[d] = sent[d] + 1 /\ Len(wire'[d]) = Len(wire[d]) + 1
         /\ \A j \in 1..(Len(wire[d]) + 1) :
              wire'[d][j] = IF j <= Len(wire[d]) THEN wire[d][j]
                            ELSE Byte(d, sent[d] + 1)
         /\ \A c \in Client : c # d => sent'[c] = sent[c] /\ wire'[c] = wire[c]
         /\ sent[d] \in Nat /\ Len(wire[d]) \in Nat
<1>1. /\ sent' = [sent EXCEPT ![d] = sent[d] + 1]
      /\ wire' = [wire EXCEPT ![d] = Append(wire[d], Byte(d, sent[d] + 1))]
      /\ sent[d] < MaxBytes
  BY DEF SendByte
<1>2. /\ sent \in [Client -> 0..MaxBytes] /\ wire \in [Client -> Seq(AnyByte)]
      /\ wire[d] \in Seq(AnyByte) /\ sent[d] \in Nat
      /\ sent[d] + 1 \in 0..MaxBytes /\ sent[d] + 1 \in 1..MaxBytes
  BY <1>1, TypeFacts, SizeFacts
<1>3. Byte(d, sent[d] + 1) \in AnyByte
  BY <1>2 DEF AnyByte
<1>4. /\ Append(wire[d], Byte(d, sent[d] + 1)) \in Seq(AnyByte)
      /\ Len(Append(wire[d], Byte(d, sent[d] + 1))) = Len(wire[d]) + 1
      /\ Len(wire[d]) \in Nat
      /\ \A j \in 1..(Len(wire[d]) + 1) :
           Append(wire[d], Byte(d, sent[d] + 1))[j] =
             IF j <= Len(wire[d]) THEN wire[d][j] ELSE Byte(d, sent[d] + 1)
  BY <1>2, <1>3, AppendProperties, LenProperties
<1>5. /\ wire'[d] = Append(wire[d], Byte(d, sent[d] + 1))
      /\ wire' \in [Client -> Seq(AnyByte)]
      /\ \A c \in Client : c # d => wire'[c] = wire[c]
  BY <1>1, <1>2, <1>4
<1>6. /\ sent'[d] = sent[d] + 1 /\ sent' \in [Client -> 0..MaxBytes]
      /\ \A c \in Client : c # d => sent'[c] = sent[c]
  BY <1>1, <1>2
<1>7. QED
  BY <1>2, <1>4, <1>5, <1>6

\* The callback is given packages that are in the buffer.  (A part of CallbackInv.)
CallWithin ==
  listener.at = "call" /\ listener.called < listener.size =>
    Whole(listener.called) /\ listener.called + PackageSize <= Capacity

\* Rx copies a package from the buffer's start, the callback one of those in it.
LEMMA CopiedPackage ==
  ASSUME Steady
  PROVE  /\ ReadyPackage(First, 1) = PackageAt(First, 0)
         /\ PackageAt(First, 0) \in [1..PackageSize -> AnyByte]
<1>1. First \in Entry /\ 0 \in Nat /\ 0 + PackageSize <= Capacity
  BY SteadyFacts, SizeFacts
<1>2. QED
  BY <1>1, FirstPackageAt, PackageAtType

LEMMA TypeInductive ==
  ASSUME Steady, Next, Running', CallWithin
  PROVE  TypeOK'
<1> USE DEF peerVars
<1>1. ASSUME UNCHANGED <<callback, rxSocket, app, destroyed, clientList, sent, wire,
                         delivered>>,
             connected' \subseteq Client, listener' \in Listener
      PROVE  TypeOK'
  BY <1>1, TypeFacts, SteadyFacts, TypeFrom DEF First
<1>2. ASSUME UNCHANGED <<callback, rxSocket, app, destroyed, connected, sent, wire,
                         delivered>>,
             listener' \in Listener,
             clientList' \in [Slot -> Entry],
             \A i \in Slot \ {0} : clientList'[i] = Unused,
             Len(First'.inBuf) <= Capacity
      PROVE  TypeOK'
  BY <1>2, TypeFacts, TypeFrom
<1>3. ASSUME UNCHANGED <<callback, rxSocket, listener, destroyed, connected, sent, wire,
                         delivered>>,
             app' \in [at : {"out", "copied", "cleared", "free", "clear", "forget"},
                       slot : Slot, size : 0..Capacity],
             clientList' \in [Slot -> Entry],
             \A i \in Slot \ {0} : clientList'[i] = Unused,
             Len(First'.inBuf) <= Capacity
      PROVE  TypeOK'
  BY <1>3, TypeFacts, TypeFrom
<1>4. ASSUME UNCHANGED <<callback, clientList, connected, sent, wire, delivered>>,
             rxSocket' \in {"none", "unbound", "listening"},
             destroyed' \in BOOLEAN, listener' \in Listener,
             app' \in [at : {"out", "copied", "cleared", "free", "clear", "forget"},
                       slot : Slot, size : 0..Capacity]
      PROVE  TypeOK'
  BY <1>4, TypeFacts, SteadyFacts, TypeFrom DEF First
<1>5. ASSUME NEW c \in Client, Accept(c) PROVE TypeOK'
  <2>1. listener' = [listener EXCEPT !.at = "accepted", !.peer = c]
    BY <1>5 DEF Accept, Goto
  <2>2. listener' \in Listener
    BY <2>1, TypeFacts DEF Listener, Place
  <2>3. QED
    BY <1>1, <1>5, <2>2, TypeFacts DEF Accept, Goto
<1>6. ASSUME AcceptNothing PROVE TypeOK'
  BY <1>1, <1>6, PlacesType, TypeFacts DEF AcceptNothing, Goto
<1>7. ASSUME FindEntry PROVE TypeOK'
  <2>1. listener' \in Listener
    BY <1>7, FindEntryEffect, TypeFacts DEF Listener, Place, Busy
  <2>2. QED
    BY <1>1, <1>7, <2>1, FindEntryEffect, TypeFacts
<1>8. ASSUME FillEntry PROVE TypeOK'
  <2>1. Len(First'.inBuf) <= Capacity
    BY <1>8, FillEntryEffect, EstablishedEntry, SizeFacts
  <2>2. /\ clientList' \in [Slot -> Entry]
        /\ \A i \in Slot \ {0} : clientList'[i] = Unused
    BY <1>8, FillEntryEffect, EstablishedEntry, FirstReplaced
  <2>3. QED
    BY <1>2, <1>8, <2>1, <2>2, FillEntryEffect, PlacesType
<1>9. ASSUME NEW i \in Slot, TestRaw(i) PROVE TypeOK'
  BY <1>1, <1>9, TestRawEffect, AtType, TypeFacts DEF Place, Busy
<1>10. ASSUME RawTested PROVE TypeOK'
  BY <1>1, <1>10, PlacesType, TypeFacts DEF RawTested, Goto
<1>11. ASSUME Receive PROVE TypeOK'
  <2>1. First.Id \in Client
    BY <1>11, ReceiveEffect
  <2>2. /\ clientList' \in [Slot -> Entry] /\ wire' \in [Client -> Seq(AnyByte)]
        /\ \A i \in Slot \ {0} : clientList'[i] = Unused
        /\ Len(First'.inBuf) <= Capacity
    BY <1>11, <2>1, ReceivedFirst
  <2>3. listener' \in Listener
    BY <1>11, ReceiveEffect, PlacesType
  <2>4. QED
    BY <1>11, <2>2, <2>3, ReceiveEffect, TypeFacts, TypeFrom
<1>12. ASSUME NEW i \in Slot, TestReady(i) PROVE TypeOK'
  <2>1. PackSize(First) \in 0..Capacity
    BY <1>12, TestReadyEffect, TypeFacts, SteadyFacts, EntryFacts, SizeFacts
  <2>2. At(IF PackSize(First) = 0 THEN "announce" ELSE "copy", 0) \in Listener
    BY AtType, TypeFacts DEF Place, Busy
  <2>3. listener' \in Listener
    BY <1>12, <2>1, <2>2, TestReadyEffect, SizedType
  <2>4. QED
    BY <1>1, <1>12, <2>3, TestReadyEffect, TypeFacts
<1>13. ASSUME ReadyTested PROVE TypeOK'
  BY <1>1, <1>13, PlacesType, TypeFacts DEF ReadyTested, Goto
<1>14. ASSUME CopyPackages PROVE TypeOK'
  <2>1. listener' \in Listener
    BY <1>14, CopyPackagesEffect, TypeFacts DEF Listener, Place, Busy
  <2>2. First' \in Entry /\ Len(First'.inBuf) <= Capacity
    BY <1>14, CopiedFirst, TypeFacts
  <2>3. /\ clientList' \in [Slot -> Entry]
        /\ \A i \in Slot \ {0} : clientList'[i] = Unused
    BY <1>14, <2>2, CopyPackagesEffect, FirstReplaced
  <2>4. QED
    BY <1>2, <1>14, <2>1, <2>2, <2>3, CopyPackagesEffect
<1>15. ASSUME LoadReady PROVE TypeOK'
  <2>1. First.ready \in 0..Capacity
    BY SteadyFacts, EntryFacts
  <2>2. listener' \in Listener
    BY <1>15, <2>1, LoadReadyEffect, TypeFacts DEF Listener, Place, Busy
  <2>3. QED
    BY <1>1, <1>15, <2>2, LoadReadyEffect, TypeFacts
<1>16. ASSUME StoreReady PROVE TypeOK'
  <2>1. Len(First'.inBuf) <= Capacity
    BY <1>16, StoreReadyEffect, TypeFacts, SteadyFacts, EntryFacts, SizeFacts
  <2>2. /\ clientList' \in [Slot -> Entry]
        /\ \A i \in Slot \ {0} : clientList'[i] = Unused
    BY <1>16, StoreReadyEffect, FirstReplaced
  <2>3. QED
    BY <1>2, <1>16, <2>1, <2>2, StoreReadyEffect, AtType, TypeFacts DEF Place, Busy
<1>17. ASSUME Announce PROVE TypeOK'
  BY <1>1, <1>17, AnnounceEffect, AtType, TypeFacts DEF Place, Busy
<1>18. ASSUME RaiseReady PROVE TypeOK'
  <2>1. First' \in Entry /\ Len(First'.inBuf) <= Capacity
    BY <1>18, RaiseReadyEffect, FlagFirst, TypeFacts
  <2>2. /\ clientList' \in [Slot -> Entry]
        /\ \A i \in Slot \ {0} : clientList'[i] = Unused
    BY <1>18, <2>1, RaiseReadyEffect, FirstReplaced
  <2>3. First.ready \in 0..Capacity
    BY SteadyFacts, EntryFacts
  <2>4. [At("call", 0) EXCEPT !.size = First.ready] \in Listener
    BY <2>3, SizedType, AtType, TypeFacts DEF Place, Busy
  <2>5. At("analysing", 1) \in Listener
    BY AtType, TypeFacts DEF Place
  <2>6. QED
    BY <1>2, <1>18, <2>1, <2>2, <2>4, <2>5, RaiseReadyEffect
<1>19. ASSUME Call PROVE TypeOK'
  <2>1. listener.called + PackageSize \in Nat
    BY TypeFacts, SizeFacts DEF Listener
  <2>2. listener' \in Listener
    BY <1>19, <2>1, CallEffect, TypeFacts DEF Listener
  <2>3. First \in Entry /\ First.Id \in Client /\ listener.called \in Nat
    BY <1>19, CallEffect, SteadyFacts, TypeFacts DEF Listener
  <2>4. Whole(listener.called) /\ listener.called + PackageSize <= Capacity
    BY <1>19, CallEffect DEF CallWithin
  <2>5. delivered' = [delivered EXCEPT ![First.Id] =
                        Append(@, PackageAt(First, listener.called))]
    BY <1>19, <2>3, <2>4, CallEffect, ReadyPackageAt
  <2>6. PackageAt(First, listener.called) \in [1..PackageSize -> AnyByte]
    BY <2>3, <2>4, PackageAtType
  <2>7. delivered' \in [Client -> Seq([1..PackageSize -> AnyByte])]
    BY <2>3, <2>5, <2>6, AppendPackage
  <2>8. QED
    BY <1>19, <2>2, <2>7, CallEffect, SteadyFacts, TypeFacts, TypeFrom DEF First
<1>20. ASSUME Called PROVE TypeOK'
  <2>0. First \in Entry
    BY SteadyFacts
  <2>1. Len(First'.inBuf) <= Capacity
    BY <1>20, <2>0, CalledEffect, EmptiedEntry, TypeFacts
  <2>2. /\ clientList' \in [Slot -> Entry]
        /\ \A i \in Slot \ {0} : clientList'[i] = Unused
    BY <1>20, <2>0, CalledEffect, EmptiedEntry, FirstReplaced
  <2>3. QED
    BY <1>2, <1>20, <2>1, <2>2, CalledEffect, PlacesType
<1>21. ASSUME InitRx PROVE TypeOK'
  <2>1. listener' \in Listener /\ destroyed' \in BOOLEAN
    BY <1>21, PlacesType, TypeFacts DEF InitRx
  <2>2. QED
    BY <1>4, <1>21, <2>1, TypeFacts DEF InitRx
<1>22. ASSUME InitRxAgain PROVE TypeOK'
  BY <1>4, <1>22, TypeFacts DEF InitRxAgain, Return
<1>23. ASSUME NEW i \in Slot, RxCopy(i) PROVE TypeOK'
  <2>1. First.ready \in 0..Capacity /\ 0 \in Slot
    BY SteadyFacts, EntryFacts, SizeFacts
  <2>2. delivered' \in [Client -> Seq([1..PackageSize -> AnyByte])]
    BY <1>23, RxCopyEffect, CopiedPackage, AppendPackage
  <2>3. app' \in [at : {"out", "copied", "cleared", "free", "clear", "forget"},
                  slot : Slot, size : 0..Capacity]
    BY <1>23, <2>1, RxCopyEffect
  <2>4. QED
    BY <1>23, <2>2, <2>3, RxCopyEffect, SteadyFacts, TypeFacts, TypeFrom DEF First
<1>24. ASSUME RxShift PROVE TypeOK'
  <2>1. Len(First'.inBuf) <= Capacity
    BY <1>24, RxShiftEffect, ShiftedEntry, SteadyFacts, TypeFacts
  <2>2. /\ clientList' \in [Slot -> Entry]
        /\ \A i \in Slot \ {0} : clientList'[i] = Unused
    BY <1>24, RxShiftEffect, ShiftedEntry, SteadyFacts, FirstReplaced
  <2>3. QED
    BY <1>3, <1>24, <2>1, <2>2, RxShiftEffect, TypeFacts
<1>25. ASSUME RxClearFlag PROVE TypeOK'
  <2>1. First' \in Entry /\ Len(First'.inBuf) <= Capacity
    BY <1>25, RxClearFlagEffect, FlagFirst, TypeFacts
  <2>2. /\ clientList' \in [Slot -> Entry]
        /\ \A i \in Slot \ {0} : clientList'[i] = Unused
    BY <1>25, <2>1, RxClearFlagEffect, FirstReplaced
  <2>3. app' \in [at : {"out", "copied", "cleared", "free", "clear", "forget"},
                  slot : Slot, size : 0..Capacity]
    BY <1>25, RxClearFlagEffect, TypeFacts
  <2>4. QED
    BY <1>3, <1>25, <2>1, <2>2, <2>3, RxClearFlagEffect
<1>26. ASSUME RxResetReady PROVE TypeOK'
  <2>1. First' \in Entry /\ Len(First'.inBuf) <= Capacity
    BY <1>26, RxResetReadyEffect, ResetFirst, TypeFacts
  <2>2. /\ clientList' \in [Slot -> Entry]
        /\ \A i \in Slot \ {0} : clientList'[i] = Unused
    BY <1>26, <2>1, RxResetReadyEffect, FirstReplaced
  <2>3. QED
    BY <1>3, <1>26, <2>1, <2>2, RxResetReadyEffect, TypeFacts
<1>27. ASSUME DestroyRx PROVE TypeOK'
  <2>1. app' \in [at : {"out", "copied", "cleared", "free", "clear", "forget"},
                  slot : Slot, size : 0..Capacity]
    BY <1>27, TypeFacts DEF DestroyRx, Return, Outside
  <2>2. QED
    BY <1>4, <1>27, <2>1, TypeFacts DEF DestroyRx, Return
<1>28. ASSUME DestroyBuffers PROVE TypeOK'
  <2>1. First' = First \/ First' = [First EXCEPT !.freed = TRUE]
    BY <1>28, DestroyBuffersEffect
  <2>2. Len(First'.inBuf) <= Capacity
    BY <2>1, TypeFacts, SteadyFacts DEF Entry
  <2>3. app' \in [at : {"out", "copied", "cleared", "free", "clear", "forget"},
                  slot : Slot, size : 0..Capacity]
    BY <1>28, DestroyBuffersEffect, TypeFacts
  <2>4. QED
    BY <1>3, <1>28, <2>2, <2>3, DestroyBuffersEffect
<1>29. ASSUME DestroyEntry PROVE TypeOK'
  <2>1. Len(First'.inBuf) <= Capacity
    BY <1>29, DestroyEntryEffect, UnusedEntry, SizeFacts, TypeFacts
  <2>2. app' \in [at : {"out", "copied", "cleared", "free", "clear", "forget"},
                  slot : Slot, size : 0..Capacity]
    BY <1>29, DestroyEntryEffect
  <2>3. QED
    BY <1>3, <1>29, <2>1, <2>2, DestroyEntryEffect
<1>30. ASSUME DestroySocket PROVE TypeOK'
  BY <1>4, <1>30, TypeFacts DEF DestroySocket, Return
<1>31. ASSUME NEW c \in Client, SendByte(c) PROVE TypeOK'
  <2>1. sent' \in [Client -> 0..MaxBytes] /\ wire' \in [Client -> Seq(AnyByte)]
    BY <1>31, SentByte
  <2>2. QED
    BY <1>31, <2>1, SteadyFacts, TypeFacts, TypeFrom DEF SendByte, First
<1>32. QED
  BY <1>5, <1>6, <1>7, <1>8, <1>9, <1>10, <1>11, <1>12, <1>13, <1>14, <1>15, <1>16,
     <1>17, <1>18, <1>19, <1>20, <1>21, <1>22, <1>23, <1>24, <1>25, <1>26, <1>27,
     <1>28, <1>29, <1>30, <1>31
     DEF Next, RxListen, Rx, Destroying

LEMMA ListenerIdle ==
  ASSUME NEW place \in {"accept", "receiving", "analysing"}, NEW i,
         listener' = At(place, i)
  PROVE  ListenerInv' /\ listener'.at # "fill"
  BY DEF ListenerInv, At, Busy, Moving

LEMMA ListenerKeeps ==
  ASSUME Steady, UNCHANGED <<listener, callback, connected>>,
         First'.Id = First.Id, First'.freed = First.freed,
         First'.inBuf = First.inBuf,
         listener.at \in Moving \cup {"announce", "raise"} => ~First'.ReadyFlag,
         listener.at = "load" => First'.ready + listener.size <= Capacity
  PROVE  ListenerInv'
  BY DEF Steady, ListenerInv

LEMMA FetchKeeps ==
  ASSUME Steady, UNCHANGED <<app, callback>>, listener'.at # "fill",
         First'.Id = First.Id,
         app.at = "copied" => First'.ReadyFlag /\ First'.ready = First.ready
  PROVE  FetchInv'
  BY DEF Steady, FetchInv

LEMMA FetchNot ==
  ASSUME app'.at \notin Fetching
  PROVE  FetchInv'
  BY DEF FetchInv, Fetching

LEMMA ListenerInductive ==
  ASSUME Steady, Next, Running'
  PROVE  ListenerInv' /\ FetchInv'
<1> DEFINE Inv == ListenerInv' /\ FetchInv'
<1>a. /\ First.ReadyFlag =>
           listener.at \notin Moving \cup {"announce", "raise"}
      /\ app.at = "copied" => First.ReadyFlag
      /\ app.at \in Fetching => ~callback
      /\ First \in Entry
  BY SteadyFacts DEF Steady, ListenerInv, FetchInv
<1>b. ASSUME UNCHANGED <<listener, app, callback, connected, clientList>>
      PROVE  Inv
  BY <1>b DEF Steady, ListenerInv, FetchInv, First
<1>1. ASSUME NEW c \in Client, Accept(c) PROVE Inv
  <2>1. /\ listener.at = "accept" /\ c \notin connected
        /\ listener' = [listener EXCEPT !.at = "accepted", !.peer = c]
        /\ connected' = connected \cup {c} /\ UNCHANGED <<clientList, app, callback>>
    BY <1>1 DEF Accept, Listen, Goto
  <2>2. listener'.at = "accepted" /\ listener'.peer = c /\ listener'.called = 0
    BY <2>1, TypeFacts DEF Steady, ListenerInv, Listener
  <2>3. First' = First /\ First.Id # c
    BY <2>1, SizeFacts DEF First, Steady, ListInv
  <2>4. ListenerInv'
    BY <2>1, <2>2, <2>3 DEF ListenerInv, Busy, Moving
  <2>5. QED
    BY <2>1, <2>2, <2>3, <2>4, <1>a, FetchKeeps
<1>2. ASSUME AcceptNothing PROVE Inv
  <2>1. listener' = At("receiving", 0) /\ First' = First /\ UNCHANGED <<app, callback>>
    BY <1>2 DEF AcceptNothing, Goto, First
  <2>2. QED
    BY <2>1, <1>a, ListenerIdle, FetchKeeps
<1>3. ASSUME FindEntry PROVE Inv
  <2>1. /\ listener.at = "accepted" /\ app'.at \notin Fetching /\ First' = First
        /\ listener' = [listener EXCEPT !.at = "fill", !.slot = 0]
        /\ UNCHANGED <<callback, connected>>
    BY <1>3, FindEntryEffect DEF First
  <2>2. /\ listener'.at = "fill" /\ listener'.slot = 0
        /\ listener'.peer = listener.peer /\ listener'.called = 0
    BY <2>1, TypeFacts DEF Steady, ListenerInv, Listener
  <2>3. listener.peer \in connected /\ listener.peer # First.Id
    BY <2>1 DEF Steady, ListenerInv
  <2>4. ListenerInv'
    BY <2>1, <2>2, <2>3 DEF ListenerInv, Busy, Moving
  <2>5. QED
    BY <2>1, <2>4, FetchNot
<1>4. ASSUME FillEntry PROVE Inv
  <2>1. /\ listener.at = "fill" /\ listener' = At("receiving", 0)
        /\ UNCHANGED <<app, callback>>
    BY <1>4, FillEntryEffect
  <2>2. app'.at \notin Fetching
    BY <2>1, FetchFacts
  <2>3. QED
    BY <2>1, <2>2, ListenerIdle, FetchNot
<1>5. ASSUME NEW i \in Slot, TestRaw(i) PROVE Inv
  <2>1. /\ listener' = At("receive", 0) /\ First.Id \in Client /\ ~First.freed
        /\ First' = First /\ UNCHANGED <<app, callback, connected>>
    BY <1>5, TestRawEffect DEF First
  <2>2. ListenerInv'
    BY <2>1, SizeFacts DEF ListenerInv, At, Busy, Moving
  <2>3. listener'.at # "fill"
    BY <2>1 DEF At
  <2>4. QED
    BY <2>1, <2>2, <2>3, <1>a, FetchKeeps
<1>6. ASSUME RawTested PROVE Inv
  <2>1. listener' = At("analysing", 0) /\ First' = First /\ UNCHANGED <<app, callback>>
    BY <1>6 DEF RawTested, Goto, First
  <2>2. QED
    BY <2>1, <1>a, ListenerIdle, FetchKeeps
<1>7. ASSUME Receive PROVE Inv
  <2>1. /\ First.Id \in Client /\ listener' = At("receiving", 1)
        /\ UNCHANGED <<app, callback>>
    BY <1>7, ReceiveEffect
  <2>2. /\ First'.Id = First.Id /\ First'.ReadyFlag = First.ReadyFlag
        /\ First'.ready = First.ready
    BY <1>7, <2>1, ReceivedFirst
  <2>3. QED
    BY <2>1, <2>2, <1>a, ListenerIdle, FetchKeeps
<1>8. ASSUME NEW i \in Slot, TestReady(i) PROVE Inv
  <2>1. /\ First.Id \in Client /\ ~First.freed /\ ~First.ReadyFlag
        /\ PackSize(First) \in 0..Len(First.inBuf) /\ Whole(PackSize(First))
        /\ listener' = [At(IF PackSize(First) = 0 THEN "announce" ELSE "copy", 0)
                          EXCEPT !.size = PackSize(First)]
        /\ First' = First /\ UNCHANGED <<app, callback, connected>>
    BY <1>8, TestReadyEffect DEF First
  <2>2. /\ listener'.at = IF PackSize(First) = 0 THEN "announce" ELSE "copy"
        /\ listener'.slot = 0 /\ listener'.peer = NoClient /\ listener'.called = 0
        /\ listener'.size = PackSize(First)
    BY <2>1 DEF At
  <2>3. listener'.at = "copy" => listener'.size \in 1..Len(First.inBuf)
    <3>1. Len(First.inBuf) \in Nat
      BY <1>a, EntryFacts
    <3>2. QED
      BY <2>1, <2>2, <3>1
  <2>4. ListenerInv'
    BY <2>1, <2>2, <2>3, SizeFacts DEF ListenerInv, Busy, Moving, Whole
  <2>5. QED
    BY <2>1, <2>2, <2>4, <1>a, FetchKeeps
<1>9. ASSUME ReadyTested PROVE Inv
  <2>1. listener' = At("accept", 0) /\ First' = First /\ UNCHANGED <<app, callback>>
    BY <1>9 DEF ReadyTested, Goto, First
  <2>2. QED
    BY <2>1, <1>a, ListenerIdle, FetchKeeps
<1>10. ASSUME CopyPackages PROVE Inv
  <2>1. /\ listener.at = "copy" /\ First.ready + listener.size <= Capacity
        /\ listener' = [listener EXCEPT !.at = "load"]
        /\ UNCHANGED <<app, callback, connected>>
    BY <1>10, CopyPackagesEffect
  <2>2. /\ listener'.at = "load" /\ listener'.slot = listener.slot
        /\ listener'.peer = listener.peer /\ listener'.size = listener.size
        /\ listener'.called = listener.called
    BY <2>1, TypeFacts DEF Listener
  <2>3. /\ First'.Id = First.Id /\ First'.ReadyFlag = First.ReadyFlag
        /\ First'.freed = First.freed /\ First'.inBuf = First.inBuf
        /\ First'.ready = First.ready
    BY <1>10, CopiedFirst
  <2>4. ListenerInv'
    BY <2>1, <2>2, <2>3 DEF Steady, ListenerInv, Busy, Moving, Whole
  <2>5. QED
    BY <2>1, <2>2, <2>3, <2>4, <1>a, FetchKeeps
<1>11. ASSUME LoadReady PROVE Inv
  <2>1. /\ listener.at = "load" /\ First' = First
        /\ listener' = [listener EXCEPT !.at = "store", !.loaded = First.ready]
        /\ UNCHANGED <<app, callback, connected>>
    BY <1>11, LoadReadyEffect DEF First
  <2>2. /\ listener'.at = "store" /\ listener'.slot = listener.slot
        /\ listener'.peer = listener.peer /\ listener'.size = listener.size
        /\ listener'.called = listener.called /\ listener'.loaded = First.ready
    BY <2>1, TypeFacts DEF Listener
  <2>3. ListenerInv'
    BY <2>1, <2>2 DEF Steady, ListenerInv, Busy, Moving, Whole
  <2>4. QED
    BY <2>1, <2>2, <2>3, <1>a, FetchKeeps
<1>12. ASSUME StoreReady PROVE Inv
  <2>1. /\ listener.at = "store" /\ First.Id \in Client
        /\ listener' = At("announce", 0)
        /\ First'.Id = First.Id /\ First'.ReadyFlag = First.ReadyFlag
        /\ First'.freed = First.freed
        /\ UNCHANGED <<app, callback, connected>>
    BY <1>12, StoreReadyEffect
  <2>2. ~First.ReadyFlag /\ ~First.freed /\ app.at # "copied"
    BY <2>1, <1>a DEF Steady, ListenerInv, Moving, Busy
  <2>3. ListenerInv'
    BY <2>1, <2>2, SizeFacts DEF ListenerInv, At, Busy, Moving
  <2>4. listener'.at # "fill"
    BY <2>1 DEF At
  <2>5. QED
    BY <2>1, <2>2, <2>3, <2>4, FetchKeeps
<1>13. ASSUME Announce PROVE Inv
  <2>1. /\ listener.at = "announce" /\ First.Id \in Client /\ First' = First
        /\ listener' = IF First.ready > 0 THEN At("raise", 0) ELSE At("analysing", 1)
        /\ UNCHANGED <<app, callback, connected>>
    BY <1>13, AnnounceEffect DEF First
  <2>2. ~First.ReadyFlag /\ ~First.freed
    BY <2>1 DEF Steady, ListenerInv, Busy
  <2>3. ListenerInv' /\ listener'.at # "fill"
    <3>1. CASE First.ready > 0
      <4>1. listener' = At("raise", 0)
        BY <2>1, <3>1
      <4>2. QED
        BY <2>1, <2>2, <4>1, SizeFacts DEF ListenerInv, At, Busy, Moving
    <3>2. CASE ~(First.ready > 0)
      BY <2>1, <3>2, ListenerIdle
    <3>3. QED
      BY <3>1, <3>2
  <2>4. QED
    BY <2>1, <2>3, <1>a, FetchKeeps
<1>14. ASSUME RaiseReady PROVE Inv
  <2>1. /\ listener.at = "raise" /\ First.Id \in Client
        /\ listener' = IF callback THEN [At("call", 0) EXCEPT !.size = First.ready]
                       ELSE At("analysing", 1)
        /\ UNCHANGED <<app, callback, connected>>
    BY <1>14, RaiseReadyEffect
  <2>2. First'.Id = First.Id /\ First'.freed = First.freed
    BY <1>14, RaiseReadyEffect, FlagFirst
  <2>3. app.at # "copied" /\ ~First.freed
    BY <2>1, <1>a DEF Steady, ListenerInv, Busy
  <2>4. ListenerInv' /\ listener'.at # "fill"
    <3>1. CASE callback
      <4>1. /\ listener'.at = "call" /\ listener'.slot = 0
            /\ listener'.peer = NoClient
        BY <2>1, <3>1 DEF At
      <4>2. QED
        BY <2>1, <2>2, <2>3, <3>1, <4>1, SizeFacts DEF ListenerInv, Busy, Moving
    <3>2. CASE ~callback
      BY <2>1, <3>2, ListenerIdle
    <3>3. QED
      BY <3>1, <3>2
  <2>5. QED
    BY <2>1, <2>2, <2>3, <2>4, FetchKeeps
<1>15. ASSUME Call PROVE Inv
  <2>1. /\ listener.at = "call" /\ First' = First
        /\ listener' = [listener EXCEPT !.called = listener.called + PackageSize]
        /\ UNCHANGED <<app, callback, connected>>
    BY <1>15, CallEffect DEF First
  <2>2. /\ listener'.at = "call" /\ listener'.slot = listener.slot
        /\ listener'.peer = listener.peer
    BY <2>1, TypeFacts DEF Listener
  <2>3. ListenerInv'
    BY <2>1, <2>2 DEF Steady, ListenerInv, Busy, Moving
  <2>4. QED
    BY <2>1, <2>2, <2>3, <1>a, FetchKeeps
<1>16. ASSUME Called PROVE Inv
  <2>1. /\ listener.at = "call" /\ listener' = At("analysing", 1)
        /\ UNCHANGED <<app, callback>>
    BY <1>16, CalledEffect
  <2>2. app'.at \notin Fetching
    BY <2>1, <1>a DEF Steady, ListenerInv
  <2>3. QED
    BY <2>1, <2>2, ListenerIdle, FetchNot
<1>17. ASSUME InitRx PROVE Inv
  <2>1. app'.at = "out"
    BY <1>17 DEF InitRx, Apply
  <2>2. FetchInv'
    BY <2>1, FetchNot DEF Fetching
  <2>3. CASE UNCHANGED listener
    BY <1>17, <2>3, <1>b DEF InitRx
  <2>4. CASE listener' = At("accept", 0)
    BY <2>2, <2>4, ListenerIdle
  <2>5. QED
    BY <1>17, <2>3, <2>4 DEF InitRx
<1>18. ASSUME InitRxAgain PROVE Inv
  BY <1>18, <1>b DEF InitRxAgain, Return
<1>19. ASSUME NEW i \in Slot, RxCopy(i) PROVE Inv
  <2>1. /\ ~callback /\ First.Id \in Client /\ First.ReadyFlag /\ listener.at # "fill"
        /\ app' = [at |-> "copied", slot |-> 0, size |-> First.ready]
        /\ First' = First /\ UNCHANGED <<listener, callback, connected>>
    BY <1>19, RxCopyEffect DEF First
  <2>2. ListenerInv'
    BY <2>1 DEF Steady, ListenerInv
  <2>3. FetchInv'
    BY <2>1, SizeFacts DEF FetchInv
  <2>4. QED
    BY <2>2, <2>3
<1>20. ASSUME RxShift PROVE Inv
  <2>1. /\ app.at = "copied" /\ app' = Outside /\ First.ready > PackageSize
        /\ First' = Shifted(First, First.ready - PackageSize)
        /\ UNCHANGED <<listener, callback, connected>>
    BY <1>20, RxShiftEffect
  <2>2. /\ First'.Id = First.Id /\ First'.freed = First.freed
        /\ First'.inBuf = First.inBuf
    BY <2>1, <1>a, ShiftedEntry
  <2>3. listener.at \notin Moving \cup {"announce", "raise"}
    BY <2>1, <1>a
  <2>4. ListenerInv'
    BY <2>1, <2>2, <2>3, ListenerKeeps DEF Moving
  <2>5. QED
    BY <2>1, <2>4, FetchNot DEF Outside, Fetching
<1>21. ASSUME RxClearFlag PROVE Inv
  <2>1. /\ app.at = "copied" /\ app' = [app EXCEPT !.at = "cleared"]
        /\ First' = [First EXCEPT !.ReadyFlag = FALSE]
        /\ UNCHANGED <<listener, callback, connected>>
    BY <1>21, RxClearFlagEffect
  <2>2. /\ First'.Id = First.Id /\ First'.freed = First.freed
        /\ First'.inBuf = First.inBuf
    BY <2>1, FlagFirst
  <2>3. listener.at \notin Moving \cup {"announce", "raise"}
    BY <2>1, <1>a
  <2>4. ListenerInv'
    BY <2>1, <2>2, <2>3, ListenerKeeps DEF Moving
  <2>5. app'.at = "cleared" /\ app'.slot = app.slot
    BY <2>1, TypeFacts
  <2>6. FetchInv'
    BY <2>1, <2>2, <2>5, FetchFacts, SizeFacts DEF FetchInv, Fetching
  <2>7. QED
    BY <2>4, <2>6
<1>22. ASSUME RxResetReady PROVE Inv
  <2>1. /\ app' = Outside /\ First' = [First EXCEPT !.ready = 0]
        /\ UNCHANGED <<listener, callback, connected>>
    BY <1>22, RxResetReadyEffect
  <2>2. /\ First'.Id = First.Id /\ First'.freed = First.freed
        /\ First'.inBuf = First.inBuf /\ First'.ready = 0
        /\ First'.ReadyFlag = First.ReadyFlag
    BY <2>1, ResetFirst
  <2>3. 0 + listener.size <= Capacity
    BY TypeFacts, SizeFacts DEF Listener
  <2>4. ListenerInv'
    BY <2>1, <2>2, <2>3, <1>a, ListenerKeeps
  <2>5. QED
    BY <2>1, <2>4, FetchNot DEF Outside, Fetching
<1>23. ASSUME DestroyRx PROVE Inv
  <2>1. /\ app'.at = "free" /\ First' = First
        /\ UNCHANGED <<listener, callback, connected>>
    BY <1>23 DEF DestroyRx, Return, Outside, First
  <2>2. ListenerInv'
    BY <2>1 DEF Steady, ListenerInv
  <2>3. QED
    BY <2>1, <2>2, FetchNot DEF Fetching
<1>24. ASSUME DestroyBuffers PROVE Inv
  <2>1. /\ app.at = "free" /\ app' = [app EXCEPT !.at = "clear"]
        /\ UNCHANGED <<listener, callback, connected>>
        /\ First' = First
           \/ (First' = [First EXCEPT !.freed = TRUE] /\ listener.at \notin Busy)
    BY <1>24, DestroyBuffersEffect
  <2>2. app'.at = "clear"
    BY <2>1, TypeFacts
  <2>3. First'.Id = First.Id
    BY <2>1, <1>a DEF Entry
  <2>4. ListenerInv'
    BY <2>1, <2>3 DEF Steady, ListenerInv, Busy, Moving
  <2>5. QED
    BY <2>2, <2>4, FetchNot DEF Fetching
<1>25. ASSUME DestroyEntry PROVE Inv
  <2>1. /\ app'.at \in {"free", "forget"}
        /\ First' = First \/ (First' = Unused /\ listener.at \notin Busy)
        /\ UNCHANGED <<listener, callback, connected>>
    BY <1>25, DestroyEntryEffect
  <2>2. ListenerInv'
    <3>1. CASE First' = First
      BY <2>1, <3>1 DEF Steady, ListenerInv
    <3>2. CASE First' = Unused /\ listener.at \notin Busy
      <4>1. listener.peer \in connected => listener.peer # NoClient
        BY TypeFacts, SizeFacts
      <4>2. QED
        BY <2>1, <3>2, <4>1, UnusedEntry DEF Steady, ListenerInv, Busy, Moving
    <3>3. QED
      BY <2>1, <3>1, <3>2
  <2>3. QED
    BY <2>1, <2>2, FetchNot DEF Fetching
<1>26. ASSUME DestroySocket PROVE Inv
  <2>1. app'.at = "out" /\ First' = First /\ UNCHANGED <<listener, callback, connected>>
    BY <1>26 DEF DestroySocket, Return, Outside, First
  <2>2. ListenerInv'
    BY <2>1 DEF Steady, ListenerInv
  <2>3. QED
    BY <2>1, <2>2, FetchNot DEF Fetching
<1>27. ASSUME NEW c \in Client, SendByte(c) PROVE Inv
  BY <1>27, <1>b DEF SendByte
<1>28. QED
  BY <1>1, <1>2, <1>3, <1>4, <1>5, <1>6, <1>7, <1>8, <1>9, <1>10, <1>11, <1>12,
     <1>13, <1>14, <1>15, <1>16, <1>17, <1>18, <1>19, <1>20, <1>21, <1>22, <1>23,
     <1>24, <1>25, <1>26, <1>27
     DEF Next, RxListen, Rx, Destroying

-----------------------------------------------------------------------------
(* Most steps change nothing of what the remaining invariants are about.      *)

\* Where RxListen is not about to change the ready buffer.
Still == {"none", "accept", "accepted", "fill", "receiving", "receive", "analysing"}

SameFirst ==
  /\ First'.Id = First.Id /\ First'.ReadyFlag = First.ReadyFlag
  /\ First'.inBuf = First.inBuf
  /\ First'.readyBuf = First.readyBuf /\ First'.ready = First.ready

\* No peer becomes one that is not listed yet.
NoneNew ==
  /\ connected \subseteq connected'
  /\ \A c \in Client : c \notin connected' \/ listener'.peer = c =>
       c \notin connected \/ listener.peer = c

NeutralStep ==
  /\ UNCHANGED <<callback, sent, wire, delivered>>
  /\ SameFirst /\ NoneNew
  /\ \/ UNCHANGED listener
     \/ listener.at \in Still /\ listener'.at \in Still \cup {"copy", "announce"}
  /\ app'.at = app.at \/ app'.at \notin Fetching

ClearingStep ==
  /\ UNCHANGED <<callback, sent, wire, delivered, listener, connected>>
  /\ listener.at \in Still /\ First' = Unused
  /\ app'.at \notin Fetching

LEMMA StepKinds ==
  ASSUME Steady, Next, Running'
  PROVE  \/ NeutralStep \/ ClearingStep
         \/ FillEntry \/ Receive \/ CopyPackages \/ LoadReady \/ StoreReady
         \/ Announce \/ RaiseReady \/ Call \/ Called
         \/ (\E i \in Slot : RxCopy(i)) \/ RxShift \/ RxClearFlag \/ RxResetReady
         \/ (\E c \in Client : SendByte(c))
<1>1. ASSUME UNCHANGED <<callback, sent, wire, delivered, clientList, connected, app>>,
             listener'.peer \in {listener.peer, NoClient},
             listener.at \in Still,
             listener'.at \in Still \cup {"copy", "announce"}
      PROVE  NeutralStep
  BY <1>1, SizeFacts DEF NeutralStep, SameFirst, NoneNew, First
<1>2. ASSUME UNCHANGED <<callback, sent, wire, delivered, clientList, connected, listener>>,
             app'.at = app.at \/ app'.at \notin Fetching
      PROVE  NeutralStep
  BY <1>2 DEF NeutralStep, SameFirst, NoneNew, First
<1>3. ASSUME NEW c \in Client, Accept(c) PROVE NeutralStep
  <2>1. /\ listener.at = "accept" /\ c \notin connected
        /\ listener' = [listener EXCEPT !.at = "accepted", !.peer = c]
        /\ connected' = connected \cup {c}
        /\ UNCHANGED <<clientList, app, callback, sent, wire, delivered>>
    BY <1>3 DEF Accept, Listen, Goto, peerVars
  <2>2. listener'.at = "accepted" /\ listener'.peer = c
    BY <2>1, TypeFacts DEF Listener
  <2>3. QED
    BY <2>1, <2>2 DEF NeutralStep, SameFirst, NoneNew, First, Still
<1>4. ASSUME AcceptNothing PROVE NeutralStep
  BY <1>1, <1>4 DEF AcceptNothing, Listen, Goto, At, Still, peerVars
<1>5. ASSUME FindEntry PROVE NeutralStep
  <2>1. /\ listener.at = "accepted"
        /\ listener' = [listener EXCEPT !.at = "fill", !.slot = 0]
        /\ UNCHANGED <<callback, sent, wire, delivered, clientList, connected, app>>
    BY <1>5, FindEntryEffect DEF peerVars
  <2>2. listener'.at = "fill" /\ listener'.peer = listener.peer
    BY <2>1, TypeFacts DEF Listener
  <2>3. QED
    BY <1>1, <2>1, <2>2 DEF Still
<1>6. ASSUME NEW i \in Slot, TestRaw(i) PROVE NeutralStep
  BY <1>1, <1>6, TestRawEffect DEF At, Still, peerVars
<1>7. ASSUME RawTested PROVE NeutralStep
  BY <1>1, <1>7 DEF RawTested, Listen, Goto, At, Still, peerVars
<1>8. ASSUME NEW i \in Slot, TestReady(i) PROVE NeutralStep
  <2>1. /\ listener.at = "analysing"
        /\ listener' = [At(IF PackSize(First) = 0 THEN "announce" ELSE "copy", 0)
                          EXCEPT !.size = PackSize(First)]
        /\ UNCHANGED <<callback, sent, wire, delivered, clientList, connected, app>>
    BY <1>8, TestReadyEffect DEF peerVars
  <2>2. listener'.at \in {"copy", "announce"} /\ listener'.peer = NoClient
    BY <2>1 DEF At
  <2>3. QED
    BY <1>1, <2>1, <2>2 DEF Still
<1>9. ASSUME ReadyTested PROVE NeutralStep
  BY <1>1, <1>9 DEF ReadyTested, Listen, Goto, At, Still, peerVars
<1>10. ASSUME InitRx PROVE NeutralStep
  <2>1. CASE UNCHANGED listener
    BY <1>2, <1>10, <2>1 DEF InitRx, peerVars
  <2>2. CASE listener' = At("accept", 0)
    BY <1>1, <1>10, <2>2 DEF InitRx, At, Still, peerVars
  <2>3. QED
    BY <1>10, <2>1, <2>2 DEF InitRx
<1>11. ASSUME InitRxAgain PROVE NeutralStep
  BY <1>2, <1>11 DEF InitRxAgain, Return, peerVars
<1>12. ASSUME DestroyRx PROVE NeutralStep
  BY <1>2, <1>12 DEF DestroyRx, Return, Outside, Fetching, peerVars
<1>13. ASSUME DestroyBuffers PROVE NeutralStep
  <2>1. /\ app.at = "free" /\ app' = [app EXCEPT !.at = "clear"]
        /\ First' = First \/ First' = [First EXCEPT !.freed = TRUE]
        /\ UNCHANGED <<callback, sent, wire, delivered, connected, listener>>
    BY <1>13, DestroyBuffersEffect DEF peerVars
  <2>2. SameFirst
    BY <2>1, SteadyFacts DEF Entry, SameFirst
  <2>3. app'.at = "clear"
    BY <2>1, TypeFacts
  <2>4. QED
    BY <2>1, <2>2, <2>3 DEF NeutralStep, NoneNew, Fetching
<1>14. ASSUME DestroyEntry PROVE NeutralStep \/ ClearingStep
  <2>1. /\ app'.at \in {"free", "forget"}
        /\ First' = First \/ (First' = Unused /\ listener.at \notin Busy)
        /\ UNCHANGED <<callback, sent, wire, delivered, connected, listener>>
    BY <1>14, DestroyEntryEffect DEF peerVars
  <2>2. listener.at \notin Busy => listener.at \in Still
    BY TypeFacts DEF Listener, Place, Still
  <2>3. QED
    BY <2>1, <2>2 DEF NeutralStep, SameFirst, NoneNew, ClearingStep, Fetching
<1>15. ASSUME DestroySocket PROVE NeutralStep
  BY <1>2, <1>15 DEF DestroySocket, Return, Outside, Fetching, peerVars
<1>16. QED
  BY <1>3, <1>4, <1>5, <1>6, <1>7, <1>8, <1>9, <1>10, <1>11, <1>12, <1>13, <1>14,
     <1>15
     DEF Next, RxListen, Rx, Destroying

-----------------------------------------------------------------------------
(* The stream of a peer, from the input buffer on.                         *)

LEMMA StreamTypes ==
  ASSUME Steady, NEW c \in Client
  PROVE  /\ sent[c] \in Nat /\ sent[c] <= MaxBytes
         /\ wire[c] \in Seq(AnyByte) /\ Len(wire[c]) \in Nat
         /\ First.inBuf \in Seq(AnyByte) /\ Len(First.inBuf) \in Nat
         /\ First.ready \in Nat /\ MovedOf(c) \in Int
<1>1. /\ wire[c] \in Seq(AnyByte) /\ sent[c] \in 0..MaxBytes
      /\ First.inBuf \in Seq(AnyByte) /\ Len(First.inBuf) \in Nat
      /\ First.ready \in Nat
  BY SteadyFacts, EntryFacts, TypeFacts
<1>2. Len(wire[c]) \in Nat
  BY <1>1, LenProperties
<1>3. sent[c] \in Nat /\ sent[c] <= MaxBytes
  BY <1>1, SizeFacts
<1>4. MovedOf(c) \in Int
  BY <1>1, <1>2, <1>3 DEF MovedOf
<1>5. QED
  BY <1>1, <1>2, <1>3, <1>4

LEMMA MovedFacts ==
  ASSUME Steady, InputInv, NEW c \in Client, First.Id = c
  PROVE  /\ MovedOf(c) \in Nat /\ Whole(MovedOf(c)) /\ MovedOf(c) <= sent[c]
         /\ MovedOf(c) + Len(First.inBuf) + Len(wire[c]) = sent[c]
         /\ \A j \in 1..Len(First.inBuf) : First.inBuf[j] = Byte(c, MovedOf(c) + j)
<1>1. sent[c] \in Nat /\ Len(wire[c]) \in Nat /\ Len(First.inBuf) \in Nat
  BY StreamTypes
<1>2. PICK x \in Nat, y \in Nat, z \in Nat :
        x = sent[c] /\ y = Len(wire[c]) /\ z = Len(First.inBuf)
  BY <1>1
<1>3. /\ Len(First.inBuf) + Len(wire[c]) <= sent[c]
      /\ Whole(MovedOf(c))
      /\ \A j \in 1..Len(First.inBuf) : First.inBuf[j] = Byte(c, MovedOf(c) + j)
  BY DEF InputInv
<1>4. z + y <= x
  BY <1>2, <1>3
<1>5. x - y - z \in Nat /\ x - y - z <= x /\ (x - y - z) + z + y = x
  BY <1>4
<1>6. MovedOf(c) = x - y - z
  BY <1>2 DEF MovedOf
<1>7. QED
  BY <1>2, <1>3, <1>5, <1>6

LEMMA WireKeeps ==
  ASSUME WireInv, UNCHANGED <<sent, wire>>, NoneNew,
         \A c \in Client : c \notin connected' \/ listener'.peer = c =>
           delivered'[c] = delivered[c]
  PROVE  WireInv'
  BY DEF WireInv, NoneNew

\* The listed peer is connected, and none other is about to be it.
LEMMA ListedOld ==
  ASSUME Steady, First.Id \in Client
  PROVE  First.Id \in connected /\ listener.peer # First.Id
  BY SizeFacts DEF Steady, ListInv, ListenerInv

LEMMA InputKeeps ==
  ASSUME InputInv, UNCHANGED <<sent, wire>>, First'.inBuf = First.inBuf,
         First'.Id = First.Id
  PROVE  /\ InputInv'
         /\ \A c \in Client : MovedOf(c)' = MovedOf(c)
<1>1. \A c \in Client : MovedOf(c)' = MovedOf(c)
  BY DEF MovedOf
<1>2. QED
  BY <1>1 DEF InputInv, Whole

LEMMA FillStream ==
  ASSUME Steady, WireInv, FillEntry
  PROVE  /\ InputInv'
         /\ \A c \in Client : First'.Id = c =>
              MovedOf(c)' = 0 /\ delivered'[c] = <<>>
<1>1. PICK c \in Client :
        /\ c = listener.peer
        /\ First' = Established(c) /\ UNCHANGED <<sent, wire, delivered>>
  BY FillEntryEffect DEF peerVars
<1>2. First'.Id = c /\ Len(First'.inBuf) = 0
  BY <1>1, EstablishedEntry
<1>3. sent[c] = 0 /\ wire[c] = <<>> /\ delivered[c] = <<>>
  BY <1>1 DEF WireInv
<1>4. sent'[c] = 0 /\ Len(wire'[c]) = 0 /\ delivered'[c] = <<>>
  BY <1>1, <1>3, UnusedEntry, Zenon
<1>5. MovedOf(c)' = 0
  <2>1. (0 - 0) - 0 = 0
    OBVIOUS
  <2>2. QED
    BY <1>2, <1>4, <2>1, Zenon DEF MovedOf
<1>6. Whole(MovedOf(c))'
  <2>1. Whole(MovedOf(c)')
    BY <1>5, WholeZero
  <2>2. QED
    BY <2>1 DEF Whole
<1>7. Len(First'.inBuf) + Len(wire'[c]) <= sent'[c]
  BY <1>2, <1>4
<1>8. \A j \in 1..Len(First'.inBuf) : First'.inBuf[j] = Byte(c, MovedOf(c)' + j)
  BY <1>2
<1>9. QED
  BY <1>2, <1>4, <1>5, <1>6, <1>7, <1>8 DEF InputInv

LEMMA ReceiveStream ==
  ASSUME Steady, WireInv, InputInv, Receive
  PROVE  /\ WireInv' /\ InputInv'
         /\ \A c \in Client : First.Id = c => MovedOf(c)' = MovedOf(c)
<1>1. UNCHANGED <<sent, connected, delivered>>
  BY ReceiveEffect
<1>2. listener'.peer = NoClient /\ First.Id \in Client
  BY ReceiveEffect DEF At
<1>3. PICK c \in Client : First.Id = c
  BY <1>2
<1>4. PICK n \in 0..Len(wire[c]) :
        /\ \A d \in Client : d # c => wire'[d] = wire[d]
        /\ Len(wire'[c]) = Len(wire[c]) - n
        /\ \A j \in 1..(Len(wire[c]) - n) : wire'[c][j] = wire[c][n + j]
        /\ First'.Id = c
        /\ Len(First'.inBuf) = Len(First.inBuf) + n
        /\ \A j \in 1..(Len(First.inBuf) + n) :
             First'.inBuf[j] = IF j <= Len(First.inBuf) THEN First.inBuf[j]
                               ELSE wire[c][j - Len(First.inBuf)]
  BY <1>3, ReceivedFirst, Zenon
<1>5. /\ sent[c] \in Nat /\ Len(wire[c]) \in Nat /\ n \in Nat
      /\ Len(First.inBuf) \in Nat /\ MovedOf(c) \in Int
      /\ c \in connected
  BY <1>3, StreamTypes, ListedOld
<1>6. /\ Len(wire[c]) <= sent[c]
      /\ \A j \in 1..Len(wire[c]) :
           wire[c][j] = Byte(c, sent[c] - Len(wire[c]) + j)
  BY DEF WireInv
<1>7. /\ Len(wire'[c]) <= sent[c]
      /\ \A j \in 1..Len(wire'[c]) :
           wire'[c][j] = Byte(c, sent[c] - Len(wire'[c]) + j)
  <2>1. ASSUME NEW j \in 1..Len(wire'[c])
        PROVE  wire'[c][j] = Byte(c, sent[c] - Len(wire'[c]) + j)
    <3>1. n + j \in 1..Len(wire[c]) /\ j \in 1..(Len(wire[c]) - n)
      BY <1>4, <1>5
    <3>2. sent[c] - Len(wire[c]) + (n + j) = sent[c] - Len(wire'[c]) + j
      BY <1>4, <1>5
    <3>3. QED
      BY <1>4, <1>6, <3>1, <3>2
  <2>2. QED
    BY <1>4, <1>5, <1>6, <2>1
<1>8. WireInv'
  <2>1. ASSUME NEW d \in Client
        PROVE  (d \in connected' /\ listener'.peer # d) \/ d # c
    BY <1>1, <1>2, <1>5, SizeFacts
  <2>2. ASSUME NEW d \in Client, d # c
        PROVE  /\ Len(wire'[d]) <= sent'[d]
               /\ \A j \in 1..Len(wire'[d]) :
                    wire'[d][j] = Byte(d, sent'[d] - Len(wire'[d]) + j)
               /\ d \notin connected' \/ listener'.peer = d =>
                    sent'[d] = 0 /\ wire'[d] = <<>> /\ delivered'[d] = <<>>
    <3>1. wire'[d] = wire[d] /\ sent'[d] = sent[d] /\ delivered'[d] = delivered[d]
      BY <1>1, <1>4, <2>2
    <3>2. listener'.peer # d
      BY <1>2, SizeFacts
    <3>3. QED
      BY <1>1, <3>1, <3>2 DEF WireInv
  <2>3. c \in connected' /\ listener'.peer # c
    BY <1>1, <1>2, <1>5, SizeFacts
  <2>4. QED
    BY <1>1, <1>7, <2>2, <2>3 DEF WireInv
<1>9. MovedOf(c)' = MovedOf(c)
  <2>1. PICK x \in Nat, y \in Nat, z \in Nat :
          x = sent[c] /\ y = Len(wire[c]) /\ z = Len(First.inBuf)
    BY <1>5
  <2>2. sent'[c] = x /\ Len(wire'[c]) = y - n /\ Len(First'.inBuf) = z + n
    BY <1>1, <1>4, <2>1, Zenon
  <2>3. x - (y - n) - (z + n) = x - y - z
    BY <1>5
  <2>4. QED
    BY <2>1, <2>2, <2>3, Zenon DEF MovedOf
<1>10. ASSUME NEW j \in 1..Len(First'.inBuf)
       PROVE  First'.inBuf[j] = Byte(c, MovedOf(c) + j)
  <2>1. CASE j <= Len(First.inBuf)
    BY <1>3, <1>4, <1>5, <2>1, MovedFacts
  <2>2. CASE j > Len(First.inBuf)
    <3>1. j - Len(First.inBuf) \in 1..Len(wire[c])
      BY <1>4, <1>5, <2>2
    <3>2. sent[c] - Len(wire[c]) + (j - Len(First.inBuf)) = MovedOf(c) + j
      <4>1. PICK x \in Int, y \in Int, z \in Int :
              x = sent[c] /\ y = Len(wire[c]) /\ z = Len(First.inBuf)
        BY <1>5
      <4>2. MovedOf(c) = x - y - z
        BY <4>1 DEF MovedOf
      <4>3. j \in Int /\ x - y + (j - z) = x - y - z + j
        OBVIOUS
      <4>4. QED
        BY <4>1, <4>2, <4>3, Zenon
    <3>3. First'.inBuf[j] = wire[c][j - Len(First.inBuf)]
      BY <1>4, <1>5, <2>2
    <3>4. wire[c][j - Len(First.inBuf)] =
            Byte(c, sent[c] - Len(wire[c]) + (j - Len(First.inBuf)))
      BY <1>6, <3>1
    <3>5. QED
      BY <3>2, <3>3, <3>4
  <2>3. QED
    BY <1>5, <2>1, <2>2
<1>11. Len(First'.inBuf) + Len(wire'[c]) <= sent[c]
  <2>1. Len(First.inBuf) + Len(wire[c]) <= sent[c]
    BY <1>3 DEF InputInv
  <2>2. PICK x \in Nat, y \in Nat, z \in Nat :
          x = sent[c] /\ y = Len(wire[c]) /\ z = Len(First.inBuf)
    BY <1>5
  <2>3. Len(wire'[c]) = y - n /\ Len(First'.inBuf) = z + n /\ z + y <= x
    BY <1>4, <2>1, <2>2
  <2>4. (z + n) + (y - n) = z + y
    BY <1>5
  <2>5. QED
    BY <2>2, <2>3, <2>4
<1>12. InputInv'
  <2>1. Whole(MovedOf(c)')
    BY <1>3, <1>9, MovedFacts
  <2>2. Whole(MovedOf(c))'
    BY <2>1 DEF Whole
  <2>3. Len(First'.inBuf) + Len(wire'[c]) <= sent'[c]
    BY <1>1, <1>11
  <2>4. \A j \in 1..Len(First'.inBuf) : First'.inBuf[j] = Byte(c, MovedOf(c)' + j)
    BY <1>9, <1>10
  <2>5. First'.Id = c
    BY <1>4
  <2>6. QED
    BY <2>2, <2>3, <2>4, <2>5 DEF InputInv
<1>13. QED
  BY <1>3, <1>8, <1>9, <1>12

LEMMA SendStream ==
  ASSUME Steady, WireInv, InputInv, NEW d \in Client, SendByte(d)
  PROVE  /\ WireInv' /\ InputInv' /\ First.Id = d
         /\ MovedOf(d)' = MovedOf(d)
<1>1. /\ UNCHANGED <<clientList, connected, listener, delivered>> /\ Listed(d)
  BY DEF SendByte
<1>2. First' = First /\ First.Id = d
  BY <1>1, SteadyFacts DEF First
<1>3. /\ sent'[d] = sent[d] + 1 /\ Len(wire'[d]) = Len(wire[d]) + 1
      /\ \A j \in 1..(Len(wire[d]) + 1) :
           wire'[d][j] = IF j <= Len(wire[d]) THEN wire[d][j]
                         ELSE Byte(d, sent[d] + 1)
      /\ \A c \in Client : c # d => sent'[c] = sent[c] /\ wire'[c] = wire[c]
      /\ sent[d] \in Nat /\ Len(wire[d]) \in Nat /\ Len(First.inBuf) \in Nat
  BY SentByte, StreamTypes
<1>4. ASSUME NEW j \in 1..Len(wire'[d])
      PROVE  wire'[d][j] = Byte(d, sent'[d] - Len(wire'[d]) + j)
  <2>1. sent'[d] - Len(wire'[d]) + j = sent[d] - Len(wire[d]) + j
    BY <1>3, SMTT(30)
  <2>2. CASE j <= Len(wire[d])
    <3>1. j \in 1..Len(wire[d]) /\ wire'[d][j] = wire[d][j]
      BY <1>3, <2>2
    <3>2. QED
      BY <2>1, <3>1 DEF WireInv
  <2>3. CASE j > Len(wire[d])
    <3>1. j = Len(wire[d]) + 1
      BY <1>3, <2>3
    <3>2. wire'[d][j] = Byte(d, sent[d] + 1)
      BY <1>3, <3>1
    <3>3. sent[d] - Len(wire[d]) + j = sent[d] + 1
      BY <1>3, <3>1
    <3>4. QED
      BY <2>1, <3>2, <3>3
  <2>4. QED
    BY <1>3, <2>2, <2>3
<1>5. WireInv'
  <2>1. Len(wire'[d]) <= sent'[d]
    BY <1>3 DEF WireInv
  <2>2. d \in connected' /\ listener'.peer # d
    BY <1>1, <1>2, ListedOld
  <2>3. ASSUME NEW c \in Client, c # d
        PROVE  /\ Len(wire'[c]) <= sent'[c]
               /\ \A j \in 1..Len(wire'[c]) :
                    wire'[c][j] = Byte(c, sent'[c] - Len(wire'[c]) + j)
               /\ c \notin connected' \/ listener'.peer = c =>
                    sent'[c] = 0 /\ wire'[c] = <<>> /\ delivered'[c] = <<>>
    <3>1. sent'[c] = sent[c] /\ wire'[c] = wire[c]
      BY <1>3, <2>3
    <3>2. QED
      BY <1>1, <3>1 DEF WireInv
  <2>4. QED
    BY <1>4, <2>1, <2>2, <2>3 DEF WireInv
<1>6. MovedOf(d)' = MovedOf(d)
  <2>1. PICK x \in Nat, y \in Nat, z \in Nat :
          x = sent[d] /\ y = Len(wire[d]) /\ z = Len(First.inBuf)
    BY <1>3
  <2>2. sent'[d] = x + 1 /\ Len(wire'[d]) = y + 1 /\ Len(First'.inBuf) = z
    BY <1>2, <1>3, <2>1, Zenon
  <2>3. (x + 1) - (y + 1) - z = x - y - z
    OBVIOUS
  <2>4. QED
    BY <2>1, <2>2, <2>3, Zenon DEF MovedOf
<1>7. InputInv'
  <2>1. Len(First'.inBuf) + Len(wire'[d]) <= sent'[d]
    <3>1. Len(First.inBuf) + Len(wire[d]) <= sent[d]
      BY <1>2 DEF InputInv
    <3>2. PICK x \in Nat, y \in Nat, z \in Nat :
            x = sent[d] /\ y = Len(wire[d]) /\ z = Len(First.inBuf)
      BY <1>3
    <3>3. sent'[d] = x + 1 /\ Len(wire'[d]) = y + 1 /\ Len(First'.inBuf) = z
      BY <1>2, <1>3, <3>2, Zenon
    <3>4. z + y <= x
      BY <3>1, <3>2
    <3>5. z + (y + 1) <= x + 1
      BY <3>4
    <3>6. QED
      BY <3>3, <3>5, Zenon
  <2>2. /\ Whole(MovedOf(d))
        /\ \A j \in 1..Len(First.inBuf) : First.inBuf[j] = Byte(d, MovedOf(d) + j)
    BY <1>2, MovedFacts
  <2>3. Whole(MovedOf(d)')
    BY <1>6, <2>2
  <2>4. Whole(MovedOf(d))'
    BY <2>3 DEF Whole
  <2>5. \A j \in 1..Len(First'.inBuf) : First'.inBuf[j] = Byte(d, MovedOf(d)' + j)
    BY <1>2, <1>6, <2>2
  <2>6. QED
    BY <1>2, <2>1, <2>4, <2>5 DEF InputInv
<1>8. QED
  BY <1>2, <1>5, <1>6, <1>7

\* The packages that are moved come from the front of the input buffer.
LEMMA StoreStream ==
  ASSUME Steady, InputInv, NEW c \in Client, First.Id = c, StoreReady
  PROVE  /\ InputInv'
         /\ MovedOf(c)' = MovedOf(c) + listener.size
         /\ Whole(listener.size) /\ listener.size \in Nat
<1> DEFINE s == listener.size
<1>1. /\ First'.Id = c
      /\ Len(First'.inBuf) = Len(First.inBuf) - s
      /\ \A j \in 1..(Len(First.inBuf) - s) : First'.inBuf[j] = First.inBuf[s + j]
      /\ s \in 1..Len(First.inBuf) /\ UNCHANGED <<sent, wire>>
      /\ listener.at = "store"
  BY StoreReadyEffect DEF peerVars
<1>2. /\ sent[c] \in Nat /\ Len(wire[c]) \in Nat /\ Len(First.inBuf) \in Nat
      /\ s \in Nat
  <2>1. sent[c] \in Nat /\ Len(wire[c]) \in Nat /\ Len(First.inBuf) \in Nat
    BY StreamTypes
  <2>2. QED
    BY <1>1, <2>1
<1>3. Whole(s)
  BY <1>1 DEF Steady, ListenerInv, Moving
<1> HIDE DEF s
<1>4. MovedOf(c)' = MovedOf(c) + s
  <2>1. PICK x \in Nat, y \in Nat, z \in Nat :
          x = sent[c] /\ y = Len(wire[c]) /\ z = Len(First.inBuf)
    BY <1>2
  <2>2. sent'[c] = x /\ Len(wire'[c]) = y /\ Len(First'.inBuf) = z - s
    BY <1>1, <2>1, Zenon
  <2>3. x - y - (z - s) = x - y - z + s
    BY <1>2
  <2>4. QED
    BY <2>1, <2>2, <2>3, Zenon DEF MovedOf
<1>5. /\ MovedOf(c) \in Nat /\ Whole(MovedOf(c))
      /\ \A j \in 1..Len(First.inBuf) : First.inBuf[j] = Byte(c, MovedOf(c) + j)
  BY MovedFacts
<1>6. Whole(MovedOf(c))'
  <2>1. Whole(MovedOf(c) + s)
    BY <1>2, <1>3, <1>5, WholeSum
  <2>2. QED
    BY <1>4, <2>1 DEF Whole
<1>7. ASSUME NEW j \in 1..Len(First'.inBuf)
      PROVE  First'.inBuf[j] = Byte(c, MovedOf(c)' + j)
  <2>1. /\ s + j \in 1..Len(First.inBuf) /\ j \in 1..(Len(First.inBuf) - s)
        /\ MovedOf(c)' + j = MovedOf(c) + (s + j)
    BY <1>1, <1>2, <1>4, <1>5
  <2>2. QED
    BY <1>1, <1>5, <2>1
<1>8. Len(First'.inBuf) + Len(wire'[c]) <= sent'[c]
  <2>1. Len(First.inBuf) + Len(wire[c]) <= sent[c]
    BY DEF InputInv
  <2>2. PICK x \in Nat, y \in Nat, z \in Nat :
          x = sent[c] /\ y = Len(wire[c]) /\ z = Len(First.inBuf)
    BY <1>2
  <2>3. sent'[c] = x /\ Len(wire'[c]) = y /\ Len(First'.inBuf) = z - s
    BY <1>1, <2>2, Zenon
  <2>4. z + y <= x
    BY <2>1, <2>2
  <2>5. z - s + y <= x
    BY <1>2, <2>4
  <2>6. QED
    BY <2>2, <2>3, <2>5, Zenon
<1>9. InputInv'
  BY <1>1, <1>6, <1>7, <1>8 DEF InputInv
<1>10. QED
  BY <1>2, <1>3, <1>4, <1>9 DEF s

\* What other steps of the threads leave alone while the first entry has a client.
QuietStep ==
  /\ UNCHANGED <<callback, sent, wire, connected>>
  /\ First.Id \in Client /\ First'.Id = First.Id /\ First'.inBuf = First.inBuf
  /\ listener'.peer \in {listener.peer, NoClient}
  /\ \A c \in Client : c # First.Id => delivered'[c] = delivered[c]

LEMMA ListenerQuiet ==
  ASSUME Steady, Running',
         CopyPackages \/ LoadReady \/ Announce \/ RaiseReady \/ Call \/ Called
  PROVE  QuietStep
<1>1. CASE CopyPackages
  <2>1. /\ First.Id \in Client /\ listener' = [listener EXCEPT !.at = "load"]
        /\ UNCHANGED <<callback, connected, sent, wire, delivered>>
    BY <1>1, CopyPackagesEffect DEF peerVars
  <2>2. First'.Id = First.Id /\ First'.inBuf = First.inBuf
    BY <1>1, CopiedFirst
  <2>3. listener'.peer = listener.peer
    BY <2>1, TypeFacts DEF Listener
  <2>4. QED
    BY <2>1, <2>2, <2>3 DEF QuietStep
<1>2. CASE LoadReady
  <2>1. /\ First.Id \in Client
        /\ listener' = [listener EXCEPT !.at = "store", !.loaded = First.ready]
        /\ UNCHANGED <<callback, connected, sent, wire, delivered, clientList>>
    BY <1>2, LoadReadyEffect DEF peerVars
  <2>2. listener'.peer = listener.peer
    BY <2>1, TypeFacts DEF Listener
  <2>3. QED
    BY <2>1, <2>2 DEF QuietStep, First
<1>3. CASE Announce
  <2>1. /\ First.Id \in Client
        /\ listener' = IF First.ready > 0 THEN At("raise", 0) ELSE At("analysing", 1)
        /\ UNCHANGED <<callback, connected, sent, wire, delivered, clientList>>
    BY <1>3, AnnounceEffect DEF peerVars
  <2>2. listener'.peer = NoClient
    BY <2>1 DEF At
  <2>3. QED
    BY <2>1, <2>2 DEF QuietStep, First
<1>4. CASE RaiseReady
  <2>1. /\ First.Id \in Client
        /\ listener' = IF callback THEN [At("call", 0) EXCEPT !.size = First.ready]
                       ELSE At("analysing", 1)
        /\ First' = [First EXCEPT !.ReadyFlag = TRUE]
        /\ UNCHANGED <<callback, connected, sent, wire, delivered>>
    BY <1>4, RaiseReadyEffect DEF peerVars
  <2>2. listener'.peer = NoClient
    BY <2>1 DEF At
  <2>3. First'.Id = First.Id /\ First'.inBuf = First.inBuf
    BY <2>1, FlagFirst
  <2>4. QED
    BY <2>1, <2>2, <2>3 DEF QuietStep
<1>5. CASE Call
  <2>1. /\ First.Id \in Client
        /\ listener' = [listener EXCEPT !.called = listener.called + PackageSize]
        /\ delivered' = [delivered EXCEPT ![First.Id] =
             Append(@, ReadyPackage(First, 1 + listener.called \div PackageSize))]
        /\ UNCHANGED <<callback, connected, sent, wire, clientList>>
    BY <1>5, CallEffect DEF peerVars
  <2>2. listener'.peer = listener.peer
    BY <2>1, TypeFacts DEF Listener
  <2>3. \A c \in Client : c # First.Id => delivered'[c] = delivered[c]
    BY <2>1, TypeFacts
  <2>4. QED
    BY <2>1, <2>2, <2>3 DEF QuietStep, First
<1>6. CASE Called
  <2>1. /\ First.Id \in Client /\ listener' = At("analysing", 1)
        /\ First' = Emptied(First)
        /\ UNCHANGED <<callback, connected, sent, wire, delivered>>
    BY <1>6, CalledEffect DEF peerVars
  <2>2. listener'.peer = NoClient
    BY <2>1 DEF At
  <2>3. First'.Id = First.Id /\ First'.inBuf = First.inBuf
    BY <2>1, EmptiedEntry, SteadyFacts
  <2>4. QED
    BY <2>1, <2>2, <2>3 DEF QuietStep
<1>7. QED
  BY <1>1, <1>2, <1>3, <1>4, <1>5, <1>6

LEMMA FetchQuiet ==
  ASSUME Steady, Running',
         \/ (\E i \in Slot : RxCopy(i)) \/ RxShift \/ RxClearFlag \/ RxResetReady
  PROVE  QuietStep /\ UNCHANGED listener /\ ~callback
<1>1. ASSUME NEW i \in Slot, RxCopy(i)
      PROVE  QuietStep /\ UNCHANGED listener /\ ~callback
  <2>1. /\ First.Id \in Client /\ ~callback
        /\ delivered' = [delivered EXCEPT ![First.Id] =
                           Append(@, ReadyPackage(First, 1))]
        /\ UNCHANGED <<callback, connected, sent, wire, clientList, listener>>
    BY <1>1, RxCopyEffect DEF peerVars
  <2>2. \A c \in Client : c # First.Id => delivered'[c] = delivered[c]
    BY <2>1, TypeFacts
  <2>3. QED
    BY <2>1, <2>2 DEF QuietStep, First
<1>2. CASE RxShift
  <2>1. /\ app.at = "copied" /\ First.ready > PackageSize
        /\ First' = Shifted(First, First.ready - PackageSize)
        /\ UNCHANGED <<callback, connected, sent, wire, delivered, listener>>
    BY <1>2, RxShiftEffect DEF peerVars
  <2>2. First.Id \in Client /\ ~callback
    BY <2>1, FetchFacts DEF Fetching
  <2>3. First'.Id = First.Id /\ First'.inBuf = First.inBuf
    BY <2>1, ShiftedEntry, SteadyFacts
  <2>4. QED
    BY <2>1, <2>2, <2>3 DEF QuietStep
<1>3. CASE RxClearFlag
  <2>1. /\ app.at = "copied" /\ First' = [First EXCEPT !.ReadyFlag = FALSE]
        /\ UNCHANGED <<callback, connected, sent, wire, delivered, listener>>
    BY <1>3, RxClearFlagEffect DEF peerVars
  <2>2. First.Id \in Client /\ ~callback
    BY <2>1, FetchFacts DEF Fetching
  <2>3. First'.Id = First.Id /\ First'.inBuf = First.inBuf
    BY <2>1, FlagFirst
  <2>4. QED
    BY <2>1, <2>2, <2>3 DEF QuietStep
<1>4. CASE RxResetReady
  <2>1. /\ app.at = "cleared" /\ First' = [First EXCEPT !.ready = 0]
        /\ UNCHANGED <<callback, connected, sent, wire, delivered, listener>>
    BY <1>4, RxResetReadyEffect DEF peerVars
  <2>2. First.Id \in Client /\ ~callback
    BY <2>1, FetchFacts DEF Fetching
  <2>3. First'.Id = First.Id /\ First'.inBuf = First.inBuf
    BY <2>1, ResetFirst
  <2>4. QED
    BY <2>1, <2>2, <2>3 DEF QuietStep
<1>5. QED
  BY <1>1, <1>2, <1>3, <1>4

LEMMA QuietStream ==
  ASSUME Steady, WireInv, InputInv, QuietStep
  PROVE  /\ WireInv' /\ InputInv'
         /\ \A c \in Client : MovedOf(c)' = MovedOf(c)
<1>1. NoneNew
  BY SizeFacts DEF QuietStep, NoneNew
<1>2. \A c \in Client : c \notin connected' \/ listener'.peer = c =>
        delivered'[c] = delivered[c]
  BY <1>1, ListedOld DEF QuietStep, NoneNew
<1>3. WireInv'
  BY <1>1, <1>2, WireKeeps DEF QuietStep
<1>4. QED
  BY <1>3, InputKeeps DEF QuietStep

LEMMA StreamInductive ==
  ASSUME Steady, WireInv, InputInv, Next, Running'
  PROVE  WireInv' /\ InputInv'
<1>1. CASE NeutralStep
  BY <1>1, WireKeeps, InputKeeps DEF NeutralStep, SameFirst
<1>2. CASE ClearingStep
  <2>1. NoneNew
    BY <1>2 DEF ClearingStep, NoneNew
  <2>2. WireInv'
    BY <1>2, <2>1, WireKeeps DEF ClearingStep
  <2>3. InputInv'
    BY <1>2, UnusedEntry, SizeFacts DEF ClearingStep, InputInv
  <2>4. QED
    BY <2>2, <2>3
<1>3. CASE FillEntry
  <2>1. listener'.peer = NoClient /\ UNCHANGED <<sent, wire, delivered, connected>>
    BY <1>3, FillEntryEffect DEF At, peerVars
  <2>2. NoneNew
    BY <2>1, SizeFacts DEF NoneNew
  <2>3. QED
    BY <1>3, <2>1, <2>2, WireKeeps, FillStream
<1>4. CASE StoreReady
  <2>1. /\ listener'.peer = NoClient /\ First.Id \in Client
        /\ UNCHANGED <<sent, wire, delivered, connected>>
    BY <1>4, StoreReadyEffect DEF At, peerVars
  <2>2. NoneNew
    BY <2>1, SizeFacts DEF NoneNew
  <2>3. QED
    BY <1>4, <2>1, <2>2, WireKeeps, StoreStream
<1>5. CASE Receive
  BY <1>5, ReceiveStream
<1>6. ASSUME NEW c \in Client, SendByte(c) PROVE WireInv' /\ InputInv'
  BY <1>6, SendStream
<1>7. QED
  BY <1>1, <1>2, <1>3, <1>4, <1>5, <1>6, StepKinds, ListenerQuiet, FetchQuiet,
     QuietStream

-----------------------------------------------------------------------------
(* With a callback.                                                        *)

LEMMA HeldSame ==
  ASSUME NEW c \in Client, HeldOf(c), MovedOf(c)' = MovedOf(c),
         First'.ready = First.ready, First'.readyBuf = First.readyBuf,
         listener'.called = listener.called, delivered'[c] = delivered[c]
  PROVE  HeldOf(c)'
  BY DEF HeldOf, Whole

LEMMA HandedSame ==
  ASSUME NEW c \in Client, Handed(c),
         sent'[c] = sent[c], delivered'[c] = delivered[c]
  PROVE  Handed(c)'
  BY DEF Handed

\* Nothing in the buffer, and all that was moved handed over.
LEMMA HeldNothing ==
  ASSUME NEW c \in Client, First'.ready = 0, MovedOf(c)' \in Nat,
         listener'.called = 0, MovedOf(c)' = Len(delivered'[c]) * PackageSize
  PROVE  HeldOf(c)'
<1>1. MovedOf(c)' - 0 + 0 = MovedOf(c)' /\ 0 <= MovedOf(c)'
  OBVIOUS
<1>2. \A j \in 1..First'.ready :
        First'.readyBuf[j] = Byte(c, MovedOf(c)' - First'.ready + j)
  OBVIOUS
<1>3. MovedOf(c)' - First'.ready + listener'.called = Len(delivered'[c]) * PackageSize
  BY <1>1, Zenon
<1>4. Whole(First'.ready)
  BY WholeZero
<1>5. QED
  BY <1>1, <1>2, <1>3, <1>4 DEF HeldOf, Whole

LEMMA HeldEmpty ==
  ASSUME NEW c \in Client, HeldOf(c), First.ready = 0, MovedOf(c) \in Nat,
         listener.called = 0
  PROVE  MovedOf(c) = Len(delivered[c]) * PackageSize
<1>1. MovedOf(c) - 0 + 0 = MovedOf(c)
  OBVIOUS
<1>2. MovedOf(c) - First.ready + listener.called = Len(delivered[c]) * PackageSize
  BY DEF HeldOf
<1>3. QED
  BY <1>1, <1>2, Zenon

\* Outside the round of the callback no package of it is with the callback.
LEMMA NoneCalled ==
  ASSUME Steady, listener.at # "call"
  PROVE  listener.called = 0
  BY DEF Steady, ListenerInv

LEMMA CallbackNeutral ==
  ASSUME Steady, Steady', callback, CallbackInv, NeutralStep
  PROVE  CallbackInv'
<1>1. CallbackFlow'
  <2>1. CASE UNCHANGED listener
    BY <2>1 DEF CallbackInv, CallbackFlow, NeutralStep, SameFirst, Whole
  <2>2. CASE listener.at \in Still /\ listener'.at \in Still \cup {"copy", "announce"}
    <3>1. ~First.ReadyFlag /\ ~(First.ready > 0)
      BY <2>2 DEF CallbackInv, CallbackFlow, Still
    <3>2. QED
      BY <2>2, <3>1 DEF CallbackFlow, NeutralStep, SameFirst, Still
  <2>3. QED
    BY <2>1, <2>2 DEF NeutralStep
<1>2. listener'.called = listener.called
  BY DEF Steady, ListenerInv, NeutralStep, Still
<1>3. \A c \in Client : MovedOf(c)' = MovedOf(c)
  BY DEF NeutralStep, SameFirst, MovedOf
<1>4. \A c \in Client : Handed(c)'
  BY HandedSame DEF CallbackInv, NeutralStep
<1>5. \A c \in Client : First'.Id = c => HeldOf(c)'
  BY <1>2, <1>3, HeldSame DEF CallbackInv, NeutralStep, SameFirst
<1>6. QED
  BY <1>1, <1>4, <1>5 DEF CallbackInv

LEMMA CallbackClearing ==
  ASSUME Steady, callback, CallbackInv, ClearingStep
  PROVE  CallbackInv'
<1>1. ~First'.ReadyFlag /\ First'.ready = 0 /\ First'.Id = NoClient
  BY UnusedEntry DEF ClearingStep
<1>2. listener'.at \notin {"load", "store", "call"}
  BY DEF ClearingStep, Still
<1>3. CallbackFlow'
  BY <1>1, <1>2 DEF CallbackFlow
<1>4. \A c \in Client : Handed(c)'
  BY HandedSame DEF CallbackInv, ClearingStep
<1>5. QED
  BY <1>1, <1>3, <1>4, SizeFacts DEF CallbackInv

LEMMA CallbackFill ==
  ASSUME Steady, Steady', callback, WireInv, CallbackInv, FillEntry
  PROVE  CallbackInv'
<1>1. /\ listener.peer \in Client /\ listener' = At("receiving", 0)
      /\ First' = Established(listener.peer)
      /\ UNCHANGED <<callback, sent, delivered>>
  BY FillEntryEffect DEF peerVars
<1>2. ~First'.ReadyFlag /\ First'.ready = 0
  BY <1>1, EstablishedEntry
<1>3. listener'.at = "receiving" /\ listener'.called = 0
  BY <1>1 DEF At
<1>4. CallbackFlow'
  BY <1>2, <1>3 DEF CallbackFlow
<1>5. \A c \in Client : Handed(c)'
  BY <1>1, HandedSame DEF CallbackInv
<1>6. ASSUME NEW c \in Client, First'.Id = c
      PROVE  HeldOf(c)'
  <2>1. MovedOf(c)' = 0 /\ delivered'[c] = <<>>
    BY <1>6, FillStream
  <2>2. Len(delivered'[c]) = 0
    BY <2>1, UnusedEntry, Zenon
  <2>3. 0 * PackageSize = 0
    BY SizeFacts
  <2>4. MovedOf(c)' = Len(delivered'[c]) * PackageSize /\ MovedOf(c)' \in Nat
    BY <2>1, <2>2, <2>3
  <2>5. QED
    BY <1>2, <1>3, <2>4, HeldNothing
<1>7. QED
  BY <1>4, <1>5, <1>6 DEF CallbackInv

LEMMA CallbackReceive ==
  ASSUME Steady, Steady', callback, WireInv, InputInv, CallbackInv, Receive
  PROVE  CallbackInv'
<1>1. /\ listener.at = "receive" /\ listener' = At("receiving", 1)
      /\ UNCHANGED <<sent, delivered>> /\ First.Id \in Client
  BY ReceiveEffect
<1>2. /\ First'.Id = First.Id /\ First'.ReadyFlag = First.ReadyFlag
      /\ First'.ready = First.ready /\ First'.readyBuf = First.readyBuf
  BY <1>1, ReceivedFirst
<1>3. ~First.ReadyFlag /\ ~(First.ready > 0)
  BY <1>1 DEF CallbackInv, CallbackFlow
<1>4. listener'.at = "receiving" /\ listener'.called = 0 /\ listener.called = 0
  BY <1>1, NoneCalled DEF At
<1>5. CallbackFlow'
  BY <1>2, <1>3, <1>4 DEF CallbackFlow
<1>6. \A c \in Client : Handed(c)'
  BY <1>1, HandedSame DEF CallbackInv
<1>7. \A c \in Client : First'.Id = c => HeldOf(c)'
  BY <1>1, <1>2, <1>4, HeldSame, ReceiveStream DEF CallbackInv
<1>8. QED
  BY <1>5, <1>6, <1>7 DEF CallbackInv

\* memcpy() fills an empty buffer.
LEMMA CallbackCopy ==
  ASSUME Steady, Steady', callback, WireInv, InputInv, CallbackInv, CopyPackages
  PROVE  CallbackInv'
<1>1. /\ listener.at = "copy" /\ First.Id \in Client
      /\ First.ready + listener.size <= Capacity
      /\ listener.size \in 1..Len(First.inBuf)
      /\ listener' = [listener EXCEPT !.at = "load"]
      /\ UNCHANGED <<sent, delivered>>
  BY CopyPackagesEffect DEF Steady, peerVars
<1>2. /\ First'.Id = First.Id /\ First'.ReadyFlag = First.ReadyFlag
      /\ First'.inBuf = First.inBuf /\ First'.ready = First.ready
      /\ First'.readyBuf = CopiedBehind(First, listener.size)
  BY CopiedFirst DEF Steady
<1>3. ~First.ReadyFlag /\ First.ready = 0
  <2>1. ~First.ReadyFlag /\ ~(First.ready > 0)
    BY <1>1 DEF CallbackInv, CallbackFlow
  <2>2. First.ready \in Nat
    BY SteadyFacts, EntryFacts
  <2>3. QED
    BY <2>1, <2>2
<1>4. /\ listener'.at = "load" /\ listener'.called = 0 /\ listener.called = 0
      /\ listener'.size = listener.size
  BY <1>1, NoneCalled, TypeFacts DEF Listener
<1>5. \A j \in 1..listener.size : First'.readyBuf[j] = First.inBuf[j]
  <2>1. First \in Entry /\ listener.size \in 0..Len(First.inBuf)
    BY <1>1, SteadyFacts
  <2>2. \A j \in 1..listener.size :
          CopiedBehind(First, listener.size)[First.ready + j] = First.inBuf[j]
    BY <1>1, <2>1, CopiedBytes
  <2>3. \A j \in 1..listener.size : 0 + j = j
    BY <1>1
  <2>4. QED
    BY <1>2, <1>3, <2>2, <2>3
<1>6. CallbackFlow'
  BY <1>2, <1>3, <1>4, <1>5 DEF CallbackFlow
<1>7. \A c \in Client : Handed(c)'
  BY <1>1, HandedSame DEF CallbackInv
<1>8. ASSUME NEW c \in Client, First'.Id = c
      PROVE  HeldOf(c)'
  <2>1. HeldOf(c) /\ MovedOf(c) \in Nat
    BY <1>2, <1>8, MovedFacts DEF CallbackInv
  <2>2. MovedOf(c) = Len(delivered[c]) * PackageSize
    BY <1>3, <1>4, <2>1, HeldEmpty
  <2>3. MovedOf(c)' = MovedOf(c)
    BY <1>8, ListenerQuiet, QuietStream DEF Steady
  <2>4. MovedOf(c)' \in Nat /\ MovedOf(c)' = Len(delivered'[c]) * PackageSize
    BY <1>1, <2>1, <2>2, <2>3
  <2>5. QED
    BY <1>2, <1>3, <1>4, <2>4, HeldNothing
<1>9. QED
  BY <1>6, <1>7, <1>8 DEF CallbackInv

LEMMA CallbackLoad ==
  ASSUME Steady, Steady', callback, WireInv, InputInv, CallbackInv, LoadReady
  PROVE  CallbackInv'
<1>1. /\ listener.at = "load"
      /\ listener' = [listener EXCEPT !.at = "store", !.loaded = First.ready]
      /\ UNCHANGED <<sent, delivered, clientList>>
  BY LoadReadyEffect DEF peerVars
<1>2. ~First.ReadyFlag /\ First.ready = 0
  <2>1. ~First.ReadyFlag /\ ~(First.ready > 0)
    BY <1>1 DEF CallbackInv, CallbackFlow
  <2>2. First.ready \in Nat
    BY SteadyFacts, EntryFacts
  <2>3. QED
    BY <2>1, <2>2
<1>3. /\ listener'.at = "store" /\ listener'.called = listener.called
      /\ listener'.size = listener.size /\ listener'.loaded = 0
  BY <1>1, <1>2, TypeFacts DEF Listener
<1>4. First' = First
  BY <1>1 DEF First
<1>5. CallbackFlow'
  BY <1>1, <1>2, <1>3, <1>4 DEF CallbackInv, CallbackFlow
<1>6. \A c \in Client : Handed(c)'
  BY <1>1, HandedSame DEF CallbackInv
<1>7. \A c \in Client : First'.Id = c => HeldOf(c)'
  <2>1. \A c \in Client : MovedOf(c)' = MovedOf(c)
    BY ListenerQuiet, QuietStream DEF Steady
  <2>2. QED
    BY <1>1, <1>3, <1>4, <2>1, HeldSame DEF CallbackInv
<1>8. QED
  BY <1>5, <1>6, <1>7 DEF CallbackInv

\* "+=" counts the copied bytes as moved.
LEMMA CallbackStore ==
  ASSUME Steady, Steady', callback, WireInv, InputInv, CallbackInv, StoreReady
  PROVE  CallbackInv'
<1>1. /\ listener.at = "store" /\ First.Id \in Client
      /\ listener.size \in 1..Len(First.inBuf)
      /\ listener' = At("announce", 0) /\ First' = Stored(First)
      /\ Stored(First).Id = First.Id
      /\ Stored(First).ReadyFlag = First.ReadyFlag
      /\ Stored(First).readyBuf = First.readyBuf
      /\ Stored(First).ready = listener.loaded + listener.size
      /\ UNCHANGED <<sent, delivered>>
  BY StoreReadyEffect DEF peerVars
<1>2. /\ ~First.ReadyFlag /\ ~(First.ready > 0) /\ listener.loaded = 0
      /\ \A j \in 1..listener.size : First.readyBuf[j] = First.inBuf[j]
  BY <1>1 DEF CallbackInv, CallbackFlow
<1>3. First.ready = 0
  BY <1>2, SteadyFacts, EntryFacts
<1>4. listener.called = 0 /\ listener'.called = 0 /\ listener'.at = "announce"
  BY <1>1, NoneCalled DEF At
<1>5. PICK c \in Client : First.Id = c
  BY <1>1
<1>6. PICK s \in Nat : s = listener.size /\ Whole(s) /\ MovedOf(c)' = MovedOf(c) + s
  BY <1>5, StoreStream
<1>7. First'.ready = s
  <2>1. 0 + s = s
    OBVIOUS
  <2>2. QED
    BY <1>1, <1>2, <1>6, <2>1, Zenon
<1>8. CallbackFlow'
  BY <1>1, <1>2, <1>4 DEF CallbackFlow
<1>9. \A d \in Client : Handed(d)'
  BY <1>1, HandedSame DEF CallbackInv
<1>10. HeldOf(c)'
  <2>1. /\ MovedOf(c) \in Nat
        /\ \A j \in 1..Len(First.inBuf) : First.inBuf[j] = Byte(c, MovedOf(c) + j)
    BY <1>5, MovedFacts
  <2>2. MovedOf(c) = Len(delivered[c]) * PackageSize
    BY <1>3, <1>4, <1>5, <2>1, HeldEmpty DEF CallbackInv
  <2>3. PICK m \in Nat : m = MovedOf(c)
    BY <2>1
  <2>4. MovedOf(c)' = m + s
    BY <1>6, <2>3
  <2>5. (m + s) - s = m /\ s <= m + s /\ m + 0 = m
    OBVIOUS
  <2>6. MovedOf(c)' - First'.ready = m
    BY <1>7, <2>4, <2>5, Zenon
  <2>7. MovedOf(c)' - First'.ready + listener'.called = Len(delivered'[c]) * PackageSize
    BY <1>1, <1>4, <2>2, <2>3, <2>5, <2>6, Zenon
  <2>8. \A j \in 1..First'.ready : First'.readyBuf[j] = Byte(c, m + j)
    <3>1. ASSUME NEW j \in 1..s
          PROVE  First.readyBuf[j] = Byte(c, m + j)
      <4>1. j \in 1..listener.size /\ j \in 1..Len(First.inBuf)
        BY <1>1, <1>6
      <4>2. QED
        BY <1>2, <2>1, <2>3, <4>1
    <3>2. QED
      BY <1>1, <1>7, <3>1
  <2>9. Whole(First'.ready) /\ First'.ready <= MovedOf(c)'
    BY <1>6, <1>7, <2>4, <2>5
  <2>10. QED
    BY <2>6, <2>7, <2>8, <2>9 DEF HeldOf, Whole
<1>11. QED
  BY <1>1, <1>5, <1>8, <1>9, <1>10 DEF CallbackInv

LEMMA CallbackAnnounce ==
  ASSUME Steady, Steady', callback, WireInv, InputInv, CallbackInv, Announce
  PROVE  CallbackInv'
<1>1. /\ listener.at = "announce"
      /\ listener' = IF First.ready > 0 THEN At("raise", 0) ELSE At("analysing", 1)
      /\ UNCHANGED <<sent, delivered, clientList>>
  BY AnnounceEffect DEF peerVars
<1>2. /\ listener'.at = IF First.ready > 0 THEN "raise" ELSE "analysing"
      /\ listener'.called = 0 /\ listener.called = 0
  BY <1>1, NoneCalled DEF At
<1>3. First' = First /\ ~First.ReadyFlag
  BY <1>1 DEF First, CallbackInv, CallbackFlow
<1>4. CallbackFlow'
  BY <1>2, <1>3 DEF CallbackFlow
<1>5. \A c \in Client : Handed(c)'
  BY <1>1, HandedSame DEF CallbackInv
<1>6. \A c \in Client : First'.Id = c => HeldOf(c)'
  <2>1. \A c \in Client : MovedOf(c)' = MovedOf(c)
    BY ListenerQuiet, QuietStream DEF Steady
  <2>2. QED
    BY <1>1, <1>2, <1>3, <2>1, HeldSame DEF CallbackInv
<1>7. QED
  BY <1>4, <1>5, <1>6 DEF CallbackInv

LEMMA CallbackRaise ==
  ASSUME Steady, Steady', callback, WireInv, InputInv, CallbackInv, RaiseReady
  PROVE  CallbackInv'
<1>1. /\ listener.at = "raise"
      /\ listener' = [At("call", 0) EXCEPT !.size = First.ready]
      /\ First' = [First EXCEPT !.ReadyFlag = TRUE]
      /\ UNCHANGED <<sent, delivered>>
  BY RaiseReadyEffect DEF peerVars
<1>2. /\ First'.Id = First.Id /\ First'.ready = First.ready
      /\ First'.readyBuf = First.readyBuf
  BY <1>1, FlagFirst
<1>3. /\ listener'.at = "call" /\ listener'.called = 0 /\ listener.called = 0
      /\ listener'.size = First.ready
  BY <1>1, NoneCalled DEF At
<1>4. Whole(listener'.called) /\ listener'.called <= First'.ready
  BY <1>2, <1>3, WholeZero, SteadyFacts, EntryFacts
<1>5. CallbackFlow'
  BY <1>2, <1>3, <1>4 DEF CallbackFlow, Whole
<1>6. \A c \in Client : Handed(c)'
  BY <1>1, HandedSame DEF CallbackInv
<1>7. \A c \in Client : First'.Id = c => HeldOf(c)'
  <2>1. \A c \in Client : MovedOf(c)' = MovedOf(c)
    BY ListenerQuiet, QuietStream DEF Steady
  <2>2. QED
    BY <1>1, <1>2, <1>3, <2>1, HeldSame DEF CallbackInv
<1>8. QED
  BY <1>5, <1>6, <1>7 DEF CallbackInv

\* In the round of the callback, another package is in the buffer.
LEMMA CallRoom ==
  ASSUME Steady, CallbackInv, listener.at = "call", listener.called < listener.size
  PROVE  /\ First.Id \in Client /\ HeldOf(First.Id) /\ listener.size = First.ready
         /\ listener.called \in Nat /\ Whole(listener.called)
         /\ Whole(listener.called + PackageSize)
         /\ listener.called + PackageSize <= First.ready
         /\ listener.called + PackageSize <= Capacity
<1>1. callback /\ First.Id \in Client
  BY SteadyFacts DEF Steady, ListenerInv, Busy
<1>2. /\ HeldOf(First.Id) /\ listener.size = First.ready
      /\ Whole(listener.called) /\ listener.called <= First.ready
  BY <1>1 DEF CallbackInv, CallbackFlow
<1>3. Whole(First.ready)
  BY <1>2 DEF HeldOf
<1>4. PICK r \in Nat, n \in Nat :
        r = First.ready /\ n = listener.called /\ r <= Capacity
  <2>1. First.ready \in 0..Capacity /\ First.ready \in Nat /\ listener.called \in Nat
    BY SteadyFacts, EntryFacts, TypeFacts DEF Listener
  <2>2. QED
    BY <2>1, SizeFacts
<1>5. Whole(r - n) /\ r - n \in Nat /\ r - n > 0
  <2>1. n < r
    BY <1>2, <1>4
  <2>2. Whole(r) /\ Whole(n) /\ n <= r
    BY <1>2, <1>3, <1>4, <2>1
  <2>3. Whole(r - n)
    BY <2>2, WholeDifference
  <2>4. QED
    BY <2>1, <2>3
<1>6. r - n >= PackageSize
  BY <1>5, WholePositive
<1>7. n + PackageSize <= r /\ n + PackageSize <= Capacity
  BY <1>4, <1>6, SizeFacts
<1>8. Whole(n + PackageSize)
  <2>1. 1 * PackageSize = PackageSize /\ PackageSize \in Nat
    BY SizeFacts
  <2>2. Whole(PackageSize)
    BY <2>1, WholeProduct
  <2>3. QED
    BY <1>2, <1>4, <2>1, <2>2, WholeSum
<1>9. QED
  BY <1>1, <1>2, <1>4, <1>7, <1>8

LEMMA CallIsWithin ==
  ASSUME Steady, CallbackInv
  PROVE  CallWithin
  BY CallRoom DEF CallWithin

\* The package at hand is the next one of the peer.
LEMMA CallbackCall ==
  ASSUME Steady, Steady', callback, WireInv, InputInv, CallbackInv, Call
  PROVE  CallbackInv'
<1>1. /\ listener.at = "call" /\ listener.called < listener.size
      /\ listener' = [listener EXCEPT !.called = listener.called + PackageSize]
      /\ delivered' = [delivered EXCEPT ![First.Id] =
           Append(@, ReadyPackage(First, 1 + listener.called \div PackageSize))]
      /\ UNCHANGED <<sent, clientList>>
  BY CallEffect DEF peerVars
<1>2. /\ First.Id \in Client /\ HeldOf(First.Id) /\ listener.size = First.ready
      /\ listener.called \in Nat /\ Whole(listener.called)
      /\ Whole(listener.called + PackageSize)
      /\ listener.called + PackageSize <= First.ready
      /\ listener.called + PackageSize <= Capacity
  BY <1>1, CallRoom
<1>3. PICK c \in Client, n \in Nat : c = First.Id /\ n = listener.called
  BY <1>2
<1>4. /\ listener'.at = "call" /\ listener'.called = n + PackageSize
      /\ listener'.size = listener.size
  BY <1>1, <1>3, TypeFacts DEF Listener
<1>5. First' = First
  BY <1>1 DEF First
<1>6. CallbackFlow'
  <2>1. Whole(listener'.called) /\ listener'.called <= First.ready
    BY <1>2, <1>3, <1>4
  <2>2. QED
    BY <1>2, <1>4, <1>5, <2>1 DEF CallbackFlow, Whole
<1>7. PackageAt(First, n) \in [1..PackageSize -> AnyByte]
  BY <1>2, <1>3, PackageAtType, SteadyFacts
<1>8. delivered' = [delivered EXCEPT ![c] = Append(@, PackageAt(First, n))]
  BY <1>1, <1>2, <1>3, ReadyPackageAt
<1>9. /\ Len(delivered[c]) \in Nat /\ Len(delivered'[c]) = Len(delivered[c]) + 1
      /\ delivered'[c][Len(delivered[c]) + 1] = PackageAt(First, n)
      /\ \A k \in 1..Len(delivered[c]) : delivered'[c][k] = delivered[c][k]
      /\ \A d \in Client : d # c => delivered'[d] = delivered[d]
      /\ delivered'[c] \in Seq([1..PackageSize -> AnyByte])
  BY <1>7, <1>8, AppendPackage
<1>10. PICK l \in Nat, m \in Nat, r \in Nat :
         /\ l = Len(delivered[c]) /\ m = MovedOf(c) /\ r = First.ready
         /\ m <= sent[c]
  BY <1>3, <1>9, MovedFacts, StreamTypes
<1>11. /\ r <= m /\ (m - r) + n = l * PackageSize
       /\ \A j \in 1..r : First.readyBuf[j] = Byte(c, (m - r) + j)
  BY <1>2, <1>3, <1>10 DEF HeldOf
<1>12. PackageAt(First, n) = Package(c, l + 1)
  <2>1. ASSUME NEW j \in 1..PackageSize
        PROVE  First.readyBuf[n + j] = Byte(c, ((l + 1) - 1) * PackageSize + j)
    <3>1. n + j \in 1..r
      BY <1>2, <1>3, <1>10, SizeFacts
    <3>2. First.readyBuf[n + j] = Byte(c, (m - r) + (n + j))
      BY <1>11, <3>1
    <3>3. (m - r) + (n + j) = ((m - r) + n) + j /\ (l + 1) - 1 = l
      OBVIOUS
    <3>4. QED
      BY <1>11, <3>2, <3>3
  <2>2. QED
    BY <2>1 DEF PackageAt, Package
<1>13. (l + 1) * PackageSize = (m - r) + (n + PackageSize)
  <2>1. (l + 1) * PackageSize = l * PackageSize + PackageSize
    BY SizeFacts
  <2>2. QED
    BY <1>11, <2>1, SizeFacts
<1>14. Handed(c)'
  <2>1. DOMAIN delivered'[c] = 1..(l + 1) /\ DOMAIN delivered[c] = 1..l
    BY <1>9, <1>10, LenProperties, TypeFacts
  <2>2. \A k \in 1..l : delivered'[c][k] = Package(c, k)
    BY <1>9, <1>10, <2>1 DEF CallbackInv, Handed
  <2>3. delivered'[c][l + 1] = Package(c, l + 1)
    BY <1>9, <1>10, <1>12
  <2>4. \A k \in 1..(l + 1) : k \in 1..l \/ k = l + 1
    OBVIOUS
  <2>5. (l + 1) * PackageSize <= sent'[c]
    <3>1. (m - r) + (n + PackageSize) <= m
      BY <1>2, <1>3, <1>10, <1>11, SizeFacts
    <3>2. sent'[c] = sent[c] /\ sent[c] \in Nat
      BY <1>1, StreamTypes
    <3>3. QED
      BY <1>10, <1>13, <3>1, <3>2, SizeFacts
  <2>6. Len(delivered'[c]) = l + 1
    BY <1>9, <1>10
  <2>7. QED
    BY <2>1, <2>2, <2>3, <2>4, <2>5, <2>6 DEF Handed
<1>15. HeldOf(c)'
  <2>1. MovedOf(c)' = m
    BY <1>10, ListenerQuiet, QuietStream DEF Steady
  <2>2. (m - r) + listener'.called = Len(delivered'[c]) * PackageSize
    BY <1>4, <1>9, <1>10, <1>13
  <2>3. Whole(First.ready)
    BY <1>2, <1>3 DEF HeldOf
  <2>4. QED
    BY <1>5, <1>10, <1>11, <2>1, <2>2, <2>3 DEF HeldOf, Whole
<1>16. ASSUME NEW d \in Client, d # c
       PROVE  Handed(d)'
  BY <1>1, <1>9, <1>16, HandedSame DEF CallbackInv
<1>17. QED
  BY <1>3, <1>5, <1>6, <1>14, <1>15, <1>16 DEF CallbackInv

\* It was given all that the buffer held.
LEMMA CallbackCalled ==
  ASSUME Steady, Steady', callback, WireInv, InputInv, CallbackInv, Called
  PROVE  CallbackInv'
<1>1. /\ listener.at = "call" /\ First.Id \in Client
      /\ listener.called >= listener.size
      /\ listener' = At("analysing", 1) /\ First' = Emptied(First)
      /\ UNCHANGED <<sent, delivered>>
  BY CalledEffect DEF peerVars
<1>2. /\ First'.Id = First.Id /\ First'.ReadyFlag = FALSE /\ First'.ready = 0
  BY <1>1, EmptiedEntry, SteadyFacts
<1>3. listener'.at = "analysing" /\ listener'.called = 0
  BY <1>1 DEF At
<1>4. CallbackFlow'
  BY <1>2, <1>3 DEF CallbackFlow
<1>5. \A c \in Client : Handed(c)'
  BY <1>1, HandedSame DEF CallbackInv
<1>6. ASSUME NEW c \in Client, First'.Id = c
      PROVE  HeldOf(c)'
  <2>1. PICK m \in Nat, r \in Nat : m = MovedOf(c) /\ r = First.ready
    BY <1>2, <1>6, MovedFacts, StreamTypes
  <2>2. listener.called = r
    <3>1. listener.size = r /\ listener.called <= r
      BY <1>1, <2>1 DEF CallbackInv, CallbackFlow
    <3>2. listener.called \in Nat
      BY TypeFacts DEF Listener
    <3>3. QED
      BY <1>1, <3>1, <3>2
  <2>3. r <= m /\ (m - r) + r = Len(delivered[c]) * PackageSize
    BY <1>2, <1>6, <2>1, <2>2 DEF CallbackInv, HeldOf
  <2>4. (m - r) + r = m
    OBVIOUS
  <2>5. MovedOf(c)' = m
    BY <2>1, ListenerQuiet, QuietStream DEF Steady
  <2>6. MovedOf(c)' \in Nat /\ MovedOf(c)' = Len(delivered'[c]) * PackageSize
    BY <1>1, <2>3, <2>4, <2>5
  <2>7. QED
    BY <1>2, <1>3, <2>6, HeldNothing
<1>7. QED
  BY <1>4, <1>5, <1>6 DEF CallbackInv

LEMMA CallbackSend ==
  ASSUME Steady, Steady', callback, WireInv, InputInv, CallbackInv,
         NEW d \in Client, SendByte(d)
  PROVE  CallbackInv'
<1>1. UNCHANGED <<clientList, listener, delivered>>
  BY DEF SendByte
<1>2. First' = First /\ First.Id = d /\ MovedOf(d)' = MovedOf(d)
  BY <1>1, SendStream DEF First
<1>3. CallbackFlow'
  BY <1>1, <1>2 DEF CallbackInv, CallbackFlow, Whole
<1>4. ASSUME NEW c \in Client
      PROVE  Handed(c)'
  <2>1. CASE c # d
    BY <1>1, <2>1, SentByte, HandedSame DEF CallbackInv
  <2>2. CASE c = d
    <3>1. PICK n \in Nat : n = sent[d] /\ sent'[d] = n + 1
      BY SentByte
    <3>2. Len(delivered[d]) \in Nat
      BY TypeFacts, LenProperties
    <3>3. Len(delivered[d]) * PackageSize <= n
      BY <3>1 DEF CallbackInv, Handed
    <3>4. Len(delivered[d]) * PackageSize <= n + 1
      <4>1. PICK x \in Int : x = Len(delivered[d]) * PackageSize
        BY <3>2, SizeFacts
      <4>2. QED
        BY <3>3, <4>1
    <3>5. QED
      BY <1>1, <2>2, <3>1, <3>4 DEF CallbackInv, Handed
  <2>3. QED
    BY <2>1, <2>2
<1>5. HeldOf(d)'
  BY <1>1, <1>2, HeldSame DEF CallbackInv
<1>6. QED
  BY <1>2, <1>3, <1>4, <1>5 DEF CallbackInv

LEMMA CallbackInductive ==
  ASSUME Steady, Steady', WireInv, InputInv, CallbackInv, Next
  PROVE  CallbackInv'
<1>1. UNCHANGED callback
  <2>1. Running'
    BY DEF Steady
  <2>2. NeutralStep \/ ClearingStep \/ QuietStep => UNCHANGED callback
    BY DEF NeutralStep, ClearingStep, QuietStep
  <2>3. FillEntry \/ StoreReady \/ Receive => UNCHANGED callback
    BY FillEntryEffect, StoreReadyEffect, ReceiveEffect
  <2>4. \A c \in Client : SendByte(c) => UNCHANGED callback
    BY DEF SendByte
  <2>5. QED
    BY <2>1, <2>2, <2>3, <2>4, StepKinds, ListenerQuiet, FetchQuiet
<1>2. CASE ~callback
  BY <1>1, <1>2 DEF CallbackInv
<1>3. CASE callback
  <2>1. Running'
    BY DEF Steady
  <2>2. QED
    BY <1>3, <2>1, StepKinds, FetchQuiet, CallbackNeutral, CallbackClearing,
       CallbackFill, CallbackReceive, CallbackCopy, CallbackLoad, CallbackStore,
       CallbackAnnounce, CallbackRaise, CallbackCall, CallbackCalled, CallbackSend
<1>4. QED
  BY <1>2, <1>3 DEF Steady, TypeOK

-----------------------------------------------------------------------------
(* When the application polls.                                             *)

LEMMA ReachFacts ==
  ASSUME Steady
  PROVE  /\ Reach \in Nat /\ Reach <= Capacity /\ First.ready \in Nat
         /\ listener.at \notin {"load", "store"} => Reach = First.ready
         /\ listener.at = "load" => Reach = First.ready + listener.size
         /\ listener.at = "store" => Reach = listener.loaded + listener.size
         /\ listener.size \in Nat
<1>1. /\ First.ready \in Nat /\ listener.size \in Nat /\ listener.loaded \in Nat
      /\ Capacity \in Nat /\ First.ready <= Capacity
  BY SteadyFacts, EntryFacts, TypeFacts, SizeFacts DEF Listener
<1>2. /\ listener.at = "load" => First.ready + listener.size <= Capacity
      /\ listener.at = "store" => listener.loaded + listener.size <= Capacity
  BY DEF Steady, ListenerInv
<1>3. /\ listener.at \notin {"load", "store"} => Reach = First.ready
      /\ listener.at = "load" => Reach = First.ready + listener.size
      /\ listener.at = "store" => Reach = listener.loaded + listener.size
  BY DEF Reach
<1>4. QED
  BY <1>1, <1>2, <1>3

LEMMA TopFacts ==
  ASSUME Steady, InputInv, NEW c \in Client, First.Id = c
  PROVE  /\ MovedOf(c) \in Nat /\ Top(c) \in Nat /\ Top(c) <= MaxBytes
         /\ listener.at \notin {"load", "store"} => Top(c) = MovedOf(c)
         /\ listener.at \in {"load", "store"} => Top(c) = MovedOf(c) + listener.size
<1>1. PICK m \in Nat, x \in Nat, y \in Nat, z \in Nat :
        /\ m = MovedOf(c) /\ x = sent[c] /\ y = Len(wire[c]) /\ z = Len(First.inBuf)
        /\ x <= MaxBytes /\ m + z + y = x
  <2>1. /\ sent[c] \in Nat /\ Len(wire[c]) \in Nat /\ Len(First.inBuf) \in Nat
        /\ MovedOf(c) \in Nat /\ sent[c] <= MaxBytes
        /\ MovedOf(c) + Len(First.inBuf) + Len(wire[c]) = sent[c]
    BY MovedFacts, StreamTypes
  <2>2. QED
    BY <2>1
<1>2. CASE listener.at \in {"load", "store"}
  <2>1. listener.size \in 1..z
    BY <1>1, <1>2 DEF Steady, ListenerInv, Moving
  <2>2. Top(c) = m + listener.size
    BY <1>1, <1>2 DEF Top
  <2>3. m + listener.size \in Nat /\ m + listener.size <= MaxBytes
    BY <1>1, <2>1, SizeFacts, SMTT(30)
  <2>4. QED
    BY <1>1, <1>2, <2>2, <2>3
<1>3. CASE listener.at \notin {"load", "store"}
  <2>1. m + 0 = m /\ m <= MaxBytes
    BY <1>1, SizeFacts
  <2>2. Top(c) = m
    BY <1>1, <1>3, <2>1, Zenon DEF Top
  <2>3. QED
    BY <1>1, <1>3, <2>1, <2>2
<1>4. QED
  BY <1>2, <1>3

\* While no byte of the ready buffer changes and the packages in it become no more.
LEMMA BufferKept ==
  ASSUME Steady, NEW c \in Client, BufferOf(c),
         First'.readyBuf = First.readyBuf, delivered'[c] = delivered[c],
         Whole(Reach'), Reach' \in Nat, Reach' <= Reach, Top(c)' = Top(c),
         First'.ReadyFlag \/ listener'.at = "raise" => Good(c, 0)
  PROVE  BufferOf(c)'
<1>1. PICK r \in Nat, s \in Nat : r = Reach /\ s = Reach' /\ s <= r
  BY ReachFacts
<1>2. ASSUME NEW p
      PROVE  Offset(p)' = Offset(p)
  BY DEF Offset
<1>3. ASSUME NEW p, Good(c, p)
      PROVE  Good(c, p)'
  <2>1. /\ Offset(p) \in 0..(Top(c) - PackageSize) /\ Whole(Offset(p))
        /\ \A j \in 1..PackageSize : First.readyBuf[p + j] = Byte(c, Offset(p) + j)
    BY <1>3 DEF Good
  <2>2. QED
    BY <1>2, <2>1 DEF Good, Whole
<1>4. \A p \in 0..(s - PackageSize) : p \in 0..(r - PackageSize)
  BY <1>1, SizeFacts
<1>5. \A p \in 0..(s - PackageSize) : Whole(p) => Good(c, p)'
  BY <1>1, <1>3, <1>4 DEF BufferOf
<1>6. \A p, q \in 0..(s - PackageSize) :
        Whole(p) /\ Whole(q) /\ p <= q => Offset(p)' <= Offset(q)'
  BY <1>1, <1>2, <1>4 DEF BufferOf
<1>7. First'.ReadyFlag \/ listener'.at = "raise" \/ delivered'[c] # <<>> => Good(c, 0)'
  BY <1>3 DEF BufferOf
<1>8. delivered'[c] # <<>> =>
        delivered'[c][Len(delivered'[c])][1][2] <= 1 + Offset(0)'
  BY <1>2 DEF BufferOf
<1>9. QED
  BY <1>1, <1>5, <1>6, <1>7, <1>8 DEF BufferOf, Whole

LEMMA HistoryKept ==
  ASSUME NEW c \in Client, HistoryOf(c), delivered'[c] = delivered[c]
  PROVE  HistoryOf(c)'
  BY DEF HistoryOf, Whole

\* Steps that leave the first entry to its client, and the packages alone.
LEMMA PolledKept ==
  ASSUME Steady, ~callback, PolledInv, UNCHANGED <<callback, delivered>>,
         First'.Id = First.Id, First'.readyBuf = First.readyBuf,
         Reach' = Reach \/ (Whole(Reach') /\ Reach' \in Nat /\ Reach' <= Reach),
         \A c \in Client : First.Id = c => Top(c)' = Top(c),
         First'.ReadyFlag => First.ReadyFlag \/ listener.at = "raise",
         listener'.at = "raise" =>
           listener.at = "raise" \/ (listener.at = "announce" /\ First.ready > 0)
  PROVE  PolledInv'
<1>1. \A c \in Client : HistoryOf(c)'
  BY HistoryKept DEF PolledInv
<1>2. ASSUME NEW c \in Client, First'.Id = c
      PROVE  BufferOf(c)'
  <2>1. BufferOf(c) /\ First.Id = c
    BY <1>2 DEF PolledInv
  <2>2. Whole(Reach) /\ Reach \in Nat
    BY <2>1, ReachFacts DEF BufferOf
  <2>3. Whole(Reach') /\ Reach' \in Nat /\ Reach' <= Reach
    BY <2>2
  <2>4. Top(c)' = Top(c)
    BY <2>1
  <2>5. ASSUME listener.at = "announce", First.ready > 0
        PROVE  Good(c, 0)
    <3>1. Reach >= PackageSize
      BY <2>2, <2>5, ReachFacts, WholePositive
    <3>2. 0 \in 0..(Reach - PackageSize) /\ Whole(0)
      BY <2>2, <3>1, SizeFacts, WholeZero
    <3>3. QED
      BY <2>1, <3>2 DEF BufferOf
  <2>6. First'.ReadyFlag \/ listener'.at = "raise" => Good(c, 0)
    BY <2>1, <2>5 DEF BufferOf
  <2>7. QED
    BY <2>1, <2>3, <2>4, <2>6, BufferKept
<1>3. QED
  BY <1>1, <1>2 DEF PolledInv

LEMMA PolledNeutral ==
  ASSUME Steady, ~callback, PolledInv, NeutralStep
  PROVE  PolledInv'
<1>1. \A c \in Client : MovedOf(c)' = MovedOf(c)
  BY DEF NeutralStep, SameFirst, MovedOf
<1>2. CASE UNCHANGED listener
  <2>1. Reach' = Reach
    BY <1>2 DEF NeutralStep, SameFirst, Reach
  <2>2. \A c \in Client : Top(c)' = Top(c)
    BY <1>1, <1>2 DEF Top
  <2>3. QED
    BY <1>2, <2>1, <2>2, PolledKept DEF NeutralStep, SameFirst
<1>3. CASE listener.at \in Still /\ listener'.at \in Still \cup {"copy", "announce"}
  <2>1. Reach' = Reach
    BY <1>3 DEF NeutralStep, SameFirst, Reach, Still
  <2>2. \A c \in Client : Top(c)' = Top(c)
    BY <1>1, <1>3 DEF Top, Still
  <2>3. listener'.at # "raise"
    BY <1>3 DEF Still
  <2>4. QED
    BY <2>1, <2>2, <2>3, PolledKept DEF NeutralStep, SameFirst
<1>4. QED
  BY <1>2, <1>3 DEF NeutralStep

LEMMA PolledClearing ==
  ASSUME Steady, ~callback, PolledInv, ClearingStep
  PROVE  PolledInv'
<1>1. \A c \in Client : HistoryOf(c)'
  BY HistoryKept DEF PolledInv, ClearingStep
<1>2. QED
  BY <1>1, UnusedEntry, SizeFacts DEF PolledInv, ClearingStep

LEMMA PolledFill ==
  ASSUME Steady, ~callback, WireInv, PolledInv, FillEntry
  PROVE  PolledInv'
<1>1. /\ listener.peer \in Client /\ listener' = At("receiving", 0)
      /\ First' = Established(listener.peer)
      /\ UNCHANGED <<callback, delivered>>
  BY FillEntryEffect DEF peerVars
<1>2. ~First'.ReadyFlag /\ First'.ready = 0
  BY <1>1, EstablishedEntry
<1>3. listener'.at = "receiving"
  BY <1>1 DEF At
<1>4. Reach' = 0
  BY <1>2, <1>3 DEF Reach
<1>5. \A c \in Client : HistoryOf(c)'
  BY <1>1, HistoryKept DEF PolledInv
<1>6. ASSUME NEW c \in Client, First'.Id = c
      PROVE  BufferOf(c)'
  <2>1. delivered'[c] = <<>>
    BY <1>6, FillStream
  <2>2. 0..(0 - PackageSize) = {}
    BY SizeFacts
  <2>3. Whole(Reach')
    BY <1>4, WholeZero
  <2>4. QED
    BY <1>2, <1>3, <1>4, <2>1, <2>2, <2>3 DEF BufferOf, Whole
<1>7. QED
  BY <1>5, <1>6 DEF PolledInv

LEMMA PolledListener ==
  ASSUME Steady, ~callback, WireInv, InputInv, PolledInv,
         Receive \/ LoadReady \/ StoreReady \/ Announce \/ RaiseReady
  PROVE  PolledInv'
<1>1. CASE Receive
  <2>1. /\ listener.at = "receive" /\ listener' = At("receiving", 1)
        /\ UNCHANGED <<callback, delivered>> /\ First.Id \in Client
    BY <1>1, ReceiveEffect
  <2>2. /\ First'.Id = First.Id /\ First'.ReadyFlag = First.ReadyFlag
        /\ First'.ready = First.ready /\ First'.readyBuf = First.readyBuf
    BY <1>1, <2>1, ReceivedFirst
  <2>3. listener'.at = "receiving"
    BY <2>1 DEF At
  <2>4. Reach' = Reach
    BY <2>1, <2>2, <2>3 DEF Reach
  <2>5. \A c \in Client : First.Id = c => Top(c)' = Top(c)
    BY <1>1, <2>1, <2>3, ReceiveStream DEF Top
  <2>6. QED
    BY <2>1, <2>2, <2>3, <2>4, <2>5, PolledKept
<1>2. CASE LoadReady
  <2>1. /\ listener.at = "load"
        /\ listener' = [listener EXCEPT !.at = "store", !.loaded = First.ready]
        /\ UNCHANGED <<callback, delivered, sent, wire, clientList>>
    BY <1>2, LoadReadyEffect DEF peerVars
  <2>2. First' = First
    BY <2>1 DEF First
  <2>3. /\ listener'.at = "store" /\ listener'.loaded = First.ready
        /\ listener'.size = listener.size
    BY <2>1, TypeFacts DEF Listener
  <2>4. Reach' = Reach
    BY <2>1, <2>2, <2>3 DEF Reach
  <2>5. \A c \in Client : Top(c)' = Top(c)
    BY <2>1, <2>2, <2>3 DEF Top, MovedOf
  <2>6. QED
    BY <2>1, <2>2, <2>3, <2>4, <2>5, PolledKept
<1>3. CASE StoreReady
  <2>1. /\ listener.at = "store" /\ First.Id \in Client
        /\ listener' = At("announce", 0) /\ First' = Stored(First)
        /\ Stored(First).Id = First.Id
        /\ Stored(First).ReadyFlag = First.ReadyFlag
        /\ Stored(First).readyBuf = First.readyBuf
        /\ Stored(First).ready = listener.loaded + listener.size
        /\ UNCHANGED <<callback, delivered>>
    BY <1>3, StoreReadyEffect DEF peerVars
  <2>2. listener'.at = "announce"
    BY <2>1 DEF At
  <2>3. Reach' = Reach
    BY <2>1, <2>2 DEF Reach
  <2>4. ASSUME NEW c \in Client, First.Id = c
        PROVE  Top(c)' = Top(c)
    <3>1. PICK m \in Nat, s \in Nat :
            m = MovedOf(c) /\ s = listener.size /\ MovedOf(c)' = m + s
      BY <1>3, <2>4, StoreStream, MovedFacts
    <3>2. (m + s) + 0 = m + s
      OBVIOUS
    <3>3. Top(c) = m + s /\ Top(c)' = m + s
      BY <2>1, <2>2, <3>1, <3>2, Zenon DEF Top
    <3>4. QED
      BY <3>3
  <2>5. QED
    BY <2>1, <2>2, <2>3, <2>4, PolledKept
<1>4. CASE Announce
  <2>1. /\ listener.at = "announce"
        /\ listener' = IF First.ready > 0 THEN At("raise", 0) ELSE At("analysing", 1)
        /\ UNCHANGED <<callback, delivered, sent, wire, clientList>>
    BY <1>4, AnnounceEffect DEF peerVars
  <2>2. listener'.at = IF First.ready > 0 THEN "raise" ELSE "analysing"
    BY <2>1 DEF At
  <2>3. First' = First
    BY <2>1 DEF First
  <2>4. Reach' = Reach
    BY <2>1, <2>2, <2>3 DEF Reach
  <2>5. \A c \in Client : Top(c)' = Top(c)
    BY <2>1, <2>2, <2>3 DEF Top, MovedOf
  <2>6. QED
    BY <2>1, <2>2, <2>3, <2>4, <2>5, PolledKept
<1>5. CASE RaiseReady
  <2>1. /\ listener.at = "raise" /\ listener' = At("analysing", 1)
        /\ First' = [First EXCEPT !.ReadyFlag = TRUE]
        /\ UNCHANGED <<callback, delivered, sent, wire>>
    BY <1>5, RaiseReadyEffect DEF peerVars
  <2>2. listener'.at = "analysing"
    BY <2>1 DEF At
  <2>3. /\ First'.Id = First.Id /\ First'.ready = First.ready
        /\ First'.readyBuf = First.readyBuf /\ First'.inBuf = First.inBuf
    BY <2>1, FlagFirst
  <2>4. Reach' = Reach
    BY <2>1, <2>2, <2>3 DEF Reach
  <2>5. \A c \in Client : Top(c)' = Top(c)
    BY <2>1, <2>2, <2>3 DEF Top, MovedOf
  <2>6. QED
    BY <2>1, <2>2, <2>3, <2>4, <2>5, PolledKept
<1>6. QED
  BY <1>1, <1>2, <1>3, <1>4, <1>5

LEMMA PolledSend ==
  ASSUME Steady, ~callback, WireInv, InputInv, PolledInv,
         NEW d \in Client, SendByte(d)
  PROVE  PolledInv'
<1>1. UNCHANGED <<callback, clientList, listener, delivered>>
  BY DEF SendByte
<1>2. First' = First
  BY <1>1 DEF First
<1>3. \A c \in Client : First.Id = c => Top(c)' = Top(c)
  BY <1>1, SendStream DEF Top
<1>4. Reach' = Reach
  BY <1>1, <1>2 DEF Reach
<1>5. QED
  BY <1>1, <1>2, <1>3, <1>4, PolledKept

\* While Rx may go on with an entry whose flag is up, RxListen leaves it alone.
LEMMA FlagUpStill ==
  ASSUME Steady, ~callback, First.ReadyFlag
  PROVE  listener.at \in Still
  BY TypeFacts DEF Steady, ListenerInv, Listener, Place, Still, Moving, Busy

LEMMA PolledReturn ==
  ASSUME Steady, ~callback, PolledInv, RxClearFlag \/ RxResetReady
  PROVE  PolledInv'
<1>1. CASE RxClearFlag
  <2>1. /\ First' = [First EXCEPT !.ReadyFlag = FALSE]
        /\ UNCHANGED <<callback, listener, delivered, sent, wire>>
    BY <1>1, RxClearFlagEffect DEF peerVars
  <2>2. /\ First'.Id = First.Id /\ First'.ready = First.ready
        /\ First'.ReadyFlag = FALSE
        /\ First'.readyBuf = First.readyBuf /\ First'.inBuf = First.inBuf
    BY <2>1, FlagFirst
  <2>3. Reach' = Reach
    BY <2>1, <2>2 DEF Reach
  <2>4. \A c \in Client : Top(c)' = Top(c)
    BY <2>1, <2>2 DEF Top, MovedOf
  <2>5. QED
    BY <2>1, <2>2, <2>3, <2>4, PolledKept
<1>2. CASE RxResetReady
  <2>1. /\ First' = [First EXCEPT !.ready = 0]
        /\ UNCHANGED <<callback, listener, delivered, sent, wire>>
    BY <1>2, RxResetReadyEffect DEF peerVars
  <2>2. /\ First'.Id = First.Id /\ First'.ready = 0
        /\ First'.ReadyFlag = First.ReadyFlag
        /\ First'.readyBuf = First.readyBuf /\ First'.inBuf = First.inBuf
    BY <2>1, ResetFirst
  <2>3. Reach' = Reach \/ (Whole(Reach') /\ Reach' \in Nat /\ Reach' <= Reach)
    <3>1. CASE listener.at = "load"
      <4>1. PICK s \in Nat, r \in Nat :
              s = listener.size /\ r = First.ready /\ Reach = r + s
        BY <3>1, ReachFacts
      <4>2. 0 + s = s /\ s <= r + s
        OBVIOUS
      <4>3. Reach' = s
        BY <2>1, <2>2, <3>1, <4>1, <4>2, Zenon DEF Reach
      <4>4. Whole(s)
        BY <3>1, <4>1 DEF Steady, ListenerInv, Moving
      <4>5. QED
        BY <4>1, <4>2, <4>3, <4>4
    <3>2. CASE listener.at = "store"
      BY <2>1, <3>2 DEF Reach
    <3>3. CASE listener.at \notin {"load", "store"}
      <4>1. Reach' = 0
        BY <2>1, <2>2, <3>3 DEF Reach
      <4>2. QED
        BY <4>1, WholeZero, ReachFacts
    <3>4. QED
      BY <3>1, <3>2, <3>3
  <2>4. \A c \in Client : Top(c)' = Top(c)
    BY <2>1, <2>2 DEF Top, MovedOf
  <2>5. QED
    BY <2>1, <2>2, <2>3, <2>4, PolledKept
<1>3. QED
  BY <1>1, <1>2

\* The last package that was fetched of c begins with one of its bytes.
LEMMA LastFetched ==
  ASSUME Steady, NEW c \in Client, HistoryOf(c), delivered[c] # <<>>
  PROVE  /\ Len(delivered[c]) \in Nat \ {0}
         /\ delivered[c][Len(delivered[c])][1][2] \in Nat
<1>1. /\ delivered[c] \in Seq([1..PackageSize -> AnyByte])
      /\ Len(delivered[c]) \in Nat \ {0} /\ DOMAIN delivered[c] = 1..Len(delivered[c])
  BY TypeFacts, LenProperties, EmptySeq
<1>2. PICK l \in Nat \ {0} : l = Len(delivered[c])
  BY <1>1
<1>3. l \in DOMAIN delivered[c]
  BY <1>1, <1>2
<1>4. PICK o \in 0..(MaxBytes - PackageSize) :
        delivered[c][l] = Stream(c, o, PackageSize)
  BY <1>3 DEF HistoryOf
<1>5. Stream(c, o, PackageSize)[1] = Byte(c, o + 1)
  BY SizeFacts DEF Stream
<1>6. Byte(c, o + 1)[2] = o + 1
  BY DEF Byte
<1>7. o + 1 \in Nat
  OBVIOUS
<1>8. QED
  BY <1>1, <1>2, <1>4, <1>5, <1>6, <1>7

\* memcpy() adds the next packages of the stream behind those in the buffer, of
\* which one may be stale.
LEMMA PolledCopy ==
  ASSUME Steady, Steady', ~callback, WireInv, InputInv, PolledInv, CopyPackages
  PROVE  PolledInv'
<1>1. /\ listener.at = "copy" /\ First.Id \in Client
      /\ listener.size \in 1..Len(First.inBuf)
      /\ First.ready + listener.size <= Capacity
      /\ listener' = [listener EXCEPT !.at = "load"]
      /\ UNCHANGED <<callback, delivered, sent, wire>>
  BY CopyPackagesEffect DEF Steady, peerVars
<1>2. /\ First'.Id = First.Id /\ First'.ReadyFlag = First.ReadyFlag
      /\ First'.inBuf = First.inBuf /\ First'.ready = First.ready
      /\ First'.readyBuf = CopiedBehind(First, listener.size)
  BY CopiedFirst DEF Steady
<1>3. listener'.at = "load" /\ listener'.size = listener.size
  BY <1>1, TypeFacts DEF Listener
<1>4. \A d \in Client : HistoryOf(d)'
  BY <1>1, HistoryKept DEF PolledInv
<1>5. ASSUME NEW c \in Client, First'.Id = c
      PROVE  BufferOf(c)'
  <2>1. First.Id = c /\ BufferOf(c) /\ HistoryOf(c)
    BY <1>2, <1>5 DEF PolledInv
  <2>2. PICK r \in Nat, s \in Nat, m \in Nat, n \in Nat :
          /\ r = First.ready /\ s = listener.size /\ m = MovedOf(c)
          /\ n = Len(First.inBuf)
          /\ Whole(r) /\ Whole(s) /\ Whole(m) /\ s >= 1 /\ s <= n
          /\ Reach = r /\ Top(c) = m /\ r + s <= Capacity
    <3>1. /\ First.ready \in Nat /\ listener.size \in Nat /\ MovedOf(c) \in Nat
          /\ Len(First.inBuf) \in Nat /\ Whole(MovedOf(c))
      BY <2>1, MovedFacts, StreamTypes, ReachFacts
    <3>2. Whole(listener.size)
      BY <1>1 DEF Steady, ListenerInv, Moving
    <3>3. Reach = First.ready /\ Top(c) = MovedOf(c)
      BY <1>1, <2>1, ReachFacts, TopFacts
    <3>4. Whole(First.ready)
      BY <2>1, <3>3 DEF BufferOf
    <3>5. QED
      BY <1>1, <3>1, <3>2, <3>3, <3>4
  <2>3. s >= PackageSize
    BY <2>2, WholePositive
  <2>4. Reach' = r + s /\ Top(c)' = m + s
    BY <1>1, <1>2, <1>3, <2>2 DEF Reach, Top, MovedOf
  <2>5. /\ \A j \in 1..r : First'.readyBuf[j] = First.readyBuf[j]
        /\ \A j \in 1..s : First'.readyBuf[r + j] = Byte(c, m + j)
    <3>1. First \in Entry /\ listener.size \in 0..Len(First.inBuf)
      BY <1>1, SteadyFacts
    <3>2. /\ \A j \in 1..First.ready :
               CopiedBehind(First, listener.size)[j] = First.readyBuf[j]
          /\ \A j \in 1..listener.size :
               CopiedBehind(First, listener.size)[First.ready + j] = First.inBuf[j]
      BY <1>1, <3>1, CopiedBytes
    <3>3. \A j \in 1..n : First.inBuf[j] = Byte(c, m + j)
      BY <2>1, <2>2, MovedFacts
    <3>4. \A j \in 1..s : j \in 1..n
      BY <2>2
    <3>5. QED
      BY <1>2, <2>2, <3>2, <3>3, <3>4
  <2>6. ASSUME NEW p \in 0..(r - PackageSize), Whole(p)
        PROVE  /\ Offset(p)' = Offset(p) /\ Good(c, p)'
               /\ Offset(p) \in Nat /\ Offset(p) <= m - PackageSize
    <3>1. /\ Offset(p) \in 0..(m - PackageSize) /\ Whole(Offset(p))
          /\ \A j \in 1..PackageSize : First.readyBuf[p + j] = Byte(c, Offset(p) + j)
      BY <2>1, <2>2, <2>6 DEF BufferOf, Good
    <3>2. \A j \in 1..PackageSize : p + j \in 1..r /\ p + 1 \in 1..r
      BY SizeFacts
    <3>3. Offset(p)' = Offset(p)
      BY <2>5, <3>2, SizeFacts DEF Offset
    <3>4. \A j \in 1..PackageSize : First'.readyBuf[p + j] = Byte(c, Offset(p) + j)
      BY <2>5, <3>1, <3>2
    <3>5. Offset(p) \in 0..((m + s) - PackageSize)
      <4>1. \A o \in 0..(m - PackageSize) : o \in 0..((m + s) - PackageSize)
        BY SizeFacts
      <4>2. QED
        BY <3>1, <4>1, Zenon
    <3>6. Good(c, p)'
      BY <2>4, <3>1, <3>3, <3>4, <3>5 DEF Good, Whole
    <3>7. QED
      BY <3>1, <3>3, <3>6
  <2>7. ASSUME NEW p \in r..((r + s) - PackageSize), Whole(p)
        PROVE  Offset(p)' = m + (p - r) /\ Good(c, p)'
    <3>1. PICK k \in Nat :
            k = p - r /\ p = r + k /\ k + PackageSize <= s /\ p \in Nat
      <4>1. p \in Nat /\ p - r \in Nat
        BY SizeFacts
      <4>2. p = r + (p - r) /\ (p - r) + PackageSize <= s
        BY <4>1, SizeFacts
      <4>3. QED
        BY <4>1, <4>2
    <3>2. Whole(k) /\ Whole(m + k)
      <4>1. p \in Nat /\ r <= p /\ Whole(p) /\ Whole(r)
        BY <2>2, <2>7, <3>1
      <4>2. Whole(p - r)
        BY <4>1, WholeDifference
      <4>3. Whole(k)
        BY <3>1, <4>2
      <4>4. QED
        BY <2>2, <4>3, WholeSum
    <3>3. ASSUME NEW j \in 1..PackageSize
          PROVE  First'.readyBuf[p + j] = Byte(c, (m + k) + j)
      <4>1. /\ k + j \in 1..s /\ p + j = r + (k + j)
            /\ (m + k) + j = m + (k + j)
        BY <3>1, SizeFacts
      <4>2. QED
        BY <2>5, <4>1
    <3>4. Offset(p)' = m + k
      <4>1. First'.readyBuf[p + 1] = Byte(c, (m + k) + 1)
        BY <3>3, SizeFacts
      <4>2. Byte(c, (m + k) + 1)[2] = (m + k) + 1 /\ ((m + k) + 1) - 1 = m + k
        BY DEF Byte
      <4>3. QED
        BY <4>1, <4>2, Zenon DEF Offset
    <3>5. m + k \in 0..((m + s) - PackageSize)
      BY <3>1, SizeFacts
    <3>6. Good(c, p)'
      BY <2>4, <3>2, <3>3, <3>4, <3>5 DEF Good, Whole
    <3>7. QED
      BY <3>1, <3>4, <3>6
  <2>8. ASSUME NEW p \in 0..((r + s) - PackageSize), Whole(p)
        PROVE  p \in 0..(r - PackageSize) \/ p \in r..((r + s) - PackageSize)
    <3>1. CASE p < r
      <4>1. p \in Nat /\ p <= r /\ r - p \in Nat /\ r - p > 0
        BY <3>1
      <4>2. Whole(r - p)
        BY <2>2, <2>8, <4>1, WholeDifference
      <4>3. r - p >= PackageSize
        BY <4>1, <4>2, WholePositive
      <4>4. QED
        BY <4>1, <4>3, SizeFacts
    <3>2. CASE p >= r
      BY <3>2
    <3>3. QED
      BY <3>1, <3>2
  <2>9. \A p \in 0..((r + s) - PackageSize) : Whole(p) => Good(c, p)'
    BY <2>6, <2>7, <2>8
  <2>10. ASSUME NEW p \in 0..((r + s) - PackageSize),
                NEW q \in 0..((r + s) - PackageSize), Whole(p), Whole(q), p <= q
         PROVE  Offset(p)' <= Offset(q)'
    <3>1. CASE p \in 0..(r - PackageSize) /\ q \in 0..(r - PackageSize)
      BY <2>1, <2>2, <2>6, <2>10, <3>1 DEF BufferOf
    <3>2. CASE p \in 0..(r - PackageSize) /\ q \in r..((r + s) - PackageSize)
      <4>1. Offset(p)' <= m - PackageSize /\ Offset(q)' = m + (q - r)
            /\ Offset(p)' \in Nat
        BY <2>6, <2>7, <2>10, <3>2
      <4>2. QED
        BY <3>2, <4>1, SizeFacts
    <3>3. CASE p \in r..((r + s) - PackageSize) /\ q \in r..((r + s) - PackageSize)
      <4>1. Offset(p)' = m + (p - r) /\ Offset(q)' = m + (q - r)
        BY <2>7, <2>10, <3>3
      <4>2. QED
        BY <2>10, <3>3, <4>1
    <3>4. CASE p \in r..((r + s) - PackageSize) /\ q \in 0..(r - PackageSize)
      BY <2>10, <3>4, SizeFacts
    <3>5. QED
      BY <2>8, <2>10, <3>1, <3>2, <3>3, <3>4
  <2>11. Good(c, 0)'
    <3>1. 0 \in 0..((r + s) - PackageSize)
      BY <2>3, SizeFacts
    <3>2. QED
      BY <2>9, <3>1, WholeZero
  <2>12. ASSUME delivered[c] # <<>>
         PROVE  delivered[c][Len(delivered[c])][1][2] <= 1 + Offset(0)'
    <3>1. /\ Good(c, 0)
          /\ delivered[c][Len(delivered[c])][1][2] <= 1 + Offset(0)
          /\ delivered[c][Len(delivered[c])][1][2] \in Nat
      BY <2>1, <2>12, LastFetched DEF BufferOf
    <3>2. Offset(0) \in 0..(m - PackageSize)
      BY <2>2, <3>1 DEF Good
    <3>3. CASE r > 0
      <4>1. 0 \in 0..(r - PackageSize)
        BY <2>2, <3>3, WholePositive, SizeFacts
      <4>2. Offset(0)' = Offset(0)
        BY <2>6, <4>1, WholeZero
      <4>3. QED
        BY <3>1, <4>2
    <3>4. CASE r = 0
      <4>1. 0 \in r..((r + s) - PackageSize)
        BY <2>3, <3>4, SizeFacts
      <4>2. Offset(0)' = m + (0 - r)
        BY <2>7, <4>1, WholeZero
      <4>3. Offset(0)' = m
        BY <3>4, <4>2
      <4>4. Offset(0) <= m
        BY <3>2, SizeFacts
      <4>5. QED
        BY <3>1, <3>2, <4>3, <4>4
    <3>5. QED
      BY <3>3, <3>4
  <2>13. Whole(Reach')
    BY <2>2, <2>4, WholeSum
  <2>14. QED
    BY <1>1, <2>4, <2>9, <2>10, <2>11, <2>12, <2>13 DEF BufferOf, Whole
<1>6. QED
  BY <1>1, <1>4, <1>5 DEF PolledInv

\* Rx hands over the package at the start of the buffer.
LEMMA PolledFetch ==
  ASSUME Steady, ~callback, WireInv, InputInv, PolledInv,
         NEW i \in Slot, RxCopy(i), Running'
  PROVE  PolledInv'
<1>1. /\ First.Id \in Client /\ First.ReadyFlag
      /\ delivered' = [delivered EXCEPT ![First.Id] =
                         Append(@, ReadyPackage(First, 1))]
      /\ UNCHANGED <<callback, listener, clientList, sent, wire>>
  BY RxCopyEffect DEF peerVars
<1>2. PICK c \in Client : c = First.Id
  BY <1>1
<1>3. /\ PackageAt(First, 0) \in [1..PackageSize -> AnyByte]
      /\ delivered' = [delivered EXCEPT ![c] = Append(@, PackageAt(First, 0))]
  BY <1>1, <1>2, CopiedPackage
<1>4. /\ Len(delivered[c]) \in Nat /\ Len(delivered'[c]) = Len(delivered[c]) + 1
      /\ delivered'[c][Len(delivered[c]) + 1] = PackageAt(First, 0)
      /\ \A k \in 1..Len(delivered[c]) : delivered'[c][k] = delivered[c][k]
      /\ \A d \in Client : d # c => delivered'[d] = delivered[d]
      /\ delivered'[c] \in Seq([1..PackageSize -> AnyByte])
  BY <1>3, AppendPackage
<1>5. HistoryOf(c) /\ BufferOf(c) /\ Good(c, 0)
  BY <1>1, <1>2 DEF PolledInv, BufferOf
<1>6. PICK l \in Nat, o \in Nat :
        /\ l = Len(delivered[c]) /\ o = Offset(0) /\ Whole(o)
        /\ o \in 0..(MaxBytes - PackageSize)
        /\ \A j \in 1..PackageSize : First.readyBuf[0 + j] = Byte(c, o + j)
  <2>1. /\ Offset(0) \in 0..(Top(c) - PackageSize) /\ Whole(Offset(0))
        /\ \A j \in 1..PackageSize : First.readyBuf[0 + j] = Byte(c, Offset(0) + j)
    BY <1>5 DEF Good
  <2>2. PICK t \in Nat : t = Top(c) /\ t <= MaxBytes
    BY <1>2, TopFacts
  <2>3. \A o \in 0..(t - PackageSize) : o \in 0..(MaxBytes - PackageSize) /\ o \in Nat
    BY <2>2, SizeFacts
  <2>4. QED
    BY <1>4, <2>1, <2>2, <2>3
<1>7. PackageAt(First, 0) = Stream(c, o, PackageSize)
  BY <1>6 DEF PackageAt, Stream
<1>8. PackageAt(First, 0)[1][2] = o + 1
  <2>1. Stream(c, o, PackageSize)[1] = Byte(c, o + 1)
    BY SizeFacts DEF Stream
  <2>2. QED
    BY <1>7, <2>1 DEF Byte
<1>9. DOMAIN delivered'[c] = 1..(l + 1) /\ DOMAIN delivered[c] = 1..l
  BY <1>4, <1>6, LenProperties, TypeFacts
<1>10. \A k \in 1..(l + 1) : k \in 1..l \/ k = l + 1
  OBVIOUS
<1>11. \A k \in 1..(l + 1) :
         \E q \in 0..(MaxBytes - PackageSize) :
           Whole(q) /\ delivered'[c][k] = Stream(c, q, PackageSize)
  <2>1. \A k \in 1..l :
          \E q \in 0..(MaxBytes - PackageSize) :
            Whole(q) /\ delivered'[c][k] = Stream(c, q, PackageSize)
    BY <1>4, <1>5, <1>6, <1>9 DEF HistoryOf
  <2>2. delivered'[c][l + 1] = Stream(c, o, PackageSize)
    BY <1>4, <1>6, <1>7
  <2>3. QED
    BY <1>6, <1>10, <2>1, <2>2
<1>12. ASSUME NEW k \in 2..(l + 1)
       PROVE  delivered'[c][k][1][2] >= delivered'[c][k - 1][1][2]
  <2>1. CASE k \in 2..l
    <3>1. k \in 1..l /\ k - 1 \in 1..l
      BY <2>1
    <3>2. delivered[c][k][1][2] >= delivered[c][k - 1][1][2]
      BY <1>5, <1>6, <2>1 DEF HistoryOf
    <3>3. QED
      BY <1>4, <1>6, <3>1, <3>2
  <2>2. CASE k = l + 1
    <3>1. k - 1 = l /\ l \in 1..l /\ l # 0
      BY <2>2
    <3>2. delivered[c] # <<>>
      BY <1>6, <3>1, UnusedEntry
    <3>3. /\ delivered[c][l][1][2] <= 1 + o /\ delivered[c][l][1][2] \in Nat
      BY <1>5, <1>6, <3>2, LastFetched DEF BufferOf
    <3>4. delivered'[c][l] = delivered[c][l]
      BY <1>4, <1>6, <3>1
    <3>5. delivered'[c][k][1][2] = o + 1
      BY <1>4, <1>6, <1>8, <2>2
    <3>6. PICK x \in Nat : x = delivered[c][l][1][2] /\ x <= 1 + o
      BY <3>3
    <3>7. o + 1 >= x
      BY <3>6
    <3>8. QED
      BY <3>1, <3>4, <3>5, <3>6, <3>7
  <2>3. QED
    BY <1>10, <2>1, <2>2
<1>13. HistoryOf(c)'
  <2>1. Len(delivered'[c]) = l + 1
    BY <1>4, <1>6
  <2>2. QED
    BY <1>9, <1>11, <1>12, <2>1 DEF HistoryOf, Whole
<1>14. \A d \in Client : d # c => HistoryOf(d)'
  BY <1>4, HistoryKept DEF PolledInv
<1>15. BufferOf(c)'
  <2>1. First' = First /\ listener' = listener
    BY <1>1 DEF First
  <2>2. Reach' = Reach
    BY <2>1 DEF Reach
  <2>3. \A p : Offset(p)' = Offset(p)
    BY <2>1 DEF Offset
  <2>4. Top(c)' = Top(c)
    BY <1>1, <2>1 DEF Top, MovedOf
  <2>5. ASSUME NEW p, Good(c, p)
        PROVE  Good(c, p)'
    BY <2>1, <2>3, <2>4, <2>5 DEF Good, Whole
  <2>6. delivered'[c][Len(delivered'[c])][1][2] <= 1 + Offset(0)'
    <3>1. delivered'[c][Len(delivered'[c])][1][2] = o + 1
      BY <1>4, <1>6, <1>8
    <3>2. o + 1 <= 1 + o
      OBVIOUS
    <3>3. QED
      BY <1>6, <2>3, <3>1, <3>2
  <2>7. Good(c, 0)'
    BY <1>5, <2>5
  <2>8. QED
    BY <1>5, <2>2, <2>3, <2>5, <2>6, <2>7 DEF BufferOf, Whole
<1>16. QED
  BY <1>1, <1>2, <1>13, <1>14, <1>15 DEF PolledInv, First

\* memmove() takes the packages behind the first to the front.
LEMMA PolledShift ==
  ASSUME Steady, ~callback, WireInv, InputInv, PolledInv, RxShift, Running'
  PROVE  PolledInv'
<1>1. /\ app.at = "copied" /\ First.ready > PackageSize
      /\ First' = Shifted(First, First.ready - PackageSize)
      /\ UNCHANGED <<callback, listener, delivered, sent, wire>>
  BY RxShiftEffect DEF peerVars
<1>2. /\ First'.Id = First.Id /\ First'.ReadyFlag = First.ReadyFlag
      /\ First'.inBuf = First.inBuf
      /\ First'.ready = First.ready - PackageSize
      /\ \A j \in 1..(First.ready - PackageSize) :
           First'.readyBuf[j] = First.readyBuf[j + PackageSize]
  BY <1>1, ShiftedEntry, SteadyFacts
<1>3. listener.at \in Still
  BY <1>1, FetchFacts, FlagUpStill DEF Fetching
<1>4. \A d \in Client : HistoryOf(d)'
  BY <1>1, HistoryKept DEF PolledInv
<1>5. ASSUME NEW c \in Client, First'.Id = c
      PROVE  BufferOf(c)'
  <2>1. First.Id = c /\ BufferOf(c)
    BY <1>2, <1>5 DEF PolledInv
  <2>2. PICK r \in Nat, z \in Nat :
          /\ r = First.ready /\ z = PackageSize /\ z >= 1
          /\ Reach = r /\ Reach' = r - z /\ r - z > 0
    <3>1. Reach = First.ready /\ First.ready \in Nat /\ PackageSize \in Nat \ {0}
      BY <1>3, ReachFacts, SizeFacts DEF Still
    <3>2. Reach' = First.ready - PackageSize
      BY <1>1, <1>2, <1>3 DEF Reach, Still
    <3>3. QED
      BY <1>1, <3>1, <3>2
  <2>3. Top(c)' = Top(c)
    BY <1>1, <1>2 DEF Top, MovedOf
  <2>4. Whole(z) /\ Whole(r) /\ Whole(r - z)
    <3>1. 1 * PackageSize = PackageSize /\ PackageSize \in Nat
      BY SizeFacts
    <3>2. Whole(z)
      BY <2>2, <3>1, WholeProduct
    <3>3. Whole(r)
      BY <2>1, <2>2 DEF BufferOf
    <3>4. QED
      BY <2>2, <3>2, <3>3, WholeDifference
  <2>5. r - z >= z
    BY <2>2, <2>4, WholePositive
  <2>6. ASSUME NEW p \in 0..((r - z) - z)
        PROVE  /\ p + z \in 0..(r - z) /\ p + z \in Nat /\ p \in Nat
               /\ \A j \in 1..z : First'.readyBuf[p + j] = First.readyBuf[(p + z) + j]
    <3>1. p + z \in 0..(r - z) /\ p + z \in Nat /\ p \in Nat
      BY <2>2
    <3>2. ASSUME NEW j \in 1..z
          PROVE  First'.readyBuf[p + j] = First.readyBuf[(p + z) + j]
      <4>1. p + j \in 1..(r - z) /\ (p + j) + z = (p + z) + j
        BY <2>2
      <4>2. QED
        BY <1>2, <2>2, <4>1
    <3>3. QED
      BY <3>1, <3>2
  <2>7. ASSUME NEW p \in 0..((r - z) - z)
        PROVE  Offset(p)' = Offset(p + z)
    <3>1. First'.readyBuf[p + 1] = First.readyBuf[(p + z) + 1]
      BY <2>2, <2>6
    <3>2. QED
      BY <3>1 DEF Offset
  <2>8. ASSUME NEW p \in 0..((r - z) - z), Whole(p)
        PROVE  Whole(p + z) /\ Good(c, p)'
    <3>1. Whole(p + z) /\ p + z \in 0..(Reach - PackageSize)
      BY <2>2, <2>4, <2>6, <2>8, WholeSum
    <3>2. Good(c, p + z)
      BY <2>1, <3>1 DEF BufferOf
    <3>3. /\ Offset(p)' \in 0..(Top(c)' - PackageSize) /\ Whole(Offset(p)')
          /\ \A j \in 1..PackageSize : First'.readyBuf[p + j] = Byte(c, Offset(p)' + j)
      BY <2>2, <2>3, <2>6, <2>7, <3>2 DEF Good
    <3>4. QED
      BY <3>1, <3>3 DEF Good, Whole
  <2>9. ASSUME NEW p \in 0..((r - z) - z), NEW q \in 0..((r - z) - z),
               Whole(p), Whole(q), p <= q
        PROVE  Offset(p)' <= Offset(q)'
    <3>1. /\ p + z \in 0..(Reach - PackageSize) /\ q + z \in 0..(Reach - PackageSize)
          /\ p + z <= q + z
      BY <2>2, <2>6, <2>9
    <3>2. Offset(p + z) <= Offset(q + z)
      BY <2>1, <2>8, <2>9, <3>1 DEF BufferOf
    <3>3. QED
      BY <2>7, <3>2
  <2>10. 0 \in 0..((r - z) - z)
    BY <2>2, <2>5
  <2>11. Good(c, 0)'
    BY <2>8, <2>10, WholeZero
  <2>12. ASSUME delivered[c] # <<>>
         PROVE  delivered[c][Len(delivered[c])][1][2] <= 1 + Offset(0)'
    <3>1. /\ Good(c, 0)
          /\ delivered[c][Len(delivered[c])][1][2] <= 1 + Offset(0)
          /\ delivered[c][Len(delivered[c])][1][2] \in Nat
      BY <2>1, <2>12, LastFetched DEF BufferOf, PolledInv
    <3>2. z \in 0..(Reach - PackageSize) /\ 0 \in 0..(Reach - PackageSize) /\ 0 <= z
      BY <2>2, <2>5
    <3>3. Good(c, z) /\ Offset(0) <= Offset(z)
      BY <2>1, <2>4, <3>2, WholeZero DEF BufferOf
    <3>4. Offset(0)' = Offset(z)
      <4>1. 0 + z = z
        BY <2>2
      <4>2. QED
        BY <2>7, <2>10, <4>1
    <3>5. Offset(0) \in Int /\ Offset(z) \in Int
      BY <3>1, <3>3, TopFacts, SizeFacts DEF Good
    <3>6. QED
      BY <3>1, <3>3, <3>4, <3>5
  <2>13. QED
    BY <1>1, <2>2, <2>4, <2>8, <2>9, <2>11, <2>12 DEF BufferOf, Whole
<1>6. QED
  BY <1>1, <1>4, <1>5 DEF PolledInv

LEMMA PolledInductive ==
  ASSUME Steady, Steady', WireInv, InputInv, PolledInv, Next
  PROVE  PolledInv'
<1>1. Running'
  BY DEF Steady
<1>2. UNCHANGED callback
  <2>1. NeutralStep \/ ClearingStep \/ QuietStep => UNCHANGED callback
    BY DEF NeutralStep, ClearingStep, QuietStep
  <2>2. FillEntry \/ StoreReady \/ Receive => UNCHANGED callback
    BY FillEntryEffect, StoreReadyEffect, ReceiveEffect
  <2>3. \A c \in Client : SendByte(c) => UNCHANGED callback
    BY DEF SendByte
  <2>4. QED
    BY <1>1, <2>1, <2>2, <2>3, StepKinds, ListenerQuiet, FetchQuiet
<1>3. CASE callback
  BY <1>2, <1>3 DEF PolledInv
<1>4. CASE ~callback
  <2>1. ~Call /\ ~Called
    BY <1>4, CallEffect, CalledEffect DEF Steady, ListenerInv
  <2>2. QED
    BY <1>1, <1>4, <2>1, StepKinds, PolledNeutral, PolledClearing, PolledFill,
       PolledListener, PolledSend, PolledReturn, PolledCopy, PolledFetch, PolledShift
<1>5. QED
  BY <1>3, <1>4

-----------------------------------------------------------------------------
(* The invariant.                                                          *)

LEMMA SocketInductive ==
  ASSUME Steady, SocketInv, Next, Running'
  PROVE  SocketInv'
<1>1. ASSUME UNCHANGED <<destroyed, rxSocket>>,
             app.at = app'.at \/ app.at \notin {"free", "clear", "forget"}
                \/ app'.at \in {"free", "clear", "forget"}
      PROVE  SocketInv'
  BY <1>1 DEF SocketInv
<1>2. ASSUME RxListen PROVE SocketInv'
  <2>1. ~Undefined
    BY DEF Undefined, Running
  <2>2. UNCHANGED <<rxSocket, app, destroyed>>
    BY <1>2, <2>1
       DEF RxListen, Accept, AcceptNothing, FindEntry, FillEntry, TestRaw, RawTested,
           Receive, TestReady, ReadyTested, CopyPackages, LoadReady, StoreReady,
           Announce, RaiseReady, Call, Called, Goto
  <2>3. QED
    BY <1>1, <2>2
<1>3. ASSUME InitRx PROVE SocketInv'
  BY <1>3 DEF InitRx, SocketInv
<1>4. ASSUME InitRxAgain PROVE SocketInv'
  BY <1>4 DEF InitRxAgain, SocketInv
<1>5. ASSUME Rx PROVE SocketInv'
  <2>1. ASSUME NEW i \in Slot, RxCopy(i) PROVE SocketInv'
    BY <1>1, <2>1, RxCopyEffect
  <2>2. CASE RxShift
    BY <1>1, <2>2, RxShiftEffect
  <2>3. CASE RxClearFlag
    BY <1>1, <2>3, RxClearFlagEffect
  <2>4. CASE RxResetReady
    BY <1>1, <2>4, RxResetReadyEffect
  <2>5. QED
    BY <1>5, <2>1, <2>2, <2>3, <2>4 DEF Rx
<1>6. ASSUME DestroyRx PROVE SocketInv'
  <2>1. app'.at = "free"
    BY <1>6 DEF DestroyRx, Return, Outside
  <2>2. QED
    BY <2>1 DEF SocketInv
<1>7. ASSUME Destroying PROVE SocketInv'
  <2>1. CASE DestroyBuffers
    <3>1. app'.at = "clear"
      BY <2>1, DestroyBuffersEffect, TypeFacts
    <3>2. QED
      BY <3>1 DEF SocketInv
  <2>2. CASE DestroyEntry
    BY <2>2, DestroyEntryEffect DEF SocketInv
  <2>3. CASE DestroySocket
    BY <2>3 DEF DestroySocket, SocketInv
  <2>4. QED
    BY <1>7, <2>1, <2>2, <2>3 DEF Destroying
<1>8. ASSUME NEW c \in Client, SendByte(c) PROVE SocketInv'
  BY <1>1, <1>8 DEF SendByte
<1>9. QED
  BY <1>2, <1>3, <1>4, <1>5, <1>6, <1>7, <1>8 DEF Next

\* With a callback nothing undefined happens before DestroyRx is called: an entry is
\* freed by nobody else, and memcpy() finds the ready buffer empty.
LEMMA SafeInductive ==
  ASSUME Steady, CallbackInv, Next
  PROVE  CallbackSafe'
<1> USE DEF CallbackSafe, Running
<1>1. ASSUME process' = process PROVE CallbackSafe'
  BY <1>1 DEF Steady
<1>2. ASSUME Undefined, ~callback \/ destroyed PROVE CallbackSafe'
  BY <1>2 DEF Undefined
<1>3. app.at \in Fetching => ~callback
  BY DEF Steady, FetchInv
<1>4. app.at \in {"free", "clear"} => destroyed
  BY DEF Steady, ListInv
<1>5. ASSUME NEW i \in Slot, clientList[i].freed PROVE destroyed
  <2>1. i = 0
    BY <1>5, SteadyFacts, UnusedEntry
  <2>2. QED
    BY <1>5, <2>1 DEF Steady, ListInv, First
<1>6. CASE FindEntry
  BY <1>1, <1>2, <1>3, <1>6 DEF FindEntry, Goto, Fetching
<1>7. ASSUME NEW i \in Slot, TestRaw(i) PROVE CallbackSafe'
  BY <1>1, <1>2, <1>5, <1>7 DEF TestRaw, Goto
<1>8. ASSUME NEW i \in Slot, TestReady(i) PROVE CallbackSafe'
  BY <1>1, <1>2, <1>5, <1>8 DEF TestReady, Goto
<1>9. CASE CopyPackages
  <2>1. listener.at = "copy" /\ Current = First
    BY <1>9, SteadyFacts DEF CopyPackages, Listen, Busy
  <2>2. ASSUME callback PROVE ~(Current.ready + listener.size > Capacity)
    <3>1. First.ready \in Nat /\ ~(First.ready > 0)
      BY <2>1, <2>2, SteadyFacts, EntryFacts DEF CallbackInv, CallbackFlow
    <3>2. listener.size \in 1..Len(First.inBuf)
      BY <2>1 DEF Steady, ListenerInv, Moving
    <3>3. Len(First.inBuf) \in Nat /\ Len(First.inBuf) <= Capacity
      BY SteadyFacts, EntryFacts, TypeFacts
    <3>4. First.ready = 0 /\ listener.size \in Nat /\ listener.size <= Capacity
      BY <3>1, <3>2, <3>3, SizeFacts
    <3>5. QED
      BY <2>1, <3>4, SizeFacts
  <2>3. QED
    BY <1>1, <1>2, <1>9, <2>2 DEF CopyPackages, Goto
<1>10. ASSUME NEW i \in Slot, RxCopy(i) PROVE CallbackSafe'
  BY <1>1, <1>2, <1>10 DEF RxCopy, Return
<1>11. CASE RxShift
  BY <1>1, <1>2, <1>3, <1>11 DEF RxShift, Return, Apply, Fetching
<1>12. CASE DestroyBuffers
  BY <1>1, <1>2, <1>4, <1>12 DEF DestroyBuffers, Return, Apply
<1>13. CASE DestroyEntry
  BY <1>1, <1>2, <1>4, <1>13 DEF DestroyEntry, Return, Apply
<1>14. CASE \/ (\E c \in Client : Accept(c)) \/ AcceptNothing \/ FillEntry
            \/ RawTested \/ Receive \/ ReadyTested \/ LoadReady \/ StoreReady
            \/ Announce \/ RaiseReady \/ Call \/ Called
  BY <1>1, <1>14
     DEF Accept, AcceptNothing, FillEntry, RawTested, Receive, ReadyTested,
         LoadReady, StoreReady, Announce, RaiseReady, Call, Called, Goto
<1>15. CASE \/ InitRx \/ InitRxAgain \/ RxClearFlag \/ RxResetReady \/ DestroyRx
            \/ DestroySocket \/ (\E c \in Client : SendByte(c))
  BY <1>1, <1>15
     DEF InitRx, InitRxAgain, RxClearFlag, RxResetReady, DestroyRx, DestroySocket,
         SendByte, Return
<1>16. QED
  BY <1>6, <1>7, <1>8, <1>9, <1>10, <1>11, <1>12, <1>13, <1>14, <1>15
     DEF Next, RxListen, Rx, Destroying

LEMMA IInvInitial == Init => IInv
<1> SUFFICES ASSUME Init
             PROVE  IInv
  OBVIOUS
<1>1. First = Unused
  BY SizeFacts DEF Init, First
<1>2. /\ process = "running" /\ callback \in BOOLEAN /\ rxSocket = "none"
      /\ clientList = [i \in Slot |-> Unused] /\ listener = At("none", 0)
      /\ app = Outside /\ connected = {} /\ destroyed = FALSE
      /\ sent = [c \in Client |-> 0] /\ wire = [c \in Client |-> <<>>]
      /\ delivered = [c \in Client |-> <<>>]
  BY DEF Init
<1>3. /\ listener.at = "none" /\ listener.slot = 0 /\ listener.peer = NoClient
      /\ listener.called = 0 /\ app.at = "out"
  BY <1>2 DEF At, Outside
<1>4. Len(<<>>) = 0
  BY UnusedEntry, Zenon
<1>5. TypeOK
  <2>1. /\ 0 \in 0..Capacity /\ 0 \in 0..MaxClients /\ 0 \in Slot
        /\ 0 \in 0..MaxBytes /\ 0 <= Capacity
    BY SizeFacts, SizeAssumption
  <2>2. \A i \in Slot : Len(clientList[i].inBuf) <= Capacity
    BY <1>2, <2>1, UnusedEntry
  <2>3. /\ listener \in Listener
        /\ app \in [at : {"out", "copied", "cleared", "free", "clear", "forget"},
                    slot : Slot, size : 0..Capacity]
    <3>1. "none" \in Place
      BY DEF Place
    <3>2. QED
      BY <1>2, <2>1, <3>1, AtType DEF Outside
  <2>4. /\ clientList \in [Slot -> Entry] /\ sent \in [Client -> 0..MaxBytes]
        /\ wire \in [Client -> Seq(AnyByte)]
        /\ delivered \in [Client -> Seq([1..PackageSize -> AnyByte])]
    BY <1>2, <2>1, UnusedEntry, EmptySeq
  <2>5. QED
    BY <1>2, <2>2, <2>3, <2>4 DEF TypeOK, Listener, Place
<1>6. ListInv /\ ListenerInv /\ FetchInv /\ SocketInv
  BY <1>1, <1>2, <1>3, UnusedEntry
     DEF ListInv, ListenerInv, FetchInv, SocketInv, Busy, Moving, Fetching
<1>7. WireInv
  BY <1>2, <1>4 DEF WireInv
<1>8. InputInv
  BY <1>1, UnusedEntry, SizeFacts DEF InputInv
<1>9. \A c \in Client : delivered[c] = <<>> /\ Len(delivered[c]) = 0
                        /\ DOMAIN delivered[c] = {} /\ sent[c] = 0
  BY <1>2, <1>4
<1>10. CallbackInv
  <2>1. CallbackFlow
    BY <1>1, <1>3, UnusedEntry DEF CallbackFlow
  <2>2. 0 * PackageSize <= 0
    BY SizeFacts
  <2>3. \A c \in Client : Handed(c)
    BY <1>9, <2>2 DEF Handed
  <2>4. QED
    BY <1>1, <2>1, <2>3, UnusedEntry, SizeFacts DEF CallbackInv
<1>11. PolledInv
  <2>1. 2..0 = {}
    OBVIOUS
  <2>2. \A c \in Client : HistoryOf(c)
    BY <1>9, <2>1 DEF HistoryOf
  <2>3. QED
    BY <1>1, <2>2, UnusedEntry, SizeFacts DEF PolledInv
<1>12. QED
  BY <1>2, <1>5, <1>6, <1>7, <1>8, <1>10, <1>11 DEF IInv, CallbackSafe, Running

LEMMA IInvStutters == IInv /\ UNCHANGED vars => IInv'
<1> SUFFICES ASSUME IInv, UNCHANGED vars
             PROVE  IInv'
  OBVIOUS
<1>1. /\ UNCHANGED <<process, callback, rxSocket, clientList, listener, app, connected,
                     destroyed, sent, wire, delivered>>
      /\ First' = First
  BY DEF vars, peerVars, First
<1>2. TypeOK' /\ CallbackSafe'
  BY <1>1 DEF IInv, TypeOK, CallbackSafe, Running
<1>3. ASSUME Running'
      PROVE  /\ ListInv' /\ ListenerInv' /\ FetchInv' /\ SocketInv'
             /\ WireInv' /\ InputInv' /\ CallbackInv' /\ PolledInv'
  <2>1. Steady /\ SocketInv /\ WireInv /\ InputInv /\ CallbackInv /\ PolledInv
    BY <1>1, <1>3 DEF IInv, Steady, Running
  <2>2. ListInv' /\ ListenerInv' /\ FetchInv' /\ SocketInv'
    BY <1>1, <2>1 DEF Steady, ListInv, ListenerInv, FetchInv, SocketInv, Whole
  <2>3. NeutralStep
    BY <1>1 DEF NeutralStep, SameFirst, NoneNew
  <2>4. WireInv' /\ InputInv'
    BY <1>1, <2>1, <2>3, WireKeeps, InputKeeps DEF NeutralStep
  <2>5. Steady'
    BY <1>2, <1>3, <2>2 DEF Steady
  <2>6. CallbackInv'
    BY <1>1, <2>1, <2>3, <2>5, CallbackNeutral DEF CallbackInv
  <2>7. PolledInv'
    BY <1>1, <2>1, <2>3, PolledNeutral DEF PolledInv
  <2>8. QED
    BY <2>2, <2>4, <2>6, <2>7
<1>4. QED
  BY <1>2, <1>3 DEF IInv, Running

\* Every step is one of a program that runs.
LEMMA NextRuns == Next => Running
  BY DEF Next, RxListen, Rx, Destroying, Accept, AcceptNothing, FindEntry, FillEntry,
         TestRaw, RawTested, Receive, TestReady, ReadyTested, CopyPackages, LoadReady,
         StoreReady, Announce, RaiseReady, Call, Called, InitRx, InitRxAgain, RxCopy,
         RxShift, RxClearFlag, RxResetReady, DestroyRx, DestroyBuffers, DestroyEntry,
         DestroySocket, SendByte, Listen, Apply, Running

LEMMA Invariance == Spec => []IInv
<1>1. IInv /\ Next => IInv'
  <2> SUFFICES ASSUME IInv, Next
               PROVE  IInv'
    OBVIOUS
  <2>1. /\ Steady /\ SocketInv /\ WireInv /\ InputInv /\ CallbackInv /\ PolledInv
    BY NextRuns DEF IInv, Steady
  <2>2. CallbackSafe'
    BY <2>1, SafeInductive
  <2>3. CASE ~Running'
    BY <2>2, <2>3 DEF IInv, TypeOK, Running
  <2>4. CASE Running'
    <3>1. CallWithin
      BY <2>1, CallIsWithin
    <3>2. TypeOK' /\ ListInv' /\ ListenerInv' /\ FetchInv' /\ SocketInv'
      BY <2>1, <2>4, <3>1, TypeInductive, ListInductive, ListenerInductive,
         SocketInductive
    <3>3. Steady'
      BY <2>4, <3>2 DEF Steady
    <3>4. WireInv' /\ InputInv' /\ CallbackInv' /\ PolledInv'
      BY <2>1, <2>4, <3>3, StreamInductive, CallbackInductive, PolledInductive
    <3>5. QED
      BY <2>2, <3>2, <3>4 DEF IInv
  <2>5. QED
    BY <2>3, <2>4
<1>2. QED
  BY <1>1, IInvInitial, IInvStutters, PTL DEF Spec

-----------------------------------------------------------------------------
(* The theorems.                                                           *)

\* While nothing undefined has happened the variables keep their types; above all
\* recv() is never given more room than the input buffer has.
THEOREM TypeCorrect == Spec => []TypeOK
<1>1. IInv => TypeOK
  BY DEF IInv
<1>2. QED
  BY <1>1, Invariance, PTL

\* With a callback nothing undefined happens before DestroyRx is called, however many
\* connections replace each other: the unguarded memcpy() finds room, as the ready
\* buffer is empty whenever it runs.
THEOREM CallbackIsSafe == Spec => []CallbackSafe
<1>1. IInv => CallbackSafe
  BY DEF IInv
<1>2. QED
  BY <1>1, Invariance, PTL

\* The callback is given the packages a peer sends, whole, in order, from the first
\* and without a gap, whatever becomes of the connection, also beside a DestroyRx,
\* as long as that does not take away the buffer at hand.
THEOREM CallbackOrder == Spec => []CallbackInOrder
<1>1. IInv => CallbackInOrder
  BY DEF IInv, CallbackInv, Handed, CallbackInOrder, InOrder
<1>2. QED
  BY <1>1, Invariance, PTL

\* With the callback, each byte that was sent on a listed connection is in exactly
\* one of the places it passes: RxListen loses none in moving it from one to the
\* other.
THEOREM CallbackComplete == Spec => []NothingLost
<1>1. IInv => NothingLost
  <2> SUFFICES ASSUME IInv, callback, Running, NEW c \in Client, Listed(c)
               PROVE  Bytes(c) = sent[c]
    BY DEF NothingLost
  <2>1. Steady /\ InputInv /\ First.Id = c /\ HeldOf(c)
    BY SteadyFacts DEF IInv, Steady, CallbackInv
  <2>2. SlotOf(c) = 0
    <3>1. \A i \in Slot : clientList[i].Id = c <=> i = 0
      BY <2>1, SteadyFacts, UnusedEntry, SizeFacts DEF First
    <3>2. QED
      BY <3>1, SizeFacts DEF SlotOf
  <2>3. (IF listener.slot = 0 THEN listener.called ELSE 0) = listener.called
    BY <2>1 DEF Steady, ListenerInv, Busy
  <2>4. Bytes(c) = Len(delivered[c]) * PackageSize + (First.ready - listener.called)
                     + Len(First.inBuf) + Len(wire[c])
    BY <2>2, <2>3 DEF Bytes, First
  <2>5. PICK m \in Nat, r \in Nat, n \in Nat, y \in Nat, z \in Nat :
          /\ m = MovedOf(c) /\ r = First.ready /\ n = listener.called
          /\ y = Len(wire[c]) /\ z = Len(First.inBuf)
    BY <2>1, MovedFacts, StreamTypes, TypeFacts DEF Listener
  <2>6. (m - r) + n = Len(delivered[c]) * PackageSize
    BY <2>1, <2>5 DEF HeldOf
  <2>7. m + z + y = sent[c]
    BY <2>1, <2>5, MovedFacts
  <2>8. Bytes(c) = ((m - r) + n) + (r - n) + z + y
    BY <2>4, <2>5, <2>6, Zenon
  <2>9. ((m - r) + n) + (r - n) + z + y = m + z + y
    OBVIOUS
  <2>10. QED
    BY <2>7, <2>8, <2>9
<1>2. QED
  BY <1>1, Invariance, PTL

\* As many packages as have been sent in whole.
LEMMA PackageNumbers ==
  ASSUME NEW c \in Client, NEW m \in Nat, m >= 1, m * PackageSize <= MaxBytes
  PROVE  /\ m \in 1..(MaxBytes \div PackageSize)
         /\ Package(c, m)[1][2] = (m - 1) * PackageSize + 1
<1>1. m <= MaxBytes \div PackageSize
  BY QuotientOfProduct, SizeFacts
<1>2. Package(c, m)[1] = Byte(c, (m - 1) * PackageSize + 1)
  BY SizeFacts DEF Package
<1>3. QED
  BY <1>1, <1>2, QuotientBounds, SizeFacts DEF Byte

LEMMA DeliveredDomain ==
  ASSUME Steady, NEW c \in Client
  PROVE  /\ Len(delivered[c]) \in Nat
         /\ DOMAIN delivered[c] = 1..Len(delivered[c])
         /\ \A k \in 2..Len(delivered[c]) :
              /\ k \in DOMAIN delivered[c] /\ k - 1 \in DOMAIN delivered[c]
              /\ k \in Nat /\ k >= 2 /\ k - 1 \in Nat /\ k - 1 >= 1
<1>1. /\ Len(delivered[c]) \in Nat
      /\ DOMAIN delivered[c] = 1..Len(delivered[c])
  BY TypeFacts, LenProperties
<1>2. QED
  BY <1>1

LEMMA CallbackNumbers ==
  ASSUME Steady, CallbackInv, callback, NEW c \in Client, NEW k \in DOMAIN delivered[c]
  PROVE  /\ delivered[c][k] = Package(c, k) /\ k \in Nat /\ k >= 1
         /\ k * PackageSize <= MaxBytes
<1>1. k \in 1..Len(delivered[c]) /\ Len(delivered[c]) \in Nat
  BY DeliveredDomain
<1>2. PICK x \in Nat, y \in Nat :
        x = k * PackageSize /\ y = Len(delivered[c]) * PackageSize
  BY <1>1, SizeFacts
<1>3. x <= y
  BY <1>1, <1>2, ProductGrows, SizeFacts
<1>4. /\ delivered[c][k] = Package(c, k)
      /\ y <= sent[c] /\ sent[c] \in Nat /\ sent[c] <= MaxBytes
  BY <1>2, StreamTypes DEF CallbackInv, Handed
<1>5. x <= MaxBytes
  BY <1>3, <1>4, SizeFacts
<1>6. QED
  BY <1>1, <1>2, <1>4, <1>5

\* Where the application polls, what it fetched is a package too.
LEMMA PolledNumbers ==
  ASSUME Steady, NEW c \in Client, HistoryOf(c), NEW k \in DOMAIN delivered[c]
  PROVE  \E m \in 1..(MaxBytes \div PackageSize) : delivered[c][k] = Package(c, m)
<1>1. PICK o \in 0..(MaxBytes - PackageSize) :
        Whole(o) /\ delivered[c][k] = Stream(c, o, PackageSize)
  BY DEF HistoryOf
<1>2. PICK q \in 0..o : o = q * PackageSize
  BY <1>1 DEF Whole
<1>3. /\ q + 1 \in Nat /\ q + 1 >= 1 /\ (q + 1) - 1 = q /\ q \in Nat
      /\ (q + 1) * PackageSize = o + PackageSize
      /\ o + PackageSize <= MaxBytes
  BY <1>2, SizeFacts
<1>4. q + 1 \in 1..(MaxBytes \div PackageSize)
  BY <1>3, PackageNumbers
<1>5. delivered[c][k] = Package(c, q + 1)
  BY <1>1, <1>2, <1>3 DEF Stream, Package
<1>6. QED
  BY <1>4, <1>5

\* Whether there is a callback or the application polls, beside RxListen and against
\* its "+=" on pReady, and whichever connections replace each other: until something
\* undefined happens no package is cut, mixed with another one or overtaken.
THEOREM PackagesWholeAndOrdered == Spec => []WholeAndOrdered
<1>1. IInv => WholeAndOrdered
  <2> SUFFICES ASSUME IInv, Running, NEW c \in Client
               PROVE  /\ \A k \in DOMAIN delivered[c] :
                           \E m \in 1..(MaxBytes \div PackageSize) :
                             delivered[c][k] = Package(c, m)
                      /\ \A k \in 2..Len(delivered[c]) :
                           delivered[c][k][1][2] >= delivered[c][k - 1][1][2]
    BY DEF WholeAndOrdered
  <2>1. Steady /\ CallbackInv /\ PolledInv
    BY DEF IInv, Steady
  <2>2. CASE callback
    <3>1. ASSUME NEW k \in DOMAIN delivered[c]
          PROVE  \E m \in 1..(MaxBytes \div PackageSize) :
                   delivered[c][k] = Package(c, m)
      <4>1. /\ delivered[c][k] = Package(c, k) /\ k \in Nat /\ k >= 1
            /\ k * PackageSize <= MaxBytes
        BY <2>1, <2>2, CallbackNumbers
      <4>2. k \in 1..(MaxBytes \div PackageSize)
        BY <4>1, PackageNumbers
      <4>3. QED
        BY <4>1, <4>2
    <3>2. ASSUME NEW k \in 2..Len(delivered[c])
          PROVE  delivered[c][k][1][2] >= delivered[c][k - 1][1][2]
      <4>1. /\ k \in DOMAIN delivered[c] /\ k - 1 \in DOMAIN delivered[c]
            /\ k \in Nat /\ k >= 2 /\ k - 1 \in Nat /\ k - 1 >= 1
        BY <2>1, DeliveredDomain
      <4>2. /\ delivered[c][k] = Package(c, k) /\ k * PackageSize <= MaxBytes
            /\ delivered[c][k - 1] = Package(c, k - 1)
            /\ (k - 1) * PackageSize <= MaxBytes
        BY <2>1, <2>2, <4>1, CallbackNumbers
      <4>3. /\ Package(c, k)[1][2] = (k - 1) * PackageSize + 1
            /\ Package(c, k - 1)[1][2] = ((k - 1) - 1) * PackageSize + 1
        BY <4>1, <4>2, PackageNumbers
      <4>4. /\ (k - 1) - 1 \in Nat /\ k - 1 \in Nat /\ (k - 1) - 1 <= k - 1
        BY <4>1
      <4>5. ((k - 1) - 1) * PackageSize <= (k - 1) * PackageSize
        BY <4>4, ProductGrows, SizeFacts
      <4>6. PICK x \in Nat, y \in Nat :
              x = ((k - 1) - 1) * PackageSize /\ y = (k - 1) * PackageSize
        BY <4>4, SizeFacts
      <4>7. y + 1 >= x + 1
        BY <4>5, <4>6
      <4>8. QED
        BY <4>2, <4>3, <4>6, <4>7
    <3>3. QED
      BY <3>1, <3>2
  <2>3. CASE ~callback
    BY <2>1, <2>3, PolledNumbers DEF PolledInv, HistoryOf
  <2>4. QED
    BY <2>2, <2>3
<1>2. QED
  BY <1>1, Invariance, PTL

\* When DestroyRx returns with the list empty and no accepted connection on its way
\* into it, none enters it any more and no package reaches the application, wherever
\* else RxListen was.
THEOREM DestroyedIsForGood == Spec => DestroyedForGood
<1>1. ASSUME IInv, Next, Running', destroyed, app.at = "out", NobodyComes
      PROVE  delivered' = delivered /\ NobodyComes'
  <2>1. Steady /\ SocketInv
    BY <1>1, NextRuns DEF IInv, Steady
  <2>2. /\ First.Id \notin Client /\ First = Unused /\ rxSocket # "listening"
        /\ listener.at \notin {"accepted", "fill"}
    BY <1>1, <2>1, SteadyFacts
       DEF NobodyComes, NobodyListed, Steady, ListInv, SocketInv
  <2>3. listener.at \notin Busy
    BY <2>1, <2>2, SteadyFacts DEF Steady, ListenerInv
  <2>4. ASSUME UNCHANGED <<clientList, delivered>>,
               listener'.at \notin {"accepted", "fill"}
        PROVE  delivered' = delivered /\ NobodyComes'
    BY <1>1, <2>4 DEF NobodyComes, NobodyListed, Listed
  <2>5. CASE RxListen
    <3>1. ASSUME NEW c \in Client, Accept(c) PROVE FALSE
      BY <2>2, <3>1 DEF Accept
    <3>2. ASSUME NEW i \in Slot, TestRaw(i) \/ TestReady(i) PROVE FALSE
      BY <1>1, <2>1, <2>2, <3>2, TestRawEffect, TestReadyEffect
    <3>3. ASSUME FindEntry \/ FillEntry \/ Receive \/ CopyPackages \/ LoadReady
                   \/ StoreReady \/ Announce \/ RaiseReady \/ Call \/ Called
          PROVE FALSE
      BY <2>2, <2>3, <3>3
         DEF FindEntry, FillEntry, Receive, CopyPackages, LoadReady, StoreReady,
             Announce, RaiseReady, Call, Called, Listen, Busy
    <3>4. CASE AcceptNothing \/ RawTested \/ ReadyTested
      BY <2>4, <3>4 DEF AcceptNothing, RawTested, ReadyTested, Goto, At
    <3>5. QED
      BY <2>5, <3>1, <3>2, <3>3, <3>4 DEF RxListen
  <2>6. CASE InitRx
    <3>1. listener'.at \notin {"accepted", "fill"}
      BY <2>2, <2>6 DEF InitRx, At
    <3>2. QED
      BY <2>4, <2>6, <3>1 DEF InitRx
  <2>7. CASE InitRxAgain
    BY <2>2, <2>4, <2>7 DEF InitRxAgain, Return
  <2>8. ASSUME Rx PROVE FALSE
    <3>1. ASSUME NEW i \in Slot, RxCopy(i) PROVE FALSE
      BY <1>1, <2>1, <2>2, <3>1, RxCopyEffect
    <3>2. QED
      BY <1>1, <2>8, <3>1 DEF Rx, RxShift, RxClearFlag, RxResetReady, Apply
  <2>9. CASE DestroyRx
    BY <2>2, <2>4, <2>9 DEF DestroyRx, Return
  <2>10. ASSUME Destroying PROVE FALSE
    BY <1>1, <2>10 DEF Destroying, DestroyBuffers, DestroyEntry, DestroySocket, Apply
  <2>11. ASSUME NEW c \in Client, SendByte(c) PROVE FALSE
    BY <1>1, <2>11 DEF SendByte, NobodyComes, NobodyListed
  <2>12. QED
    BY <1>1, <2>5, <2>6, <2>7, <2>8, <2>9, <2>10, <2>11 DEF Next
<1>2. ASSUME UNCHANGED vars, NobodyComes
      PROVE  delivered' = delivered /\ NobodyComes'
  BY <1>2 DEF vars, peerVars, NobodyComes, NobodyListed, Listed
<1>3. IInv /\ [Next]_vars =>
        [Running' /\ destroyed /\ app.at = "out" /\ NobodyComes
           => delivered' = delivered /\ NobodyComes']_vars
  BY <1>1, <1>2
<1>4. QED
  BY <1>3, Invariance, PTL DEF Spec, DestroyedForGood

=============================================================================
