------------------------------ MODULE SocketRx ------------------------------
(***************************************************************************)
(* The receiving half of class Socket (socket.cpp): InitRx, the listening  *)
(* thread RxListen, DestroyRx and, when no callback is given to InitRx,    *)
(* the application that fetches packages with Rx.                          *)
(*                                                                         *)
(* Each connection has an entry in ClientList with two buffers.  The       *)
(* listening thread reads bytes into the first and moves whole packages to *)
(* the second, the ready buffer.  From there they go to the callback, in   *)
(* the same thread, or to Rx, in another.  ReadyFlag is meant to pass the  *)
(* ready buffer to and fro; Rx clears it one statement too early.          *)
(*                                                                         *)
(* Steps.  A step reads or writes what the two threads share about an      *)
(* entry once; the listening thread's local variables are in listener, the *)
(* application's in app.  Where a thread goes on with memory that the      *)
(* other has freed or replaced, writes behind a buffer or copies a         *)
(* negative number of bytes, process becomes "undefined": anything may     *)
(* follow, and the properties only speak of what comes before.             *)
(*                                                                         *)
(* Abstractions.  Pointers are counts of bytes.  malloc() does not fail,   *)
(* and the threads see each other's stores in the order the program writes *)
(* them.  The object has static storage, as the one of main.cpp has, so    *)
(* that entries never used are zero.  The application is one thread, calls *)
(* InitRx with the same arguments every time, and Rx only if it has given  *)
(* no callback.                                                            *)
(***************************************************************************)
EXTENDS Integers, SequencesExt, FiniteSetsExt

CONSTANTS
  Client,       \* the peers that may connect, once each
  MaxClients,   \* MAX_CLIENTS, the length of ClientList
  Capacity,     \* the bytes of each buffer (65535 in the program)
  PackageSize,  \* package_size
  MaxBytes,     \* bound: how many bytes each peer sends
  MaxTotal      \* bound: how many they send, taken together

ASSUME SizeAssumption ==
  /\ MaxClients \in Nat \ {0}
  /\ PackageSize \in Nat \ {0}
  /\ Capacity \in Nat /\ Capacity >= PackageSize
  /\ MaxBytes \in Nat /\ MaxTotal \in Nat

VARIABLES
  process,    \* "running" or "undefined"
  callback,   \* whether InitRx is given one
  rxSocket,   \* what rx_socket_desc is: "none" (-1), "unbound", "listening"
  clientList, \* ClientList: see Entry
  listener,   \* where RxListen stands, and its local variables
  app,        \* where the application stands in Rx or DestroyRx
  connected,  \* the peers whose connection accept() has returned (history)
  destroyed,  \* DestroyRx was called since RxListen was started (history)
  sent,       \* sent[c]: how many bytes c has sent
  wire,       \* wire[c]: the bytes of c that are not read yet
  delivered   \* delivered[c]: the packages from c's entry that the
              \* application was given, in order (history)

peerVars == <<sent, wire>>
vars == <<process, callback, rxSocket, clientList, listener, app, connected,
          destroyed, peerVars, delivered>>

-----------------------------------------------------------------------------
(* Bytes, packages and the list's entries.                                 *)

Slot == 0..(MaxClients - 1)

\* The n-th byte that c sends, and the bytes memset() leaves.
Byte(c, n) == <<c, n>>
Zero == <<>>
AnyByte == {Byte(c, n) : c \in Client, n \in 1..MaxBytes} \cup {Zero}

\* The k-th package of c, and one that nobody sent.
Package(c, k) ==
  [j \in 1..PackageSize |-> Byte(c, (k - 1) * PackageSize + j)]
Garbage == [j \in 1..PackageSize |-> Zero]

NoClient == "none"

ASSUME ClientAssumption == NoClient \notin Client

\* An entry of ClientList: the bytes from pInBuf to pWrite, those of pReadyBuf,
\* pReady - pReadyBuf, the flags, and whether the two buffers have been freed.
Entry ==
  [Id : Client \cup {NoClient}, Flag : {0}, RawFlag : BOOLEAN,
   ReadyFlag : BOOLEAN, inBuf : Seq(AnyByte),
   readyBuf : [1..Capacity -> AnyByte], ready : 0..Capacity, freed : BOOLEAN]

Unused ==
  [Id |-> NoClient, Flag |-> 0, RawFlag |-> FALSE, ReadyFlag |-> FALSE,
   inBuf |-> <<>>,
   readyBuf |-> [j \in 1..Capacity |-> Zero], ready |-> 0, freed |-> FALSE]

\* What a new connection makes of an entry: all but its Flag.
Established(c) == [Unused EXCEPT !.Id = c, !.RawFlag = TRUE]

\* The search for an entry with Flag = 0.  Nothing sets Flag, so it ends at the
\* first entry, in use or not, and exit(0) for a full list is never reached.
FreeSlot ==
  CHOOSE i \in Slot :
    clientList[i].Flag = 0 /\ \A j \in 0..(i - 1) : clientList[j].Flag # 0

\* Fault: what the buffer holds is not taken off.
RoomInEmpty(entry) == Capacity

\* pEnd - pWrite
Room(entry) == Capacity - Len(entry.inBuf)

\* Fault: a single whole package is not enough.
PackSizeStrict(entry) ==
  IF Len(entry.inBuf) <= PackageSize THEN 0
  ELSE PackageSize * (Len(entry.inBuf) \div PackageSize)

\* How many bytes of whole packages are moved to the ready buffer at a time.
PackSize(entry) ==
  LET fit == Capacity \div PackageSize
      packages == Len(entry.inBuf) \div PackageSize
  IN  PackageSize * (IF fit < packages THEN fit ELSE packages)

\* memcpy() of size bytes behind what the ready buffer holds.
CopiedBehind(entry, size) ==
  [j \in 1..Capacity |->
     IF j \in (entry.ready + 1)..(entry.ready + size)
     THEN entry.inBuf[j - entry.ready] ELSE entry.readyBuf[j]]

\* Fault: pWrite is not set back, or set back to the beginning.
InputKept(entry, size) == entry.inBuf
InputDropped(entry, size) == <<>>

\* The bytes behind the moved ones, which memmove() takes to the front.
InputLeft(entry, size) == SubSeq(entry.inBuf, size + 1, Len(entry.inBuf))

\* The k-th package of the ready buffer.
ReadyPackage(entry, k) ==
  [j \in 1..PackageSize |-> entry.readyBuf[(k - 1) * PackageSize + j]]

\* The entry after the round of callbacks: ReadyFlag = 0, pReady = pReadyBuf.
Emptied(entry) == [entry EXCEPT !.ReadyFlag = FALSE, !.ready = 0]

-----------------------------------------------------------------------------
(* The two threads.                                                        *)

\* RxListen at some place with the index i and no other local variable in use:
\* peer is ThisSock, size PackSize and Size, loaded the value of pReady that
\* "+=" has read, called is k.
At(place, i) ==
  [at |-> place, slot |-> i, peer |-> NoClient, size |-> 0, loaded |-> 0,
   called |-> 0]

\* The places where it uses the buffers of an entry.
Busy == {"fill", "receive", "copy", "load", "store", "announce", "raise", "call"}
Uses(i) == listener.at \in Busy /\ listener.slot = i

Outside == [at |-> "out", slot |-> 0, size |-> 0]

Init ==
  /\ process = "running"
  /\ callback \in BOOLEAN
  /\ rxSocket = "none"
  /\ clientList = [i \in Slot |-> Unused]
  /\ listener = At("none", 0)
  /\ app = Outside
  /\ connected = {}
  /\ destroyed = FALSE
  /\ sent = [c \in Client |-> 0]
  /\ wire = [c \in Client |-> <<>>]
  /\ delivered = [c \in Client |-> <<>>]

\* From here on everything is possible.  Packages that nobody sent stand for what
\* the application may be given; the rest of the state means nothing any more.
Undefined ==
  /\ process' = "undefined"
  /\ delivered' = [c \in Client |-> <<Garbage>>]
  /\ clientList' = [i \in Slot |-> Unused]
  /\ listener' = At("none", 0) /\ app' = Outside
  /\ connected' = {}
  /\ sent' = [c \in Client |-> 0] /\ wire' = [c \in Client |-> <<>>]
  /\ UNCHANGED <<callback, rxSocket, destroyed>>

-----------------------------------------------------------------------------
(* RxListen, from one place to the next.                                   *)

Listen(place) == process = "running" /\ listener.at = place
Current == clientList[listener.slot]
Goto(next) ==
  /\ listener' = next
  /\ UNCHANGED <<process, callback, rxSocket, app, destroyed>>

\* accept() returns a connection ...
Accept(c) ==
  /\ Listen("accept")
  /\ rxSocket = "listening" /\ c \notin connected
  /\ Goto([listener EXCEPT !.at = "accepted", !.peer = c])
  /\ connected' = connected \cup {c}
  /\ UNCHANGED <<clientList, peerVars, delivered>>

\* ... or -1.
AcceptNothing ==
  /\ Listen("accept")
  /\ Goto(At("receiving", 0))
  /\ UNCHANGED <<clientList, connected, peerVars, delivered>>

\* The entry is found.  If the application is in Rx with it, that goes on with
\* pointers into the old buffers and the new ones.
FindEntry ==
  /\ Listen("accepted")
  /\ IF app.at \in {"copied", "cleared"} /\ app.slot = FreeSlot THEN Undefined
     ELSE /\ Goto([listener EXCEPT !.at = "fill", !.slot = FreeSlot])
          /\ UNCHANGED <<clientList, connected, peerVars, delivered>>

\* New buffers, and an entry that is ready for input.
FillEntry ==
  /\ Listen("fill")
  /\ Goto(At("receiving", 0))
  /\ clientList' = [clientList EXCEPT ![listener.slot] = Established(listener.peer)]
  /\ UNCHANGED <<connected, peerVars, delivered>>

\* i is the next index of a loop at whose entry the test holds.  The entries in
\* between are passed over in the same step: nothing ever changes them.
Following(i, Test(_)) ==
  /\ i \in Slot /\ i >= listener.slot /\ Test(clientList[i])
  /\ \A j \in listener.slot..(i - 1) : ~Test(clientList[j])

MayRead(entry) == entry.RawFlag

TestRaw(i) ==
  /\ Listen("receiving")
  /\ Following(i, MayRead)
  /\ IF clientList[i].freed THEN Undefined
     ELSE /\ Goto(At("receive", i))
          /\ UNCHANGED <<clientList, connected, peerVars, delivered>>

RawTested ==
  /\ Listen("receiving")
  /\ \A i \in listener.slot..(MaxClients - 1) : ~MayRead(clientList[i])
  /\ Goto(At("analysing", 0))
  /\ UNCHANGED <<clientList, connected, peerVars, delivered>>

\* recv() of n bytes, as many as there are or fit if that is fewer.  A connection
\* that is closed reads as nothing.
Receive ==
  /\ Listen("receive")
  /\ Goto(At("receiving", listener.slot + 1))
  /\ LET c == Current.Id
     IN  \E n \in 0..Capacity :
           /\ n <= Len(wire[c]) /\ n <= Room(Current)
           /\ n = 0 => wire[c] = <<>> \/ Room(Current) = 0
           /\ clientList' = [clientList EXCEPT ![listener.slot].inBuf =
                               @ \o SubSeq(wire[c], 1, n)]
           /\ wire' = [wire EXCEPT ![c] = SubSeq(@, n + 1, Len(@))]
  /\ UNCHANGED <<connected, sent, delivered>>

MayMove(entry) == entry.RawFlag /\ ~entry.ReadyFlag

\* ReadyFlag = 0 is taken to mean that the ready buffer is free.
TestReady(i) ==
  /\ Listen("analysing")
  /\ Following(i, MayMove)
  /\ IF clientList[i].freed THEN Undefined
     ELSE LET size == PackSize(clientList[i])
          IN  /\ Goto([At(IF size = 0 THEN "announce" ELSE "copy", i) EXCEPT
                         !.size = size])
              /\ UNCHANGED <<clientList, connected, peerVars, delivered>>

ReadyTested ==
  /\ Listen("analysing")
  /\ \A i \in listener.slot..(MaxClients - 1) : ~MayMove(clientList[i])
  /\ Goto(At("accept", 0))
  /\ UNCHANGED <<clientList, connected, peerVars, delivered>>

\* memcpy() to pReady: nothing asks whether there is room behind it ...
CopyPackages ==
  /\ Listen("copy")
  /\ IF Current.ready + listener.size > Capacity THEN Undefined
     ELSE /\ Goto([listener EXCEPT !.at = "load"])
          /\ clientList' = [clientList EXCEPT ![listener.slot].readyBuf =
                              CopiedBehind(Current, listener.size)]
          /\ UNCHANGED <<connected, peerVars, delivered>>

\* ... "pReady += PackSize" reads pReady once more ...
LoadReady ==
  /\ Listen("load")
  /\ Goto([listener EXCEPT !.at = "store", !.loaded = Current.ready])
  /\ UNCHANGED <<clientList, connected, peerVars, delivered>>

\* ... and stores it; what remains of the input moves to the front.
StoreReady ==
  /\ Listen("store")
  /\ Goto(At("announce", listener.slot))
  /\ clientList' = [clientList EXCEPT
       ![listener.slot].ready = listener.loaded + listener.size,
       ![listener.slot].inBuf = InputLeft(Current, listener.size)]
  /\ UNCHANGED <<connected, peerVars, delivered>>

\* pReady > pReadyBuf ...
Announce ==
  /\ Listen("announce")
  /\ Goto(IF Current.ready > 0 THEN At("raise", listener.slot)
          ELSE At("analysing", listener.slot + 1))
  /\ UNCHANGED <<clientList, connected, peerVars, delivered>>

\* ... so there are packages: for the callback, or for Rx to fetch.
RaiseReady ==
  /\ Listen("raise")
  /\ clientList' = [clientList EXCEPT ![listener.slot].ReadyFlag = TRUE]
  /\ Goto(IF callback THEN [At("call", listener.slot) EXCEPT !.size = Current.ready]
          ELSE At("analysing", listener.slot + 1))
  /\ UNCHANGED <<connected, peerVars, delivered>>

\* The callback gets the next package.
Call ==
  /\ Listen("call")
  /\ listener.called < listener.size
  /\ Goto([listener EXCEPT !.called = @ + PackageSize])
  /\ delivered' = [delivered EXCEPT ![Current.Id] =
       Append(@, ReadyPackage(Current, 1 + listener.called \div PackageSize))]
  /\ UNCHANGED <<clientList, connected, peerVars>>

\* Fault: pReady is not reset.
CalledKeepingReady ==
  /\ Listen("call")
  /\ listener.called >= listener.size
  /\ Goto(At("analysing", listener.slot + 1))
  /\ clientList' = [clientList EXCEPT ![listener.slot].ReadyFlag = FALSE]
  /\ UNCHANGED <<connected, peerVars, delivered>>

\* It has got all of them.
Called ==
  /\ Listen("call")
  /\ listener.called >= listener.size
  /\ Goto(At("analysing", listener.slot + 1))
  /\ clientList' = [clientList EXCEPT ![listener.slot] = Emptied(@)]
  /\ UNCHANGED <<connected, peerVars, delivered>>

RxListen ==
  \/ (\E c \in Client : Accept(c)) \/ AcceptNothing \/ FindEntry \/ FillEntry
  \/ (\E i \in Slot : TestRaw(i)) \/ RawTested \/ Receive
  \/ (\E i \in Slot : TestReady(i)) \/ ReadyTested
  \/ CopyPackages \/ LoadReady \/ StoreReady
  \/ Announce \/ RaiseReady \/ Call \/ Called

-----------------------------------------------------------------------------
(* The application's calls of InitRx, Rx and DestroyRx.                    *)

Apply(place) == process = "running" /\ app.at = place
Return(next) ==
  /\ app' = next
  /\ UNCHANGED <<process, callback, listener, connected, peerVars>>

\* InitRx: no socket, a socket that could not be set up or bound (and stays), or
\* one that listens, and a thread.
InitRx ==
  /\ Apply("out") /\ listener.at = "none"
  /\ \/ rxSocket' \in {"none", "unbound"} /\ UNCHANGED <<listener, destroyed>>
     \/ rxSocket' = "listening" /\ listener' = At("accept", 0) /\ destroyed' = FALSE
  /\ UNCHANGED <<process, callback, clientList, app, connected, peerVars, delivered>>

\* InitRx again, with or without DestroyRx in between: bind() fails, for the first
\* socket is never closed and still listens on the port.
InitRxAgain ==
  /\ Apply("out") /\ listener.at # "none"
  /\ rxSocket' \in {"none", "unbound"}
  /\ Return(app)
  /\ UNCHANGED <<clientList, destroyed, delivered>>

\* Rx finds the first entry with ReadyFlag = 1 and copies its first package,
\* whether or not the ready buffer holds one.
RxCopy(i) ==
  /\ Apply("out") /\ ~callback
  /\ rxSocket # "none"
  /\ clientList[i].ReadyFlag /\ \A j \in 0..(i - 1) : ~clientList[j].ReadyFlag
  /\ IF listener.at = "fill" /\ listener.slot = i THEN Undefined
     ELSE /\ Return([at |-> "copied", slot |-> i, size |-> clientList[i].ready])
          /\ delivered' = [delivered EXCEPT ![clientList[i].Id] =
                             Append(@, ReadyPackage(clientList[i], 1))]
          /\ UNCHANGED <<rxSocket, clientList, destroyed>>

\* memmove() of the bytes behind the first package to the front.
Shifted(entry, remain) ==
  [entry EXCEPT
     !.readyBuf = [j \in 1..Capacity |->
                     IF j <= remain THEN entry.readyBuf[j + PackageSize]
                     ELSE entry.readyBuf[j]],
     !.ready = remain]

\* More packages remain and move to the front; Rx returns.  If the buffer was
\* empty the number of bytes to move is negative.
RxShift ==
  /\ Apply("copied") /\ app.size # PackageSize
  /\ IF app.size < PackageSize THEN Undefined
     ELSE /\ Return(Outside)
          /\ clientList' = [clientList EXCEPT ![app.slot] =
                              Shifted(@, app.size - PackageSize)]
          /\ UNCHANGED <<rxSocket, destroyed, delivered>>

\* None remains: "now ready for input again", ReadyFlag = 0 ...
RxClearFlag ==
  /\ Apply("copied") /\ app.size = PackageSize
  /\ Return([app EXCEPT !.at = "cleared"])
  /\ clientList' = [clientList EXCEPT ![app.slot].ReadyFlag = FALSE]
  /\ UNCHANGED <<rxSocket, destroyed, delivered>>

\* ... and then pReady = pReadyBuf; Rx returns.
RxResetReady ==
  /\ Apply("cleared")
  /\ Return(Outside)
  /\ clientList' = [clientList EXCEPT ![app.slot].ready = 0]
  /\ UNCHANGED <<rxSocket, destroyed, delivered>>

\* DestroyRx, whatever RxListen is doing.  The descriptor that it closes is the
\* one of the sender.
DestroyRx ==
  /\ Apply("out")
  /\ Return([Outside EXCEPT !.at = "free"])
  /\ destroyed' = TRUE
  /\ UNCHANGED <<rxSocket, clientList, delivered>>

\* An entry's buffers are freed ...
DestroyBuffers ==
  /\ Apply("free")
  /\ IF Uses(app.slot) THEN Undefined
     ELSE /\ Return([app EXCEPT !.at = "clear"])
          /\ clientList' = [clientList EXCEPT ![app.slot].freed = @ \/
                              clientList[app.slot].Id # NoClient]
          /\ UNCHANGED <<rxSocket, destroyed, delivered>>

\* ... and then the entry is cleared, and it is the next one's turn.
DestroyEntry ==
  /\ Apply("clear")
  /\ IF Uses(app.slot) THEN Undefined
     ELSE /\ Return(IF app.slot + 1 \in Slot
                    THEN [app EXCEPT !.at = "free", !.slot = @ + 1]
                    ELSE [Outside EXCEPT !.at = "forget"])
          /\ clientList' = [clientList EXCEPT ![app.slot] = Unused]
          /\ UNCHANGED <<rxSocket, destroyed, delivered>>

\* Fault: rx_socket_desc stays.
DestroyKeepingSocket ==
  /\ Apply("forget")
  /\ Return(Outside)
  /\ UNCHANGED <<rxSocket, clientList, destroyed, delivered>>

\* rx_socket_desc = -1
DestroySocket ==
  /\ Apply("forget")
  /\ Return(Outside)
  /\ rxSocket' = "none"
  /\ UNCHANGED <<clientList, destroyed, delivered>>

Rx == (\E i \in Slot : RxCopy(i)) \/ RxShift \/ RxClearFlag \/ RxResetReady
Destroying == DestroyBuffers \/ DestroyEntry \/ DestroySocket

TotalSent == MapThenSumSet(LAMBDA c : sent[c], Client)

\* An entry holds a connection of c.
Listed(c) == \E i \in Slot : clientList[i].Id = c

\* The next byte of a peer's stream arrives.  One that has arrived before the entry
\* is filled arrives then: nothing looks at it earlier.  What arrives when the
\* connection is not or no longer listed is left out.
SendByte(c) ==
  /\ process = "running"
  /\ Listed(c)
  /\ sent[c] < MaxBytes
  /\ TotalSent < MaxTotal
  /\ sent' = [sent EXCEPT ![c] = @ + 1]
  /\ wire' = [wire EXCEPT ![c] = Append(@, Byte(c, sent[c] + 1))]
  /\ UNCHANGED <<process, callback, rxSocket, clientList, listener, app,
                 connected, destroyed, delivered>>

-----------------------------------------------------------------------------

Next ==
  \/ RxListen
  \/ InitRx \/ InitRxAgain \/ Rx \/ DestroyRx \/ Destroying
  \/ \E c \in Client : SendByte(c)

Spec == Init /\ [][Next]_vars

\* The listening thread is scheduled.  An application without a callback calls Rx
\* again and again, and its calls come to their end.
FairSpec == Spec /\ WF_vars(RxListen) /\ WF_vars(Rx \/ Destroying)

-----------------------------------------------------------------------------
(* Properties.                                                             *)

Running == process = "running"

\* The types of the variables while nothing undefined has happened.  Neither buffer
\* holds more than its size.
TypeOK ==
  Running =>
    /\ callback \in BOOLEAN /\ destroyed \in BOOLEAN
    /\ rxSocket \in {"none", "unbound", "listening"}
    /\ clientList \in [Slot -> Entry]
    /\ \A i \in Slot : Len(clientList[i].inBuf) <= Capacity
    /\ listener \in [at : Busy \cup {"none", "accept", "accepted", "receiving",
                                     "analysing"},
                     slot : 0..MaxClients, peer : Client \cup {NoClient},
                     size : 0..Capacity, loaded : 0..Capacity, called : Nat]
    /\ app \in [at : {"out", "copied", "cleared", "free", "clear", "forget"},
                slot : Slot, size : 0..Capacity]
    /\ connected \subseteq Client
    /\ sent \in [Client -> 0..MaxBytes]
    /\ wire \in [Client -> Seq(AnyByte)]
    /\ delivered \in [Client -> Seq([1..PackageSize -> AnyByte])]

\* With a callback, as long as DestroyRx has not been called, nothing undefined
\* happens: no memcpy() passes the end of the ready buffer (socket.cpp:188), and
\* however many connections replace each other, no buffer is used that is gone.
CallbackSafe == callback /\ ~destroyed => Running

\* The packages handed over for a peer are the packages it sent, whole and aligned,
\* in order, from the first and without a gap.
\* False when the application polls: see RxClearFlag and RxResetReady.
InOrder ==
  Running =>
    \A c \in Client : \A k \in DOMAIN delivered[c] :
      delivered[c][k] = Package(c, k)

\* With a callback it is true, also of connections that are pushed out of the list,
\* and beside a DestroyRx that RxListen does not meet in the midst of an entry.
CallbackInOrder == callback => InOrder

SlotOf(c) == CHOOSE i \in Slot : clientList[i].Id = c

\* As long as a connection is listed, what its peer sent is, in this order, with
\* the callback, in the ready buffer, in the input buffer or unread.  Of the ready
\* buffer a part may be with the callback already.
Bytes(c) ==
  LET i == SlotOf(c)
  IN  Len(delivered[c]) * PackageSize
        + (clientList[i].ready - IF listener.slot = i THEN listener.called ELSE 0)
        + Len(clientList[i].inBuf) + Len(wire[c])
NothingLost ==
  callback /\ Running => \A c \in Client : Listed(c) => Bytes(c) = sent[c]

\* "read data for all open connections" (socket.cpp:148): every connection that
\* was accepted has an entry, until DestroyRx.  False from the second one on.
AllConnectionsListed ==
  Running /\ ~destroyed => \A c \in connected \ {listener.peer} : Listed(c)

\* What is left when the application polls: until something undefined happens a
\* package may be lost or come twice, but none is cut, mixed with another one or
\* overtaken by one.
WholeAndOrdered ==
  Running =>
    \A c \in Client :
      /\ \A k \in DOMAIN delivered[c] :
           \E m \in 1..(MaxBytes \div PackageSize) :
             delivered[c][k] = Package(c, m)
      /\ \A k \in 2..Len(delivered[c]) :
           delivered[c][k][1][2] >= delivered[c][k - 1][1][2]

\* RxListen catches up with each peer again and again, though ReadyFlag can stop it
\* and the application clears the flag too early: every whole package that has
\* arrived is handed to the callback, or moved to the buffer from which Rx fetches,
\* unless the connection is pushed out of the list, something undefined happens, or
\* InitRx or DestroyRx make Rx refuse.
CaughtUp(c) ==
  IF callback THEN Len(delivered[c]) = sent[c] \div PackageSize
  ELSE rxSocket = "none" \/ Len(clientList[SlotOf(c)].inBuf) + Len(wire[c]) < PackageSize
EventuallyDelivered ==
  \A c \in Client : Listed(c) ~> (~Running \/ ~Listed(c) \/ CaughtUp(c))

NobodyListed == \A c \in Client : ~Listed(c)
NobodyComes == NobodyListed /\ listener.at \notin {"accepted", "fill"}

\* A DestroyRx that returns while RxListen is not about to list a connection is for
\* good: none is listed any more and no package is handed over, also if InitRx is
\* called again.  One accepted before (socket.cpp:107) and listed after it would be.
DestroyedForGood ==
  [][Running' /\ destroyed /\ app.at = "out" /\ NobodyComes
       => delivered' = delivered /\ NobodyComes']_vars
=============================================================================
