-------------------------- MODULE SocketTx_proofs --------------------------
(***************************************************************************)
(* Proofs about SocketTx, for every set of senders, every number of        *)
(* descriptors and every behaviour of the peer.                            *)
(***************************************************************************)
EXTENDS SocketTx, TLAPS

-----------------------------------------------------------------------------
(* Descriptors.                                                            *)

\* The thread holds no descriptor: what it opens next overwrites the stored one.
Unheld ==
  \/ reconnect \in {"none", "create", "clear"}
  \/ reconnect \in {"test", "peek"} /\ ~connected

\* The descriptors that are open are the stored one and what DestroyTx forgot.
\* Where the thread holds none, none but those are open.
LeakBut(L) ==
  /\ Open \subseteq L \cup {desc}
  /\ Unheld => Open \subseteq L

LeakInv ==
  /\ desc \in Desc \cup {-1}
  /\ DOMAIN sock = Desc
  /\ \E lost \in Forgotten : LeakBut(lost)

LEMMA DescFacts == Desc \subseteq Int /\ 0 \in Desc /\ -1 \notin Desc
  BY BoundAssumption DEF Desc

\* How far main() and DestroyTx are while nothing is forgotten.
Earlier == {"start", "waiting", "ready", "exiting"}

\* What may be forgotten depends on how far DestroyTx has come and on nothing else.
LEMMA SameForgotten ==
  ASSUME main' = main \/ {main, main'} \subseteq Earlier
  PROVE  Forgotten' = Forgotten
<1>1. CASE main' = main
  BY <1>1 DEF Forgotten, Desc
<1>2. CASE {main, main'} \subseteq Earlier
  <2>1. Forgotten = {{}}
    BY <1>2 DEF Forgotten, Earlier
  <2>2. Forgotten' = {{}}
    BY <1>2 DEF Forgotten, Earlier
  <2>3. QED
    BY <2>1, <2>2
<1>3. QED
  BY <1>1, <1>2

\* A step after which no descriptor is open that was not, and which leaves the
\* stored one alone, keeps the bound, if it gives up none that the thread holds.
LEMMA NothingOpened ==
  ASSUME LeakInv, DOMAIN sock' = Desc, Open' \subseteq Open, UNCHANGED desc,
         main' = main \/ {main, main'} \subseteq Earlier,
         Unheld' => Unheld \/ Open' \subseteq Open \ {desc}
  PROVE  LeakInv'
<1>1. PICK lost \in Forgotten : LeakBut(lost)
  BY DEF LeakInv
<1>2. lost \in Forgotten'
  BY <1>1, SameForgotten
<1>3. /\ Open' \subseteq lost \cup {desc'}
      /\ Unheld' => Open' \subseteq lost
  BY <1>1 DEF LeakBut
<1>4. desc' \in Desc' \cup {-1} /\ DOMAIN sock' = Desc'
  BY DEF LeakInv, Desc
<1>5. QED
  BY <1>2, <1>3, <1>4 DEF LeakInv, LeakBut

\* A close() of the stored descriptor.
LEMMA ClosedOne ==
  ASSUME sock' = Closed(desc)
  PROVE  DOMAIN sock' = Desc /\ Open' = Open \ {desc}
  BY DEF Closed, Open, Free, Desc

\* A state of some socket changes, none is opened or closed.
LEMMA SameOpen ==
  ASSUME DOMAIN sock' = Desc,
         \A d \in Desc : sock'[d] = "free" <=> sock[d] = "free"
  PROVE  Open' = Open
  BY DEF Open, Free, Desc

LEMMA CreateKeepsBound ==
  ASSUME LeakInv, CreateSocket
  PROVE  LeakInv'
<1>1. UNCHANGED main /\ ~Unheld' /\ Unheld
  BY DEF CreateSocket, Reconnect, Unheld
<1>2. /\ desc' \in Desc \cup {-1} /\ DOMAIN sock' = Desc
      /\ Open' \subseteq Open \cup {desc'}
  <2>1. ASSUME NEW d \in Desc, desc' = d, sock' = [sock EXCEPT ![d] = "fresh"]
        PROVE  /\ desc' \in Desc \cup {-1} /\ DOMAIN sock' = Desc
               /\ Open' \subseteq Open \cup {desc'}
    BY <2>1 DEF LeakInv, Open, Free, Desc
  <2>2. CASE desc' = -1 /\ UNCHANGED sock
    BY <2>2 DEF LeakInv, Open, Free, Desc
  <2>3. QED
    BY <2>1, <2>2 DEF CreateSocket
<1>3. PICK lost \in Forgotten : LeakBut(lost)
  BY DEF LeakInv
<1>4. lost \in Forgotten'
  BY <1>1, <1>3, SameForgotten
<1>5. Open' \subseteq lost \cup {desc'}
  BY <1>1, <1>2, <1>3 DEF LeakBut
<1>6. desc' \in Desc' \cup {-1} /\ DOMAIN sock' = Desc'
  BY <1>2 DEF Desc
<1>7. QED
  BY <1>1, <1>4, <1>5, <1>6 DEF LeakInv, LeakBut

\* Connecting, setting the flag, and what the senders and the peer do.
LEMMA OthersKeepBound ==
  ASSUME LeakInv, UNCHANGED desc,
         main' = main \/ {main, main'} \subseteq Earlier,
         DOMAIN sock' = Desc,
         \A d \in Desc : sock'[d] = "free" <=> sock[d] = "free",
         Unheld' => Unheld
  PROVE  LeakInv'
  BY SameOpen, NothingOpened

LEMMA CloseKeepsBound ==
  ASSUME LeakInv, CloseSocket
  PROVE  LeakInv'
<1>1. sock' = Closed(desc) /\ UNCHANGED <<main, desc>>
  BY DEF CloseSocket
<1>2. QED
  BY <1>1, ClosedOne, NothingOpened

\* Every step of DestroyTx that forgets a descriptor adds it to the forgotten ones.
LEMMA DestroyKeepsBound ==
  ASSUME LeakInv, DestroyClose \/ DestroyClearFlag \/ DestroyClearDesc
  PROVE  LeakInv'
<1>1. CASE DestroyClose
  <2>1. /\ main = "ready" /\ main' = "exiting" /\ desc' = desc
        /\ DOMAIN sock' = Desc /\ Open' = Open \ {desc} /\ Unheld' = Unheld
    BY <1>1, ClosedOne DEF DestroyClose, Unheld
  <2>2. {main, main'} \subseteq Earlier
    BY <2>1 DEF Earlier
  <2>3. QED
    BY <2>1, <2>2, NothingOpened
<1>2. CASE DestroyClearFlag
  <2>1. /\ main = "exiting" /\ main' = "cleared" /\ UNCHANGED <<desc, sock>>
    BY <1>2 DEF DestroyClearFlag, worldVars
  <2>2. Open \subseteq {desc} /\ Open' = Open /\ Open \subseteq Desc
    BY <2>1 DEF LeakInv, LeakBut, Forgotten, Open, Free, Desc
  <2>3. PICK a \in Desc : Open \subseteq {a}
    BY <2>2, DescFacts DEF LeakInv
  <2>4. {a} \in Forgotten'
    BY <2>1, <2>3 DEF Forgotten, Desc
  <2>5. LeakBut({a})'
    BY <2>2, <2>3 DEF LeakBut
  <2>6. desc' \in Desc' \cup {-1} /\ DOMAIN sock' = Desc'
    BY <2>1 DEF LeakInv, Desc
  <2>7. QED
    BY <2>4, <2>5, <2>6 DEF LeakInv
<1>3. CASE DestroyClearDesc
  <2>1. /\ main = "cleared" /\ main' = "gone" /\ desc' = -1 /\ UNCHANGED sock
    BY <1>3 DEF DestroyClearDesc, worldVars
  <2>2. PICK a \in Desc : Open \subseteq {a, desc}
    BY <2>1 DEF LeakInv, LeakBut, Forgotten
  <2>3. Open' = Open /\ Open \subseteq Desc
    BY <2>1 DEF Open, Free, Desc
  <2>4. PICK b \in Desc : Open \subseteq {a, b}
    BY <2>2, <2>3, DescFacts DEF LeakInv
  <2>5. {a, b} \in Forgotten'
    BY <2>1, <2>2, <2>4 DEF Forgotten, Desc
  <2>6. LeakBut({a, b})'
    BY <2>3, <2>4 DEF LeakBut
  <2>7. desc' \in Desc' \cup {-1} /\ DOMAIN sock' = Desc'
    BY <2>1 DEF LeakInv, Desc
  <2>8. QED
    BY <2>5, <2>6, <2>7 DEF LeakInv
<1>4. QED
  BY <1>1, <1>2, <1>3

-----------------------------------------------------------------------------

\* Until DestroyTx only the stored descriptor is open, while it resets the two
\* variables one more, afterwards at most two more, however often the thread
\* connects, is refused or loses its connection.
THEOREM NoDescriptorLeaks == Spec => []NoLeak
<1>1. Init => LeakInv
  <2> SUFFICES ASSUME Init PROVE LeakInv
    OBVIOUS
  <2>1. Open = {} /\ Forgotten = {{}}
    BY DEF Init, Open, Free, Forgotten
  <2>2. desc = -1 /\ DOMAIN sock = Desc
    BY DEF Init
  <2>3. LeakBut({})
    BY <2>1 DEF LeakBut
  <2>4. QED
    BY <2>1, <2>2, <2>3 DEF LeakInv
<1>2. LeakInv /\ [Next]_vars => LeakInv'
  <2> SUFFICES ASSUME LeakInv, [Next]_vars PROVE LeakInv'
    OBVIOUS
  <2>0. DOMAIN sock = Desc
    BY DEF LeakInv
  <2>1. CASE InitTx \/ InitTxReturns
    <3>1. /\ UNCHANGED <<desc, connected, sock>>
          /\ {main, main'} \subseteq Earlier
          /\ (reconnect' = "test" /\ reconnect = "none") \/ UNCHANGED reconnect
      BY <2>1 DEF InitTx, InitTxReturns, worldVars, Earlier
    <3>2. Unheld' => Unheld
      BY <3>1 DEF Unheld
    <3>3. QED
      BY <2>0, <3>1, <3>2, OthersKeepBound
  <2>2. CASE DestroyClose \/ DestroyClearFlag \/ DestroyClearDesc
    BY <2>2, DestroyKeepsBound
  <2>3. CASE TxReconnect
    <3>1. CASE TestConnected
      BY <3>1, <2>0, OthersKeepBound
         DEF TestConnected, Reconnect, worldVars, Unheld
    <3>2. CASE CreateSocket
      BY <3>2, CreateKeepsBound
    <3>3. CASE ConnectSucceeds
      BY <3>3, <2>0, OthersKeepBound DEF ConnectSucceeds, Reconnect, Unheld
    <3>4. CASE ConnectFails \/ SetConnected \/ PeekLoss
      BY <3>4, <2>0, OthersKeepBound
         DEF ConnectFails, SetConnected, PeekLoss, Reconnect, worldVars, Unheld
    <3>5. CASE PeekNothing
      BY <3>5, <2>0, OthersKeepBound DEF PeekNothing, Reconnect, Unheld
    <3>6. CASE CloseSocket
      BY <3>6, CloseKeepsBound
    <3>7. CASE ClearConnected
      BY <3>7, <2>0, OthersKeepBound
         DEF ClearConnected, Reconnect, worldVars, Unheld
    <3>8. QED
      BY <2>3, <3>1, <3>2, <3>3, <3>4, <3>5, <3>6, <3>7 DEF TxReconnect
  <2>4. ASSUME NEW s \in Sender, TxTest(s) \/ TxSend(s) PROVE LeakInv'
    <3>1. CASE TxTest(s)
      BY <3>1, <2>0, OthersKeepBound DEF TxTest, worldVars, Unheld
    <3>2. CASE TxSend(s)
      BY <3>2, <2>0, OthersKeepBound DEF TxSend, Unheld
    <3>3. QED
      BY <2>4, <3>1, <3>2
  <2>5. CASE Peer
    BY <2>5, <2>0, OthersKeepBound
       DEF Peer, PeerListens, PeerStops, PeerCloses, PeerWrites, programVars, Unheld
  <2>6. CASE UNCHANGED vars
    BY <2>6, <2>0, OthersKeepBound DEF vars, programVars, worldVars, Unheld
  <2>7. QED
    BY <2>1, <2>2, <2>3, <2>4, <2>5, <2>6 DEF Next
<1>3. LeakInv => NoLeak
  BY DEF LeakInv, LeakBut, NoLeak
<1>4. QED
  BY <1>1, <1>2, <1>3, PTL DEF Spec

-----------------------------------------------------------------------------
(* The window between Tx's test and its send().                            *)

\* While the peer keeps its connections and DestroyTx was not called, the flag is
\* up only with a connection behind the stored descriptor, and as long as a sender
\* is in the window it stays up.
Steady ==
  /\ process = "running"
  /\ sock \in [Desc -> {"free", "fresh", "up"}]
  /\ connected \/ reconnect = "connected" => desc \in Desc /\ sock[desc] = "up"
  /\ connected => reconnect \in {"test", "peek"}
  /\ reconnect = "peek" => connected
  /\ reconnect # "drop"
  /\ \A s \in Sender : tx[s] = "send" => connected

SteadyInv == losses \in Nat /\ (losses = 0 /\ ~Destroyed => Steady)

\* Of the steps that a steady state allows only these matter.
LEMMA ReconnectKeepsSteady ==
  ASSUME Steady, TxReconnect
  PROVE  Steady'
<1>1. CASE TestConnected
  BY <1>1 DEF TestConnected, Reconnect, Steady, worldVars
<1>2. CASE CreateSocket
  <2>1. /\ reconnect = "create" /\ reconnect' = "connect"
        /\ UNCHANGED <<process, tx, connected>>
    BY <1>2 DEF CreateSocket, Reconnect
  <2>2. sock' \in [Desc -> {"free", "fresh", "up"}]
    BY <1>2 DEF CreateSocket, Steady
  <2>3. QED
    BY <2>1, <2>2 DEF Steady
<1>3. CASE ConnectSucceeds
  BY <1>3 DEF ConnectSucceeds, Reconnect, Steady
<1>4. CASE ConnectFails \/ SetConnected
  BY <1>4 DEF ConnectFails, SetConnected, Reconnect, Steady, worldVars
<1>5. CASE PeekLoss
  BY <1>5 DEF PeekLoss, AtEnd, Reconnect, Steady
<1>6. CASE PeekNothing
  BY <1>6 DEF PeekNothing, Reconnect, Steady
<1>7. CASE CloseSocket
  BY <1>7 DEF CloseSocket, Closed, Reconnect, Steady
<1>8. CASE ClearConnected
  BY <1>8 DEF ClearConnected, Reconnect, Steady, worldVars
<1>9. QED
  BY <1>1, <1>2, <1>3, <1>4, <1>5, <1>6, <1>7, <1>8 DEF TxReconnect

LEMMA SenderKeepsSteady ==
  ASSUME Steady, NEW s \in Sender, TxTest(s) \/ TxSend(s)
  PROVE  Steady'
<1>1. CASE TxTest(s)
  BY <1>1 DEF TxTest, Steady, worldVars
<1>2. CASE TxSend(s)
  BY <1>2 DEF TxSend, Steady
<1>3. QED
  BY <1>1, <1>2

\* A send() ends the process only once the peer has closed a connection or the
\* destructor has run.
THEOREM SteadyPeerSurvived == Spec => []SurvivesSteadyPeer
<1>1. Init => SteadyInv
  BY DEF Init, SteadyInv, Steady
<1>2. SteadyInv /\ [Next]_vars => SteadyInv'
  <2> SUFFICES ASSUME SteadyInv, [Next]_vars PROVE SteadyInv'
    OBVIOUS
  <2>1. CASE InitTx \/ InitTxReturns
    <3>1. /\ UNCHANGED <<process, tx, desc, connected, sock, losses>> /\ ~Destroyed
          /\ \/ UNCHANGED reconnect
             \/ reconnect = "none" /\ reconnect' = "test"
      BY <2>1 DEF InitTx, InitTxReturns, Destroyed, worldVars
    <3>2. QED
      BY <3>1 DEF SteadyInv, Steady
  <2>2. CASE DestroyClose \/ DestroyClearFlag \/ DestroyClearDesc
    BY <2>2 DEF DestroyClose, DestroyClearFlag, DestroyClearDesc, SteadyInv, Destroyed, worldVars
  <2>3. CASE TxReconnect
    <3>1. UNCHANGED <<losses, main>>
      BY <2>3 DEF TxReconnect, TestConnected, CreateSocket, ConnectSucceeds,
                  ConnectFails, SetConnected, PeekLoss, PeekNothing, CloseSocket,
                  ClearConnected, worldVars
    <3>2. QED
      BY <2>3, <3>1, ReconnectKeepsSteady DEF SteadyInv, Destroyed
  <2>4. ASSUME NEW s \in Sender, TxTest(s) \/ TxSend(s) PROVE SteadyInv'
    <3>1. UNCHANGED <<losses, main>>
      BY <2>4 DEF TxTest, TxSend, worldVars
    <3>2. QED
      BY <2>4, <3>1, SenderKeepsSteady DEF SteadyInv, Destroyed
  <2>5. CASE Peer
    <3>1. ASSUME NEW d \in Desc, PeerCloses(d) PROVE SteadyInv'
      BY <3>1 DEF PeerCloses, SteadyInv
    <3>2. CASE UNCHANGED <<process, programVars, sock, losses>>
      BY <3>2 DEF programVars, SteadyInv, Steady, Destroyed
    <3>3. QED
      BY <2>5, <3>1, <3>2 DEF Peer, PeerListens, PeerStops, PeerWrites
  <2>6. CASE UNCHANGED vars
    BY <2>6 DEF vars, programVars, worldVars, SteadyInv, Steady, Destroyed
  <2>7. QED
    BY <2>1, <2>2, <2>3, <2>4, <2>5, <2>6 DEF Next
<1>3. SteadyInv => SurvivesSteadyPeer
  BY DEF SteadyInv, Steady, SurvivesSteadyPeer
<1>4. QED
  BY <1>1, <1>2, <1>3, PTL DEF Spec
=============================================================================
