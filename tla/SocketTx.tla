------------------------------ MODULE SocketTx ------------------------------
(***************************************************************************)
(* The sending half of class Socket (Socket.cpp): InitTx, the thread       *)
(* TxReconnect that connects to the peer and connects again when the       *)
(* connection is lost, Tx, which any thread may call, and DestroyTx, which *)
(* the destructor calls while the process exits and the threads still run. *)
(* They share tx_socket_desc and tx_is_connected without a lock.           *)
(*                                                                         *)
(* Abstractions.  What is sent does not matter, only what becomes of the   *)
(* call.  The kernel gives a new socket the lowest free descriptor; the    *)
(* descriptors here are those that this class uses.  The threads see each  *)
(* other's stores in the order the program writes them.                    *)
(***************************************************************************)
EXTENDS Integers, FiniteSets

CONSTANTS
  Sender,     \* the threads that call Tx
  MaxDesc,    \* bound: how many descriptors may be open at a time
  MaxLosses   \* bound: how often the peer closes a connection

ASSUME BoundAssumption == MaxDesc \in Nat \ {0} /\ MaxLosses \in Nat

VARIABLES
  process,    \* "running" or "killed" (by SIGPIPE)
  main,       \* main(): "start", "waiting" in InitTx, "ready", and in DestroyTx
              \* "exiting", "cleared", "gone"
  reconnect,  \* where the thread TxReconnect stands
  tx,         \* tx[s]: "out", or "send" between the test and the send()
  desc,       \* tx_socket_desc
  connected,  \* tx_is_connected
  sock,       \* sock[d]: the socket behind descriptor d, "free" if none
  unread,     \* unread[d]: the peer's data lies in d's receive queue
  listening,  \* the peer accepts connections
  losses      \* how many connections the peer has closed

programVars == <<main, reconnect, tx, desc, connected>>
worldVars == <<sock, unread, listening, losses>>
vars == <<process, programVars, worldVars>>

-----------------------------------------------------------------------------

Desc == 0..(MaxDesc - 1)

\* "fresh": not connected; "up": connected; "lost": the peer has closed; "reset":
\* it has answered a send() after that with a reset; "dead": this has been read.
SocketState == {"free", "fresh", "up", "lost", "reset", "dead"}

Free == {d \in Desc : sock[d] = "free"}
Lowest(d) == d \in Free /\ \A x \in Free : d <= x

Running == process = "running"

\* close() of a descriptor that is not open, -1 included, does nothing.
Closed(d) == [x \in Desc |-> IF x = d THEN "free" ELSE sock[x]]
Emptied(d) == [x \in Desc |-> IF x = d THEN FALSE ELSE unread[x]]

Init ==
  /\ process = "running"
  /\ main = "start"
  /\ reconnect = "none"
  /\ tx = [s \in Sender |-> "out"]
  /\ desc = -1
  /\ connected = FALSE
  /\ sock = [d \in Desc |-> "free"]
  /\ unread = [d \in Desc |-> FALSE]
  /\ listening = FALSE
  /\ losses = 0

-----------------------------------------------------------------------------
(* InitTx and DestroyTx, in the main thread.                               *)

\* InitTx starts the thread ...
InitTx ==
  /\ Running
  /\ main = "start" /\ reconnect = "none"
  /\ main' = "waiting"
  /\ reconnect' = "test"
  /\ UNCHANGED <<process, tx, desc, connected, worldVars>>

\* ... and returns 1 once connected, and also after two seconds without.
InitTxReturns ==
  /\ Running
  /\ main = "waiting"
  /\ main' = "ready"
  /\ UNCHANGED <<process, reconnect, tx, desc, connected, worldVars>>

\* ~Socket() calls DestroyTx: the descriptor is closed.  The test before close()
\* adds nothing: close() of -1 does nothing either.
DestroyClose ==
  /\ Running
  /\ main = "ready"
  /\ main' = "exiting"
  /\ sock' = Closed(desc)
  /\ unread' = Emptied(desc)
  /\ UNCHANGED <<process, reconnect, tx, desc, connected, listening, losses>>

\* Then the flag is cleared, which the thread takes for a lost connection ...
DestroyClearFlag ==
  /\ Running
  /\ main = "exiting"
  /\ main' = "cleared"
  /\ connected' = FALSE
  /\ UNCHANGED <<process, reconnect, tx, desc, worldVars>>

\* ... and the descriptor is forgotten.  Nothing stops the thread.
DestroyClearDesc ==
  /\ Running
  /\ main = "cleared"
  /\ main' = "gone"
  /\ desc' = -1
  /\ UNCHANGED <<process, reconnect, tx, connected, worldVars>>

-----------------------------------------------------------------------------
(* TxReconnect.                                                            *)

Reconnect(from, to) ==
  /\ Running
  /\ reconnect = from
  /\ reconnect' = to

TestConnected ==
  /\ Reconnect("test", IF connected THEN "peek" ELSE "create")
  /\ UNCHANGED <<process, main, tx, desc, connected, worldVars>>

\* socket(): the lowest free descriptor, or -1, and its store.  One step stands
\* for both: a socket that is open and not yet stored looks to DestroyTx and Tx
\* like one opened after what they do in between.
CreateSocket ==
  /\ Reconnect("create", "connect")
  /\ \/ \E d \in Desc :
          Lowest(d) /\ desc' = d /\ sock' = [sock EXCEPT ![d] = "fresh"]
     \/ /\ desc' = -1
        /\ UNCHANGED sock
  /\ UNCHANGED <<process, main, tx, connected, unread, listening, losses>>

\* connect() uses the descriptor that is stored by now.
ConnectSucceeds ==
  /\ listening
  /\ desc \in Desc /\ sock[desc] = "fresh"
  /\ Reconnect("connect", "connected")
  /\ sock' = [sock EXCEPT ![desc] = "up"]
  /\ UNCHANGED <<process, main, tx, desc, connected, unread, listening, losses>>

ConnectFails ==
  /\ ~(listening /\ desc \in Desc /\ sock[desc] = "fresh")
  /\ Reconnect("connect", "failed")
  /\ UNCHANGED <<process, main, tx, desc, connected, worldVars>>

SetConnected ==
  /\ Reconnect("connected", "test")
  /\ connected' = TRUE
  /\ UNCHANGED <<process, main, tx, desc, worldVars>>

\* Fault: only a reset is seen as a loss.
AtEndAfterResetOnly(d) == d \in Desc /\ sock[d] = "dead" /\ ~unread[d]

\* recv() of one byte that stays in the queue: 0 means that the peer has closed,
\* which shows only when the queue is empty; a reset shows as -1 first.
AtEnd(d) == d \in Desc /\ sock[d] \in {"lost", "dead"} /\ ~unread[d]

PeekLoss ==
  /\ AtEnd(desc)
  /\ Reconnect("peek", "drop")
  /\ UNCHANGED <<process, main, tx, desc, connected, worldVars>>

PeekNothing ==
  /\ ~AtEnd(desc)
  /\ Reconnect("peek", "test")
  /\ sock' = [d \in Desc |-> IF d = desc /\ sock[d] = "reset" /\ ~unread[d]
                             THEN "dead" ELSE sock[d]]
  /\ UNCHANGED <<process, main, tx, desc, connected, unread, listening, losses>>

\* Fault: the close() is missing.
CloseSocketNever ==
  /\ \/ Reconnect("failed", "clear")
     \/ Reconnect("drop", "clear")
  /\ UNCHANGED <<process, main, tx, desc, connected, worldVars>>

\* close() after a failed connect() or a lost connection, and then the flag.
CloseSocket ==
  /\ \/ Reconnect("failed", "clear")
     \/ Reconnect("drop", "clear")
  /\ sock' = Closed(desc)
  /\ unread' = Emptied(desc)
  /\ UNCHANGED <<process, main, tx, desc, connected, listening, losses>>

\* Fault: the flag stays up.
ClearConnectedNever ==
  /\ Reconnect("clear", "test")
  /\ UNCHANGED <<process, main, tx, desc, connected, worldVars>>

ClearConnected ==
  /\ Reconnect("clear", "test")
  /\ connected' = FALSE
  /\ UNCHANGED <<process, main, tx, desc, worldVars>>

-----------------------------------------------------------------------------
(* Tx.                                                                     *)

\* Fault: the flag is not tested.
TxTestUnguarded(s) ==
  /\ Running
  /\ main \notin {"start", "waiting"}
  /\ tx[s] = "out"
  /\ desc # -1
  /\ tx' = [tx EXCEPT ![s] = "send"]
  /\ UNCHANGED <<process, main, reconnect, desc, connected, worldVars>>

\* Tx goes on only with a descriptor and the flag; otherwise it returns 0.
TxTest(s) ==
  /\ Running
  /\ main \notin {"start", "waiting"}
  /\ tx[s] = "out"
  /\ desc # -1 /\ connected
  /\ tx' = [tx EXCEPT ![s] = "send"]
  /\ UNCHANGED <<process, main, reconnect, desc, connected, worldVars>>

\* send() on whatever the descriptor is by now.  On a socket that was never
\* connected or that has seen a reset it raises SIGPIPE, which nobody handles.
TxSend(s) ==
  /\ Running
  /\ tx[s] = "send"
  /\ tx' = [tx EXCEPT ![s] = "out"]
  /\ IF desc \in Desc /\ sock[desc] \in {"fresh", "reset", "dead"}
     THEN process' = "killed" /\ UNCHANGED sock
     ELSE /\ UNCHANGED process
          /\ sock' = [d \in Desc |-> IF d = desc /\ sock[d] = "lost"
                                     THEN "reset" ELSE sock[d]]
  /\ UNCHANGED <<main, reconnect, desc, connected, unread, listening, losses>>

-----------------------------------------------------------------------------
(* The peer.                                                               *)

PeerListens ==
  /\ ~listening
  /\ listening' = TRUE
  /\ UNCHANGED <<process, programVars, sock, unread, losses>>

PeerStops ==
  /\ listening
  /\ listening' = FALSE
  /\ UNCHANGED <<process, programVars, sock, unread, losses>>

PeerCloses(d) ==
  /\ sock[d] = "up" /\ losses < MaxLosses
  /\ sock' = [sock EXCEPT ![d] = "lost"]
  /\ losses' = losses + 1
  /\ UNCHANGED <<process, programVars, unread, listening>>

\* Nothing in this class ever takes the peer's data out of the queue.
PeerWrites(d) ==
  /\ sock[d] = "up" /\ ~unread[d]
  /\ unread' = [unread EXCEPT ![d] = TRUE]
  /\ UNCHANGED <<process, programVars, sock, listening, losses>>

-----------------------------------------------------------------------------

TxReconnect ==
  \/ TestConnected
  \/ CreateSocket
  \/ ConnectSucceeds
  \/ ConnectFails
  \/ SetConnected
  \/ PeekLoss
  \/ PeekNothing
  \/ CloseSocket
  \/ ClearConnected

Peer ==
  /\ Running
  /\ \/ PeerListens
     \/ PeerStops
     \/ \E d \in Desc : PeerCloses(d) \/ PeerWrites(d)

Next ==
  \/ InitTx \/ InitTxReturns
  \/ DestroyClose \/ DestroyClearFlag \/ DestroyClearDesc
  \/ TxReconnect
  \/ \E s \in Sender : TxTest(s) \/ TxSend(s)
  \/ Peer

Spec == Init /\ [][Next]_vars

\* The thread is scheduled, and socket() does not fail for ever.  Nobody has to
\* call Tx, and the peer need not do anything.
Fairness ==
  /\ WF_vars(TxReconnect)
  /\ SF_vars(CreateSocket /\ desc' # -1)
FairSpec == Spec /\ Fairness

-----------------------------------------------------------------------------
(* Properties.                                                             *)

Open == Desc \ Free
Destroyed == main \in {"exiting", "cleared", "gone"}

\* What DestroyTx may have left open for ever, by how far it has come: clearing the
\* flag makes the thread forget the socket it has just connected, clearing the
\* descriptor the one it has opened since.
Forgotten ==
  CASE main = "cleared" -> {{a} : a \in Desc}
    [] main = "gone" -> {{a, b} : a \in Desc, b \in Desc}
    [] OTHER -> {{}}

\* Connecting again and again uses up no descriptors: the stored one is the only one
\* open.  DestroyTx (Socket.cpp:362-368), whose three statements the thread may
\* come between, leaves at most two more, however long the thread goes on.
NoLeak == \E lost \in Forgotten : Open \subseteq lost \cup {desc}

\* A send() never ends the process while the peer keeps its connections and
\* DestroyTx has not been called: the window between Tx's test and its send()
\* matters only once a connection is lost.
SurvivesSteadyPeer == process = "killed" => losses > 0 \/ Destroyed

\* A connection the peer has closed is closed here, too, provided the peer had
\* never written to it.
LossNoticed ==
  \A d \in Desc :
    (sock[d] \in {"lost", "reset", "dead"} /\ ~unread[d])
      ~> (sock[d] \in {"free", "fresh", "up"} \/ ~Running \/ Destroyed)

\* As long as the peer listens, Tx gets a connection, again and again, unless it
\* is kept from noticing a loss by data nobody reads.
Deaf == desc \in Desc /\ sock[desc] \notin {"free", "fresh", "up"} /\ unread[desc]
Usable == connected /\ desc \in Desc /\ sock[desc] = "up"
Reconnects ==
  (listening /\ reconnect # "none")
    ~> (Usable \/ Deaf \/ ~listening \/ ~Running \/ Destroyed)
=============================================================================
