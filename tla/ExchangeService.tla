-------------------------- MODULE ExchangeService --------------------------
(***************************************************************************)
(* What XBeeHandler promises to the callers of send(): a request is open   *)
(* until its callback is called, once, with a frame no other callback has  *)
(* had, or until it is given up.  How often the frame is written, what the *)
(* line loses and how the threads interleave does not show here.  Neither  *)
(* does the promise one would like: that the frame answers the request.    *)
(***************************************************************************)
EXTENDS Integers

CONSTANTS
  Exchange,  \* the calls of send()
  Frame      \* whatever can come back

VARIABLES
  outcome,   \* outcome[e]: "idle", "open", "answered" or "failed"
  consumed   \* the frames that callbacks have been given

vars == <<outcome, consumed>>

TypeOK ==
  /\ outcome \in [Exchange -> {"idle", "open", "answered", "failed"}]
  /\ consumed \subseteq Frame

Init ==
  /\ outcome = [e \in Exchange |-> "idle"]
  /\ consumed = {}

Request(e) ==
  /\ outcome[e] = "idle"
  /\ outcome' = [outcome EXCEPT ![e] = "open"]
  /\ UNCHANGED consumed

Answer(e, f) ==
  /\ outcome[e] = "open"
  /\ f \notin consumed
  /\ outcome' = [outcome EXCEPT ![e] = "answered"]
  /\ consumed' = consumed \cup {f}

GiveUp(e) ==
  /\ outcome[e] = "open"
  /\ outcome' = [outcome EXCEPT ![e] = "failed"]
  /\ UNCHANGED consumed

Next ==
  \E e \in Exchange :
    \/ Request(e)
    \/ \E f \in Frame : Answer(e, f)
    \/ GiveUp(e)

Spec == Init /\ [][Next]_vars
=============================================================================
