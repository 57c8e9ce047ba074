---------------------------- MODULE MCMessageDef ----------------------------
(* An instance of MessageDef for TLC: the program's own messages, and four *)
(* more that an application may add: one with key 0, one new one, one that *)
(* takes a used key and one that takes a used name.                        *)
EXTENDS MessageDef, MessageList

Extra ==
  {[key |-> 0, name |-> "GET_DATA_FROM_BACKEND", highend_can_set |-> 0],
   [key |-> 7, name |-> "GET_DATA_FROM_BACKEND", highend_can_set |-> 1],
   [key |-> 100, name |-> "NEW", highend_can_set |-> 0],
   [key |-> 7, name |-> "E_STOP_STATE", highend_can_set |-> 1]}

Known == {Registered[i] : i \in DOMAIN Registered} \cup Extra
Keys == {m.key : m \in Known}
Names == {m.name : m \in Known}
=============================================================================
