-------------------------- MODULE MessageDirectory --------------------------
(***************************************************************************)
(* What class MessageDef promises to those who look messages up: a key and *)
(* a name keep the meaning they were first given.  How the table grows,    *)
(* and that a registration may be refused, does not show here.             *)
(***************************************************************************)

CONSTANTS
  Key,      \* the ids of messages
  Name,     \* their names
  Message,  \* what can be registered: records with a key and a name
  Unknown   \* no message, and no key

VARIABLES
  meaning,  \* meaning[k]: the message that key k stands for
  id        \* id[n]: the key that name n stands for

vars == <<meaning, id>>

Init ==
  /\ meaning = [k \in Key |-> Unknown]
  /\ id = [n \in Name |-> Unknown]

\* A key or a name that has a meaning keeps it.
Register(m) ==
  /\ meaning' = [meaning EXCEPT ![m.key] = IF @ = Unknown THEN m ELSE @]
  /\ id' = [id EXCEPT ![m.name] = IF @ = Unknown THEN m.key ELSE @]

Next == \E m \in Message : Register(m)

Spec == Init /\ [][Next]_vars
=============================================================================
