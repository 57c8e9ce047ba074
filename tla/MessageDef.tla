----------------------------- MODULE MessageDef -----------------------------
(***************************************************************************)
(* Class MessageDef (messagedef.cpp): a table of messages, shared by all   *)
(* objects, that the first constructor fills and Add extends, and lookups  *)
(* that search it from the front.                                          *)
(*                                                                         *)
(* Abstractions.  Names are values that fit the 256 bytes of the field.    *)
(* Nothing in the class is locked; its caller is one thread.               *)
(***************************************************************************)
EXTENDS Integers, Sequences

CONSTANTS
  Key, Name,
  NoName,    \* what GetName returns for an unknown key: a null pointer
  Unknown,   \* the abstract directory's word for the same
  Builtin,   \* the messages the constructor registers, in order
  Offered,   \* the messages an application may add
  Chunk,     \* for how many more messages memory is allocated at a time
  MaxCalls   \* bound: how often an application calls Add

Message == [key : Key, name : Name, highend_can_set : {0, 1}]

ASSUME MessageAssumption ==
  /\ Builtin \in Seq(Message)
  /\ Offered \subseteq Message
  /\ NoName \notin Name
  /\ Unknown \notin Key \cup Message
ASSUME DistinctAssumption ==
  \A i, j \in 1..Len(Builtin) :
    Builtin[i].key = Builtin[j].key \/ Builtin[i].name = Builtin[j].name => i = j
ASSUME KeyZeroAssumption ==
  0 \in Key /\ \A i \in 1..Len(Builtin) : Builtin[i].key # 0
ASSUME SizeAssumption == Chunk \in Nat \ {0} /\ MaxCalls \in Nat

VARIABLES
  process,       \* "running" or "crashed"
  initialized,   \* Initialized
  constructing,  \* which of Builtin the constructor adds next; 0 outside of it
  table,         \* pMessageDef, its first NumMessageDef records
  allocated,     \* NumMessageDefAllocated; 0 means that pMessageDef is null
  missed,        \* the messages for which Add has returned 0 (history)
  calls          \* how often an application has called Add (history)

vars ==
  <<process, initialized, constructing, table, allocated, missed, calls>>

-----------------------------------------------------------------------------
(* The lookups.  They return what the first record of t that fits says.    *)

HasKey(t, k) == \E i \in 1..Len(t) : t[i].key = k
HasName(t, n) == \E i \in 1..Len(t) : t[i].name = n

\* Fault: the search does not stop at the first record.
LastWithKey(t, k) ==
  CHOOSE i \in 1..Len(t) :
    t[i].key = k /\ \A j \in (i + 1)..Len(t) : t[j].key # k
LastWithName(t, n) ==
  CHOOSE i \in 1..Len(t) :
    t[i].name = n /\ \A j \in (i + 1)..Len(t) : t[j].name # n

IsFirstWithKey(t, i, k) == t[i].key = k /\ \A j \in 1..(i - 1) : t[j].key # k
IsFirstWithName(t, i, n) == t[i].name = n /\ \A j \in 1..(i - 1) : t[j].name # n

FirstWithKey(t, k) == CHOOSE i \in 1..Len(t) : IsFirstWithKey(t, i, k)
FirstWithName(t, n) == CHOOSE i \in 1..Len(t) : IsFirstWithName(t, i, n)

GetName(k) ==
  IF HasKey(table, k) THEN table[FirstWithKey(table, k)].name ELSE NoName
GetId(n) == IF HasName(table, n) THEN table[FirstWithName(table, n)].key ELSE 0
CanHighendSet(k) ==
  IF HasKey(table, k) THEN table[FirstWithKey(table, k)].highend_can_set ELSE 0

\* IsValid, of a key and of a name.  A message with key 0 has no valid name.
IsValidKey(k) == GetName(k) # NoName
IsValidName(n) == GetId(n) # 0

-----------------------------------------------------------------------------

Init ==
  /\ process = "running"
  /\ initialized = FALSE
  /\ constructing = 0
  /\ table = <<>>
  /\ allocated = 0
  /\ missed = {}
  /\ calls = 0

\* Fault: the table is full one record later.
FullOffByOne == Len(table) > allocated

\* No room for one more record.
Full == Len(table) >= allocated

\* The new record.
Store(m) ==
  /\ table' = Append(table, m)
  /\ UNCHANGED <<process, missed>>

\* The first malloc(); its result is not looked at, and a null pointer is
\* written through.
AddFirst(m) ==
  /\ allocated = 0
  /\ allocated' = Chunk
  /\ \/ Store(m)
     \/ process' = "crashed" /\ UNCHANGED <<table, missed>>

\* There is room.
AddBehind(m) ==
  /\ allocated # 0 /\ ~Full
  /\ Store(m)
  /\ UNCHANGED allocated

\* realloc(), which may fail; then Add returns 0 and leaves all as it is.
AddGrowing(m) ==
  /\ allocated # 0 /\ Full
  /\ \/ allocated' = allocated + Chunk /\ Store(m)
     \/ missed' = missed \cup {m} /\ UNCHANGED <<process, table, allocated>>

Add(m) == AddFirst(m) \/ AddBehind(m) \/ AddGrowing(m)

\* Fault: the constructor of another object starts all over.
ConstructAgain ==
  /\ process = "running"
  /\ constructing = 0
  /\ constructing' = 1
  /\ table' = <<>>
  /\ allocated' = 0
  /\ UNCHANGED <<process, initialized, missed, calls>>

\* The constructor of the first object; those of others find Initialized set
\* and do nothing.
Construct ==
  /\ process = "running"
  /\ ~initialized /\ constructing = 0
  /\ constructing' = 1
  /\ table' = <<>>
  /\ allocated' = 0
  /\ UNCHANGED <<process, initialized, missed, calls>>

\* ADDMSG, one after another; the result of Add is dropped.
AddBuiltin ==
  /\ process = "running"
  /\ constructing \in 1..Len(Builtin)
  /\ Add(Builtin[constructing])
  /\ constructing' = constructing + 1
  /\ UNCHANGED <<initialized, calls>>

Constructed ==
  /\ process = "running"
  /\ constructing = Len(Builtin) + 1
  /\ constructing' = 0
  /\ initialized' = TRUE
  /\ UNCHANGED <<process, table, allocated, missed, calls>>

\* An application adds a message of its own.
AddOffered(m) ==
  /\ process = "running"
  /\ initialized
  /\ calls < MaxCalls
  /\ Add(m)
  /\ calls' = calls + 1
  /\ UNCHANGED <<initialized, constructing>>

Next ==
  \/ Construct
  \/ AddBuiltin
  \/ Constructed
  \/ \E m \in Offered : AddOffered(m)

Spec == Init /\ [][Next]_vars

-----------------------------------------------------------------------------
(* Properties.                                                             *)

\* The types of the variables.
TypeOK ==
  /\ process \in {"running", "crashed"}
  /\ initialized \in BOOLEAN
  /\ constructing \in 0..(Len(Builtin) + 1)
  /\ table \in Seq(Message)
  /\ allocated \in Nat
  /\ missed \subseteq Message
  /\ calls \in 0..MaxCalls

\* Add (messagedef.cpp:125) never writes behind the memory it has allocated,
\* whichever of the calls of realloc() have failed before.
WithinAllocation == Len(table) <= allocated

\* A message of the constructor can be looked up, by key and by name, with what
\* it was registered with, unless its own Add was refused (messagedef.cpp:120):
\* neither the refusal of others nor a later Add of the same key or name hides
\* it.
BuiltinKnown ==
  \A i \in 1..Len(Builtin) :
    (initialized \/ i < constructing) /\ process = "running"
      /\ Builtin[i] \notin missed
    => /\ IsValidKey(Builtin[i].key) /\ IsValidName(Builtin[i].name)
       /\ GetName(Builtin[i].key) = Builtin[i].name
       /\ GetId(Builtin[i].name) = Builtin[i].key
       /\ CanHighendSet(Builtin[i].key) = Builtin[i].highend_can_set

\* The table implements the directory: keys and names keep their first meaning,
\* through failed and successful reallocations, the constructors of further
\* objects and the end of the process.
Meaning(t) ==
  [k \in Key |-> IF HasKey(t, k) THEN t[FirstWithKey(t, k)] ELSE Unknown]
IdOf(t) ==
  [n \in Name |-> IF HasName(t, n) THEN t[FirstWithName(t, n)].key ELSE Unknown]

Directory ==
  INSTANCE MessageDirectory WITH meaning <- Meaning(table), id <- IdOf(table)

ImplementsDirectory == Directory!Spec
=============================================================================
