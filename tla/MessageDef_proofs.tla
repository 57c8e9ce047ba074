-------------------------- MODULE MessageDef_proofs --------------------------
(***************************************************************************)
(* Proofs about MessageDef, for any messages, any size of the table and    *)
(* any number of messages allocated at a time.                             *)
(***************************************************************************)
EXTENDS MessageDef, TLAPS

-----------------------------------------------------------------------------
(* Searching a table.                                                      *)

\* Every search of t that finds anything finds a first record.  (The library's
\* induction cannot be used for it, so this is an invariant of the table.)
Searchable(t) ==
  /\ \A k \in Key : HasKey(t, k) => \E i \in 1..Len(t) : IsFirstWithKey(t, i, k)
  /\ \A n \in Name :
       HasName(t, n) => \E i \in 1..Len(t) : IsFirstWithName(t, i, n)

LEMMA FirstKeyFound ==
  ASSUME NEW t \in Seq(Message), NEW k, NEW i \in 1..Len(t),
         IsFirstWithKey(t, i, k)
  PROVE  HasKey(t, k) /\ FirstWithKey(t, k) = i
<1>1. HasKey(t, k)
  BY DEF HasKey, IsFirstWithKey
<1>2. ASSUME NEW j \in 1..Len(t), IsFirstWithKey(t, j, k)
      PROVE  j = i
  BY <1>2 DEF IsFirstWithKey
<1>3. QED
  BY <1>1, <1>2 DEF FirstWithKey

LEMMA FirstNameFound ==
  ASSUME NEW t \in Seq(Message), NEW n, NEW i \in 1..Len(t),
         IsFirstWithName(t, i, n)
  PROVE  HasName(t, n) /\ FirstWithName(t, n) = i
<1>1. HasName(t, n)
  BY DEF HasName, IsFirstWithName
<1>2. ASSUME NEW j \in 1..Len(t), IsFirstWithName(t, j, n)
      PROVE  j = i
  BY <1>2 DEF IsFirstWithName
<1>3. QED
  BY <1>1, <1>2 DEF FirstWithName

\* What a record behind the others changes: it is the first of its key and of
\* its name if these are new, and hides nothing.
LEMMA AppendedKeys ==
  ASSUME NEW t \in Seq(Message), NEW m \in Message, NEW k \in Key
  PROVE  /\ HasKey(Append(t, m), k) <=> HasKey(t, k) \/ m.key = k
         /\ \A i \in 1..Len(t) :
              IsFirstWithKey(Append(t, m), i, k) <=> IsFirstWithKey(t, i, k)
         /\ IsFirstWithKey(Append(t, m), Len(t) + 1, k)
              <=> m.key = k /\ ~HasKey(t, k)
<1> DEFINE u == Append(t, m)
<1>1. /\ Len(t) \in Nat
      /\ Len(u) = Len(t) + 1
      /\ u[Len(t) + 1] = m
      /\ \A i \in 1..Len(t) : u[i] = t[i]
  OBVIOUS
<1> HIDE DEF u
<1>2. HasKey(u, k) <=> HasKey(t, k) \/ m.key = k
  BY <1>1 DEF HasKey
<1>3. \A i \in 1..Len(t) : IsFirstWithKey(u, i, k) <=> IsFirstWithKey(t, i, k)
  BY <1>1 DEF IsFirstWithKey
<1>4. IsFirstWithKey(u, Len(t) + 1, k) <=> m.key = k /\ ~HasKey(t, k)
  BY <1>1 DEF IsFirstWithKey, HasKey
<1>5. QED
  BY <1>2, <1>3, <1>4 DEF u

LEMMA AppendedNames ==
  ASSUME NEW t \in Seq(Message), NEW m \in Message, NEW n \in Name
  PROVE  /\ HasName(Append(t, m), n) <=> HasName(t, n) \/ m.name = n
         /\ \A i \in 1..Len(t) :
              IsFirstWithName(Append(t, m), i, n) <=> IsFirstWithName(t, i, n)
         /\ IsFirstWithName(Append(t, m), Len(t) + 1, n)
              <=> m.name = n /\ ~HasName(t, n)
<1> DEFINE u == Append(t, m)
<1>1. /\ Len(t) \in Nat
      /\ Len(u) = Len(t) + 1
      /\ u[Len(t) + 1] = m
      /\ \A i \in 1..Len(t) : u[i] = t[i]
  OBVIOUS
<1> HIDE DEF u
<1>2. HasName(u, n) <=> HasName(t, n) \/ m.name = n
  BY <1>1 DEF HasName
<1>3. \A i \in 1..Len(t) : IsFirstWithName(u, i, n) <=> IsFirstWithName(t, i, n)
  BY <1>1 DEF IsFirstWithName
<1>4. IsFirstWithName(u, Len(t) + 1, n) <=> m.name = n /\ ~HasName(t, n)
  BY <1>1 DEF IsFirstWithName, HasName
<1>5. QED
  BY <1>2, <1>3, <1>4 DEF u

LEMMA StaysSearchable ==
  ASSUME NEW t \in Seq(Message), NEW m \in Message, Searchable(t)
  PROVE  Searchable(Append(t, m))
<1>1. Len(t) \in Nat /\ Len(Append(t, m)) = Len(t) + 1
  OBVIOUS
<1>2. ASSUME NEW k \in Key, HasKey(Append(t, m), k)
      PROVE  \E i \in 1..Len(Append(t, m)) : IsFirstWithKey(Append(t, m), i, k)
  <2>1. CASE HasKey(t, k)
    <3>1. PICK i \in 1..Len(t) : IsFirstWithKey(t, i, k)
      BY <2>1 DEF Searchable
    <3>2. IsFirstWithKey(Append(t, m), i, k)
      BY <3>1, AppendedKeys
    <3>3. QED
      BY <1>1, <3>2
  <2>2. CASE ~HasKey(t, k)
    <3>1. IsFirstWithKey(Append(t, m), Len(t) + 1, k)
      BY <1>2, <2>2, AppendedKeys
    <3>2. QED
      BY <1>1, <3>1
  <2>3. QED
    BY <2>1, <2>2
<1>3. ASSUME NEW n \in Name, HasName(Append(t, m), n)
      PROVE  \E i \in 1..Len(Append(t, m)) : IsFirstWithName(Append(t, m), i, n)
  <2>1. CASE HasName(t, n)
    <3>1. PICK i \in 1..Len(t) : IsFirstWithName(t, i, n)
      BY <2>1 DEF Searchable
    <3>2. IsFirstWithName(Append(t, m), i, n)
      BY <3>1, AppendedNames
    <3>3. QED
      BY <1>1, <3>2
  <2>2. CASE ~HasName(t, n)
    <3>1. IsFirstWithName(Append(t, m), Len(t) + 1, n)
      BY <1>3, <2>2, AppendedNames
    <3>2. QED
      BY <1>1, <3>1
  <2>3. QED
    BY <2>1, <2>2
<1>4. QED
  BY <1>2, <1>3 DEF Searchable

-----------------------------------------------------------------------------
(* The table and its memory.                                               *)

\* What Add needs to know of the table, and keeps.
TableInv ==
  /\ TypeOK
  /\ WithinAllocation
  /\ Searchable(table)
  /\ ~initialized /\ constructing = 0 => table = <<>>
  /\ initialized => constructing = 0

\* Add stores the message, refuses it, or ends the process.
AddOutcome(m) ==
  \/ table' = Append(table, m) /\ UNCHANGED <<process, missed>>
  \/ UNCHANGED <<process, table>> /\ missed' = missed \cup {m}
  \/ process' = "crashed" /\ UNCHANGED <<table, missed>>

LEMMA AddKeepsTable ==
  ASSUME NEW m \in Message, TableInv, Add(m)
  PROVE  /\ table' \in Seq(Message) /\ Searchable(table')
         /\ allocated' \in Nat /\ Len(table') <= allocated'
         /\ AddOutcome(m)
<1>1. /\ table \in Seq(Message) /\ Searchable(table)
      /\ allocated \in Nat /\ Len(table) <= allocated
  BY DEF TableInv, TypeOK, WithinAllocation
<1>2. Len(table) \in Nat /\ Len(Append(table, m)) = Len(table) + 1
  BY <1>1
<1>3. Append(table, m) \in Seq(Message) /\ Searchable(Append(table, m))
  BY <1>1, StaysSearchable
<1>4. CASE Store(m)
  <2>1. table' = Append(table, m) /\ AddOutcome(m)
    BY <1>4 DEF Store, AddOutcome
  <2>2. allocated' \in Nat /\ Len(table) + 1 <= allocated'
    BY <1>1, <1>2, <2>1, <1>4, SizeAssumption
       DEF Add, AddFirst, AddBehind, AddGrowing, Full
  <2>3. QED
    BY <1>2, <1>3, <2>1, <2>2
<1>5. CASE ~Store(m)
  <2>1. UNCHANGED table /\ AddOutcome(m)
    BY <1>5 DEF Add, AddFirst, AddBehind, AddGrowing, AddOutcome
  <2>2. allocated' \in Nat /\ allocated <= allocated'
    BY <1>1, <1>5, SizeAssumption DEF Add, AddFirst, AddBehind, AddGrowing
  <2>3. QED
    BY <1>1, <1>2, <2>1, <2>2
<1>6. QED
  BY <1>4, <1>5

LEMMA EmptyTable ==
  /\ <<>> \in Seq(Message) /\ Len(<<>>) = 0
  /\ Searchable(<<>>)
  BY DEF Searchable, HasKey, HasName

LEMMA TableInductive == Spec => []TableInv
<1>1. Init => TableInv
  <2> SUFFICES ASSUME Init PROVE TableInv
    OBVIOUS
  <2>1. Len(Builtin) \in Nat /\ 0 \in 0..(Len(Builtin) + 1) /\ 0 \in 0..MaxCalls
    BY MessageAssumption, SizeAssumption
  <2>2. TypeOK
    BY <2>1, EmptyTable DEF Init, TypeOK
  <2>3. WithinAllocation /\ Searchable(table)
    BY EmptyTable DEF Init, WithinAllocation
  <2>4. QED
    BY <2>2, <2>3 DEF Init, TableInv
<1>2. TableInv /\ [Next]_vars => TableInv'
  <2> SUFFICES ASSUME TableInv, [Next]_vars PROVE TableInv'
    OBVIOUS
  <2> USE MessageAssumption, SizeAssumption
  <2>1. Len(Builtin) \in Nat
    OBVIOUS
  <2>2. CASE Construct
    BY <2>1, <2>2, EmptyTable DEF Construct, TableInv, TypeOK, WithinAllocation
  <2>3. CASE AddBuiltin
    <3>1. Builtin[constructing] \in Message
      BY <2>3 DEF AddBuiltin
    <3>2. constructing' \in 1..(Len(Builtin) + 1) /\ ~initialized
      BY <2>1, <2>3 DEF AddBuiltin, TableInv, TypeOK
    <3>3. process' \in {"running", "crashed"} /\ missed' \subseteq Message
      BY <2>3, <3>1, AddKeepsTable DEF AddBuiltin, AddOutcome, TableInv, TypeOK
    <3>4. QED
      BY <2>3, <3>1, <3>2, <3>3, AddKeepsTable
         DEF AddBuiltin, TableInv, TypeOK, WithinAllocation
  <2>4. CASE Constructed
    BY <2>1, <2>4 DEF Constructed, TableInv, TypeOK, WithinAllocation
  <2>5. ASSUME NEW m \in Offered, AddOffered(m) PROVE TableInv'
    <3>1. m \in Message
      OBVIOUS
    <3>2. process' \in {"running", "crashed"} /\ missed' \subseteq Message
      BY <2>5, <3>1, AddKeepsTable DEF AddOffered, AddOutcome, TableInv, TypeOK
    <3>3. QED
      BY <2>5, <3>1, <3>2, AddKeepsTable
         DEF AddOffered, TableInv, TypeOK, WithinAllocation
  <2>6. CASE UNCHANGED vars
    BY <2>6 DEF vars, TableInv, TypeOK, WithinAllocation
  <2>7. QED
    BY <2>2, <2>3, <2>4, <2>5, <2>6 DEF Next
<1>3. QED
  BY <1>1, <1>2, PTL DEF Spec

\* Add never writes behind the memory it has allocated (messagedef.cpp:104-125).
THEOREM NeverBeyondAllocation == Spec => []WithinAllocation
<1>1. TableInv => WithinAllocation
  BY DEF TableInv
<1>2. QED
  BY <1>1, TableInductive, PTL

-----------------------------------------------------------------------------
(* The messages of the constructor.                                        *)

\* m is in t, and the first record with its key and with its name.
Placed(t, m) ==
  \E j \in 1..Len(t) :
    t[j] = m /\ IsFirstWithKey(t, j, m.key) /\ IsFirstWithName(t, j, m.name)

LEMMA StaysPlaced ==
  ASSUME NEW t \in Seq(Message), NEW m \in Message, NEW new \in Message,
         Placed(t, m)
  PROVE  Placed(Append(t, new), m)
<1>1. PICK j \in 1..Len(t) :
        t[j] = m /\ IsFirstWithKey(t, j, m.key) /\ IsFirstWithName(t, j, m.name)
  BY DEF Placed
<1>2. m.key \in Key /\ m.name \in Name
  BY DEF Message
<1>3. /\ IsFirstWithKey(Append(t, new), j, m.key)
      /\ IsFirstWithName(Append(t, new), j, m.name)
  BY <1>1, <1>2, AppendedKeys, AppendedNames
<1>4. j \in 1..Len(Append(t, new)) /\ Append(t, new)[j] = m
  BY <1>1
<1>5. QED
  BY <1>3, <1>4 DEF Placed

LEMMA NewPlaced ==
  ASSUME NEW t \in Seq(Message), NEW m \in Message,
         ~HasKey(t, m.key), ~HasName(t, m.name)
  PROVE  Placed(Append(t, m), m)
<1>1. m.key \in Key /\ m.name \in Name
  BY DEF Message
<1>2. /\ IsFirstWithKey(Append(t, m), Len(t) + 1, m.key)
      /\ IsFirstWithName(Append(t, m), Len(t) + 1, m.name)
  BY <1>1, AppendedKeys, AppendedNames
<1>3. /\ Len(t) + 1 \in 1..Len(Append(t, m))
      /\ Append(t, m)[Len(t) + 1] = m
  OBVIOUS
<1>4. QED
  BY <1>2, <1>3 DEF Placed

\* While the constructor runs, the table holds only what it has added so far,
\* so that what it adds next is new; and all it was not refused has its place.
Origin ==
  ~initialized =>
    \A j \in 1..Len(table) : \E i \in 1..(constructing - 1) : table[j] = Builtin[i]
Kept ==
  \A i \in 1..Len(Builtin) :
    (initialized \/ i < constructing) /\ process = "running"
      /\ Builtin[i] \notin missed
    => Placed(table, Builtin[i])

BuiltinInv == TableInv /\ Origin /\ Kept

LEMMA NextBuiltinIsNew ==
  ASSUME TableInv, Origin, AddBuiltin
  PROVE  /\ ~HasKey(table, Builtin[constructing].key)
         /\ ~HasName(table, Builtin[constructing].name)
<1>1. ~initialized /\ constructing \in 1..Len(Builtin) /\ Len(Builtin) \in Nat
  BY MessageAssumption DEF AddBuiltin, TableInv
<1>2. ASSUME NEW j \in 1..Len(table)
      PROVE  /\ table[j].key # Builtin[constructing].key
             /\ table[j].name # Builtin[constructing].name
  <2>1. PICK i \in 1..(constructing - 1) : table[j] = Builtin[i]
    BY <1>1 DEF Origin
  <2>2. i \in 1..Len(Builtin) /\ i # constructing
    BY <1>1
  <2>3. QED
    BY <1>1, <2>1, <2>2, DistinctAssumption
<1>3. QED
  BY <1>2 DEF HasKey, HasName

LEMMA BuiltinStep ==
  ASSUME BuiltinInv, AddBuiltin
  PROVE  Origin' /\ Kept'
<1> DEFINE c == constructing
           m == Builtin[c]
<1>1. /\ ~initialized /\ initialized' = initialized
      /\ c \in 1..Len(Builtin) /\ constructing' = c + 1 /\ Len(Builtin) \in Nat
      /\ process = "running" /\ Add(m) /\ m \in Message
  BY MessageAssumption DEF AddBuiltin, BuiltinInv, TableInv
<1>2. table \in Seq(Message) /\ AddOutcome(m)
  BY <1>1, AddKeepsTable DEF BuiltinInv, TableInv, TypeOK
<1>3. \A j \in 1..Len(table) : \E i \in 1..(c - 1) : table[j] = Builtin[i]
  BY <1>1 DEF BuiltinInv, Origin
<1>4. \A i \in 1..Len(Builtin) :
        i < c /\ Builtin[i] \notin missed => Placed(table, Builtin[i])
  BY <1>1 DEF BuiltinInv, Kept
<1>5. ~HasKey(table, m.key) /\ ~HasName(table, m.name)
  BY NextBuiltinIsNew DEF BuiltinInv
<1>6. \A i \in 1..Len(Builtin) : Builtin[i] \in Message
  BY MessageAssumption
<1> HIDE DEF m
<1>7. CASE table' = Append(table, m) /\ UNCHANGED <<process, missed>>
  <2>1. Origin'
    <3>1. ASSUME NEW j \in 1..Len(table')
          PROVE  \E i \in 1..c : table'[j] = Builtin[i]
      <4>1. CASE j \in 1..Len(table)
        <5>1. table'[j] = table[j]
          BY <1>2, <1>7, <4>1
        <5>2. PICK i \in 1..(c - 1) : table[j] = Builtin[i]
          BY <1>3, <4>1
        <5>3. i \in 1..c
          BY <1>1
        <5>4. QED
          BY <5>1, <5>2, <5>3
      <4>2. CASE j = Len(table) + 1
        BY <1>1, <1>2, <1>7, <4>2 DEF m
      <4>3. QED
        BY <1>2, <1>7, <4>1, <4>2
    <3>2. QED
      BY <1>1, <3>1 DEF Origin
  <2>2. ASSUME NEW i \in 1..Len(Builtin), i < c + 1, Builtin[i] \notin missed
        PROVE  Placed(table', Builtin[i])
    <3>1. CASE i = c
      BY <1>1, <1>2, <1>5, <1>7, <3>1, NewPlaced DEF m
    <3>2. CASE i < c
      BY <1>1, <1>2, <1>4, <1>6, <1>7, <2>2, <3>2, StaysPlaced
    <3>3. QED
      BY <1>1, <2>2, <3>1, <3>2
  <2>3. QED
    BY <1>1, <1>7, <2>1, <2>2 DEF Kept
<1>8. CASE UNCHANGED <<process, table>> /\ missed' = missed \cup {m}
  <2>1. Origin'
    BY <1>1, <1>3, <1>8 DEF Origin
  <2>2. ASSUME NEW i \in 1..Len(Builtin), i < c + 1, Builtin[i] \notin missed'
        PROVE  Placed(table', Builtin[i])
    <3>1. i # c
      BY <1>8, <2>2 DEF m
    <3>2. i < c /\ Builtin[i] \notin missed
      BY <1>1, <1>8, <2>2, <3>1
    <3>3. QED
      BY <1>4, <1>8, <3>2
  <2>3. QED
    BY <1>1, <2>1, <2>2 DEF Kept
<1>9. CASE process' = "crashed" /\ UNCHANGED <<table, missed>>
  BY <1>1, <1>3, <1>9 DEF Origin, Kept
<1>10. QED
  BY <1>2, <1>7, <1>8, <1>9 DEF AddOutcome

LEMMA OfferedStep ==
  ASSUME BuiltinInv, NEW m \in Message, AddOffered(m)
  PROVE  Origin' /\ Kept'
<1>1. /\ initialized /\ initialized' = initialized
      /\ constructing' = constructing /\ Add(m)
      /\ table \in Seq(Message) /\ process = "running"
  BY DEF AddOffered, BuiltinInv, TableInv, TypeOK
<1>2. AddOutcome(m)
  BY <1>1, AddKeepsTable DEF BuiltinInv
<1>3. ASSUME NEW i \in 1..Len(Builtin), process' = "running",
             Builtin[i] \notin missed'
      PROVE  Placed(table', Builtin[i])
  <2>1. Builtin[i] \in Message
    BY MessageAssumption
  <2>2. Builtin[i] \notin missed
    BY <1>2, <1>3 DEF AddOutcome
  <2>3. Placed(table, Builtin[i])
    BY <1>1, <2>2 DEF BuiltinInv, Kept
  <2>4. QED
    BY <1>1, <1>2, <1>3, <2>1, <2>3, StaysPlaced DEF AddOutcome
<1>4. QED
  BY <1>1, <1>3 DEF Origin, Kept

LEMMA BuiltinInductive == Spec => []BuiltinInv
<1>1. Init => Origin /\ Kept
  BY MessageAssumption DEF Init, Origin, Kept
<1>2. BuiltinInv /\ [Next]_vars => (Origin /\ Kept)'
  <2> SUFFICES ASSUME BuiltinInv, [Next]_vars PROVE Origin' /\ Kept'
    OBVIOUS
  <2>1. CASE Construct
    BY <2>1, MessageAssumption DEF Construct, Origin, Kept
  <2>2. CASE AddBuiltin
    BY <2>2, BuiltinStep
  <2>3. CASE Constructed
    BY <2>3, MessageAssumption DEF Constructed, BuiltinInv, Origin, Kept
  <2>4. ASSUME NEW m \in Offered, AddOffered(m) PROVE Origin' /\ Kept'
    BY <2>4, MessageAssumption, OfferedStep
  <2>5. CASE UNCHANGED vars
    BY <2>5 DEF vars, BuiltinInv, Origin, Kept
  <2>6. QED
    BY <2>1, <2>2, <2>3, <2>4, <2>5 DEF Next
<1>3. QED
  BY <1>1, <1>2, TableInductive, PTL DEF Spec, BuiltinInv

\* A message of the constructor whose own Add was not refused can be looked up,
\* whatever an application adds and whatever other calls of realloc() fail.
THEOREM BuiltinStaysKnown == Spec => []BuiltinKnown
<1>1. BuiltinInv => BuiltinKnown
  <2> SUFFICES ASSUME BuiltinInv,
                      NEW i \in 1..Len(Builtin),
                      initialized \/ i < constructing, process = "running",
                      Builtin[i] \notin missed
               PROVE  /\ IsValidKey(Builtin[i].key) /\ IsValidName(Builtin[i].name)
                      /\ GetName(Builtin[i].key) = Builtin[i].name
                      /\ GetId(Builtin[i].name) = Builtin[i].key
                      /\ CanHighendSet(Builtin[i].key) = Builtin[i].highend_can_set
    BY DEF BuiltinKnown
  <2> DEFINE m == Builtin[i]
  <2>1. m \in Message /\ m.key # 0 /\ m.name # NoName
    <3>1. m \in Message
      BY MessageAssumption
    <3>2. m.name \in Name
      BY <3>1 DEF Message
    <3>3. m.key # 0
      BY KeyZeroAssumption
    <3>4. m.name # NoName
      BY <3>2, MessageAssumption
    <3>5. QED
      BY <3>1, <3>3, <3>4
  <2>2. Placed(table, m) /\ table \in Seq(Message)
    BY DEF BuiltinInv, Kept, TableInv, TypeOK
  <2> HIDE DEF m
  <2>3. PICK j \in 1..Len(table) :
          /\ table[j] = m
          /\ IsFirstWithKey(table, j, m.key) /\ IsFirstWithName(table, j, m.name)
    BY <2>2 DEF Placed
  <2>4. HasKey(table, m.key) /\ FirstWithKey(table, m.key) = j
    BY <2>2, <2>3, FirstKeyFound
  <2>5. HasName(table, m.name) /\ FirstWithName(table, m.name) = j
    BY <2>2, <2>3, FirstNameFound
  <2>6. /\ GetName(m.key) = m.name /\ GetId(m.name) = m.key
        /\ CanHighendSet(m.key) = m.highend_can_set
    BY <2>3, <2>4, <2>5 DEF GetName, GetId, CanHighendSet
  <2>7. QED
    BY <2>1, <2>6 DEF IsValidKey, IsValidName, m
<1>2. QED
  BY <1>1, BuiltinInductive, PTL

-----------------------------------------------------------------------------
(* The refinement.                                                         *)

LEMMA MeaningAppended ==
  ASSUME NEW t \in Seq(Message), NEW m \in Message, Searchable(t)
  PROVE  Meaning(Append(t, m))
           = [Meaning(t) EXCEPT ![m.key] = IF @ = Unknown THEN m ELSE @]
<1> DEFINE u == Append(t, m)
<1>1. m.key \in Key
  BY DEF Message
<1>2. /\ u \in Seq(Message) /\ Len(u) = Len(t) + 1 /\ Len(t) \in Nat
      /\ u[Len(t) + 1] = m /\ \A i \in 1..Len(t) : u[i] = t[i]
  OBVIOUS
<1>3. ASSUME NEW k \in Key
      PROVE  Meaning(u)[k] = IF k = m.key
                             THEN IF Meaning(t)[k] = Unknown THEN m
                                  ELSE Meaning(t)[k]
                             ELSE Meaning(t)[k]
  <2>1. CASE HasKey(t, k)
    <3>1. PICK i \in 1..Len(t) : IsFirstWithKey(t, i, k)
      BY <2>1 DEF Searchable
    <3>2. FirstWithKey(t, k) = i
      BY <3>1, FirstKeyFound
    <3>3. IsFirstWithKey(u, i, k) /\ i \in 1..Len(u)
      BY <1>2, <3>1, AppendedKeys
    <3>4. HasKey(u, k) /\ FirstWithKey(u, k) = i
      BY <1>2, <3>3, FirstKeyFound
    <3>5. Meaning(u)[k] = t[i] /\ Meaning(t)[k] = t[i]
      BY <1>2, <2>1, <3>2, <3>4 DEF Meaning
    <3>6. t[i] # Unknown
      BY MessageAssumption
    <3>7. QED
      BY <3>5, <3>6
  <2>2. CASE ~HasKey(t, k) /\ k = m.key
    <3>1. IsFirstWithKey(u, Len(t) + 1, k) /\ Len(t) + 1 \in 1..Len(u)
      BY <1>2, <2>2, AppendedKeys
    <3>2. HasKey(u, k) /\ FirstWithKey(u, k) = Len(t) + 1
      BY <1>2, <3>1, FirstKeyFound
    <3>3. QED
      BY <1>2, <2>2, <3>2 DEF Meaning
  <2>3. CASE ~HasKey(t, k) /\ k # m.key
    BY <2>3, AppendedKeys DEF Meaning
  <2>4. QED
    BY <2>1, <2>2, <2>3
<1> HIDE DEF u
<1>4. QED
  BY <1>1, <1>3 DEF Meaning, u

LEMMA IdAppended ==
  ASSUME NEW t \in Seq(Message), NEW m \in Message, Searchable(t)
  PROVE  IdOf(Append(t, m))
           = [IdOf(t) EXCEPT ![m.name] = IF @ = Unknown THEN m.key ELSE @]
<1> DEFINE u == Append(t, m)
<1>1. m.name \in Name /\ m.key \in Key
  BY DEF Message
<1>2. /\ u \in Seq(Message) /\ Len(u) = Len(t) + 1 /\ Len(t) \in Nat
      /\ u[Len(t) + 1] = m /\ \A i \in 1..Len(t) : u[i] = t[i]
  OBVIOUS
<1>3. ASSUME NEW n \in Name
      PROVE  IdOf(u)[n] = IF n = m.name
                          THEN IF IdOf(t)[n] = Unknown THEN m.key ELSE IdOf(t)[n]
                          ELSE IdOf(t)[n]
  <2>1. CASE HasName(t, n)
    <3>1. PICK i \in 1..Len(t) : IsFirstWithName(t, i, n)
      BY <2>1 DEF Searchable
    <3>2. FirstWithName(t, n) = i
      BY <3>1, FirstNameFound
    <3>3. IsFirstWithName(u, i, n) /\ i \in 1..Len(u)
      BY <1>2, <3>1, AppendedNames
    <3>4. HasName(u, n) /\ FirstWithName(u, n) = i
      BY <1>2, <3>3, FirstNameFound
    <3>5. IdOf(u)[n] = t[i].key /\ IdOf(t)[n] = t[i].key
      BY <1>2, <2>1, <3>2, <3>4 DEF IdOf
    <3>6. t[i].key # Unknown
      <4>1. t[i] \in Message
        OBVIOUS
      <4>2. QED
        BY <4>1, MessageAssumption DEF Message
    <3>7. QED
      BY <3>5, <3>6
  <2>2. CASE ~HasName(t, n) /\ n = m.name
    <3>1. IsFirstWithName(u, Len(t) + 1, n) /\ Len(t) + 1 \in 1..Len(u)
      BY <1>2, <2>2, AppendedNames
    <3>2. HasName(u, n) /\ FirstWithName(u, n) = Len(t) + 1
      BY <1>2, <3>1, FirstNameFound
    <3>3. QED
      BY <1>2, <2>2, <3>2 DEF IdOf
  <2>3. CASE ~HasName(t, n) /\ n # m.name
    BY <2>3, AppendedNames DEF IdOf
  <2>4. QED
    BY <2>1, <2>2, <2>3
<1> HIDE DEF u
<1>4. QED
  BY <1>1, <1>3 DEF IdOf, u

\* What Add stores is registered; what it refuses, and a crash, do not show.
LEMMA AddRegisters ==
  ASSUME TableInv, NEW m \in Message, Add(m)
  PROVE  [Directory!Next]_Directory!vars
<1>1. table \in Seq(Message) /\ Searchable(table) /\ AddOutcome(m)
  BY AddKeepsTable DEF TableInv, TypeOK
<1>2. CASE table' = Append(table, m)
  <2>1. Directory!Register(m)
    BY <1>1, <1>2, MeaningAppended, IdAppended DEF Directory!Register
  <2>2. QED
    BY <2>1 DEF Directory!Next
<1>3. CASE UNCHANGED table
  BY <1>3 DEF Directory!vars
<1>4. QED
  BY <1>1, <1>2, <1>3 DEF AddOutcome

\* The table implements the directory: a key and a name keep their first meaning.
THEOREM TableImplementsDirectory == Spec => ImplementsDirectory
<1>1. Init => Directory!Init
  BY DEF Init, Directory!Init, Meaning, IdOf, HasKey, HasName
<1>2. TableInv /\ [Next]_vars => [Directory!Next]_Directory!vars
  <2> SUFFICES ASSUME TableInv, [Next]_vars
               PROVE  [Directory!Next]_Directory!vars
    OBVIOUS
  <2>1. CASE Construct
    BY <2>1 DEF Construct, TableInv, Directory!vars
  <2>2. CASE AddBuiltin
    <3>1. Builtin[constructing] \in Message
      BY <2>2, MessageAssumption DEF AddBuiltin
    <3>2. QED
      BY <2>2, <3>1, AddRegisters DEF AddBuiltin
  <2>3. CASE Constructed
    BY <2>3 DEF Constructed, Directory!vars
  <2>4. ASSUME NEW m \in Offered, AddOffered(m)
        PROVE  [Directory!Next]_Directory!vars
    BY <2>4, MessageAssumption, AddRegisters DEF AddOffered
  <2>5. CASE UNCHANGED vars
    BY <2>5 DEF vars, Directory!vars
  <2>6. QED
    BY <2>1, <2>2, <2>3, <2>4, <2>5 DEF Next
<1>3. QED
  BY <1>1, <1>2, TableInductive, PTL DEF Spec, ImplementsDirectory, Directory!Spec
=============================================================================
