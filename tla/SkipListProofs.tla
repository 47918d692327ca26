---- MODULE SkipListProofs ----
(***************************************************************************)
(* Proofs about SkipList, for every finite set of keys, every number of    *)
(* levels and every choice of random_level.                                *)
(*                                                                         *)
(* A level is a sorted list of the nodes that reach it, and linking or     *)
(* unlinking one node leaves it one, provided that the noted node is the   *)
(* predecessor.  That the walk notes predecessors needs in turn that the   *)
(* levels are lists, so both hold together (IInv).                         *)
(*                                                                         *)
(* That SkipList implements OrderedMap: Stage relates what the user has    *)
(* asked for to the calls that are left of it: where insert_set_element is *)
(* between its deletion and its insertion, how much of a file load_file    *)
(* has added, and which of the nodes dump_file has passed.                 *)
(***************************************************************************)
EXTENDS SkipList, SequenceTheorems, FiniteSetTheorems, TLAPS

-----------------------------------------------------------------------------
(* One sorted list                                                         *)

\* next links the header and the nodes of N, the smallest first.
IsList(N, next) ==
  \A n \in N \cup {Header} :
    IF next[n] = Null THEN \A k \in N : k <= n
    ELSE next[n] \in N /\ next[n] > n /\ \A k \in N : k > n => k >= next[n]

\* p is the last one before k.
Precedes(p, k, N, next) ==
  p \in N \cup {Header} /\ p < k /\ (next[p] = Null \/ next[p] >= k)

LEMMA NumbersOfNodes ==
  /\ Header \in Int /\ Null \in Int /\ Header > Null
  /\ \A k \in Key : k \in Nat /\ k > Header
BY SkipListAssumption DEF Header, Null

\* What precedes a node leads to it.
LEMMA PrecedesLeads ==
  ASSUME NEW N \in SUBSET Key, NEW next, IsList(N, next), NEW k \in N, NEW p, Precedes(p, k, N, next)
  PROVE  next[p] = k
<1>1. p \in N \cup {Header} /\ p < k /\ p \in Int /\ k \in Int
  BY NumbersOfNodes DEF Precedes
<1>2. next[p] # Null
  BY <1>1 DEF IsList
<1>3. next[p] \in N /\ k >= next[p] /\ next[p] >= k
  BY <1>1, <1>2 DEF IsList, Precedes
<1>4. next[p] \in Int
  BY <1>3, NumbersOfNodes
<1> QED BY <1>1, <1>3, <1>4

\* A new node, linked behind the one that precedes it.
LEMMA LinkOne ==
  ASSUME NEW N \in SUBSET Key, NEW f, IsList(N, f), NEW k \in Key \ N, NEW p, Precedes(p, k, N, f),
         NEW g, g[k] = f[p], g[p] = k, \A n \in (N \cup {Header}) \ {p} : g[n] = f[n]
  PROVE  IsList(N \cup {k}, g)
<1>0. /\ p \in Int /\ k \in Int /\ Header \in Int /\ \A n \in N : n \in Int /\ n > Header
      /\ k > Header /\ p \in N \cup {Header} /\ p < k /\ k # Null
  BY NumbersOfNodes DEF Precedes
<1>1. f[p] # Null => f[p] \in N /\ f[p] \in Int /\ f[p] > k /\ \A m \in N : m > p => m >= f[p]
  <2> SUFFICES ASSUME f[p] # Null
               PROVE  f[p] \in N /\ f[p] \in Int /\ f[p] > k /\ \A m \in N : m > p => m >= f[p]
    OBVIOUS
  <2>1. f[p] \in N /\ \A m \in N : m > p => m >= f[p]
    BY <1>0 DEF IsList
  <2>2. f[p] >= k
    BY DEF Precedes
  <2>3. f[p] \in Int /\ f[p] # k
    BY <1>0, <2>1
  <2> QED BY <1>0, <2>1, <2>2, <2>3
<1>2. f[p] = Null => \A m \in N : m <= p
  BY <1>0 DEF IsList
<1> SUFFICES ASSUME NEW n \in N \cup {k} \cup {Header}
             PROVE  IF g[n] = Null THEN \A m \in N \cup {k} : m <= n
                    ELSE /\ g[n] \in N \cup {k} /\ g[n] > n
                         /\ \A m \in N \cup {k} : m > n => m >= g[n]
  BY DEF IsList
<1>3. CASE n = p
  <2>1. ASSUME NEW m \in N, m > p PROVE m >= k
    <3>1. f[p] # Null
      BY <1>0, <1>2, <2>1
    <3>2. m >= f[p] /\ f[p] > k /\ f[p] \in Int /\ m \in Int
      BY <1>0, <1>1, <2>1, <3>1
    <3> QED BY <1>0, <3>2
  <2> QED BY <1>0, <1>3, <2>1
<1>4. CASE n = k
  <2>1. CASE f[p] = Null
    BY <1>0, <1>2, <1>4, <2>1
  <2>2. CASE f[p] # Null
    BY <1>0, <1>1, <1>4, <2>2
  <2> QED BY <2>1, <2>2
<1>5. CASE n # p /\ n # k
  <2>0. g[n] = f[n] /\ n \in N \cup {Header} /\ n \in Int
    BY <1>0, <1>5
  <2>1. CASE n > p
    <3>1. n \in N /\ f[p] # Null
      <4>1. n \in N
        BY <1>0, <2>0, <2>1
      <4> QED BY <1>0, <1>2, <2>0, <2>1, <4>1
    <3>2. n > k
      <4>1. n >= f[p] /\ f[p] > k /\ f[p] \in Int
        BY <1>1, <2>1, <3>1
      <4> QED BY <1>0, <2>0, <4>1
    <3>3. CASE f[n] = Null
      BY <1>0, <2>0, <3>2, <3>3 DEF IsList
    <3>4. CASE f[n] # Null
      BY <1>0, <2>0, <3>2, <3>4 DEF IsList
    <3> QED BY <3>3, <3>4
  <2>2. CASE n < p
    <3>1. p \in N
      BY <1>0, <2>0, <2>2
    <3>2. f[n] # Null /\ f[n] \in N /\ f[n] > n /\ p >= f[n] /\ \A m \in N : m > n => m >= f[n]
      BY <1>0, <2>0, <2>2, <3>1 DEF IsList
    <3>3. k >= f[n]
      <4>1. f[n] \in Int
        BY <1>0, <3>2
      <4> QED BY <1>0, <3>2, <4>1
    <3> QED BY <2>0, <3>2, <3>3
  <2> QED BY <1>0, <1>5, <2>0, <2>1, <2>2
<1> QED BY <1>3, <1>4, <1>5

\* A node unlinked from the one that precedes it.
LEMMA UnlinkOne ==
  ASSUME NEW N \in SUBSET Key, NEW f, IsList(N, f), NEW k \in N, NEW p, Precedes(p, k, N, f),
         NEW g, g[p] = f[k], \A n \in (N \cup {Header}) \ {p, k} : g[n] = f[n]
  PROVE  IsList(N \ {k}, g)
<1>0. /\ p \in Int /\ k \in Int /\ Header \in Int /\ \A n \in N : n \in Int /\ n > Header
      /\ k > Header /\ p \in N \cup {Header} /\ p < k /\ k # Null
  BY NumbersOfNodes DEF Precedes
<1>1. f[p] = k /\ \A m \in N : m > p => m >= k
  <2>1. f[p] = k
    BY PrecedesLeads
  <2> QED BY <1>0, <2>1 DEF IsList
<1> SUFFICES ASSUME NEW n \in (N \ {k}) \cup {Header}
             PROVE  IF g[n] = Null THEN \A m \in N \ {k} : m <= n
                    ELSE /\ g[n] \in N \ {k} /\ g[n] > n
                         /\ \A m \in N \ {k} : m > n => m >= g[n]
  BY DEF IsList
<1>2. n \in Int /\ n # k /\ n \in N \cup {Header}
  BY <1>0
<1>3. CASE n = p
  <2>1. CASE f[k] = Null
    <3>1. \A m \in N : m <= k
      BY <2>1 DEF IsList
    <3>2. \A m \in N \ {k} : m <= p
      BY <1>0, <1>1, <3>1
    <3> QED BY <1>3, <2>1, <3>2
  <2>2. CASE f[k] # Null
    <3>1. f[k] \in N /\ f[k] > k /\ \A m \in N : m > k => m >= f[k]
      BY <2>2 DEF IsList
    <3>2. \A m \in N \ {k} : m > p => m > k
      BY <1>0, <1>1
    <3>3. f[k] > p /\ f[k] # k
      <4>1. f[k] \in Int
        BY <1>0, <3>1
      <4> QED BY <1>0, <3>1, <4>1
    <3> QED BY <1>3, <2>2, <3>1, <3>2, <3>3
  <2> QED BY <2>1, <2>2
<1>4. CASE n # p
  <2>0. g[n] = f[n]
    BY <1>2, <1>4
  <2>1. CASE f[n] = Null
    BY <1>2, <2>0, <2>1 DEF IsList
  <2>2. CASE f[n] # Null
    <3>1. f[n] \in N /\ f[n] > n /\ \A m \in N : m > n => m >= f[n]
      BY <1>2, <2>2 DEF IsList
    <3>2. f[n] # k
      <4>1. CASE n > p
        BY <1>0, <1>1, <1>2, <3>1, <4>1
      <4>2. CASE n < p
        BY <1>0, <1>2, <3>1, <4>2
      <4> QED BY <1>0, <1>2, <1>4, <4>1, <4>2
    <3> QED BY <2>0, <2>2, <3>1, <3>2
  <2> QED BY <2>1, <2>2
<1> QED BY <1>3, <1>4

\* A list does not depend on the pointers of others.
LEMMA SameList ==
  ASSUME NEW N, NEW f, IsList(N, f), NEW g, \A n \in N \cup {Header} : g[n] = f[n]
  PROVE  IsList(N, g)
BY DEF IsList

-----------------------------------------------------------------------------
(* The calls                                                               *)

\* What insert_element or insert_set_element is given is a value, and only a dump has no key.
GoodCall ==
  {c \in Call :
     /\ c.name # "load_file"
     /\ c.name # "dump_file" => c.key \in Key
     /\ c.name \in {"insert_element", "insert_set_element"} => c.value \in Value}

Pair == [key: Key, value: Value]

Calls ==
  /\ asked \in Call /\ todo \in Seq(GoodCall)
  /\ dumper \in Seq(Pair) /\ file \in Seq(Pair)
  /\ result \in Value \cup {NoValue}

LEMMA FirstCall ==
  ASSUME NEW calls \in Seq(GoodCall), calls # <<>>
  PROVE  /\ calls[1] \in GoodCall /\ calls[1] \in Call /\ Tail(calls) \in Seq(GoodCall)
         /\ calls[1].name # "dump_file" => calls[1].key \in Key
<1>1. Len(calls) \in Nat /\ Len(calls) > 0
  BY EmptySeq
<1>2. calls[1] \in GoodCall
  BY <1>1, ElementOfSeq
<1>3. Tail(calls) \in Seq(GoodCall)
  BY HeadTailProperties
<1> QED BY <1>2, <1>3 DEF GoodCall

LEMMA NewCallIsCall ==
  ASSUME NEW name \in CallName, NEW k \in Node, NEW v \in Value \cup {NoValue}, NEW o \in Value \cup {NoValue}
  PROVE  /\ NewCall(name, k, v, o) \in Call
         /\ NewCall(name, k, v, o).name = name /\ NewCall(name, k, v, o).key = k
         /\ NewCall(name, k, v, o).value = v
BY DEF NewCall, Call

-----------------------------------------------------------------------------
(* The list as a whole                                                     *)

NextAt(l) == [n \in Node |-> forward[n][l]]

Shape ==
  /\ node_level \in [Key -> {-1} \cup 1 .. MaxLevel]
  /\ value \in [Key -> Value \cup {NoValue}]
  /\ forward \in [Node -> [Level -> Key \cup {Null}]]
  /\ skip_list_level \in Level
  /\ \A k \in Key : node_level[k] <= skip_list_level /\ (node_level[k] = -1 <=> value[k] = NoValue)
  /\ element_count = Cardinality(Nodes)

Lists == \A l \in Level : IsList(AtLevel(l), NextAt(l))

Walking ==
  /\ current \in Node /\ level \in -1 .. skip_list_level /\ update \in [Level -> Node]
  /\ todo # <<>> /\ todo[1].name = "dump_file" => current \in AtLevel(0) \cup {Header}
  /\ WalkNotesPredecessors

IInv == Calls /\ Shape /\ Lists /\ Walking

LEMMA ListsAreLinks == Lists <=> LevelsLinked
<1>1. \A l \in Level : AtLevel(l) \cup {Header} \subseteq Node
  BY DEF AtLevel, Node
<1>2. \A l \in Level : \A n \in AtLevel(l) \cup {Header} : NextAt(l)[n] = forward[n][l]
  BY <1>1 DEF NextAt
<1> QED BY <1>2 DEF Lists, LevelsLinked, IsList, Links

LEMMA NotedIsPrecedes ==
  ASSUME NEW l \in Level
  PROVE  NotedBefore(l) <=> Precedes(update[l], Key0, AtLevel(l), NextAt(l))
<1>1. update[l] \in AtLevel(l) \cup {Header} => NextAt(l)[update[l]] = forward[update[l]][l]
  BY DEF AtLevel, Node, NextAt
<1> QED BY <1>1 DEF NotedBefore, Precedes

\* The nodes are those of the lowest level.
LEMMA NodesAreLowest == ASSUME Shape PROVE Nodes = AtLevel(0)
BY DEF Shape, Nodes, AtLevel

\* A call begins well.
LEMMA BeginWalks ==
  ASSUME Shape', Calls', NEW calls, Begin(calls)
  PROVE  Walking'
<1>1. /\ todo' = calls /\ current' = Header /\ level' = skip_list_level'
      /\ update' = [l \in Level |-> Header]
  BY DEF Begin
<1>2. skip_list_level' \in Nat /\ skip_list_level' >= 0
  BY SkipListAssumption DEF Shape, Level
<1>3. todo' # <<>> /\ todo'[1].name # "dump_file" => Key0' \in Key
  BY FirstCall DEF Calls, Key0
<1>4. WalkNotesPredecessors'
  <2> DEFINE top == skip_list_level'
  <2>1. \A l \in level' + 1 .. skip_list_level' : FALSE
    <3>1. level' = top /\ top \in Nat
      BY <1>1, <1>2
    <3> HIDE DEF top
    <3>2. \A l \in top + 1 .. top : FALSE
      BY <3>1
    <3> QED BY <3>1, <3>2 DEF top
  <2>2. todo' # <<>> /\ todo'[1].name # "dump_file" => current' < Key0'
    BY <1>1, <1>3, NumbersOfNodes
  <2>3. level' # -1
    BY <1>1, <1>2
  <2> QED BY <1>1, <2>1, <2>2, <2>3 DEF WalkNotesPredecessors
<1> QED BY <1>1, <1>2, <1>4 DEF Walking, Node

LEMMA IInvInit == Init => IInv
<1> SUFFICES ASSUME Init PROVE IInv
  OBVIOUS
<1>1. Calls
  BY EmptySeq DEF Init, Calls, Call, NewCall, CallName, Node
<1>2. Shape
  <2>1. Nodes = {}
    BY DEF Init, Nodes
  <2>2. element_count = Cardinality(Nodes)
    BY <2>1, FS_EmptySet DEF Init
  <2>3. node_level \in [Key -> {-1} \cup 1 .. MaxLevel] /\ value \in [Key -> Value \cup {NoValue}]
    BY DEF Init
  <2>4. forward \in [Node -> [Level -> Key \cup {Null}]]
    BY DEF Init
  <2>5. skip_list_level \in Level /\ skip_list_level = 0
    BY SkipListAssumption DEF Init, Level
  <2>6. \A k \in Key : node_level[k] <= skip_list_level /\ (node_level[k] = -1 <=> value[k] = NoValue)
    BY <2>5 DEF Init
  <2> QED BY <2>2, <2>3, <2>4, <2>5, <2>6 DEF Shape
<1>3. Lists
  <2>1. \A l \in Level : AtLevel(l) = {}
    BY SkipListAssumption DEF Init, AtLevel, Level
  <2>2. \A l \in Level : NextAt(l)[Header] = Null
    BY DEF Init, NextAt, Node
  <2> QED BY <2>1, <2>2 DEF Lists, IsList
<1>4. Walking
  BY SkipListAssumption DEF Init, Walking, WalkNotesPredecessors, Node, Level
<1> QED BY <1>1, <1>2, <1>3, <1>4 DEF IInv

-----------------------------------------------------------------------------
(* The calls stay good                                                     *)

\* A walk that a dump makes finds nodes, with their values.
LEMMA DumpFindsNodes ==
  ASSUME IInv, Dumps, forward[current][0] # Null
  PROVE  /\ forward[current][0] \in AtLevel(0)
         /\ [key |-> forward[current][0], value |-> value[forward[current][0]]] \in Pair
<1>0. 0 \in Level
  BY SkipListAssumption DEF Level
<1>1. current \in AtLevel(0) \cup {Header} /\ current \in Node
  BY DEF IInv, Walking, Dumps
<1>2. NextAt(0)[current] = forward[current][0]
  BY <1>1 DEF NextAt
<1>3. forward[current][0] \in AtLevel(0)
  BY <1>0, <1>1, <1>2 DEF IInv, Lists, IsList
<1>4. value[forward[current][0]] \in Value
  BY <1>3 DEF IInv, Shape, AtLevel
<1>5. forward[current][0] \in Key
  BY <1>3 DEF AtLevel
<1> QED BY <1>3, <1>4, <1>5 DEF Pair

LEMMA MakeCallCalls ==
  ASSUME IInv, NEW call \in GoodCall, MakeCall(call)
  PROVE  Calls'
<1>1. <<call>> \in Seq(GoodCall)
  OBVIOUS
<1>2. call \in Call
  BY DEF GoodCall
<1> QED BY <1>1, <1>2, EmptySeq DEF MakeCall, MakeCalls, Begin, IInv, Calls

LEMMA UserCalls == IInv /\ User => Calls'
<1> SUFFICES ASSUME IInv, User PROVE Calls'
  OBVIOUS
<1>1. ASSUME NEW k \in Key, NEW name \in {"search_element", "delete_element"},
             MakeCall(NewCall(name, k, NoValue, NoValue))
      PROVE  Calls'
  <2>1. NewCall(name, k, NoValue, NoValue) \in GoodCall
    BY NewCallIsCall DEF GoodCall, CallName, Node
  <2> QED BY <1>1, <2>1, MakeCallCalls
<1>2. ASSUME NEW k \in Key, NEW v \in Value, NEW name \in {"insert_element", "insert_set_element"},
             MakeCall(NewCall(name, k, v, NoValue))
      PROVE  Calls'
  <2>1. NewCall(name, k, v, NoValue) \in GoodCall
    BY NewCallIsCall DEF GoodCall, CallName, Node
  <2> QED BY <1>2, <2>1, MakeCallCalls
<1>3. ASSUME MakeCall(NewCall("dump_file", Header, NoValue, NoValue)) PROVE Calls'
  <2>1. NewCall("dump_file", Header, NoValue, NoValue) \in GoodCall
    BY NewCallIsCall DEF GoodCall, CallName, Node
  <2> QED BY <1>3, <2>1, MakeCallCalls
<1>4. CASE LoadFile
  <2> DEFINE calls == [n \in DOMAIN file |-> NewCall("insert_element", file[n].key, file[n].value, NoValue)]
  <2>1. file \in Seq(Pair) /\ DOMAIN file = 1 .. Len(file) /\ Len(file) \in Nat
    BY DEF IInv, Calls
  <2>2. \A n \in DOMAIN file : calls[n] \in GoodCall
    <3> SUFFICES ASSUME NEW n \in DOMAIN file PROVE calls[n] \in GoodCall
      OBVIOUS
    <3>1. file[n] \in Pair
      BY <2>1
    <3>2. file[n].key \in Key /\ file[n].value \in Value
      BY <3>1 DEF Pair
    <3> QED BY <3>2, NewCallIsCall DEF GoodCall, CallName, Node
  <2>3. calls \in Seq(GoodCall)
    BY <2>1, <2>2
  <2>4. NewCall("load_file", Header, NoValue, NoValue) \in Call
    BY NewCallIsCall DEF CallName, Node
  <2> HIDE DEF calls
  <2>5. todo' = calls /\ asked' = NewCall("load_file", Header, NoValue, NoValue) /\ dumper' = <<>>
        /\ UNCHANGED <<result, file>>
    BY <1>4 DEF LoadFile, MakeCalls, Begin, calls
  <2> QED BY <2>3, <2>4, <2>5, EmptySeq DEF IInv, Calls
<1>5. CASE NewList
  BY <1>5, EmptySeq DEF NewList, Begin, IInv, Calls
<1> QED BY <1>1, <1>2, <1>3, <1>4, <1>5 DEF User

LEMMA StepCalls == IInv /\ Step /\ UNCHANGED asked => Calls'
<1> SUFFICES ASSUME IInv, Step, UNCHANGED asked PROVE Calls'
  OBVIOUS
<1>0. Calls
  BY DEF IInv
<1>1. CASE Advance \/ Descend
  BY <1>0, <1>1 DEF Advance, Descend, listVars, Calls
<1>2. CASE InsertExists \/ InsertNode \/ DeleteMissing \/ DeleteNode \/ SearchMissing
  <2>1. todo # <<>> /\ todo' = Tail(todo) /\ dumper' = <<>> /\ file' = file /\ result' \in {result, NoValue}
    BY <1>2 DEF InsertExists, InsertNode, DeleteMissing, DeleteNode, SearchMissing, Arrived, Begin
  <2>2. todo' \in Seq(GoodCall)
    BY <1>0, <2>1, FirstCall DEF Calls
  <2> QED BY <1>0, <2>1, <2>2, EmptySeq DEF Calls
<1>3. CASE SearchFound
  <2>1. todo # <<>> /\ todo' = Tail(todo) /\ dumper' = <<>> /\ file' = file /\ result' = value[Key0]
        /\ todo[1].name = "search_element"
    BY <1>3 DEF SearchFound, Arrived, Begin
  <2>2. todo' \in Seq(GoodCall) /\ Key0 \in Key
    BY <1>0, <2>1, FirstCall DEF Calls, Key0
  <2>3. result' \in Value \cup {NoValue}
    BY <2>1, <2>2 DEF IInv, Shape
  <2> QED BY <1>0, <2>1, <2>2, <2>3, EmptySeq DEF Calls
<1>4. CASE SetFound \/ SetMissing
  <2>1. todo # <<>> /\ todo[1].name = "insert_set_element" /\ dumper' = <<>> /\ UNCHANGED <<file, result>>
    BY <1>4 DEF SetFound, SetMissing, Arrived, Begin
  <2>2. Key0 \in Key /\ todo[1].value \in Value
    BY <1>0, <2>1, FirstCall DEF Calls, Key0, GoodCall
  <2>3. value[Key0] \in Value \cup {NoValue}
    BY <2>2 DEF IInv, Shape
  <2>4. \A old \in Value \cup {NoValue} :
          /\ NewCall("delete_element", Key0, NoValue, old) \in GoodCall
          /\ NewCall("insert_element", Key0, todo[1].value, old) \in GoodCall
    BY <2>2, NewCallIsCall DEF GoodCall, CallName, Node
  <2>5. todo' \in Seq(GoodCall)
    <3>1. CASE SetFound
      <4>1. todo' = <<NewCall("delete_element", Key0, NoValue, value[Key0]),
                      NewCall("insert_element", Key0, todo[1].value, value[Key0])>>
        BY <3>1 DEF SetFound, Begin
      <4> QED BY <2>3, <2>4, <4>1
    <3>2. CASE SetMissing
      <4>1. todo' = <<NewCall("insert_element", Key0, todo[1].value, NoValue)>>
        BY <3>2 DEF SetMissing, Begin
      <4> QED BY <2>4, <4>1
    <3> QED BY <1>4, <3>1, <3>2
  <2> QED BY <1>0, <2>1, <2>5, EmptySeq DEF Calls
<1>5. CASE DumpNode
  <2>1. dumper' \in Seq(Pair)
    BY <1>0, <1>5, DumpFindsNodes, AppendProperties DEF DumpNode, Calls
  <2> QED BY <1>0, <1>5, <2>1 DEF DumpNode, Calls
<1>6. CASE DumpDone
  <2>1. todo # <<>> /\ todo' = Tail(todo) /\ dumper' = <<>> /\ file' = dumper /\ result' = result
    BY <1>6 DEF DumpDone, Dumps, Begin
  <2>2. todo' \in Seq(GoodCall)
    BY <1>0, <2>1, FirstCall DEF Calls
  <2> QED BY <1>0, <2>1, <2>2, EmptySeq DEF Calls
<1> QED BY <1>1, <1>2, <1>3, <1>4, <1>5, <1>6 DEF Step

-----------------------------------------------------------------------------
(* Steps of the walk                                                       *)

\* What a walk has before it: the node it stands on, on its level, and the key.
LEMMA WalkPlace ==
  ASSUME IInv, Walks
  PROVE  /\ Key0 \in Key /\ level \in Level /\ level \in Nat /\ current \in Node
         /\ current \in AtLevel(level) \cup {Header} /\ current < Key0
         /\ IsList(AtLevel(level), NextAt(level)) /\ NextAt(level)[current] = forward[current][level]
<1>1. Key0 \in Key
  BY FirstCall DEF Walks, IInv, Calls, Key0
<1>2. level \in Level /\ level \in Nat
  BY SkipListAssumption DEF Walks, IInv, Walking, Shape, Level
<1>3. current \in AtLevel(level) \cup {Header} /\ current < Key0 /\ current \in Node
  BY <1>2 DEF Walks, IInv, Walking, WalkNotesPredecessors
<1> QED BY <1>1, <1>2, <1>3 DEF IInv, Lists, NextAt

LEMMA ListUnchanged ==
  ASSUME Shape, Lists, UNCHANGED listVars
  PROVE  Shape' /\ Lists'
<1>1. Nodes' = Nodes /\ \A l \in Level : AtLevel(l)' = AtLevel(l) /\ NextAt(l)' = NextAt(l)
  BY DEF listVars, Nodes, AtLevel, NextAt
<1> QED BY <1>1 DEF listVars, Shape, Lists

LEMMA AdvanceWalks == IInv /\ Advance => Walking'
<1> SUFFICES ASSUME IInv, Advance PROVE Walking'
  OBVIOUS
<1>1. Walks /\ IsBefore(forward[current][level])
  BY DEF Advance
<1>2. /\ current' = forward[current][level] /\ UNCHANGED <<todo, level, update>>
      /\ UNCHANGED <<node_level, forward, skip_list_level>>
  BY DEF Advance, listVars
<1>3. current' \in AtLevel(level) /\ current' < Key0 /\ current' \in Node
  BY <1>1, <1>2, WalkPlace DEF IsBefore, IsList, AtLevel, Node
<1>4. Key0' = Key0 /\ \A l \in Level : AtLevel(l)' = AtLevel(l) /\ NotedBefore(l)' = NotedBefore(l)
  BY <1>2 DEF Key0, AtLevel, NotedBefore
<1>5. level # -1 /\ level + 1 \in Nat /\ \A l \in level + 1 .. skip_list_level : l \in Level
  BY <1>1, WalkPlace, SkipListAssumption DEF IInv, Walking, Shape, Level
<1>6. WalkNotesPredecessors'
  BY <1>1, <1>2, <1>3, <1>4, <1>5, WalkPlace DEF IInv, Walking, WalkNotesPredecessors, Walks
<1> QED BY <1>1, <1>2, <1>3, <1>6 DEF Walking, Walks, IInv

LEMMA DescendWalks == IInv /\ Descend => Walking'
<1> SUFFICES ASSUME IInv, Descend PROVE Walking'
  OBVIOUS
<1>1. Walks /\ ~IsBefore(forward[current][level])
  BY DEF Descend
<1>2. /\ update' = [update EXCEPT ![level] = current] /\ level' = level - 1
      /\ UNCHANGED <<todo, current, node_level, forward, skip_list_level>>
  BY DEF Descend, listVars
<1>w. /\ Key0 \in Key /\ level \in Level /\ level \in Nat /\ current \in Node
      /\ current \in AtLevel(level) \cup {Header} /\ current < Key0
      /\ skip_list_level \in Level /\ skip_list_level \in Nat /\ level <= skip_list_level
      /\ level' \in Int /\ (level' = -1 \/ level' \in Level)
  BY <1>1, <1>2, WalkPlace, SkipListAssumption DEF IInv, Shape, Walking, Level
<1>3. update' \in [Level -> Node] /\ level' \in -1 .. skip_list_level
  BY <1>2, <1>w DEF IInv, Walking
<1>4. Key0' = Key0 /\ \A l \in Level : AtLevel(l)' = AtLevel(l)
  BY <1>2 DEF Key0, AtLevel
<1>5. forward[current][level] = Null \/ forward[current][level] >= Key0
  <2>1. forward[current][level] \in Key \cup {Null}
    BY <1>w DEF IInv, Shape
  <2> QED BY <1>1, <1>w, <2>1, NumbersOfNodes DEF IsBefore
<1>6. update'[level] = current
  BY <1>2, <1>w DEF IInv, Walking
<1>7. ASSUME NEW l \in Level, l = level PROVE NotedBefore(l)'
  BY <1>2, <1>4, <1>5, <1>6, <1>7, <1>w DEF NotedBefore
<1>8. ASSUME NEW l \in level + 1 .. skip_list_level PROVE NotedBefore(l)'
  <2>1. l \in Level /\ l # level
    BY <1>w, SkipListAssumption DEF Level
  <2>2. NotedBefore(l)
    BY <1>1 DEF IInv, Walking, WalkNotesPredecessors, Walks
  <2>3. update'[l] = update[l]
    BY <1>2, <2>1 DEF IInv, Walking
  <2> QED BY <1>2, <1>4, <2>1, <2>2, <2>3 DEF NotedBefore
<1>9. current \in AtLevel(IF level - 1 = -1 THEN 0 ELSE level - 1) \cup {Header}
  <2>1. \A k \in Key : node_level[k] \in Int
    BY SkipListAssumption DEF IInv, Shape
  <2> QED BY <1>w, <2>1 DEF AtLevel
<1>10. level - 1 = -1 => current = update'[0]
  BY <1>6, <1>w
<1>11. \A l \in level .. skip_list_level : NotedBefore(l)'
  <2> SUFFICES ASSUME NEW l \in level .. skip_list_level PROVE NotedBefore(l)'
    OBVIOUS
  <2>1. CASE l = level
    BY <1>7, <1>w, <2>1
  <2>2. CASE l # level
    BY <1>8, <1>w, <2>2
  <2> QED BY <2>1, <2>2
<1>12. WalkNotesPredecessors'
  <2>1. current \in (AtLevel(IF level = -1 THEN 0 ELSE level) \cup {Header})'
    BY <1>2, <1>9 DEF AtLevel
  <2>2. (level + 1)' = level /\ skip_list_level' = skip_list_level
    BY <1>2, <1>w
  <2>3. \A l \in (level + 1)' .. skip_list_level' : NotedBefore(l)'
    BY <1>11, <2>2
  <2> QED BY <1>2, <1>4, <1>w, <1>10, <2>1, <2>3 DEF WalkNotesPredecessors
<1> QED BY <1>1, <1>2, <1>3, <1>12 DEF Walking, Walks, IInv

-----------------------------------------------------------------------------
(* After the walk                                                          *)

LEMMA ArrivedPlace ==
  ASSUME IInv, NEW name, name # "dump_file", Arrived(name)
  PROVE  /\ todo # <<>> /\ todo[1] \in GoodCall /\ Key0 \in Key
         /\ current \in Node /\ forward[current][0] = NextAt(0)[current]
         /\ current = update[0] /\ 0 \in 0 .. skip_list_level
         /\ \A l \in 0 .. skip_list_level :
              l \in Level /\ Precedes(update[l], Key0, AtLevel(l), NextAt(l))
         /\ \A l \in Level : l > skip_list_level => AtLevel(l) = {}
<1>1. todo # <<>> /\ todo[1].name = name /\ level = -1
  BY DEF Arrived
<1>2. todo[1] \in GoodCall /\ Key0 \in Key
  BY <1>1, FirstCall DEF IInv, Calls, Key0
<1>3. skip_list_level \in Nat /\ \A l \in 0 .. skip_list_level : l \in Level
  BY SkipListAssumption DEF IInv, Shape, Level
<1>4. \A l \in 0 .. skip_list_level : NotedBefore(l)
  BY <1>1 DEF IInv, Walking, WalkNotesPredecessors
<1>5. \A l \in 0 .. skip_list_level : l \in Level /\ Precedes(update[l], Key0, AtLevel(l), NextAt(l))
  BY <1>3, <1>4, NotedIsPrecedes
<1>6. current = update[0] /\ current \in Node /\ forward[current][0] = NextAt(0)[current]
  BY <1>1 DEF IInv, Walking, WalkNotesPredecessors, NextAt
<1>7. \A l \in Level : l > skip_list_level => AtLevel(l) = {}
  <2>1. \A k \in Key : node_level[k] \in Int /\ node_level[k] <= skip_list_level
    BY SkipListAssumption DEF IInv, Shape
  <2>2. \A l \in Level : l \in Int
    BY DEF Level
  <2> QED BY <1>3, <2>1, <2>2 DEF AtLevel
<1> QED BY <1>1, <1>2, <1>3, <1>5, <1>6, <1>7

\* The test after the loop tells whether there is a node for the key.
LEMMA FoundIsNode ==
  ASSUME IInv, NEW name, name # "dump_file", Arrived(name)
  PROVE  Found <=> Key0 \in Nodes
<1>1. /\ Precedes(current, Key0, AtLevel(0), NextAt(0)) /\ Key0 \in Key
      /\ forward[current][0] = NextAt(0)[current] /\ 0 \in Level
  BY ArrivedPlace
<1>2. IsList(AtLevel(0), NextAt(0)) /\ AtLevel(0) \in SUBSET Key
  BY <1>1 DEF IInv, Lists, AtLevel
<1>3. Nodes = AtLevel(0)
  BY NodesAreLowest DEF IInv
<1>4. Key0 \in AtLevel(0) => Found
  BY <1>1, <1>2, PrecedesLeads DEF Found
<1>5. Found => Key0 \in AtLevel(0)
  BY <1>1, <1>2, NumbersOfNodes DEF Found, IsList, Precedes
<1> QED BY <1>3, <1>4, <1>5

LEMMA NodesFinite == IsFiniteSet(Nodes)
BY SkipListAssumption, FS_Subset DEF Nodes

LEMMA InsertLists == IInv /\ InsertNode => Shape' /\ Lists'
<1> SUFFICES ASSUME IInv, InsertNode PROVE Shape' /\ Lists'
  OBVIOUS
<1>1. PICK r \in RandomLevel :
        /\ Arrived("insert_element") /\ ~Found
        /\ node_level' = [node_level EXCEPT ![Key0] = r]
        /\ value' = [value EXCEPT ![Key0] = todo[1].value]
        /\ forward' = LinkAfter(r)
        /\ skip_list_level' = IF r > skip_list_level THEN r ELSE skip_list_level
        /\ element_count' = element_count + 1
  BY DEF InsertNode
<1> DEFINE k == Key0
<1>2. /\ k \in Key /\ k \in Node /\ k \notin Nodes /\ todo[1].value \in Value
      /\ todo[1] \in GoodCall
  BY <1>1, ArrivedPlace, FoundIsNode DEF GoodCall, Arrived, Node
<1>3. node_level[k] = -1
  BY <1>2 DEF Nodes
<1>4. r \in 1 .. MaxLevel /\ r \in Level /\ skip_list_level \in Level /\ MaxLevel \in Nat
  BY SkipListAssumption DEF RandomLevel, Level, IInv, Shape
<1>5. \A j \in Key : node_level[j] \in Int /\ node_level[j] <= skip_list_level
  BY SkipListAssumption DEF IInv, Shape
<1>6. node_level'[k] = r /\ \A j \in Key \ {k} : node_level'[j] = node_level[j]
  BY <1>1, <1>2 DEF IInv, Shape
<1>7. \A l \in Level : AtLevel(l)' = IF l <= r THEN AtLevel(l) \cup {k} ELSE AtLevel(l)
  BY <1>2, <1>3, <1>4, <1>6 DEF AtLevel, Level
<1>8. ASSUME NEW l \in Level, l <= r
      PROVE  Before(l) \in Node /\ Precedes(Before(l), k, AtLevel(l), NextAt(l))
  <2>1. CASE l <= skip_list_level
    BY <1>1, <1>4, <2>1, ArrivedPlace DEF Before, Level, IInv, Walking
  <2>2. CASE ~(l <= skip_list_level)
    <3>1. AtLevel(l) = {} /\ Before(l) = Header
      BY <1>1, <1>4, <2>2, ArrivedPlace DEF Before, Level
    <3>2. NextAt(l)[Header] = Null
      BY <3>1 DEF IInv, Lists, IsList
    <3> QED BY <1>2, <3>1, <3>2, NumbersOfNodes DEF Precedes, Node
  <2> QED BY <2>1, <2>2
<1>9. forward' \in [Node -> [Level -> Key \cup {Null}]]
  <2>1. \A l \in Level : l <= r => Before(l) \in Node
    BY <1>8
  <2>2. forward \in [Node -> [Level -> Key \cup {Null}]]
    BY DEF IInv, Shape
  <2>3. \A n \in Node : \A l \in Level : LinkAfter(r)[n][l] \in Key \cup {Null}
    BY <1>2, <1>4, <2>1, <2>2 DEF LinkAfter, Level
  <2> HIDE DEF k
  <2>4. LinkAfter(r) \in [Node -> [Level -> Key \cup {Null}]]
    BY <2>3 DEF LinkAfter
  <2> QED BY <1>1, <2>4
<1>10. Lists'
  <2> SUFFICES ASSUME NEW l \in Level PROVE IsList(AtLevel(l)', NextAt(l)')
    BY DEF Lists
  <2>1. IsList(AtLevel(l), NextAt(l)) /\ AtLevel(l) \subseteq Key
    BY DEF IInv, Lists, AtLevel
  <2>2. NextAt(l)' = [n \in Node |-> LinkAfter(r)[n][l]]
    BY <1>1 DEF NextAt
  <2>3. CASE l <= r
    <3>1. k \in Key \ AtLevel(l) /\ Precedes(Before(l), k, AtLevel(l), NextAt(l)) /\ Before(l) \in Node
      BY <1>2, <1>3, <1>8, <2>3 DEF AtLevel, Level
    <3>2. k # Before(l)
      BY <1>2, <3>1, NumbersOfNodes DEF Precedes
    <3>3. \A n \in Node : NextAt(l)'[n] = IF n = k THEN forward[Before(l)][l]
                                          ELSE IF n = Before(l) THEN k ELSE forward[n][l]
      BY <1>4, <2>2, <2>3 DEF LinkAfter, Level
    <3>4. NextAt(l)'[k] = NextAt(l)[Before(l)] /\ NextAt(l)'[Before(l)] = k
      BY <1>2, <3>1, <3>2, <3>3 DEF NextAt
    <3>5. \A n \in (AtLevel(l) \cup {Header}) \ {Before(l)} : NextAt(l)'[n] = NextAt(l)[n]
      <4>1. \A n \in AtLevel(l) \cup {Header} : n \in Node /\ n # k
        BY <1>2, <2>1, <3>1, NumbersOfNodes DEF Node
      <4> QED BY <3>3, <4>1 DEF NextAt
    <3> HIDE DEF k
    <3>6. IsList(AtLevel(l) \cup {k}, NextAt(l)')
      BY <2>1, <3>1, <3>4, <3>5, LinkOne
    <3> QED BY <1>7, <2>3, <3>6
  <2>4. CASE ~(l <= r)
    <3>1. AtLevel(l)' = AtLevel(l)
      BY <1>7, <2>4
    <3>2. NextAt(l)' = NextAt(l)
      BY <1>4, <2>2, <2>4 DEF LinkAfter, NextAt, Level
    <3> QED BY <2>1, <3>1, <3>2
  <2> QED BY <2>3, <2>4
<1>11. element_count' = Cardinality(Nodes')
  <2>1. Nodes' = Nodes \cup {k}
    BY <1>2, <1>4, <1>6 DEF Nodes
  <2>2. Cardinality(Nodes \cup {k}) = Cardinality(Nodes) + 1
    BY <1>2, NodesFinite, FS_AddElement
  <2> QED BY <1>1, <2>1, <2>2 DEF IInv, Shape
<1>12. skip_list_level' \in Level /\ \A j \in Key : node_level'[j] <= skip_list_level'
  BY <1>1, <1>4, <1>5, <1>6 DEF Level
<1>13. value' \in [Key -> Value \cup {NoValue}] /\ node_level' \in [Key -> {-1} \cup 1 .. MaxLevel]
  BY <1>1, <1>2, <1>4 DEF IInv, Shape
<1>14. \A j \in Key : node_level'[j] = -1 <=> value'[j] = NoValue
  BY <1>1, <1>2, <1>4, <1>6, SkipListAssumption DEF IInv, Shape
<1> QED BY <1>9, <1>10, <1>11, <1>12, <1>13, <1>14 DEF Shape

\* The loop of delete_element goes as far up as the node does.
LEMMA UnlinkedAreItsLevels ==
  ASSUME IInv, Arrived("delete_element"), Found
  PROVE  UnlinkedLevels = 0 .. node_level[Key0]
<1>1. /\ Key0 \in Key /\ Key0 \in Nodes
      /\ \A l \in 0 .. skip_list_level :
           l \in Level /\ Precedes(update[l], Key0, AtLevel(l), NextAt(l))
  BY ArrivedPlace, FoundIsNode
<1>2. /\ node_level[Key0] \in 1 .. MaxLevel /\ MaxLevel \in Nat
      /\ skip_list_level \in Nat /\ node_level[Key0] <= skip_list_level
  BY <1>1, SkipListAssumption DEF IInv, Shape, Nodes, Level
<1>3. ASSUME NEW l \in 0 .. skip_list_level
      PROVE  forward[update[l]][l] = Key0 <=> l <= node_level[Key0]
  <2>1. l \in Level /\ Precedes(update[l], Key0, AtLevel(l), NextAt(l)) /\ IsList(AtLevel(l), NextAt(l))
    BY <1>1 DEF IInv, Lists
  <2>2. NextAt(l)[update[l]] = forward[update[l]][l] /\ update[l] \in AtLevel(l) \cup {Header}
    BY <2>1 DEF Precedes, NextAt, AtLevel, Node
  <2>3. Key0 \in AtLevel(l) <=> l <= node_level[Key0]
    BY <1>1, <1>2 DEF AtLevel
  <2>4. AtLevel(l) \in SUBSET Key
    BY DEF AtLevel
  <2>5. Key0 \in AtLevel(l) => NextAt(l)[update[l]] = Key0
    BY <2>1, <2>4, PrecedesLeads
  <2>6. NextAt(l)[update[l]] = Key0 => Key0 \in AtLevel(l)
    BY <1>1, <2>1, <2>2, NumbersOfNodes DEF IsList
  <2> QED BY <2>2, <2>3, <2>5, <2>6
<1>4. ASSUME NEW l PROVE l \in UnlinkedLevels <=> l \in 0 .. node_level[Key0]
  <2>1. CASE l \in UnlinkedLevels
    <3>1. l \in 0 .. skip_list_level /\ forward[update[l]][l] = Key0
      BY <2>1 DEF UnlinkedLevels
    <3> QED BY <1>2, <1>3, <2>1, <3>1
  <2>2. CASE l \in 0 .. node_level[Key0]
    <3>1. l \in 0 .. skip_list_level /\ \A m \in 0 .. l : m \in 0 .. skip_list_level /\ m <= node_level[Key0]
      BY <1>2, <2>2
    <3> QED BY <1>3, <2>2, <3>1 DEF UnlinkedLevels
  <2> QED BY <2>1, <2>2
<1> QED BY <1>4

LEMMA DeleteLists == IInv /\ DeleteNode => Shape' /\ Lists'
<1> SUFFICES ASSUME IInv, DeleteNode PROVE Shape' /\ Lists'
  OBVIOUS
<1> DEFINE k == Key0
<1>1. PICK top \in 0 .. skip_list_level :
        /\ Arrived("delete_element") /\ Found
        /\ node_level' = [node_level EXCEPT ![k] = -1]
        /\ value' = [value EXCEPT ![k] = NoValue]
        /\ forward' = Unlinked
        /\ IsTop(top, Unlinked)
        /\ skip_list_level' = top
        /\ element_count' = element_count - 1
  BY DEF DeleteNode
<1>2. /\ k \in Key /\ k \in Node /\ k \in Nodes
      /\ \A l \in 0 .. skip_list_level :
           l \in Level /\ Precedes(update[l], k, AtLevel(l), NextAt(l))
  BY <1>1, ArrivedPlace, FoundIsNode DEF Node
<1>3. /\ node_level[k] \in 1 .. MaxLevel /\ MaxLevel \in Nat
      /\ skip_list_level \in Nat /\ node_level[k] <= skip_list_level
      /\ skip_list_level <= MaxLevel
  BY <1>2, SkipListAssumption DEF IInv, Shape, Nodes, Level
<1>4. \A j \in Key : node_level[j] \in Int /\ node_level[j] <= skip_list_level
  BY SkipListAssumption DEF IInv, Shape
<1>5. node_level'[k] = -1 /\ \A j \in Key \ {k} : node_level'[j] = node_level[j]
  BY <1>1, <1>2 DEF IInv, Shape
<1>6. \A l \in Level : AtLevel(l)' = AtLevel(l) \ {k}
  BY <1>2, <1>5 DEF AtLevel, Level
<1>7. \A n \in Node : \A l \in Level :
        Unlinked[n][l] = IF n = k THEN Null
                         ELSE IF l \in 0 .. node_level[k] /\ n = update[l] THEN forward[k][l]
                         ELSE forward[n][l]
  BY <1>1, UnlinkedAreItsLevels DEF Unlinked
<1>8. forward' \in [Node -> [Level -> Key \cup {Null}]]
  <2>1. forward \in [Node -> [Level -> Key \cup {Null}]]
    BY DEF IInv, Shape
  <2>2. \A n \in Node : \A l \in Level : Unlinked[n][l] \in Key \cup {Null}
    BY <1>2, <1>7, <2>1
  <2>3. Unlinked \in [Node -> [Level -> Key \cup {Null}]]
    BY <2>2 DEF Unlinked
  <2> QED BY <1>1, <2>3
<1>9. Lists'
  <2> SUFFICES ASSUME NEW l \in Level PROVE IsList(AtLevel(l)', NextAt(l)')
    BY DEF Lists
  <2>1. IsList(AtLevel(l), NextAt(l)) /\ AtLevel(l) \in SUBSET Key /\ AtLevel(l)' = AtLevel(l) \ {k}
    BY <1>6 DEF IInv, Lists, AtLevel
  <2>2. \A n \in Node : NextAt(l)'[n] = Unlinked[n][l] /\ NextAt(l)[n] = forward[n][l]
    BY <1>1 DEF NextAt
  <2>3. \A n \in AtLevel(l) \cup {Header} : n \in Node
    BY <2>1 DEF Node
  <2>4. k # Header
    BY <1>2, NumbersOfNodes
  <2>5. CASE l <= node_level[k]
    <3>1. l \in 0 .. node_level[k] /\ l \in 0 .. skip_list_level /\ k \in AtLevel(l)
      BY <1>2, <1>3, <2>5 DEF Level, AtLevel
    <3>2. Precedes(update[l], k, AtLevel(l), NextAt(l)) /\ update[l] \in Node /\ update[l] # k
      <4>1. Precedes(update[l], k, AtLevel(l), NextAt(l))
        BY <1>2, <3>1
      <4> QED BY <1>2, <2>3, <4>1, NumbersOfNodes DEF Precedes
    <3>3. NextAt(l)'[update[l]] = NextAt(l)[k]
      BY <1>2, <1>7, <2>2, <3>1, <3>2
    <3>4. \A n \in (AtLevel(l) \cup {Header}) \ {update[l], k} : NextAt(l)'[n] = NextAt(l)[n]
      BY <1>7, <2>2, <2>3
    <3> HIDE DEF k
    <3>5. IsList(AtLevel(l) \ {k}, NextAt(l)')
      BY <2>1, <3>1, <3>2, <3>3, <3>4, UnlinkOne
    <3> QED BY <2>1, <3>5
  <2>6. CASE ~(l <= node_level[k])
    <3>1. k \notin AtLevel(l) /\ l \notin 0 .. node_level[k]
      BY <1>3, <2>6 DEF AtLevel, Level
    <3>2. \A n \in AtLevel(l) \cup {Header} : NextAt(l)'[n] = NextAt(l)[n]
      BY <1>7, <2>2, <2>3, <2>4, <3>1
    <3>3. AtLevel(l)' = AtLevel(l)
      BY <2>1, <3>1
    <3> QED BY <2>1, <3>2, <3>3, SameList
  <2> QED BY <2>5, <2>6
<1>10. element_count' = Cardinality(Nodes')
  <2>1. Nodes' = Nodes \ {k}
    BY <1>2, <1>5 DEF Nodes
  <2>2. Cardinality(Nodes \ {k}) = Cardinality(Nodes) - 1
    BY <1>2, NodesFinite, FS_RemoveElement
  <2> QED BY <1>1, <2>1, <2>2 DEF IInv, Shape
<1>11. top \in Level /\ top \in Nat
  BY <1>3 DEF Level
<1>12. ASSUME NEW j \in Key PROVE node_level'[j] <= top
  <2> SUFFICES ASSUME ~(node_level'[j] <= top) PROVE FALSE
    OBVIOUS
  <2>1. j # k /\ node_level'[j] = node_level[j]
    BY <1>5, <1>11
  <2>p. PICK l \in Level : l = node_level[j]
    BY <1>3, <1>4, <1>11, <2>1 DEF Level
  <2>2. l \in top + 1 .. skip_list_level
    BY <1>3, <1>4, <1>11, <2>1, <2>p
  <2>3. j \in AtLevel(l)'
    BY <1>4, <2>1, <2>p DEF AtLevel
  <2>4. NextAt(l)'[Header] = Null
    BY <1>1, <2>2 DEF IsTop, NextAt, Node
  <2>5. j <= Header
    BY <1>9, <2>2, <2>3, <2>4 DEF Lists, IsList
  <2> QED BY <2>5, NumbersOfNodes
<1>13. value' \in [Key -> Value \cup {NoValue}] /\ node_level' \in [Key -> {-1} \cup 1 .. MaxLevel]
  BY <1>1, <1>2 DEF IInv, Shape
<1>14. \A j \in Key : node_level'[j] = -1 <=> value'[j] = NoValue
  BY <1>1, <1>2, <1>5 DEF IInv, Shape
<1> QED BY <1>1, <1>8, <1>9, <1>10, <1>11, <1>12, <1>13, <1>14 DEF Shape

-----------------------------------------------------------------------------
(* The theorems                                                            *)

LEMMA NewListIsEmpty == IInv /\ NewList => Shape' /\ Lists'
<1> SUFFICES ASSUME IInv, NewList PROVE Shape' /\ Lists'
  OBVIOUS
<1>1. /\ node_level' = [k \in Key |-> -1] /\ value' = [k \in Key |-> NoValue]
      /\ forward' = [n \in Node |-> [l \in Level |-> Null]]
      /\ skip_list_level' = 0 /\ element_count' = 0
  BY DEF NewList
<1>2. element_count' = Cardinality(Nodes')
  <2>1. Nodes' = {}
    BY <1>1 DEF Nodes
  <2> QED BY <1>1, <2>1, FS_EmptySet
<1>3. Lists'
  <2>1. \A l \in Level : AtLevel(l)' = {}
    BY <1>1, SkipListAssumption DEF AtLevel, Level
  <2>2. \A l \in Level : NextAt(l)'[Header] = Null
    BY <1>1 DEF NextAt, Node
  <2> QED BY <2>1, <2>2 DEF Lists, IsList
<1>4. forward' \in [Node -> [Level -> Key \cup {Null}]]
  BY <1>1
<1>5. /\ node_level' \in [Key -> {-1} \cup 1 .. MaxLevel] /\ value' \in [Key -> Value \cup {NoValue}]
      /\ \A k \in Key : node_level'[k] <= 0 /\ (node_level'[k] = -1 <=> value'[k] = NoValue)
  BY <1>1
<1>6. 0 \in Level
  BY SkipListAssumption DEF Level
<1> QED BY <1>1, <1>2, <1>3, <1>4, <1>5, <1>6 DEF Shape

LEMMA IInvNext == IInv /\ [Next]_vars => IInv'
<1> SUFFICES ASSUME IInv, [Next]_vars PROVE IInv'
  OBVIOUS
<1>0. Calls /\ Shape /\ Lists /\ Walking
  BY DEF IInv
<1>1. CASE UNCHANGED vars
  <2>1. Calls'
    BY <1>0, <1>1 DEF vars, Calls
  <2>2. Shape' /\ Lists'
    BY <1>0, <1>1, ListUnchanged DEF vars
  <2>3. Walking'
    BY <1>0, <1>1 DEF vars, listVars, walkVars, Walking, WalkNotesPredecessors, NotedBefore, AtLevel, Key0
  <2> QED BY <2>1, <2>2, <2>3 DEF IInv
<1>2. CASE User
  <2>1. Calls'
    BY <1>2, UserCalls
  <2>2. (\E calls : Begin(calls)) /\ (UNCHANGED listVars \/ NewList)
    BY <1>2 DEF User, MakeCall, MakeCalls, LoadFile, NewList
  <2>3. Shape' /\ Lists'
    BY <1>0, <2>2, ListUnchanged, NewListIsEmpty
  <2>4. Walking'
    BY <2>1, <2>2, <2>3, BeginWalks
  <2> QED BY <2>1, <2>3, <2>4 DEF IInv
<1>3. CASE Step /\ UNCHANGED asked
  <2>1. Calls'
    BY <1>3, StepCalls
  <2>2. CASE Advance \/ Descend
    <3>1. UNCHANGED listVars
      BY <2>2 DEF Advance, Descend
    <3> QED BY <1>0, <2>1, <2>2, <3>1, ListUnchanged, AdvanceWalks, DescendWalks DEF IInv
  <2>3. CASE DumpNode
    <3>1. UNCHANGED listVars /\ UNCHANGED <<todo, level, update>> /\ current' = forward[current][0]
          /\ current' # Null /\ Dumps
      BY <2>3 DEF DumpNode
    <3>2. current' \in AtLevel(0)
      BY <3>1, DumpFindsNodes
    <3>3. AtLevel(0)' = AtLevel(0) /\ AtLevel(0) \subseteq Node
      BY <3>1 DEF AtLevel, Node, listVars
    <3>4. WalkNotesPredecessors'
      BY <3>1 DEF WalkNotesPredecessors, Dumps
    <3>5. Walking'
      BY <1>0, <3>1, <3>2, <3>3, <3>4 DEF Walking, listVars
    <3> QED BY <1>0, <2>1, <3>1, <3>5, ListUnchanged DEF IInv
  <2>4. CASE InsertExists \/ InsertNode \/ DeleteMissing \/ DeleteNode \/ SearchFound \/ SearchMissing
               \/ SetFound \/ SetMissing \/ DumpDone
    <3>1. \E calls : Begin(calls)
      BY <2>4 DEF InsertExists, InsertNode, DeleteMissing, DeleteNode, SearchFound, SearchMissing,
                  SetFound, SetMissing, DumpDone
    <3>2. InsertNode \/ DeleteNode \/ UNCHANGED listVars
      BY <2>4 DEF InsertExists, DeleteMissing, SearchFound, SearchMissing, SetFound, SetMissing, DumpDone,
                  listVars
    <3>3. Shape' /\ Lists'
      BY <1>0, <3>2, InsertLists, DeleteLists, ListUnchanged
    <3>4. Walking'
      BY <2>1, <3>1, <3>3, BeginWalks
    <3> QED BY <2>1, <3>3, <3>4 DEF IInv
  <2> QED BY <1>3, <2>2, <2>3, <2>4 DEF Step
<1> QED BY <1>1, <1>2, <1>3 DEF Next

\* The inductive invariant holds throughout: the calls, the fields, the levels and the walk.
THEOREM IInvHolds == Spec => []IInv
BY IInvInit, IInvNext, PTL DEF Spec

\* Every field and every local of skipList.h's operations has its type, and the arrays of pointers,
\* which have room for MaxLevel + 1, are long enough for every level a walk or a new node uses.
THEOREM TypeCorrect == Spec => []TypeOK
<1>1. IInv => TypeOK
  <2> SUFFICES ASSUME IInv PROVE TypeOK
    OBVIOUS
  <2>1. element_count \in Nat
    BY NodesFinite, FS_CardinalityType DEF IInv, Shape
  <2>2. todo \in Seq(Call)
    <3>1. GoodCall \subseteq Call /\ todo \in Seq(GoodCall)
      BY DEF GoodCall, IInv, Calls
    <3> QED BY <3>1
  <2>3. level \in -1 .. MaxLevel
    BY SkipListAssumption DEF IInv, Walking, Shape, Level
  <2>4. node_level \in [Key -> -1 .. MaxLevel]
    BY SkipListAssumption DEF IInv, Shape
  <2> QED BY <2>1, <2>2, <2>3, <2>4 DEF IInv, Calls, Shape, Walking, TypeOK, Pair
<1> QED BY <1>1, IInvHolds, PTL

\* Each level is a sorted list of exactly the nodes that reach it, whatever insert_element and
\* delete_element did before and whichever levels random_level chose: none is lost or dangles.
THEOREM ListsStaySorted == Spec => []LevelsLinked
<1>1. IInv => LevelsLinked
  BY ListsAreLinks DEF IInv
<1> QED BY <1>1, IInvHolds, PTL

\* The update array of insert_element and delete_element holds the predecessors of the key on every
\* level that the walk has left, and the walk never passes the key nor stands on a deleted node.
THEOREM WalkIsRight == Spec => []WalkNotesPredecessors
<1>1. IInv => WalkNotesPredecessors
  BY DEF IInv, Walking
<1> QED BY <1>1, IInvHolds, PTL

\* size() is the number of nodes.
THEOREM CountIsRight == Spec => []CountIsSize
<1>1. IInv => CountIsSize
  BY DEF IInv, Shape, CountIsSize
<1> QED BY <1>1, IInvHolds, PTL

-----------------------------------------------------------------------------
(* How far a call has come                                                 *)

SetStage ==
  \/ todo = <<asked>>
  \/ \E old \in Value :
       /\ todo = <<NewCall("delete_element", asked.key, NoValue, old),
                   NewCall("insert_element", asked.key, asked.value, old)>>
       /\ asked.key \in Nodes /\ old = value[asked.key]
  \/ \E old \in Value \cup {NoValue} :
       /\ todo = <<NewCall("insert_element", asked.key, asked.value, old)>>
       /\ asked.key \notin Nodes

Added == Len(file) - Len(todo)

LoadStage ==
  /\ Len(todo) <= Len(file)
  /\ \A i \in 1 .. Len(todo) :
       todo[i] = NewCall("insert_element", file[Added + i].key, file[Added + i].value, NoValue)
  /\ \A j \in 1 .. Added : file[j].key \in Nodes

Passed == {k \in Nodes : k <= current}

DumpStage ==
  /\ todo = <<asked>>
  /\ Len(dumper) = Cardinality(Passed)
  /\ \A n \in 1 .. Len(dumper) :
       /\ dumper[n].key \in Passed /\ dumper[n].value = value[dumper[n].key]
       /\ \A m \in 1 .. n - 1 : dumper[m].key < dumper[n].key

Stage ==
  todo # <<>> =>
    /\ asked.name \in CallName /\ asked.old = NoValue
    /\ asked.name # "load_file" => asked \in GoodCall
    /\ asked.name \in {"search_element", "delete_element", "insert_element"} => todo = <<asked>>
    /\ asked.name = "insert_set_element" => SetStage
    /\ asked.name = "load_file" => LoadStage
    /\ asked.name = "dump_file" => DumpStage

\* The map and the call that the refinement mapping shows.
MapOf == [k \in Key |-> Held(k)]
CallOf == IF todo = <<>> THEN [name |-> "none"] ELSE asked

NoCallDiffers == \A c \in Call : c # [name |-> "none"]

LEMMA CallIsNotNone == NoCallDiffers
<1> SUFFICES ASSUME NEW c \in Call PROVE c # [name |-> "none"]
  BY DEF NoCallDiffers
<1>1. c.name # "none"
  BY DEF Call, CallName
<1> QED BY <1>1

LEMMA OneAndTwo ==
  /\ \A a : /\ <<a>> # <<>> /\ <<a>>[1] = a /\ Tail(<<a>>) = <<>>
  /\ \A a, b : /\ <<a, b>> # <<>> /\ <<a, b>>[1] = a /\ Tail(<<a, b>>) = <<b>>
OBVIOUS

\* A step that neither the map nor its user sees.
Unseen == UNCHANGED <<result, file>> /\ MapOf' = MapOf /\ CallOf' = CallOf

LEMMA UnseenIsStutter == Unseen => UNCHANGED Map!mapVars
BY DEF Unseen, Map!mapVars, MapOf, CallOf

\* A finished call leaves nothing to hold.
LEMMA HeldWhenDone ==
  /\ todo = <<>> => MapOf = [k \in Key |-> value[k]]
  /\ todo # <<>> /\ todo[1].old = NoValue => MapOf = [k \in Key |-> value[k]]
BY DEF MapOf, Held

-----------------------------------------------------------------------------
(* Which call is on                                                        *)

Deleting ==
  \E old \in Value :
    /\ todo = <<NewCall("delete_element", asked.key, NoValue, old),
                NewCall("insert_element", asked.key, asked.value, old)>>
    /\ asked.key \in Nodes /\ old = value[asked.key]

Inserting ==
  \E old \in Value \cup {NoValue} :
    /\ todo = <<NewCall("insert_element", asked.key, asked.value, old)>>
    /\ asked.key \notin Nodes

LEMMA WhichCall ==
  ASSUME IInv, Stage, todo # <<>>
  PROVE  /\ todo[1].name = "search_element" => asked.name = "search_element" /\ todo = <<asked>>
         /\ todo[1].name = "insert_set_element" => asked.name = "insert_set_element" /\ todo = <<asked>>
         /\ todo[1].name = "dump_file" => asked.name = "dump_file" /\ DumpStage
         /\ todo[1].name = "delete_element" =>
              \/ asked.name = "delete_element" /\ todo = <<asked>>
              \/ asked.name = "insert_set_element" /\ Deleting
         /\ todo[1].name = "insert_element" =>
              \/ asked.name = "insert_element" /\ todo = <<asked>>
              \/ asked.name = "insert_set_element" /\ Inserting
              \/ asked.name = "load_file" /\ LoadStage
<1>0. Len(todo) \in Nat /\ Len(todo) > 0 /\ 1 \in 1 .. Len(todo)
  BY EmptySeq DEF IInv, Calls
<1>1. CASE asked.name \in {"search_element", "delete_element", "insert_element"}
  <2>1. todo = <<asked>> /\ todo[1] = asked
    BY <1>1, OneAndTwo DEF Stage
  <2> QED BY <1>1, <2>1
<1>2. CASE asked.name = "insert_set_element"
  <2>1. CASE todo = <<asked>>
    BY <1>2, <2>1, OneAndTwo
  <2>2. CASE Deleting
    <3>1. todo[1].name = "delete_element"
      BY <2>2, OneAndTwo DEF Deleting, NewCall
    <3> QED BY <1>2, <2>2, <3>1
  <2>3. CASE Inserting
    <3>1. todo[1].name = "insert_element"
      BY <2>3, OneAndTwo DEF Inserting, NewCall
    <3> QED BY <1>2, <2>3, <3>1
  <2> QED BY <1>2, <2>1, <2>2, <2>3 DEF Stage, SetStage, Deleting, Inserting
<1>3. CASE asked.name = "load_file"
  <2>1. LoadStage
    BY <1>3 DEF Stage
  <2>2. todo[1] = NewCall("insert_element", file[Added + 1].key, file[Added + 1].value, NoValue)
    BY <1>0, <2>1, Zenon DEF LoadStage
  <2>3. todo[1].name = "insert_element"
    BY <2>2 DEF NewCall
  <2> QED BY <1>3, <2>1, <2>3
<1>4. CASE asked.name = "dump_file"
  <2>1. DumpStage /\ todo = <<asked>>
    BY <1>4 DEF Stage, DumpStage
  <2>2. todo[1] = asked
    BY <2>1, OneAndTwo
  <2> QED BY <1>4, <2>1, <2>2
<1> QED BY <1>1, <1>2, <1>3, <1>4 DEF Stage, CallName

-----------------------------------------------------------------------------
(* The user                                                                *)

LEMMA InvokeRefines ==
  ASSUME IInv, todo = <<>>, asked' \in Call, todo' # <<>>, todo'[1].old = NoValue,
         UNCHANGED <<value, result, file>>
  PROVE  Map!Next
<1>1. CallOf = [name |-> "none"] /\ CallOf' = asked' /\ CallOf' # [name |-> "none"]
  BY CallIsNotNone DEF CallOf, NoCallDiffers
<1>2. MapOf' = MapOf
  BY DEF MapOf, Held
<1>3. Map!Invoke
  BY <1>1, <1>2 DEF Map!Invoke, Map!NoCall, MapOf, CallOf
<1> QED BY <1>3 DEF Map!Next

LEMMA MakeCallRefines ==
  ASSUME IInv, NEW name \in CallName \ {"load_file"}, NEW k \in Node, NEW v \in Value \cup {NoValue},
         name # "dump_file" => k \in Key,
         name \in {"insert_element", "insert_set_element"} => v \in Value,
         MakeCall(NewCall(name, k, v, NoValue))
  PROVE  Map!Next /\ Stage'
<1> DEFINE call == NewCall(name, k, v, NoValue)
<1>1. call \in GoodCall /\ call \in Call /\ call.name = name /\ call.old = NoValue
  <2>1. name \in CallName
    BY DEF CallName
  <2>2. call \in Call /\ call.name = name /\ call.key = k /\ call.value = v
    BY <2>1, NewCallIsCall
  <2>3. call.old = NoValue
    BY DEF NewCall
  <2> QED BY <2>2, <2>3 DEF GoodCall
<1>2. /\ todo = <<>> /\ asked' = call /\ todo' = <<call>> /\ dumper' = <<>> /\ current' = Header
      /\ UNCHANGED <<node_level, value, result, file>>
  BY DEF MakeCall, MakeCalls, Begin, listVars
<1> HIDE DEF call
<1>3. todo' # <<>> /\ todo'[1] = call
  BY <1>2, OneAndTwo
<1>4. Map!Next
  BY <1>1, <1>2, <1>3, InvokeRefines
<1>5. name = "dump_file" => DumpStage'
  <2>1. Passed' = {}
    BY <1>2, NumbersOfNodes DEF Passed, Nodes
  <2> QED BY <1>2, <2>1, FS_EmptySet DEF DumpStage
<1>6. Stage'
  BY <1>1, <1>2, <1>5 DEF Stage, SetStage, CallName
<1> QED BY <1>4, <1>6

LEMMA LoadRefines == IInv /\ LoadFile => Map!Next /\ Stage'
<1> SUFFICES ASSUME IInv, LoadFile PROVE Map!Next /\ Stage'
  OBVIOUS
<1> DEFINE calls == [n \in DOMAIN file |-> NewCall("insert_element", file[n].key, file[n].value, NoValue)]
           call == NewCall("load_file", Header, NoValue, NoValue)
<1>1. /\ file # <<>> /\ todo = <<>> /\ asked' = call /\ todo' = calls
      /\ UNCHANGED <<node_level, value, result, file>>
  BY DEF LoadFile, MakeCalls, Begin, listVars
<1>2. file \in Seq(Pair) /\ Len(file) \in Nat /\ Len(file) > 0 /\ DOMAIN file = 1 .. Len(file)
  BY <1>1, EmptySeq DEF IInv, Calls
<1>3. calls \in Seq(GoodCall) /\ Len(calls) = Len(file) /\ calls # <<>>
  <2>1. calls \in Seq(GoodCall)
    BY <1>1, UserCalls DEF User, IInv, Calls
  <2>2. DOMAIN calls = 1 .. Len(file)
    BY <1>2
  <2>3. Len(calls) = Len(file)
    BY <1>2, <2>1, <2>2, LenProperties
  <2> QED BY <1>2, <2>1, <2>3, EmptySeq
<1>4. \A n \in 1 .. Len(file) : calls[n] = NewCall("insert_element", file[n].key, file[n].value, NoValue)
  BY <1>2
<1>5. call \in Call /\ call.name = "load_file" /\ call.old = NoValue
  BY NewCallIsCall DEF CallName, Node, NewCall
<1> HIDE DEF calls, call
<1>6. calls[1].old = NoValue
  <2>1. 1 \in 1 .. Len(file)
    BY <1>2
  <2>2. calls[1] = NewCall("insert_element", file[1].key, file[1].value, NoValue)
    BY <1>4, <2>1, Zenon
  <2> QED BY <2>2 DEF NewCall
<1>7. Map!Next
  BY <1>1, <1>3, <1>5, <1>6, InvokeRefines
<1>8. LoadStage'
  BY <1>1, <1>2, <1>3, <1>4 DEF LoadStage, Added
<1>9. Stage'
  BY <1>1, <1>5, <1>8 DEF Stage, CallName
<1> QED BY <1>7, <1>9

LEMMA NewListRefines == NewList => Map!Next /\ Stage'
<1> SUFFICES ASSUME NewList PROVE Map!Next /\ Stage'
  OBVIOUS
<1>1. /\ todo = <<>> /\ todo' = <<>> /\ value' = [k \in Key |-> NoValue] /\ result' = NoValue
      /\ UNCHANGED file
  BY DEF NewList, Begin
<1>2. MapOf' = [k \in Key |-> NoValue] /\ CallOf = [name |-> "none"] /\ CallOf' = CallOf
  BY <1>1 DEF MapOf, Held, CallOf
<1>3. Map!Clear
  BY <1>1, <1>2 DEF Map!Clear, Map!NoCall, MapOf, CallOf
<1> QED BY <1>1, <1>3 DEF Map!Next, Stage

LEMMA UserRefines == IInv /\ User => Map!Next /\ Stage'
<1> SUFFICES ASSUME IInv, User PROVE Map!Next /\ Stage'
  OBVIOUS
<1>0. NoValue \in Value \cup {NoValue} /\ Header \in Node /\ Key \subseteq Node
      /\ {"search_element", "delete_element", "insert_element", "insert_set_element", "dump_file"}
           = CallName \ {"load_file"}
  BY DEF Node, CallName
<1>1. ASSUME NEW k \in Key, NEW name \in {"search_element", "delete_element"},
             MakeCall(NewCall(name, k, NoValue, NoValue))
      PROVE  Map!Next /\ Stage'
  BY <1>0, <1>1, MakeCallRefines
<1>2. ASSUME NEW k \in Key, NEW v \in Value, NEW name \in {"insert_element", "insert_set_element"},
             MakeCall(NewCall(name, k, v, NoValue))
      PROVE  Map!Next /\ Stage'
  BY <1>0, <1>2, MakeCallRefines
<1>3. CASE MakeCall(NewCall("dump_file", Header, NoValue, NoValue))
  BY <1>0, <1>3, MakeCallRefines
<1> QED BY <1>1, <1>2, <1>3, LoadRefines, NewListRefines DEF User

-----------------------------------------------------------------------------
(* The walk, searches and sets                                             *)

LEMMA WalkRefines == IInv /\ Stage /\ UNCHANGED asked /\ (Advance \/ Descend) => Unseen /\ Stage'
<1> SUFFICES ASSUME IInv, Stage, UNCHANGED asked, Advance \/ Descend PROVE Unseen /\ Stage'
  OBVIOUS
<1>1. /\ UNCHANGED <<node_level, value, todo, dumper, result, file>>
      /\ todo # <<>> /\ todo[1].name # "dump_file"
  BY DEF Advance, Descend, Walks, listVars
<1>2. Unseen
  BY <1>1 DEF Unseen, MapOf, CallOf, Held
<1>3. asked.name # "dump_file"
  <2>1. asked.name = "dump_file" => todo = <<asked>>
    BY <1>1 DEF Stage, DumpStage
  <2> QED BY <1>1, <2>1, OneAndTwo
<1>4. Stage'
  BY <1>1, <1>3 DEF Stage, SetStage, LoadStage, Added, Nodes
<1> QED BY <1>2, <1>4

LEMMA SearchRefines ==
  IInv /\ Stage /\ UNCHANGED asked /\ (SearchFound \/ SearchMissing) => Map!Next /\ Stage'
<1> SUFFICES ASSUME IInv, Stage, UNCHANGED asked, SearchFound \/ SearchMissing PROVE Map!Next /\ Stage'
  OBVIOUS
<1>1. /\ Arrived("search_element") /\ todo # <<>> /\ todo[1].name = "search_element"
      /\ todo' = Tail(todo) /\ UNCHANGED <<node_level, value, file>>
      /\ result' = IF Found THEN value[Key0] ELSE NoValue
  BY DEF SearchFound, SearchMissing, Arrived, Begin, listVars
<1>2. asked.name = "search_element" /\ todo = <<asked>> /\ todo' = <<>> /\ Key0 = asked.key
  BY <1>1, WhichCall, OneAndTwo DEF Key0
<1>3. Key0 \in Key /\ (Found <=> Key0 \in Nodes)
  BY <1>1, ArrivedPlace, FoundIsNode
<1>4. todo[1].old = NoValue
  BY <1>2, OneAndTwo, <1>1 DEF Stage
<1>5. MapOf = [k \in Key |-> value[k]] /\ MapOf' = MapOf
  BY <1>1, <1>2, <1>4, HeldWhenDone DEF MapOf, Held
<1>6. result' = MapOf[asked.key]
  BY <1>1, <1>2, <1>3, <1>5 DEF Nodes, IInv, Shape
<1>7. Map!Get
  BY <1>1, <1>2, <1>5, <1>6 DEF Map!Get, Map!Returns, Map!NoCall, MapOf
<1> QED BY <1>2, <1>7 DEF Map!Next, Stage

\* insert_set_element has searched.
LEMMA SetRefines ==
  IInv /\ Stage /\ UNCHANGED asked /\ (SetFound \/ SetMissing) => Unseen /\ Stage'
<1> SUFFICES ASSUME IInv, Stage, UNCHANGED asked, SetFound \/ SetMissing PROVE Unseen /\ Stage'
  OBVIOUS
<1>1. /\ Arrived("insert_set_element") /\ todo # <<>> /\ todo[1].name = "insert_set_element"
      /\ UNCHANGED <<node_level, value, file, result>>
  BY DEF SetFound, SetMissing, Arrived, listVars
<1>2. asked.name = "insert_set_element" /\ todo = <<asked>> /\ Key0 = asked.key /\ todo[1] = asked
  BY <1>1, WhichCall, OneAndTwo DEF Key0
<1>3. Key0 \in Key /\ (Found <=> Key0 \in Nodes) /\ asked.old = NoValue
  BY <1>1, ArrivedPlace, FoundIsNode DEF Stage
<1>4. todo' # <<>> /\ todo'[1].key = Key0 /\ (todo'[1].old = NoValue \/ todo'[1].old = value[Key0])
      /\ SetStage'
  <2>1. CASE SetFound
    <3>1. todo' = <<NewCall("delete_element", asked.key, NoValue, value[asked.key]),
                    NewCall("insert_element", asked.key, asked.value, value[asked.key])>>
      BY <1>2, <2>1 DEF SetFound, Begin
    <3>2. asked.key \in Nodes /\ value[asked.key] \in Value /\ Found
      BY <1>2, <1>3, <2>1 DEF SetFound, Nodes, IInv, Shape
    <3>3. Nodes' = Nodes
      BY <1>1 DEF Nodes
    <3>4. SetStage'
      BY <1>1, <3>1, <3>2, <3>3 DEF SetStage
    <3> QED BY <1>2, <3>1, <3>4, OneAndTwo DEF NewCall
  <2>2. CASE SetMissing
    <3>1. todo' = <<NewCall("insert_element", asked.key, asked.value, NoValue)>>
      BY <1>2, <2>2 DEF SetMissing, Begin
    <3>2. asked.key \notin Nodes' /\ NoValue \in Value \cup {NoValue}
      BY <1>1, <1>2, <1>3, <2>2 DEF SetMissing, Nodes
    <3>3. SetStage'
      BY <1>1, <3>1, <3>2 DEF SetStage
    <3> QED BY <1>2, <3>1, <3>3, OneAndTwo DEF NewCall
  <2> QED BY <2>1, <2>2
<1>5. MapOf' = MapOf
  BY <1>1, <1>2, <1>3, <1>4 DEF MapOf, Held
<1>6. CallOf' = CallOf
  BY <1>1, <1>4 DEF CallOf
<1> QED BY <1>1, <1>2, <1>4, <1>5, <1>6 DEF Unseen, Stage

-----------------------------------------------------------------------------
(* insert_element, of the user, of insert_set_element or of load_file      *)

\* One more key of the file is there.
LEMMA LoadTail ==
  ASSUME IInv, LoadStage, todo # <<>>, todo' = Tail(todo), UNCHANGED file,
         Nodes \subseteq Nodes', Key0 \in Nodes'
  PROVE  /\ LoadStage' /\ Added + 1 \in DOMAIN file
         /\ file[Added + 1].key = Key0 /\ file[Added + 1].value = todo[1].value
         /\ todo[1].old = NoValue
         /\ todo' # <<>> => todo'[1].old = NoValue
         /\ todo' = <<>> => \A n \in DOMAIN file : file[n].key \in Nodes'
<1>0. /\ Len(todo) \in Nat /\ Len(todo) > 0 /\ Len(file) \in Nat /\ Len(todo) <= Len(file)
      /\ DOMAIN file = 1 .. Len(file)
  BY EmptySeq DEF IInv, Calls, LoadStage
<1>1. /\ todo' \in Seq(GoodCall) /\ Len(todo') = Len(todo) - 1
      /\ \A i \in 1 .. Len(todo') : todo'[i] = todo[i + 1]
  BY HeadTailProperties DEF IInv, Calls
<1>2. Added \in Nat /\ Added' = Added + 1 /\ Added' + Len(todo') = Len(file)
  BY <1>0, <1>1 DEF Added
<1>3. todo[1] = NewCall("insert_element", file[Added + 1].key, file[Added + 1].value, NoValue)
  BY <1>0 DEF LoadStage
<1>4. file[Added + 1].key = Key0 /\ file[Added + 1].value = todo[1].value /\ todo[1].old = NoValue
  BY <1>3 DEF NewCall, Key0
<1>5. ASSUME NEW i \in 1 .. Len(todo')
      PROVE  todo'[i] = NewCall("insert_element", file[Added' + i].key, file[Added' + i].value, NoValue)
  <2>1. i + 1 \in 1 .. Len(todo) /\ Added + (i + 1) = Added' + i
    BY <1>0, <1>1, <1>2
  <2>2. todo[i + 1] = NewCall("insert_element", file[Added + (i + 1)].key, file[Added + (i + 1)].value, NoValue)
    BY <2>1 DEF LoadStage
  <2> QED BY <1>1, <2>1, <2>2
<1>6. ASSUME NEW j \in 1 .. Added' PROVE file[j].key \in Nodes'
  <2>1. CASE j = Added + 1
    BY <1>4, <2>1
  <2>2. CASE j # Added + 1
    BY <1>2, <2>2 DEF LoadStage
  <2> QED BY <2>1, <2>2
<1>7. LoadStage'
  BY <1>0, <1>1, <1>5, <1>6 DEF LoadStage
<1>8. todo' # <<>> => todo'[1].old = NoValue
  <2> SUFFICES ASSUME todo' # <<>> PROVE todo'[1].old = NoValue
    OBVIOUS
  <2>1. 1 \in 1 .. Len(todo')
    BY <1>1, EmptySeq
  <2>2. todo'[1] = NewCall("insert_element", file[Added' + 1].key, file[Added' + 1].value, NoValue)
    BY <1>5, <2>1, Zenon
  <2> QED BY <2>2 DEF NewCall
<1>9. todo' = <<>> => \A n \in DOMAIN file : file[n].key \in Nodes'
  <2> SUFFICES ASSUME todo' = <<>>, NEW n \in DOMAIN file PROVE file[n].key \in Nodes'
    OBVIOUS
  <2>1. Len(todo') = 0
    BY EmptySeq
  <2>2. Added' = Len(file)
    BY <1>0, <2>1 DEF Added
  <2>3. n \in 1 .. Added'
    BY <1>0, <2>2
  <2> QED BY <1>6, <2>3
<1>10. Added + 1 \in DOMAIN file
  BY <1>0, <1>2 DEF Added
<1> QED BY <1>4, <1>7, <1>8, <1>9, <1>10

LEMMA InsertExistsRefines ==
  IInv /\ Stage /\ UNCHANGED asked /\ InsertExists => [Map!Next]_Map!mapVars /\ Stage'
<1> SUFFICES ASSUME IInv, Stage, UNCHANGED asked, InsertExists PROVE Map!Next /\ Stage'
  OBVIOUS
<1>1. /\ Arrived("insert_element") /\ Found /\ todo # <<>> /\ todo[1].name = "insert_element"
      /\ todo' = Tail(todo) /\ UNCHANGED <<node_level, value, result, file>>
  BY DEF InsertExists, Arrived, Begin, listVars
<1>2. Key0 \in Key /\ Key0 \in Nodes /\ Nodes' = Nodes
  BY <1>1, ArrivedPlace, FoundIsNode DEF Nodes
<1>3. ~Inserting
  <2> SUFFICES ASSUME Inserting PROVE FALSE
    OBVIOUS
  <2>1. Key0 = asked.key
    BY OneAndTwo DEF Inserting, Key0, NewCall
  <2> QED BY <1>2, <2>1 DEF Inserting
<1>4. CASE asked.name = "insert_element" /\ todo = <<asked>>
  <2>1. todo' = <<>> /\ Key0 = asked.key /\ todo[1].old = NoValue
    BY <1>1, <1>4, OneAndTwo DEF Key0, Stage
  <2>2. MapOf = [k \in Key |-> value[k]] /\ MapOf' = MapOf
    BY <1>1, <2>1, HeldWhenDone DEF MapOf, Held
  <2>3. MapOf[asked.key] # NoValue
    BY <1>2, <2>1, <2>2 DEF Nodes, IInv, Shape
  <2>4. Map!Add
    BY <1>1, <1>4, <2>1, <2>2, <2>3 DEF Map!Add, Map!Returns, Map!NoCall, MapOf
  <2> QED BY <2>1, <2>4 DEF Map!Next, Stage
<1>5. CASE asked.name = "load_file" /\ LoadStage
  <2>1. /\ LoadStage' /\ todo[1].old = NoValue /\ (todo' # <<>> => todo'[1].old = NoValue)
        /\ (todo' = <<>> => \A n \in DOMAIN file : file[n].key \in Nodes)
    BY <1>1, <1>2, <1>5, LoadTail
  <2>2. MapOf = [k \in Key |-> value[k]] /\ MapOf' = [k \in Key |-> value[k]]
    BY <1>1, <2>1, HeldWhenDone DEF MapOf, Held
  <2>3. todo' = <<>> => \A n \in DOMAIN file : MapOf'[file[n].key] # NoValue
    BY <2>1, <2>2 DEF Nodes, IInv, Shape
  <2>4. Map!Load
    BY <1>1, <1>5, <2>2, <2>3 DEF Map!Load, Map!NoCall, MapOf
  <2>5. Stage'
    BY <1>1, <1>5, <2>1 DEF Stage
  <2> QED BY <2>4, <2>5 DEF Map!Next
<1> QED BY <1>1, <1>3, <1>4, <1>5, WhichCall

LEMMA InsertNodeRefines ==
  IInv /\ Stage /\ UNCHANGED asked /\ InsertNode => Map!Next /\ Stage'
<1> SUFFICES ASSUME IInv, Stage, UNCHANGED asked, InsertNode PROVE Map!Next /\ Stage'
  OBVIOUS
<1>1. /\ Arrived("insert_element") /\ ~Found /\ todo # <<>> /\ todo[1].name = "insert_element"
      /\ todo' = Tail(todo) /\ UNCHANGED <<result, file>>
      /\ value' = [value EXCEPT ![Key0] = todo[1].value]
      /\ \E r \in RandomLevel : node_level' = [node_level EXCEPT ![Key0] = r]
  BY DEF InsertNode, Arrived, Begin
<1>2. Key0 \in Key /\ Key0 \notin Nodes /\ todo[1] \in GoodCall
  BY <1>1, ArrivedPlace, FoundIsNode
<1>3. Nodes' = Nodes \cup {Key0}
  <2>1. \A r \in RandomLevel : r # -1
    BY SkipListAssumption DEF RandomLevel
  <2> QED BY <1>1, <1>2, <2>1 DEF Nodes, IInv, Shape
<1>4. value[Key0] = NoValue /\ value \in [Key -> Value \cup {NoValue}]
  BY <1>2 DEF Nodes, IInv, Shape
<1>5. CASE asked.name = "insert_set_element" /\ Inserting
  <2>1. PICK old \in Value \cup {NoValue} :
          todo = <<NewCall("insert_element", asked.key, asked.value, old)>>
    BY <1>5 DEF Inserting
  <2>2. todo' = <<>> /\ Key0 = asked.key /\ todo[1].value = asked.value
    BY <1>1, <2>1, OneAndTwo DEF Key0, NewCall
  <2>3. MapOf' = [MapOf EXCEPT ![asked.key] = asked.value]
    <3>1. MapOf' = [k \in Key |-> value'[k]]
      BY <2>2 DEF MapOf, Held
    <3>2. \A k \in Key \ {Key0} : MapOf[k] = value[k]
      BY DEF MapOf, Held, Key0
    <3>3. \A k \in Key : value'[k] = IF k = Key0 THEN todo[1].value ELSE value[k]
      BY <1>1, <1>4
    <3> HIDE DEF Key0
    <3>4. \A k \in Key : value'[k] = IF k = asked.key THEN asked.value ELSE MapOf[k]
      BY <2>2, <3>2, <3>3
    <3>5. MapOf = [k \in Key |-> MapOf[k]]
      BY DEF MapOf
    <3> QED BY <3>1, <3>4, <3>5
  <2>4. Map!Set
    BY <1>1, <1>5, <2>2, <2>3 DEF Map!Set, Map!Returns, Map!NoCall, MapOf
  <2> QED BY <2>2, <2>4 DEF Map!Next, Stage
<1>6. CASE asked.name = "load_file" /\ LoadStage
  <2>1. /\ LoadStage' /\ todo[1].old = NoValue /\ (todo' # <<>> => todo'[1].old = NoValue)
        /\ (todo' = <<>> => \A n \in DOMAIN file : file[n].key \in Nodes')
        /\ Added + 1 \in DOMAIN file /\ file[Added + 1].key = Key0
        /\ file[Added + 1].value = todo[1].value
    BY <1>1, <1>3, <1>6, LoadTail
  <2>2. MapOf = [k \in Key |-> value[k]] /\ MapOf' = [k \in Key |-> value'[k]]
    BY <1>1, <2>1, HeldWhenDone DEF MapOf, Held
  <2>3. MapOf[Key0] = NoValue /\ MapOf' = [MapOf EXCEPT ![Key0] = todo[1].value]
    BY <1>1, <1>2, <1>4, <2>2
  <2>4. \E n \in DOMAIN file :
          MapOf[file[n].key] = NoValue /\ MapOf' = [MapOf EXCEPT ![file[n].key] = file[n].value]
    BY <2>1, <2>3
  <2>5. todo' = <<>> => \A n \in DOMAIN file' : MapOf'[file'[n].key] # NoValue
    <3> SUFFICES ASSUME todo' = <<>>, NEW n \in DOMAIN file PROVE MapOf'[file[n].key] # NoValue
      BY <1>1
    <3>1. file[n].key \in Nodes'
      BY <2>1
    <3>2. Shape'
      BY InsertLists
    <3> QED BY <2>2, <3>1, <3>2 DEF Nodes, Shape
  <2>6. Map!Load
    BY <1>1, <1>6, <2>4, <2>5 DEF Map!Load, Map!NoCall, MapOf
  <2>7. Stage'
    BY <1>1, <1>6, <2>1 DEF Stage
  <2> QED BY <2>6, <2>7 DEF Map!Next
<1>7. CASE asked.name = "insert_element" /\ todo = <<asked>>
  <2>1. todo' = <<>> /\ Key0 = asked.key /\ todo[1].value = asked.value /\ todo[1].old = NoValue
    BY <1>1, <1>7, OneAndTwo DEF Key0, Stage
  <2>2. MapOf = [k \in Key |-> value[k]] /\ MapOf' = [k \in Key |-> value'[k]]
    BY <1>1, <2>1, HeldWhenDone DEF MapOf, Held
  <2>3. MapOf[asked.key] = NoValue /\ MapOf' = [MapOf EXCEPT ![asked.key] = asked.value]
    BY <1>1, <1>2, <1>4, <2>1, <2>2
  <2>4. Map!Add
    BY <1>1, <1>7, <2>1, <2>3 DEF Map!Add, Map!Returns, Map!NoCall, MapOf
  <2> QED BY <2>1, <2>4 DEF Map!Next, Stage
<1> QED BY <1>1, <1>5, <1>6, <1>7, WhichCall

-----------------------------------------------------------------------------
(* delete_element, of the user or of insert_set_element                    *)

LEMMA DeletingHasNode == Deleting => Key0 \in Nodes
<1> SUFFICES ASSUME Deleting PROVE Key0 \in Nodes
  OBVIOUS
<1>1. Key0 = asked.key
  BY OneAndTwo DEF Deleting, Key0, NewCall
<1> QED BY <1>1 DEF Deleting

LEMMA DeleteMissingRefines ==
  IInv /\ Stage /\ UNCHANGED asked /\ DeleteMissing => Map!Next /\ Stage'
<1> SUFFICES ASSUME IInv, Stage, UNCHANGED asked, DeleteMissing PROVE Map!Next /\ Stage'
  OBVIOUS
<1>1. /\ Arrived("delete_element") /\ ~Found /\ todo # <<>> /\ todo[1].name = "delete_element"
      /\ todo' = Tail(todo) /\ UNCHANGED <<value, result, file>>
  BY DEF DeleteMissing, Arrived, Begin, listVars
<1>2. Key0 \in Key /\ Key0 \notin Nodes
  BY <1>1, ArrivedPlace, FoundIsNode
<1>3. asked.name = "delete_element" /\ todo = <<asked>>
  BY <1>1, <1>2, WhichCall, DeletingHasNode
<1>4. todo' = <<>> /\ Key0 = asked.key /\ todo[1].old = NoValue
  BY <1>1, <1>3, OneAndTwo DEF Key0, Stage
<1>5. MapOf = [k \in Key |-> value[k]] /\ MapOf' = MapOf
  BY <1>1, <1>4, HeldWhenDone DEF MapOf, Held
<1>6. value[Key0] = NoValue
  BY <1>2 DEF Nodes, IInv, Shape
<1>7. MapOf' = [MapOf EXCEPT ![asked.key] = NoValue]
  BY <1>2, <1>4, <1>5, <1>6
<1>8. Map!Remove
  BY <1>1, <1>3, <1>4, <1>7 DEF Map!Remove, Map!Returns, Map!NoCall, MapOf
<1> QED BY <1>4, <1>8 DEF Map!Next, Stage

LEMMA DeleteNodeRefines ==
  IInv /\ Stage /\ UNCHANGED asked /\ DeleteNode => [Map!Next]_Map!mapVars /\ Stage'
<1> SUFFICES ASSUME IInv, Stage, UNCHANGED asked, DeleteNode
             PROVE  (Map!Next \/ Unseen) /\ Stage'
  BY UnseenIsStutter
<1>1. /\ Arrived("delete_element") /\ Found /\ todo # <<>> /\ todo[1].name = "delete_element"
      /\ todo' = Tail(todo) /\ UNCHANGED <<result, file>>
      /\ value' = [value EXCEPT ![Key0] = NoValue]
      /\ node_level' = [node_level EXCEPT ![Key0] = -1]
  BY DEF DeleteNode, Arrived, Begin
<1>2. Key0 \in Key
  BY <1>1, ArrivedPlace
<1>3. \A k \in Key : value'[k] = IF k = Key0 THEN NoValue ELSE value[k]
  BY <1>1, <1>2 DEF IInv, Shape
<1>4. Key0 \notin Nodes'
  BY <1>1, <1>2 DEF Nodes, IInv, Shape
<1>5. \A k \in Key \ {Key0} : MapOf[k] = value[k]
  BY DEF MapOf, Held, Key0
<1>6. CASE asked.name = "delete_element" /\ todo = <<asked>>
  <2>1. todo' = <<>> /\ Key0 = asked.key
    BY <1>1, <1>6, OneAndTwo DEF Key0
  <2>2. MapOf' = [k \in Key |-> value'[k]]
    BY <2>1 DEF MapOf, Held
  <2>3. MapOf' = [MapOf EXCEPT ![asked.key] = NoValue]
    <3>1. DOMAIN MapOf = Key /\ MapOf = [k \in Key |-> MapOf[k]]
      BY DEF MapOf
    <3> QED BY <1>2, <1>3, <1>5, <2>1, <2>2, <3>1
  <2>4. Map!Remove
    BY <1>1, <1>6, <2>1, <2>3 DEF Map!Remove, Map!Returns, Map!NoCall, MapOf
  <2> QED BY <2>1, <2>4 DEF Map!Next, Stage
<1>7. CASE asked.name = "insert_set_element" /\ Deleting
  <2>1. PICK old \in Value :
          /\ todo = <<NewCall("delete_element", asked.key, NoValue, old),
                      NewCall("insert_element", asked.key, asked.value, old)>>
          /\ old = value[asked.key]
    BY <1>7 DEF Deleting
  <2>2. /\ todo' = <<NewCall("insert_element", asked.key, asked.value, old)>>
        /\ Key0 = asked.key
    BY <1>1, <2>1, OneAndTwo DEF Key0, NewCall
  <2>3. todo' # <<>> /\ todo'[1].key = Key0 /\ todo'[1].old = value[Key0]
    BY <2>1, <2>2, OneAndTwo DEF NewCall
  <2>4. SetStage'
    BY <1>4, <2>2 DEF SetStage
  <2>5. value[Key0] # NoValue
    BY <2>1, <2>2, SkipListAssumption
  <2>6. MapOf[Key0] = value[Key0] /\ MapOf'[Key0] = value[Key0]
    BY <1>2, <1>3, <2>3, <2>5 DEF MapOf, Held
  <2>7. \A k \in Key \ {Key0} : MapOf'[k] = value[k]
    BY <1>3, <2>3 DEF MapOf, Held
  <2>8. MapOf' = MapOf
    <3>1. MapOf = [k \in Key |-> MapOf[k]] /\ MapOf' = [k \in Key |-> MapOf'[k]]
      BY DEF MapOf
    <3>2. \A k \in Key : MapOf'[k] = MapOf[k]
      BY <1>5, <2>6, <2>7
    <3> QED BY <3>1, <3>2
  <2>9. Unseen
    BY <1>1, <2>3, <2>8 DEF Unseen, CallOf
  <2> QED BY <1>1, <1>7, <2>4, <2>9 DEF Stage
<1> QED BY <1>1, <1>6, <1>7, WhichCall

-----------------------------------------------------------------------------
(* dump_file                                                               *)

LEMMA DumpNodeRefines == IInv /\ Stage /\ UNCHANGED asked /\ DumpNode => Unseen /\ Stage'
<1> SUFFICES ASSUME IInv, Stage, UNCHANGED asked, DumpNode PROVE Unseen /\ Stage'
  OBVIOUS
<1> DEFINE next == forward[current][0]
           pair == [key |-> next, value |-> value[next]]
<1>1. /\ Dumps /\ next # Null /\ dumper' = Append(dumper, pair) /\ current' = next
      /\ UNCHANGED <<node_level, value, todo, result, file>>
  BY DEF DumpNode, listVars
<1>2. /\ todo # <<>> /\ asked.name = "dump_file" /\ DumpStage /\ next \in AtLevel(0) /\ pair \in Pair
  BY <1>1, WhichCall, DumpFindsNodes DEF Dumps
<1>3. /\ next \in Nodes /\ next \in Int /\ current \in Int
      /\ Nodes \subseteq Key /\ \A k \in Nodes : k \in Int
      /\ next > current /\ \A k \in Nodes : k > current => k >= next
  <2>1. Nodes = AtLevel(0) /\ Nodes \subseteq Key /\ 0 \in Level
    BY NodesAreLowest, SkipListAssumption DEF IInv, Nodes, Level
  <2>2. current \in AtLevel(0) \cup {Header} /\ NextAt(0)[current] = next
    BY <1>1 DEF IInv, Walking, Dumps, NextAt
  <2>3. next > current /\ \A k \in AtLevel(0) : k > current => k >= next
    BY <1>1, <2>1, <2>2 DEF IInv, Lists, IsList
  <2>4. \A k \in Key : k \in Int
    BY NumbersOfNodes
  <2> HIDE DEF next
  <2> QED BY <1>2, <2>1, <2>2, <2>3, <2>4, NumbersOfNodes
<1> HIDE DEF next, pair
<1>4. Passed' = Passed \cup {next} /\ next \notin Passed
  <2>1. Passed' = {k \in Nodes : k <= next}
    BY <1>1 DEF Passed, Nodes
  <2>2. \A k \in Nodes : k <= next <=> k <= current \/ k = next
    <3> TAKE k \in Nodes
    <3>1. k \in Int /\ (k > current => k >= next)
      BY <1>3
    <3> QED BY <1>3, <3>1
  <2>3. ~(next <= current)
    BY <1>3
  <2> QED BY <1>3, <2>1, <2>2, <2>3 DEF Passed
<1>5. /\ Len(dumper) \in Nat /\ Len(dumper') = Len(dumper) + 1 /\ dumper'[Len(dumper) + 1] = pair
      /\ \A n \in 1 .. Len(dumper) : dumper'[n] = dumper[n]
  BY <1>1, <1>2, AppendProperties DEF IInv, Calls
<1>6. Len(dumper') = Cardinality(Passed')
  <2>1. IsFiniteSet(Passed)
    BY NodesFinite, FS_Subset DEF Passed
  <2>2. Cardinality(Passed \cup {next}) = Cardinality(Passed) + 1
    BY <1>4, <2>1, FS_AddElement
  <2> QED BY <1>2, <1>4, <1>5, <2>2 DEF DumpStage
<1>7. ASSUME NEW n \in 1 .. Len(dumper')
      PROVE  /\ dumper'[n].key \in Passed' /\ dumper'[n].value = value'[dumper'[n].key]
             /\ \A m \in 1 .. n - 1 : dumper'[m].key < dumper'[n].key
  <2>1. CASE n \in 1 .. Len(dumper)
    <3>1. dumper'[n] = dumper[n] /\ \A m \in 1 .. n - 1 : dumper'[m] = dumper[m]
      BY <1>5, <2>1
    <3> QED BY <1>1, <1>2, <1>4, <2>1, <3>1 DEF DumpStage
  <2>2. CASE n = Len(dumper) + 1
    <3>1. dumper'[n].key = next /\ dumper'[n].value = value[next]
      BY <1>5, <2>2 DEF pair
    <3>2. ASSUME NEW m \in 1 .. n - 1 PROVE dumper'[m].key < next
      <4>1. m \in 1 .. Len(dumper)
        BY <1>5, <2>2
      <4>2. dumper'[m] = dumper[m] /\ dumper[m].key \in Passed
        BY <1>2, <1>5, <4>1 DEF DumpStage
      <4>3. dumper[m].key \in Nodes /\ dumper[m].key <= current
        BY <4>2 DEF Passed
      <4>4. dumper[m].key \in Int
        BY <1>3, <4>3
      <4> QED BY <1>3, <4>2, <4>3, <4>4
    <3> QED BY <1>1, <1>4, <3>1, <3>2
  <2> QED BY <1>5, <2>1, <2>2
<1>8. DumpStage'
  BY <1>1, <1>2, <1>6, <1>7 DEF DumpStage
<1>9. Stage'
  BY <1>1, <1>2, <1>8 DEF Stage
<1>10. Unseen
  BY <1>1 DEF Unseen, MapOf, CallOf, Held
<1> QED BY <1>9, <1>10

LEMMA DumpDoneRefines == IInv /\ Stage /\ UNCHANGED asked /\ DumpDone => Map!Next /\ Stage'
<1> SUFFICES ASSUME IInv, Stage, UNCHANGED asked, DumpDone PROVE Map!Next /\ Stage'
  OBVIOUS
<1>1. /\ Dumps /\ forward[current][0] = Null /\ file' = dumper /\ todo' = Tail(todo)
      /\ UNCHANGED <<node_level, value, result>>
  BY DEF DumpDone, Begin, listVars
<1>2. todo # <<>> /\ asked.name = "dump_file" /\ DumpStage /\ todo = <<asked>> /\ todo' = <<>>
  BY <1>1, WhichCall, OneAndTwo DEF Dumps, DumpStage
<1>3. todo[1].old = NoValue
  BY <1>2, OneAndTwo DEF Stage
<1>4. MapOf = [k \in Key |-> value[k]] /\ MapOf' = MapOf
  BY <1>1, <1>2, <1>3, HeldWhenDone DEF MapOf, Held
<1>5. Passed = Nodes
  <2>1. Nodes = AtLevel(0) /\ 0 \in Level
    BY NodesAreLowest, SkipListAssumption DEF IInv, Level
  <2>2. current \in AtLevel(0) \cup {Header} /\ NextAt(0)[current] = Null
    BY <1>1 DEF IInv, Walking, Dumps, NextAt
  <2>3. \A k \in AtLevel(0) : k <= current
    BY <2>1, <2>2 DEF IInv, Lists, IsList
  <2> QED BY <2>1, <2>3 DEF Passed
<1>6. {k \in Key : MapOf[k] # NoValue} = Nodes
  BY <1>4 DEF Nodes, IInv, Shape
<1>7. DOMAIN dumper = 1 .. Len(dumper)
  BY DEF IInv, Calls
<1>8. \A n \in DOMAIN dumper : dumper[n].key \in Nodes /\ dumper[n].value = MapOf[dumper[n].key]
  BY <1>2, <1>4, <1>5, <1>7 DEF DumpStage, Nodes
<1>9. Map!Dump
  <2>1. CallOf.name = "dump_file" /\ CallOf' = [name |-> "none"]
    BY <1>2 DEF CallOf
  <2>2. Len(file') = Cardinality({k \in Key : MapOf[k] # NoValue})
    BY <1>1, <1>2, <1>5, <1>6 DEF DumpStage
  <2>3. \A n \in DOMAIN file' :
          /\ file'[n].key \in {k \in Key : MapOf[k] # NoValue}
          /\ file'[n].value = MapOf[file'[n].key]
          /\ \A m \in 1 .. n - 1 : file'[m].key < file'[n].key
    BY <1>1, <1>2, <1>6, <1>7, <1>8 DEF DumpStage
  <2>4. Map!Present = {k \in Key : MapOf[k] # NoValue}
    BY Zenon DEF Map!Present, MapOf
  <2>5. Map!Returns("dump_file")
    BY <2>1, Zenon DEF Map!Returns, Map!NoCall, CallOf
  <2>6. UNCHANGED <<[k \in Key |-> Held(k)], result>>
    BY <1>1, <1>4 DEF MapOf
  <2>7. Map!Cardinality(Map!Present) = Cardinality(Map!Present)
    BY Zenon DEF Map!Cardinality, Cardinality
  <2> QED BY <2>2, <2>3, <2>4, <2>5, <2>6, <2>7, Zenon DEF Map!Dump, MapOf
<1> QED BY <1>2, <1>9 DEF Map!Next, Stage

-----------------------------------------------------------------------------
(* The theorem                                                             *)

LEMMA InitRefines == Init => Map!Init /\ Stage
<1> SUFFICES ASSUME Init PROVE Map!Init /\ Stage
  OBVIOUS
<1>1. todo = <<>> /\ value = [k \in Key |-> NoValue] /\ result = NoValue /\ file = <<>>
  BY DEF Init
<1> QED BY <1>1 DEF Map!Init, Map!NoCall, Held, Stage

LEMMA NextRefines == IInv /\ Stage /\ [Next]_vars => [Map!Next]_Map!mapVars /\ Stage'
<1> SUFFICES ASSUME IInv, Stage, [Next]_vars PROVE [Map!Next]_Map!mapVars /\ Stage'
  OBVIOUS
<1>1. CASE UNCHANGED vars
  <2>1. UNCHANGED <<todo, asked, dumper, current, node_level, value, result, file>>
    BY <1>1 DEF vars, listVars, walkVars
  <2>2. Unseen
    BY <2>1 DEF Unseen, MapOf, Held, CallOf
  <2>3. Stage'
    BY <2>1 DEF Stage, SetStage, LoadStage, Added, DumpStage, Passed, Nodes
  <2> QED BY <2>2, <2>3, UnseenIsStutter
<1>2. CASE User
  BY <1>2, UserRefines
<1>3. CASE Step /\ UNCHANGED asked
  BY <1>3, UnseenIsStutter, WalkRefines, SearchRefines, SetRefines, InsertExistsRefines, InsertNodeRefines,
     DeleteMissingRefines, DeleteNodeRefines, DumpNodeRefines, DumpDoneRefines DEF Step
<1> QED BY <1>1, <1>2, <1>3 DEF Next

\* The list implements the map of OrderedMap: each call of skipList.h reads or changes one entry in
\* one step, seen by its user; insert_set_element's deletion and insertion are one step, a dump has
\* every pair in the order of the keys, and load_file adds the keys that are not there.
THEOREM SkipListImplementsMap == Spec => ImplementsOrderedMap
<1>1. Init => Map!Init /\ Stage
  BY InitRefines
<1>2. IInv /\ IInv' /\ Stage /\ [Next]_vars => [Map!Next]_Map!mapVars /\ Stage'
  BY NextRefines
<1> QED BY <1>1, <1>2, IInvHolds, PTL DEF Spec, ImplementsOrderedMap, Map!Spec

====
