---- MODULE SkipList ----
(***************************************************************************)
(* src/src/skipList/include/skipList.h: a node for each key, linked on     *)
(* levels 0 .. node_level, and a header.  A step is one turn of a loop, or *)
(* what follows the loop: the pointers are read one at a time.  All users  *)
(* hold KvServer's m_mtx, so there is one call at a time.  A key stands    *)
(* for its node, and the order of the keys is that of the integers.        *)
(***************************************************************************)
EXTENDS Integers, Sequences, FiniteSets

CONSTANTS
  Key,
  Value,
  NoValue,
  MaxLevel   \* _max_level

ASSUME SkipListAssumption ==
  /\ Key \subseteq Nat \ {0} /\ IsFiniteSet(Key)
  /\ NoValue \notin Value
  /\ MaxLevel \in Nat \ {0}

Header == 0
Null == -1
Level == 0 .. MaxLevel
Node == Key \cup {Header}

VARIABLES
  node_level,        \* -1: there is no such node
  value,
  forward,
  skip_list_level, element_count,
  asked,             \* what the user has called
  todo,              \* the calls that are left of it, the first of which is on
  current, level,    \* locals of that call: the loop's node and i
  update,
  dumper,            \* local of dump_file
  result,            \* what search_element returned last
  file               \* the last dump, which load_file may be given

listVars == <<node_level, value, forward, skip_list_level, element_count>>
walkVars == <<current, level, update>>
vars == <<listVars, asked, todo, walkVars, dumper, result, file>>

CallName == {"search_element", "insert_element", "delete_element", "insert_set_element", "dump_file",
              "load_file"}

\* old: the value insert_set_element has found, and deletes.
Call == [name: CallName, key: Node, value: Value \cup {NoValue}, old: Value \cup {NoValue}]

NewCall(name, k, v, old) == [name |-> name, key |-> k, value |-> v, old |-> old]

Nodes == {k \in Key : node_level[k] # -1}

\* The nodes that level l links.
AtLevel(l) == {k \in Key : node_level[k] >= l}

Init ==
  /\ node_level = [k \in Key |-> -1]
  /\ value = [k \in Key |-> NoValue]
  /\ forward = [n \in Node |-> [l \in Level |-> Null]]
  /\ skip_list_level = 0 /\ element_count = 0
  /\ asked = NewCall("dump_file", Header, NoValue, NoValue) /\ todo = <<>>
  /\ current = Header /\ level = -1 /\ update = [l \in Level |-> Header]
  /\ dumper = <<>> /\ result = NoValue /\ file = <<>>

-----------------------------------------------------------------------------
(* The loop that insert_element, delete_element and search_element share   *)

Key0 == todo[1].key

\* A call begins at the header, on the highest level there is then.
Begin(calls) ==
  /\ todo' = calls
  /\ current' = Header
  /\ level' = skip_list_level'
  /\ update' = [l \in Level |-> Header]
  /\ dumper' = <<>>

MakeCalls(call, calls) ==
  /\ todo = <<>>
  /\ asked' = call
  /\ UNCHANGED <<listVars, result, file>>
  /\ Begin(calls)

MakeCall(call) == MakeCalls(call, <<call>>)

Walks == todo # <<>> /\ todo[1].name # "dump_file" /\ level >= 0

IsBefore_Mutant(n) == n # Null /\ n <= Key0
IsBefore(n) == n # Null /\ n < Key0

Advance ==
  /\ Walks /\ IsBefore(forward[current][level])
  /\ current' = forward[current][level]
  /\ UNCHANGED <<listVars, todo, level, update, dumper, result, file>>

\* (search_element has no update, and does not miss it.)
Descend ==
  /\ Walks /\ ~IsBefore(forward[current][level])
  /\ update' = [update EXCEPT ![level] = current]
  /\ level' = level - 1
  /\ UNCHANGED <<listVars, todo, current, dumper, result, file>>

\* After the loop: the node next to current is the key's, if there is one.
Arrived(name) == todo # <<>> /\ todo[1].name = name /\ level = -1
Found == forward[current][0] = Key0

-----------------------------------------------------------------------------
(* insert_element                                                          *)

RandomLevel_Mutant == 1 .. MaxLevel + 1
RandomLevel == 1 .. MaxLevel

InsertExists ==
  /\ Arrived("insert_element") /\ Found
  /\ UNCHANGED <<listVars, result, file>>
  /\ Begin(Tail(todo))

\* On a level that is new, the header comes before.
Before(l) == IF l <= skip_list_level THEN update[l] ELSE Header

\* The new node's pointers are set after the one that led past it.
LinkAfter_Mutant(random_level) ==
  [n \in Node |-> [l \in Level |->
     IF l > random_level THEN forward[n][l]
     ELSE IF n \in {Key0, Before(l)} THEN Key0
     ELSE forward[n][l]]]

LinkAfter(random_level) ==
  [n \in Node |-> [l \in Level |->
     IF l > random_level THEN forward[n][l]
     ELSE IF n = Key0 THEN forward[Before(l)][l]
     ELSE IF n = Before(l) THEN Key0
     ELSE forward[n][l]]]

InsertNode == \E random_level \in RandomLevel :
  /\ Arrived("insert_element") /\ ~Found
  /\ node_level' = [node_level EXCEPT ![Key0] = random_level]
  /\ value' = [value EXCEPT ![Key0] = todo[1].value]
  /\ forward' = LinkAfter(random_level)
  /\ skip_list_level' = IF random_level > skip_list_level THEN random_level ELSE skip_list_level
  /\ element_count' = element_count + 1
  /\ Begin(Tail(todo))
  /\ UNCHANGED <<result, file>>

-----------------------------------------------------------------------------
(* delete_element                                                          *)

DeleteMissing_Mutant ==
  /\ Arrived("delete_element") /\ ~Found
  /\ element_count' = element_count - 1
  /\ UNCHANGED <<node_level, value, forward, skip_list_level, result, file>>
  /\ Begin(Tail(todo))

DeleteMissing ==
  /\ Arrived("delete_element") /\ ~Found
  /\ UNCHANGED <<listVars, result, file>>
  /\ Begin(Tail(todo))

\* The loop from the lowest level, that breaks where update[i] does not lead to the node.
UnlinkedLevels_Mutant ==
  {l \in 0 .. skip_list_level - 1 : \A m \in 0 .. l : forward[update[m]][m] = Key0}
UnlinkedLevels ==
  {l \in 0 .. skip_list_level : \A m \in 0 .. l : forward[update[m]][m] = Key0}

\* The node's own pointers are gone with it.
Unlinked ==
  [n \in Node |-> [l \in Level |->
     IF n = Key0 THEN Null
     ELSE IF l \in UnlinkedLevels /\ n = update[l] THEN forward[Key0][l]
     ELSE forward[n][l]]]

\* Levels that have become empty go, from the highest down, but for level 0.
IsTop(l, fwd) ==
  /\ l = 0 \/ fwd[Header][l] # Null
  /\ \A m \in l + 1 .. skip_list_level : fwd[Header][m] = Null

DeleteNode == \E top \in 0 .. skip_list_level :
  /\ Arrived("delete_element") /\ Found
  /\ node_level' = [node_level EXCEPT ![Key0] = -1]
  /\ value' = [value EXCEPT ![Key0] = NoValue]
  /\ forward' = Unlinked
  /\ IsTop(top, Unlinked)
  /\ skip_list_level' = top
  /\ element_count' = element_count - 1
  /\ Begin(Tail(todo))
  /\ UNCHANGED <<result, file>>

-----------------------------------------------------------------------------
(* search_element, insert_set_element                                      *)

SearchFound ==
  /\ Arrived("search_element") /\ Found
  /\ result' = value[Key0]
  /\ UNCHANGED <<listVars, file>>
  /\ Begin(Tail(todo))

SearchMissing ==
  /\ Arrived("search_element") /\ ~Found
  /\ result' = NoValue
  /\ UNCHANGED <<listVars, file>>
  /\ Begin(Tail(todo))

SetFound_Mutant ==
  /\ Arrived("insert_set_element") /\ Found
  /\ UNCHANGED <<listVars, result, file>>
  /\ Begin(<<NewCall("insert_element", Key0, todo[1].value, NoValue)>>)

\* The search of insert_set_element, which then deletes and inserts.
SetFound ==
  /\ Arrived("insert_set_element") /\ Found
  /\ UNCHANGED <<listVars, result, file>>
  /\ Begin(<<NewCall("delete_element", Key0, NoValue, value[Key0]),
             NewCall("insert_element", Key0, todo[1].value, value[Key0])>>)

SetMissing ==
  /\ Arrived("insert_set_element") /\ ~Found
  /\ UNCHANGED <<listVars, result, file>>
  /\ Begin(<<NewCall("insert_element", Key0, todo[1].value, NoValue)>>)

-----------------------------------------------------------------------------
(* dump_file, load_file                                                    *)

Dumps == todo # <<>> /\ todo[1].name = "dump_file"

DumpNode ==
  LET next == forward[current][0] IN
  /\ Dumps /\ next # Null
  /\ dumper' = Append(dumper, [key |-> next, value |-> value[next]])
  /\ current' = next
  /\ UNCHANGED <<listVars, todo, level, update, result, file>>

DumpDone ==
  /\ Dumps /\ forward[current][0] = Null
  /\ file' = dumper
  /\ UNCHANGED <<listVars, result>>
  /\ Begin(Tail(todo))

\* Key after key, and those that are there stay as they are.
LoadFile ==
  /\ file # <<>>
  /\ MakeCalls(NewCall("load_file", Header, NoValue, NoValue),
       [n \in DOMAIN file |-> NewCall("insert_element", file[n].key, file[n].value, NoValue)])

\* The destructor frees the nodes of level 0, which are all; a new list is empty.
NewList ==
  /\ todo = <<>>
  /\ node_level' = [k \in Key |-> -1]
  /\ value' = [k \in Key |-> NoValue]
  /\ forward' = [n \in Node |-> [l \in Level |-> Null]]
  /\ skip_list_level' = 0 /\ element_count' = 0
  /\ result' = NoValue
  /\ UNCHANGED <<asked, file>>
  /\ Begin(<<>>)

-----------------------------------------------------------------------------

User ==
  \/ \E k \in Key :
       \/ MakeCall(NewCall("search_element", k, NoValue, NoValue))
       \/ MakeCall(NewCall("delete_element", k, NoValue, NoValue))
       \/ \E v \in Value : \/ MakeCall(NewCall("insert_element", k, v, NoValue))
                           \/ MakeCall(NewCall("insert_set_element", k, v, NoValue))
  \/ MakeCall(NewCall("dump_file", Header, NoValue, NoValue))
  \/ LoadFile \/ NewList

Step ==
  \/ Advance \/ Descend \/ InsertExists \/ InsertNode \/ DeleteMissing \/ DeleteNode
  \/ SearchFound \/ SearchMissing \/ SetFound \/ SetMissing \/ DumpNode \/ DumpDone

Next == User \/ (Step /\ UNCHANGED asked)

\* A call is a loop that nothing interrupts.
Spec == Init /\ [][Next]_vars /\ WF_vars(Step /\ UNCHANGED asked)

-----------------------------------------------------------------------------
(* Properties                                                              *)

\* Every field holds a value of its C++ type, and no array is too short.
TypeOK ==
  /\ node_level \in [Key -> -1 .. MaxLevel]
  /\ value \in [Key -> Value \cup {NoValue}]
  /\ forward \in [Node -> [Level -> Key \cup {Null}]]
  /\ skip_list_level \in Level /\ element_count \in Nat
  /\ asked \in Call /\ todo \in Seq(Call)
  /\ current \in Node /\ level \in -1 .. MaxLevel /\ update \in [Level -> Node]
  /\ dumper \in Seq([key: Key, value: Value]) /\ file \in Seq([key: Key, value: Value])
  /\ result \in Value \cup {NoValue}

\* After n comes the next larger node of the level, or nothing.
Links(n, l) ==
  IF forward[n][l] = Null THEN \A k \in AtLevel(l) : k <= n
  ELSE /\ forward[n][l] \in AtLevel(l) /\ forward[n][l] > n
       /\ \A k \in AtLevel(l) : k > n => k >= forward[n][l]

\* Every level is a sorted list of exactly the nodes that reach it: whatever is inserted,
\* deleted and inserted again with another random level, none is lost or left dangling on
\* some level only.
LevelsLinked == \A l \in Level : \A n \in AtLevel(l) \cup {Header} : Links(n, l)

\* A walk stands on a node that exists and that the level links, never past the key; and the
\* nodes it has noted, on all levels above, are those the new pointers belong in.
NotedBefore(l) ==
  /\ update[l] \in AtLevel(l) \cup {Header} /\ update[l] < Key0
  /\ forward[update[l]][l] = Null \/ forward[update[l]][l] >= Key0

WalkNotesPredecessors ==
  todo # <<>> /\ todo[1].name # "dump_file" =>
    /\ current \in AtLevel(IF level = -1 THEN 0 ELSE level) \cup {Header} /\ current < Key0
    /\ \A l \in level + 1 .. skip_list_level : NotedBefore(l)
    /\ level = -1 => current = update[0]

\* size() is the number of nodes, also when a key was not there to delete, or was there to
\* insert.
CountIsSize == element_count = Cardinality(Nodes)

\* The value that insert_set_element has taken out and not yet replaced is not missed.
Held(k) == IF value[k] = NoValue /\ todo # <<>> /\ todo[1].key = k THEN todo[1].old ELSE value[k]

Map == INSTANCE OrderedMap WITH
  map <- [k \in Key |-> Held(k)],
  call <- IF todo = <<>> THEN [name |-> "none"] ELSE asked

\* The list is a map: a search finds what was set last, a dump holds every pair in order, and
\* a load leaves what is there, although every call works on pointers one level at a time.
ImplementsOrderedMap == Map!Spec

\* No call runs in circles.
CallsEnd == todo # <<>> ~> todo = <<>>

====
