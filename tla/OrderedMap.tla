---- MODULE OrderedMap ----
(***************************************************************************)
(* What SkipList promises: a map from keys to values.  A call that is made *)
(* takes effect, or reads, in one step, after which it has returned; only  *)
(* load_file takes a step for each key it adds.                            *)
(***************************************************************************)
EXTENDS Integers, Sequences, FiniteSets

CONSTANTS Key, Value, NoValue

VARIABLES
  map,     \* map[k], NoValue if there is none
  call,    \* the call that is on: its name, key and value
  result,  \* what the last search found
  file     \* the last dump: the pairs, the smallest key first

mapVars == <<map, call, result, file>>

NoCall == [name |-> "none"]

Init == map = [k \in Key |-> NoValue] /\ call = NoCall /\ result = NoValue /\ file = <<>>

\* A call is made, of whatever the caller likes.
Invoke == call = NoCall /\ call' # NoCall /\ UNCHANGED <<map, result, file>>

Returns(name) == call.name = name /\ call' = NoCall

Set ==
  /\ Returns("insert_set_element")
  /\ map' = [map EXCEPT ![call.key] = call.value] /\ UNCHANGED <<result, file>>

\* Of a key that is there nothing changes.
Add ==
  /\ Returns("insert_element")
  /\ map' = IF map[call.key] = NoValue THEN [map EXCEPT ![call.key] = call.value] ELSE map
  /\ UNCHANGED <<result, file>>

Remove ==
  /\ Returns("delete_element")
  /\ map' = [map EXCEPT ![call.key] = NoValue] /\ UNCHANGED <<result, file>>

Get == Returns("search_element") /\ result' = map[call.key] /\ UNCHANGED <<map, file>>

Present == {k \in Key : map[k] # NoValue}

Dump ==
  /\ Returns("dump_file")
  /\ Len(file') = Cardinality(Present)
  /\ \A n \in DOMAIN file' :
       /\ file'[n].key \in Present /\ file'[n].value = map[file'[n].key]
       /\ \A m \in 1 .. n - 1 : file'[m].key < file'[n].key
  /\ UNCHANGED <<map, result>>

\* A key that is there keeps its value; in the end every key of the file is there.
Load ==
  /\ call.name = "load_file"
  /\ \/ map' = map
     \/ \E n \in DOMAIN file :
          map[file[n].key] = NoValue /\ map' = [map EXCEPT ![file[n].key] = file[n].value]
  /\ \/ call' = call
     \/ call' = NoCall /\ \A n \in DOMAIN file : map'[file[n].key] # NoValue
  /\ UNCHANGED <<result, file>>

Clear ==
  /\ call = NoCall
  /\ map' = [k \in Key |-> NoValue] /\ result' = NoValue /\ UNCHANGED <<call, file>>

Next == Invoke \/ Set \/ Add \/ Remove \/ Get \/ Dump \/ Load \/ Clear

Spec == Init /\ [][Next]_mapVars

====
