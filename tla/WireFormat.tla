---- MODULE WireFormat ----
(***************************************************************************)
(* The messages of src/src/raftRpcPro and src/src/rpc as the generated     *)
(* protobuf code writes and reads them.  A message is a record.  On the    *)
(* wire it is a sequence of fields, each with a number, a wire type and a  *)
(* value, and without a name, a length or an end: what reads it decides    *)
(* what it is.  The bytes of one field are not looked into.                *)
(***************************************************************************)
EXTENDS Integers, Sequences, SequencesExt

\* The classes: what each field holds.
LogEntry == [command |-> "bytes", logterm |-> "int32", logindex |-> "int32"]
AppendEntriesArgs ==
  [term |-> "int32", leaderid |-> "int32", prevlogindex |-> "int32", prevlogterm |-> "int32",
   entries |-> "LogEntry", leadercommit |-> "int32"]
AppendEntriesReply ==
  [term |-> "int32", success |-> "bool", updatenextindex |-> "int32", appstate |-> "int32"]
RequestVoteArgs ==
  [term |-> "int32", candidateid |-> "int32", lastlogindex |-> "int32", lastlogterm |-> "int32"]
RequestVoteReply == [term |-> "int32", votegranted |-> "bool", votestate |-> "int32"]
InstallSnapshotRequest ==
  [leaderid |-> "int32", term |-> "int32", lastsnapshotincludeindex |-> "int32",
   lastsnapshotincludeterm |-> "int32", data |-> "bytes"]
InstallSnapShotResponse == [term |-> "int32"]
GetArgs == [key |-> "bytes", clientid |-> "bytes", requestid |-> "int32"]
GetReply == [err |-> "bytes", value |-> "bytes"]
PutAppendArgs ==
  [key |-> "bytes", value |-> "bytes", op |-> "bytes", clientid |-> "bytes", requestid |-> "int32"]
PutAppendReply == [err |-> "bytes"]
RpcHeader == [service_name |-> "bytes", method_name |-> "bytes", args_size |-> "uint32"]

\* The parsers and serializers: which field has which number, from 1 on.
LogEntryFields == <<"command", "logterm", "logindex">>
AppendEntriesArgsFields ==
  <<"term", "leaderid", "prevlogindex", "prevlogterm", "entries", "leadercommit">>
AppendEntriesReplyFields == <<"term", "success", "updatenextindex", "appstate">>
RequestVoteArgsFields == <<"term", "candidateid", "lastlogindex", "lastlogterm">>
RequestVoteReplyFields == <<"term", "votegranted", "votestate">>
InstallSnapshotRequestFields ==
  <<"leaderid", "term", "lastsnapshotincludeindex", "lastsnapshotincludeterm", "data">>
InstallSnapShotResponseFields == <<"term">>
GetArgsFields == <<"key", "clientid", "requestid">>
GetReplyFields == <<"err", "value">>
PutAppendArgsFields == <<"key", "value", "op", "clientid", "requestid">>
PutAppendReplyFields == <<"err">>
RpcHeaderFields == <<"service_name", "method_name", "args_size">>

Prototype(types, fields) == [types |-> types, fields |-> fields]

-----------------------------------------------------------------------------
(* What all serializers and parsers do                                     *)

DefaultOf(type) ==
  CASE type \in {"int32", "uint32"} -> 0
    [] type = "bool" -> FALSE
    [] type = "bytes" -> ""
    [] type = "LogEntry" -> <<>>

WireType(type) == IF type \in {"int32", "uint32", "bool"} THEN "varint" ELSE "len"

\* A default value is not written.
ScalarToWire(type, v) ==
  IF v = DefaultOf(type) THEN <<>> ELSE <<IF type = "bool" THEN 1 ELSE v>>

\* values[n]: the values that the n-th field is written with.
WriteFields(proto, values) ==
  FlattenSeq([n \in DOMAIN proto.fields |->
    [k \in DOMAIN values[n] |->
      [number |-> n, wire |-> WireType(proto.types[proto.fields[n]]), value |-> values[n][k]]]])

\* The values of the fields that are this one's, collected by the loop of the parser; another
\* number or wire type is unknown, and passed over.
IsField(f, proto, name) ==
  /\ f.number \in DOMAIN proto.fields /\ proto.fields[f.number] = name
  /\ f.wire = WireType(proto.types[name])

ReadField(proto, name, wire) ==
  LET read[n \in 0 .. Len(wire)] ==
        IF n = 0 THEN <<>>
        ELSE IF IsField(wire[n], proto, name) THEN Append(read[n - 1], wire[n].value)
        ELSE read[n - 1]
  IN read[Len(wire)]

\* Of a field that occurs again the last value counts.
ScalarFromWire(type, values) ==
  IF values = <<>> THEN DefaultOf(type)
  ELSE IF type = "bool" THEN Last(values) # 0 ELSE Last(values)

EntryPrototype == Prototype(LogEntry, LogEntryFields)

SerializeEntry(entry) ==
  WriteFields(EntryPrototype,
    [n \in DOMAIN LogEntryFields |-> ScalarToWire(LogEntry[LogEntryFields[n]], entry[LogEntryFields[n]])])

ParseEntry(wire) ==
  [name \in DOMAIN LogEntry |-> ScalarFromWire(LogEntry[name], ReadField(EntryPrototype, name, wire))]

\* A repeated field is written once for each element.
ToWire(type, v) ==
  IF type = "LogEntry" THEN [k \in DOMAIN v |-> SerializeEntry(v[k])] ELSE ScalarToWire(type, v)

FromWire(type, values) ==
  IF type = "LogEntry" THEN [k \in DOMAIN values |-> ParseEntry(values[k])]
  ELSE ScalarFromWire(type, values)

Serialize(proto, m) ==
  WriteFields(proto,
    [n \in DOMAIN proto.fields |-> ToWire(proto.types[proto.fields[n]], m[proto.fields[n]])])

Parse(proto, wire) ==
  [name \in DOMAIN proto.types |-> FromWire(proto.types[name], ReadField(proto, name, wire))]

-----------------------------------------------------------------------------
(* The services                                                            *)

\* The services of the .proto files, with their methods.
Services ==
  [raftRpc |-> {"AppendEntries", "InstallSnapShot", "RequestVote"},
   KvServerRpc |-> {"PutAppend", "Get"}]

m_serviceMap_Mutant == [raftRpc |-> Services["raftRpc"]]

\* The KvServer registers itself and its Raft node with NotifyService.
m_serviceMap == Services

raftRpcRequest(method) ==
  CASE method = "AppendEntries" -> Prototype(AppendEntriesArgs, AppendEntriesArgsFields)
    [] method = "InstallSnapShot" -> Prototype(InstallSnapshotRequest, InstallSnapshotRequestFields)
    [] method = "RequestVote" -> Prototype(RequestVoteArgs, RequestVoteArgsFields)

KvServerRpcRequest(method) ==
  CASE method = "PutAppend" -> Prototype(PutAppendArgs, PutAppendArgsFields)
    [] method = "Get" -> Prototype(GetArgs, GetArgsFields)

GetRequestPrototype(service, method) ==
  IF service = "raftRpc" THEN raftRpcRequest(method) ELSE KvServerRpcRequest(method)

raftRpcResponse(method) ==
  CASE method = "AppendEntries" -> Prototype(AppendEntriesReply, AppendEntriesReplyFields)
    [] method = "InstallSnapShot" -> Prototype(InstallSnapShotResponse, InstallSnapShotResponseFields)
    [] method = "RequestVote" -> Prototype(RequestVoteReply, RequestVoteReplyFields)

KvServerRpcResponse(method) ==
  CASE method = "PutAppend" -> Prototype(PutAppendReply, PutAppendReplyFields)
    [] method = "Get" -> Prototype(GetReply, GetReplyFields)

GetResponsePrototype(service, method) ==
  IF service = "raftRpc" THEN raftRpcResponse(method) ELSE KvServerRpcResponse(method)

-----------------------------------------------------------------------------
(* What the classes hold                                                   *)

\* (The empty string is named because the provers do not know a literal to be in STRING.)
Bytes == STRING \cup {""}

\* The setters of the classes are typed, and there is nothing in a message but its fields.
IsScalar(type, v) ==
  CASE type = "bool" -> v \in BOOLEAN
    [] type \in {"int32", "uint32"} -> v \in Int
    [] type = "bytes" -> v \in Bytes

OnlyFields(types, m) == m = [name \in DOMAIN types |-> m[name]]

IsEntry(v) ==
  OnlyFields(LogEntry, v) /\ \A name \in DOMAIN LogEntry : IsScalar(LogEntry[name], v[name])

IsSequence(v) == Len(v) \in Nat /\ v = [k \in 1 .. Len(v) |-> v[k]]

IsMessage(proto, m) ==
  /\ OnlyFields(proto.types, m)
  /\ \A name \in DOMAIN proto.types :
       IF proto.types[name] = "LogEntry"
       THEN IsSequence(m[name]) /\ \A k \in DOMAIN m[name] : IsEntry(m[name][k])
       ELSE IsScalar(proto.types[name], m[name])

DefaultMessage(proto) == Parse(proto, <<>>)

====
