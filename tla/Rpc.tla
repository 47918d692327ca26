---- MODULE Rpc ----
(***************************************************************************)
(* src/src/rpc: a MprpcChannel, which the threads of a process share, and  *)
(* the RpcProvider of one peer.  A request is a header length, a header    *)
(* and the arguments; a reply is a bare message.  Both go over TCP         *)
(* connections, which deliver in pieces of any size; the unit here is one  *)
(* field, and a piece may end inside of one.  A step of a thread is one    *)
(* system call; the provider's event loop handles one piece at a time,     *)
(* with the service method and the reply.                                  *)
(* Bytes from the middle of a message are taken not to spell the name of a *)
(* service, nor a reply.                                                   *)
(***************************************************************************)
EXTENDS WireFormat, FiniteSets, FiniteSetsExt

CONSTANTS
  Thread,
  Requests,        \* the calls: service, method, request
  Response(_, _),  \* what the method of a service may respond
  MaxCalls,        \* bound: calls
  MaxConnections   \* bound: connections

ASSUME RpcAssumption == MaxCalls \in Nat /\ MaxConnections \in Nat

\* The generated stubs and services take and give messages of their own classes only.
ASSUME MessagesAssumption ==
  /\ \A r \in Requests :
       /\ r.service \in DOMAIN Services /\ r.method \in Services[r.service]
       /\ IsMessage(GetRequestPrototype(r.service, r.method), r.request)
  /\ \A service \in DOMAIN Services : \A method \in Services[service] :
       \A response \in Response(service, method) :
         IsMessage(GetResponsePrototype(service, method), response)

VARIABLES
  m_clientFd,   \* the channel's connection, or -1
  connections,  \* connections[c]: its two streams and its ends
  threads,      \* threads[t]: where t is in CallMethod, with which call and descriptor
  callLog,      \* every call, with what it returned
  served,       \* history: the service methods that were called
  shared,       \* history: two calls were in the channel at once
  cut           \* history: a piece was not one message

vars == <<m_clientFd, connections, threads, callLog, served, shared, cut>>

NewConnection == [toServer |-> <<>>, toClient |-> <<>>, peer |-> "open", client |-> "open"]

IdleThread == [at |-> "idle", call |-> 0, fd |-> -1]

\* The constructor: with connectNow the channel connects, unless three tries fail.
Init ==
  /\ \/ m_clientFd = -1 /\ connections = <<>>
     \/ MaxConnections > 0 /\ m_clientFd = 1 /\ connections = <<NewConnection>>
  /\ threads = [t \in Thread |-> IdleThread]
  /\ callLog = <<>> /\ served = <<>>
  /\ shared = FALSE /\ cut = FALSE

-----------------------------------------------------------------------------
(* Streams                                                                 *)

\* of: the call an item belongs to, which nobody can see.
Item(call, part, field) == [of |-> call, part |-> part, field |-> field]
Items(call, part, fields) == [n \in DOMAIN fields |-> Item(call, part, fields[n])]

\* What is in a piece that ends inside a field, and what is then still to come.
IsBroken(item) == item.part = "broken"
Broken(item) == [item EXCEPT !.part = "broken"]
Whole(items) == \A n \in DOMAIN items : ~IsBroken(items[n])

Piece(stream, n, inside) ==
  SubSeq(stream, 1, n) \o IF inside THEN <<Broken(stream[n + 1])>> ELSE <<>>
RestOf(stream, n, inside) ==
  (IF inside THEN <<Broken(stream[n + 1])>> ELSE <<>>)
    \o SubSeq(stream, IF inside THEN n + 2 ELSE n + 1, Len(stream))

AfterRecv_Mutant(stream, e) == stream
AfterRecv(stream, e) == RestOf(stream, e[1], e[2])

\* The ends of the pieces that may arrive.
Ends(stream) ==
  {e \in (0 .. Len(stream)) \X BOOLEAN : (e[2] => e[1] < Len(stream)) /\ (e[1] > 0 \/ e[2])}

FieldsOf(items) == [n \in DOMAIN items |-> items[n].field]
CallsOf(items) == {items[n].of : n \in DOMAIN items}

-----------------------------------------------------------------------------
(* MprpcChannel                                                            *)

CallOf(t) == callLog[threads[t].call].call

HeaderPrototype == Prototype(RpcHeader, RpcHeaderFields)

Arguments == [r \in Requests |-> Serialize(GetRequestPrototype(r.service, r.method), r.request)]

Header == [r \in Requests |->
  Serialize(HeaderPrototype,
    [service_name |-> r.service, method_name |-> r.method, args_size |-> Len(Arguments[r])])]

\* send_rpc_str
RequestItems(id) ==
  LET r == callLog[id].call IN
  <<Item(id, "size", Len(Header[r]))>> \o Items(id, "header", Header[r]) \o Items(id, "args", Arguments[r])

MoveTo(t, at) == threads' = [threads EXCEPT ![t].at = at]

\* CallMethod returns: with SetFailed, or with the response filled in.
Returns(t, status, reply, from) ==
  /\ callLog' = [callLog EXCEPT ![threads[t].call] =
       [@ EXCEPT !.status = status, !.reply = reply, !.from = from]]
  /\ threads' = [threads EXCEPT ![t] = IdleThread]

SetFailed(t) == Returns(t, "failed", <<>>, {})

BeginCall(t) == \E r \in Requests :
  /\ threads[t].at = "idle" /\ Len(callLog) < MaxCalls
  /\ callLog' = Append(callLog, [call |-> r, status |-> "on", reply |-> <<>>, from |-> {}])
  /\ threads' = [threads EXCEPT ![t] =
       [at |-> IF m_clientFd = -1 THEN "connect" ELSE "send", call |-> Len(callLog) + 1, fd |-> -1]]
  /\ shared' = (shared \/ \E u \in Thread : threads[u].at # "idle")
  /\ UNCHANGED <<m_clientFd, connections, served, cut>>

\* newConnect
Connect(t) ==
  /\ threads[t].at = "connect" /\ Len(connections) < MaxConnections
  /\ connections' = Append(connections, NewConnection)
  /\ m_clientFd' = Len(connections) + 1
  /\ MoveTo(t, "send")
  /\ UNCHANGED <<callLog, served, shared, cut>>

ConnectFails(t) ==
  /\ threads[t].at = "connect"
  /\ m_clientFd' = -1
  /\ SetFailed(t)
  /\ UNCHANGED <<connections, served, shared, cut>>

IsUsable(fd) == fd # -1 /\ connections[fd].peer # "reset"

\* The first thing sent to a peer that has closed is lost, and resets the connection.
AfterSend(connection, request) ==
  IF connection.peer = "open" THEN [connection EXCEPT !.toServer = @ \o request]
  ELSE [connection EXCEPT !.peer = "reset"]

Send(t) ==
  /\ threads[t].at = "send" /\ IsUsable(m_clientFd)
  /\ connections' = [connections EXCEPT ![m_clientFd] = AfterSend(@, RequestItems(threads[t].call))]
  /\ MoveTo(t, "recv")
  /\ UNCHANGED <<m_clientFd, callLog, served, shared, cut>>

SendFails(t) ==
  /\ threads[t].at = "send" /\ ~IsUsable(m_clientFd)
  /\ MoveTo(t, "reconnect")
  /\ UNCHANGED <<m_clientFd, connections, callLog, served, shared, cut>>

Close_Mutant == m_clientFd' = -1 /\ UNCHANGED connections

\* close(m_clientFd), whichever connection that is by now.
Close ==
  /\ connections' = IF m_clientFd = -1 THEN connections
                    ELSE [connections EXCEPT ![m_clientFd].client = "closed"]
  /\ m_clientFd' = -1

CloseToReconnect(t) ==
  /\ threads[t].at = "reconnect"
  /\ Close
  /\ MoveTo(t, "connect")
  /\ UNCHANGED <<callLog, served, shared, cut>>

EnterRecv_Mutant(t) ==
  /\ threads[t].at = "recv"
  /\ threads' = [threads EXCEPT ![t].at = "receiving", ![t].fd = m_clientFd]
  /\ UNCHANGED <<m_clientFd, connections, callLog, served, shared, cut>>

EnterRecv(t) ==
  /\ threads[t].at = "recv"
  /\ threads' = [threads EXCEPT ![t].at = IF m_clientFd = -1 THEN "giveUp" ELSE "receiving",
                                ![t].fd = m_clientFd]
  /\ UNCHANGED <<m_clientFd, connections, callLog, served, shared, cut>>

Incoming(t) == connections[threads[t].fd].toClient

ReplyPrototype(t) == GetResponsePrototype(CallOf(t).service, CallOf(t).method)

\* A message that a piece is the whole of.
IsOneMessage(stream, e) ==
  e[1] = Len(stream) /\ Whole(stream) /\ Cardinality(CallsOf(stream)) = 1

\* One recv, and what it gives is parsed; what does not parse leaves the connection as it is.
Receive(t) == threads[t].at = "receiving" /\ \E e \in Ends(Incoming(t)) :
  LET piece == Piece(Incoming(t), e[1], e[2]) IN
  /\ connections' = [connections EXCEPT ![threads[t].fd].toClient = AfterRecv(@, e)]
  /\ IF Whole(piece)
     THEN Returns(t, "ok", Parse(ReplyPrototype(t), FieldsOf(piece)), CallsOf(piece))
     ELSE SetFailed(t)
  /\ cut' = (cut \/ ~IsOneMessage(Incoming(t), e))
  /\ UNCHANGED <<m_clientFd, served, shared>>

\* The peer has closed: recv returns 0, and nothing is a message, all of defaults.
ReceiveEnd(t) ==
  /\ threads[t].at = "receiving"
  /\ connections[threads[t].fd].peer = "closed" /\ Incoming(t) = <<>>
  /\ Returns(t, "ok", Parse(ReplyPrototype(t), <<>>), {})
  /\ UNCHANGED <<m_clientFd, connections, served, shared, cut>>

ReceiveFails_Mutant(t) ==
  /\ threads[t].at = "receiving" /\ connections[threads[t].fd].peer = "reset"
  /\ MoveTo(t, "reconnect")
  /\ UNCHANGED <<m_clientFd, connections, callLog, served, shared, cut>>

ReceiveFails(t) ==
  /\ threads[t].at = "receiving" /\ connections[threads[t].fd].peer = "reset"
  /\ MoveTo(t, "giveUp")
  /\ UNCHANGED <<m_clientFd, connections, callLog, served, shared, cut>>

CloseToFail(t) ==
  /\ threads[t].at = "giveUp"
  /\ Close
  /\ SetFailed(t)
  /\ UNCHANGED <<served, shared, cut>>

ThreadStep(t) ==
  \/ Connect(t) \/ ConnectFails(t) \/ Send(t) \/ SendFails(t) \/ CloseToReconnect(t)
  \/ EnterRecv(t) \/ Receive(t) \/ ReceiveEnd(t)
  \/ ReceiveFails(t) \/ CloseToFail(t)

-----------------------------------------------------------------------------
(* RpcProvider::OnMessage, with retrieveAllAsString: what follows the      *)
(* first request in a piece is lost with it.                               *)

HeaderOf(piece) == SubSeq(piece, 2, Min({Len(piece), 1 + piece[1].field}))

ArgsOf(piece, header) ==
  LET first == 2 + Len(HeaderOf(piece))
  IN SubSeq(piece, first, Min({Len(piece), first + header.args_size - 1}))

ArgsComplete_Mutant(args, header) == Whole(args)
ArgsComplete(args, header) == Len(args) = header.args_size /\ Whole(args)

HasMethod(header) ==
  /\ header.service_name \in DOMAIN m_serviceMap
  /\ header.method_name \in m_serviceMap[header.service_name]

\* SendRpcResponse, to a connection that may be gone.
Respond(c, rest, response) ==
  connections' = [connections EXCEPT ![c].toServer = rest, ![c].toClient = @ \o response]

CallService(c, id, rest, header, args) ==
  LET service == header.service_name  method == header.method_name IN
  \E response \in Response(service, method) :
    /\ served' = Append(served, [of |-> id, service |-> service, method |-> method,
         request |-> Parse(GetRequestPrototype(service, method), FieldsOf(args)),
         response |-> response])
    /\ Respond(c, rest,
         Items(id, "reply", Serialize(GetResponsePrototype(service, method), response)))

\* Returns without a reply: no header, an unknown method, or arguments that are not all there.
Ignore(c, rest) == Respond(c, rest, <<>>) /\ UNCHANGED served

\* Of a header that was cut between two fields, what has arrived is parsed.
OnMessage(c, piece, rest) ==
  LET header == Parse(HeaderPrototype, FieldsOf(HeaderOf(piece)))
      args == ArgsOf(piece, header)
  IN IF piece[1].part = "size" /\ Whole(HeaderOf(piece)) /\ HasMethod(header) /\ ArgsComplete(args, header)
     THEN CallService(c, piece[1].of, rest, header, args)
     ELSE Ignore(c, rest)

ProviderStep(c) == \E e \in Ends(connections[c].toServer) :
  LET stream == connections[c].toServer IN
  /\ connections[c].peer = "open"
  /\ OnMessage(c, Piece(stream, e[1], e[2]), RestOf(stream, e[1], e[2]))
  /\ cut' = (cut \/ ~IsOneMessage(stream, e))
  /\ UNCHANGED <<m_clientFd, threads, callLog, shared>>

\* The peer's process ends, or the connection breaks and takes along what has not arrived; a
\* new process may listen when a thread connects again.
PeerCloses(c) ==
  /\ connections[c].peer = "open"
  /\ \/ connections' = [connections EXCEPT ![c].peer = "closed", ![c].toServer = <<>>]
     \/ connections' = [connections EXCEPT
          ![c] = [@ EXCEPT !.peer = "reset", !.toServer = <<>>, !.toClient = <<>>]]
  /\ UNCHANGED <<m_clientFd, threads, callLog, served, shared, cut>>

Next ==
  \/ \E t \in Thread : BeginCall(t) \/ ThreadStep(t)
  \/ \E c \in DOMAIN connections : ProviderStep(c) \/ PeerCloses(c)

Spec == Init /\ [][Next]_vars

-----------------------------------------------------------------------------
(* Properties                                                              *)

\* Every field holds a value of its type, and so does whatever was parsed, of whatever bytes.
TypeOK ==
  /\ m_clientFd \in {-1} \cup DOMAIN connections
  /\ \A c \in DOMAIN connections :
       /\ connections[c].peer \in {"open", "closed", "reset"}
       /\ connections[c].client \in {"open", "closed"}
  /\ \A t \in Thread :
       /\ threads[t].at \in {"idle", "connect", "send", "reconnect", "recv", "receiving", "giveUp"}
       /\ threads[t].call \in 0 .. Len(callLog)
       /\ threads[t].at = "receiving" => threads[t].fd \in DOMAIN connections
  /\ \A n \in DOMAIN callLog : callLog[n].status = "ok" =>
       IsMessage(GetResponsePrototype(callLog[n].call.service, callLog[n].call.method), callLog[n].reply)
  /\ \A n \in DOMAIN served :
       IsMessage(GetRequestPrototype(served[n].service, served[n].method), served[n].request)

\* A request that is sent again over a new connection was never handled before: no call is
\* served twice, although the channel sends until it succeeds.
ServedOnce == \A n, m \in DOMAIN served : served[n].of = served[m].of => n = m

\* What a method is called with is what its stub was called with, in every field, or all
\* defaults, of a header that was cut just before args_size; never a part of a request, nor
\* parts of two.
ServedAsSentOrEmpty ==
  \A n \in DOMAIN served :
    LET call == callLog[served[n].of].call IN
    /\ served[n].service = call.service /\ served[n].method = call.method
    /\ \/ served[n].request = call.request
       \/ cut /\ served[n].request = DefaultMessage(GetRequestPrototype(call.service, call.method))

\* A call that returns without failure has what the service method responded to its own request,
\* in every field, or the empty reply of a peer that closed; unless two threads were in the
\* channel at once, or a message arrived in pieces.
OwnReplyUnlessShared ==
  \A n \in DOMAIN callLog :
    callLog[n].status = "ok" /\ ~shared /\ ~cut =>
      \/ callLog[n].from = {} /\ \E c \in DOMAIN connections : connections[c].peer # "open"
      \/ /\ callLog[n].from = {n}
         /\ \E m \in DOMAIN served : served[m].of = n /\ callLog[n].reply = served[m].response

\* A connection that the channel no longer uses has been closed; unless two threads connected
\* at once, when one of them is forgotten.
NoConnectionForgotten ==
  ~shared => \A c \in DOMAIN connections : connections[c].client = "open" => c = m_clientFd

\* recv has no timeout: a call that is alone, and whose messages arrive whole, waits only for
\* what the provider still has to handle, or for what has arrived; or for ever, for a response
\* with nothing but defaults, of which not a byte is sent.
LoneCallIsAnswered ==
  \A t \in Thread : threads[t].at = "receiving" /\ ~shared /\ ~cut =>
    LET connection == connections[threads[t].fd] IN
    connection.peer = "open" =>
      \/ \E n \in DOMAIN (connection.toServer \o connection.toClient) :
           (connection.toServer \o connection.toClient)[n].of = threads[t].call
      \/ \E n \in DOMAIN served :
           /\ served[n].of = threads[t].call
           /\ served[n].response = DefaultMessage(ReplyPrototype(t))

====
