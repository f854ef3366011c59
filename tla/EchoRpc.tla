------------------------------ MODULE EchoRpc ------------------------------
(***************************************************************************)
(* A remote call from end to end: a stub of EchoService, ClientChannel's   *)
(* CallMethod, the bytes of the request, recv_fn of the server with the    *)
(* service it finds, the bytes of the response, recv_fn of the channel and *)
(* the closure of the call.  The coroutines and the sockets underneath are *)
(* those of ClientChannel, ServerConnection and FramePipe, here in order:  *)
(* a stream of fields, any number of which arrive together.  Of read_buf_  *)
(* the module keeps its fields and where they stand in their block: a      *)
(* length that is read alone leaves no block.  The module follows a        *)
(* connection until the client has seen the end of it.                     *)
(***************************************************************************)
EXTENDS ProtoWire

CONSTANTS
  MaxCalls,    \* bound: calls the application makes
  Messages,    \* texts it sends
  FirstIds,    \* values of request_id_ of a channel that has been in use
  Builds,      \* the clients there are: their magic, version and protos
  BlockSize    \* bytes of a block of read_buf_

ASSUME EchoAssumption ==
  /\ MaxCalls \in Nat /\ FirstIds \subseteq Nat /\ BlockSize \in Nat \ {0}
  /\ Messages \subseteq Texts
  /\ {"EchoService", "Echo", "Echo1", "Echo2", "[Echo] ", "[Echo1] "} \subseteq DOMAIN WordSize
  /\ \A b \in Builds : b.magic \in Nat /\ b.version \in Nat /\ b.newer \in BOOLEAN

VARIABLES
  build,              \* the client's build
  service_registry_,  \* names registered with the server before start()
  made,               \* the application's calls, in order
  tasks,              \* send_request closures in the executor's queue
  request_id_,
  session_registry_,  \* request id |-> number of the call
  up, down,           \* written and not yet read by the other side
  server, client,     \* recv_fn of each side, see Reader
  consumed_bytes_,    \* of each side's read_buf_, modulo BlockSize
  null,               \* history: a recv_fn has used read_buf_ without a block
  answered,           \* history: calls completed, with the text of the response
  lost                \* the client has seen the end of the stream

channelVars == <<made, tasks, request_id_, session_registry_>>
vars == <<build, service_registry_, channelVars, up, down, server, client,
          consumed_bytes_, null, answered, lost>>

MAGIC_NUM == 821611163   \* 0x30F8CA9B
VERSION   == 1
REQUEST   == 1
RESPONSE  == 2

(* The names of echo.proto: a service and its methods by index. *)
ServiceName == <<"EchoService">>
EchoMethods == <<"Echo", "Echo1">>

(* A client built from later protos knows one more method and sends one     *)
(* more field in its headers.                                               *)
StubMethods == Range(EchoMethods) \cup (IF build.newer THEN {"Echo2"} ELSE {})
NewFields   == IF build.newer THEN <<Field(VarintTag(7), 1)>> ELSE <<>>

(* One recv_fn: what it waits for, the length it has read, the header it    *)
(* has parsed, and the fields that async_read has brought.                  *)
Reader == [at |-> "header_len", len |-> 4, header |-> NewHeader, buf |-> <<>>]

Init ==
  /\ build \in Builds
  /\ service_registry_ \in {{}, {ServiceName}}
  /\ made = <<>> /\ tasks = <<>>
  /\ request_id_ \in FirstIds /\ session_registry_ = [i \in {} |-> 0]
  /\ up = <<>> /\ down = <<>>
  /\ server = Reader /\ client = Reader
  /\ consumed_bytes_ = [side \in {"server", "client"} |-> 0] /\ null = FALSE
  /\ answered = <<>> /\ lost = FALSE

-----------------------------------------------------------------------------
(* The client's side of a call *)

(* EchoService_Stub::Echo and Echo1, down to CallMethod's spawn. *)
Call ==
  /\ Len(made) < MaxCalls
  /\ \E m \in StubMethods, t \in Messages : made' = Append(made, [method |-> m, message |-> t])
  /\ tasks' = Append(tasks, Len(made) + 1)
  /\ UNCHANGED <<build, service_registry_, request_id_, session_registry_, up, down,
                 server, client, consumed_bytes_, null, answered, lost>>

RequestHeader(c) ==
  [NewHeader EXCEPT !.magic = build.magic, !.version = build.version,
                    !.message_type = REQUEST, !.request_id = request_id_,
                    !.service_name = <<ServiceName>>, !.method_name = << <<c.method>> >>,
                    !.unknown = NewFields]

(* Mutant of NextRequestId: every request has the same id. *)
NextRequestIdStuck == request_id_

NextRequestId == request_id_ + 1

(* Mutant of SessionKey: the counter, read after it has moved on. *)
SessionKeyLate(h) == NextRequestId

(* session_registry_[header.request_id()]. *)
SessionKey(h) == h.request_id

RequestFrame(h, m) ==
  <<Length(HeaderByteSize(h))>> \o SerializeHeader(h)
  \o <<Length(RequestByteSize(m))>> \o SerializeRequest(m)

(* send_request, the task of CallMethod. *)
SendRequest ==
  /\ tasks # <<>>
  /\ LET c == made[Head(tasks)]
         h == RequestHeader(c)
     IN  /\ up' = up \o RequestFrame(h, [NewEcho EXCEPT !.message = c.message])
         /\ session_registry_' =
              [i \in DOMAIN session_registry_ \cup {SessionKey(h)} |->
                 IF i = SessionKey(h) THEN Head(tasks) ELSE session_registry_[i]]
  /\ request_id_' = NextRequestId
  /\ tasks' = Tail(tasks)
  /\ UNCHANGED <<build, service_registry_, made, down, server, client,
                 consumed_bytes_, null, answered, lost>>

-----------------------------------------------------------------------------
(* What both recv_fn share: bytes arrive, lengths are read, then as many    *)
(* bytes parsed.                                                            *)

Enough(r) == Bytes(r.buf) >= r.len

(* async_read, when recv_fn waits for more than it has; it brings what has  *)
(* arrived of what is on its way.                                           *)
ServerRead ==
  /\ server.at # "ended" /\ ~Enough(server)
  /\ \E n \in 1 .. Len(up) :
       /\ server' = [server EXCEPT !.buf = @ \o SubSeq(up, 1, n)]
       /\ up' = SubSeq(up, n + 1, Len(up))
  /\ UNCHANGED <<build, service_registry_, channelVars, down, client,
                 consumed_bytes_, null, answered, lost>>

ClientRead ==
  /\ ~Enough(client)
  /\ \E n \in 1 .. Len(down) :
       /\ client' = [client EXCEPT !.buf = @ \o SubSeq(down, 1, n)]
       /\ down' = SubSeq(down, n + 1, Len(down))
  /\ UNCHANGED <<build, service_registry_, channelVars, up, server,
                 consumed_bytes_, null, answered, lost>>

Consume(side, n) ==
  consumed_bytes_' = [consumed_bytes_ EXCEPT ![side] = (@ + n) % BlockSize]

(* input_stream.read of a length, and on to the message it announces. *)
AtLength(r, at) == r.at = at /\ Enough(r) /\ Head(r.buf).kind = "length"

(* ChainedBuffer::read has taken all there is and removes the block, the    *)
(* last one unless the length ends it.                                      *)
NullAfter(r, side) == Tail(r.buf) = <<>> /\ (consumed_bytes_[side] + 4) % BlockSize # 0

AfterLength(r, at) ==
  [r EXCEPT !.at = at, !.len = Head(r.buf).len, !.buf = Tail(@)]

(* The header at hand; as a function, so that TLC finds its fields once. *)
HeaderIn(r) ==
  LET t == Taken(r.buf, r.len) IN [s \in {t} |-> ParseHeader(s)][t]

AfterHeader(r) ==
  [r EXCEPT !.at = "body_len", !.len = 4, !.header = HeaderIn(r), !.buf = Left(r.buf, r.len)]

AfterBody(r) == [Reader EXCEPT !.buf = Left(r.buf, r.len)]

-----------------------------------------------------------------------------
(* The server *)

ServerLength ==
  /\ AtLength(server, "header_len") /\ ~NullAfter(server, "server")
  /\ server' = AfterLength(server, "header")
  /\ Consume("server", 4)
  /\ UNCHANGED <<build, service_registry_, channelVars, up, down, client, null, answered, lost>>

Acceptable(h) == h.magic = MAGIC_NUM /\ h.version = VERSION

ServerHeader ==
  /\ server.at = "header" /\ Enough(server)
  /\ ParsesWithin(server.buf, server.len) /\ Acceptable(HeaderIn(server))
  /\ server' = AfterHeader(server)
  /\ Consume("server", server.len)
  /\ UNCHANGED <<build, service_registry_, channelVars, up, down, client, null, answered, lost>>

(* FindMethodByName: 0 stands for nullptr, i + 1 for the method of index i. *)
FindMethodByName(name) == SelectInSeq(EchoMethods, LAMBDA m : <<m>> = name)

Registered(h) ==
  /\ NameOf(h.service_name) \in service_registry_
  /\ FindMethodByName(NameOf(h.method_name)) # 0

(* The length of the body; service and method are looked up before it is    *)
(* there.                                                                   *)
ServerTarget ==
  /\ AtLength(server, "body_len") /\ Registered(server.header)
  /\ ~NullAfter(server, "server")
  /\ server' = AfterLength(server, "body")
  /\ Consume("server", 4)
  /\ UNCHANGED <<build, service_registry_, channelVars, up, down, client, null, answered, lost>>

(* write_view in async_read, or input_next for an empty body, dereferences  *)
(* null: the server's process ends, with what it has not yet sent.          *)
ServerNull ==
  /\ \/ AtLength(server, "header_len")
     \/ AtLength(server, "body_len") /\ Registered(server.header)
  /\ NullAfter(server, "server")
  /\ null' = TRUE
  /\ server' = [server EXCEPT !.at = "ended"]
  /\ \E n \in 0 .. Len(down) : down' = SubSeq(down, 1, n)
  /\ UNCHANGED <<build, service_registry_, channelVars, up, client, consumed_bytes_,
                 answered, lost>>

(* recv_fn breaks out of its loop and shuts the connection down.  Of the    *)
(* responses before, what async_write has not yet given to the kernel is    *)
(* never sent.                                                              *)
ServerRefuse ==
  /\ \/ server.at = "header" /\ Enough(server)
        /\ ~(ParsesWithin(server.buf, server.len) /\ Acceptable(HeaderIn(server)))
     \/ AtLength(server, "body_len") /\ ~Registered(server.header)
  /\ server' = [server EXCEPT !.at = "ended"]
  /\ \E n \in 0 .. Len(down) : down' = SubSeq(down, 1, n)
  /\ UNCHANGED <<build, service_registry_, channelVars, up, client, consumed_bytes_, null,
                 answered, lost>>

(* EchoServiceImpl, on a response that New() has just returned. *)
Echo(request)  == [NewEcho EXCEPT !.message = <<"[Echo] ">> \o request.message]
Echo1(request) == [NewEcho EXCEPT !.message = <<"[Echo1] ">> \o request.message]

(* Mutant of CallMethod: the methods in another order. *)
CallMethodSwapped(i, request) ==
  CASE i = 1 -> Echo1(request)
    [] i = 2 -> Echo(request)

(* EchoService::CallMethod, by index. *)
CallMethod(i, request) ==
  CASE i = 1 -> Echo(request)
    [] i = 2 -> Echo1(request)

(* Mutant of ResponseHeader: the request id is not copied. *)
ResponseHeaderNoId(h) ==
  [NewHeader EXCEPT !.magic = MAGIC_NUM, !.version = VERSION, !.message_type = RESPONSE]

ResponseHeader(h) ==
  [NewHeader EXCEPT !.magic = MAGIC_NUM, !.version = VERSION,
                    !.message_type = RESPONSE, !.request_id = h.request_id]

ResponseFrame(h, m) ==
  <<Length(HeaderByteSize(h))>> \o SerializeHeader(h)
  \o <<Length(ResponseByteSize(m))>> \o SerializeResponse(m)

(* The request is parsed, the service called and the response written. *)
ServerReply ==
  /\ server.at = "body" /\ Enough(server) /\ ParsesWithin(server.buf, server.len)
  /\ LET request == ParseRequest(Taken(server.buf, server.len))
         method  == FindMethodByName(NameOf(server.header.method_name))
     IN  \E response \in {CallMethod(method, request)} :
           down' = down \o ResponseFrame(ResponseHeader(server.header), response)
  /\ server' = AfterBody(server)
  /\ Consume("server", server.len)
  /\ UNCHANGED <<build, service_registry_, channelVars, up, client, null, answered, lost>>

-----------------------------------------------------------------------------
(* The client's recv_fn.  It does not look at magic and version. *)

(* Without a block it goes on only if async_read has seen the end of the    *)
(* stream: the loops look at closed_ before they read.                      *)
ClientLength ==
  /\ \/ AtLength(client, "header_len") /\ client' = AfterLength(client, "header")
     \/ AtLength(client, "body_len") /\ client' = AfterLength(client, "body")
  /\ NullAfter(client, "client") => server.at = "ended" /\ down = <<>>
  /\ Consume("client", 4)
  /\ UNCHANGED <<build, service_registry_, channelVars, up, down, server, null, answered, lost>>

(* As ServerNull: the client's process ends. *)
ClientNull ==
  /\ AtLength(client, "header_len") \/ AtLength(client, "body_len")
  /\ NullAfter(client, "client")
  /\ null' = TRUE /\ lost' = TRUE
  /\ UNCHANGED <<build, service_registry_, channelVars, up, down, server, client,
                 consumed_bytes_, answered>>

ClientHeader ==
  /\ client.at = "header" /\ Enough(client) /\ ParsesWithin(client.buf, client.len)
  /\ client' = AfterHeader(client)
  /\ Consume("client", client.len)
  /\ UNCHANGED <<build, service_registry_, channelVars, up, down, server, null, answered, lost>>

(* The session is found and erased, the response parsed, done->Run().       *)
(* Responses without a session or that do not parse are in ClientChannel.   *)
ClientReply ==
  LET id == client.header.request_id IN
  /\ client.at = "body" /\ Enough(client)
  /\ id \in DOMAIN session_registry_ /\ ParsesWithin(client.buf, client.len)
  /\ answered' = Append(answered,
       [call |-> session_registry_[id],
        text |-> ParseResponse(Taken(client.buf, client.len)).message])
  /\ session_registry_' =
       [i \in DOMAIN session_registry_ \ {id} |-> session_registry_[i]]
  /\ client' = AfterBody(client)
  /\ Consume("client", client.len)
  /\ UNCHANGED <<build, service_registry_, made, tasks, request_id_, up, down, server, null, lost>>

(* The end of the stream, in the middle of a frame or not: recv_fn breaks   *)
(* out of its loop and closes the connection.                               *)
ClientEnd ==
  /\ server.at = "ended" /\ down = <<>> /\ ~Enough(client)
  /\ lost' = TRUE
  /\ UNCHANGED <<build, service_registry_, channelVars, up, down, server, client,
                 consumed_bytes_, null, answered>>

-----------------------------------------------------------------------------
ServerStep ==
  \/ ServerRead \/ ServerLength \/ ServerHeader \/ ServerTarget \/ ServerReply
  \/ ServerRefuse \/ ServerNull

ClientStep ==
  \/ SendRequest \/ ClientRead \/ ClientLength \/ ClientHeader \/ ClientReply
  \/ ClientEnd \/ ClientNull

Next == ~lost /\ (Call \/ ServerStep \/ ClientStep)

(* Both executors go on; the application need not call. *)
Spec == Init /\ [][Next]_vars /\ WF_vars(~lost /\ ServerStep) /\ WF_vars(~lost /\ ClientStep)

-----------------------------------------------------------------------------
(* Properties *)

Prefix(m) == IF m = "Echo" THEN "[Echo] " ELSE "[Echo1] "

AllCalls == [method : Range(EchoMethods) \cup {"Echo2"}, message : Messages]

Promise == INSTANCE RpcCalls WITH
  Calls  <- AllCalls,
  broken <- null,
  Reply  <- LAMBDA c : <<Prefix(c.method)>> \o c.message,
  served <- {c \in AllCalls :
               /\ build.magic = MAGIC_NUM /\ build.version = VERSION
               /\ ServiceName \in service_registry_
               /\ c.method \in Range(EchoMethods)}

(* The application sees the steps of RpcCalls: each call is answered once,  *)
(* in order, with the reply of its method to its message, through two       *)
(* headers and two bodies whose lengths are computed apart from their       *)
(* bytes; a client with later protos is served as far as the server knows   *)
(* them; and the connection is lost only to a call that is not served, or   *)
(* when a recv_fn uses read_buf_ without a block (null).                    *)
CallsInOrder == Promise!Spec

(* No call waits for ever: every call is answered, or the client sees the   *)
(* end of the connection or ends itself.  CallsInOrder says when that may   *)
(* be: some call is not served, or a length that arrives without what       *)
(* follows it, or announces an empty body and has nothing behind it, and    *)
(* does not end its block, has ended the process of the side that read it.  *)
CallsAnswered == \A n \in 1 .. MaxCalls : (Len(made) >= n) ~> (Len(answered) >= n \/ lost)

(* The fields that follow position i of s, up to the next length. *)
Run(s, i) ==
  LET stop == SelectInSubSeq(s, i + 1, Len(s), LAMBDA f : f.kind = "length")
  IN  SubSeq(s, i + 1, IF stop = 0 THEN Len(s) ELSE stop - 1)

Delimited(r, rest) ==
  LET s == r.buf \o rest IN
  /\ Bytes(Run(s, 0)) = IF r.at \in {"header", "body"} THEN r.len ELSE 0
  /\ \A i \in DOMAIN s : s[i].kind = "length" => Bytes(Run(s, i)) = s[i].len

(* Every length on its way announces exactly the bytes that follow it, and  *)
(* each recv_fn stands where a length or the message it expects begins, so  *)
(* that ByteSizeLong and the serialiser never disagree, whatever the id.    *)
FramesDelimited ==
  server.at # "ended" => Delimited(server, up) /\ Delimited(client, down)

(* A message has two lengths, of its header and of its body.  Those of the  *)
(* message at hand that recv_fn has read, and those that are on their way.  *)
LengthsRead(r) ==
  CASE r.at = "header_len" -> 0
    [] r.at \in {"header", "body_len"} -> 1
    [] r.at = "body" -> 2

Lengths(s) == Cardinality({i \in DOMAIN s : s[i].kind = "length"})

InFlight(r, rest) == LengthsRead(r) + Lengths(r.buf \o rest)

(* Every session waits for one request or response that is on its way, and  *)
(* nothing is on its way without a session: ids are not reused and no       *)
(* session is left behind or erased early.                                  *)
SessionsMatchTraffic ==
  server.at # "ended" =>
    2 * Cardinality(DOMAIN session_registry_) = InFlight(server, up) + InFlight(client, down)

ReaderType(r) ==
  /\ r.at \in {"header_len", "header", "body_len", "body", "ended"}
  /\ r.len \in Nat

(* Sessions are filed under ids that have been given out, for calls that    *)
(* have been made; no two ids lead to the same call.                        *)
TypeOK ==
  /\ build \in Builds /\ lost \in BOOLEAN /\ null \in BOOLEAN
  /\ consumed_bytes_ \in [{"server", "client"} -> 0 .. BlockSize - 1]
  /\ \A i \in DOMAIN session_registry_ :
       /\ i < request_id_ /\ session_registry_[i] \in DOMAIN made
       /\ \A j \in DOMAIN session_registry_ : session_registry_[j] = session_registry_[i] => i = j
  /\ \A i \in DOMAIN tasks : tasks[i] \in DOMAIN made
  /\ ReaderType(server) /\ ReaderType(client)
=============================================================================
