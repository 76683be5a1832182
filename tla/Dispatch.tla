------------------------------ MODULE Dispatch ------------------------------
(***************************************************************************)
(* One call, from the header fields and DATA chunks of its stream to the   *)
(* response: request::header, server_base::add and process, service::call, *)
(* rpc::map, context.  Reading the message is module Message.              *)
(*                                                                         *)
(* A path is a sequence of the token "/" and of names.  A prefix test on a *)
(* string (content-type, "grpc-") is membership in the set of the strings  *)
(* used here that have the prefix.                                         *)
(*                                                                         *)
(* External: nghttp2 (which header blocks it lets through), protobuf       *)
(* (parsing and serialising may fail), the application's handlers.         *)
(***************************************************************************)
EXTENDS Message

CONSTANTS
  Tokens,       \* "/" and the names between slashes
  Paths,        \* values of :path that clients send: non-empty sequences of tokens
  Services,     \* service objects of the application: [name, methods] with
                \* a name and a set of method names, sequences of tokens
  Keys,         \* names of custom metadata
  Values,       \* values of custom metadata
  MaxHeaders,   \* bound: header fields of a call, trailers included
  NoValue       \* an empty string or view

ASSUME DispatchAssumption ==
  /\ "/" \in Tokens
  /\ \A p \in Paths : p \in Seq(Tokens) /\ p # <<>>
  /\ \A o \in Services : o.name \in Seq(Tokens) /\ o.methods \subseteq Seq(Tokens)
  /\ MaxHeaders \in Nat
  /\ NoValue \notin Values

VARIABLES
  added,     \* services in the order in which they were added (history)
  services,  \* _services, as the set of the objects that it refers to
  sent,      \* header fields that the client has sent, in order (history)
  service,   \* _service of the request
  method,    \* _method of the request
  meta,      \* _metadata of the request: NoValue where there is no entry
  called,    \* how the handler was called, or NoCall
  outcome,   \* what became of the call of the handler (history)
  resp       \* the response, or NoResponse

dispatchVars == <<added, services, sent, service, method, meta, called, outcome, resp>>

NoCall == [object |-> NoValue, method |-> <<>>, data |-> <<>>, meta |-> NoValue]

\* status::code_t; "error" stands for what else a handler may return.
Codes == {"ok", "invalid_argument", "not_found", "internal", "error"}

\* A response: its status, and whether it has a (length-prefixed) message.
Response(status, message) == [status |-> status, message |-> message]
NoResponse == Response("none", FALSE)
Terminated == Response("terminated", FALSE)   \* the process has ended instead

Header(name, value) == [name |-> name, value |-> value]

GrpcTypes == {"application/grpc", "application/grpc+proto"}
Reserved == {"grpc-timeout"}   \* stands for the names that begin with ':' or "grpc-"

\* Custom metadata has other names than the header fields that grpcxx looks at.
ASSUME KeysAssumption == Keys \cap ({":method", ":path", "content-type"} \cup Reserved) = {}

Headers ==
  {Header(":method", v) : v \in {"POST", "GET"}} \cup {Header(":path", p) : p \in Paths}
    \cup {Header("content-type", v) : v \in GrpcTypes \cup {"text/html"}}
    \cup {Header(n, "x") : n \in Reserved} \cup {Header(k, v) : k \in Keys, v \in Values}

DispatchInit ==
  /\ MessageInit
  /\ added = <<>> /\ services = {}
  /\ sent = <<>>
  /\ service = <<>> /\ method = <<>>
  /\ meta = [k \in Keys |-> NoValue]
  /\ called = NoCall /\ outcome = "none" /\ resp = NoResponse
-----------------------------------------------------------------------------
\* Mutant of Insert: the second service of a name replaces the first.
InsertOrAssign(o) == {x \in services : x.name # o.name} \cup {o}

\* Mutant of Insert: a multimap.
InsertMulti(o) == services \cup {o}

\* _services.insert: a second service of the same name is ignored.
Insert(o) == IF \E x \in services : x.name = o.name THEN services ELSE services \cup {o}

\* server_base::add, before the server runs.
Add(o) ==
  /\ sent = <<>> /\ \A i \in 1..Len(added) : added[i] # o
  /\ services' = Insert(o)
  /\ added' = Append(added, o)
  /\ UNCHANGED <<messageVars, sent, service, method, meta, called, outcome, resp>>
-----------------------------------------------------------------------------
(* request::header.                                                        *)

Sent(name) == \E i \in 1..Len(sent) : sent[i].name = name

\* nghttp2 passes pseudo header fields first, each once; others with the first
\* block or, after the data, as trailers.
MayCome(h) ==
  /\ ~done /\ Len(sent) < MaxHeaders
  /\ IF h.name \in {":method", ":path"}
     THEN ~Sent(h.name)
     ELSE Sent(":method") /\ Sent(":path") /\ pos \in {0, total}

HeaderMethod(h) ==
  /\ h.name = ":method"
  /\ invalid' = (h.value # "POST")
  /\ UNCHANGED <<service, method, meta>>

\* Positions of slashes after the first character.
Slashes(p) == {i \in 2..Len(p) : p[i] = "/"}
FirstSlash(p) == CHOOSE i \in Slashes(p) : \A j \in Slashes(p) : i <= j

\* Mutant of Divisible: the first character is not looked at.
DivisibleAnyFront(p) == Slashes(p) # {}

\* A path that can be cut into a service and a method.
Divisible(p) == p[1] = "/" /\ Slashes(p) # {}

\* Mutant of MethodPart: the method keeps the slash.
MethodPartSlash(p) == SubSeq(p, FirstSlash(p), Len(p))

MethodPart(p) == SubSeq(p, FirstSlash(p) + 1, Len(p))

\* "/service/method", cut at the first slash after the leading one.
HeaderPath(h) ==
  /\ h.name = ":path"
  /\ \/ /\ ~Divisible(h.value)
        /\ invalid' = TRUE
        /\ UNCHANGED <<service, method>>
     \/ /\ Divisible(h.value)
        /\ service' = SubSeq(h.value, 2, FirstSlash(h.value) - 1)
        /\ method' = MethodPart(h.value)
        /\ invalid' = (method' = <<>>)
  /\ UNCHANGED meta

HeaderContentType(h) ==
  /\ h.name = "content-type"
  /\ invalid' = (h.value \notin GrpcTypes)
  /\ UNCHANGED <<service, method, meta>>

\* Mutant of HeaderMetadata: the last value of a name is kept.
HeaderMetadataLast(h) ==
  /\ h.name \in Keys
  /\ meta' = [meta EXCEPT ![h.name] = h.value]
  /\ UNCHANGED <<invalid, service, method>>

\* _metadata.emplace: the first value of a name is kept.
HeaderMetadata(h) ==
  /\ h.name \in Keys
  /\ meta' = [meta EXCEPT ![h.name] = IF @ = NoValue THEN h.value ELSE @]
  /\ UNCHANGED <<invalid, service, method>>

\* A stream_header event.  An invalid request looks at no further header.
RecvHeader(h) ==
  /\ MayCome(h)
  /\ sent' = Append(sent, h)
  /\ \/ /\ ~invalid
        /\ HeaderMethod(h) \/ HeaderPath(h) \/ HeaderContentType(h) \/ HeaderMetadata(h)
     \/ /\ invalid \/ h.name \in Reserved
        /\ UNCHANGED <<invalid, service, method, meta>>
  /\ UNCHANGED <<signed, len, total, pos, first, psize, length, data, done,
                 added, services, called, outcome, resp>>

\* A stream_data event, after the first header block.
RecvData(n) ==
  /\ Sent(":method") /\ Sent(":path")
  /\ Read(n)
  /\ UNCHANGED dispatchVars

\* A stream_end event, with the first header block or later.
RecvEnd ==
  /\ Sent(":method") /\ Sent(":path")
  /\ End
  /\ UNCHANGED dispatchVars
-----------------------------------------------------------------------------
(* server_base::process.                                                   *)

\* request::operator bool.
Valid == ~invalid /\ service # <<>> /\ method # <<>>

Found == {o \in services : o.name = service}

\* !req, or a service that was not added: a status without a message.
Refuse(status) ==
  /\ \/ ~Valid /\ status = "invalid_argument"
     \/ Valid /\ Found = {} /\ status = "not_found"
  /\ resp' = Response(status, FALSE)
  /\ UNCHANGED <<called, outcome>>

\* service::call with a method it does not have: its result has an empty
\* message.
CallUnknown ==
  /\ Valid /\ \E o \in Found : method \notin o.methods
  /\ resp' = Response("not_found", TRUE)
  /\ UNCHANGED <<called, outcome>>

\* rpc::map does not get a request out of the data and throws: the handler is
\* not called.
CallUnparsed ==
  /\ Valid /\ \E o \in Found : method \in o.methods
  /\ outcome' = "unparsed"
  /\ resp' = Response("internal", FALSE)
  /\ UNCHANGED called

\* Mutant of Answer: the catch block returns the response as it is.
AnswerCaught(how) ==
  CASE how \in {"ok", "error"}             -> Response(how, TRUE)
    [] how \in {"unserialised", "throws"}  -> Response("ok", FALSE)
    [] how = "foreign"                     -> Terminated

\* The handler returns a status (with a response or without: an absent one is
\* an empty message), or rpc::map fails to serialise its response, or it throws
\* a std::exception, or something else, which leaves the noexcept function.
Answer(how) ==
  CASE how \in {"ok", "error"}             -> Response(how, TRUE)
    [] how \in {"unserialised", "throws"}  -> Response("internal", FALSE)
    [] how = "foreign"                     -> Terminated

\* context: a copy of the metadata; meta() of a name that is missing is empty.
Context == [k \in Keys |-> meta[k]]

Call(how) ==
  /\ Valid
  /\ \E o \in Found :
       /\ method \in o.methods
       /\ called' = [object |-> o, method |-> method, data |-> Data, meta |-> Context]
  /\ outcome' = how
  /\ resp' = Answer(how)

Process ==
  /\ done /\ resp = NoResponse
  /\ \/ \E status \in {"invalid_argument", "not_found"} : Refuse(status)
     \/ CallUnknown \/ CallUnparsed
     \/ \E how \in {"ok", "error", "unserialised", "throws", "foreign"} : Call(how)
  /\ UNCHANGED <<messageVars, added, services, sent, service, method, meta>>

DispatchNext ==
  \/ \E o \in Services : Add(o)
  \/ \E h \in Headers : RecvHeader(h)
  \/ \E n \in 1..total : RecvData(n)
  \/ RecvEnd \/ Process

DispatchSpec == DispatchInit /\ [][DispatchNext]_<<messageVars, dispatchVars>>
-----------------------------------------------------------------------------
(* Properties.                                                             *)

Names == Seq(Tokens)
CallSet == [object : Services, method : Names, data : Seq(1..total), meta : [Keys -> Values \cup {NoValue}]]

\* Types; _services has one entry for a name.
DispatchTypeOK ==
  /\ added \in Seq(Services) /\ services \subseteq Services
  /\ \A x, y \in services : x.name = y.name => x = y
  /\ sent \in Seq(Headers)
  /\ service \in Names /\ method \in Names
  /\ meta \in [Keys -> Values \cup {NoValue}]
  /\ called \in CallSet \cup {NoCall}
  /\ outcome \in {"none", "unparsed", "ok", "error", "unserialised", "throws", "foreign"}
  /\ resp.status \in Codes \cup {"none", "terminated"}

\* What a path means: a service without slashes and a method, both not empty.
Routes(p, s, m) ==
  /\ p = <<"/">> \o s \o <<"/">> \o m
  /\ s # <<>> /\ m # <<>> /\ \A i \in 1..Len(s) : s[i] # "/"

FirstAdded(o) == \E i \in 1..Len(added) : added[i] = o /\ \A j \in 1..(i - 1) : added[j].name # o.name

\* The header fields that the client has sent ask for method m of object o.
AsksFor(o, m) ==
  /\ FirstAdded(o) /\ m \in o.methods
  /\ \A i \in 1..Len(sent) :
       /\ sent[i].name = ":method" => sent[i].value = "POST"
       /\ sent[i].name = ":path" => Routes(sent[i].value, o.name, m)
       /\ sent[i].name = "content-type" => sent[i].value \in GrpcTypes

\* A handler is called only for what all header fields of the call, trailers
\* included, ask for, in whatever order they came; of two services of one name
\* the one that was added first is called.
RoutedAsSent == called # NoCall => AsksFor(called.object, called.method)

\* The metadata that a handler sees is what the client sent: of several values
\* of one name the first, never one of a reserved header field.
MetadataFirst ==
  called # NoCall => \A k \in Keys :
    \/ called.meta[k] = NoValue /\ ~Sent(k)
    \/ \E i \in 1..Len(sent) : sent[i] = Header(k, called.meta[k])
                               /\ \A j \in 1..(i - 1) : sent[j].name # k

\* A message with bytes beyond its length reaches no handler, unless it was
\* misread: surplus in a chunk of its own makes the request invalid, and no later
\* header field makes it valid again; surplus in the chunk that completes the
\* message makes data() empty.
SurplusRefused ==
  called # NoCall /\ total > PrefixSize + len /\ ~Misread => called.data = <<>>

\* A well-formed call to a method that was added is not answered before its
\* handler has been called with the message, unless protobuf refuses it.
ReachesHandler ==
  resp # NoResponse /\ PlainlySent /\ (\E o \in Services : \E m \in o.methods : AsksFor(o, m)) =>
    \/ outcome = "unparsed"
    \/ called # NoCall /\ called.data = Payload

\* The status tells what happened: failures inside the call are "internal" and
\* leave the server running, which only ends when a handler throws something
\* that is not a std::exception; "ok" has a message and means that the handler
\* returned it.
StatusTells ==
  /\ outcome \in {"unparsed", "unserialised", "throws"} => resp = Response("internal", FALSE)
  /\ resp = Terminated => outcome = "foreign"
  /\ resp.status = "ok" => outcome = "ok" /\ resp.message /\ called # NoCall
=============================================================================
