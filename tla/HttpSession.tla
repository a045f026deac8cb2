------------------------------ MODULE HttpSession ------------------------------
(***************************************************************************)
(* HttpSession of http/http_session.cc: requests are received over a       *)
(* stream that hands them out in pieces of any size, parsed piece by piece *)
(* by HttpRequestParser, and answered with responses that HttpResponse     *)
(* writes and a client's HttpResponseParser reads.                         *)
(***************************************************************************)
EXTENDS HttpParser

CONSTANTS
  Programs,   \* what clients send: sequences of [msg, wire] (bound)
  Bodies,     \* what is answered (bound)
  BufferSize  \* http.request.buffer_size, in tokens

VARIABLES
  program,    \* what this client sends
  wire,       \* what the session has not read
  session,    \* "idle", "reading" in recvRequest(), "serving", "closed"
  parser,     \* HttpRequestParser of this recvRequest()
  got,        \* the requests returned
  cut,        \* a piece ended in a URL, a header's name or its value
  client      \* the client's HttpResponseParser

httpVars == <<program, wire, session, parser, got, cut, client>>

-----------------------------------------------------------------------------
(* Messages as they are written.                                            *)

Digit(n)  == CHOOSE d \in Digits : ValueOf(d) = n
Line(seq) == seq \o <<CR, LF>>
\* A header the object holds, and does not write itself.
Written(msg, skip) ==
  LET names == SetToSeq({n \in DOMAIN msg.headers : Header(n) \notin skip})
  IN FlattenSeq([i \in 1..Len(names) |->
                   Line(names[i] \o <<":", SP>> \o msg.headers[names[i]])])
Connection(close) == Line(<<"Connection", ":", SP, IF close THEN "close" ELSE "keep-alive">>)
BodyOf(msg) ==
  IF msg.body = <<>> THEN <<CR, LF>>
  ELSE Line(<<"Content-", "Length", ":", SP, Digit(Len(msg.body))>>) \o <<CR, LF>> \o msg.body

\* HttpRequest::dump()
DumpRequest(msg, close) ==
  LET url == msg.path \o (IF msg.query = <<>> THEN <<>> ELSE <<"?">> \o msg.query)
  IN Line(<<msg.method, SP>> \o url \o <<SP, msg.version>>) \o Connection(close)
       \o Written(msg, {"connection"}
                       \cup IF msg.body = <<>> THEN {} ELSE {"content_length"})
       \o BodyOf(msg)

\* Mutant: the length is not written.
DumpResponseUnsized(msg, close) ==
  Line(<<msg.version, SP, msg.code, SP, "reason">>)
    \o Written(msg, {"connection"}) \o Connection(close) \o <<CR, LF>> \o msg.body
\* HttpResponse::dump()
DumpResponse(msg, close) ==
  Line(<<msg.version, SP, msg.code, SP, "reason">>)
    \o Written(msg, {"connection"}) \o Connection(close) \o BodyOf(msg)

\* HttpRequest::init()
Closes(msg) ==
  LET n == <<"Connection">> IN
  n \in DOMAIN msg.headers /\ msg.headers[n] # <<>> => msg.headers[n] # <<"keep-alive">>

EndOf(i) == Len(FlattenSeq([j \in 1..i |-> program[j].wire]))

-----------------------------------------------------------------------------
HttpInit ==
  /\ program \in Programs
  /\ wire = FlattenSeq([i \in 1..Len(program) |-> program[i].wire])
  /\ session = "idle" /\ parser = NewParser("request")
  /\ got = <<>> /\ cut = FALSE /\ client = NewParser("response")

BeginRequest ==
  /\ session = "idle"
  /\ session' = "reading" /\ parser' = NewParser("request") /\ cut' = FALSE
  /\ UNCHANGED <<program, wire, got, client>>

\* HttpRequestParser::execute() makes an upgrade an error, too.
HasError(p) == p.errno # "OK" \/ p.upgrade
CutStates == SchemaStates \cup UrlRestStates \cup {"header_field", "header_value"}

\* One turn of the loop of recvRequest().  execute() leaves something unread only
\* with an error, so the buffer is empty again after each; what came behind the end
\* of the request has been parsed with it, and is gone when recvRequest() returns.
Receive(n) ==
  /\ session = "reading" /\ n \in 1..BufferSize /\ n <= Len(wire)
  /\ wire' = SubSeq(wire, n + 1, Len(wire))
  /\ parser' = Execute(parser, SubSeq(wire, 1, n))
  /\ cut' = (cut \/ parser'.state \in CutStates)
  /\ IF HasError(parser')
     THEN session' = "closed" /\ UNCHANGED got
     ELSE IF parser'.finished
     THEN session' = "serving" /\ got' = Append(got, [msg |-> parser'.msg, cut |-> cut,
                                            at |-> EndOf(Len(program)) - Len(wire')])
     ELSE UNCHANGED <<session, got>>
  /\ UNCHANGED <<program, client>>

\* read() returns 0 at the end of the stream, or -1 after a timeout.
ReceiveFails ==
  /\ session = "reading"
  /\ session' = "closed"
  /\ UNCHANGED <<program, wire, parser, got, cut, client>>

\* HttpResponseParser::execute() of a response in two pieces.
ClientReads(out, k) ==
  FoldLeft(Execute, NewParser("response"), <<SubSeq(out, 1, k), SubSeq(out, k + 1, Len(out))>>)

\* sendResponse() of a response made by createResponse(), which the client gets in
\* two pieces, and the end of the stream if the connection was to be closed.
SendResponse(code, body) ==
  LET request  == got[Len(got)].msg
      close    == Closes(request)
      response == [Message("response") EXCEPT !.version = request.version,
                                              !.code = code, !.body = body]
  IN
  /\ session = "serving"
  /\ session' = IF close THEN "closed" ELSE "idle"
  /\ \E out \in {DumpResponse(response, close)} : \E k \in 1..(Len(out) - 1) :
       \E p \in {ClientReads(out, k)} : client' = IF close THEN ExecuteEof(p) ELSE p
  /\ UNCHANGED <<program, wire, parser, got, cut>>

HttpNext ==
  \/ BeginRequest \/ ReceiveFails
  \/ \E n \in 1..BufferSize : Receive(n)
  \/ \E code \in Codes, body \in Bodies : SendResponse(code, body)

HttpSpec == HttpInit /\ [][HttpNext]_httpVars

-----------------------------------------------------------------------------
(* Properties.                                                              *)

\* Up to the i-th request no piece ran on into the next message, which recvRequest()
\* loses: what it read of it is mixed into this request or dropped with it
\* (http_session.cc:34-49).
InStep(i) == \A j \in 1..i : got[j].at <= EndOf(j)

\* A request that recvRequest() returns is the message that was sent, however the
\* stream cut it, and it ends where the message ends; only a URL, a header's name
\* or its value that a piece ended in loses its beginning, because the callbacks
\* take each piece for the whole (http_parser.cc:151-200, http_session.cc:25-47).
RequestIsMessage ==
  \A i \in 1..Len(got) :
    InStep(i) =>
      /\ i <= Len(program) /\ got[i].at = EndOf(i)
      /\ got[i].msg.method = program[i].msg.method
      /\ got[i].msg.version = program[i].msg.version
      /\ got[i].msg.body = program[i].msg.body
      /\ got[i].cut \/ got[i].msg = program[i].msg

\* recvRequest() does not wait for more when it has all of the message: whether
\* its length is given, it is chunked, or it has no body, and wherever it was cut.
NeverReadsPastEnd ==
  (session = "reading" /\ InStep(Len(got)) /\ Len(got) < Len(program))
    => EndOf(Len(program)) - Len(wire) < EndOf(Len(got) + 1)

\* A client's HttpResponseParser makes out every response that dump() writes and
\* where it ends, except that of a connection kept alive whose body is empty:
\* dump() gives it no length, and the client waits for the end of the stream
\* (http.cc:344-369).
AnswerEnds ==
  /\ client.errno = "OK"
  /\ client.finished \/ client.state \in {"start_res", "body_identity_eof"}
  /\ client.state = "body_identity_eof" /\ ~client.finished => client.msg.body = <<>>

=============================================================================
