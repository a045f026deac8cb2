------------------------------ MODULE HttpParser ------------------------------
(***************************************************************************)
(* The HTTP parser: http_parser_execute() of the bundled                   *)
(* http/http-parser/http_parser.cc, compiled with HTTP_PARSER_STRICT, and  *)
(* the callbacks of http/http_parser.cc that fill in an HttpRequest or an  *)
(* HttpResponse.                                                           *)
(*                                                                         *)
(* The input is a sequence of tokens: the separators and the characters of *)
(* a URL one by one, a method, a version, a status code, a digit, a known  *)
(* word of a header value in one, a header name in one or more pieces.     *)
(* Each state of the parser that tells the tokens apart is a state here;   *)
(* the states inside a word are not.  The parser is a record:              *)
(*   state, h (header_state), flags, length (content_length), nread,       *)
(*   errno, upgrade as in the code;                                        *)
(*   mark, piece  the data callback that is due, and what it will be given;*)
(*   name         what the header's name was matched with, index;          *)
(*   halted       execute() is to return before the end of its input;      *)
(*   field, finished, msg   field_, finished_ and data_ of hiper's parser. *)
(***************************************************************************)
EXTENDS Naturals, FiniteSets, Sequences, TLC, SequencesExt

CONSTANTS
  MaxLength,  \* ULLONG_MAX, the content_length of a message that has none
  MaxHeader   \* max_header_size, in tokens

CR == "cr"
LF == "lf"
SP == " "
Digits     == {"0", "1", "2"}
ValueOf(d) == CASE d = "0" -> 0 [] d = "1" -> 1 [] d = "2" -> 2
Alpha      == {"a", "b"}
UrlChars   == Alpha \cup {"/", ":", "@", "*"}
Methods    == {"GET", "POST", "CONNECT"}
Versions   == {"HTTP/1.0", "HTTP/1.1"}
Codes      == {"200", "204"}
NameParts  == {"Content-", "Length", "Transfer-", "Encoding", "Connection", "Upgrade", "X"}

Message(kind) ==
  [kind |-> kind, method |-> "GET", version |-> "HTTP/1.1", code |-> "200",
   path |-> <<"/">>, query |-> <<>>, headers |-> <<>>, body |-> <<>>]

NewParser(kind) ==
  [state |-> IF kind = "request" THEN "start_req" ELSE "start_res",
   type |-> kind, h |-> "general", flags |-> {}, length |-> MaxLength, nread |-> 0,
   errno |-> "OK", upgrade |-> FALSE, method |-> "GET", version |-> "HTTP/1.1",
   code |-> "200", mark |-> "none", piece |-> <<>>, name |-> <<>>, halted |-> FALSE,
   field |-> <<>>, finished |-> FALSE, msg |-> Message(kind)]

Fail(p, e) == [p EXCEPT !.errno = e]
To(p, s)   == [p EXCEPT !.state = s]
\* MARK(FOR), non-destructive, and the token that is passed over.
Mark(p, what, c) ==
  [p EXCEPT !.mark = what, !.piece = IF p.mark = what THEN Append(@, c) ELSE <<c>>]

-----------------------------------------------------------------------------
(* URLs.                                                                    *)

\* parse_url_char()
UrlStep(s, c) ==
  LET server == s \in {"server_start", "server", "server_with_at"}
      query  == s \in {"query_string_start", "query_string"}
      fragment == s \in {"fragment_start", "fragment"}
  IN CASE s = "spaces" /\ c \in {"/", "*"}          -> "path"
       [] s \in {"spaces", "schema"} /\ c \in Alpha -> "schema"
       [] s = "schema" /\ c = ":"                   -> "schema_slash"
       [] s = "schema_slash" /\ c = "/"             -> "schema_slash_slash"
       [] s = "schema_slash_slash" /\ c = "/"       -> "server_start"
       [] server /\ c = "/"                         -> "path"
       [] server /\ c = "?"                         -> "query_string_start"
       [] server /\ c = "@" /\ s # "server_with_at" -> "server_with_at"
       [] server /\ c \in Alpha \cup {":"}          -> "server"
       [] s = "path" /\ c \in UrlChars              -> "path"
       [] s = "path" /\ c = "?"                     -> "query_string_start"
       [] query /\ c \in UrlChars \cup {"?"}        -> "query_string"
       [] (s = "path" \/ query) /\ c = "#"          -> "fragment_start"
       [] s = "fragment_start" /\ c = "#"           -> "fragment_start"
       [] fragment /\ c \in UrlChars \cup {"?", "#"} -> "fragment"
       [] OTHER                                     -> "dead"

\* http_parser_parse_url(), up to the host of an absolute URL, which no URL of
\* the runs has: the state after each character of buf.
UrlStates(buf) ==
  LET after[i \in 0..Len(buf)] ==
        IF i = 0 THEN "spaces" ELSE UrlStep(after[i - 1], buf[i])
  IN [i \in 1..Len(buf) |-> after[i]]
UrlPart(buf, s) ==
  LET at == UrlStates(buf)
  IN [i \in 1..Cardinality({j \in 1..Len(buf) : at[j] = s}) |->
        buf[CHOOSE j \in 1..Len(buf) : at[j] = s /\ Cardinality({k \in 1..j : at[k] = s}) = i]]
UrlIsBad(buf) ==
  buf = <<>> \/ \E i \in 1..Len(buf) : UrlStates(buf)[i] \in {"dead", "schema"}

\* on_request_url_cb(): what a URL does not have keeps its value.
OnUrl(p, buf) ==
  LET path  == UrlPart(buf, "path")
      query == UrlPart(buf, "query_string")
  IN IF UrlIsBad(buf) THEN Fail(p, "CB_url")
     ELSE [p EXCEPT !.msg.path  = IF path = <<>> THEN @ ELSE path,
                    !.msg.query = IF query = <<>> THEN @ ELSE query]

-----------------------------------------------------------------------------
(* The callbacks.                                                           *)

\* Mutant: setBody().
OnBodyReplacing(p, buf) == [p EXCEPT !.msg.body = buf]
OnBody(p, buf) == [p EXCEPT !.msg.body = @ \o buf]

OnHeaderField(p, buf) == [p EXCEPT !.field = buf]
\* setHeader()
OnHeaderValue(p, buf) == [p EXCEPT !.msg.headers = (p.field :> buf) @@ @]
OnStatus(p)           == [p EXCEPT !.msg.code = p.code]

\* CALLBACK_DATA of whatever is marked
Flush(p) ==
  LET q == [p EXCEPT !.mark = "none", !.piece = <<>>]
  IN CASE p.mark = "none"   -> p
       [] p.mark = "url"    -> OnUrl(q, p.piece)
       [] p.mark = "field"  -> OnHeaderField(q, p.piece)
       [] p.mark = "value"  -> OnHeaderValue(q, p.piece)
       [] p.mark = "status" -> OnStatus(q)
       [] p.mark = "body"   -> OnBody(q, p.piece)

OnHeadersComplete(p) ==
  [p EXCEPT !.msg.method = p.method, !.msg.version = p.version, !.msg.code = p.code]

-----------------------------------------------------------------------------
(* Framing.                                                                 *)

NeedsEof(p) ==
  /\ p.type = "response" /\ p.code # "204"
  /\ "chunked" \notin p.flags /\ p.length = MaxLength

ShouldKeepAlive(p) ==
  /\ IF p.version = "HTTP/1.1" THEN "close" \notin p.flags ELSE "keep_alive" \in p.flags
  /\ ~NeedsEof(p)

\* NEW_MESSAGE() and on_message_complete
Complete(p) ==
  [p EXCEPT !.state = IF ~ShouldKeepAlive(p) THEN "dead"
                      ELSE IF p.type = "request" THEN "start_req" ELSE "start_res",
            !.finished = TRUE]
MessageDone(p) == LET q == Complete(p) IN [q EXCEPT !.halted = p.upgrade]

HeadersDone(p) ==
  LET q       == [p EXCEPT !.nread = 0]
      hasBody == "chunked" \in p.flags \/ p.length \notin {0, MaxLength}
  IN IF p.upgrade /\ (p.method = "CONNECT" \/ ~hasBody)
        THEN [Complete(q) EXCEPT !.halted = TRUE]
     ELSE IF "chunked" \in p.flags        THEN To(q, "chunk_size_start")
     ELSE IF p.length = 0                 THEN Complete(q)
     ELSE IF p.length # MaxLength         THEN To(q, "body_identity")
     ELSE IF NeedsEof(p)                  THEN To(q, "body_identity_eof")
     ELSE Complete(q)

HeadersAlmostDone(p, c) ==
  LET upgrade == IF {"upgrade", "connection_upgrade"} \subseteq p.flags
                 THEN p.type = "request" ELSE p.method = "CONNECT"
  IN IF c # LF THEN Fail(p, "STRICT")
     ELSE IF "trailing" \in p.flags THEN MessageDone(p)
     ELSE IF {"chunked", "content_length"} \subseteq p.flags
          THEN Fail(p, "UNEXPECTED_CONTENT_LENGTH")
     ELSE HeadersDone(OnHeadersComplete([p EXCEPT !.upgrade = upgrade]))

\* One token of a body of known length; done(_) follows the last one.
BodyToken(p, c, done(_)) ==
  LET q == [Mark(p, "body", c) EXCEPT !.length = @ - 1]
  IN IF q.length = 0 THEN done(q) ELSE q
BodyIdentity(p, c) == BodyToken(p, c, LAMBDA q : MessageDone(Flush(q)))
ChunkData(p, c)    == BodyToken(p, c, LAMBDA q : To(q, "chunk_data_almost_done"))

ChunkSizeStart(p, c) ==
  IF c \in Digits THEN [p EXCEPT !.state = "chunk_size", !.length = ValueOf(c)]
  ELSE Fail(p, "INVALID_CHUNK_SIZE")
ChunkSize(p, c) ==
  CASE c = CR          -> To(p, "chunk_size_almost_done")
    [] c \in {";", SP} -> To(p, "chunk_parameters")
    [] c \in Digits    -> IF (MaxLength - 16) \div 16 < p.length
                          THEN Fail(p, "INVALID_CONTENT_LENGTH")
                          ELSE [p EXCEPT !.length = 16 * @ + ValueOf(c)]
    [] OTHER           -> Fail(p, "INVALID_CHUNK_SIZE")

\* Mutant: the last chunk is like any other.
ChunkSizeAlmostDoneUntrailed(p, c) ==
  IF c # LF THEN Fail(p, "STRICT")
  ELSE [p EXCEPT !.nread = 0, !.state = IF p.length = 0 THEN "header_field_start"
                                       ELSE "chunk_data"]
ChunkSizeAlmostDone(p, c) ==
  IF c # LF THEN Fail(p, "STRICT")
  ELSE IF p.length = 0
  THEN [p EXCEPT !.nread = 0, !.flags = @ \cup {"trailing"}, !.state = "header_field_start"]
  ELSE [p EXCEPT !.nread = 0, !.state = "chunk_data"]

ChunkEnd(p, c) ==
  CASE p.state = "chunk_data_almost_done" ->
         IF c = CR THEN Flush(To(p, "chunk_data_done")) ELSE Fail(p, "STRICT")
    [] p.state = "chunk_data_done" ->
         IF c = LF THEN [p EXCEPT !.nread = 0, !.state = "chunk_size_start"]
         ELSE Fail(p, "STRICT")

-----------------------------------------------------------------------------
(* Headers.                                                                 *)

Header(name) ==
  CASE name = <<"Content-", "Length">>     -> "content_length"
    [] name = <<"Transfer-", "Encoding">>  -> "transfer_encoding"
    [] name = <<"Connection">>             -> "connection"
    [] name = <<"Upgrade">>                -> "upgrade"
    [] OTHER                               -> "general"

HeaderFieldStart(p, c) ==
  CASE c = CR           -> To(p, "headers_almost_done")
    [] c = LF           -> HeadersAlmostDone(p, c)
    [] c \in NameParts  -> [Mark(p, "field", c) EXCEPT !.name = <<c>>, !.state = "header_field"]
    [] OTHER            -> Fail(p, "INVALID_HEADER_TOKEN")

HeaderField(p, c) ==
  CASE c \in NameParts -> [Mark(p, "field", c) EXCEPT !.name = Append(@, c)]
    [] c = ":"         -> Flush([p EXCEPT !.h = Header(p.name), !.state = "header_value_discard_ws"])
    [] OTHER           -> Fail(p, "INVALID_HEADER_TOKEN")

\* A word of a Connection header.
ConnectionWord(c) ==
  IF c \in {"keep-alive", "close", "upgrade"} THEN "connection_" \o c ELSE "connection_token"
FlagOf(h) ==
  CASE h = "connection_keep-alive" -> {"keep_alive"}
    [] h = "connection_close"      -> {"close"}
    [] h = "connection_upgrade"    -> {"connection_upgrade"}
    [] h = "chunked"               -> {"chunked"}
    [] OTHER                       -> {}

HeaderValueStart(p, c) ==
  LET q == To(Mark(p, "value", c), "header_value")
      h(x) == [q EXCEPT !.h = x]
  IN CASE p.h = "upgrade" -> [h("general") EXCEPT !.flags = @ \cup {"upgrade"}]
       [] p.h = "transfer_encoding" -> h(IF c = "chunked" THEN "chunked" ELSE "general")
       [] p.h = "content_length" ->
            IF c \notin Digits THEN Fail(q, "INVALID_CONTENT_LENGTH")
            ELSE IF "content_length" \in p.flags THEN Fail(q, "UNEXPECTED_CONTENT_LENGTH")
            ELSE [h("content_length_num") EXCEPT !.flags = @ \cup {"content_length"},
                                                 !.length = ValueOf(c)]
       [] p.h = "connection" -> h(ConnectionWord(c))
       [] p.h \in {"content_length_ws", "connection_token_start"} -> q
       [] OTHER -> h("general")

ContentLengthDigit(p, c) ==
  IF c \notin Digits \/ (MaxLength - 10) \div 10 < p.length
  THEN Fail(p, "INVALID_CONTENT_LENGTH")
  ELSE [p EXCEPT !.length = 10 * @ + ValueOf(c)]

HeaderAlmostDone(p, c) ==
  IF c = LF THEN To(p, "header_value_lws") ELSE Fail(p, "LF_EXPECTED")

HeaderValue(p, c) ==
  LET q == Mark(p, "value", c)
      h(x) == [q EXCEPT !.h = x]
  IN CASE c = CR -> Flush(To(p, "header_almost_done"))
       [] c = LF -> HeaderAlmostDone(Flush(p), c)
       [] p.h = "content_length_num" ->
            IF c = SP THEN h("content_length_ws") ELSE ContentLengthDigit(q, c)
       [] p.h = "content_length_ws" ->
            IF c = SP THEN q ELSE Fail(q, "INVALID_CONTENT_LENGTH")
       [] p.h = "chunked" -> IF c = SP THEN q ELSE h("general")
       [] p.h = "connection_token_start" -> IF c = SP THEN q ELSE h(ConnectionWord(c))
       [] p.h = "connection_token" ->
            IF c = "," THEN h("connection_token_start") ELSE q
       [] FlagOf(p.h) # {} /\ p.h # "chunked" ->
            IF c = "," THEN [h("connection_token_start") EXCEPT !.flags = @ \cup FlagOf(p.h)]
            ELSE IF c = SP THEN q ELSE h("connection_token")
       [] OTHER -> h("general")

HeaderValueLws(p, c) ==
  IF c = SP
  THEN HeaderValueStart(
         [p EXCEPT !.h = IF @ = "content_length_num" THEN "content_length_ws" ELSE @], c)
  ELSE HeaderFieldStart([p EXCEPT !.flags = @ \cup FlagOf(p.h), !.state = "header_field_start"], c)

DiscardWs(p, c) ==
  CASE p.state = "header_value_discard_ws" ->
         (CASE c = SP -> p
            [] c = CR -> To(p, "header_value_discard_ws_almost_done")
            [] c = LF -> To(p, "header_value_discard_lws")
            [] OTHER  -> HeaderValueStart(p, c))
    [] p.state = "header_value_discard_ws_almost_done" ->
         IF c = LF THEN To(p, "header_value_discard_lws") ELSE Fail(p, "STRICT")

\* The header's value was empty.
DiscardLws(p, c) ==
  IF c = SP THEN To(p, "header_value_discard_ws")
  ELSE IF p.h = "content_length" THEN Fail(p, "INVALID_CONTENT_LENGTH")
  ELSE HeaderFieldStart(
         OnHeaderValue([p EXCEPT !.flags = @ \cup FlagOf(p.h), !.state = "header_field_start"],
                       <<>>), c)

-----------------------------------------------------------------------------
(* The first line.                                                          *)

NewHead(p) == [p EXCEPT !.flags = {}, !.length = MaxLength]
StartReq(p, c) ==
  CASE c \in {CR, LF}  -> p
    [] c \in Methods   -> [NewHead(p) EXCEPT !.state = "req_method", !.method = c]
    [] OTHER           -> Fail(NewHead(p), "INVALID_METHOD")
Method(p, c) == IF c = SP THEN To(p, "spaces") ELSE Fail(p, "INVALID_METHOD")

UrlToken(p, from, c) ==
  LET s == UrlStep(from, c)
  IN IF s = "dead" THEN Fail(p, "INVALID_URL") ELSE To(Mark(p, "url", c), s)
SpacesBeforeUrl(p, c) ==
  IF c = SP THEN p ELSE UrlToken(p, IF p.method = "CONNECT" THEN "server_start" ELSE "spaces", c)
UrlSchema(p, c) ==
  IF c \in {SP, CR, LF} THEN Fail(p, "INVALID_URL") ELSE UrlToken(p, p.state, c)
UrlRest(p, c) ==
  CASE c = SP -> Flush(To(p, "req_http_start"))
    [] c = CR -> Flush([p EXCEPT !.state = "line_almost_done", !.version = "HTTP/0.9"])
    [] c = LF -> Flush([p EXCEPT !.state = "header_field_start", !.version = "HTTP/0.9"])
    [] OTHER  -> UrlToken(p, p.state, c)

ReqHttp(p, c) ==
  CASE p.state = "req_http_start" /\ c = SP         -> p
    [] p.state = "req_http_start" /\ c \in Versions -> [p EXCEPT !.version = c, !.state = "req_http_end"]
    [] p.state = "req_http_start"                   -> Fail(p, "INVALID_CONSTANT")
    [] p.state = "req_http_end" /\ c = CR           -> To(p, "line_almost_done")
    [] p.state = "req_http_end" /\ c = LF           -> To(p, "header_field_start")
    [] OTHER                                        -> Fail(p, "INVALID_VERSION")
LineAlmostDone(p, c) ==
  IF c = LF THEN To(p, "header_field_start") ELSE Fail(p, "LF_EXPECTED")

StartRes(p, c) ==
  CASE c \in {CR, LF}  -> p
    [] c \in Versions  -> [NewHead(p) EXCEPT !.state = "res_http_end", !.version = c]
    [] OTHER           -> Fail(NewHead(p), "INVALID_CONSTANT")
ResStatus(p, c) ==
  CASE c = CR -> Flush(To(p, "line_almost_done"))
    [] c = LF -> Flush(To(p, "header_field_start"))
    [] OTHER  -> Mark(p, "status", c)
\* s_res_status_start marks an empty status, too.
ResStatusStart(p, c) ==
  LET q == [p EXCEPT !.state = "res_status", !.mark = "status"]
  IN IF c \in {CR, LF} THEN ResStatus(q, c) ELSE Mark(q, "status", c)
ResHead(p, c) ==
  CASE p.state = "res_http_end" /\ c = SP       -> To(p, "res_first_status_code")
    [] p.state = "res_http_end"                 -> Fail(p, "INVALID_VERSION")
    [] p.state = "res_first_status_code" /\ c = SP -> p
    [] p.state = "res_first_status_code" /\ c \in Codes ->
         [p EXCEPT !.code = c, !.state = "res_status_code"]
    [] p.state = "res_status_code" /\ c = SP    -> To(p, "res_status_start")
    [] p.state = "res_status_code" /\ c \in {CR, LF} -> ResStatusStart(p, c)
    [] OTHER                                    -> Fail(p, "INVALID_STATUS")

-----------------------------------------------------------------------------
(* http_parser_execute().                                                   *)

SchemaStates == {"schema", "schema_slash", "schema_slash_slash", "server_start"}
UrlRestStates == {"server", "server_with_at", "path", "query_string_start", "query_string",
                  "fragment_start", "fragment"}
BodyStates == {"body_identity", "body_identity_eof", "chunk_data", "chunk_data_almost_done",
               "chunk_data_done"}

Consume(p, c) ==
  LET s == p.state IN
  CASE s = "dead" -> IF c \in {CR, LF} THEN p ELSE Fail(p, "CLOSED_CONNECTION")
    [] s = "start_req"              -> StartReq(p, c)
    [] s = "req_method"             -> Method(p, c)
    [] s = "spaces"                 -> SpacesBeforeUrl(p, c)
    [] s \in SchemaStates           -> UrlSchema(p, c)
    [] s \in UrlRestStates          -> UrlRest(p, c)
    [] s \in {"req_http_start", "req_http_end"} -> ReqHttp(p, c)
    [] s = "line_almost_done"       -> LineAlmostDone(p, c)
    [] s = "start_res"              -> StartRes(p, c)
    [] s \in {"res_http_end", "res_first_status_code", "res_status_code"} -> ResHead(p, c)
    [] s = "res_status_start"       -> ResStatusStart(p, c)
    [] s = "res_status"             -> ResStatus(p, c)
    [] s = "header_field_start"     -> HeaderFieldStart(p, c)
    [] s = "header_field"           -> HeaderField(p, c)
    [] s \in {"header_value_discard_ws", "header_value_discard_ws_almost_done"} -> DiscardWs(p, c)
    [] s = "header_value_discard_lws" -> DiscardLws(p, c)
    [] s = "header_value"           -> HeaderValue(p, c)
    [] s = "header_almost_done"     -> HeaderAlmostDone(p, c)
    [] s = "header_value_lws"       -> HeaderValueLws(p, c)
    [] s = "headers_almost_done"    -> HeadersAlmostDone(p, c)
    [] s = "body_identity"          -> BodyIdentity(p, c)
    [] s = "body_identity_eof"      -> Mark(p, "body", c)
    [] s = "chunk_size_start"       -> ChunkSizeStart(p, c)
    [] s = "chunk_size"             -> ChunkSize(p, c)
    [] s = "chunk_parameters"       -> IF c = CR THEN To(p, "chunk_size_almost_done") ELSE p
    [] s = "chunk_size_almost_done" -> ChunkSizeAlmostDone(p, c)
    [] s = "chunk_data"             -> ChunkData(p, c)
    [] OTHER                        -> ChunkEnd(p, c)

\* COUNT_HEADER_SIZE, then the state's case.
ExecuteToken(p, c) ==
  LET inBody == p.state \in BodyStates
  IN IF p.errno # "OK" \/ p.halted THEN p
     ELSE IF ~inBody /\ p.nread = MaxHeader THEN Fail(p, "HEADER_OVERFLOW")
     ELSE Consume([p EXCEPT !.nread = IF inBody THEN @ ELSE @ + 1], c)

\* The marks that a call begins with: the callback is due however little follows.
Remark(p) ==
  [p EXCEPT !.mark = IF p.state \in SchemaStates \cup UrlRestStates THEN "url"
                     ELSE IF p.state = "header_field" THEN "field"
                     ELSE IF p.state = "header_value" THEN "value"
                     ELSE IF p.state = "res_status" THEN "status" ELSE "none"]

\* No data means the end of the stream.
ExecuteEof(p) ==
  CASE p.errno # "OK"                              -> p
    [] p.state = "body_identity_eof"               -> [p EXCEPT !.finished = TRUE]
    [] p.state \in {"dead", "start_res", "start_req"} -> p
    [] OTHER                                       -> Fail(p, "INVALID_EOF_STATE")

FlushRest(p) == IF p.errno # "OK" \/ p.halted THEN p ELSE Flush(p)
Execute(p, data) ==
  IF data = <<>> THEN ExecuteEof(p)
  ELSE FlushRest(FoldLeft(ExecuteToken, Remark([p EXCEPT !.halted = FALSE]), data))

=============================================================================
