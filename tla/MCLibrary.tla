------------------------------ MODULE MCLibrary ------------------------------
(***************************************************************************)
(* Instances for TLC of the modules that share no state: the hooked calls, *)
(* an HTTP session, the byte array, the configuration, the loggers, the    *)
(* server and the threads' start.  A behaviour is one of one part; the     *)
(* other parts stay as they begin.                                         *)
(***************************************************************************)
EXTENDS HookIO, HttpSession, ByteArray, Config, Log, TcpServer, Thread

VARIABLE part

CONSTANTS f1, f2

libVars == <<part, vars, httpVars, byteVars, configVars, logVars, tcpVars, threadVars>>

-----------------------------------------------------------------------------
(* HookIO: one fd number, used again and again.                             *)

MCMaxCalls == (f1 :> 2) @@ (f2 :> 1)
MCFds == {0}
MCNever == -1
MCTimeouts == {1, MCNever}
\* A server's reads; a client that connects, and writes; what concerns one fiber;
\* a socket made blocking behind the library's back.
MCUses == {{"READ", "timeout", "close"}, {"WRITE", "connect", "close"},
           {"READ", "sleep", "fcntl", "ioctl on"}, {"READ", "ioctl off"}}

-----------------------------------------------------------------------------
(* HttpSession.                                                             *)

FieldName(n) ==
  CASE n = "te" -> <<"Transfer-", "Encoding">> [] n = "cl" -> <<"Content-", "Length">>
    [] n = "conn" -> <<"Connection">> [] n = "x" -> <<"X", "X">>
\* A request with a query, and one with a longer path and a header of two words.
Get(close) ==
  LET m == [Message("request") EXCEPT
              !.path = IF close THEN <<"/", "a", "/", "b">> ELSE <<"/", "a">>,
              !.query = IF close THEN <<>> ELSE <<"b">>,
              !.headers =
                 FieldName("x") :> IF close THEN <<"a", SP, "b">> ELSE <<"a">>]
  IN [msg |-> [m EXCEPT !.headers =
                 (FieldName("conn") :> <<IF close THEN "close" ELSE "keep-alive">>) @@ @],
      wire |-> DumpRequest(m, close)]
Post(n) ==
  LET m == [Message("request") EXCEPT !.method = "POST", !.body = SubSeq(<<"a", "b">>, 1, n)]
  IN [msg |-> [m EXCEPT !.headers = (FieldName("cl") :> <<Digit(n)>>)
                                    @@ (FieldName("conn") :> <<"keep-alive">>)],
      wire |-> DumpRequest(m, FALSE)]
\* Chunks of which one has an extension, and trailing line ends of two kinds.
Chunked ==
  [msg |-> [Message("request") EXCEPT !.method = "POST", !.path = <<"*">>,
              !.version = "HTTP/1.0", !.headers = FieldName("te") :> <<"chunked">>,
              !.body = <<"a", "b", CR>>],
   wire |-> <<"POST", SP, "*", SP, "HTTP/1.0", CR, LF,
              "Transfer-", "Encoding", ":", "chunked", LF, CR, LF,
              "2", CR, LF, "a", "b", CR, LF, "1", ";", "a", CR, LF, CR, CR, LF,
              "0", CR, LF, CR, LF>>]
\* A request without headers.
Bare ==
  [msg |-> Message("request"),
   wire |-> <<"GET", SP, "/", SP, "HTTP/1.1", CR, LF, CR, LF>>]
MCPrograms == {<<Bare, Get(FALSE)>>, <<Post(2), Bare>>, <<Get(TRUE)>>, <<Chunked>>}
MCBodies == {<<>>, <<"a", "b">>}

-----------------------------------------------------------------------------
(* Log: two loggers and the root.                                           *)

MCLoggers == <<"a", "b", "root">>
Format(n, f) == [name |-> <<n>>, format |-> f]
MCPattern ==
  ("F" :> <<"%", "d", "{", "Y", ":", "m", "}", "[", "%", "p", "]">>)
  @@ ("G" :> <<"x", "%", "T", "%", "m">>) @@ ("default" :> <<"%", "m", "%", "n">>)
  @@ ("open" :> <<"%", "p", "%", "d", "{", "Y">>) @@ ("unknown" :> <<"%", "m", "x">>)
MCLayout ==
  ("F" :> <<Format("d", <<"Y", ":", "m">>), Text("["), Format("p", <<>>), Text("]")>>)
  @@ ("G" :> <<Text("x"), Format("T", <<>>), Format("m", <<>>)>>)
File(f) == [type |-> "File", formatter |-> f]
Stdout(f) == [type |-> "Stdout", formatter |-> f]
Define(l, f, as) == [level |-> l, formatter |-> f, appenders |-> as]
\* The last two differ, for "a", in the appenders alone.
MCDefines ==
  {<<>>,
   "a" :> Define(4, "", <<File("open")>>) @@ "root" :> Define(1, "", <<File("")>>),
   "a" :> Define(4, "", <<>>) @@ "root" :> Define(4, "unknown", <<Stdout("F")>>),
   "a" :> Define(1, "F", <<File(""), Stdout("G")>>),
   "a" :> Define(1, "F", <<File("G")>>) @@ "root" :> Define(1, "", <<>>)}

-----------------------------------------------------------------------------
LibInit ==
  /\ part \in {"hook", "http", "bytes", "config", "log", "tcp", "thread"}
  /\ Init /\ HttpInit /\ ByteInit /\ ConfigInit /\ LogInit /\ TcpInit /\ ThreadInit
  /\ part # "hook" => use = {"READ", "timeout", "close"}
  /\ part # "http" => program = <<Chunked>>
  /\ part # "config" => file.content = <<>> /\ file.wellFormed
  /\ part # "log" => daemon
  /\ part # "tcp" => threads = 1

LibNext ==
  \/ /\ part = "hook" /\ Next
     /\ UNCHANGED <<part, httpVars, byteVars, configVars, logVars, tcpVars, threadVars>>
  \/ /\ part = "http" /\ HttpNext
     /\ UNCHANGED <<part, vars, byteVars, configVars, logVars, tcpVars, threadVars>>
  \/ /\ part = "bytes" /\ ByteNext
     /\ UNCHANGED <<part, vars, httpVars, configVars, logVars, tcpVars, threadVars>>
  \/ /\ part = "config" /\ ConfigNext
     /\ UNCHANGED <<part, vars, httpVars, byteVars, logVars, tcpVars, threadVars>>
  \/ /\ part = "log" /\ LogNext
     /\ UNCHANGED <<part, vars, httpVars, byteVars, configVars, tcpVars, threadVars>>
  \/ /\ part = "tcp" /\ TcpNext
     /\ UNCHANGED <<part, vars, httpVars, byteVars, configVars, logVars, threadVars>>
  \/ /\ part = "thread" /\ ThreadNext
     /\ UNCHANGED <<part, vars, httpVars, byteVars, configVars, logVars, tcpVars>>

\* No action that is fair in one part is enabled where the part begins.
LibSpec == LibInit /\ [][LibNext]_libVars /\ Fairness /\ TcpFairness

=============================================================================
