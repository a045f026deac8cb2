-------------------------------- MODULE Log --------------------------------
(***************************************************************************)
(* The loggers of base/log.cc: where an event of a logger is written, and  *)
(* the listener of the "logs" configuration, which brings the loggers in   *)
(* line with a new set of definitions one call after the other.            *)
(*                                                                         *)
(* LOG_NAME() makes a logger when it is first asked for; here all are made *)
(* from the beginning.  The events themselves and the files are left out:  *)
(* Writes says what would become of an event, Items how it is laid out.    *)
(***************************************************************************)
EXTENDS Integers, Sequences, SequencesExt

CONSTANTS
  Loggers,     \* a sequence of names, in their order
  Root,        \* the name of LOG_ROOT()
  Levels,      \* 0 is UNKNOW
  Formatters,  \* patterns; "" is none
  Pattern,     \* their characters
  Layout,      \* the items that are meant by those patterns that are well formed
  Defines      \* the sets of LogDefine: functions from names to definitions

VARIABLES
  defs,        \* val_ of g_log_defines
  loggers,     \* level_, formatter_ and appenders_ of each logger
  todo,        \* the calls that the listener has still to make
  new,         \* the value that is being set
  daemon,      \* whether the program was started with -d
  outdated     \* history: loggers left behind, see Assign

logVars == <<defs, loggers, todo, new, daemon, outdated>>

LoggerNames == {Loggers[i] : i \in DOMAIN Loggers}
\* LogDefine and LogAppenderDefine
Definitions ==
  [level : Levels, formatter : Formatters \cup {""},
   appenders : Seq([type : {"File", "Stdout"}, formatter : Formatters \cup {""}])]

\* A name has one logger; every name that is defined has one, and so does the root.
ASSUME LogAssumption ==
  /\ \A i, j \in DOMAIN Loggers : Loggers[i] = Loggers[j] => i = j
  /\ Loggers \in Seq(LoggerNames) /\ Root \in LoggerNames /\ Levels \subseteq Nat
  /\ \A ds \in Defines : DOMAIN ds \subseteq LoggerNames /\ ds \in [DOMAIN ds -> Definitions]

Debug == 1
Fresh(appenders) == [level |-> Debug, formatter |-> "default", appenders |-> appenders]
Appender(type, own, formatter) == [type |-> type, own |-> own, formatter |-> formatter]

LogInit ==
  /\ defs = <<>> /\ new = <<>> /\ todo = <<>> /\ outdated = {}
  /\ daemon \in BOOLEAN
  /\ loggers = [n \in LoggerNames |->
       Fresh(IF n = Root THEN <<Appender("Stdout", FALSE, "default")>> ELSE <<>>)]

\* Logger::log(): the appenders that write an event of level l, those of root_ for
\* a logger without any.
Writes(n, l) ==
  LET Own(m) == IF l >= loggers[m].level THEN loggers[m].appenders ELSE <<>>
  IN IF l >= loggers[n].level /\ loggers[n].appenders = <<>> THEN Own(Root) ELSE Own(n)

-----------------------------------------------------------------------------
(* LogFormatter::init().                                                    *)

Letters == {"c", "d", "f", "F", "l", "m", "n", "N", "p", "r", "t", "T", "Y", "x"}
Known   == Letters \ {"Y", "x"}
Text(c) == [name |-> <<>>, format |-> <<c>>]
First(s, i, P(_)) == SelectInSubSeq(s, i, Len(s), P)

\* The item that begins with the % at i: up to what is neither a letter nor "}", or
\* with a format in braces, which have to be closed.
ItemAt(s, i) ==
  LET end   == First(s, i + 1, LAMBDA c : c \notin Letters \cup {"}"})
      close == First(s, end + 1, LAMBDA c : c = "}")
      Item(to, format, next) ==
        [item |-> [name |-> SubSeq(s, i + 1, to), format |-> format],
         bad |-> to # i + 1 \/ s[to] \notin Known, next |-> next]
  IN CASE end = 0      -> Item(Len(s), <<>>, Len(s) + 1)
       [] s[end] # "{" -> Item(end - 1, <<>>, end)
       [] close # 0    -> Item(end - 1, SubSeq(s, end + 1, close - 1), close + 1)
       [] OTHER        -> [Item(end - 1, <<>>, i + 1) EXCEPT !.bad = TRUE]

\* A pattern, character by character of its text.  The first of two % is text, and
\* the second begins an item.
Parsed(s) ==
  LET from[i \in 1..(Len(s) + 1)] ==
        IF i > Len(s) THEN [items |-> <<>>, error |-> FALSE]
        ELSE LET at   == IF s[i] # "%" \/ (i < Len(s) /\ s[i + 1] = "%")
                         THEN [item |-> Text(s[i]), bad |-> FALSE, next |-> i + 1]
                         ELSE ItemAt(s, i)
                 rest == from[at.next]
             IN [items |-> <<at.item>> \o rest.items, error |-> at.bad \/ rest.error]
  IN from[1]

Items(f) == Parsed(Pattern[f]).items
Invalid  == {f \in Formatters : Parsed(Pattern[f]).error}

-----------------------------------------------------------------------------
(* The calls on a logger, which lock it.                                    *)

LogCall(op, n, arg) == [op |-> op, name |-> n, arg |-> arg]

\* Mutant: the appenders without a formatter of their own keep the old one.
SetFormatterAlone(g, f) == [g EXCEPT !.formatter = f]
SetFormatter(g, f) ==
  [g EXCEPT !.formatter = f,
            !.appenders = [i \in DOMAIN @ |-> IF @[i].own THEN @[i] ELSE [@[i] EXCEPT !.formatter = f]]]

AddAppender(g, a) ==
  [g EXCEPT !.appenders = Append(@, IF a.own THEN a ELSE [a EXCEPT !.formatter = g.formatter])]

Done(c, g) ==
  CASE c.op = "setLevel"       -> [g EXCEPT !.level = c.arg]
    [] c.op = "setFormatter"   -> IF c.arg \in Invalid THEN g ELSE SetFormatter(g, c.arg)
    [] c.op = "clearAppenders" -> [g EXCEPT !.appenders = <<>>]
    [] c.op = "addAppender"    -> AddAppender(g, c.arg)

-----------------------------------------------------------------------------
(* The listener.                                                            *)

\* operator== of LogDefine, which compares its own appenders with themselves.
Same(d, e) == d.level = e.level /\ d.formatter = e.formatter

\* The appenders of a definition, but for Stdout in a daemon; a formatter that is
\* invalid is not set.
Kept(d) ==
  FlattenSeq([i \in DOMAIN d.appenders |->
    IF daemon /\ d.appenders[i].type = "Stdout" THEN <<>> ELSE <<d.appenders[i]>>])
Built(d) ==
  [i \in DOMAIN Kept(d) |->
     LET a   == Kept(d)[i]
         own == a.formatter \notin Invalid \cup {""}
     IN Appender(a.type, own, IF own THEN a.formatter ELSE "")]

\* Mutant: a changed logger keeps the appenders it had.
ConfigureOver(n, d) ==
  <<LogCall("setLevel", n, d.level)>>
  \o (IF d.formatter = "" THEN <<>> ELSE <<LogCall("setFormatter", n, d.formatter)>>)
  \o [i \in DOMAIN Built(d) |-> LogCall("addAppender", n, Built(d)[i])]
Configure(n, d) ==
  <<LogCall("setLevel", n, d.level)>>
  \o (IF d.formatter = "" THEN <<>> ELSE <<LogCall("setFormatter", n, d.formatter)>>)
  \o <<LogCall("clearAppenders", n, 0)>>
  \o [i \in DOMAIN Built(d) |-> LogCall("addAppender", n, Built(d)[i])]

Applied(ds) == {n \in DOMAIN ds : n \notin DOMAIN defs \/ ~Same(ds[n], defs[n])}

\* New and changed loggers first, then those that are gone.
CallsFor(ds) ==
  FlattenSeq([i \in DOMAIN Loggers |->
    IF Loggers[i] \in Applied(ds) THEN Configure(Loggers[i], ds[Loggers[i]]) ELSE <<>>])
  \o FlattenSeq([i \in DOMAIN Loggers |->
    IF Loggers[i] \in DOMAIN defs \ DOMAIN ds
    THEN <<LogCall("setLevel", Loggers[i], 0), LogCall("clearAppenders", Loggers[i], 0)>> ELSE <<>>])

Settled == todo = <<>> /\ new = defs

\* setValue() returns at once when the sets are equal, as far as operator== sees.
SetDefines(ds) ==
  /\ Settled
  /\ DOMAIN ds # DOMAIN defs \/ Applied(ds) # {}
  /\ new' = ds /\ todo' = CallsFor(ds)
  /\ UNCHANGED <<defs, loggers, daemon, outdated>>

NextCall ==
  /\ todo # <<>>
  /\ loggers' = [loggers EXCEPT ![Head(todo).name] = Done(Head(todo), @)]
  /\ todo' = Tail(todo)
  /\ UNCHANGED <<defs, new, daemon, outdated>>

\* A definition with nothing but other appenders comes in with another that did
\* change: its logger keeps the old appenders.
Assign ==
  /\ todo = <<>> /\ new # defs
  /\ outdated' = {n \in DOMAIN new \ Applied(new) :
                    n \in outdated \/ defs[n].appenders # new[n].appenders}
  /\ defs' = new
  /\ UNCHANGED <<loggers, todo, new, daemon>>

\* The program calls Logger::setFormatter().
ProgramSetsFormatter(n, f) ==
  /\ loggers' = [loggers EXCEPT ![n] = Done(LogCall("setFormatter", n, f), @)]
  /\ UNCHANGED <<defs, todo, new, daemon, outdated>>

LogNext ==
  \/ \E ds \in Defines : SetDefines(ds)
  \/ NextCall \/ Assign
  \/ \E n \in LoggerNames, f \in Formatters : ProgramSetsFormatter(n, f)

LogSpec == LogInit /\ [][LogNext]_logVars

-----------------------------------------------------------------------------
(* Properties.                                                              *)

\* Whatever definitions came before, the loggers write what the present ones say:
\* a defined logger to the appenders of its definition from its level on, each laid
\* out as its own pattern means, or by the formatter its logger has, and a pattern
\* that means nothing is passed over; one without appenders, or no longer defined, to those of the root
\* (log.cc:367-382, 509-650, 772-883).
LoggersFollowConfig ==
  Settled =>
    \A n \in LoggerNames \ outdated, l \in Levels \ {0} :
      LET told == IF n \in DOMAIN defs THEN Kept(defs[n]) ELSE <<>>
          Follows(a, b) ==
            /\ a.type = b.type
            /\ IF b.formatter \in DOMAIN Layout
               THEN Items(a.formatter) = Layout[b.formatter]
               ELSE a.formatter = loggers[n].formatter
      IN IF n \in DOMAIN defs /\ l < defs[n].level THEN Writes(n, l) = <<>>
         ELSE /\ told # <<>> =>
                   /\ Len(Writes(n, l)) = Len(told)
                   /\ \A i \in DOMAIN told : Follows(Writes(n, l)[i], told[i])
              /\ told = <<>> /\ n # Root => Writes(n, l) = Writes(Root, l)

=============================================================================
