------------------------------- MODULE Config -------------------------------
(***************************************************************************)
(* Config of base/config.cc and ConfigVar of base/config.h: the registry   *)
(* of named values, setValue(), and LoadFromConfDir(), which tells by the  *)
(* time of its last change whether a file has to be read again.            *)
(*                                                                         *)
(* One thread loads; the program registers and sets values, and somebody   *)
(* edits the file, between any two of its steps.  A change in the second   *)
(* of the one before it, which st_mtime does not tell apart from it, is    *)
(* left out.  What the listeners of a value do is theirs: Log models one.  *)
(***************************************************************************)
EXTENDS Naturals

CONSTANTS
  Keys,      \* the keys that the file may have, lower-case names or not
  Names,     \* those that Lookup() takes for names
  Texts,     \* scalars; the type of a value reads those of Values
  Values,
  Default,   \* the value Lookup() registers a name with
  MaxTime    \* (bound)

VARIABLES
  datas,     \* s_datas: the value of every registered name
  file,      \* st_mtime, content, and whether yaml-cpp loads it
  recorded,  \* s_file2modifytime
  clock,
  loader,    \* the thread in LoadFromConfDir(): pc, nodes, and name and value in setValue()
  setter,    \* another thread in setValue(): name and value, or Nobody
  shown      \* history: the names whose value is the one the last load gave them

configVars == <<datas, file, recorded, clock, loader, setter, shown>>

Nobody   == [name |-> Default, value |-> Default]
Idle     == [pc |-> "idle", nodes |-> {}, name |-> Default, value |-> Default]
Contents == UNION {[k -> Texts] : k \in SUBSET Keys}

ConfigInit ==
  /\ datas = <<>>
  /\ file \in [content : Contents, wellFormed : BOOLEAN, mtime : {1}]
  /\ recorded = 0 /\ clock = 1
  /\ loader = Idle /\ setter = Nobody /\ shown = {}

-----------------------------------------------------------------------------
(* The registry and the file.                                               *)

\* A registered name keeps its value.
Lookup(n) ==
  /\ n \notin DOMAIN datas
  /\ datas' = [k \in DOMAIN datas \cup {n} |-> IF k = n THEN Default ELSE datas[k]]
  /\ UNCHANGED <<file, recorded, clock, loader, setter, shown>>

\* setValue() compares, and calls the listeners, under one lock and assigns under
\* another.
SetValue(n, v) ==
  /\ setter = Nobody /\ n \in DOMAIN datas /\ v # datas[n]
  /\ setter' = [name |-> n, value |-> v]
  /\ UNCHANGED <<datas, file, recorded, clock, loader, shown>>
SetValueAssigns ==
  /\ setter # Nobody
  /\ datas' = [datas EXCEPT ![setter.name] = setter.value]
  /\ shown' = shown \ {setter.name}
  /\ setter' = Nobody
  /\ UNCHANGED <<file, recorded, clock, loader>>

Edit(c, ok) ==
  /\ clock > file.mtime
  /\ file' = [content |-> c, wellFormed |-> ok, mtime |-> clock]
  /\ UNCHANGED <<datas, recorded, clock, loader, setter, shown>>
TimePasses ==
  /\ clock < MaxTime
  /\ clock' = clock + 1
  /\ UNCHANGED <<datas, file, recorded, loader, setter, shown>>

-----------------------------------------------------------------------------
(* LoadFromConfDir() and LoadFromYaml().                                    *)

Loads == UNCHANGED <<file, clock, setter>>

\* lstat(): the file is skipped, or its time noted.
CheckFile(force) ==
  /\ loader.pc = "idle"
  /\ force \/ recorded # file.mtime
  /\ recorded' = file.mtime
  /\ loader' = [loader EXCEPT !.pc = "load"]
  /\ Loads /\ UNCHANGED <<datas, shown>>

\* LoadFile() throws on a broken file.  ListAllMember() passes over the keys that
\* cannot be names.
LoadFile ==
  /\ loader.pc = "load"
  /\ loader' = IF ~file.wellFormed THEN Idle
               ELSE [loader EXCEPT !.pc = "set", !.nodes =
                       {<<k, file.content[k]>> : k \in DOMAIN file.content \cap Names}]
  /\ Loads /\ UNCHANGED <<datas, recorded, shown>>

\* LookupBase() and fromString() of one node.
FromString(k, text) ==
  /\ loader.pc = "set" /\ <<k, text>> \in loader.nodes
  /\ LET rest == loader.nodes \ {<<k, text>>} IN
     IF k \in DOMAIN datas /\ text \in Values /\ text # datas[k]
     THEN /\ loader' = [pc |-> "assign", nodes |-> rest, name |-> k, value |-> text]
          /\ UNCHANGED shown
     ELSE /\ loader' = [loader EXCEPT !.nodes = rest]
          /\ shown' = IF k \in DOMAIN datas /\ text \in Values THEN shown \cup {k} ELSE shown
  /\ Loads /\ UNCHANGED <<datas, recorded>>
FromStringAssigns ==
  /\ loader.pc = "assign"
  /\ datas' = [datas EXCEPT ![loader.name] = loader.value]
  /\ shown' = shown \cup {loader.name}
  /\ loader' = [Idle EXCEPT !.pc = "set", !.nodes = loader.nodes]
  /\ Loads /\ UNCHANGED recorded

\* Mutant: the time is noted when the file has been loaded.
LoadedNotesTime ==
  /\ loader.pc = "set" /\ loader.nodes = {}
  /\ loader' = Idle /\ recorded' = file.mtime
  /\ Loads /\ UNCHANGED <<datas, shown>>
Loaded ==
  /\ loader.pc = "set" /\ loader.nodes = {}
  /\ loader' = Idle
  /\ Loads /\ UNCHANGED <<datas, recorded, shown>>

ConfigNext ==
  \/ \E n \in Names : Lookup(n) \/ \E v \in Values : SetValue(n, v)
  \/ SetValueAssigns
  \/ \E c \in Contents, ok \in BOOLEAN : Edit(c, ok)
  \/ TimePasses
  \/ \E force \in BOOLEAN : CheckFile(force)
  \/ LoadFile \/ FromStringAssigns \/ Loaded
  \/ \E k \in Names, text \in Texts : FromString(k, text)

ConfigSpec == ConfigInit /\ [][ConfigNext]_configVars

-----------------------------------------------------------------------------
(* Properties.                                                              *)

\* A file that the next LoadFromConfDir() would skip has been taken over: every
\* value that a load came past and that nobody has set since is the one the file
\* gives, though the file may be edited between the look at its time and the
\* reading of it, or while its values are being set (config.cc:84-108).
NoEditIsMissed ==
  loader.pc = "idle" /\ recorded = file.mtime /\ file.wellFormed =>
    \A n \in shown \cap DOMAIN file.content :
      file.content[n] \in Values => datas[n] = file.content[n]

=============================================================================
