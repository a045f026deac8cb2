---------------------------- MODULE LibraryProofs ----------------------------
(***************************************************************************)
(* Theorems of the modules that share no state: that LoadFromConfDir()     *)
(* takes over every edit of its file, whenever it is made; that the        *)
(* constructor of Thread hands over an object of which run() needs nothing *)
(* more, and that an owner who joins before it destroys it is safe from    *)
(* the callback too; that a ByteArray is a Buffer; and that what it codes  *)
(* it reads back.  For any names, values and bytes, any size of a block,   *)
(* and integers of any width.                                              *)
(***************************************************************************)
EXTENDS Config, Thread, ByteArray, SequenceTheorems, WellFoundedInduction, TLAPS

-----------------------------------------------------------------------------
(* Config.                                                                  *)

PCs   == {"idle", "load", "set", "assign"}
Nodes == SUBSET (Names \X Texts)

Types ==
  /\ file \in [content : Contents, wellFormed : BOOLEAN, mtime : Nat]
  /\ loader \in [pc : PCs, nodes : Nodes,
                 name : Names \cup {Default}, value : Values \cup {Default}]
  /\ shown \subseteq Names \cap DOMAIN datas
  /\ loader.pc = "assign" => loader.name \in Names \cap DOMAIN datas

Times == recorded \in Nat /\ clock \in Nat /\ recorded <= file.mtime /\ file.mtime <= clock

\* The file has not changed since the loader noted its time.
UpToDate == recorded = file.mtime /\ file.wellFormed

\* The node of name n is still to be set, or being set.
ToBeSet(n) ==
  \/ loader.pc \in {"set", "assign"} /\ <<n, file.content[n]>> \in loader.nodes
  \/ loader.pc = "assign" /\ loader.name = n

\* What the loader holds came from the file, and what it has set it has set to that.
Taken ==
  UpToDate /\ loader.pc # "load" =>
    /\ \A node \in loader.nodes :
         node[1] \in DOMAIN file.content /\ node[2] = file.content[node[1]]
    /\ loader.pc = "assign" =>
         loader.name \in DOMAIN file.content /\ loader.value = file.content[loader.name]
    /\ \A n \in shown \cap DOMAIN file.content :
         file.content[n] \in Values => datas[n] = file.content[n] \/ ToBeSet(n)

\* An idle loader has nothing left to set.
AtRest == loader.pc = "idle" => loader.nodes = {}

ConfigInv == Types /\ Times /\ Taken /\ AtRest

LEMMA ContentIsFunction ==
  ASSUME NEW c \in Contents
  PROVE  DOMAIN c \subseteq Keys /\ \A k \in DOMAIN c : c[k] \in Texts
  BY DEF Contents

LEMMA InitHolds == ConfigInit => ConfigInv
  BY DEF ConfigInit, ConfigInv, Types, Times, Taken, AtRest, ToBeSet, UpToDate, Idle, PCs, Nodes,
         Contents

\* The steps of the program leave alone what the loader has set; SetValueAssigns()
\* says of the name it overwrites that it is no longer shown.
LEMMA ProgramSteps ==
  ASSUME ConfigInv,
         \/ \E n \in Names : Lookup(n) \/ \E v \in Values : SetValue(n, v)
         \/ SetValueAssigns
  PROVE  ConfigInv'
  <1> USE DEF ConfigInv, Types, Times, Taken, AtRest, ToBeSet, UpToDate
  <1>1. ASSUME NEW n \in Names, Lookup(n) PROVE ConfigInv'
    <2>1. /\ DOMAIN datas' = DOMAIN datas \cup {n}
          /\ \A k \in DOMAIN datas : datas'[k] = datas[k]
      BY <1>1 DEF Lookup
    <2>2. UNCHANGED <<file, recorded, clock, loader, setter, shown>>
      BY <1>1 DEF Lookup
    <2>3. Types' /\ Times' /\ AtRest'
      BY <2>1, <2>2
    <2>4. Taken'
      BY <2>1, <2>2
    <2> QED
      BY <2>3, <2>4
  <1>2. ASSUME NEW n \in Names, NEW v \in Values, SetValue(n, v) PROVE ConfigInv'
    BY <1>2 DEF SetValue
  <1>3. CASE SetValueAssigns
    <2>1. /\ DOMAIN datas' = DOMAIN datas /\ shown' = shown \ {setter.name}
          /\ \A k \in shown' : datas'[k] = datas[k]
          /\ UNCHANGED <<file, recorded, clock, loader>>
      BY <1>3 DEF SetValueAssigns
    <2> QED
      BY <2>1
  <1> QED
    BY <1>1, <1>2, <1>3

\* An edit is later than the time the loader has noted: nothing is fresh any more.
LEMMA FileSteps ==
  ASSUME ConfigInv, (\E c \in Contents, ok \in BOOLEAN : Edit(c, ok)) \/ TimePasses
  PROVE  ConfigInv'
  <1> USE DEF ConfigInv, Types, Times, Taken, AtRest, ToBeSet, UpToDate
  <1>1. ASSUME NEW c \in Contents, NEW ok \in BOOLEAN, Edit(c, ok) PROVE ConfigInv'
    <2>1. file' \in [content : Contents, wellFormed : BOOLEAN, mtime : Nat] /\ file'.mtime = clock
      BY <1>1 DEF Edit
    <2>2. recorded' # file'.mtime
      BY <1>1, <2>1 DEF Edit
    <2> QED
      BY <1>1, <2>1, <2>2 DEF Edit
  <1>2. CASE TimePasses
    BY <1>2 DEF TimePasses
  <1> QED
    BY <1>1, <1>2

LEMMA LoadSteps ==
  ASSUME ConfigInv, (\E force \in BOOLEAN : CheckFile(force)) \/ LoadFile
  PROVE  ConfigInv'
  <1> USE DEF ConfigInv, Types, Times, Taken, AtRest, ToBeSet, UpToDate, PCs, Nodes
  <1>1. ASSUME NEW force \in BOOLEAN, CheckFile(force) PROVE ConfigInv'
    BY <1>1 DEF CheckFile, Loads
  <1>2. CASE LoadFile
    <2>1. CASE ~file.wellFormed
      BY <1>2, <2>1 DEF LoadFile, Loads, Idle
    <2>2. CASE file.wellFormed
      <3> DEFINE nodes == {<<k, file.content[k]>> : k \in DOMAIN file.content \cap Names}
      <3>1. nodes \in Nodes
        BY ContentIsFunction
      <3>2. loader' = [loader EXCEPT !.pc = "set", !.nodes = nodes]
        BY <1>2, <2>2 DEF LoadFile
      <3>3. \A n \in shown \cap DOMAIN file.content : <<n, file.content[n]>> \in nodes
        OBVIOUS
      <3>4. UNCHANGED <<file, clock, setter, datas, recorded, shown>>
        BY <1>2 DEF LoadFile, Loads
      <3>5. loader'.pc = "set" /\ loader'.nodes = nodes
        BY <3>2
      <3>6. Types' /\ Times' /\ AtRest'
        BY <3>1, <3>2, <3>4
      <3> HIDE DEF nodes
      <3>7. \A node \in nodes :
              node[1] \in DOMAIN file.content /\ node[2] = file.content[node[1]]
        BY DEF nodes
      <3>8. Taken'
        BY <3>3, <3>4, <3>5, <3>7
      <3> QED
        BY <3>6, <3>8
    <2> QED
      BY <2>1, <2>2
  <1> QED
    BY <1>1, <1>2

\* The node that is taken is the file's, so that what it sets is what the file says.
LEMMA FromStringStep ==
  ASSUME ConfigInv, NEW k \in Names, NEW text \in Texts, FromString(k, text)
  PROVE  ConfigInv'
  <1> USE DEF ConfigInv, Types, Times, Taken, AtRest, ToBeSet, UpToDate, PCs, Nodes
  <1> DEFINE rest == loader.nodes \ {<<k, text>>}
  <1>1. CASE k \in DOMAIN datas /\ text \in Values /\ text # datas[k]
    <2>1. loader' = [pc |-> "assign", nodes |-> rest, name |-> k, value |-> text]
      BY <1>1 DEF FromString
    <2>2. UNCHANGED <<file, clock, setter, datas, recorded, shown>> /\ loader.pc = "set"
      BY <1>1 DEF FromString, Loads
    <2> QED
      BY <1>1, <2>1, <2>2 DEF FromString
  <1>2. CASE ~(k \in DOMAIN datas /\ text \in Values /\ text # datas[k])
    <2>1. /\ loader' = [loader EXCEPT !.nodes = rest]
          /\ shown' = IF k \in DOMAIN datas /\ text \in Values THEN shown \cup {k} ELSE shown
      BY <1>2 DEF FromString
    <2>2. UNCHANGED <<file, clock, setter, datas, recorded>> /\ loader.pc = "set"
      BY <1>2 DEF FromString, Loads
    <2> QED
      BY <1>2, <2>1, <2>2 DEF FromString
  <1> QED
    BY <1>1, <1>2

LEMMA LastSteps ==
  ASSUME ConfigInv, FromStringAssigns \/ Loaded
  PROVE  ConfigInv'
  <1> USE DEF ConfigInv, Types, Times, Taken, AtRest, ToBeSet, UpToDate, PCs, Nodes
  <1>1. CASE FromStringAssigns
    <2>1. /\ DOMAIN datas' = DOMAIN datas
          /\ datas'[loader.name] = loader.value
          /\ \A n \in DOMAIN datas : n # loader.name => datas'[n] = datas[n]
      BY <1>1 DEF FromStringAssigns
    <2>2. loader' = [pc |-> "set", nodes |-> loader.nodes, name |-> Default, value |-> Default]
      BY <1>1 DEF FromStringAssigns, Idle
    <2>3. /\ shown' = shown \cup {loader.name} /\ loader.pc = "assign"
          /\ UNCHANGED <<file, clock, setter, recorded>>
      BY <1>1 DEF FromStringAssigns, Loads
    <2>4. loader.name \in Names
      BY <2>3
    <2>5. Types' /\ Times' /\ AtRest'
      <3>1. shown' \subseteq Names \cap DOMAIN datas'
        BY <2>1, <2>3, <2>4
      <3>2. loader' \in [pc : PCs, nodes : Nodes, name : Names \cup {Default},
                         value : Values \cup {Default}]
        <4>1. loader.nodes \in Nodes
          OBVIOUS
        <4> QED
          BY <4>1, <2>2
      <3> QED
        BY <3>1, <3>2, <2>2, <2>3
    <2>6. Taken'
      <3> SUFFICES ASSUME UpToDate' PROVE Taken'
        OBVIOUS
      <3>1. loader.value = file.content[loader.name]
        BY <2>3
      <3>2. ASSUME NEW n \in shown', n \in DOMAIN file.content, file.content[n] \in Values
            PROVE  datas'[n] = file.content[n] \/ ToBeSet(n)'
        BY <3>1, <3>2, <2>1, <2>2, <2>3
      <3> QED
        BY <3>2, <2>2, <2>3
    <2> QED
      BY <2>5, <2>6
  <1>2. CASE Loaded
    BY <1>2 DEF Loaded, Loads, Idle
  <1> QED
    BY <1>1, <1>2

LEMMA StepKeeps == ConfigInv /\ [ConfigNext]_configVars => ConfigInv'
  <1> SUFFICES ASSUME ConfigInv, [ConfigNext]_configVars PROVE ConfigInv'
    OBVIOUS
  <1>1. CASE UNCHANGED configVars
    BY <1>1 DEF configVars, ConfigInv, Types, Times, Taken, AtRest, ToBeSet, UpToDate
  <1>2. CASE ConfigNext
    BY <1>2, ProgramSteps, FileSteps, LoadSteps, FromStringStep, LastSteps DEF ConfigNext
  <1> QED
    BY <1>1, <1>2

\* A LoadFromConfDir() that skips the file misses no edit of it: not one made between
\* its look at the file's time and its reading of it, nor one made while it sets the
\* values (config.cc:49-108).
THEOREM EveryEditIsTaken == ConfigSpec => []NoEditIsMissed
  <1>1. ConfigInv => NoEditIsMissed
    BY DEF ConfigInv, Types, Taken, AtRest, ToBeSet, UpToDate, NoEditIsMissed
  <1> QED
    BY <1>1, InitHolds, StepKeeps, PTL DEF ConfigSpec

-----------------------------------------------------------------------------
(* Thread.                                                                  *)

Ready == {"ready", "notified", "returned"}
Gone  == {"detached", "destroyed"}

\* What the owner may conclude from the semaphore, which is given once, by a thread
\* that has taken all that run() needs: so the object is freed only after that.  And
\* from join(): the callback has returned.
HandOver ==
  /\ sem \in Nat
  /\ published \in [name : {"none", "given", "set"}, id : BOOLEAN]
  /\ owner \in {"constructing", "threw"} => runner = "none"
  /\ runner = "none" => sem = 0
  /\ object = "freed" => owner \in Gone
  /\ sem > 0 => runner \in {"notified", "returned"}
  /\ owner \in {"owns"} \cup Gone => runner \in {"notified", "returned"}
  /\ owner \in {"joined", "destroyed"} => runner = "returned"
  /\ runner \in Ready /\ owner \notin Gone => object = "taken"
  /\ runner \in Ready \cup {"known"} => published.name # "none" /\ published.id
  /\ runner = "named" => published.name # "none"
  /\ "run" \notin faults
  /\ faults # {} => owner = "detached"

\* The object outlives every step of run() that touches it; what the callback does
\* to it comes before join() returns.
LEMMA StepHandsOver == HandOver /\ [ThreadNext]_threadVars => HandOver'
  <1> SUFFICES ASSUME HandOver, [ThreadNext]_threadVars PROVE HandOver'
    OBVIOUS
  <1> USE DEF HandOver, Ready, Gone
  <1>1. CASE Create
    BY <1>1 DEF Create
  <1>2. CASE Wait
    BY <1>2 DEF Wait
  <1>3. CASE Join
    BY <1>3 DEF Join
  <1>4. CASE Destroy
    BY <1>4 DEF Destroy
  <1>5. CASE SetThis \/ SetId \/ TakeCallback \/ Notify
    <2>1. object # "freed"
      BY <1>5 DEF SetThis, SetId, TakeCallback, Notify
    <2>2. UNCHANGED <<owner, faults>>
      BY <1>5, <2>1 DEF SetThis, SetId, TakeCallback, Notify, Touches
    <2>3. CASE SetThis \/ SetId
      BY <2>2, <2>3 DEF SetThis, SetId
    <2>4. CASE TakeCallback \/ Notify
      BY <2>2, <2>4 DEF TakeCallback, Notify
    <2> QED
      BY <1>5, <2>3, <2>4
  <1>6. CASE SetName \/ UseThis
    <2>1. /\ "run" \notin faults'
          /\ faults' # {} => owner = "detached"
      BY <1>6 DEF SetName, UseThis, Touches
    <2>2. CASE SetName
      BY <2>1, <2>2 DEF SetName
    <2>3. CASE UseThis
      BY <2>1, <2>3 DEF UseThis
    <2> QED
      BY <1>6, <2>2, <2>3
  <1>7. CASE Call
    BY <1>7 DEF Call
  <1>8. CASE UNCHANGED threadVars
    BY <1>8 DEF threadVars
  <1> QED
    BY <1>1, <1>2, <1>3, <1>4, <1>5, <1>6, <1>7, <1>8 DEF ThreadNext

\* When the constructor returns, run() has taken the name, the id and the callback and
\* has no more use for the object, which its owner may then destroy at once or after
\* join().  If it is used after it was freed, then by the callback, through
\* g_cur_thread (SetName(), GetThis()), of a thread that was never joined
\* (thread.cc:19-40, 57-98).
THEOREM RunHandsOverObject == ThreadSpec => []ObjectIsHandedOver
  <1>1. ThreadInit => HandOver
    BY DEF ThreadInit, HandOver, Ready, Gone, Unpublished
  <1>2. HandOver => ObjectIsHandedOver
    BY DEF HandOver, ObjectIsHandedOver, Ready, Gone
  <1> QED
    BY <1>1, <1>2, StepHandsOver, PTL DEF ThreadSpec

-----------------------------------------------------------------------------
(* ByteArray.  The blocks cover what is in use, and cur_ is the block of    *)
(* the position, or null at the very end of the last one.  So the walk      *)
(* along the list from cur_ meets the cells of the positions.               *)

\* A function on 1..l is a sequence.
LEMMA SequenceOf ==
  ASSUME NEW S, NEW l \in Nat, NEW f \in [1..l -> S]
  PROVE  f \in Seq(S) /\ Len(f) = l /\ DOMAIN f = 1..l
OBVIOUS

Memory == Seq(Bytes \cup {Unset})
Whole(m) == m \in Memory /\ Len(m) > 0 /\ Len(m) % BaseSize = 0

Cursor ==
  /\ Whole(mem)
  /\ position \in Nat /\ size \in Nat /\ position <= size /\ size <= capacity
  /\ cur = BlockAt(position, mem)

\* Blocks are whole.
LEMMA Multiples ==
  ASSUME NEW b \in Nat \ {0}, NEW x \in Nat
  PROVE  b * x \in Nat /\ (b * x) % b = 0
PROOF
<1>1. b * x \in Nat
  OBVIOUS
<1>2. PICK p \in Nat : p = b * x
  BY <1>1
<1>3. p = b * (p \div b) + (p % b) /\ p % b \in 0..(b - 1) /\ p \div b \in Nat
  OBVIOUS
<1>4. p \div b = x
  BY <1>2
<1>5. p % b = 0
  BY <1>2, <1>3, <1>4
<1> QED
  BY <1>1, <1>2, <1>5

\* The block of a position, with no division where there is none to make.
LEMMA BlockOfPosition ==
  ASSUME NEW p \in Nat, NEW m, Whole(m)
  PROVE  /\ BlockAt(p, m) = IF p < Len(m) THEN (p \div BaseSize) + 1 ELSE Null
         /\ p \div BaseSize \in Nat
PROOF
<1>1. /\ BaseSize \in Nat \ {0} /\ Len(m) \in Nat /\ Blocks(m) = Len(m) \div BaseSize
      /\ Len(m) % BaseSize = 0
  BY BytesAssumption DEF Whole, Memory, Blocks
<1>2. Len(m) = BaseSize * Blocks(m) /\ Blocks(m) \in Nat
  BY <1>1
<1>3. /\ p \div BaseSize \in Nat
      /\ p < BaseSize * Blocks(m) => (p \div BaseSize) + 1 <= Blocks(m)
      /\ ~(p < BaseSize * Blocks(m)) => (p \div BaseSize) + 1 > Blocks(m)
  BY <1>1, <1>2
<1> QED
  BY <1>1, <1>2, <1>3 DEF BlockAt, Block

\* From the block of position p, the cells of the bytes behind it are those of the
\* positions behind it, and the block the loops end in is that of where they end.
LEMMA WalkIsFlat ==
  ASSUME NEW p \in Nat, NEW m, Whole(m), NEW n \in Nat
  PROVE  /\ Cell((p \div BaseSize) + 1, p, n) = p + n
         /\ After((p \div BaseSize) + 1, p, n, m) = BlockAt(p + n, m)
PROOF
<1>1. BaseSize \in Nat \ {0} /\ p \div BaseSize \in Nat /\ p % BaseSize \in Nat
  BY BytesAssumption
<1>2. p = (p \div BaseSize) * BaseSize + (p % BaseSize)
  BY <1>1
<1>3. (p + n) \div BaseSize = (p \div BaseSize) + (((p % BaseSize) + n) \div BaseSize)
  BY <1>1, <1>2
<1>4. ((p % BaseSize) + n) \div BaseSize \in Nat
  BY <1>1
<1>5. (p \div BaseSize) + 1 + (((p % BaseSize) + n) \div BaseSize) = ((p + n) \div BaseSize) + 1
  BY <1>1, <1>3, <1>4
<1> QED
  BY <1>1, <1>2, <1>5 DEF Cell, After, BlockAt

\* addCapacity() makes room for n bytes, keeps what is there, and leaves cur_ at the
\* block of the position; it is null only if there is nothing to write.
LEMMA Grows ==
  ASSUME Cursor, NEW n \in Nat
  PROVE  /\ Whole(Grown(n)) /\ position + n <= Len(Grown(n)) /\ capacity <= Len(Grown(n))
         /\ \A i \in 1..capacity : Grown(n)[i] = mem[i]
         /\ GrownCur(n) = BlockAt(position, Grown(n))
         /\ n > 0 => GrownCur(n) # Null
PROOF
<1> DEFINE k == Missing(n)
           short == n - (capacity - position)
<1>1. /\ BaseSize \in Nat \ {0} /\ mem \in Memory /\ capacity \in Nat /\ capacity = Len(mem)
      /\ position \in Nat /\ position <= capacity /\ capacity % BaseSize = 0
      /\ capacity > 0
  BY BytesAssumption DEF Cursor, Whole, Memory, capacity
<1>2. k \in Nat /\ k % BaseSize = 0 /\ short <= k /\ (short <= 0 => k = 0)
  <2>1. CASE short <= 0
    BY <1>1, <2>1 DEF Missing
  <2>2. CASE short > 0
    <3> DEFINE q == (short + BaseSize - 1) \div BaseSize
    <3>1. q \in Nat /\ short <= BaseSize * q
      BY <1>1, <2>2
    <3>2. k = BaseSize * q
      BY <1>1, <2>2 DEF Missing
    <3> HIDE DEF q
    <3>3. BaseSize * q \in Nat /\ (BaseSize * q) % BaseSize = 0
      BY <1>1, <3>1, Multiples
    <3>4. ~(short <= 0)
      BY <1>1, <2>2
    <3> HIDE DEF k, short
    <3> QED
      BY <3>1, <3>2, <3>3, <3>4
  <2> QED
    BY <1>1, <2>1, <2>2
<1>3. /\ Grown(n) \in Memory /\ Len(Grown(n)) = capacity + k
      /\ \A i \in 1..capacity : Grown(n)[i] = mem[i]
  <2>1. Blank(k) \in Memory /\ Len(Blank(k)) = k
    <3>1. Blank(k) \in [1..k -> Bytes \cup {Unset}]
      BY DEF Blank
    <3> QED
      BY <1>2, <3>1 DEF Memory
  <2> HIDE DEF k
  <2>2. /\ mem \o Blank(k) \in Memory /\ Len(mem \o Blank(k)) = Len(mem) + Len(Blank(k))
        /\ \A i \in 1..(Len(mem) + Len(Blank(k))) :
             (mem \o Blank(k))[i] = IF i <= Len(mem) THEN mem[i] ELSE Blank(k)[i - Len(mem)]
    BY <1>1, <2>1, ConcatProperties DEF Memory
  <2>3. Grown(n) = mem \o Blank(k)
    BY DEF Grown, k
  <2> QED
    BY <1>1, <1>2, <2>1, <2>2, <2>3
<1> HIDE DEF k
<1>4. (capacity + k) % BaseSize = 0
  <2>1. PICK x \in Nat, y \in Nat : capacity = BaseSize * x /\ k = BaseSize * y
    <3>1. /\ capacity \div BaseSize \in Nat /\ capacity = BaseSize * (capacity \div BaseSize)
          /\ k \div BaseSize \in Nat /\ k = BaseSize * (k \div BaseSize)
      BY <1>1, <1>2
    <3> QED
      BY <3>1
  <2>2. capacity + k = BaseSize * (x + y) /\ x + y \in Nat
    BY <1>1, <2>1
  <2>3. (BaseSize * (x + y)) % BaseSize = 0
    BY <1>1, <2>2, Multiples
  <2> QED
    BY <2>2, <2>3
<1>5. Whole(Grown(n)) /\ position + n <= Len(Grown(n)) /\ capacity <= Len(Grown(n))
  BY <1>1, <1>2, <1>3, <1>4 DEF Whole
<1>6. GrownCur(n) = BlockAt(position, Grown(n))
  <2>1. /\ BlockAt(position, Grown(n)) =
             IF position < capacity + k THEN (position \div BaseSize) + 1 ELSE Null
        /\ cur = IF position < capacity THEN (position \div BaseSize) + 1 ELSE Null
    BY <1>1, <1>3, <1>5, BlockOfPosition DEF Cursor
  <2>2. CASE n > 0 /\ capacity = position
    <3>1. position < capacity + k
      BY <1>1, <1>2, <2>2
    <3>2. GrownCur(n) = (position \div BaseSize) + 1
      BY <1>1, <2>2 DEF GrownCur, Blocks
    <3> QED
      BY <2>1, <3>1, <3>2
  <2>3. CASE ~(n > 0 /\ capacity = position)
    <3>1. GrownCur(n) = cur
      BY <2>3 DEF GrownCur
    <3>2. position < capacity + k <=> position < capacity
      BY <1>1, <1>2, <2>3
    <3> QED
      BY <2>1, <3>1, <3>2
  <2> QED
    BY <2>2, <2>3
<1>7. n > 0 => GrownCur(n) # Null
  <2>1. n > 0 => position < Len(Grown(n))
    BY <1>1, <1>5
  <2>2. (position \div BaseSize) + 1 # Null
    BY <1>1 DEF Null
  <2> QED
    BY <1>1, <1>5, <1>6, <2>1, <2>2, BlockOfPosition
<1> QED
  BY <1>3, <1>5, <1>6, <1>7

\* What the loops of a write store, seen as one sequence.
LEMMA StoresFlat ==
  ASSUME position \in Nat, NEW m, Whole(m), NEW bs \in Seq(Bytes), position + Len(bs) <= Len(m),
         NEW c, Len(bs) > 0 => c = BlockAt(position, m) /\ c # Null
  PROVE  /\ Whole(Stored(bs, m, c)) /\ Len(Stored(bs, m, c)) = Len(m)
         /\ \A i \in 1..Len(m) : Stored(bs, m, c)[i] =
              IF i \in (position + 1)..(position + Len(bs)) THEN bs[i - position] ELSE m[i]
PROOF
<1>1. Len(m) \in Nat /\ m \in Memory /\ Len(bs) \in Nat /\ \A k \in 1..Len(bs) : bs[k] \in Bytes
  BY DEF Whole, Memory
<1>2. \A k \in 1..Len(bs) : Cell(c, position, k) = position + k
  <2> SUFFICES ASSUME NEW k \in 1..Len(bs) PROVE Cell(c, position, k) = position + k
    OBVIOUS
  <2>1. c = (position \div BaseSize) + 1
    BY <1>1, BlockOfPosition
  <2> QED
    BY <1>1, <2>1, WalkIsFlat
<1> DEFINE hits(i) == \E k \in 1..Len(bs) : Cell(c, position, k) = i
           value(i) == IF hits(i) THEN bs[CHOOSE k \in 1..Len(bs) : Cell(c, position, k) = i]
                                  ELSE m[i]
<1>3. \A i \in 1..Len(m) : value(i) =
        IF i \in (position + 1)..(position + Len(bs)) THEN bs[i - position] ELSE m[i]
  <2> SUFFICES ASSUME NEW i \in 1..Len(m)
               PROVE  value(i) = IF i \in (position + 1)..(position + Len(bs))
                                 THEN bs[i - position] ELSE m[i]
    OBVIOUS
  <2>1. CASE i \in (position + 1)..(position + Len(bs))
    <3>1. i - position \in 1..Len(bs) /\ Cell(c, position, i - position) = i
      BY <1>1, <1>2, <2>1
    <3>2. \A k \in 1..Len(bs) : Cell(c, position, k) = i => k = i - position
      BY <1>1, <1>2
    <3>3. hits(i) /\ (CHOOSE k \in 1..Len(bs) : Cell(c, position, k) = i) = i - position
      BY <3>1, <3>2
    <3> QED
      BY <2>1, <3>3
  <2>2. CASE i \notin (position + 1)..(position + Len(bs))
    <3>1. ~hits(i)
      BY <1>1, <1>2, <2>2
    <3> QED
      BY <2>2, <3>1
  <2> QED
    BY <2>1, <2>2
<1>4. Stored(bs, m, c) = [i \in 1..Len(m) |-> value(i)]
  BY DEF Stored
<1> HIDE DEF value
<1>5. \A i \in 1..Len(m) : value(i) \in Bytes \cup {Unset}
  <2> SUFFICES ASSUME NEW i \in 1..Len(m) PROVE value(i) \in Bytes \cup {Unset}
    OBVIOUS
  <2>1. m[i] \in Bytes \cup {Unset}
    BY <1>1 DEF Memory
  <2>2. i \in (position + 1)..(position + Len(bs)) => i - position \in 1..Len(bs)
    BY <1>1
  <2> QED
    BY <1>1, <1>3, <2>1, <2>2
<1>6. Stored(bs, m, c) \in [1..Len(m) -> Bytes \cup {Unset}]
  BY <1>4, <1>5
<1>7. Stored(bs, m, c) \in Memory /\ Len(Stored(bs, m, c)) = Len(m)
  <2>1. Len(m) \in Nat
    BY <1>1 DEF Memory
  <2> QED
    BY <1>6, <2>1, SequenceOf DEF Memory
<1> QED
  BY <1>3, <1>4, <1>7 DEF Whole

\* Part of a sequence.
LEMMA PartOf ==
  ASSUME NEW S, NEW m \in Seq(S), NEW a \in Nat, NEW n \in Nat, a + n <= Len(m)
  PROVE  /\ SubSeq(m, a + 1, a + n) \in Seq(S)
         /\ Len(SubSeq(m, a + 1, a + n)) = n
         /\ \A i \in 1..n : SubSeq(m, a + 1, a + n)[i] = m[a + i]
         /\ SubSeq(m, a + 1, a + n) = [i \in 1..n |-> m[a + i]]
PROOF
<1>1. Len(m) \in Nat /\ DOMAIN m = 1..Len(m)
  OBVIOUS
<1>2. \A i \in (a + 1)..(a + n) : i \in 1..Len(m)
  BY <1>1
<1>3. /\ SubSeq(m, a + 1, a + n) \in Seq(S)
      /\ Len(SubSeq(m, a + 1, a + n)) = IF a + 1 <= a + n THEN (a + n) - (a + 1) + 1 ELSE 0
      /\ \A i \in 1..((a + n) - (a + 1) + 1) :
           SubSeq(m, a + 1, a + n)[i] = m[(a + 1) + i - 1]
  BY <1>1, <1>2, SubSeqProperties
<1>4. /\ (IF a + 1 <= a + n THEN (a + n) - (a + 1) + 1 ELSE 0) = n
      /\ \A i \in 1..n : i \in 1..((a + n) - (a + 1) + 1) /\ (a + 1) + i - 1 = a + i
  BY <1>1
<1>5. /\ SubSeq(m, a + 1, a + n) \in Seq(S) /\ Len(SubSeq(m, a + 1, a + n)) = n
      /\ \A i \in 1..n : SubSeq(m, a + 1, a + n)[i] = m[a + i]
  BY <1>3, <1>4
<1>6. ASSUME NEW s \in Seq(S), Len(s) = n, \A i \in 1..n : s[i] = m[a + i]
      PROVE  s = [i \in 1..n |-> m[a + i]]
  <2>1. DOMAIN s = 1..n /\ s = [i \in DOMAIN s |-> s[i]]
    BY <1>6
  <2> QED
    BY <1>6, <2>1
<1> QED
  BY <1>5, <1>6

\* The bytes in use, as the buffer has them.
LEMMA InUse ==
  ASSUME Cursor
  PROVE  /\ mem \in Memory /\ Len(mem) \in Nat /\ capacity = Len(mem)
         /\ SubSeq(mem, 1, size) = [i \in 1..size |-> mem[i]]
         /\ Len(SubSeq(mem, 1, size)) = size
PROOF
<1>1. mem \in Seq(Bytes \cup {Unset}) /\ size \in Nat /\ 0 + size <= Len(mem) /\ 0 \in Nat
  BY DEF Cursor, Whole, Memory, capacity
<1>2. /\ SubSeq(mem, 0 + 1, 0 + size) = [i \in 1..size |-> mem[0 + i]]
      /\ Len(SubSeq(mem, 0 + 1, 0 + size)) = size
  BY <1>1, PartOf
<1>3. 0 + 1 = 1 /\ 0 + size = size /\ \A i \in 1..size : 0 + i = i
  BY <1>1
<1> QED
  BY <1>1, <1>2, <1>3 DEF Memory, capacity

\* What reading n bytes hands out is what the buffer has there.
LEMMA FetchesFlat ==
  ASSUME Cursor, NEW n \in Nat, n <= ReadSize, n > 0 => cur # Null
  PROVE  /\ Fetched(n) = SubSeq(SubSeq(mem, 1, size), position + 1, position + n)
         /\ position + n <= size
PROOF
<1> DEFINE data == SubSeq(mem, 1, size)
<1>1. position \in Nat /\ size \in Nat /\ position + n <= size /\ Whole(mem)
  BY DEF Cursor, ReadSize
<1>2. data \in Memory /\ Len(data) = size /\ \A i \in 1..size : data[i] = mem[i]
  <2>1. \A i \in 1..size : mem[i] \in Bytes \cup {Unset}
    BY <1>1, InUse DEF Memory, Cursor
  <2>2. [i \in 1..size |-> mem[i]] \in Seq(Bytes \cup {Unset})
    BY <1>1, <2>1
  <2> QED
    BY <1>1, <2>2, InUse DEF Memory
<1> HIDE DEF data
<1>3. SubSeq(data, position + 1, position + n) = [i \in 1..n |-> data[position + i]]
  BY <1>1, <1>2, PartOf DEF Memory
<1>4. \A i \in 1..n : Cell(cur, position, i) = position + i
  <2> SUFFICES ASSUME NEW i \in 1..n PROVE Cell(cur, position, i) = position + i
    OBVIOUS
  <2>1. cur = (position \div BaseSize) + 1
    BY <1>1, BlockOfPosition DEF Cursor
  <2> QED
    BY <1>1, <2>1, WalkIsFlat
<1>5. \A i \in 1..n : data[position + i] = mem[Cell(cur, position, i)]
  BY <1>1, <1>2, <1>4
<1> QED
  BY <1>1, <1>3, <1>5 DEF Fetched, data

\* Storing bs at the position, and perhaps room behind it, is the buffer's write.
LEMMA PutMaps ==
  ASSUME Cursor, NEW bs \in Seq(Bytes), Whole(mem'), position + Len(bs) <= Len(mem'),
         capacity <= Len(mem'),
         \A i \in 1..capacity : i \notin (position + 1)..(position + Len(bs)) => mem'[i] = mem[i],
         \A i \in (position + 1)..(position + Len(bs)) : mem'[i] = bs[i - position],
         position' = position + Len(bs), size' = Larger(size, position + Len(bs)), out' = bs
  PROVE  /\ Flat!Write
         /\ position' \in Nat /\ size' \in Nat /\ position' <= size' /\ size' <= Len(mem')
PROOF
<1>1. /\ position \in Nat /\ size \in Nat /\ position <= size /\ size <= capacity
      /\ capacity = Len(mem) /\ Len(bs) \in Nat /\ Len(mem') \in Nat /\ Len(mem) \in Nat
  BY InUse DEF Cursor, Whole, Memory
<1>2. size' = (IF position + Len(bs) > size THEN position + Len(bs) ELSE size)
  BY <1>1 DEF Larger
<1>3. position' \in Nat /\ size' \in Nat /\ position' <= size' /\ size' <= Len(mem')
  BY <1>1, <1>2
<1>4. SubSeq(mem', 1, size') = [i \in 1..size' |-> mem'[i]]
  <2>1. /\ mem' \in Seq(Bytes \cup {Unset}) /\ 0 \in Nat /\ 0 + size' <= Len(mem')
    BY <1>3 DEF Whole, Memory
  <2>2. SubSeq(mem', 0 + 1, 0 + size') = [i \in 1..size' |-> mem'[0 + i]]
    BY <1>3, <2>1, PartOf
  <2>3. 0 + 1 = 1 /\ 0 + size' = size' /\ \A i \in 1..size' : 0 + i = i
    BY <1>3
  <2> QED
    BY <2>2, <2>3
<1> DEFINE data == SubSeq(mem, 1, size)
<1>5. Len(data) = size /\ \A i \in 1..size : data[i] = mem[i]
  BY InUse
<1> HIDE DEF data
<1>6. \A i \in 1..size' :
        mem'[i] = IF i \in (position + 1)..(position + Len(bs)) THEN bs[i - position] ELSE data[i]
  <2> SUFFICES ASSUME NEW i \in 1..size', i \notin (position + 1)..(position + Len(bs))
               PROVE  mem'[i] = data[i]
    OBVIOUS
  <2>1. i \in 1..size /\ i \in 1..capacity
    BY <1>1, <1>2
  <2> QED
    BY <1>5, <2>1
<1>7. SubSeq(mem', 1, size') =
        [i \in 1..(IF position + Len(bs) > Len(data) THEN position + Len(bs) ELSE Len(data)) |->
           IF i \in (position + 1)..(position + Len(bs)) THEN bs[i - position] ELSE data[i]]
  BY <1>2, <1>4, <1>5, <1>6
<1> QED
  BY <1>3, <1>7 DEF Flat!Write, Flat!Put, data

\* A write, and a transfer into the array that may end early, keep the cursor at the
\* position and are the buffer's write.
LEMMA WritesMap ==
  ASSUME Cursor, NEW bs \in Seq(Bytes), NEW n \in Nat, Len(bs) <= n,
         (Write(bs) /\ n = Len(bs)) \/ ReadFixSize(bs, n)
  PROVE  Cursor' /\ Flat!Write
PROOF
<1> DEFINE m == Grown(n)
           c == GrownCur(n)
           S == Stored(bs, m, c)
<1>1. /\ position \in Nat /\ Len(bs) \in Nat /\ Whole(mem) /\ capacity = Len(mem)
      /\ Len(mem) \in Nat /\ position <= capacity
  BY InUse DEF Cursor
<1>2. /\ Whole(m) /\ position + n <= Len(m) /\ capacity <= Len(m) /\ Len(m) \in Nat
      /\ \A i \in 1..capacity : m[i] = mem[i]
      /\ c = BlockAt(position, m) /\ (n > 0 => c # Null)
  <2>1. /\ Whole(m) /\ position + n <= Len(m) /\ capacity <= Len(m)
        /\ \A i \in 1..capacity : m[i] = mem[i]
        /\ c = BlockAt(position, m) /\ (n > 0 => c # Null)
    BY Grows
  <2> HIDE DEF m, c
  <2> QED
    BY <2>1 DEF Whole, Memory
<1>3. /\ position' = position + Len(bs) /\ size' = Larger(size, position + Len(bs)) /\ out' = bs
      /\ cur' = BlockAt(position + Len(bs), mem')
      /\ mem' = S \/ (mem' = mem /\ Len(bs) = 0)
  <2>1. CASE ReadFixSize(bs, n)
    <3>1. /\ mem' = S /\ cur' = IF bs = <<>> THEN c ELSE BlockAt(position + Len(bs), m)
          /\ position' = position + Len(bs) /\ size' = Larger(size, position + Len(bs)) /\ out' = bs
      BY <2>1 DEF ReadFixSize
    <3>2. Whole(S) /\ Len(S) = Len(m)
      BY <1>1, <1>2, StoresFlat
    <3>3. BlockAt(position + Len(bs), S) = BlockAt(position + Len(bs), m)
      BY <3>2 DEF BlockAt, Block, Blocks
    <3>4. bs = <<>> => c = BlockAt(position + Len(bs), m)
      BY <1>1, <1>2
    <3> QED
      BY <3>1, <3>3, <3>4
  <2>2. CASE Write(bs) /\ n = Len(bs) /\ bs # <<>>
    <3>1. /\ mem' = S /\ cur' = After(c, position, Len(bs), m)
          /\ position' = position + Len(bs) /\ size' = Larger(size, position + Len(bs)) /\ out' = bs
      BY <2>2 DEF Write
    <3>2. Whole(S) /\ Len(S) = Len(m)
      BY <1>1, <1>2, StoresFlat
    <3>3. BlockAt(position + Len(bs), S) = BlockAt(position + Len(bs), m)
      BY <3>2 DEF BlockAt, Block, Blocks
    <3>4. Len(bs) > 0
      BY <2>2
    <3>5. c = (position \div BaseSize) + 1
      BY <1>1, <1>2, <2>2, <3>4, BlockOfPosition
    <3>6. After(c, position, Len(bs), m) = BlockAt(position + Len(bs), m)
      BY <1>1, <1>2, <3>5, WalkIsFlat
    <3> QED
      BY <3>1, <3>3, <3>6
  <2>3. CASE Write(bs) /\ bs = <<>>
    <3>1. /\ mem' = mem /\ cur' = cur
          /\ position' = position + Len(bs) /\ size' = Larger(size, position + Len(bs)) /\ out' = bs
      BY <2>3 DEF Write
    <3>2. Len(bs) = 0 /\ position + Len(bs) = position
      BY <1>1, <2>3
    <3> QED
      BY <3>1, <3>2 DEF Cursor
  <2> QED
    BY <2>1, <2>2, <2>3
<1>4. /\ Whole(mem') /\ position + Len(bs) <= Len(mem') /\ capacity <= Len(mem')
      /\ \A i \in 1..capacity : i \notin (position + 1)..(position + Len(bs)) => mem'[i] = mem[i]
      /\ \A i \in (position + 1)..(position + Len(bs)) : mem'[i] = bs[i - position]
  <2>1. CASE mem' = S
    <3>1. /\ Whole(S) /\ Len(S) = Len(m)
          /\ \A i \in 1..Len(m) : S[i] =
               IF i \in (position + 1)..(position + Len(bs)) THEN bs[i - position] ELSE m[i]
      BY <1>1, <1>2, StoresFlat
    <3> HIDE DEF S, m, c
    <3>2. \A i \in (position + 1)..(position + Len(bs)) : i \in 1..Len(m)
      BY <1>1, <1>2
    <3>3. \A i \in 1..capacity : i \in 1..Len(m)
      BY <1>1, <1>2
    <3>4. position + Len(bs) <= Len(m)
      BY <1>1, <1>2
    <3> QED
      BY <1>2, <2>1, <3>1, <3>2, <3>3, <3>4
  <2>2. CASE mem' = mem /\ Len(bs) = 0
    BY <1>1, <2>2
  <2> QED
    BY <1>3, <2>1, <2>2
<1>5. /\ Flat!Write
      /\ position' \in Nat /\ size' \in Nat /\ position' <= size' /\ size' <= Len(mem')
  BY <1>3, <1>4, PutMaps
<1> QED
  BY <1>3, <1>4, <1>5 DEF Cursor, capacity

\* A read, and a transfer out of the array that may end early.
LEMMA ReadsMap ==
  ASSUME Cursor, NEW n \in Nat, Read(n) \/ WriteFixSize(n)
  PROVE  Cursor' /\ Flat!Read
PROOF
<1>1. /\ n <= ReadSize /\ (n > 0 => cur # Null) /\ out' = Fetched(n) /\ position' = position + n
      /\ mem' = mem /\ size' = size
  BY DEF Read, WriteFixSize
<1>2. /\ Whole(mem) /\ position \in Nat /\ size \in Nat /\ position + n \in Nat
      /\ position + n <= size /\ out' = SubSeq(SubSeq(mem, 1, size), position + 1, position + n)
  BY <1>1, FetchesFlat DEF Cursor
<1>3. cur' = BlockAt(position', mem')
  <2>1. CASE Read(n)
    <3>1. cur # Null /\ cur' = After(cur, position, n, mem)
      BY <2>1 DEF Read
    <3>2. cur = (position \div BaseSize) + 1
      BY <1>2, <3>1, BlockOfPosition DEF Cursor
    <3> QED
      BY <1>1, <1>2, <3>1, <3>2, WalkIsFlat
  <2>2. CASE WriteFixSize(n)
    <3>1. cur' = IF n = 0 THEN cur ELSE BlockAt(position + n, mem)
      BY <2>2 DEF WriteFixSize
    <3>2. n = 0 => position + n = position
      BY <1>2
    <3> QED
      BY <1>1, <3>1, <3>2 DEF Cursor
  <2> QED
    BY <2>1, <2>2
<1>4. Cursor'
  BY <1>1, <1>2, <1>3 DEF Cursor, capacity
<1>5. n \in 0..(Len(SubSeq(mem, 1, size)) - position)
  BY <1>2, InUse
<1> QED
  BY <1>1, <1>2, <1>4, <1>5 DEF Flat!Read

\* What shows the rest of the array leaves it.
LEMMA ShowsMap ==
  ASSUME Cursor, AllOfIt \/ WriteToFile
  PROVE  Cursor' /\ Flat!Show
PROOF
<1>1. /\ out' = Fetched(ReadSize) /\ (ReadSize > 0 => cur # Null)
      /\ UNCHANGED <<mem, cur, position, size>>
  BY DEF AllOfIt, WriteToFile
<1>2. ReadSize \in Nat /\ position + ReadSize = size
  BY DEF Cursor, ReadSize
<1>3. out' = SubSeq(SubSeq(mem, 1, size), position + 1, size)
  <2>1. Fetched(ReadSize) = SubSeq(SubSeq(mem, 1, size), position + 1, position + ReadSize)
    <3>1. PICK n \in Nat : n = ReadSize
      BY <1>2
    <3>2. n <= ReadSize /\ (n > 0 => cur # Null)
      BY <1>1, <1>2, <3>1
    <3>3. Fetched(n) = SubSeq(SubSeq(mem, 1, size), position + 1, position + n)
      BY <3>2, FetchesFlat
    <3> QED
      BY <3>1, <3>3
  <2> QED
    BY <1>1, <1>2, <2>1
<1>4. Len(SubSeq(mem, 1, size)) = size
  BY InUse
<1> QED
  BY <1>1, <1>3, <1>4 DEF Cursor, capacity, Flat!Show

\* setPosition(), also beyond what was written.
LEMMA PositionMaps ==
  ASSUME Cursor, NEW v \in Nat, SetPosition(v)
  PROVE  Cursor' /\ Flat!SetPosition
PROOF
<1>1. /\ v <= capacity /\ position' = v /\ size' = Larger(size, v) /\ cur' = BlockAt(v, mem)
      /\ out' = <<>> /\ mem' = mem
  BY DEF SetPosition
<1>2. /\ Whole(mem) /\ mem \in Seq(Bytes \cup {Unset}) /\ size \in Nat /\ size <= capacity
      /\ capacity = Len(mem) /\ Len(mem) \in Nat
  BY InUse DEF Cursor, Whole, Memory
<1>3. size' = (IF v > size THEN v ELSE size) /\ size' \in Nat /\ size <= size' /\ size' <= Len(mem)
  BY <1>1, <1>2 DEF Larger
<1>4. Cursor'
  BY <1>1, <1>2, <1>3 DEF Cursor, capacity
<1> DEFINE data  == SubSeq(mem, 1, size)
           after == SubSeq(mem, 1, size')
<1>5. Len(data) = size /\ data = [i \in 1..size |-> mem[i]]
  BY InUse
<1>6. after \in Seq(Bytes \cup {Unset}) /\ Len(after) = size' /\ \A i \in 1..size' : after[i] = mem[i]
  <2>1. /\ SubSeq(mem, 0 + 1, 0 + size') \in Seq(Bytes \cup {Unset})
        /\ Len(SubSeq(mem, 0 + 1, 0 + size')) = size'
        /\ \A i \in 1..size' : SubSeq(mem, 0 + 1, 0 + size')[i] = mem[0 + i]
    BY <1>2, <1>3, PartOf
  <2>2. 0 + 1 = 1 /\ 0 + size' = size' /\ \A i \in 1..size' : 0 + i = i
    BY <1>3
  <2> QED
    BY <2>1, <2>2
<1> HIDE DEF data, after
<1>7. SubSeq(after, 1, size) = data
  <2>1. SubSeq(after, 0 + 1, 0 + size) = [i \in 1..size |-> after[0 + i]]
    BY <1>2, <1>3, <1>6, PartOf
  <2>2. 0 + 1 = 1 /\ 0 + size = size /\ \A i \in 1..size : after[0 + i] = mem[i]
    BY <1>2, <1>3, <1>6
  <2> QED
    BY <1>5, <2>1, <2>2
<1>8. Len(after) = IF position' > Len(data) THEN position' ELSE Len(data)
  BY <1>1, <1>3, <1>5, <1>6
<1> QED
  BY <1>1, <1>4, <1>5, <1>7, <1>8 DEF Flat!SetPosition, data, after

\* clear() keeps the first block.
LEMMA ClearMaps ==
  ASSUME Cursor, Clear
  PROVE  Cursor' /\ Flat!Clear
PROOF
<1>1. BaseSize \in Nat \ {0} /\ mem \in Seq(Bytes \cup {Unset}) /\ Len(mem) \in Nat
  BY BytesAssumption DEF Cursor, Whole, Memory
<1>2. /\ mem' = SubSeq(mem, 1, BaseSize) /\ cur' = 1 /\ position' = 0 /\ size' = 0 /\ out' = <<>>
  BY DEF Clear
<1>3. BaseSize <= Len(mem)
  <2>1. /\ Len(mem) = BaseSize * (Len(mem) \div BaseSize) /\ Len(mem) > 0
        /\ Len(mem) \div BaseSize \in Nat
    BY <1>1 DEF Cursor, Whole
  <2> QED
    BY <1>1, <2>1
<1>4. mem' \in Memory /\ Len(mem') = BaseSize
  <2>1. /\ SubSeq(mem, 0 + 1, 0 + BaseSize) \in Seq(Bytes \cup {Unset})
        /\ Len(SubSeq(mem, 0 + 1, 0 + BaseSize)) = BaseSize
    BY <1>1, <1>3, PartOf
  <2>2. 0 + 1 = 1 /\ 0 + BaseSize = BaseSize
    BY <1>1
  <2> QED
    BY <1>2, <2>1, <2>2 DEF Memory
<1>5. Whole(mem') /\ BaseSize % BaseSize = 0 /\ 0 \div BaseSize = 0
  BY <1>1, <1>4 DEF Whole
<1>6. cur' = BlockAt(position', mem')
  <2>1. PICK m : m = mem'
    OBVIOUS
  <2>2. BlockAt(0, m) = IF 0 < Len(m) THEN (0 \div BaseSize) + 1 ELSE Null
    BY <1>5, <2>1, BlockOfPosition
  <2>3. 0 < Len(m)
    BY <1>1, <1>4, <2>1
  <2> QED
    BY <1>2, <1>5, <2>1, <2>2, <2>3
<1>7. Cursor'
  BY <1>1, <1>2, <1>4, <1>5, <1>6 DEF Cursor, capacity
<1>8. SubSeq(mem', 1, size') = <<>>
  BY <1>2, <1>4 DEF Memory
<1> QED
  BY <1>2, <1>7, <1>8 DEF Flat!Clear

\* A new array is one block.
LEMMA NewArray ==
  ASSUME ByteInit
  PROVE  Cursor /\ Flat!Init
PROOF
<1>1. BaseSize \in Nat \ {0} /\ BaseSize % BaseSize = 0 /\ 0 \div BaseSize = 0
  BY BytesAssumption
<1>2. mem = [i \in 1..BaseSize |-> Unset] /\ cur = 1 /\ position = 0 /\ size = 0 /\ out = <<>>
  BY DEF ByteInit, Blank
<1>3. mem \in Memory /\ Len(mem) = BaseSize
  <2>1. mem \in [1..BaseSize -> Bytes \cup {Unset}]
    BY <1>2
  <2> QED
    BY <1>1, <2>1 DEF Memory
<1>4. Whole(mem)
  BY <1>1, <1>3 DEF Whole
<1>5. cur = BlockAt(position, mem)
  BY <1>1, <1>2, <1>3, <1>4, BlockOfPosition
<1>6. SubSeq(mem, 1, size) = <<>>
  BY <1>2, <1>3 DEF Memory
<1> QED
  BY <1>1, <1>2, <1>3, <1>4, <1>5, <1>6 DEF Cursor, capacity, Flat!Init

\* Every call keeps the cursor and is one of the buffer's.
LEMMA CallsMap ==
  ASSUME Cursor, ByteNext
  PROVE  Cursor' /\ Flat!Next
PROOF
<1>1. /\ MaxSize \in Nat
      /\ \A n : \A bs \in Chunks(n) : bs \in Seq(Bytes) /\ Len(bs) \in Nat /\ Len(bs) <= Len(bs)
  BY BytesAssumption DEF Chunks
<1>2. ASSUME NEW bs \in Chunks(MaxSize - position), Write(bs) \/ ReadFromFile(bs)
      PROVE  Cursor' /\ Flat!Write
  BY <1>1, <1>2, WritesMap DEF ReadFromFile
<1>3. ASSUME NEW bs \in Chunks(MaxSize - position), NEW n \in 0..(MaxSize - position),
             ReadFixSize(bs, n)
      PROVE  Cursor' /\ Flat!Write
  BY <1>1, <1>3, WritesMap DEF ReadFixSize
<1>4. ASSUME NEW n \in 0..MaxSize, Read(n) \/ WriteFixSize(n)
      PROVE  Cursor' /\ Flat!Read
  BY <1>1, <1>4, ReadsMap
<1>5. ASSUME NEW n \in 0..MaxSize, SetPosition(n)
      PROVE  Cursor' /\ Flat!SetPosition
  BY <1>1, <1>5, PositionMaps
<1>6. CASE AllOfIt \/ WriteToFile
  BY <1>6, ShowsMap DEF Flat!Next
<1>7. CASE Clear
  BY <1>7, ClearMaps DEF Flat!Next
<1> QED
  BY <1>2, <1>3, <1>4, <1>5, <1>6, <1>7 DEF ByteNext, Flat!Next

\* cur_ is the block of the position, and null only when the position is at the end of
\* the last block, whatever was written, transferred in part, repositioned or cleared:
\* the calls that would follow a null cur_ are the two left out (bytearray.cc:385-733).
THEOREM CursorIsExact == ByteSpec => []Cursor
PROOF
<1>1. ByteInit => Cursor
  BY NewArray
<1>2. Cursor /\ [ByteNext]_byteVars => Cursor'
  <2>1. Cursor /\ UNCHANGED byteVars => Cursor'
    BY DEF Cursor, byteVars, capacity
  <2> QED
    BY <2>1, CallsMap
<1> QED
  BY <1>1, <1>2, PTL DEF ByteSpec

\* The list of blocks behaves like one sequence of bytes, whatever base_size_ is.
THEOREM BlocksAreABuffer == ByteSpec => ImplementsBuffer
PROOF
<1>1. ByteInit => Flat!Init
  BY NewArray
<1>2. Cursor /\ [ByteNext]_byteVars
        => [Flat!Next]_<<SubSeq(mem, 1, size), position, out>>
  <2>1. UNCHANGED byteVars => UNCHANGED <<SubSeq(mem, 1, size), position, out>>
    BY DEF byteVars
  <2> QED
    BY <2>1, CallsMap
<1> QED
  BY <1>1, <1>2, CursorIsExact, PTL DEF ByteSpec, ImplementsBuffer, Flat!Spec

\* Zigzag puts the integers of a width, 2 * h in number and the least one included,
\* on that many naturals and back: no code needs a bit more (bytearray.cc:126-154).
THEOREM ZigzagIsReversed ==
  ASSUME NEW h \in Nat, NEW v \in Int, -h <= v, v < h
  PROVE  /\ EncodeZigzag(v) \in 0..(2 * h - 1)
         /\ DecodeZigzag(EncodeZigzag(v)) = v
PROOF
<1>1. CASE v < 0
  BY <1>1 DEF EncodeZigzag, DecodeZigzag
<1>2. CASE ~(v < 0)
  BY <1>2 DEF EncodeZigzag, DecodeZigzag
<1> QED
  BY <1>1, <1>2

-----------------------------------------------------------------------------
(* Recursion.  A function that is defined by recursion over the numbers     *)
(* does what its definition says once there is one that does.               *)

\* Of some numbers one is the least.
LEMMA LeastNumber ==
  ASSUME NEW T, T \subseteq Nat, T # {}
  PROVE  \E e \in T : \A x \in T : e <= x
PROOF
<1> DEFINE Less == OpToRel(<, Nat)
<1>1. \A x, y \in Nat : <<x, y>> \in Less <=> x < y
  BY DEF OpToRel
<1> HIDE DEF Less
<1>2. PICK e \in T : \A x \in T : ~(<<x, e>> \in Less)
  BY NatLessThanWellFounded, WFMin DEF Less
<1>3. ASSUME NEW x \in T PROVE e <= x
  <2>1. e \in Nat /\ x \in Nat /\ ~(x < e)
    BY <1>1, <1>2
  <2> QED
    BY <2>1
<1> QED
  BY <1>3

\* What holds of 0, and of n + 1 when it holds of n, holds of every number.
LEMMA EveryNumber ==
  ASSUME NEW T, 0 \in T, \A n \in Nat : n \in T => n + 1 \in T
  PROVE  Nat \subseteq T
PROOF
<1> DEFINE Rest == Nat \ T
<1>1. SUFFICES ASSUME Rest # {} PROVE FALSE
  OBVIOUS
<1>2. PICK e \in Rest : \A x \in Rest : e <= x
  <2>1. Rest \subseteq Nat
    OBVIOUS
  <2> HIDE DEF Rest
  <2> QED
    BY <1>1, <2>1, LeastNumber
<1>3. e - 1 \in Nat /\ ~(e <= e - 1) /\ (e - 1) + 1 = e
  BY <1>2
<1>4. e - 1 \in T
  BY <1>2, <1>3
<1> QED
  BY <1>2, <1>3, <1>4

\* The functions that follow a recursion up to n.
Obeys(n, a, G, h) ==
  h[0] = a /\ \A k \in 0..(n - 1) : h[k + 1] = G[<<k, h[k]>>]

\* The function that does so for every number.
Recursion(S, a, G, h) ==
  h \in [Nat -> S] /\ h[0] = a /\ \A n \in Nat : h[n + 1] = G[<<n, h[n]>>]

\* A recursion over the numbers has its function.
LEMMA RecursionExists ==
  ASSUME NEW S, NEW a \in S, NEW G \in [Nat \X S -> S]
  PROVE  \E h : Recursion(S, a, G, h)
PROOF
<1> DEFINE Some(n) == \E h \in [0..n -> S] : Obeys(n, a, G, h)
           This(n) == CHOOSE h \in [0..n -> S] : Obeys(n, a, G, h)
<1>1. \A n \in Nat : Some(n)
  <2> DEFINE T == {n \in Nat : Some(n)}
  <2>1. 0 \in T
    <3>1. [k \in 0..0 |-> a] \in [0..0 -> S] /\ Obeys(0, a, G, [k \in 0..0 |-> a])
      BY DEF Obeys
    <3> QED
      BY <3>1
  <2>2. ASSUME NEW n \in Nat, n \in T PROVE n + 1 \in T
    <3>1. PICK h \in [0..n -> S] : Obeys(n, a, G, h)
      BY <2>2
    <3> DEFINE g == [k \in 0..(n + 1) |-> IF k <= n THEN h[k] ELSE G[<<n, h[n]>>]]
    <3>2. g \in [0..(n + 1) -> S]
      <4>1. h[n] \in S /\ G[<<n, h[n]>>] \in S
        BY <3>1
      <4> QED
        BY <4>1
    <3>3. g[0] = a
      BY <3>1 DEF Obeys
    <3>4. ASSUME NEW k \in 0..((n + 1) - 1) PROVE g[k + 1] = G[<<k, g[k]>>]
      <4>1. g[k] = h[k]
        OBVIOUS
      <4>2. CASE k < n
        BY <3>1, <4>1, <4>2 DEF Obeys
      <4>3. CASE k = n
        <5>1. g[n + 1] = G[<<n, h[n]>>]
          OBVIOUS
        <5> HIDE DEF g
        <5> QED
          BY <4>1, <4>3, <5>1
      <4> QED
        BY <4>2, <4>3
    <3> HIDE DEF g
    <3>5. Obeys(n + 1, a, G, g)
      BY <3>3, <3>4 DEF Obeys
    <3> QED
      BY <3>2, <3>5
  <2> HIDE DEF Some, T
  <2>3. Nat \subseteq T
    BY <2>1, <2>2, EveryNumber
  <2> QED
    BY <2>3 DEF T
<1>2. \A n \in Nat : This(n) \in [0..n -> S] /\ Obeys(n, a, G, This(n))
  BY <1>1
<1> HIDE DEF This
<1>3. \A k \in Nat : \A n, m \in Nat : k <= n /\ k <= m => This(n)[k] = This(m)[k]
  <2> DEFINE T == {k \in Nat : \A n, m \in Nat : k <= n /\ k <= m => This(n)[k] = This(m)[k]}
  <2>1. 0 \in T
    BY <1>2 DEF Obeys
  <2>2. ASSUME NEW k \in Nat, k \in T PROVE k + 1 \in T
    <3> SUFFICES ASSUME NEW n \in Nat, NEW m \in Nat, k + 1 <= n, k + 1 <= m
                 PROVE  This(n)[k + 1] = This(m)[k + 1]
      OBVIOUS
    <3>1. k <= n /\ k <= m /\ k \in 0..(n - 1) /\ k \in 0..(m - 1)
      OBVIOUS
    <3>2. This(n)[k] = This(m)[k]
      BY <2>2, <3>1
    <3>3. This(n)[k + 1] = G[<<k, This(n)[k]>>] /\ This(m)[k + 1] = G[<<k, This(m)[k]>>]
      BY <1>2, <3>1 DEF Obeys
    <3> QED
      BY <3>2, <3>3
  <2>3. Nat \subseteq T
    <3> HIDE DEF T
    <3> QED
      BY <2>1, <2>2, EveryNumber
  <2> QED
    BY <2>3
<1> DEFINE h == [n \in Nat |-> This(n)[n]]
<1>4. h \in [Nat -> S]
  BY <1>2
<1>5. h[0] = a
  BY <1>2 DEF Obeys
<1>6. ASSUME NEW n \in Nat PROVE h[n + 1] = G[<<n, h[n]>>]
  <2>1. This(n + 1)[n + 1] = G[<<n, This(n + 1)[n]>>]
    BY <1>2 DEF Obeys
  <2>2. This(n + 1)[n] = This(n)[n]
    BY <1>3
  <2> QED
    BY <2>1, <2>2
<1> QED
  BY <1>4, <1>5, <1>6 DEF Recursion

-----------------------------------------------------------------------------
(* The codes of a ByteArray.  After n rounds of >>= the bytes written hold  *)
(* what the rounds have taken off, each at its place.                       *)

\* The powers of two are those.
LEMMA PowersDouble ==
  /\ Power2 \in [Nat -> Nat \ {0}] /\ Power2[0] = 1
  /\ \A n \in Nat : Power2[n + 1] = 2 * Power2[n]
PROOF
<1> DEFINE S == Nat \ {0}
           G == [x \in Nat \X S |-> 2 * x[2]]
<1>1. G \in [Nat \X S -> S] /\ 1 \in S
  OBVIOUS
<1>2. PICK h : Recursion(S, 1, G, h)
  <2> HIDE DEF G, S
  <2> QED
    BY <1>1, RecursionExists
<1>3. \A n \in Nat : h[n + 1] = 2 * h[n]
  <2> SUFFICES ASSUME NEW n \in Nat PROVE h[n + 1] = 2 * h[n]
    OBVIOUS
  <2>1. h \in [Nat -> S] /\ h[n + 1] = G[<<n, h[n]>>]
    BY <1>2 DEF Recursion
  <2>2. G[<<n, h[n]>>] = 2 * h[n]
    BY <2>1
  <2> HIDE DEF G
  <2> QED
    BY <2>1, <2>2
<1>4. h = [n \in Nat |-> IF n = 0 THEN 1 ELSE 2 * h[n - 1]]
  <2>1. \A n \in Nat : h[n] = IF n = 0 THEN 1 ELSE 2 * h[n - 1]
    <3> SUFFICES ASSUME NEW n \in Nat, n # 0 PROVE h[n] = 2 * h[n - 1]
      BY <1>2 DEF Recursion
    <3>1. n - 1 \in Nat /\ (n - 1) + 1 = n
      OBVIOUS
    <3> QED
      BY <1>3, <3>1
  <2> QED
    BY <1>2, <2>1 DEF Recursion
<1>5. Power2 = [n \in Nat |-> IF n = 0 THEN 1 ELSE 2 * Power2[n - 1]]
  BY <1>4 DEF Power2
<1>6. Power2[0] = 1 /\ \A n \in Nat : Power2[n + 1] = 2 * Power2[n]
  <2>1. \A n \in Nat : n + 1 \in Nat /\ n + 1 # 0 /\ (n + 1) - 1 = n
    OBVIOUS
  <2> QED
    BY <1>5, <2>1
<1>7. \A n \in Nat : Power2[n] \in Nat \ {0}
  <2> DEFINE T == {n \in Nat : Power2[n] \in Nat \ {0}}
  <2>1. 0 \in T /\ \A n \in Nat : n \in T => n + 1 \in T
    BY <1>6
  <2>2. Nat \subseteq T
    <3> HIDE DEF T
    <3> QED
      BY <2>1, EveryNumber
  <2> QED
    BY <2>2
<1> QED
  BY <1>5, <1>6, <1>7

\* Exponents add up, and a greater one has the greater power.
LEMMA PowersMultiply ==
  ASSUME NEW m \in Nat, NEW n \in Nat
  PROVE  Power2[m + n] = Power2[m] * Power2[n]
PROOF
<1> DEFINE T == {k \in Nat : Power2[m + k] = Power2[m] * Power2[k]}
<1>1. 0 \in T
  BY PowersDouble
<1>2. ASSUME NEW k \in Nat, k \in T PROVE k + 1 \in T
  <2>1. Power2[m + (k + 1)] = 2 * Power2[m + k]
    <3>1. m + (k + 1) = (m + k) + 1 /\ m + k \in Nat
      OBVIOUS
    <3> QED
      BY <3>1, PowersDouble
  <2>2. Power2[k + 1] = 2 * Power2[k] /\ Power2[m + k] = Power2[m] * Power2[k]
    BY <1>2, PowersDouble
  <2>3. \A x, y \in Nat : 2 * (x * y) = x * (2 * y)
    OBVIOUS
  <2>4. Power2[m] \in Nat /\ Power2[k] \in Nat
    BY PowersDouble
  <2> QED
    BY <2>1, <2>2, <2>3, <2>4
<1>3. Nat \subseteq T
  <2> HIDE DEF T
  <2> QED
    BY <1>1, <1>2, EveryNumber
<1> QED
  BY <1>3

LEMMA PowersGrow ==
  ASSUME NEW m \in Nat, NEW n \in Nat, m <= n
  PROVE  Power2[m] <= Power2[n]
PROOF
<1>1. n - m \in Nat /\ m + (n - m) = n
  OBVIOUS
<1>2. Power2[n] = Power2[m] * Power2[n - m]
  BY <1>1, PowersMultiply
<1>3. Power2[m] \in Nat \ {0} /\ Power2[n - m] \in Nat \ {0}
  BY <1>1, PowersDouble
<1>4. \A x, y \in Nat \ {0} : x <= x * y
  OBVIOUS
<1> QED
  BY <1>2, <1>3, <1>4

\* A byte more divides by More once more.
LEMMA BytesDivide ==
  ASSUME NEW n \in Nat
  PROVE  /\ Group * n \in Nat /\ Power2[Group * n] \in Nat \ {0} /\ More \in Nat \ {0}
         /\ More >= 2
         /\ Power2[Group * (n + 1)] = Power2[Group * n] * More
PROOF
<1>1. Group \in Nat \ {0} /\ Group * n \in Nat /\ Group * (n + 1) = Group * n + Group
  BY BytesAssumption
<1>2. Power2[Group * n] \in Nat \ {0} /\ More \in Nat \ {0}
  BY <1>1, PowersDouble DEF More
<1>3. Power2[Group * (n + 1)] = Power2[Group * n] * More
  <2>1. PICK x \in Nat : x = Group * n
    BY <1>1
  <2>2. Power2[x + Group] = Power2[x] * Power2[Group]
    BY <1>1, PowersMultiply
  <2> QED
    BY <1>1, <2>1, <2>2 DEF More
<1>4. More >= 2
  <2>1. Power2[0 + 1] = 2
    BY PowersDouble
  <2>2. 0 + 1 = 1 /\ 1 <= Group
    BY <1>1
  <2> QED
    BY <1>1, <1>2, <2>1, <2>2, PowersGrow DEF More
<1> QED
  BY <1>1, <1>2, <1>3, <1>4

\* A quotient and a remainder in range are those of their number.
LEMMA DivisionIsOne ==
  ASSUME NEW d \in Nat \ {0}, NEW q \in Nat, NEW r \in 0..(d - 1)
  PROVE  (q * d + r) \div d = q /\ (q * d + r) % d = r
PROOF
<1>1. q * d \in Nat /\ q * d + r \in Nat
  OBVIOUS
<1>2. PICK u \in Nat : u = q * d + r
  BY <1>1
<1>3. u = d * (u \div d) + (u % d) /\ u % d \in 0..(d - 1) /\ u \div d \in Nat
  OBVIOUS
<1>4. PICK p \in Nat, s \in 0..(d - 1) : p = u \div d /\ s = u % d /\ u = d * p + s
  BY <1>3
<1>5. p = q
  <2>1. d * p + s = d * q + r
    BY <1>2, <1>4
  <2>2. d * (p - q) = r - s
    BY <2>1
  <2>3. ~(p > q)
    <3> SUFFICES ASSUME p > q PROVE FALSE
      OBVIOUS
    <3>1. p - q \in Nat \ {0}
      OBVIOUS
    <3>2. d * (p - q) >= d
      BY <3>1
    <3> QED
      BY <2>2, <3>2
  <2>4. ~(q > p)
    <3> SUFFICES ASSUME q > p PROVE FALSE
      OBVIOUS
    <3>1. q - p \in Nat \ {0} /\ d * (q - p) = s - r
      BY <2>1
    <3>2. d * (q - p) >= d
      BY <3>1
    <3> QED
      BY <3>1, <3>2
  <2> QED
    BY <2>3, <2>4
<1>6. s = r
  BY <1>2, <1>4, <1>5
<1> QED
  BY <1>2, <1>4, <1>5, <1>6

\* What a round of >>= leaves, and what it takes.
LEMMA RoundsShift ==
  ASSUME NEW u \in Nat, NEW n \in Nat
  PROVE  /\ Shifted(u, n) \in Nat /\ Shifted(u, 0) = u
         /\ Shifted(u, n) = Shifted(u, n + 1) * More + (Shifted(u, n) % More)
         /\ Shifted(u, n) % More \in 0..(More - 1)
         /\ Shifted(u, n) < More => Shifted(u, n + 1) = 0
PROOF
<1> DEFINE d == Power2[Group * n]
<1>1. d \in Nat \ {0} /\ More \in Nat \ {0} /\ Power2[Group * (n + 1)] = d * More
  BY BytesDivide
<1>2. Shifted(u, 0) = u
  <2>1. Power2[Group * 0] = 1
    BY BytesAssumption, PowersDouble
  <2> QED
    BY <2>1 DEF Shifted
<1> HIDE DEF d
<1>3. PICK q \in Nat, r \in 0..(d - 1) : u = q * d + r /\ q = u \div d
  <2>1. u \div d \in Nat /\ u % d \in 0..(d - 1) /\ u = (u \div d) * d + (u % d)
    BY <1>1
  <2> QED
    BY <2>1
<1>4. PICK p \in Nat, s \in 0..(More - 1) : q = p * More + s /\ s = q % More /\ p = q \div More
  <2>1. q \div More \in Nat /\ q % More \in 0..(More - 1) /\ q = (q \div More) * More + (q % More)
    BY <1>1
  <2> QED
    BY <2>1
<1>5. u \div (d * More) = p
  <2>1. d * More \in Nat \ {0} /\ s * d + r \in 0..(d * More - 1)
    <3>1. s * d + r \in Nat /\ s * d + r < (s + 1) * d
      BY <1>1
    <3>2. (s + 1) * d <= More * d /\ More * d = d * More /\ d * More \in Nat \ {0}
      BY <1>1
    <3>3. s * d + r < d * More
      BY <1>1, <3>1, <3>2
    <3> QED
      BY <3>1, <3>2, <3>3
  <2>2. u = p * (d * More) + (s * d + r)
    <3>1. q * d = (p * More) * d + s * d
      BY <1>1, <1>4
    <3>2. \A x, y, z \in Nat : (x * y) * z = x * (z * y)
      OBVIOUS
    <3>3. (p * More) * d = p * (d * More)
      BY <1>1, <3>2
    <3>4. p * (d * More) \in Nat /\ s * d \in Nat
      BY <1>1
    <3> QED
      BY <1>3, <3>1, <3>3, <3>4
  <2>3. (p * (d * More) + (s * d + r)) \div (d * More) = p
    BY <2>1, DivisionIsOne
  <2> QED
    BY <2>2, <2>3
<1>6. Shifted(u, n) = q /\ Shifted(u, n + 1) = p
  BY <1>1, <1>3, <1>5 DEF Shifted, d
<1>7. q < More => p = 0
  BY <1>1, <1>4
<1> QED
  BY <1>2, <1>4, <1>6, <1>7

\* What a round takes off, at its place.
LEMMA RoundTakes ==
  ASSUME NEW u \in Nat, NEW n \in Nat
  PROVE  /\ Shifted(u, n) * Power2[Group * n] \in Nat
         /\ (Shifted(u, n) % More) * Power2[Group * n] \in Nat
         /\ Shifted(u, n) * Power2[Group * n]
              = Shifted(u, n + 1) * Power2[Group * (n + 1)]
                  + (Shifted(u, n) % More) * Power2[Group * n]
PROOF
<1> DEFINE d == Power2[Group * n]
           q == Shifted(u, n)
           p == Shifted(u, n + 1)
           r == Shifted(u, n) % More
<1>1. d \in Nat /\ More \in Nat /\ Power2[Group * (n + 1)] = d * More
  BY BytesDivide
<1>2. q \in Nat /\ p \in Nat /\ r \in Nat /\ q = p * More + r
  <2>1. n + 1 \in Nat
    OBVIOUS
  <2>2. q \in Nat /\ p \in Nat /\ r \in 0..(More - 1) /\ q = p * More + r
    BY <2>1, RoundsShift
  <2> QED
    BY <1>1, <2>2
<1> HIDE DEF d, q, p, r
<1>3. q * d = (p * More) * d + r * d
  BY <1>1, <1>2
<1>4. (p * More) * d = p * (d * More)
  <2>1. \A x, y, z \in Nat : (x * y) * z = x * (z * y)
    OBVIOUS
  <2> QED
    BY <1>1, <1>2, <2>1
<1>5. q * d \in Nat /\ r * d \in Nat
  BY <1>1, <1>2
<1> QED
  BY <1>1, <1>3, <1>4, <1>5 DEF d, q, p, r

\* Bytes that hold what the rounds take add up to what they have taken.
LEMMA RoundsAddUp ==
  ASSUME NEW u \in Nat, NEW count \in Nat, NEW bs,
         \A i \in 1..count : bs[i] % More = Shifted(u, i - 1) % More
  PROVE  Number(bs, count) = u - Shifted(u, count) * Power2[Group * count]
PROOF
<1> DEFINE taken == [n \in 0..count |-> u - Shifted(u, n) * Power2[Group * n]]
<1>1. ASSUME NEW n \in 0..count PROVE Shifted(u, n) * Power2[Group * n] \in Nat
  <2>1. n \in Nat
    OBVIOUS
  <2> QED
    BY <2>1, RoundTakes
<1>2. taken[0] = 0
  <2>1. Group * 0 = 0
    BY BytesAssumption
  <2>2. Shifted(u, 0) = u /\ Power2[Group * 0] = 1
    BY <2>1, RoundsShift, PowersDouble
  <2> QED
    BY <2>2
<1>3. ASSUME NEW n \in 1..count
      PROVE  /\ (bs[n] % More) * Power2[Group * (n - 1)] \in Nat
             /\ taken[n] = taken[n - 1] + (bs[n] % More) * Power2[Group * (n - 1)]
  <2>1. n - 1 \in Nat /\ n - 1 \in 0..count /\ (n - 1) + 1 = n
    OBVIOUS
  <2> DEFINE now  == Shifted(u, n - 1) * Power2[Group * (n - 1)]
             then == Shifted(u, n) * Power2[Group * n]
             byte == (Shifted(u, n - 1) % More) * Power2[Group * (n - 1)]
             part == (bs[n] % More) * Power2[Group * (n - 1)]
  <2>2. now = then + byte /\ now \in Nat /\ byte \in Nat /\ then \in Nat
    <3>1. PICK k \in Nat : k = n - 1 /\ k + 1 = n
      BY <2>1
    <3>2. /\ Shifted(u, k) * Power2[Group * k]
               = Shifted(u, k + 1) * Power2[Group * (k + 1)]
                   + (Shifted(u, k) % More) * Power2[Group * k]
          /\ Shifted(u, k) * Power2[Group * k] \in Nat
          /\ (Shifted(u, k) % More) * Power2[Group * k] \in Nat
      BY RoundTakes
    <3>3. then \in Nat
      BY <1>1, <2>1
    <3> QED
      BY <3>1, <3>2, <3>3
  <2>3. taken[n] = u - then /\ taken[n - 1] = u - now
    BY <2>1
  <2>4. part = byte
    OBVIOUS
  <2> HIDE DEF now, then, byte, part, taken
  <2>5. part \in Nat /\ taken[n] = taken[n - 1] + part
    BY <2>2, <2>3, <2>4
  <2> QED
    BY <2>5 DEF part
<1> DEFINE sums(v) ==
             v = [n \in 0..count |->
                    IF n = 0 THEN 0 ELSE v[n - 1] + (bs[n] % More) * Power2[Group * (n - 1)]]
           value == CHOOSE v : sums(v)
<1>4. sums(taken)
  <2>1. \A n \in 0..count : taken[n] =
          IF n = 0 THEN 0 ELSE taken[n - 1] + (bs[n] % More) * Power2[Group * (n - 1)]
    <3> HIDE DEF taken
    <3> SUFFICES ASSUME NEW n \in 0..count, n # 0
                 PROVE  taken[n] = taken[n - 1] + (bs[n] % More) * Power2[Group * (n - 1)]
      BY <1>2
    <3>1. n \in 1..count
      OBVIOUS
    <3> QED
      BY <1>3, <3>1
  <2>2. taken = [n \in 0..count |-> taken[n]]
    OBVIOUS
  <2> HIDE DEF taken
  <2> QED
    BY <2>1, <2>2
<1> HIDE DEF taken
<1>5. sums(value)
  <2> HIDE DEF sums
  <2> QED
    BY <1>4
<1>6. Number(bs, count) = value[count]
  BY DEF Number
<1> HIDE DEF value
<1>7. \A n \in Nat : n <= count => value[n] = taken[n]
  <2> DEFINE T == {n \in Nat : n <= count => value[n] = taken[n]}
  <2>1. 0 \in T
    BY <1>2, <1>5
  <2>2. ASSUME NEW n \in Nat, n \in T PROVE n + 1 \in T
    <3> SUFFICES ASSUME n + 1 <= count PROVE value[n + 1] = taken[n + 1]
      OBVIOUS
    <3>1. n + 1 \in 1..count /\ n + 1 \in 0..count /\ n + 1 # 0 /\ (n + 1) - 1 = n /\ n <= count
      OBVIOUS
    <3>2. value[n + 1] = value[n] + (bs[n + 1] % More) * Power2[Group * n]
      BY <1>5, <3>1
    <3>3. taken[n + 1] = taken[n] + (bs[n + 1] % More) * Power2[Group * n]
      BY <1>3, <3>1
    <3> QED
      BY <2>2, <3>1, <3>2, <3>3
  <2>3. Nat \subseteq T
    <3> HIDE DEF T
    <3> QED
      BY <2>1, <2>2, EveryNumber
  <2> QED
    BY <2>3
<1> QED
  BY <1>6, <1>7 DEF taken

\* MaxBytes bytes have room for an integer.
LEMMA BytesSuffice ==
  /\ MaxBytes \in Nat \ {0} /\ Power2[Width] <= Power2[Group * MaxBytes]
  /\ \A u \in 0..(Power2[Width] - 1) : Shifted(u, MaxBytes - 1) < More
PROOF
<1>1. /\ Group \in Nat \ {0} /\ Width \in Nat \ {0}
      /\ (Width - 1) \div Group \in Nat /\ (Width - 1) % Group \in 0..(Group - 1)
      /\ Width - 1 = Group * ((Width - 1) \div Group) + ((Width - 1) % Group)
  BY BytesAssumption
<1>2. MaxBytes \in Nat \ {0} /\ Group * MaxBytes \in Nat /\ Width <= Group * MaxBytes
  <2>1. PICK q \in Nat : q = (Width - 1) \div Group
    BY <1>1
  <2>2. MaxBytes = q + 1
    BY <2>1 DEF MaxBytes
  <2>3. Group * (q + 1) = Group * q + Group /\ Group * q \in Nat
    BY <1>1, <2>1
  <2> QED
    BY <1>1, <2>1, <2>2, <2>3
<1>3. Power2[Width] <= Power2[Group * MaxBytes]
  BY <1>1, <1>2, PowersGrow
<1>4. ASSUME NEW u \in 0..(Power2[Width] - 1) PROVE Shifted(u, MaxBytes - 1) < More
  <2>1. PICK n \in Nat : n = MaxBytes - 1 /\ MaxBytes = n + 1
    BY <1>2
  <2>2. PICK d \in Nat \ {0}, m \in Nat \ {0} :
          d = Power2[Group * n] /\ m = More /\ Power2[Group * (n + 1)] = d * m
    BY BytesDivide
  <2>3. u \in Nat /\ u < d * m
    BY <1>1, <1>3, <2>1, <2>2, PowersDouble
  <2>4. PICK q \in Nat, r \in 0..(d - 1) : q = u \div d /\ u = q * d + r
    <3>1. u \div d \in Nat /\ u % d \in 0..(d - 1) /\ u = (u \div d) * d + (u % d)
      BY <2>3
    <3> QED
      BY <3>1
  <2>5. ~(q >= m)
    <3> SUFFICES ASSUME q >= m PROVE FALSE
      OBVIOUS
    <3>1. q * d >= m * d /\ m * d = d * m
      BY <2>2, <2>4
    <3> QED
      BY <2>3, <2>4, <3>1
  <2> QED
    BY <2>1, <2>2, <2>4, <2>5 DEF Shifted
<1> QED
  BY <1>2, <1>3, <1>4

\* The bytes of an integer: all but the last say that more follow, and they hold what
\* the rounds take; nothing is left after the last.
LEMMA VarintsEnd ==
  ASSUME NEW u \in 0..(Power2[Width] - 1)
  PROVE  \E n \in 1..MaxBytes :
           /\ VarintBytes(u) \in [1..n -> Nat]
           /\ VarintBytes(u)[n] < More
           /\ \A k \in 1..(n - 1) : VarintBytes(u)[k] >= More
           /\ \A i \in 1..n : VarintBytes(u)[i] % More = Shifted(u, i - 1) % More
           /\ Shifted(u, n) = 0
PROOF
<1> DEFINE Ends == {k \in 1..MaxBytes : Shifted(u, k - 1) < More}
           ends(k) == /\ Shifted(u, k - 1) < More
                      /\ \A j \in 1..(k - 1) : Shifted(u, j - 1) >= More
           n == CHOOSE k \in 1..MaxBytes : ends(k)
<1>1. /\ u \in Nat /\ More \in Nat /\ More >= 2 /\ MaxBytes \in Nat \ {0}
      /\ Shifted(u, MaxBytes - 1) < More
  <2>1. 0 \in Nat /\ Power2[Width] \in Nat
    BY BytesAssumption, PowersDouble
  <2> QED
    BY <2>1, BytesDivide, BytesSuffice
<1>2. ASSUME NEW k \in Nat \ {0} PROVE Shifted(u, k - 1) \in Nat
  <2>1. PICK j \in Nat : j = k - 1
    OBVIOUS
  <2> QED
    BY <1>1, <2>1, RoundsShift
<1>3. \E k \in 1..MaxBytes : ends(k)
  <2>1. Ends \subseteq Nat /\ MaxBytes \in Ends
    BY <1>1
  <2>2. PICK k \in Ends : \A j \in Ends : k <= j
    <3> HIDE DEF Ends
    <3> QED
      BY <2>1, LeastNumber
  <2>3. ASSUME NEW j \in 1..(k - 1) PROVE Shifted(u, j - 1) >= More
    <3>1. j \in 1..MaxBytes /\ ~(k <= j) /\ Shifted(u, j - 1) \in Nat
      BY <1>1, <1>2
    <3>2. j \notin Ends
      BY <2>2, <3>1
    <3> QED
      BY <1>1, <3>1, <3>2
  <2> QED
    BY <2>3
<1>4. n \in 1..MaxBytes /\ ends(n)
  <2> HIDE DEF ends
  <2> QED
    BY <1>3
<1> DEFINE bs == [i \in 1..n |-> IF i < n THEN (Shifted(u, i - 1) % More) + More
                                 ELSE Shifted(u, i - 1)]
<1>5. VarintBytes(u) = bs
  BY DEF VarintBytes
<1> HIDE DEF n
<1>6. ASSUME NEW i \in 1..n
      PROVE  /\ bs[i] \in Nat /\ bs[i] % More = Shifted(u, i - 1) % More
             /\ i < n => bs[i] >= More
  <2>1. PICK k \in Nat : k = i - 1
    BY <1>4
  <2>2. Shifted(u, k) \in Nat /\ Shifted(u, k) % More \in 0..(More - 1)
    BY <1>1, RoundsShift
  <2>3. CASE i < n
    <3>1. PICK r \in 0..(More - 1) : r = Shifted(u, k) % More
      BY <2>2
    <3>2. bs[i] = r + More
      BY <2>1, <2>3, <3>1
    <3>3. (1 * More + r) % More = r
      <4>1. More \in Nat \ {0} /\ 1 \in Nat
        BY <1>1
      <4> HIDE DEF bs, ends, Ends
      <4> QED
        BY <4>1, DivisionIsOne
    <3>4. 1 * More + r = r + More /\ r + More \in Nat /\ r + More >= More
      BY <1>1
    <3> QED
      BY <2>1, <3>1, <3>2, <3>3, <3>4
  <2>4. CASE ~(i < n)
    BY <2>1, <2>2, <2>4
  <2> QED
    BY <2>3, <2>4
<1>7. bs[n] < More /\ Shifted(u, n) = 0
  <2>1. PICK k \in Nat : k = n - 1 /\ k + 1 = n
    BY <1>4
  <2>2. Shifted(u, k) < More
    BY <1>4, <2>1
  <2>3. Shifted(u, k + 1) = 0
    BY <1>1, <2>2, RoundsShift
  <2> QED
    BY <1>4, <2>1, <2>2, <2>3
<1>8. bs \in [1..n -> Nat]
  <2>1. bs = [i \in 1..n |-> bs[i]]
    OBVIOUS
  <2> HIDE DEF bs
  <2> QED
    BY <1>6, <2>1
<1> HIDE DEF bs, ends
<1>9. \A k \in 1..(n - 1) : bs[k] >= More
  BY <1>4, <1>6
<1> QED
  BY <1>4, <1>5, <1>6, <1>7, <1>8, <1>9

\* Whatever lies behind them, they read as the integer.
LEMMA VarintsReadBack ==
  ASSUME NEW u \in 0..(Power2[Width] - 1), NEW S, NEW behind \in Seq(S)
  PROVE  ReadVarint(VarintBytes(u) \o behind) = [value |-> u, length |-> Len(VarintBytes(u))]
PROOF
<1> DEFINE vs == VarintBytes(u)
           bs == vs \o behind
<1>1. PICK n \in 1..MaxBytes :
        /\ vs \in [1..n -> Nat] /\ vs[n] < More
        /\ \A k \in 1..(n - 1) : vs[k] >= More
        /\ \A i \in 1..n : vs[i] % More = Shifted(u, i - 1) % More
        /\ Shifted(u, n) = 0
  BY VarintsEnd
<1> HIDE DEF vs
<1>2. u \in Nat /\ Power2[Width] \in Nat \ {0} /\ More \in Nat /\ MaxBytes \in Nat /\ n \in Nat
  <2>1. 0 \in Nat /\ Power2[Width] \in Nat \ {0}
    BY BytesAssumption, PowersDouble
  <2> QED
    BY <2>1, BytesDivide, BytesSuffice
<1>3. vs \in Seq(Nat) /\ Len(vs) = n
  <2>1. vs \in [1..n -> Nat]
    BY <1>1
  <2> QED
    BY <1>2, <2>1
<1>4. \A i \in 1..n : bs[i] = vs[i]
  <2>1. vs \in Seq(Nat \cup S) /\ behind \in Seq(Nat \cup S)
    BY <1>3
  <2> QED
    BY <1>2, <1>3, <2>1, ConcatProperties
<1> HIDE DEF bs
<1> DEFINE last(k) == (bs[k] < More \/ k = MaxBytes) /\ \A j \in 1..(k - 1) : bs[j] >= More
           count == CHOOSE k \in 1..MaxBytes : last(k)
<1>5. last(n)
  <2>1. n \in 1..n /\ \A j \in 1..(n - 1) : j \in 1..n
    BY <1>2
  <2>2. bs[n] < More
    BY <1>1, <1>4, <2>1
  <2>3. ASSUME NEW j \in 1..(n - 1) PROVE bs[j] >= More
    BY <1>1, <1>4, <2>1
  <2> QED
    BY <2>2, <2>3
<1>6. ASSUME NEW k \in 1..MaxBytes, last(k) PROVE k = n
  <2>1. \A j \in 1..n : bs[j] \in Nat
    BY <1>1, <1>4
  <2>2. ~(k < n)
    <3> SUFFICES ASSUME k < n PROVE FALSE
      OBVIOUS
    <3>1. k \in 1..(n - 1) /\ k \in 1..n /\ k # MaxBytes
      BY <1>2
    <3>2. bs[k] >= More /\ bs[k] < More
      BY <1>5, <1>6, <3>1
    <3> QED
      BY <1>2, <2>1, <3>1, <3>2
  <2>3. ~(n < k)
    <3> SUFFICES ASSUME n < k PROVE FALSE
      OBVIOUS
    <3>1. n \in 1..(k - 1) /\ n \in 1..n
      BY <1>2
    <3>2. bs[n] >= More /\ bs[n] < More
      BY <1>1, <1>4, <1>6, <3>1
    <3> QED
      BY <1>2, <2>1, <3>1, <3>2
  <2> QED
    BY <1>2, <2>2, <2>3
<1>7. count = n
  <2> HIDE DEF last
  <2> QED
    BY <1>5, <1>6
<1>8. Number(bs, n) = u
  <2> HIDE DEF last, count
  <2>1. Number(bs, n) = u - Shifted(u, n) * Power2[Group * n]
    <3>1. u \in Nat /\ n \in Nat
      BY <1>2
    <3>2. \A i \in 1..n : bs[i] % More = Shifted(u, i - 1) % More
      BY <1>1, <1>4
    <3> QED
      BY <3>1, <3>2, RoundsAddUp
  <2>2. Power2[Group * n] \in Nat
    BY <1>2, BytesDivide
  <2>3. 0 * Power2[Group * n] = 0
    BY <2>2
  <2> QED
    BY <1>1, <1>2, <2>1, <2>3
<1>9. ReadVarint(bs) = [value |-> Number(bs, count) % Power2[Width], length |-> count]
  BY DEF ReadVarint
<1> HIDE DEF count
<1>10. u % Power2[Width] = u
  BY <1>2
<1> QED
  BY <1>3, <1>7, <1>8, <1>9, <1>10 DEF bs, vs

\* length bytes of fixed form are read as the integer they were written from, in either
\* order, when they have room for it.
LEMMA FixedReadBack ==
  ASSUME NEW length \in Nat, NEW u \in Nat, u < Power2[Group * length], NEW swap \in BOOLEAN
  PROVE  /\ FixedBytes(u, length, swap) \in [1..length -> Nat]
         /\ ReadFixed(FixedBytes(u, length, swap), swap) = u
PROOF
<1> DEFINE bs == [i \in 1..length |-> Shifted(u, i - 1) % More]
<1>1. bs \in [1..length -> Nat]
  <2>1. More \in Nat /\ \A i \in 1..length : i - 1 \in Nat
    BY BytesDivide
  <2>2. \A i \in 1..length : Shifted(u, i - 1) % More \in 0..(More - 1)
    BY <2>1, RoundsShift
  <2> QED
    BY <2>1, <2>2
<1>2. \A i \in 1..length : bs[i] % More = Shifted(u, i - 1) % More
  <2> SUFFICES ASSUME NEW i \in 1..length PROVE bs[i] % More = Shifted(u, i - 1) % More
    OBVIOUS
  <2>1. PICK k \in Nat : k = i - 1
    OBVIOUS
  <2>2. More \in Nat /\ Shifted(u, k) % More \in 0..(More - 1)
    BY RoundsShift, BytesDivide
  <2>3. bs[i] = Shifted(u, k) % More
    BY <2>1
  <2> QED
    BY <2>1, <2>2, <2>3
<1>3. Number(bs, length) = u
  <2>1. Shifted(u, length) = 0
    <3>1. Power2[Group * length] \in Nat \ {0}
      BY BytesDivide
    <3> QED
      BY <3>1 DEF Shifted
  <2>2. Number(bs, length) = u - Shifted(u, length) * Power2[Group * length]
    <3> HIDE DEF bs
    <3> QED
      BY <1>2, RoundsAddUp
  <2>3. 0 * Power2[Group * length] = 0
    BY BytesDivide
  <2> QED
    BY <2>1, <2>2, <2>3
<1>4. FixedBytes(u, length, swap) = IF swap THEN SX!Reverse(bs) ELSE bs
  BY DEF FixedBytes
<1> HIDE DEF bs
<1>5. Len(bs) = length /\ bs \in Seq(Nat)
  BY <1>1
<1>6. /\ SX!Reverse(bs) \in [1..length -> Nat] /\ Len(SX!Reverse(bs)) = length
      /\ SX!Reverse(SX!Reverse(bs)) = bs
  <2> DEFINE turned == [i \in 1..length |-> bs[(length - i) + 1]]
  <2>1. \A i \in 1..length : (length - i) + 1 \in 1..length
    OBVIOUS
  <2>2. SX!Reverse(bs) = turned
    BY <1>5 DEF SX!Reverse
  <2>3. turned \in [1..length -> Nat] /\ Len(turned) = length
    BY <1>1, <2>1
  <2>4. [i \in 1..length |-> turned[(length - i) + 1]] = bs
    <3>1. \A i \in 1..length : turned[(length - i) + 1] = bs[i]
      BY <2>1
    <3> HIDE DEF turned
    <3> QED
      BY <1>1, <3>1
  <2> HIDE DEF turned
  <2>5. SX!Reverse(turned) = [i \in 1..length |-> turned[(length - i) + 1]]
    BY <2>3 DEF SX!Reverse
  <2> QED
    BY <2>2, <2>3, <2>4, <2>5
<1>7. CASE swap
  BY <1>3, <1>4, <1>6, <1>7 DEF ReadFixed
<1>8. CASE ~swap
  BY <1>1, <1>3, <1>4, <1>5, <1>8 DEF ReadFixed
<1> QED
  BY <1>7, <1>8

\* Two sequences, one behind the other, are both still there.
LEMMA JoinedParts ==
  ASSUME NEW S, NEW s \in Seq(S), NEW t \in Seq(S)
  PROVE  /\ s \o t \in Seq(S) /\ Len(s \o t) = Len(s) + Len(t)
         /\ SubSeq(s \o t, 1, Len(s)) = s
         /\ SubSeq(s \o t, Len(s) + 1, Len(s) + Len(t)) = t
PROOF
<1>1. /\ s \o t \in Seq(S) /\ Len(s \o t) = Len(s) + Len(t)
      /\ \A i \in 1..(Len(s) + Len(t)) :
           (s \o t)[i] = IF i <= Len(s) THEN s[i] ELSE t[i - Len(s)]
  BY ConcatProperties
<1>2. Len(s) \in Nat /\ Len(t) \in Nat
  OBVIOUS
<1>3. SubSeq(s \o t, 1, Len(s)) = s
  <2>1. SubSeq(s \o t, 0 + 1, 0 + Len(s)) = [i \in 1..Len(s) |-> (s \o t)[0 + i]]
    <3>1. 0 \in Nat /\ 0 + Len(s) <= Len(s \o t)
      BY <1>1, <1>2
    <3> QED
      BY <1>1, <1>2, <3>1, PartOf
  <2>2. 0 + 1 = 1 /\ 0 + Len(s) = Len(s) /\ \A i \in 1..Len(s) : (s \o t)[0 + i] = s[i]
    BY <1>1, <1>2
  <2>3. s = [i \in 1..Len(s) |-> s[i]]
    OBVIOUS
  <2> QED
    BY <2>1, <2>2, <2>3
<1>4. SubSeq(s \o t, Len(s) + 1, Len(s) + Len(t)) = t
  <2>1. SubSeq(s \o t, Len(s) + 1, Len(s) + Len(t)) = [i \in 1..Len(t) |-> (s \o t)[Len(s) + i]]
    BY <1>1, <1>2, PartOf
  <2>2. \A i \in 1..Len(t) : (s \o t)[Len(s) + i] = t[i]
    BY <1>1, <1>2
  <2>3. t = [i \in 1..Len(t) |-> t[i]]
    OBVIOUS
  <2> QED
    BY <2>1, <2>2, <2>3
<1> QED
  BY <1>1, <1>3, <1>4

\* Of three the first two are, too.
LEMMA FirstParts ==
  ASSUME NEW S, NEW a \in Seq(S), NEW b \in Seq(S), NEW c \in Seq(S)
  PROVE  /\ SubSeq((a \o b) \o c, 1, Len(a)) = a
         /\ SubSeq((a \o b) \o c, Len(a) + 1, Len(a) + Len(b)) = b
PROOF
<1> DEFINE ab == a \o b
           bc == b \o c
<1>1. /\ ab \in Seq(S) /\ Len(ab) = Len(a) + Len(b)
      /\ SubSeq(ab, Len(a) + 1, Len(a) + Len(b)) = b
  BY JoinedParts
<1>2. bc \in Seq(S) /\ ab \o c = a \o bc
  OBVIOUS
<1> HIDE DEF bc
<1>3. SubSeq(a \o bc, 1, Len(a)) = a
  BY <1>2, JoinedParts
<1>4. \A i \in 1..Len(b) : ab[Len(a) + i] = b[i]
  BY ConcatProperties
<1> HIDE DEF ab
<1>5. /\ ab \o c \in Seq(S) /\ Len(ab \o c) = Len(ab) + Len(c)
      /\ \A i \in 1..Len(ab) : (ab \o c)[i] = ab[i]
  <2>1. ab \in Seq(S)
    BY <1>1
  <2>2. /\ ab \o c \in Seq(S) /\ Len(ab \o c) = Len(ab) + Len(c)
        /\ \A i \in 1..(Len(ab) + Len(c)) :
             (ab \o c)[i] = IF i <= Len(ab) THEN ab[i] ELSE c[i - Len(ab)]
    BY <2>1, ConcatProperties
  <2>3. Len(ab) \in Nat /\ Len(c) \in Nat
    BY <2>1
  <2> QED
    BY <2>2, <2>3
<1>6. SubSeq(ab \o c, Len(a) + 1, Len(a) + Len(b)) = [i \in 1..Len(b) |-> (ab \o c)[Len(a) + i]]
  <2>1. Len(a) \in Nat /\ Len(b) \in Nat /\ Len(a) + Len(b) <= Len(ab \o c)
    BY <1>1, <1>5
  <2> QED
    BY <1>5, <2>1, PartOf
<1>7. \A i \in 1..Len(b) : (ab \o c)[Len(a) + i] = b[i]
  BY <1>1, <1>4, <1>5
<1>8. b = [i \in 1..Len(b) |-> b[i]]
  OBVIOUS
<1> QED
  BY <1>2, <1>3, <1>6, <1>7, <1>8 DEF ab

\* A string whose length one byte can hold is read whole, whatever lies behind it.
LEMMA StringsReadBack ==
  ASSUME NEW str \in Chunks(More - 1), NEW swap \in BOOLEAN, NEW S, NEW behind \in Seq(S)
  PROVE  ReadString(StringBytes(str, 1, swap) \o behind, 1, swap) = str
PROOF
<1> DEFINE U == Nat \cup Bytes \cup S
           first == FixedBytes(Len(str), 1, swap)
           all == (first \o str) \o behind
<1>1. /\ str \in Seq(U) /\ behind \in Seq(U) /\ Len(str) \in Nat
      /\ Len(str) < Power2[Group * 1]
  <2>1. PICK k \in 0..(More - 1) : str \in [1..k -> Bytes]
    BY DEF Chunks
  <2>2. More \in Nat \ {0} /\ Group * 1 = Group
    <3>1. 0 \in Nat
      OBVIOUS
    <3> QED
      BY <3>1, BytesDivide, BytesAssumption
  <2>3. k \in Nat /\ k < More
    BY <2>2
  <2>4. str \in Seq(Bytes) /\ Len(str) = k
    BY <2>1, <2>3
  <2> QED
    BY <2>2, <2>3, <2>4 DEF More
<1>2. first \in [1..1 -> Nat] /\ ReadFixed(first, swap) = Len(str)
  BY <1>1, FixedReadBack
<1> HIDE DEF first
<1>3. first \in Seq(U) /\ Len(first) = 1
  <2>1. PICK one \in Nat : one = 1
    OBVIOUS
  <2>2. first \in [1..one -> U]
    BY <1>2, <2>1
  <2> HIDE DEF U
  <2>3. first \in Seq(U) /\ Len(first) = one
    BY <2>2
  <2> QED
    BY <2>1, <2>3
<1> HIDE DEF U
<1>4. SubSeq(all, 1, 1) = first /\ SubSeq(all, 1 + 1, 1 + Len(str)) = str
  <2>1. str \in Seq(U) /\ behind \in Seq(U)
    BY <1>1
  <2>2. /\ SubSeq(all, 1, Len(first)) = first
        /\ SubSeq(all, Len(first) + 1, Len(first) + Len(str)) = str
    BY <1>3, <2>1, FirstParts
  <2> HIDE DEF all
  <2> QED
    BY <1>3, <2>2
<1>5. StringBytes(str, 1, swap) \o behind = all
  BY DEF StringBytes, first
<1> HIDE DEF all
<1> QED
  BY <1>2, <1>4, <1>5 DEF ReadString

\* Integers of any width, in bytes of any group of bits, and strings are read back as
\* they were written, and the read stops where the write did, whatever the array holds
\* behind (bytearray.cc:68-191, 207-383).
THEOREM CodesAreReadBack == ByteSpec => []CodesReadBack
PROOF
<1>1. ASSUME Cursor PROVE CodesReadBack
  <2>1. Behind \in Seq(Bytes \cup {Unset})
    <3>1. mem \in Seq(Bytes \cup {Unset}) /\ size \in Nat /\ 0 + size <= Len(mem) /\ 0 \in Nat
      BY <1>1 DEF Cursor, Whole, Memory, capacity
    <3>2. SubSeq(mem, 0 + 1, 0 + size) \in Seq(Bytes \cup {Unset})
      BY <3>1, PartOf
    <3>3. 0 + 1 = 1 /\ 0 + size = size
      BY <3>1
    <3> QED
      BY <3>2, <3>3 DEF Behind
  <2>2. /\ Power2[Width - 1] \in Nat \ {0} /\ Power2[Width] \in Nat
        /\ Power2[Width] = 2 * Power2[Width - 1]
    <3>1. Width - 1 \in Nat /\ Width \in Nat /\ (Width - 1) + 1 = Width
      BY BytesAssumption
    <3> QED
      BY <3>1, PowersDouble
  <2>3. ASSUME NEW v \in Ints
        PROVE  LET bs   == VarintBytes(EncodeZigzag(v))
                   read == ReadVarint(bs \o Behind)
               IN DecodeZigzag(read.value) = v /\ read.length = Len(bs)
    <3>1. v \in Int /\ -Power2[Width - 1] <= v /\ v < Power2[Width - 1]
      BY <2>2 DEF Ints
    <3>2. EncodeZigzag(v) \in 0..(Power2[Width] - 1) /\ DecodeZigzag(EncodeZigzag(v)) = v
      <4>1. PICK h \in Nat : h = Power2[Width - 1]
        BY <2>2
      <4>2. EncodeZigzag(v) \in 0..(2 * h - 1) /\ DecodeZigzag(EncodeZigzag(v)) = v
        BY <3>1, <4>1, ZigzagIsReversed
      <4> QED
        BY <2>2, <4>1, <4>2
    <3>3. PICK u \in 0..(Power2[Width] - 1) : u = EncodeZigzag(v)
      BY <3>2
    <3>4. ReadVarint(VarintBytes(u) \o Behind) = [value |-> u, length |-> Len(VarintBytes(u))]
      BY <2>1, VarintsReadBack
    <3> QED
      BY <3>2, <3>3, <3>4
  <2>4. ASSUME NEW swap \in BOOLEAN, NEW u \in 0..(Power2[Width] - 1)
        PROVE  ReadFixed(FixedBytes(u, MaxBytes, swap), swap) = u
    <3>1. u \in Nat /\ MaxBytes \in Nat /\ u < Power2[Group * MaxBytes]
      <4>1. MaxBytes \in Nat /\ Power2[Width] <= Power2[Group * MaxBytes]
        BY BytesSuffice
      <4>2. Power2[Group * MaxBytes] \in Nat
        BY <4>1, BytesDivide
      <4> QED
        BY <2>2, <4>1, <4>2
    <3> QED
      BY <3>1, FixedReadBack
  <2>5. ASSUME NEW swap \in BOOLEAN, NEW str \in Chunks(More - 1)
        PROVE  ReadString(StringBytes(str, 1, swap) \o Behind, 1, swap) = str
    BY <2>1, StringsReadBack
  <2> QED
    BY <2>3, <2>4, <2>5 DEF CodesReadBack
<1> QED
  BY <1>1, CursorIsExact, PTL

=============================================================================
