------------------------------ MODULE ByteArray ------------------------------
(***************************************************************************)
(* ByteArray of base/bytearray.cc: blocks of base_size_ bytes in a list,   *)
(* the block that holds the current position, and the reads, writes and    *)
(* transfers from and to a stream that walk along the list; and the codes  *)
(* of its integers.                                                        *)
(*                                                                         *)
(* The bytes of all blocks, one after the other, are mem; block b holds    *)
(* those after (b - 1) * BaseSize.  A call that follows a null pointer has *)
(* no step: calls that can are guarded by what their callers see to.       *)
(***************************************************************************)
EXTENDS Integers, Sequences

CONSTANTS
  BaseSize,   \* base_size_
  Bytes,      \* (bound)
  Unset,      \* a byte of new char[]
  MaxSize,    \* how far a ByteArray grows (bound)
  Group, Width \* an integer has Width bits and is written Group bits a byte

\* The constructor takes any base_size; addCapacity() divides by it.  The code has
\* Groups of 7 bits and integers of Width 32 and 64, and bytes in groups of 8.
ASSUME BytesAssumption ==
  /\ BaseSize \in Nat \ {0}
  /\ MaxSize \in Nat
  /\ Group \in Nat \ {0} /\ Width \in Nat \ {0}

VARIABLES
  mem,       \* the blocks from root_ on
  cur,       \* cur_: the number of the block, Null past the last one
  position,  \* position_
  size,      \* size_
  out        \* what the last call took in or handed out

SX == INSTANCE SequencesExt

byteVars == <<mem, cur, position, size, out>>

Null      == 0
capacity  == Len(mem)
ReadSize  == size - position
Blocks(m) == Len(m) \div BaseSize
Block(b, m) == IF b \in 1..Blocks(m) THEN b ELSE Null
Larger(a, b) == IF a > b THEN a ELSE b

\* Where the loops of read() and write() are after n bytes from position p of
\* block c: they stay in a block that is not full.
After(c, p, n, m) == Block(c + (((p % BaseSize) + n) \div BaseSize), m)
\* The cell of mem that the i-th of these bytes lies in.
Cell(c, p, i) == (c - 1) * BaseSize + (p % BaseSize) + i

-----------------------------------------------------------------------------
\* addCapacity(n)
Blank(n) == [i \in 1..n |-> Unset]
Missing(n) ==
  LET short == n - (capacity - position)
  IN IF short <= 0 THEN 0 ELSE BaseSize * ((short + BaseSize - 1) \div BaseSize)
Grown(n) == mem \o Blank(Missing(n))
\* Mutant: cur_ is the last of the new blocks.
GrownCurLast(n) ==
  IF n > 0 /\ capacity = position THEN Blocks(Grown(n)) ELSE cur
GrownCur(n) == IF n > 0 /\ capacity = position THEN Blocks(mem) + 1 ELSE cur

\* The bytes bs from the position on.
Stored(bs, m, c) ==
  [i \in 1..Len(m) |->
     IF \E k \in 1..Len(bs) : Cell(c, position, k) = i
     THEN bs[CHOOSE k \in 1..Len(bs) : Cell(c, position, k) = i] ELSE m[i]]
\* n bytes from the position on.
Fetched(n) == [k \in 1..n |-> mem[Cell(cur, position, k)]]

Write(bs) ==
  LET m == Grown(Len(bs))
      c == GrownCur(Len(bs))
  IN
  /\ Len(bs) > 0 => c # Null
  /\ mem' = IF bs = <<>> THEN mem ELSE Stored(bs, m, c)
  /\ cur' = IF bs = <<>> THEN cur ELSE After(c, position, Len(bs), m)
  /\ position' = position + Len(bs)
  /\ size' = Larger(size, position + Len(bs))
  /\ out' = bs

\* read() follows cur_ even for no bytes, readStringF16() of an empty string at the
\* end of a full block: that call is left out.
Read(n) ==
  /\ n <= ReadSize /\ cur # Null
  /\ out' = Fetched(n)
  /\ cur' = After(cur, position, n, mem)
  /\ position' = position + n
  /\ UNCHANGED <<mem, size>>

\* toString(), and read() at the current position for that.
AllOfIt ==
  /\ ReadSize > 0 => cur # Null
  /\ out' = Fetched(ReadSize)
  /\ UNCHANGED <<mem, cur, position, size>>

\* writeToFile(): from any position but the first of a block it counts the bytes
\* wrong and runs off the list; it is called at the beginning.
WriteToFile ==
  /\ position % BaseSize = 0 /\ (ReadSize > 0 => cur # Null)
  /\ out' = Fetched(ReadSize)
  /\ UNCHANGED <<mem, cur, position, size>>

\* readFromFile() writes what the file has block by block.
ReadFromFile(bs) == Write(bs)

\* Where the loop of setPosition() stops.
BlockAt(v, m) == Block(v \div BaseSize + 1, m)

SetPosition(v) ==
  /\ v <= capacity
  /\ position' = v
  /\ size' = Larger(size, v)
  /\ cur' = BlockAt(v, mem)
  /\ out' = <<>>
  /\ UNCHANGED mem

Clear ==
  /\ mem' = SubSeq(mem, 1, BaseSize)
  /\ cur' = 1 /\ position' = 0 /\ size' = 0 /\ out' = <<>>

\* Stream::readFixSize() into a ByteArray over SocketStream: getWriteBuffers(),
\* recv(), setPosition(), again and again until all are there or recv() fails;
\* bs came in, and room was made for all.
ReadFixSize(bs, length) ==
  LET m == Grown(length)
      c == GrownCur(length)
  IN
  /\ Len(bs) <= length /\ (length > 0 => c # Null)
  /\ mem' = Stored(bs, m, c)
  /\ position' = position + Len(bs)
  /\ size' = Larger(size, position + Len(bs))
  /\ cur' = IF bs = <<>> THEN c ELSE BlockAt(position + Len(bs), m)
  /\ out' = bs

\* Stream::writeFixSize() from a ByteArray: getReadBuffers(), send(), setPosition();
\* n bytes went out.
WriteFixSize(n) ==
  /\ n <= ReadSize /\ (n > 0 => cur # Null)
  /\ out' = Fetched(n)
  /\ position' = position + n
  /\ cur' = IF n = 0 THEN cur ELSE BlockAt(position + n, mem)
  /\ UNCHANGED <<mem, size>>

ByteInit ==
  /\ mem = Blank(BaseSize) /\ cur = 1 /\ position = 0 /\ size = 0 /\ out = <<>>

Chunks(n) == UNION {[1..k -> Bytes] : k \in 0..n}

ByteNext ==
  \/ \E bs \in Chunks(MaxSize - position) :
       \/ Write(bs) \/ ReadFromFile(bs)
       \/ \E length \in 0..(MaxSize - position) : ReadFixSize(bs, length)
  \/ \E n \in 0..MaxSize : Read(n) \/ WriteFixSize(n) \/ SetPosition(n)
  \/ AllOfIt \/ WriteToFile \/ Clear

ByteSpec == ByteInit /\ [][ByteNext]_byteVars

-----------------------------------------------------------------------------
(* Integers.                                                                *)

Power2[n \in Nat] == IF n = 0 THEN 1 ELSE 2 * Power2[n - 1]

Ints == -Power2[Width - 1]..(Power2[Width - 1] - 1)

\* Mutant: 2 * -v for a negative v.
EncodeZigzagEven(v) == IF v < 0 THEN (2 * (-v)) % Power2[Width] ELSE 2 * v
EncodeZigzag(v) == IF v < 0 THEN 2 * (-v) - 1 ELSE 2 * v
\* (v >> 1) ^ -(v & 1)
DecodeZigzag(u) == IF u % 2 = 0 THEN u \div 2 ELSE -(u \div 2) - 1

\* A byte that means more follow is no less than More; an integer takes MaxBytes at most.
More == Power2[Group]
MaxBytes == (Width - 1) \div Group + 1

\* What n rounds of value >>= 7 leave of u.
Shifted(u, n) == u \div Power2[Group * n]

\* writeUint32(), writeUint64(): the high bit of a byte says that more follow.
VarintBytes(u) ==
  LET length == CHOOSE n \in 1..MaxBytes :
                  /\ Shifted(u, n - 1) < More
                  /\ \A k \in 1..(n - 1) : Shifted(u, k - 1) >= More
  IN [i \in 1..length |-> IF i < length THEN (Shifted(u, i - 1) % More) + More
                                       ELSE Shifted(u, i - 1)]

\* The number of which bs has, in its first count bytes, Group bits each.
Number(bs, count) ==
  LET value[n \in 0..count] ==
        IF n = 0 THEN 0 ELSE value[n - 1] + (bs[n] % More) * Power2[Group * (n - 1)]
  IN value[count]

\* readUint32(), readUint64(): at most as many bytes as the loop's i < Width lets it
\* take; the result is cut to Width bits.
ReadVarint(bs) ==
  LET count == CHOOSE n \in 1..MaxBytes :
                 /\ bs[n] < More \/ n = MaxBytes
                 /\ \A k \in 1..(n - 1) : bs[k] >= More
  IN [value |-> Number(bs, count) % Power2[Width], length |-> count]

\* writeFuint16() and its like: the bytes of the machine, turned round when the
\* ByteArray has the other order; length bytes of Group bits.
FixedBytes(u, length, swap) ==
  LET bs == [i \in 1..length |-> Shifted(u, i - 1) % More]
  IN IF swap THEN SX!Reverse(bs) ELSE bs
ReadFixed(bs, swap) == Number(IF swap THEN SX!Reverse(bs) ELSE bs, Len(bs))

\* writeStringF16() and its like put the length first, cut to the bytes it has.
StringBytes(str, length, swap) == FixedBytes(Len(str), length, swap) \o str
ReadString(bs, length, swap) ==
  SubSeq(bs, length + 1, length + ReadFixed(SubSeq(bs, 1, length), swap))

-----------------------------------------------------------------------------
(* Properties.                                                              *)

\* The blocks, the block in hand and its offset together behave like one sequence
\* of bytes, through growth, repositioning, overwriting, clear() and transfers that
\* end early (bytearray.h, bytearray.cc:385-733).
Flat == INSTANCE Buffer WITH data <- SubSeq(mem, 1, size), pos <- position, result <- out
ImplementsBuffer == Flat!Spec

\* What writeInt32() writes, readInt32() reads, and stops where it ends whatever else
\* the array holds behind it, for every value of the width, the least one and those of
\* the last byte's few bits included; so do the fixed forms in both byte orders, and
\* strings whose length their prefix can hold (bytearray.cc:68-191, 207-383).
Behind == SubSeq(mem, 1, size)
CodesReadBack ==
  position = size /\ size > 0 =>
    /\ \A v \in Ints :
         LET bs   == VarintBytes(EncodeZigzag(v))
             read == ReadVarint(bs \o Behind)
         IN DecodeZigzag(read.value) = v /\ read.length = Len(bs)
    /\ \A swap \in BOOLEAN :
         /\ \A u \in 0..(Power2[Width] - 1) : ReadFixed(FixedBytes(u, MaxBytes, swap), swap) = u
         /\ \A str \in Chunks(More - 1) :
              ReadString(StringBytes(str, 1, swap) \o Behind, 1, swap) = str

=============================================================================
