-------------------------------- MODULE Buffer --------------------------------
(***************************************************************************)
(* What a ByteArray promises (base/bytearray.h): a sequence of bytes and a *)
(* position in it at which reading and writing go on.                      *)
(***************************************************************************)
EXTENDS Naturals, Sequences

VARIABLES
  data,    \* bytes [0, size_)
  pos,     \* position_
  result   \* what the last call took in or handed out

\* bs from the position on, over what is there and beyond it.
Put(bs) ==
  [i \in 1..(IF pos + Len(bs) > Len(data) THEN pos + Len(bs) ELSE Len(data)) |->
     IF i \in (pos + 1)..(pos + Len(bs)) THEN bs[i - pos] ELSE data[i]]

Init == data = <<>> /\ pos = 0 /\ result = <<>>

Write == data' = Put(result') /\ pos' = pos + Len(result')
Read  == \E n \in 0..(Len(data) - pos) :
           /\ result' = SubSeq(data, pos + 1, pos + n)
           /\ pos' = pos + n /\ UNCHANGED data
\* All that is left to read, which stays there.
Show  == /\ result' = SubSeq(data, pos + 1, Len(data))
         /\ UNCHANGED <<data, pos>>
\* Beyond the end the bytes are whatever the memory holds.
SetPosition == /\ Len(data') = IF pos' > Len(data) THEN pos' ELSE Len(data)
               /\ SubSeq(data', 1, Len(data)) = data
               /\ result' = <<>>
Clear == data' = <<>> /\ pos' = 0 /\ result' = <<>>

Next == Write \/ Read \/ Show \/ SetPosition \/ Clear
Spec == Init /\ [][Next]_<<data, pos, result>>

=============================================================================
