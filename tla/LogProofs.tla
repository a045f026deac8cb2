------------------------------- MODULE LogProofs -------------------------------
(***************************************************************************)
(* The loggers follow the configuration, for any loggers, definitions and  *)
(* formatters: the listener's calls on one logger lie together, in their   *)
(* order, among those on the others.                                       *)
(***************************************************************************)
EXTENDS LibraryProofs, Log

\* The calls of the sequence a on logger n are those of p, behind s others.
Lies(a, n, p, s) ==
  /\ s \in Nat /\ s + Len(p) <= Len(a)
  /\ \A i \in 1..Len(p) : a[s + i] = p[i]
  /\ \A i \in 1..Len(a) : a[i].name = n => s < i /\ i <= s + Len(p)

\* They do in two sequences, one behind the other, when one has none of them.
LEMMA LiesJoined ==
  ASSUME NEW S, NEW a \in Seq(S), NEW b \in Seq(S), NEW n,
         NEW p \in Seq(S), NEW q \in Seq(S), p = <<>> \/ q = <<>>,
         NEW s, Lies(a, n, p, s), NEW t, Lies(b, n, q, t)
  PROVE  \E u : Lies(a \o b, n, p \o q, u)
PROOF
<1>1. /\ a \o b \in Seq(S) /\ Len(a \o b) = Len(a) + Len(b)
      /\ \A i \in 1..(Len(a) + Len(b)) :
           (a \o b)[i] = IF i <= Len(a) THEN a[i] ELSE b[i - Len(a)]
  BY ConcatProperties
<1>2. Len(a) \in Nat /\ Len(b) \in Nat /\ Len(p) \in Nat /\ Len(q) \in Nat /\ s \in Nat /\ t \in Nat
  BY DEF Lies
<1> DEFINE ab == a \o b
<1>3. /\ \A i \in 1..Len(a) : i \in 1..Len(ab) /\ ab[i] = a[i]
      /\ \A i \in 1..Len(b) : Len(a) + i \in 1..Len(ab) /\ ab[Len(a) + i] = b[i]
      /\ Len(ab) = Len(a) + Len(b)
  BY <1>1, <1>2
<1>4. ASSUME NEW i \in 1..Len(ab), i > Len(a) PROVE i - Len(a) \in 1..Len(b) /\ ab[i] = b[i - Len(a)]
  BY <1>1, <1>2, <1>4
<1> HIDE DEF ab
<1>5. /\ s + Len(p) <= Len(a) /\ \A i \in 1..Len(p) : a[s + i] = p[i]
      /\ \A i \in 1..Len(a) : a[i].name = n => s < i /\ i <= s + Len(p)
      /\ t + Len(q) <= Len(b) /\ \A i \in 1..Len(q) : b[t + i] = q[i]
      /\ \A i \in 1..Len(b) : b[i].name = n => t < i /\ i <= t + Len(q)
  BY DEF Lies
<1>6. CASE q = <<>>
  <2>1. p \o q = p /\ Len(q) = 0
    BY <1>6
  <2>2. s + Len(p) <= Len(ab) /\ \A i \in 1..Len(p) : ab[s + i] = p[i]
    <3>1. \A i \in 1..Len(p) : s + i \in 1..Len(a)
      BY <1>2, <1>5
    <3>2. s + Len(p) <= Len(a) /\ Len(ab) = Len(a) + Len(b)
      BY <1>3, <1>5
    <3>3. s + Len(p) <= Len(ab)
      BY <1>2, <3>2
    <3> QED
      BY <1>3, <1>5, <3>1, <3>3
  <2>3. ASSUME NEW i \in 1..Len(ab), ab[i].name = n PROVE s < i /\ i <= s + Len(p)
    <3>1. CASE i <= Len(a)
      <4>1. i \in 1..Len(a) /\ a[i].name = n
        BY <1>2, <1>3, <2>3, <3>1
      <4> QED
        BY <1>5, <4>1
    <3>2. CASE i > Len(a)
      <4>1. i - Len(a) \in 1..Len(b) /\ b[i - Len(a)].name = n
        BY <1>4, <2>3, <3>2
      <4>2. t < i - Len(a) /\ i - Len(a) <= t + Len(q)
        BY <1>5, <4>1
      <4> QED
        BY <1>2, <2>1, <4>1, <4>2
    <3> QED
      BY <1>2, <1>3, <3>1, <3>2
  <2>4. Lies(ab, n, p, s)
    BY <1>2, <2>2, <2>3 DEF Lies
  <2> QED
    BY <2>1, <2>4 DEF ab
<1>7. CASE p = <<>>
  <2>1. p \o q = q /\ Len(p) = 0
    BY <1>7
  <2> DEFINE u == Len(a) + t
  <2>2. u \in Nat /\ u + Len(q) <= Len(ab)
    BY <1>2, <1>3, <1>5
  <2>3. ASSUME NEW i \in 1..Len(q) PROVE ab[u + i] = q[i]
    <3>1. t + i \in 1..Len(b) /\ b[t + i] = q[i] /\ u + i = Len(a) + (t + i)
      BY <1>2, <1>5
    <3> QED
      BY <1>3, <3>1
  <2>4. ASSUME NEW i \in 1..Len(ab), ab[i].name = n PROVE u < i /\ i <= u + Len(q)
    <3>1. CASE i <= Len(a)
      <4>1. i \in 1..Len(a) /\ a[i].name = n
        BY <1>2, <1>3, <2>4, <3>1
      <4>2. s < i /\ i <= s + 0
        BY <1>5, <2>1, <4>1
      <4> QED
        BY <1>2, <4>2
    <3>2. CASE i > Len(a)
      <4>1. i - Len(a) \in 1..Len(b) /\ b[i - Len(a)].name = n
        BY <1>4, <2>4, <3>2
      <4>2. t < i - Len(a) /\ i - Len(a) <= t + Len(q)
        BY <1>5, <4>1
      <4> QED
        BY <1>2, <1>3, <4>2
    <3> QED
      BY <1>2, <1>3, <3>1, <3>2
  <2>5. Lies(ab, n, q, u)
    <3> HIDE DEF u
    <3> QED
      BY <2>2, <2>3, <2>4 DEF Lies
  <2> QED
    BY <2>1, <2>5 DEF ab
<1> QED
  BY <1>6, <1>7

\* Flattened are the parts, one behind the other.
LEMMA FlattenedParts ==
  ASSUME NEW S, NEW seqs \in Seq(Seq(S)), Len(seqs) > 0
  PROVE  \E f \in [1..Len(seqs) -> Seq(S)] :
           /\ f[1] = seqs[1] /\ FlattenSeq(seqs) = f[Len(seqs)]
           /\ \A m \in 1..(Len(seqs) - 1) : f[m + 1] = f[m] \o seqs[m + 1]
PROOF
<1> DEFINE T == Seq(S)
           G == [x \in Nat \X T |-> IF x[1] < Len(seqs) THEN x[2] \o seqs[x[1] + 1] ELSE x[2]]
<1>1. Len(seqs) \in Nat /\ \A i \in 1..Len(seqs) : seqs[i] \in T
  OBVIOUS
<1>2. G \in [Nat \X T -> T]
  <2>1. ASSUME NEW n \in Nat, NEW s \in T, n < Len(seqs) PROVE s \o seqs[n + 1] \in T
    <3>1. seqs[n + 1] \in Seq(S) /\ s \in Seq(S)
      BY <1>1, <2>1
    <3> QED
      BY <3>1
  <2> HIDE DEF T
  <2> QED
    BY <2>1
<1>3. <<>> \in T
  OBVIOUS
<1>4. PICK h : Recursion(T, <<>>, G, h)
  <2> HIDE DEF G, T
  <2> QED
    BY <1>2, <1>3, RecursionExists
<1>5. /\ h \in [Nat -> T] /\ h[0] = <<>>
      /\ \A n \in 0..(Len(seqs) - 1) : h[n + 1] = h[n] \o seqs[n + 1]
  <2>1. h \in [Nat -> T] /\ h[0] = <<>> /\ \A n \in Nat : h[n + 1] = G[<<n, h[n]>>]
    BY <1>4 DEF Recursion
  <2>2. ASSUME NEW n \in 0..(Len(seqs) - 1) PROVE h[n + 1] = h[n] \o seqs[n + 1]
    <3>1. n \in Nat /\ n < Len(seqs) /\ h[n] \in T
      <4> HIDE DEF G, T
      <4> QED
        BY <1>1, <2>1
    <3>2. G[<<n, h[n]>>] = h[n] \o seqs[n + 1]
      BY <3>1
    <3> HIDE DEF G, T
    <3> QED
      BY <2>1, <3>1, <3>2
  <2> QED
    BY <2>1, <2>2
<1> HIDE DEF G
<1>6. h[1] = seqs[1]
  <2>1. h[0 + 1] = h[0] \o seqs[0 + 1]
    <3>1. 0 \in 0..(Len(seqs) - 1)
      BY <1>1
    <3> QED
      BY <1>5, <3>1
  <2>2. seqs[1] \in Seq(S) /\ 0 + 1 = 1
    BY <1>1
  <2> QED
    BY <1>5, <2>1, <2>2
<1> DEFINE flat(v) == v = [i \in 1..Len(seqs) |-> IF i = 1 THEN seqs[i] ELSE v[i - 1] \o seqs[i]]
           f == [i \in 1..Len(seqs) |-> h[i]]
           g == CHOOSE v : flat(v)
<1>7. flat(f)
  <2>1. ASSUME NEW i \in 1..Len(seqs), i # 1 PROVE f[i] = f[i - 1] \o seqs[i]
    <3>1. i - 1 \in 0..(Len(seqs) - 1) /\ (i - 1) + 1 = i /\ i - 1 \in 1..Len(seqs)
      BY <1>1, <2>1
    <3> QED
      BY <1>5, <3>1
  <2>2. f[1] = seqs[1]
    BY <1>1, <1>6
  <2>3. \A i \in 1..Len(seqs) : f[i] = IF i = 1 THEN seqs[i] ELSE f[i - 1] \o seqs[i]
    BY <2>1, <2>2
  <2>4. f = [i \in 1..Len(seqs) |-> f[i]]
    OBVIOUS
  <2> HIDE DEF f
  <2> QED
    BY <2>3, <2>4
<1>8. f \in [1..Len(seqs) -> Seq(S)]
  BY <1>5
<1> HIDE DEF f
<1>9. flat(g)
  <2> HIDE DEF flat
  <2> QED
    BY <1>7
<1>10. FlattenSeq(seqs) = g[Len(seqs)]
  BY DEF FlattenSeq
<1> HIDE DEF g
<1>11. \A n \in Nat : n + 1 <= Len(seqs) => g[n + 1] = f[n + 1]
  <2> DEFINE U == {n \in Nat : n + 1 <= Len(seqs) => g[n + 1] = f[n + 1]}
  <2>1. 0 \in U
    <3>1. 1 \in 1..Len(seqs)
      BY <1>1
    <3>2. g[1] = seqs[1] /\ f[1] = seqs[1]
      BY <1>7, <1>9, <3>1
    <3> QED
      BY <3>2
  <2>2. ASSUME NEW n \in Nat, n \in U PROVE n + 1 \in U
    <3> SUFFICES ASSUME (n + 1) + 1 <= Len(seqs) PROVE g[(n + 1) + 1] = f[(n + 1) + 1]
      OBVIOUS
    <3>1. /\ (n + 1) + 1 \in 1..Len(seqs) /\ (n + 1) + 1 # 1 /\ ((n + 1) + 1) - 1 = n + 1
          /\ n + 1 <= Len(seqs)
      BY <1>1
    <3>2. g[(n + 1) + 1] = g[n + 1] \o seqs[(n + 1) + 1]
      BY <1>9, <3>1
    <3>3. f[(n + 1) + 1] = f[n + 1] \o seqs[(n + 1) + 1]
      BY <1>7, <3>1
    <3> QED
      BY <2>2, <3>1, <3>2, <3>3
  <2>3. Nat \subseteq U
    <3> HIDE DEF U
    <3> QED
      BY <2>1, <2>2, EveryNumber
  <2> QED
    BY <2>3
<1>12. g[Len(seqs)] = f[Len(seqs)]
  <2>1. PICK n \in Nat : n + 1 = Len(seqs)
    <3>1. Len(seqs) - 1 \in Nat /\ (Len(seqs) - 1) + 1 = Len(seqs)
      BY <1>1
    <3> QED
      BY <3>1
  <2> QED
    BY <1>11, <2>1
<1>13. ASSUME NEW m \in 1..(Len(seqs) - 1) PROVE f[m + 1] = f[m] \o seqs[m + 1]
  <2>1. m + 1 \in 1..Len(seqs) /\ m + 1 # 1 /\ (m + 1) - 1 = m
    BY <1>1
  <2> QED
    BY <1>7, <2>1
<1>14. f[1] = seqs[1]
  <2>1. 1 \in 1..Len(seqs)
    BY <1>1
  <2> QED
    BY <1>7, <2>1
<1> QED
  BY <1>8, <1>10, <1>12, <1>13, <1>14

OnlyPart(seqs, n, k) ==
  \A i \in 1..Len(seqs) : \A m \in 1..Len(seqs[i]) : seqs[i][m].name = n <=> i = k

\* In a sequence of parts of which only the k-th has calls on n, and no others,
\* that part lies in what is flattened.
LEMMA PartLies ==
  ASSUME NEW S, NEW seqs \in Seq(Seq(S)), NEW n, NEW k \in 1..Len(seqs),
         OnlyPart(seqs, n, k)
  PROVE  /\ FlattenSeq(seqs) \in Seq(S)
         /\ \E s : Lies(FlattenSeq(seqs), n, seqs[k], s)
PROOF
<1>1. Len(seqs) \in Nat /\ Len(seqs) > 0 /\ \A i \in 1..Len(seqs) : seqs[i] \in Seq(S)
  OBVIOUS
<1>2. PICK f \in [1..Len(seqs) -> Seq(S)] :
        /\ f[1] = seqs[1] /\ FlattenSeq(seqs) = f[Len(seqs)]
        /\ \A m \in 1..(Len(seqs) - 1) : f[m + 1] = f[m] \o seqs[m + 1]
  BY <1>1, FlattenedParts
<1> DEFINE Upto(m) == IF k <= m THEN seqs[k] ELSE <<>>
           Only(m) == IF m = k THEN seqs[k] ELSE <<>>
<1>3. \A m \in Nat : Upto(m) \in Seq(S) /\ Only(m) \in Seq(S)
  BY <1>1
<1>4. ASSUME NEW i \in 1..Len(seqs) PROVE Lies(seqs[i], n, Only(i), 0)
  <2>1. CASE i = k
    BY <1>1, <2>1 DEF Lies
  <2>2. CASE i # k
    BY <1>1, <2>2 DEF Lies, OnlyPart
  <2> QED
    BY <2>1, <2>2
<1> DEFINE T == {m \in Nat : m + 1 <= Len(seqs) => \E s : Lies(f[m + 1], n, Upto(m + 1), s)}
<1>5. 0 \in T
  <2>1. 1 \in 1..Len(seqs) /\ Upto(1) = Only(1)
    BY <1>1
  <2>2. Lies(f[1], n, Upto(1), 0)
    BY <1>2, <1>4, <2>1
  <2> QED
    BY <2>2
<1>6. ASSUME NEW m \in Nat, m \in T PROVE m + 1 \in T
  <2> SUFFICES ASSUME (m + 1) + 1 <= Len(seqs)
               PROVE  \E s : Lies(f[(m + 1) + 1], n, Upto((m + 1) + 1), s)
    OBVIOUS
  <2>1. m + 1 \in 1..(Len(seqs) - 1) /\ (m + 1) + 1 \in 1..Len(seqs) /\ m + 1 \in 1..Len(seqs)
    BY <1>1
  <2>2. PICK s : Lies(f[m + 1], n, Upto(m + 1), s)
    BY <1>1, <1>6, <2>1
  <2>3. Lies(seqs[(m + 1) + 1], n, Only((m + 1) + 1), 0)
    BY <1>4, <2>1
  <2>4. /\ Upto(m + 1) = <<>> \/ Only((m + 1) + 1) = <<>>
        /\ Upto((m + 1) + 1) = Upto(m + 1) \o Only((m + 1) + 1)
        /\ Upto(m + 1) \in Seq(S) /\ Only((m + 1) + 1) \in Seq(S)
    <3>1. seqs[k] \in Seq(S)
      BY <1>1
    <3>2. seqs[k] \o <<>> = seqs[k] /\ <<>> \o seqs[k] = seqs[k] /\ <<>> \o <<>> = <<>>
      BY <3>1
    <3>3. k \in Nat /\ <<>> \in Seq(S)
      BY <1>1
    <3>4. CASE k <= m + 1
      <4>1. k <= (m + 1) + 1 /\ k # (m + 1) + 1
        BY <3>3, <3>4
      <4>2. Upto(m + 1) = seqs[k] /\ Only((m + 1) + 1) = <<>> /\ Upto((m + 1) + 1) = seqs[k]
        BY <3>4, <4>1
      <4>3. Upto((m + 1) + 1) = Upto(m + 1) \o Only((m + 1) + 1)
        BY <3>2, <4>2, Zenon
      <4> QED
        BY <3>1, <3>3, <4>2, <4>3, Zenon
    <3>5. CASE k = (m + 1) + 1
      <4>1. k <= (m + 1) + 1 /\ ~(k <= m + 1)
        BY <3>3, <3>5
      <4> QED
        BY <3>1, <3>2, <3>5, <4>1
    <3>6. CASE k > (m + 1) + 1
      <4>1. ~(k <= (m + 1) + 1) /\ k # (m + 1) + 1 /\ ~(k <= m + 1)
        BY <3>3, <3>6
      <4> QED
        BY <3>1, <3>2, <4>1
    <3>7. k <= m + 1 \/ k = (m + 1) + 1 \/ k > (m + 1) + 1
      BY <3>3
    <3> QED
      BY <3>4, <3>5, <3>6, <3>7
  <2>5. f[m + 1] \in Seq(S) /\ seqs[(m + 1) + 1] \in Seq(S)
    BY <1>1, <2>1
  <2> HIDE DEF Upto, Only
  <2>6. \E u : Lies(f[m + 1] \o seqs[(m + 1) + 1], n, Upto(m + 1) \o Only((m + 1) + 1), u)
    BY <2>2, <2>3, <2>4, <2>5, LiesJoined
  <2> QED
    BY <1>2, <2>1, <2>4, <2>6
<1>7. Len(seqs) - 1 \in T
  <2>1. Nat \subseteq T
    <3> HIDE DEF T
    <3> QED
      BY <1>5, <1>6, EveryNumber
  <2>2. Len(seqs) - 1 \in Nat
    BY <1>1
  <2> HIDE DEF T
  <2> QED
    BY <2>1, <2>2
<1>8. (Len(seqs) - 1) + 1 = Len(seqs) /\ Upto(Len(seqs)) = seqs[k] /\ Len(seqs) \in 1..Len(seqs)
  BY <1>1
<1>9. \E s : Lies(f[Len(seqs)], n, Upto(Len(seqs)), s)
  <2> HIDE DEF Upto
  <2> QED
    BY <1>7, <1>8
<1> QED
  BY <1>2, <1>8, <1>9

\* The calls that are left when the first has been made.
LEMMA LiesTail ==
  ASSUME NEW S, NEW a \in Seq(S), a # <<>>, NEW n, NEW p \in Seq(S),
         \A i \in 1..Len(p) : p[i].name = n, NEW s, Lies(a, n, p, s)
  PROVE  IF Head(a).name = n
         THEN p # <<>> /\ Head(p) = Head(a) /\ \E u : Lies(Tail(a), n, Tail(p), u)
         ELSE \E u : Lies(Tail(a), n, p, u)
PROOF
<1>1. /\ Len(a) \in Nat /\ Len(a) > 0 /\ Len(p) \in Nat /\ Head(a) = a[1]
      /\ Tail(a) \in Seq(S) /\ Len(Tail(a)) = Len(a) - 1
      /\ \A i \in 1..(Len(a) - 1) : Tail(a)[i] = a[i + 1]
  OBVIOUS
<1>2. /\ s \in Nat /\ s + Len(p) <= Len(a) /\ \A i \in 1..Len(p) : a[s + i] = p[i]
      /\ \A i \in 1..Len(a) : a[i].name = n => s < i /\ i <= s + Len(p)
  BY DEF Lies
<1>3. CASE Head(a).name = n
  <2>1. 0 < Len(p) /\ s = 0
    <3>1. 1 \in 1..Len(a) /\ a[1].name = n
      BY <1>1, <1>3
    <3>2. s < 1 /\ 1 <= s + Len(p)
      BY <1>2, <3>1
    <3> QED
      BY <1>1, <1>2, <3>2
  <2>2. /\ p # <<>> /\ Head(p) = p[1] /\ Len(Tail(p)) = Len(p) - 1
        /\ \A i \in 1..(Len(p) - 1) : Tail(p)[i] = p[i + 1]
    BY <2>1
  <2>3. Head(p) = Head(a)
    BY <1>1, <1>2, <2>1, <2>2
  <2>4. ASSUME NEW i \in 1..(Len(p) - 1) PROVE Tail(a)[0 + i] = Tail(p)[i]
    <3>1. i + 1 \in 1..Len(p) /\ i \in 1..(Len(a) - 1) /\ 0 + i = i /\ s + (i + 1) = i + 1
      BY <1>1, <1>2, <2>1
    <3>2. a[i + 1] = p[i + 1]
      BY <1>2, <3>1
    <3> QED
      BY <1>1, <2>2, <3>1, <3>2
  <2>5. ASSUME NEW i \in 1..(Len(a) - 1), Tail(a)[i].name = n PROVE 0 < i /\ i <= 0 + (Len(p) - 1)
    <3>1. i + 1 \in 1..Len(a) /\ a[i + 1].name = n
      BY <1>1, <2>5
    <3>2. i + 1 <= s + Len(p)
      BY <1>2, <3>1
    <3> QED
      BY <1>1, <2>1, <3>2
  <2>6. 0 + (Len(p) - 1) <= Len(a) - 1
    BY <1>1, <1>2, <2>1
  <2>7. Lies(Tail(a), n, Tail(p), 0)
    BY <1>1, <2>2, <2>4, <2>5, <2>6 DEF Lies
  <2> QED
    BY <1>3, <2>2, <2>3, <2>7
<1>4. CASE Head(a).name # n /\ s # 0
  <2>1. s - 1 \in Nat /\ (s - 1) + Len(p) <= Len(a) - 1
    BY <1>1, <1>2, <1>4
  <2>2. ASSUME NEW i \in 1..Len(p) PROVE Tail(a)[(s - 1) + i] = p[i]
    <3>1. (s - 1) + i \in 1..(Len(a) - 1) /\ ((s - 1) + i) + 1 = s + i
      BY <1>1, <1>2, <2>1
    <3> QED
      BY <1>1, <1>2, <3>1
  <2>3. ASSUME NEW i \in 1..(Len(a) - 1), Tail(a)[i].name = n
        PROVE  s - 1 < i /\ i <= (s - 1) + Len(p)
    <3>1. i + 1 \in 1..Len(a) /\ a[i + 1].name = n
      BY <1>1, <2>3
    <3>2. s < i + 1 /\ i + 1 <= s + Len(p)
      BY <1>2, <3>1
    <3> QED
      BY <1>1, <1>2, <3>2
  <2>4. Lies(Tail(a), n, p, s - 1)
    BY <1>1, <2>1, <2>2, <2>3 DEF Lies
  <2> QED
    BY <1>4, <2>4
<1>5. CASE Head(a).name # n /\ s = 0
  <2>1. Len(p) = 0
    <3> SUFFICES ASSUME Len(p) > 0 PROVE FALSE
      BY <1>1
    <3> QED
      <4>1. 1 \in 1..Len(p) /\ s + 1 = 1
        BY <1>1, <1>5
      <4>2. a[1] = p[1] /\ p[1].name = n
        BY <1>2, <4>1
      <4> QED
        BY <1>1, <1>5, <4>2
  <2>2. ASSUME NEW i \in 1..(Len(a) - 1) PROVE Tail(a)[i].name # n
    <3>1. i + 1 \in 1..Len(a) /\ Tail(a)[i] = a[i + 1]
      BY <1>1
    <3>2. ~(i + 1 <= s + Len(p))
      BY <1>5, <2>1
    <3> QED
      BY <1>2, <3>1, <3>2
  <2>3. Lies(Tail(a), n, p, 0)
    BY <1>1, <2>1, <2>2 DEF Lies
  <2> QED
    BY <1>5, <2>3
<1> QED
  BY <1>3, <1>4, <1>5

-----------------------------------------------------------------------------
(* What a call does to its logger.                                          *)

Patterns  == Formatters \cup {"", "default"}
Appenders == [type : {"File", "Stdout"}, own : BOOLEAN, formatter : Patterns]
LoggerStates == [level : Nat, formatter : Patterns, appenders : Seq(Appenders)]
ListenerCalls ==
  [op : {"setLevel"}, name : LoggerNames, arg : Nat]
  \cup [op : {"setFormatter"}, name : LoggerNames, arg : Formatters]
  \cup [op : {"clearAppenders"}, name : LoggerNames, arg : {0}]
  \cup [op : {"addAppender"}, name : LoggerNames, arg : Appenders]

\* An appender without a formatter of its own has the logger's.
SharesFormatter(g) ==
  \A i \in DOMAIN g.appenders : ~g.appenders[i].own => g.appenders[i].formatter = g.formatter

\* a is what becomes of the appender b in a logger; as, of the first m of bs.
Alike(a, b) == a.type = b.type /\ a.own = b.own /\ (b.own => a.formatter = b.formatter)
AlikeUpTo(as, bs, m) == Len(as) = m /\ \A i \in 1..m : Alike(as[i], bs[i])

LEMMA FieldsOf ==
  /\ \A l \in Nat, f \in Patterns, as \in Seq(Appenders) :
       [level |-> l, formatter |-> f, appenders |-> as] \in LoggerStates
  /\ \A t \in {"File", "Stdout"}, own \in BOOLEAN, f \in Patterns :
       /\ [type |-> t, own |-> own, formatter |-> f] \in Appenders
       /\ [type |-> t, own |-> own, formatter |-> f].own = own
       /\ [type |-> t, own |-> own, formatter |-> f].type = t
PROOF
<1>1. \A l \in Nat, f \in Patterns, as \in Seq(Appenders) :
        [level |-> l, formatter |-> f, appenders |-> as] \in LoggerStates
  BY DEF LoggerStates
<1>2. \A t \in {"File", "Stdout"}, own \in BOOLEAN, f \in Patterns :
        /\ [type |-> t, own |-> own, formatter |-> f] \in Appenders
        /\ [type |-> t, own |-> own, formatter |-> f].own = own
        /\ [type |-> t, own |-> own, formatter |-> f].type = t
  BY Zenon DEF Appenders
<1> QED
  BY <1>1, <1>2

\* Each call changes what it names and keeps the rest, as far as Alike sees.
LEMMA CallsDo ==
  ASSUME NEW c \in ListenerCalls, NEW g \in LoggerStates, SharesFormatter(g)
  PROVE  /\ Done(c, g) \in LoggerStates /\ SharesFormatter(Done(c, g))
         /\ Done(c, g).level = IF c.op = "setLevel" THEN c.arg ELSE g.level
         /\ c.op = "setLevel" => Done(c, g).appenders = g.appenders
         /\ c.op = "clearAppenders" => Done(c, g).appenders = <<>>
         /\ c.op = "setFormatter" =>
              /\ Len(Done(c, g).appenders) = Len(g.appenders)
              /\ \A i \in 1..Len(g.appenders) : Alike(Done(c, g).appenders[i], g.appenders[i])
         /\ c.op = "addAppender" =>
              /\ Len(Done(c, g).appenders) = Len(g.appenders) + 1
              /\ \A i \in 1..Len(g.appenders) : Done(c, g).appenders[i] = g.appenders[i]
              /\ Alike(Done(c, g).appenders[Len(g.appenders) + 1], c.arg)
PROOF
<1>1. /\ g.level \in Nat /\ g.formatter \in Patterns /\ g.appenders \in Seq(Appenders)
      /\ g = [level |-> g.level, formatter |-> g.formatter, appenders |-> g.appenders]
      /\ DOMAIN g.appenders = 1..Len(g.appenders) /\ Len(g.appenders) \in Nat
  BY DEF LoggerStates
<1>2. CASE c.op = "setLevel"
  <2>1. c.arg \in Nat
    BY <1>2 DEF ListenerCalls
  <2>2. Done(c, g) = [level |-> c.arg, formatter |-> g.formatter, appenders |-> g.appenders]
    BY <1>1, <1>2 DEF Done
  <2> QED
    BY <1>1, <1>2, <2>1, <2>2 DEF LoggerStates, SharesFormatter
<1>3. CASE c.op = "clearAppenders"
  <2>1. Done(c, g) = [level |-> g.level, formatter |-> g.formatter, appenders |-> <<>>]
    BY <1>1, <1>3 DEF Done
  <2> QED
    BY <1>1, <1>3, <2>1 DEF LoggerStates, SharesFormatter
<1>4. CASE c.op = "setFormatter"
  <2>1. c.arg \in Formatters
    BY <1>4 DEF ListenerCalls
  <2>2. CASE c.arg \in Invalid
    <3>1. Done(c, g) = g
      BY <1>4, <2>2 DEF Done
    <3> QED
      BY <1>1, <1>4, <3>1 DEF Alike
  <2>3. CASE c.arg \notin Invalid
    <3> DEFINE as == [i \in DOMAIN g.appenders |->
                        IF g.appenders[i].own THEN g.appenders[i]
                        ELSE [g.appenders[i] EXCEPT !.formatter = c.arg]]
    <3>1. Done(c, g) = [level |-> g.level, formatter |-> c.arg, appenders |-> as]
      BY <1>1, <1>4, <2>3 DEF Done, SetFormatter
    <3>2. ASSUME NEW i \in 1..Len(g.appenders)
          PROVE  /\ as[i] \in Appenders /\ Alike(as[i], g.appenders[i])
                 /\ ~as[i].own => as[i].formatter = c.arg
      <4>1. g.appenders[i] \in Appenders
        BY <1>1
      <4>2. as[i] = IF g.appenders[i].own THEN g.appenders[i]
                    ELSE [g.appenders[i] EXCEPT !.formatter = c.arg]
        BY <1>1
      <4> HIDE DEF as
      <4> QED
        BY <2>1, <4>1, <4>2 DEF Appenders, Alike, Patterns
    <3>3. as \in Seq(Appenders) /\ Len(as) = Len(g.appenders) /\ DOMAIN as = 1..Len(g.appenders)
      <4>1. as = [i \in 1..Len(g.appenders) |-> as[i]]
        BY <1>1
      <4> HIDE DEF as
      <4>2. PICK l \in Nat : l = Len(g.appenders)
        BY <1>1
      <4>3. as \in [1..l -> Appenders]
        BY <3>2, <4>1, <4>2
      <4>4. as \in Seq(Appenders) /\ Len(as) = l /\ DOMAIN as = 1..l
        BY <4>3, SequenceOf
      <4> QED
        BY <4>2, <4>4
    <3>4. c.arg \in Patterns
      BY <2>1 DEF Patterns
    <3> HIDE DEF as
    <3> DEFINE h == Done(c, g)
    <3>5. h.level = g.level /\ h.formatter = c.arg /\ h.appenders = as
      BY <3>1
    <3>6. h \in LoggerStates
      BY <1>1, <3>1, <3>3, <3>4, FieldsOf
    <3> HIDE DEF h
    <3>7. SharesFormatter(h)
      BY <3>2, <3>3, <3>5 DEF SharesFormatter
    <3>8. /\ Len(h.appenders) = Len(g.appenders)
          /\ \A i \in 1..Len(g.appenders) : Alike(h.appenders[i], g.appenders[i])
      BY <3>2, <3>3, <3>5
    <3> QED
      BY <1>4, <3>5, <3>6, <3>7, <3>8 DEF h
  <2> QED
    BY <2>2, <2>3
<1>5. CASE c.op = "addAppender"
  <2> DEFINE x == IF c.arg.own THEN c.arg ELSE [c.arg EXCEPT !.formatter = g.formatter]
  <2>1. c.arg \in Appenders
    BY <1>5 DEF ListenerCalls
  <2>2. x \in Appenders /\ Alike(x, c.arg) /\ (~x.own => x.formatter = g.formatter)
    BY <1>1, <2>1 DEF Appenders, Alike
  <2>3. Done(c, g) = [level |-> g.level, formatter |-> g.formatter, appenders |-> Append(g.appenders, x)]
    BY <1>1, <1>5 DEF Done, AddAppender
  <2> HIDE DEF x
  <2> DEFINE as == Append(g.appenders, x)
  <2>4. /\ as \in Seq(Appenders) /\ Len(as) = Len(g.appenders) + 1
        /\ \A i \in 1..Len(g.appenders) : as[i] = g.appenders[i]
        /\ as[Len(g.appenders) + 1] = x /\ DOMAIN as = 1..(Len(g.appenders) + 1)
    BY <1>1, <2>2
  <2> HIDE DEF as
  <2>5. \A i \in DOMAIN as : ~as[i].own => as[i].formatter = g.formatter
    <3>1. \A i \in DOMAIN as : i \in 1..Len(g.appenders) \/ i = Len(g.appenders) + 1
      BY <1>1, <2>4
    <3> QED
      BY <1>1, <2>2, <2>4, <3>1 DEF SharesFormatter
  <2>6. Done(c, g) = [level |-> g.level, formatter |-> g.formatter, appenders |-> as]
    BY <2>3 DEF as
  <2> DEFINE h == Done(c, g)
  <2>7. h.level = g.level /\ h.formatter = g.formatter /\ h.appenders = as
    BY <2>6
  <2>8. h \in LoggerStates
    BY <1>1, <2>4, <2>6, FieldsOf
  <2> HIDE DEF h
  <2>9. SharesFormatter(h)
    BY <2>5, <2>7 DEF SharesFormatter
  <2>10. /\ Len(h.appenders) = Len(g.appenders) + 1
         /\ \A i \in 1..Len(g.appenders) : h.appenders[i] = g.appenders[i]
         /\ Alike(h.appenders[Len(g.appenders) + 1], c.arg)
    BY <2>2, <2>4, <2>7
  <2> QED
    BY <1>5, <2>7, <2>8, <2>9, <2>10 DEF h
<1> QED
  BY <1>2, <1>3, <1>4, <1>5 DEF ListenerCalls

-----------------------------------------------------------------------------
(* The calls that the listener makes.                                       *)

AppenderDefines == [type : {"File", "Stdout"}, formatter : Formatters \cup {""}]

\* Kept is a sequence of appenders of the definition.
LEMMA KeptIs ==
  ASSUME NEW d \in Definitions
  PROVE  Kept(d) \in Seq(AppenderDefines)
PROOF
<1>1. d.appenders \in Seq(AppenderDefines)
  BY DEF Definitions, AppenderDefines
<1> DEFINE seqs == [i \in DOMAIN d.appenders |->
             IF daemon /\ d.appenders[i].type = "Stdout" THEN <<>> ELSE <<d.appenders[i]>>]
<1>2. /\ seqs \in Seq(Seq(AppenderDefines)) /\ Len(seqs) = Len(d.appenders)
  <2>1. ASSUME NEW i \in 1..Len(d.appenders) PROVE seqs[i] \in Seq(AppenderDefines)
    BY <1>1, <2>1
  <2>2. seqs = [i \in 1..Len(d.appenders) |-> seqs[i]] /\ Len(d.appenders) \in Nat
    BY <1>1
  <2> HIDE DEF seqs
  <2> QED
    BY <2>1, <2>2
<1>3. Kept(d) = FlattenSeq(seqs)
  BY DEF Kept
<1> HIDE DEF seqs
<1>4. CASE Len(seqs) = 0
  <2>1. seqs = <<>>
    BY <1>2, <1>4
  <2>2. FlattenSeq(seqs) = seqs
    BY <1>4 DEF FlattenSeq
  <2>3. <<>> \in Seq(AppenderDefines)
    OBVIOUS
  <2>4. Kept(d) = <<>>
    BY <1>3, <2>1, <2>2
  <2> QED
    BY <2>3, <2>4
<1>5. CASE Len(seqs) > 0
  <2>1. PICK f \in [1..Len(seqs) -> Seq(AppenderDefines)] : FlattenSeq(seqs) = f[Len(seqs)]
    BY <1>2, <1>5, FlattenedParts
  <2>2. Len(seqs) \in 1..Len(seqs)
    BY <1>2, <1>5
  <2> QED
    BY <1>3, <2>1, <2>2
<1> QED
  BY <1>2, <1>4, <1>5

\* The appenders built are those, with a formatter of their own where it is valid.
LEMMA BuiltIs ==
  ASSUME NEW d \in Definitions
  PROVE  /\ Built(d) \in Seq(Appenders) /\ Len(Built(d)) = Len(Kept(d))
         /\ \A i \in 1..Len(Kept(d)) :
              /\ Built(d)[i].type = Kept(d)[i].type
              /\ Built(d)[i].own <=> Kept(d)[i].formatter \notin Invalid \cup {""}
              /\ Built(d)[i].own => Built(d)[i].formatter = Kept(d)[i].formatter
PROOF
<1>1. Kept(d) \in Seq(AppenderDefines) /\ DOMAIN Kept(d) = 1..Len(Kept(d)) /\ Len(Kept(d)) \in Nat
  BY KeptIs
<1>2. ASSUME NEW i \in 1..Len(Kept(d))
      PROVE  /\ Built(d)[i] \in Appenders
             /\ Built(d)[i].type = Kept(d)[i].type
             /\ Built(d)[i].own <=> Kept(d)[i].formatter \notin Invalid \cup {""}
             /\ Built(d)[i].own => Built(d)[i].formatter = Kept(d)[i].formatter
  <2> DEFINE a   == Kept(d)[i]
             own == a.formatter \notin Invalid \cup {""}
  <2>1. a \in AppenderDefines /\ own \in BOOLEAN
    BY <1>1
  <2>2. Built(d)[i] = [type |-> a.type, own |-> own, formatter |-> IF own THEN a.formatter ELSE ""]
    BY <1>1 DEF Built, Appender
  <2>3. a.type \in {"File", "Stdout"} /\ a.formatter \in Patterns /\ "" \in Patterns
    BY <2>1 DEF AppenderDefines, Patterns
  <2>4. CASE own
    <3>1. Built(d)[i] = [type |-> a.type, own |-> TRUE, formatter |-> a.formatter]
      BY <2>2, <2>4
    <3>2. Built(d)[i] \in Appenders
      <4> HIDE DEF a
      <4> QED
        BY <2>3, <3>1, FieldsOf
    <3>3. /\ Built(d)[i].type = a.type /\ Built(d)[i].own = TRUE
          /\ Built(d)[i].formatter = a.formatter
      <4> HIDE DEF a
      <4> QED
        BY <3>1
    <3> QED
      BY <2>4, <3>2, <3>3, Zenon
  <2>5. CASE ~own
    <3>1. Built(d)[i] = [type |-> a.type, own |-> FALSE, formatter |-> ""]
      BY <2>2, <2>5
    <3>2. Built(d)[i] \in Appenders
      BY <2>3, <3>1, FieldsOf
    <3>3. Built(d)[i].type = a.type /\ ~Built(d)[i].own
      <4> HIDE DEF a
      <4>1. /\ [type |-> a.type, own |-> FALSE, formatter |-> ""].type = a.type
            /\ ~[type |-> a.type, own |-> FALSE, formatter |-> ""].own
        BY Zenon
      <4> QED
        BY <3>1, <4>1, Zenon
    <3> QED
      BY <2>5, <3>2, <3>3, Zenon
  <2> QED
    BY <2>4, <2>5
<1>3. Built(d) = [i \in 1..Len(Kept(d)) |-> Built(d)[i]]
  BY <1>1 DEF Built
<1>4. PICK l \in Nat : l = Len(Kept(d))
  BY <1>1
<1>5. Built(d) \in [1..l -> Appenders]
  BY <1>2, <1>3, <1>4
<1>6. Built(d) \in Seq(Appenders) /\ Len(Built(d)) = l
  BY <1>5, SequenceOf
<1> QED
  BY <1>2, <1>4, <1>6

LEMMA OneMore ==
  ASSUME NEW S, NEW x \in Seq(S), NEW m \in Nat, Len(x) = m, NEW e \in S, NEW y, y = x \o <<e>>
  PROVE  /\ y \in Seq(S) /\ Len(y) = m + 1 /\ y[m + 1] = e
         /\ \A i \in 1..m : y[i] = x[i]
PROOF
  BY AppendIsConcat, AppendProperties

\* Configure makes the same calls for every definition, clearAppenders second or third.
ClearsAt(d, k) == IF d.formatter = "" THEN k = 2 ELSE k = 3

CallsInOrder(n, d, k, w) ==
  /\ w \in Seq(ListenerCalls) /\ Len(w) = k + Len(Kept(d))
  /\ \A i \in 1..Len(w) : w[i].name = n
  /\ w[1].op = "setLevel" /\ w[1].arg = d.level
  /\ d.formatter # "" => w[2].op = "setFormatter"
  /\ w[k].op = "clearAppenders"
  /\ \A i \in 1..Len(Kept(d)) : w[k + i].op = "addAppender" /\ w[k + i].arg = Built(d)[i]

LEMMA ConfigureIs ==
  ASSUME NEW n \in LoggerNames, NEW d \in Definitions, NEW k \in Nat, ClearsAt(d, k)
  PROVE  CallsInOrder(n, d, k, Configure(n, d))
PROOF
<1> DEFINE a == LogCall("setLevel", n, d.level)
           b == LogCall("setFormatter", n, d.formatter)
           c == LogCall("clearAppenders", n, 0)
           rest == [i \in DOMAIN Built(d) |-> LogCall("addAppender", n, Built(d)[i])]
           X == IF d.formatter = "" THEN <<>> ELSE <<b>>
           pre == (<<a>> \o X) \o <<c>>
<1>1. PICK l \in Nat : /\ l = Len(Kept(d)) /\ Built(d) \in Seq(Appenders)
                       /\ Len(Built(d)) = l /\ DOMAIN Built(d) = 1..l
  <2>1. Kept(d) \in Seq(AppenderDefines)
    BY KeptIs
  <2>2. Len(Kept(d)) \in Nat
    BY <2>1
  <2>3. Built(d) \in Seq(Appenders) /\ Len(Built(d)) = Len(Kept(d))
    BY BuiltIs
  <2>4. DOMAIN Built(d) = 1..Len(Built(d))
    BY <2>3
  <2> QED
    BY <2>2, <2>3, <2>4
<1>2. (d.formatter = "" => k = 2) /\ (d.formatter # "" => k = 3)
  BY DEF ClearsAt
<1>3. k = 2 \/ k = 3
  BY <1>2, Zenon
<1>4. k \in Nat /\ k > 1 /\ l \in Nat
  BY <1>3
<1>5. d.level \in Nat /\ d.formatter \in Formatters \cup {""}
  BY LogAssumption DEF Definitions
<1>6. a \in ListenerCalls /\ a.name = n /\ a.op = "setLevel" /\ a.arg = d.level
  BY <1>5 DEF ListenerCalls, LogCall
<1>7. d.formatter # "" => b \in ListenerCalls /\ b.name = n /\ b.op = "setFormatter"
  BY <1>5 DEF ListenerCalls, LogCall
<1>8. c \in ListenerCalls /\ c.name = n /\ c.op = "clearAppenders"
  BY DEF ListenerCalls, LogCall
<1>9. ASSUME NEW i \in 1..l
      PROVE  rest[i] \in ListenerCalls /\ rest[i].name = n /\ rest[i].op = "addAppender" /\ rest[i].arg = Built(d)[i]
  <2>1. Built(d)[i] \in Appenders /\ rest[i] = LogCall("addAppender", n, Built(d)[i])
    BY <1>1
  <2> HIDE DEF rest
  <2> QED
    BY <2>1 DEF ListenerCalls, LogCall
<1>10. rest \in Seq(ListenerCalls) /\ Len(rest) = l
  <2>1. rest = [i \in 1..l |-> rest[i]]
    BY <1>1
  <2>2. PICK m \in Nat : m = l
    BY <1>1
  <2> HIDE DEF rest
  <2>3. rest \in [1..m -> ListenerCalls]
    BY <1>9, <2>1, <2>2
  <2> QED
    BY <2>2, <2>3, SequenceOf
<1>11. /\ pre \in Seq(ListenerCalls) /\ Len(pre) = k /\ pre[1] = a /\ pre[k] = c
       /\ d.formatter # "" => pre[2] = b
       /\ \A i \in 1..k : pre[i].name = n
  <2>1. CASE d.formatter = ""
    <3>1. X = <<>> /\ k = 2
      BY <1>2, <2>1
    <3> HIDE DEF X, a, b, c
    <3>2. <<a>> \in Seq(ListenerCalls) /\ Len(<<a>>) = 1 /\ <<a>>[1] = a /\ pre = <<a>> \o <<c>>
      BY <1>6, <3>1
    <3> HIDE DEF pre
    <3>3. /\ pre \in Seq(ListenerCalls) /\ Len(pre) = 1 + 1 /\ pre[1 + 1] = c
          /\ \A i \in 1..1 : pre[i] = <<a>>[i]
      BY <1>8, <3>2, OneMore
    <3>4. pre \in Seq(ListenerCalls) /\ Len(pre) = 2 /\ pre[1] = a /\ pre[2] = c
      BY <3>2, <3>3
    <3>5. \A i \in 1..2 : pre[i].name = n
      BY <1>6, <1>8, <3>4
    <3> HIDE DEF rest
    <3> QED
      BY <2>1, <3>1, <3>4, <3>5
  <2>2. CASE d.formatter # ""
    <3>1. X = <<b>> /\ k = 3 /\ b \in ListenerCalls /\ b.name = n
      BY <1>2, <1>7, <2>2
    <3> HIDE DEF X, a, b, c
    <3> DEFINE y == <<a>> \o <<b>>
    <3>2. <<a>> \in Seq(ListenerCalls) /\ Len(<<a>>) = 1 /\ <<a>>[1] = a /\ pre = y \o <<c>>
      BY <1>6, <3>1
    <3>3. /\ y \in Seq(ListenerCalls) /\ Len(y) = 1 + 1 /\ y[1 + 1] = b
          /\ \A i \in 1..1 : y[i] = <<a>>[i]
      <4>1. <<a>> \in Seq(ListenerCalls) /\ Len(<<a>>) = 1 /\ y = <<a>> \o <<b>>
        BY <3>2
      <4> HIDE DEF y, pre
      <4> QED
        BY <3>1, <4>1, OneMore
    <3> HIDE DEF y, pre
    <3>4. y \in Seq(ListenerCalls) /\ Len(y) = 2 /\ y[1] = a /\ y[2] = b
      BY <3>2, <3>3
    <3>5. /\ pre \in Seq(ListenerCalls) /\ Len(pre) = 2 + 1 /\ pre[2 + 1] = c
          /\ \A i \in 1..2 : pre[i] = y[i]
      BY <1>8, <3>2, <3>4, OneMore
    <3>6. pre \in Seq(ListenerCalls) /\ Len(pre) = 3 /\ pre[1] = a /\ pre[2] = b /\ pre[3] = c
      BY <3>4, <3>5
    <3>7. \A i \in 1..3 : pre[i].name = n
      BY <1>6, <1>8, <3>1, <3>6
    <3> HIDE DEF rest
    <3> QED
      BY <2>2, <3>1, <3>6, <3>7
  <2> QED
    BY <2>1, <2>2
<1>12. Configure(n, d) = pre \o rest
  BY DEF Configure
<1> HIDE DEF a, b, c, rest, pre
<1>13. pre \in Seq(ListenerCalls) /\ Len(pre) = k
  BY <1>11
<1>14. PICK w : w = pre \o rest
  OBVIOUS
<1>15. /\ w \in Seq(ListenerCalls) /\ Len(w) = k + l
       /\ \A i \in 1..k : w[i] = pre[i]
       /\ \A i \in 1..l : w[k + i] = rest[i]
  <2>1. k \in Nat /\ l \in Nat /\ Len(pre) = k /\ Len(rest) = l
    BY <1>4, <1>10, <1>13
  <2>2. pre \in Seq(ListenerCalls) /\ rest \in Seq(ListenerCalls) /\ w = pre \o rest
    BY <1>10, <1>13, <1>14
  <2> HIDE DEF X
  <2>3. w \in Seq(ListenerCalls) /\ Len(w) = k + l
    <3>1. w \in Seq(ListenerCalls)
      BY <2>2
    <3>2. Len(w) = Len(pre) + Len(rest)
      BY <2>2
    <3> QED
      BY <2>1, <3>1, <3>2
  <2>4. \A i \in 1..(k + l) : w[i] = IF i <= k THEN pre[i] ELSE rest[i - k]
    BY <2>1, <2>2, ConcatProperties
  <2>5. \A i \in 1..k : w[i] = pre[i]
    BY <2>1, <2>4
  <2>6. ASSUME NEW i \in 1..l PROVE w[k + i] = rest[i]
    <3>1. k + i \in 1..(k + l) /\ ~(k + i <= k) /\ (k + i) - k = i
      BY <2>1
    <3> QED
      BY <2>4, <3>1
  <2> QED
    BY <2>3, <2>5, <2>6
<1>16. ASSUME NEW i \in 1..(k + l) PROVE w[i].name = n
  <2>1. CASE i <= k
    <3>1. i \in 1..k
      BY <1>4, <2>1
    <3>2. pre[i].name = n
      BY <1>11, <3>1
    <3> QED
      BY <1>15, <3>1, <3>2
  <2>2. CASE i > k
    <3>1. i - k \in 1..l /\ k + (i - k) = i
      BY <1>4, <2>2
    <3>2. rest[i - k].name = n
      BY <1>9, <3>1
    <3> QED
      BY <1>15, <3>1, <3>2
  <2> QED
    BY <1>4, <2>1, <2>2
<1>17. w[1] = a /\ w[k] = c /\ (d.formatter # "" => w[2] = b)
  <2>1. 1 \in 1..k /\ k \in 1..k /\ 2 \in 1..k
    BY <1>4
  <2>2. w[1] = pre[1] /\ w[k] = pre[k] /\ w[2] = pre[2]
    BY <1>15, <2>1
  <2> QED
    BY <1>11, <2>2
<1>18. Configure(n, d) = w
  BY <1>12, <1>14
<1>19. \A i \in 1..l : w[k + i].op = "addAppender" /\ w[k + i].arg = Built(d)[i]
  BY <1>9, <1>15
<1> QED
  BY <1>1, <1>6, <1>7, <1>8, <1>15, <1>16, <1>17, <1>18, <1>19 DEF CallsInOrder

LEMMA ConfigureTyped ==
  ASSUME NEW n \in LoggerNames, NEW d \in Definitions
  PROVE  /\ Configure(n, d) \in Seq(ListenerCalls)
         /\ \A i \in 1..Len(Configure(n, d)) : Configure(n, d)[i].name = n
PROOF
<1>1. PICK k \in Nat : ClearsAt(d, k)
  <2>1. ClearsAt(d, 2) \/ ClearsAt(d, 3)
    BY DEF ClearsAt
  <2> QED
    BY <2>1
<1>2. CallsInOrder(n, d, k, Configure(n, d))
  BY <1>1, ConfigureIs
<1> QED
  BY <1>2 DEF CallsInOrder

\* What the listener does to one logger.
CallsOn(n, ds) ==
  IF n \in Applied(ds) THEN Configure(n, ds[n])
  ELSE IF n \in DOMAIN defs \ DOMAIN ds
       THEN <<LogCall("setLevel", n, 0), LogCall("clearAppenders", n, 0)>> ELSE <<>>

LEMMA CallsLie ==
  ASSUME NEW ds \in Defines, NEW n \in LoggerNames
  PROVE  /\ CallsFor(ds) \in Seq(ListenerCalls) /\ CallsOn(n, ds) \in Seq(ListenerCalls)
         /\ \E s : Lies(CallsFor(ds), n, CallsOn(n, ds), s)
PROOF
<1>1. /\ Loggers \in Seq(LoggerNames) /\ Len(Loggers) \in Nat /\ DOMAIN Loggers = 1..Len(Loggers)
      /\ \A i, j \in 1..Len(Loggers) : Loggers[i] = Loggers[j] => i = j
      /\ \A i \in 1..Len(Loggers) : Loggers[i] \in LoggerNames
  BY LogAssumption
<1>2. \A m \in Applied(ds) : m \in DOMAIN ds /\ ds[m] \in Definitions
  BY LogAssumption DEF Applied
<1>3. PICK k \in 1..Len(Loggers) : Loggers[k] = n
  BY <1>1 DEF LoggerNames
<1> DEFINE A == [i \in DOMAIN Loggers |->
                   IF Loggers[i] \in Applied(ds) THEN Configure(Loggers[i], ds[Loggers[i]]) ELSE <<>>]
           B == [i \in DOMAIN Loggers |->
                   IF Loggers[i] \in DOMAIN defs \ DOMAIN ds
                   THEN <<LogCall("setLevel", Loggers[i], 0), LogCall("clearAppenders", Loggers[i], 0)>>
                   ELSE <<>>]
<1>4. CallsFor(ds) = FlattenSeq(A) \o FlattenSeq(B)
  BY DEF CallsFor
<1>5. ASSUME NEW i \in 1..Len(Loggers)
      PROVE  A[i] \in Seq(ListenerCalls) /\ \A m \in 1..Len(A[i]) : A[i][m].name = Loggers[i]
  <2>1. CASE Loggers[i] \in Applied(ds)
    <3>1. A[i] = Configure(Loggers[i], ds[Loggers[i]])
      BY <1>1, <2>1
    <3> HIDE DEF A
    <3>2. ds[Loggers[i]] \in Definitions /\ Loggers[i] \in LoggerNames
      BY <1>1, <1>2, <2>1
    <3>3. /\ Configure(Loggers[i], ds[Loggers[i]]) \in Seq(ListenerCalls)
          /\ \A x \in 1..Len(Configure(Loggers[i], ds[Loggers[i]])) :
               Configure(Loggers[i], ds[Loggers[i]])[x].name = Loggers[i]
      BY <3>2, ConfigureTyped
    <3> QED
      BY <3>1, <3>3
  <2>2. CASE Loggers[i] \notin Applied(ds)
    <3>1. A[i] = <<>>
      BY <1>1, <2>2
    <3> HIDE DEF A
    <3> QED
      BY <3>1
  <2> QED
    BY <2>1, <2>2
<1>6. ASSUME NEW i \in 1..Len(Loggers)
      PROVE  B[i] \in Seq(ListenerCalls) /\ \A m \in 1..Len(B[i]) : B[i][m].name = Loggers[i]
  <2>1. CASE Loggers[i] \in DOMAIN defs \ DOMAIN ds
    <3> DEFINE a == LogCall("setLevel", Loggers[i], 0)
               c == LogCall("clearAppenders", Loggers[i], 0)
    <3>1. a \in ListenerCalls /\ c \in ListenerCalls /\ a.name = Loggers[i] /\ c.name = Loggers[i]
      BY <1>1 DEF ListenerCalls, LogCall
    <3>2. B[i] = <<a, c>>
      BY <1>1, <2>1
    <3> HIDE DEF B, a, c
    <3> QED
      BY <3>1, <3>2
  <2>2. CASE Loggers[i] \notin DOMAIN defs \ DOMAIN ds
    <3>1. B[i] = <<>>
      BY <1>1, <2>2
    <3> HIDE DEF B
    <3> QED
      BY <3>1
  <2> QED
    BY <2>1, <2>2
<1>7. /\ A \in Seq(Seq(ListenerCalls)) /\ Len(A) = Len(Loggers)
      /\ B \in Seq(Seq(ListenerCalls)) /\ Len(B) = Len(Loggers)
  <2>1. A = [i \in 1..Len(Loggers) |-> A[i]] /\ B = [i \in 1..Len(Loggers) |-> B[i]]
    BY <1>1
  <2>2. PICK m \in Nat : m = Len(Loggers)
    BY <1>1
  <2> HIDE DEF A, B
  <2>3. A \in [1..m -> Seq(ListenerCalls)] /\ B \in [1..m -> Seq(ListenerCalls)]
    BY <1>5, <1>6, <2>1, <2>2
  <2> QED
    BY <2>2, <2>3, SequenceOf
<1>8. (A[k] = <<>> \/ B[k] = <<>>) /\ CallsOn(n, ds) = A[k] \o B[k]
  <2>1. A[k] \in Seq(ListenerCalls) /\ B[k] \in Seq(ListenerCalls)
    BY <1>5, <1>6
  <2>2. /\ A[k] = IF n \in Applied(ds) THEN Configure(n, ds[n]) ELSE <<>>
        /\ B[k] = IF n \in DOMAIN defs \ DOMAIN ds
                  THEN <<LogCall("setLevel", n, 0), LogCall("clearAppenders", n, 0)>> ELSE <<>>
    BY <1>1, <1>3
  <2> HIDE DEF A, B
  <2>3. A[k] \o <<>> = A[k] /\ <<>> \o B[k] = B[k]
    BY <2>1
  <2>4. CASE n \in Applied(ds)
    <3>1. B[k] = <<>> /\ CallsOn(n, ds) = A[k]
      BY <1>2, <2>2, <2>4 DEF CallsOn
    <3> QED
      BY <2>3, <3>1
  <2>5. CASE n \notin Applied(ds)
    <3>1. A[k] = <<>> /\ CallsOn(n, ds) = B[k]
      BY <2>2, <2>5 DEF CallsOn
    <3> QED
      BY <2>3, <3>1
  <2> QED
    BY <2>4, <2>5
<1> HIDE DEF A, B
<1>9. ASSUME NEW i \in 1..Len(Loggers) PROVE Loggers[i] = n <=> i = k
  BY <1>1, <1>3
<1>10. /\ k \in 1..Len(A) /\ k \in 1..Len(B)
       /\ OnlyPart(A, n, k) /\ OnlyPart(B, n, k)
  <2>1. k \in 1..Len(A) /\ k \in 1..Len(B)
    BY <1>7
  <2>2. ASSUME NEW i \in 1..Len(A), NEW m \in 1..Len(A[i]) PROVE A[i][m].name = n <=> i = k
    <3>1. i \in 1..Len(Loggers)
      BY <1>7
    <3>2. A[i][m].name = Loggers[i] /\ (Loggers[i] = n <=> i = k)
      BY <1>5, <1>9, <3>1
    <3> QED
      BY <3>2
  <2>3. ASSUME NEW i \in 1..Len(B), NEW m \in 1..Len(B[i]) PROVE B[i][m].name = n <=> i = k
    <3>1. i \in 1..Len(Loggers)
      BY <1>7
    <3>2. B[i][m].name = Loggers[i] /\ (Loggers[i] = n <=> i = k)
      BY <1>6, <1>9, <3>1
    <3> QED
      BY <3>2
  <2> QED
    BY <2>1, <2>2, <2>3 DEF OnlyPart
<1>11. /\ FlattenSeq(A) \in Seq(ListenerCalls) /\ FlattenSeq(B) \in Seq(ListenerCalls)
       /\ A[k] \in Seq(ListenerCalls) /\ B[k] \in Seq(ListenerCalls)
  <2>1. A[k] \in Seq(ListenerCalls) /\ B[k] \in Seq(ListenerCalls)
    BY <1>5, <1>6
  <2>2. FlattenSeq(A) \in Seq(ListenerCalls)
    BY <1>7, <1>10, PartLies
  <2>3. FlattenSeq(B) \in Seq(ListenerCalls)
    BY <1>7, <1>10, PartLies
  <2> QED
    BY <2>1, <2>2, <2>3
<1>12. PICK s : Lies(FlattenSeq(A), n, A[k], s)
  BY <1>7, <1>10, PartLies
<1>13. PICK t : Lies(FlattenSeq(B), n, B[k], t)
  BY <1>7, <1>10, PartLies
<1>14. \E u : Lies(FlattenSeq(A) \o FlattenSeq(B), n, A[k] \o B[k], u)
  BY <1>8, <1>11, <1>12, <1>13, LiesJoined
<1>15. FlattenSeq(A) \o FlattenSeq(B) \in Seq(ListenerCalls) /\ A[k] \o B[k] \in Seq(ListenerCalls)
  BY <1>11
<1> QED
  BY <1>4, <1>8, <1>14, <1>15

-----------------------------------------------------------------------------
(* How far the listener has come with one logger.                           *)

\* After j of the calls of Configure, of which the k-th clears the appenders.
Configured(g, d, k, j, built) ==
  /\ j >= 1 => g.level = d.level
  /\ j >= k => AlikeUpTo(g.appenders, built, j - k)

\* After j of the two calls on a logger that is defined no longer.
Removed(g, j) ==
  /\ j >= 1 => g.level = 0
  /\ j >= 2 => g.appenders = <<>>

Conforms(n) ==
  IF n \in DOMAIN defs
  THEN /\ loggers[n].level = defs[n].level
       /\ AlikeUpTo(loggers[n].appenders, Built(defs[n]), Len(Kept(defs[n])))
  ELSE n # Root => loggers[n].level <= 1 /\ loggers[n].appenders = <<>>

Reached(n, j) ==
  IF n \in Applied(new)
  THEN \A k \in Nat : ClearsAt(new[n], k) => Configured(loggers[n], new[n], k, j, Built(new[n]))
  ELSE IF n \in DOMAIN defs \ DOMAIN new THEN Removed(loggers[n], j)
  ELSE n \in outdated \/ Conforms(n)

\* The calls that are left of those of w when j have been made.
Rest(w, p, j) ==
  /\ p \in Seq(ListenerCalls) /\ j \in Nat /\ Len(p) + j = Len(w)
  /\ \A i \in 1..Len(p) : p[i] = w[j + i]

LogTypes ==
  /\ loggers \in [LoggerNames -> LoggerStates] /\ todo \in Seq(ListenerCalls)
  /\ defs \in Defines \cup {<<>>} /\ new \in Defines \cup {<<>>}
  /\ outdated \subseteq DOMAIN defs
Sharing == \A n \in LoggerNames : SharesFormatter(loggers[n])
UnderWay ==
  \A n \in LoggerNames :
    \E p, j, s : Rest(CallsOn(n, new), p, j) /\ Lies(todo, n, p, s) /\ Reached(n, j)
LogInv == LogTypes /\ Sharing /\ UnderWay

\* What Alike sees of a logger decides how far the listener has come with it.
LEMMA AlikeIsEnough ==
  ASSUME NEW g \in LoggerStates, NEW h \in LoggerStates, h.level = g.level,
         Len(h.appenders) = Len(g.appenders),
         \A i \in 1..Len(g.appenders) : Alike(h.appenders[i], g.appenders[i])
  PROVE  /\ \A d, k, j, built : Configured(g, d, k, j, built) => Configured(h, d, k, j, built)
         /\ \A j : Removed(g, j) => Removed(h, j)
         /\ \A bs, m : AlikeUpTo(g.appenders, bs, m) => AlikeUpTo(h.appenders, bs, m)
         /\ g.appenders = <<>> => h.appenders = <<>>
PROOF
<1>1. g.appenders \in Seq(Appenders) /\ h.appenders \in Seq(Appenders)
  BY DEF LoggerStates
<1>2. g.appenders = <<>> => h.appenders = <<>>
  BY <1>1
<1>3. \A bs, m : AlikeUpTo(g.appenders, bs, m) => AlikeUpTo(h.appenders, bs, m)
  <2> SUFFICES ASSUME NEW bs, NEW m, AlikeUpTo(g.appenders, bs, m)
               PROVE  AlikeUpTo(h.appenders, bs, m)
    OBVIOUS
  <2>1. Len(g.appenders) = m /\ \A i \in 1..m : Alike(g.appenders[i], bs[i])
    BY DEF AlikeUpTo
  <2>2. ASSUME NEW i \in 1..m PROVE Alike(h.appenders[i], bs[i])
    <3>1. Alike(h.appenders[i], g.appenders[i]) /\ Alike(g.appenders[i], bs[i])
      BY <2>1
    <3> QED
      BY <3>1, Zenon DEF Alike
  <2> QED
    BY <2>1, <2>2 DEF AlikeUpTo
<1>4. \A d, k, j, built : Configured(g, d, k, j, built) => Configured(h, d, k, j, built)
  BY <1>3 DEF Configured
<1>5. \A j : Removed(g, j) => Removed(h, j)
  BY <1>2 DEF Removed
<1> QED
  BY <1>2, <1>3, <1>4, <1>5

\* Every call of Configure brings the logger one further.
LEMMA ConfiguresStep ==
  ASSUME NEW n, NEW d \in Definitions, NEW k \in Nat, ClearsAt(d, k),
         NEW w, CallsInOrder(n, d, k, w), NEW j \in Nat, j < Len(w),
         NEW g \in LoggerStates, SharesFormatter(g), Configured(g, d, k, j, Built(d))
  PROVE  Configured(Done(w[j + 1], g), d, k, j + 1, Built(d))
PROOF
<1> DEFINE c == w[j + 1]
           h == Done(c, g)
<1>1. PICK l \in Nat : l = Len(Kept(d))
  <2>1. Kept(d) \in Seq(AppenderDefines)
    BY KeptIs
  <2> QED
    BY <2>1
<1>2. /\ w \in Seq(ListenerCalls) /\ Len(w) = k + l
      /\ w[1].op = "setLevel" /\ w[1].arg = d.level
      /\ d.formatter # "" => w[2].op = "setFormatter"
      /\ w[k].op = "clearAppenders"
      /\ \A i \in 1..l : w[k + i].op = "addAppender" /\ w[k + i].arg = Built(d)[i]
  BY <1>1 DEF CallsInOrder
<1>3. (d.formatter = "" => k = 2) /\ (d.formatter # "" => k = 3)
  BY DEF ClearsAt
<1>4. c \in ListenerCalls /\ j < k + l
  <2>1. w \in Seq(ListenerCalls) /\ Len(w) = k + l
    BY <1>2
  <2>2. j + 1 \in 1..Len(w) /\ j < k + l
    BY <2>1
  <2> QED
    BY <2>1, <2>2
<1>5. /\ h.level = IF c.op = "setLevel" THEN c.arg ELSE g.level
      /\ c.op = "clearAppenders" => h.appenders = <<>>
      /\ c.op = "addAppender" =>
           /\ Len(h.appenders) = Len(g.appenders) + 1
           /\ \A i \in 1..Len(g.appenders) : h.appenders[i] = g.appenders[i]
           /\ Alike(h.appenders[Len(g.appenders) + 1], c.arg)
  BY <1>4, CallsDo
<1>6. /\ j >= 1 => g.level = d.level
      /\ j >= k => AlikeUpTo(g.appenders, Built(d), j - k)
  BY DEF Configured
<1>7. k = 2 \/ k = 3
  BY <1>3, Zenon
<1>8. CASE j = 0
  <2>1. c.op = "setLevel" /\ c.arg = d.level /\ ~(j + 1 >= k)
    <3>1. j + 1 = 1 /\ ~(j + 1 >= k)
      BY <1>7, <1>8
    <3> QED
      BY <1>2, <3>1
  <2>2. h.level = d.level
    BY <1>5, <2>1
  <2> HIDE DEF h, c
  <2>3. Configured(h, d, k, j + 1, Built(d))
    BY <2>1, <2>2 DEF Configured
  <2> QED
    BY <2>3 DEF h, c
<1>9. CASE j = 1 /\ k = 3
  <2>1. c.op = "setFormatter" /\ ~(j + 1 >= k)
    <3>1. k # 2 /\ j + 1 = 2 /\ ~(j + 1 >= k)
      BY <1>9
    <3>2. d.formatter # ""
      BY <1>3, <3>1, Zenon
    <3> QED
      BY <1>2, <3>1, <3>2
  <2>2. h.level = d.level
    BY <1>5, <1>6, <1>9, <2>1
  <2> HIDE DEF h, c
  <2>3. Configured(h, d, k, j + 1, Built(d))
    BY <2>1, <2>2 DEF Configured
  <2> QED
    BY <2>3 DEF h, c
<1>10. CASE j + 1 = k /\ j # 0
  <2>1. c.op = "clearAppenders" /\ j >= 1 /\ (j + 1) - k = 0
    <3>1. j + 1 = k /\ j >= 1 /\ (j + 1) - k = 0
      BY <1>10
    <3> QED
      BY <1>2, <3>1
  <2>2. h.level = d.level /\ h.appenders = <<>>
    BY <1>5, <1>6, <2>1
  <2> HIDE DEF h, c
  <2>3. AlikeUpTo(h.appenders, Built(d), (j + 1) - k)
    BY <2>1, <2>2 DEF AlikeUpTo
  <2>4. Configured(h, d, k, j + 1, Built(d))
    BY <2>2, <2>3 DEF Configured
  <2> QED
    BY <2>4 DEF h, c
<1>11. CASE j >= k
  <2>1. PICK i \in 1..l : i = (j + 1) - k
    BY <1>4, <1>11
  <2>2. k + i = j + 1 /\ j >= 1 /\ j - k = i - 1 /\ i \in Nat
    BY <1>7, <1>11, <2>1
  <2>3. c.op = "addAppender" /\ c.arg = Built(d)[i]
    BY <1>2, <2>2
  <2>4. AlikeUpTo(g.appenders, Built(d), i - 1) /\ h.level = d.level
    BY <1>5, <1>6, <1>11, <2>2, <2>3
  <2>5. Len(g.appenders) = i - 1 /\ \A m \in 1..(i - 1) : Alike(g.appenders[m], Built(d)[m])
    BY <2>4 DEF AlikeUpTo
  <2>6. /\ Len(h.appenders) = (i - 1) + 1
        /\ \A m \in 1..(i - 1) : h.appenders[m] = g.appenders[m]
        /\ Alike(h.appenders[(i - 1) + 1], Built(d)[i])
    BY <1>5, <2>3, <2>5
  <2> HIDE DEF h, c
  <2>7. (i - 1) + 1 = i /\ \A m \in 1..i : m \in 1..(i - 1) \/ m = i
    BY <2>2
  <2>8. AlikeUpTo(h.appenders, Built(d), i)
    BY <2>5, <2>6, <2>7 DEF AlikeUpTo
  <2>9. Configured(h, d, k, j + 1, Built(d))
    BY <2>1, <2>4, <2>8 DEF Configured
  <2> QED
    BY <2>9 DEF h, c
<1>12. j = 0 \/ (j = 1 /\ k = 3) \/ (j + 1 = k /\ j # 0) \/ j >= k
  BY <1>7
<1> QED
  BY <1>8, <1>9, <1>10, <1>11, <1>12

LEMMA DefinitionsStay ==
  ASSUME UNCHANGED <<defs, new, daemon>>, NEW n
  PROVE  /\ Applied(new)' = Applied(new) /\ CallsOn(n, new)' = CallsOn(n, new)
         /\ Kept(defs[n])' = Kept(defs[n])
         /\ Built(new[n])' = Built(new[n]) /\ Built(defs[n])' = Built(defs[n])
PROOF
<1>1. Applied(new)' = Applied(new)
  BY DEF Applied
<1>2. Kept(defs[n])' = Kept(defs[n]) /\ Kept(new[n])' = Kept(new[n])
  BY DEF Kept
<1>3. Built(defs[n])' = Built(defs[n]) /\ Built(new[n])' = Built(new[n])
  BY <1>2 DEF Built
<1>4. Configure(n, new[n])' = Configure(n, new[n])
  BY <1>3 DEF Configure
<1> QED
  BY <1>1, <1>2, <1>3, <1>4 DEF CallsOn

LEMMA ReachStays ==
  ASSUME UNCHANGED <<defs, new, daemon, outdated>>, NEW n \in LoggerNames, NEW j,
         loggers[n] \in LoggerStates, loggers'[n] \in LoggerStates,
         loggers'[n].level = loggers[n].level,
         Len(loggers'[n].appenders) = Len(loggers[n].appenders),
         \A i \in 1..Len(loggers[n].appenders) : Alike(loggers'[n].appenders[i], loggers[n].appenders[i]),
         Reached(n, j)
  PROVE  Reached(n, j)'
PROOF
<1> DEFINE g == loggers[n]
           h == loggers'[n]
<1>1. /\ \A d, k, i, built : Configured(g, d, k, i, built) => Configured(h, d, k, i, built)
      /\ \A i : Removed(g, i) => Removed(h, i)
      /\ \A bs, m : AlikeUpTo(g.appenders, bs, m) => AlikeUpTo(h.appenders, bs, m)
      /\ g.appenders = <<>> => h.appenders = <<>>
  BY AlikeIsEnough
<1>2. /\ Applied(new)' = Applied(new) /\ CallsOn(n, new)' = CallsOn(n, new)
      /\ Kept(defs[n])' = Kept(defs[n])
      /\ Built(new[n])' = Built(new[n]) /\ Built(defs[n])' = Built(defs[n])
  BY DefinitionsStay
<1>3. Conforms(n) => Conforms(n)'
  BY <1>1, <1>2 DEF Conforms
<1> QED
  BY <1>1, <1>2, <1>3 DEF Reached

LEMMA PartTyped ==
  ASSUME LogTypes, NEW n \in LoggerNames
  PROVE  /\ CallsOn(n, new) \in Seq(ListenerCalls)
         /\ \A i \in 1..Len(CallsOn(n, new)) : CallsOn(n, new)[i].name = n
PROOF
<1>1. CASE n \in Applied(new)
  <2>1. new[n] \in Definitions /\ CallsOn(n, new) = Configure(n, new[n])
    BY <1>1, LogAssumption DEF LogTypes, Applied, CallsOn
  <2> QED
    BY <2>1, ConfigureTyped
<1>2. CASE n \notin Applied(new) /\ n \in DOMAIN defs \ DOMAIN new
  <2> DEFINE a == LogCall("setLevel", n, 0)
             c == LogCall("clearAppenders", n, 0)
  <2>1. a \in ListenerCalls /\ c \in ListenerCalls /\ a.name = n /\ c.name = n
    BY DEF ListenerCalls, LogCall
  <2>2. CallsOn(n, new) = <<a, c>>
    BY <1>2 DEF CallsOn
  <2> HIDE DEF a, c
  <2> QED
    BY <2>1, <2>2
<1>3. CASE n \notin Applied(new) /\ n \notin DOMAIN defs \ DOMAIN new
  <2>1. CallsOn(n, new) = <<>>
    BY <1>3 DEF CallsOn
  <2> QED
    BY <2>1
<1> QED
  BY <1>1, <1>2, <1>3

\* A call brings its logger one further.
LEMMA CallReaches ==
  ASSUME LogTypes, Sharing, NEW n \in LoggerNames, NEW j \in Nat, Reached(n, j),
         j < Len(CallsOn(n, new)), UNCHANGED <<defs, new, daemon, outdated>>,
         loggers'[n] = Done(CallsOn(n, new)[j + 1], loggers[n])
  PROVE  Reached(n, j + 1)'
PROOF
<1> DEFINE w == CallsOn(n, new)
           c == w[j + 1]
           g == loggers[n]
           h == loggers'[n]
<1>1. g \in LoggerStates /\ SharesFormatter(g)
  BY DEF LogTypes, Sharing
<1>2. /\ Applied(new)' = Applied(new) /\ Built(new[n])' = Built(new[n])
  BY DefinitionsStay
<1>3. CASE n \in Applied(new)
  <2>1. new[n] \in Definitions /\ w = Configure(n, new[n])
    BY <1>3, LogAssumption DEF LogTypes, Applied, CallsOn
  <2>2. ASSUME NEW k \in Nat, ClearsAt(new[n], k)
        PROVE  Configured(h, new[n], k, j + 1, Built(new[n]))
    <3>1. CallsInOrder(n, new[n], k, w)
      BY <2>1, <2>2, ConfigureIs
    <3>2. Configured(g, new[n], k, j, Built(new[n]))
      BY <1>3, <2>2 DEF Reached
    <3> HIDE DEF w, g
    <3>3. Configured(Done(w[j + 1], g), new[n], k, j + 1, Built(new[n]))
      BY <1>1, <2>1, <2>2, <3>1, <3>2, ConfiguresStep DEF w
    <3> QED
      BY <3>3 DEF w, g
  <2> QED
    BY <1>2, <1>3, <2>2 DEF Reached
<1>4. CASE n \notin Applied(new) /\ n \in DOMAIN defs \ DOMAIN new
  <2> DEFINE a == LogCall("setLevel", n, 0)
             b == LogCall("clearAppenders", n, 0)
  <2>1. w = <<a, b>> /\ Removed(g, j)
    BY <1>4 DEF CallsOn, Reached
  <2>2. /\ a \in ListenerCalls /\ a.op = "setLevel" /\ a.arg = 0
        /\ b \in ListenerCalls /\ b.op = "clearAppenders"
    BY DEF ListenerCalls, LogCall
  <2> HIDE DEF a, b, w
  <2>3. Len(w) = 2 /\ w[1] = a /\ w[2] = b
    BY <2>1
  <2>4. j = 0 \/ j = 1
    BY <2>3 DEF w
  <2>5. h = Done(c, g)
    BY DEF w
  <2>6. CASE j = 0
    <3>1. c = a /\ ~(j + 1 >= 2)
      BY <2>3, <2>6
    <3>2. h.level = 0
      BY <1>1, <2>2, <2>5, <3>1, CallsDo
    <3> QED
      BY <1>2, <1>4, <3>1, <3>2 DEF Reached, Removed
  <2>7. CASE j = 1
    <3>1. c = b /\ g.level = 0
      BY <2>1, <2>3, <2>7 DEF Removed
    <3>2. h.level = 0 /\ h.appenders = <<>>
      BY <1>1, <2>2, <2>5, <3>1, CallsDo
    <3> QED
      BY <1>2, <1>4, <3>2 DEF Reached, Removed
  <2> QED
    BY <2>4, <2>6, <2>7
<1>5. CASE n \notin Applied(new) /\ n \notin DOMAIN defs \ DOMAIN new
  <2>1. w = <<>>
    BY <1>5 DEF CallsOn
  <2> QED
    BY <2>1
<1> QED
  BY <1>3, <1>4, <1>5

LEMMA LogInitHolds == LogInit => LogInv
PROOF
<1> SUFFICES ASSUME LogInit PROVE LogInv
  OBVIOUS
<1>1. /\ defs = <<>> /\ new = <<>> /\ todo = <<>> /\ outdated = {} /\ DOMAIN defs = {}
  BY DEF LogInit
<1>2. ASSUME NEW n \in LoggerNames
      PROVE  /\ loggers[n] \in LoggerStates /\ SharesFormatter(loggers[n])
             /\ loggers[n].level = 1 /\ (n # Root => loggers[n].appenders = <<>>)
  <2> DEFINE a == Appender("Stdout", FALSE, "default")
             as == IF n = Root THEN <<a>> ELSE <<>>
  <2>1. loggers[n] = [level |-> 1, formatter |-> "default", appenders |-> as]
    BY DEF LogInit, Fresh, Debug
  <2>2. a \in Appenders /\ a.formatter = "default" /\ "default" \in Patterns
    BY DEF Appender, Appenders, Patterns
  <2> HIDE DEF a
  <2>3. as \in Seq(Appenders) /\ \A i \in DOMAIN as : as[i] = a
    BY <2>2
  <2>4. n # Root => as = <<>>
    OBVIOUS
  <2> HIDE DEF as
  <2>5. loggers[n] \in LoggerStates
    BY <2>1, <2>2, <2>3, FieldsOf
  <2>6. loggers[n].level = 1 /\ loggers[n].formatter = "default" /\ loggers[n].appenders = as
    BY <2>1
  <2>7. SharesFormatter(loggers[n])
    BY <2>2, <2>3, <2>6 DEF SharesFormatter
  <2> QED
    BY <2>4, <2>5, <2>6, <2>7
<1>3. LogTypes
  <2>1. loggers \in [LoggerNames -> LoggerStates]
    BY <1>2 DEF LogInit
  <2> QED
    BY <1>1, <2>1 DEF LogTypes
<1>4. Sharing
  BY <1>2 DEF Sharing
<1>5. ASSUME NEW n \in LoggerNames
      PROVE  Rest(CallsOn(n, new), <<>>, 0) /\ Lies(todo, n, <<>>, 0) /\ Reached(n, 0)
  <2>1. Applied(new) = {}
    BY <1>1 DEF Applied
  <2>2. CallsOn(n, new) = <<>>
    BY <1>1, <2>1 DEF CallsOn
  <2>3. Rest(CallsOn(n, new), <<>>, 0)
    BY <2>2 DEF Rest
  <2>4. Lies(todo, n, <<>>, 0)
    BY <1>1 DEF Lies
  <2>5. Conforms(n)
    BY <1>1, <1>2 DEF Conforms
  <2> QED
    BY <1>1, <2>1, <2>3, <2>4, <2>5 DEF Reached
<1> QED
  BY <1>3, <1>4, <1>5 DEF LogInv, UnderWay

\* When nothing is left to do, all of CallsOn has been done.
LEMMA AllIsDone ==
  ASSUME LogInv, todo = <<>>, NEW n \in LoggerNames
  PROVE  Reached(n, Len(CallsOn(n, new))) /\ Len(CallsOn(n, new)) \in Nat
PROOF
<1>1. PICK p, j, s : Rest(CallsOn(n, new), p, j) /\ Lies(todo, n, p, s) /\ Reached(n, j)
  BY DEF LogInv, UnderWay
<1>2. p \in Seq(ListenerCalls) /\ j \in Nat /\ Len(p) + j = Len(CallsOn(n, new))
  BY <1>1 DEF Rest
<1>3. s \in Nat /\ s + Len(p) <= 0
  BY <1>1 DEF Lies
<1>4. Len(p) \in Nat
  BY <1>2
<1>5. Len(p) = 0
  BY <1>3, <1>4
<1>6. Len(CallsOn(n, new)) = j
  BY <1>2, <1>5
<1> QED
  BY <1>1, <1>2, <1>6

\* The configuration and the loggers agree when nothing is being set.
LEMMA SettledConforms ==
  ASSUME LogInv, Settled, NEW n \in LoggerNames
  PROVE  n \in outdated \/ Conforms(n)
PROOF
<1>1. todo = <<>> /\ new = defs
  BY DEF Settled
<1>2. Applied(new) = {}
  BY <1>1 DEF Applied, Same
<1>3. n \notin Applied(new) /\ n \notin DOMAIN defs \ DOMAIN new
  BY <1>1, <1>2
<1>4. Reached(n, Len(CallsOn(n, new)))
  BY <1>1, AllIsDone
<1> QED
  BY <1>3, <1>4 DEF Reached

LEMMA SetDefinesKeeps ==
  ASSUME LogInv, NEW ds \in Defines, SetDefines(ds)
  PROVE  LogInv'
PROOF
<1>1. Settled /\ new' = ds /\ todo' = CallsFor(ds) /\ UNCHANGED <<defs, loggers, daemon, outdated>>
  BY DEF SetDefines
<1>2. LogTypes /\ Sharing
  BY DEF LogInv
<1>3. CallsFor(ds) \in Seq(ListenerCalls)
  <2>1. Root \in LoggerNames
    BY LogAssumption
  <2> QED
    BY <2>1, CallsLie
<1>4. LogTypes'
  BY <1>1, <1>2, <1>3 DEF LogTypes
<1>5. Sharing'
  BY <1>1, <1>2 DEF Sharing, SharesFormatter
<1>6. Applied(new)' = Applied(ds)
  BY <1>1 DEF Applied
<1>7. ASSUME NEW n \in LoggerNames
      PROVE  \E p, j, s : Rest(CallsOn(n, new), p, j)' /\ Lies(todo, n, p, s)' /\ Reached(n, j)'
  <2>1. PICK p : p = CallsOn(n, ds)
    OBVIOUS
  <2>2. p \in Seq(ListenerCalls)
    BY <2>1, CallsLie
  <2>3. PICK s : Lies(CallsFor(ds), n, p, s)
    BY <2>1, CallsLie
  <2>4. CallsOn(n, new)' = p
    <3>1. n \in Applied(ds) => Configure(n, new[n])' = Configure(n, ds[n])
      <4>1. Kept(new[n])' = Kept(ds[n])
        BY <1>1 DEF Kept
      <4>2. Built(new[n])' = Built(ds[n])
        BY <1>1, <4>1 DEF Built
      <4> QED
        BY <1>1, <4>2 DEF Configure
    <3> QED
      BY <1>1, <1>6, <2>1, <3>1 DEF CallsOn
  <2>5. Rest(CallsOn(n, new), p, 0)'
    <3>1. Rest(p, p, 0)
      BY <2>2 DEF Rest
    <3> QED
      BY <2>4, <3>1 DEF Rest
  <2>6. Lies(todo, n, p, s)'
    BY <1>1, <2>3 DEF Lies
  <2>7. Reached(n, 0)'
    <3>1. CASE n \in Applied(ds)
      <4>1. ASSUME NEW k \in Nat, ClearsAt(ds[n], k) PROVE ~(0 >= k)
        <5>1. k = 2 \/ k = 3
          BY <4>1, Zenon DEF ClearsAt
        <5> QED
          BY <5>1
      <4> QED
        BY <1>1, <1>6, <3>1, <4>1 DEF Reached, Configured
    <3>2. CASE n \notin Applied(ds) /\ n \in DOMAIN defs \ DOMAIN ds
      BY <1>1, <1>6, <3>2 DEF Reached, Removed
    <3>3. CASE n \notin Applied(ds) /\ n \notin DOMAIN defs \ DOMAIN ds
      <4>1. n \in outdated \/ Conforms(n)
        BY <1>1, SettledConforms
      <4>2. Kept(defs[n])' = Kept(defs[n])
        BY <1>1 DEF Kept
      <4>3. Built(defs[n])' = Built(defs[n])
        BY <1>1, <4>2 DEF Built
      <4>4. Conforms(n) => Conforms(n)'
        BY <1>1, <4>2, <4>3 DEF Conforms
      <4> QED
        BY <1>1, <1>6, <3>3, <4>1, <4>4 DEF Reached
    <3> QED
      BY <3>1, <3>2, <3>3
  <2> QED
    BY <2>5, <2>6, <2>7
<1>8. UnderWay'
  BY <1>7 DEF UnderWay
<1> QED
  BY <1>4, <1>5, <1>8 DEF LogInv

LEMMA NextCallKeeps ==
  ASSUME LogInv, NextCall
  PROVE  LogInv'
PROOF
<1> DEFINE c == Head(todo)
<1>1. /\ todo # <<>> /\ todo' = Tail(todo) /\ UNCHANGED <<defs, new, daemon, outdated>>
      /\ loggers' = [loggers EXCEPT ![c.name] = Done(c, @)]
  BY DEF NextCall
<1>2. LogTypes /\ Sharing
  BY DEF LogInv
<1>3. c \in ListenerCalls /\ Tail(todo) \in Seq(ListenerCalls) /\ todo \in Seq(ListenerCalls)
  BY <1>1, <1>2 DEF LogTypes
<1>4. c.name \in LoggerNames
  BY <1>3 DEF ListenerCalls
<1>5. /\ loggers'[c.name] = Done(c, loggers[c.name])
      /\ \A n \in LoggerNames \ {c.name} : loggers'[n] = loggers[n]
      /\ \A n \in LoggerNames : loggers[n] \in LoggerStates /\ SharesFormatter(loggers[n])
  BY <1>1, <1>2, <1>4 DEF LogTypes, Sharing
<1>6. Done(c, loggers[c.name]) \in LoggerStates /\ SharesFormatter(Done(c, loggers[c.name]))
  <2> HIDE DEF c
  <2> QED
    BY <1>3, <1>4, <1>5, CallsDo
<1> HIDE DEF c
<1>7. LogTypes'
  <2>1. loggers' \in [LoggerNames -> LoggerStates]
    BY <1>1, <1>2, <1>6 DEF LogTypes
  <2> QED
    BY <1>1, <1>2, <1>3, <2>1 DEF LogTypes
<1>8. Sharing'
  <2>1. \A n \in LoggerNames : SharesFormatter(loggers'[n])
    BY <1>5, <1>6
  <2> QED
    BY <2>1 DEF Sharing, SharesFormatter
<1>9. ASSUME NEW n \in LoggerNames
      PROVE  \E p, j, s : Rest(CallsOn(n, new), p, j)' /\ Lies(todo, n, p, s)' /\ Reached(n, j)'
  <2>1. PICK p, j, s : Rest(CallsOn(n, new), p, j) /\ Lies(todo, n, p, s) /\ Reached(n, j)
    BY DEF LogInv, UnderWay
  <2>2. PICK w : w = CallsOn(n, new) /\ w = CallsOn(n, new)'
    BY <1>1, DefinitionsStay
  <2>3. /\ p \in Seq(ListenerCalls) /\ j \in Nat /\ Len(p) + j = Len(w)
        /\ \A i \in 1..Len(p) : p[i] = w[j + i]
    BY <2>1, <2>2 DEF Rest
  <2>4. w \in Seq(ListenerCalls) /\ \A i \in 1..Len(w) : w[i].name = n
    BY <1>2, <2>2, PartTyped
  <2>5. \A i \in 1..Len(p) : p[i].name = n
    <3>1. ASSUME NEW i \in 1..Len(p) PROVE j + i \in 1..Len(w)
      BY <2>3, <2>4
    <3> QED
      BY <2>3, <2>4, <3>1
  <2>6. Lies(todo, n, p, s)
    BY <2>1
  <2>7. IF c.name = n
        THEN p # <<>> /\ Head(p) = c /\ \E u : Lies(Tail(todo), n, Tail(p), u)
        ELSE \E u : Lies(Tail(todo), n, p, u)
    BY <1>1, <1>3, <2>3, <2>5, <2>6, LiesTail DEF c
  <2>8. CASE c.name # n
    <3>1. PICK u : Lies(Tail(todo), n, p, u)
      BY <2>7, <2>8
    <3>2. Lies(todo, n, p, u)'
      BY <1>1, <3>1 DEF Lies
    <3>3. Rest(CallsOn(n, new), p, j)'
      BY <2>2, <2>3 DEF Rest
    <3>4. Reached(n, j)'
      <4>1. loggers'[n] = loggers[n]
        BY <1>5, <2>8
      <4>2. \A i \in 1..Len(loggers[n].appenders) : Alike(loggers'[n].appenders[i], loggers[n].appenders[i])
        BY <4>1 DEF Alike
      <4> QED
        BY <1>1, <1>5, <2>1, <4>1, <4>2, ReachStays
    <3> QED
      BY <3>2, <3>3, <3>4
  <2>9. CASE c.name = n
    <3>1. PICK u : Lies(Tail(todo), n, Tail(p), u)
      BY <2>7, <2>9
    <3>2. PICK q : q = Tail(p)
      OBVIOUS
    <3>3. p # <<>> /\ Head(p) = c
      BY <2>7, <2>9
    <3>4. Lies(todo, n, q, u)'
      BY <1>1, <3>1, <3>2 DEF Lies
    <3>5. /\ Len(p) > 0 /\ q \in Seq(ListenerCalls) /\ Len(q) = Len(p) - 1 /\ p[1] = c
          /\ \A i \in 1..(Len(p) - 1) : q[i] = p[i + 1]
      BY <2>3, <3>2, <3>3
    <3>6. w[j + 1] = c /\ j < Len(w)
      <4>1. 1 \in 1..Len(p) /\ j < Len(w)
        BY <2>3, <2>4, <3>5
      <4> QED
        BY <2>3, <3>5, <4>1
    <3>7. Rest(CallsOn(n, new), q, j + 1)'
      <4>1. Len(q) + (j + 1) = Len(w) /\ j + 1 \in Nat
        <5>1. Len(p) + j = Len(w) /\ j \in Nat /\ Len(p) \in Nat /\ Len(q) = Len(p) - 1
          BY <2>3, <3>5
        <5> QED
          BY <5>1
      <4>2. ASSUME NEW i \in 1..Len(q) PROVE q[i] = w[(j + 1) + i]
        <5>1. i \in 1..(Len(p) - 1) /\ i + 1 \in 1..Len(p) /\ (j + 1) + i = j + (i + 1)
          BY <2>3, <3>5
        <5> QED
          BY <2>3, <3>5, <5>1
      <4> QED
        BY <2>2, <3>5, <4>1, <4>2 DEF Rest
    <3>8. Reached(n, j + 1)'
      <4>1. loggers'[n] = Done(w[j + 1], loggers[n])
        BY <1>5, <2>9, <3>6
      <4> QED
        BY <1>1, <1>2, <2>1, <2>2, <2>3, <3>6, <4>1, CallReaches
    <3> QED
      BY <3>4, <3>7, <3>8
  <2> QED
    BY <2>8, <2>9
<1>10. UnderWay'
  BY <1>9 DEF UnderWay
<1> QED
  BY <1>7, <1>8, <1>10 DEF LogInv

LEMMA AssignKeeps ==
  ASSUME LogInv, Assign
  PROVE  LogInv'
PROOF
<1>1. /\ todo = <<>> /\ defs' = new /\ UNCHANGED <<loggers, todo, new, daemon>>
      /\ outdated' = {n \in DOMAIN new \ Applied(new) :
                        n \in outdated \/ defs[n].appenders # new[n].appenders}
  BY DEF Assign
<1>2. LogTypes /\ Sharing
  BY DEF LogInv
<1>3. LogTypes'
  BY <1>1, <1>2 DEF LogTypes
<1>4. Sharing'
  BY <1>1, <1>2 DEF Sharing, SharesFormatter
<1>5. Applied(new)' = {}
  BY <1>1 DEF Applied, Same
<1>6. ASSUME NEW n \in LoggerNames
      PROVE  Rest(CallsOn(n, new), <<>>, 0)' /\ Lies(todo, n, <<>>, 0)' /\ Reached(n, 0)'
  <2>1. CallsOn(n, new)' = <<>>
    BY <1>1, <1>5 DEF CallsOn
  <2>2. Rest(CallsOn(n, new), <<>>, 0)'
    BY <2>1 DEF Rest
  <2>3. Lies(todo, n, <<>>, 0)'
    BY <1>1 DEF Lies
  <2>4. Kept(defs[n])' = Kept(new[n]) /\ Built(defs[n])' = Built(new[n])
    <3>1. Kept(defs[n])' = Kept(new[n])
      BY <1>1 DEF Kept
    <3> QED
      BY <1>1, <3>1 DEF Built
  <2>5. PICK j \in Nat : j = Len(CallsOn(n, new)) /\ Reached(n, j)
    BY <1>1, AllIsDone
  <2>6. CASE n \in Applied(new)
    <3>1. new[n] \in Definitions /\ CallsOn(n, new) = Configure(n, new[n]) /\ n \in DOMAIN new
      BY <1>2, <2>6, LogAssumption DEF LogTypes, Applied, CallsOn
    <3>2. PICK k \in Nat : ClearsAt(new[n], k) /\ (k = 2 \/ k = 3)
      <4>1. ClearsAt(new[n], 2) \/ ClearsAt(new[n], 3)
        BY DEF ClearsAt
      <4> QED
        BY <4>1
    <3>3. CallsInOrder(n, new[n], k, Configure(n, new[n]))
      BY <3>1, <3>2, ConfigureIs
    <3>4. Kept(new[n]) \in Seq(AppenderDefines)
      BY <3>1, KeptIs
    <3>5. PICK l \in Nat : l = Len(Kept(new[n]))
      BY <3>4
    <3>6. j = k + l
      BY <2>5, <3>1, <3>3, <3>5 DEF CallsInOrder
    <3>7. j >= 1 /\ j >= k /\ j - k = l
      BY <3>2, <3>6
    <3>8. Configured(loggers[n], new[n], k, j, Built(new[n]))
      BY <2>5, <2>6, <3>2 DEF Reached
    <3>9. loggers[n].level = new[n].level /\ AlikeUpTo(loggers[n].appenders, Built(new[n]), l)
      BY <3>7, <3>8 DEF Configured
    <3>10. Conforms(n)'
      BY <1>1, <2>4, <3>1, <3>5, <3>9 DEF Conforms
    <3> QED
      BY <1>1, <1>5, <2>2, <2>3, <3>10 DEF Reached
  <2>7. CASE n \notin Applied(new) /\ n \in DOMAIN defs \ DOMAIN new
    <3>1. CallsOn(n, new) = <<LogCall("setLevel", n, 0), LogCall("clearAppenders", n, 0)>>
      BY <2>7 DEF CallsOn
    <3>2. j = 2
      BY <2>5, <3>1
    <3>3. loggers[n].level = 0 /\ loggers[n].appenders = <<>>
      BY <2>5, <2>7, <3>2 DEF Reached, Removed
    <3>4. Conforms(n)'
      BY <1>1, <2>7, <3>3 DEF Conforms
    <3> QED
      BY <1>1, <1>5, <2>2, <2>3, <3>4 DEF Reached
  <2>8. CASE n \notin Applied(new) /\ n \notin DOMAIN defs \ DOMAIN new
    <3>1. n \in outdated \/ Conforms(n)
      BY <2>5, <2>8 DEF Reached
    <3>2. CASE n \in DOMAIN new
      <4>1. n \in DOMAIN defs /\ new[n].level = defs[n].level
        BY <2>8, <3>2 DEF Applied, Same
      <4>2. SUFFICES ASSUME n \notin outdated' PROVE Reached(n, 0)'
        BY <2>2, <2>3, <1>1, <1>5 DEF Reached
      <4>3. n \notin outdated /\ defs[n].appenders = new[n].appenders
        BY <1>1, <2>8, <3>2, <4>2
      <4>4. Kept(new[n]) = Kept(defs[n])
        BY <4>3 DEF Kept
      <4>5. Built(new[n]) = Built(defs[n])
        BY <4>4 DEF Built
      <4>6. Conforms(n)
        BY <3>1, <4>3
      <4>7. Conforms(n)'
        BY <1>1, <2>4, <3>2, <4>1, <4>4, <4>5, <4>6 DEF Conforms
      <4> QED
        BY <1>1, <1>5, <4>7 DEF Reached
    <3>3. CASE n \notin DOMAIN new
      <4>1. n \notin DOMAIN defs
        BY <2>8, <3>3
      <4>2. Conforms(n)
        BY <1>2, <3>1, <4>1 DEF LogTypes
      <4>3. Conforms(n)'
        BY <1>1, <3>3, <4>1, <4>2 DEF Conforms
      <4> QED
        BY <1>1, <1>5, <2>2, <2>3, <4>3 DEF Reached
    <3> QED
      BY <3>2, <3>3
  <2> QED
    BY <2>6, <2>7, <2>8
<1>7. UnderWay'
  BY <1>6 DEF UnderWay
<1> QED
  BY <1>3, <1>4, <1>7 DEF LogInv

LEMMA ProgramKeeps ==
  ASSUME LogInv, NEW m \in LoggerNames, NEW f \in Formatters, ProgramSetsFormatter(m, f)
  PROVE  LogInv'
PROOF
<1> DEFINE c == LogCall("setFormatter", m, f)
<1>1. /\ UNCHANGED <<defs, todo, new, daemon, outdated>>
      /\ loggers' = [loggers EXCEPT ![m] = Done(c, @)]
  BY DEF ProgramSetsFormatter
<1>2. LogTypes /\ Sharing
  BY DEF LogInv
<1>3. c \in ListenerCalls /\ c.op = "setFormatter"
  BY DEF ListenerCalls, LogCall
<1> HIDE DEF c
<1>4. /\ loggers'[m] = Done(c, loggers[m])
      /\ \A n \in LoggerNames \ {m} : loggers'[n] = loggers[n]
      /\ \A n \in LoggerNames : loggers[n] \in LoggerStates /\ SharesFormatter(loggers[n])
  BY <1>1, <1>2 DEF LogTypes, Sharing
<1>5. /\ loggers'[m] \in LoggerStates /\ SharesFormatter(loggers'[m])
      /\ loggers'[m].level = loggers[m].level
      /\ Len(loggers'[m].appenders) = Len(loggers[m].appenders)
      /\ \A i \in 1..Len(loggers[m].appenders) : Alike(loggers'[m].appenders[i], loggers[m].appenders[i])
  <2>1. PICK h : h = Done(c, loggers[m])
    OBVIOUS
  <2>2. /\ h \in LoggerStates /\ SharesFormatter(h) /\ h.level = loggers[m].level
        /\ Len(h.appenders) = Len(loggers[m].appenders)
        /\ \A i \in 1..Len(loggers[m].appenders) : Alike(h.appenders[i], loggers[m].appenders[i])
    BY <1>3, <1>4, <2>1, CallsDo
  <2> QED
    BY <1>4, <2>1, <2>2
<1>6. LogTypes'
  <2>1. loggers' \in [LoggerNames -> LoggerStates]
    BY <1>1, <1>2, <1>4, <1>5 DEF LogTypes
  <2> QED
    BY <1>1, <1>2, <2>1 DEF LogTypes
<1>7. Sharing'
  <2>1. \A n \in LoggerNames : SharesFormatter(loggers'[n])
    BY <1>4, <1>5
  <2> QED
    BY <2>1 DEF Sharing, SharesFormatter
<1>8. ASSUME NEW n \in LoggerNames
      PROVE  \E p, j, s : Rest(CallsOn(n, new), p, j)' /\ Lies(todo, n, p, s)' /\ Reached(n, j)'
  <2>1. PICK p, j, s : Rest(CallsOn(n, new), p, j) /\ Lies(todo, n, p, s) /\ Reached(n, j)
    BY DEF LogInv, UnderWay
  <2>2. CallsOn(n, new)' = CallsOn(n, new)
    BY <1>1, DefinitionsStay
  <2>3. Rest(CallsOn(n, new), p, j)'
    BY <2>1, <2>2 DEF Rest
  <2>4. Lies(todo, n, p, s)'
    BY <1>1, <2>1 DEF Lies
  <2>5. /\ loggers'[n] \in LoggerStates /\ loggers'[n].level = loggers[n].level
        /\ Len(loggers'[n].appenders) = Len(loggers[n].appenders)
        /\ \A i \in 1..Len(loggers[n].appenders) : Alike(loggers'[n].appenders[i], loggers[n].appenders[i])
    <3>1. CASE n = m
      BY <1>5, <3>1
    <3>2. CASE n # m
      BY <1>4, <3>2 DEF Alike
    <3> QED
      BY <3>1, <3>2
  <2>6. Reached(n, j)'
    BY <1>1, <1>4, <2>1, <2>5, ReachStays
  <2> QED
    BY <2>3, <2>4, <2>6
<1>9. UnderWay'
  BY <1>8 DEF UnderWay
<1> QED
  BY <1>6, <1>7, <1>9 DEF LogInv

LEMMA LogAlways == LogSpec => []LogInv
PROOF
<1>1. LogInit => LogInv
  BY LogInitHolds
<1>2. LogInv /\ [LogNext]_logVars => LogInv'
  <2> SUFFICES ASSUME LogInv, [LogNext]_logVars PROVE LogInv'
    OBVIOUS
  <2>1. ASSUME NEW ds \in Defines, SetDefines(ds) PROVE LogInv'
    BY <2>1, SetDefinesKeeps
  <2>2. CASE NextCall
    BY <2>2, NextCallKeeps
  <2>3. CASE Assign
    BY <2>3, AssignKeeps
  <2>4. ASSUME NEW n \in LoggerNames, NEW f \in Formatters, ProgramSetsFormatter(n, f) PROVE LogInv'
    BY <2>4, ProgramKeeps
  <2>5. CASE UNCHANGED logVars
    <3>1. UNCHANGED <<defs, loggers, todo, new, daemon, outdated>>
      BY <2>5 DEF logVars
    <3>2. LogTypes' /\ Sharing'
      BY <3>1 DEF LogInv, LogTypes, Sharing, SharesFormatter
    <3>3. ASSUME NEW n \in LoggerNames
          PROVE  \E p, j, s : Rest(CallsOn(n, new), p, j)' /\ Lies(todo, n, p, s)' /\ Reached(n, j)'
      <4>1. PICK p, j, s : Rest(CallsOn(n, new), p, j) /\ Lies(todo, n, p, s) /\ Reached(n, j)
        BY DEF LogInv, UnderWay
      <4>2. CallsOn(n, new)' = CallsOn(n, new)
        BY <3>1, DefinitionsStay
      <4>3. Rest(CallsOn(n, new), p, j)' /\ Lies(todo, n, p, s)'
        BY <3>1, <4>1, <4>2 DEF Rest, Lies
      <4>4. loggers[n] \in LoggerStates /\ loggers'[n] = loggers[n]
        BY <3>1 DEF LogInv, LogTypes
      <4>5. \A i \in 1..Len(loggers[n].appenders) : Alike(loggers'[n].appenders[i], loggers[n].appenders[i])
        BY <4>4 DEF Alike
      <4>6. Reached(n, j)'
        BY <3>1, <4>1, <4>4, <4>5, ReachStays
      <4> QED
        BY <4>3, <4>6
    <3> QED
      BY <3>2, <3>3 DEF LogInv, UnderWay
  <2> QED
    BY <2>1, <2>2, <2>3, <2>4, <2>5 DEF LogNext
<1> QED
  BY <1>1, <1>2, PTL DEF LogSpec

\* The patterns that are well formed have the items that are meant by them; this is
\* about the constants alone.
PatternsMean ==
  /\ DOMAIN Layout = Formatters \ (Invalid \cup {""})
  /\ \A f \in DOMAIN Layout : Items(f) = Layout[f]

LEMMA SettledFollow ==
  ASSUME LogInv, PatternsMean
  PROVE  LoggersFollowConfig
PROOF
<1> SUFFICES ASSUME Settled, NEW n \in LoggerNames \ outdated, NEW l \in Levels \ {0}
             PROVE  LET told == IF n \in DOMAIN defs THEN Kept(defs[n]) ELSE <<>>
                        Follows(a, b) ==
                          /\ a.type = b.type
                          /\ IF b.formatter \in DOMAIN Layout
                             THEN Items(a.formatter) = Layout[b.formatter]
                             ELSE a.formatter = loggers[n].formatter
                    IN IF n \in DOMAIN defs /\ l < defs[n].level THEN Writes(n, l) = <<>>
                       ELSE /\ told # <<>> =>
                                 /\ Len(Writes(n, l)) = Len(told)
                                 /\ \A i \in DOMAIN told : Follows(Writes(n, l)[i], told[i])
                            /\ told = <<>> /\ n # Root => Writes(n, l) = Writes(Root, l)
  BY DEF LoggersFollowConfig
<1>1. LogTypes /\ Sharing /\ Conforms(n)
  BY SettledConforms DEF LogInv
<1>2. /\ l \in Nat /\ l >= 1 /\ loggers[n] \in LoggerStates /\ Root \in LoggerNames
      /\ SharesFormatter(loggers[n]) /\ loggers[Root] \in LoggerStates
  BY <1>1, LogAssumption DEF LogTypes, Sharing
<1>3. /\ loggers[n].level \in Nat /\ loggers[n].appenders \in Seq(Appenders)
      /\ loggers[Root].level \in Nat
  BY <1>2 DEF LoggerStates
<1>4. ASSUME loggers[n].appenders = <<>>, l >= loggers[n].level
      PROVE  Writes(n, l) = Writes(Root, l)
  BY <1>4 DEF Writes
<1>5. CASE n \notin DOMAIN defs
  <2>1. n # Root => loggers[n].level <= 1 /\ loggers[n].appenders = <<>>
    BY <1>1, <1>5 DEF Conforms
  <2>2. n # Root => l >= loggers[n].level
    BY <1>2, <1>3, <2>1
  <2> QED
    BY <1>4, <1>5, <2>1, <2>2
<1>6. CASE n \in DOMAIN defs
  <2> DEFINE d == defs[n]
  <2>1. d \in Definitions
    BY <1>1, <1>6, LogAssumption DEF LogTypes
  <2>2. d.level \in Nat
    BY <2>1, LogAssumption DEF Definitions
  <2>3. loggers[n].level = d.level /\ AlikeUpTo(loggers[n].appenders, Built(d), Len(Kept(d)))
    BY <1>1, <1>6 DEF Conforms
  <2>4. CASE l < d.level
    <3>1. ~(l >= loggers[n].level)
      BY <1>2, <2>2, <2>3, <2>4
    <3>2. Writes(n, l) = <<>>
      BY <3>1 DEF Writes
    <3> QED
      BY <1>6, <2>4, <3>2
  <2>5. CASE ~(l < d.level)
    <3>1. l >= loggers[n].level
      BY <1>2, <2>2, <2>3, <2>5
    <3> DEFINE told == Kept(d)
               as == loggers[n].appenders
    <3>2. told \in Seq(AppenderDefines) /\ DOMAIN told = 1..Len(told)
      BY <2>1, KeptIs
    <3>3. Len(as) = Len(told) /\ \A i \in 1..Len(told) : Alike(as[i], Built(d)[i])
      BY <2>3 DEF AlikeUpTo
    <3>4. CASE told = <<>>
      <4>1. as = <<>>
        BY <1>3, <3>3, <3>4
      <4>2. Writes(n, l) = Writes(Root, l)
        BY <1>4, <3>1, <4>1
      <4> QED
        BY <1>6, <2>5, <3>4, <4>2
    <3>5. CASE told # <<>>
      <4>1. as # <<>>
        BY <3>2, <3>3, <3>5
      <4>2. Writes(n, l) = as
        BY <3>1, <4>1 DEF Writes
      <4>3. ASSUME NEW i \in 1..Len(told)
            PROVE  /\ as[i].type = told[i].type
                   /\ told[i].formatter \in DOMAIN Layout => Items(as[i].formatter) = Layout[told[i].formatter]
                   /\ told[i].formatter \notin DOMAIN Layout => as[i].formatter = loggers[n].formatter
        <5>1. /\ Built(d)[i].type = told[i].type
              /\ Built(d)[i].own <=> told[i].formatter \notin Invalid \cup {""}
              /\ Built(d)[i].own => Built(d)[i].formatter = told[i].formatter
          BY <2>1, BuiltIs
        <5>2. Alike(as[i], Built(d)[i])
          BY <3>3
        <5>3. told[i].formatter \in Formatters \cup {""}
          <6>1. told[i] \in AppenderDefines
            BY <3>2
          <6> QED
            BY <6>1 DEF AppenderDefines
        <5>4. i \in DOMAIN as
          BY <1>3, <3>3
        <5>5. Built(d)[i].own <=> told[i].formatter \in DOMAIN Layout
          BY <5>1, <5>3, Zenon DEF PatternsMean
        <5>6. as[i].type = told[i].type
          BY <5>1, <5>2, Zenon DEF Alike
        <5>7. ASSUME told[i].formatter \in DOMAIN Layout
              PROVE  Items(as[i].formatter) = Layout[told[i].formatter]
          <6>1. as[i].formatter = told[i].formatter
            BY <5>1, <5>2, <5>5, <5>7, Zenon DEF Alike
          <6> QED
            BY <5>7, <6>1 DEF PatternsMean
        <5>8. ASSUME told[i].formatter \notin DOMAIN Layout
              PROVE  as[i].formatter = loggers[n].formatter
          <6>1. ~as[i].own
            BY <5>2, <5>5, <5>8, Zenon DEF Alike
          <6> QED
            BY <1>2, <5>4, <6>1 DEF SharesFormatter
        <5> QED
          BY <5>6, <5>7, <5>8
      <4> HIDE DEF told, as
      <4> QED
        BY <1>6, <2>5, <3>2, <3>3, <3>5, <4>2, <4>3 DEF told
    <3> QED
      BY <3>4, <3>5
  <2> QED
    BY <2>4, <2>5
<1> QED
  BY <1>5, <1>6

\* Whatever definitions follow one another, and wherever a program's setFormatter() comes
\* between the listener's calls, the loggers write what the present definitions say, by
\* the patterns of their appenders or the formatter that each logger happens to have,
\* but for those left behind by operator== (log.cc:367-382, 772-883), given that the patterns are laid out as they mean.
THEOREM ConfigIsFollowed == PatternsMean => (LogSpec => []LoggersFollowConfig)
PROOF
<1> SUFFICES ASSUME PatternsMean PROVE LogSpec => []LoggersFollowConfig
  OBVIOUS
<1>1. LogInv => LoggersFollowConfig
  BY SettledFollow
<1> QED
  BY <1>1, LogAlways, PTL

=============================================================================
