---------------------------- MODULE StreamProofs ----------------------------
(***************************************************************************)
(* Streams of units: what cutting, joining and dropping does to messages   *)
(* that stand back to back, for every size of a message.                   *)
(***************************************************************************)
EXTENDS Loop, SequenceTheorems, WellFoundedInduction, TLAPS

Size == {n \in Nat : n >= HDR}
Msg == [type : Nat, src : Nat, id : Nat, size : Size]
Unit == [msg : Msg, k : Nat]

\* Nothing is cut off at the end.
Whole(s) == s # <<>> => s[Len(s)].k = s[Len(s)].msg.size

\* What may come after a unit.
Follows(u, w) ==
    IF u.k < u.msg.size THEN w.msg = u.msg /\ w.k = u.k + 1 ELSE w.k = 1

Chained(s) ==
    /\ s # <<>> => s[1].k = 1
    /\ \A n \in 1..(Len(s) - 1) : Follows(s[n], s[n + 1])

(***************************************************************************)
(* Numbers.                                                                *)
(***************************************************************************)
LEMMA LeastNatural ==
    ASSUME NEW S, S \subseteq Nat, S # {}
    PROVE  \E s \in S : \A t \in S : s <= t
  <1>1. PICK s \in S : \A t \in S : ~(<<t, s>> \in OpToRel(<, Nat))
    BY NatLessThanWellFounded, WFMin
  <1>2. \A t \in S : ~(t < s)
    BY <1>1 DEF OpToRel
  <1> QED
    BY <1>2

LEMMA LeastBounds ==
    ASSUME NEW a \in Nat, NEW b \in Nat
    PROVE  /\ Least(a, b) \in Nat /\ Least(a, b) <= a /\ Least(a, b) <= b
           /\ Least(a, b) = a \/ Least(a, b) = b
  BY DEF Least

LEMMA NextRemainder ==
    ASSUME NEW d \in Nat \ {0}, NEW u \in Nat
    PROVE  /\ u % d \in 0..(d - 1) /\ u \div d \in Nat
           /\ (u % d) + 1 < d => /\ (u + 1) % d = (u % d) + 1
                               /\ (u + 1) \div d = u \div d
           /\ ~((u % d) + 1 < d) => (u + 1) % d = 0
  OBVIOUS

LEMMA ShiftedIndex ==
    ASSUME NEW l \in Nat, NEW n \in Nat, n >= 1, n <= l,
           NEW j \in 1..((l - n) - 1)
    PROVE  /\ j \in 1..(l - n) /\ j + 1 \in 1..(l - n)
           /\ n + j \in 1..(l - 1) /\ n + (j + 1) = (n + j) + 1
  OBVIOUS

LEMMA LastRemainder ==
    ASSUME NEW d \in Nat \ {0}, NEW n \in Nat \ {0}
    PROVE  (d * n - 1) % d = d - 1
  OBVIOUS

LEMMA QuotientBelow ==
    ASSUME NEW d \in Nat \ {0}, NEW n \in Nat, NEW u \in Nat, u < d * n
    PROVE  u \div d < n
  OBVIOUS
-----------------------------------------------------------------------------
(***************************************************************************)
(* Framed, unit by unit.                                                   *)
(***************************************************************************)
LEMMA FramedIsChained ==
    ASSUME NEW s \in Seq(Unit)
    PROVE  Framed(s) <=> Chained(s)
  <1>1. ASSUME NEW u \in Unit, NEW w \in Unit
        PROVE  w = [u EXCEPT !.k = u.k + 1] <=> w.msg = u.msg /\ w.k = u.k + 1
    BY DEF Unit
  <1>2. \A n \in 1..(Len(s) - 1) : s[n] \in Unit /\ s[n + 1] \in Unit
    <2>1. Len(s) \in Nat
      BY LenProperties
    <2>2. \A n \in 1..(Len(s) - 1) : n \in 1..Len(s) /\ n + 1 \in 1..Len(s)
      BY <2>1
    <2> QED
      BY <2>2, ElementOfSeq
  <1> QED
    BY <1>1, <1>2 DEF Framed, Chained, Follows

LEMMA UnitSizes ==
    ASSUME NEW u \in Unit
    PROVE  /\ u.k \in Nat /\ u.msg \in Msg
           /\ u.msg.size \in Nat /\ u.msg.size >= HDR /\ u.msg.size >= 1
  BY PipesAssumption DEF PipesAssumption, Unit, Msg, Size
-----------------------------------------------------------------------------
(***************************************************************************)
(* Cutting and joining.                                                    *)
(***************************************************************************)
LEMMA CutProperties ==
    ASSUME NEW U, NEW s \in Seq(U), NEW n \in 0..Len(s)
    PROVE  /\ Front(s, n) \in Seq(U) /\ Len(Front(s, n)) = n
           /\ \A j \in 1..n : Front(s, n)[j] = s[j]
           /\ Rest(s, n) \in Seq(U) /\ Len(Rest(s, n)) = Len(s) - n
           /\ \A j \in 1..(Len(s) - n) : Rest(s, n)[j] = s[n + j]
           /\ Front(s, n) \o Rest(s, n) = s
  <1>1. Len(s) \in Nat /\ n \in Nat /\ n <= Len(s)
    BY LenProperties
  <1>2. /\ Front(s, n) \in Seq(U) /\ Len(Front(s, n)) = n
        /\ \A j \in 1..n : Front(s, n)[j] = s[j]
    <2>1. \A j \in 1..n : s[j] \in U
      BY <1>1, ElementOfSeq
    <2>2. /\ SubSeq(s, 1, n) \in Seq(U)
          /\ Len(SubSeq(s, 1, n)) = IF 1 <= n THEN n - 1 + 1 ELSE 0
          /\ \A j \in 1..(n - 1 + 1) : SubSeq(s, 1, n)[j] = s[1 + j - 1]
      BY <1>1, <2>1, SubSeqProperties
    <2> QED
      BY <1>1, <2>2 DEF Front
  <1>3. /\ Rest(s, n) \in Seq(U) /\ Len(Rest(s, n)) = Len(s) - n
        /\ \A j \in 1..(Len(s) - n) : Rest(s, n)[j] = s[n + j]
    <2> DEFINE m == n + 1
               l == Len(s)
    <2>1. /\ m \in Int /\ l \in Int
          /\ \A j \in m..l : s[j] \in U
      BY <1>1, ElementOfSeq
    <2>2. /\ SubSeq(s, m, l) \in Seq(U)
          /\ Len(SubSeq(s, m, l)) = IF m <= l THEN l - m + 1 ELSE 0
          /\ \A j \in 1..(l - m + 1) : SubSeq(s, m, l)[j] = s[m + j - 1]
      <3> HIDE DEF m, l
      <3> QED
        BY <2>1, SubSeqProperties
    <2> QED
      BY <1>1, <2>2 DEF Rest
  <1>4. Front(s, n) \o Rest(s, n) = s
    <2>1. 1 \in 1..(Len(s) + 1) /\ n \in (1 - 1)..Len(s) /\ Len(s) \in n..Len(s)
      BY <1>1
    <2>2. SubSeq(s, 1, n) \o SubSeq(s, n + 1, Len(s)) = SubSeq(s, 1, Len(s))
      BY <2>1, ConcatAdjacentSubSeq
    <2> QED
      BY <2>2, SubSeqFull DEF Front, Rest
  <1> QED
    BY <1>2, <1>3, <1>4

\* A read or a write: some units leave the start of one sequence for the end
\* of the one before it.
LEMMA MoveUnits ==
    ASSUME NEW U, NEW s \in Seq(U), NEW t \in Seq(U), NEW n \in 0..Len(t)
    PROVE  (s \o Front(t, n)) \o Rest(t, n) = s \o t
  <1> DEFINE f == Front(t, n)
             r == Rest(t, n)
  <1>1. f \in Seq(U) /\ r \in Seq(U) /\ f \o r = t
    BY CutProperties
  <1> HIDE DEF f, r
  <1>2. \A v, w \in Seq(U) : (s \o v) \o w = s \o (v \o w)
    BY ConcatAssociative
  <1>3. (s \o f) \o r = s \o (f \o r)
    BY <1>1, <1>2, Zenon
  <1> QED
    BY <1>1, <1>3 DEF f, r

\* A message leaves the start of a stream.
LEMMA DropOfConcat ==
    ASSUME NEW U, NEW s \in Seq(U), NEW t \in Seq(U), NEW n \in 0..Len(s)
    PROVE  Rest(s, n) \o t = Rest(s \o t, n)
  <1>1. /\ Len(s) \in Nat /\ Len(t) \in Nat /\ n \in Nat /\ n <= Len(s)
    BY LenProperties
  <1>2. /\ s \o t \in Seq(U) /\ Len(s \o t) = Len(s) + Len(t)
        /\ \A j \in 1..(Len(s) + Len(t)) :
              (s \o t)[j] = IF j <= Len(s) THEN s[j] ELSE t[j - Len(s)]
    BY ConcatProperties
  <1>3. n \in 0..Len(s \o t)
    BY <1>1, <1>2
  <1> DEFINE r == Rest(s, n)
             c == s \o t
             a == r \o t
             b == Rest(c, n)
  <1>4. /\ r \in Seq(U) /\ Len(r) = Len(s) - n
        /\ \A j \in 1..(Len(s) - n) : r[j] = s[n + j]
    BY CutProperties
  <1> HIDE DEF r
  <1>5. /\ a \in Seq(U) /\ Len(a) = Len(s) - n + Len(t)
        /\ \A j \in 1..(Len(s) - n + Len(t)) :
              a[j] = IF j <= Len(s) - n THEN r[j] ELSE t[j - (Len(s) - n)]
    <2>1. /\ a \in Seq(U) /\ Len(a) = Len(r) + Len(t)
          /\ \A j \in 1..(Len(r) + Len(t)) :
                a[j] = IF j <= Len(r) THEN r[j] ELSE t[j - Len(r)]
      BY <1>4, ConcatProperties
    <2> QED
      BY <1>4, <2>1
  <1>6. /\ b \in Seq(U) /\ Len(b) = Len(s) + Len(t) - n
        /\ \A j \in 1..(Len(s) + Len(t) - n) : b[j] = c[n + j]
    <2>1. c \in Seq(U) /\ n \in 0..Len(c) /\ Len(c) = Len(s) + Len(t)
      BY <1>2, <1>3
    <2> HIDE DEF c
    <2>2. /\ b \in Seq(U) /\ Len(b) = Len(c) - n
          /\ \A j \in 1..(Len(c) - n) : b[j] = c[n + j]
      BY <2>1, CutProperties
    <2> QED
      BY <2>1, <2>2
  <1> HIDE DEF a, b
  <1>7. Len(a) = Len(b)
    BY <1>1, <1>5, <1>6
  <1>8. ASSUME NEW j \in 1..Len(a) PROVE a[j] = b[j]
    <2>1. /\ j \in Nat /\ j >= 1 /\ j <= Len(s) - n + Len(t)
          /\ b[j] = (s \o t)[n + j]
          /\ n + j \in 1..(Len(s) + Len(t))
      BY <1>1, <1>5, <1>6
    <2>2. CASE j <= Len(s) - n
      <3>1. a[j] = s[n + j]
        BY <1>1, <1>4, <1>5, <2>1, <2>2
      <3>2. n + j <= Len(s)
        BY <1>1, <2>1, <2>2
      <3> QED
        BY <1>2, <2>1, <3>1, <3>2
    <2>3. CASE ~(j <= Len(s) - n)
      <3>1. a[j] = t[j - (Len(s) - n)]
        BY <1>1, <1>5, <2>1, <2>3
      <3>2. ~(n + j <= Len(s)) /\ n + j - Len(s) = j - (Len(s) - n)
        BY <1>1, <2>1, <2>3
      <3> QED
        BY <1>2, <2>1, <3>1, <3>2
    <2> QED
      BY <2>2, <2>3
  <1> QED
    BY <1>5, <1>6, <1>7, <1>8, SeqEqual DEF a, b, r

LEMMA FirstOfConcat ==
    ASSUME NEW U, NEW s \in Seq(U), NEW t \in Seq(U), s # <<>>
    PROVE  s \o t # <<>> /\ (s \o t)[1] = s[1] /\ Len(s \o t) >= Len(s)
  <1>1. Len(s) \in Nat \ {0} /\ Len(t) \in Nat
    BY EmptySeq, LenProperties
  <1>2. /\ Len(s \o t) = Len(s) + Len(t)
        /\ \A j \in 1..(Len(s) + Len(t)) :
              (s \o t)[j] = IF j <= Len(s) THEN s[j] ELSE t[j - Len(s)]
    BY ConcatProperties
  <1>3. Len(s \o t) # 0 /\ 1 \in 1..(Len(s) + Len(t)) /\ 1 <= Len(s)
    BY <1>1, <1>2
  <1> QED
    BY <1>1, <1>2, <1>3, EmptySeq

\* Messages after messages are messages.
LEMMA ChainedConcat ==
    ASSUME NEW s \in Seq(Unit), NEW t \in Seq(Unit),
           Chained(s), Whole(s), Chained(t), Whole(t)
    PROVE  Chained(s \o t) /\ Whole(s \o t)
  <1>1. Len(s) \in Nat /\ Len(t) \in Nat
    BY LenProperties
  <1>2. CASE s = <<>>
    BY <1>2, ConcatEmptySeq
  <1>3. CASE t = <<>>
    BY <1>3, ConcatEmptySeq
  <1>4. CASE s # <<>> /\ t # <<>>
    <2> DEFINE c == s \o t
    <2>1. Len(s) >= 1 /\ Len(t) >= 1
      BY <1>1, <1>4, EmptySeq
    <2>2. /\ Len(c) = Len(s) + Len(t)
          /\ \A j \in 1..(Len(s) + Len(t)) :
                c[j] = IF j <= Len(s) THEN s[j] ELSE t[j - Len(s)]
      BY ConcatProperties
    <2>3. /\ \A j \in 1..Len(s) : c[j] = s[j]
          /\ \A j \in 1..Len(t) : c[Len(s) + j] = t[j]
      <3> HIDE DEF c
      <3>1. ASSUME NEW j \in 1..Len(s) PROVE c[j] = s[j]
        <4>1. j \in 1..(Len(s) + Len(t)) /\ j <= Len(s)
          BY <1>1
        <4> QED
          BY <2>2, <4>1
      <3>2. ASSUME NEW j \in 1..Len(t) PROVE c[Len(s) + j] = t[j]
        <4>1. /\ Len(s) + j \in 1..(Len(s) + Len(t)) /\ ~(Len(s) + j <= Len(s))
              /\ Len(s) + j - Len(s) = j
          BY <1>1
        <4> QED
          BY <2>2, <4>1
      <3> QED
        BY <3>1, <3>2
    <2> HIDE DEF c
    <2>4. c[1] = s[1] /\ c[Len(c)] = t[Len(t)] /\ c[Len(s)] = s[Len(s)]
          /\ c[Len(s) + 1] = t[1]
      BY <1>1, <2>1, <2>2, <2>3
    <2>5. Whole(c)
      BY <1>4, <2>4 DEF Whole
    <2>6. ASSUME NEW n \in 1..(Len(c) - 1)
          PROVE  Follows(c[n], c[n + 1])
      <3>1. n \in Nat /\ n >= 1 /\ n <= Len(s) + Len(t) - 1
        BY <1>1, <2>2
      <3>2. CASE n < Len(s)
        <4>1. n \in 1..(Len(s) - 1) /\ n \in 1..Len(s) /\ n + 1 \in 1..Len(s)
          BY <1>1, <3>1, <3>2
        <4>2. Follows(s[n], s[n + 1])
          BY <4>1 DEF Chained
        <4> QED
          BY <2>3, <4>1, <4>2
      <3>3. CASE n = Len(s)
        <4>1. s[Len(s)].k = s[Len(s)].msg.size /\ t[1].k = 1
          BY <1>4 DEF Whole, Chained
        <4>2. s[Len(s)] \in Unit
          BY <1>1, <2>1, ElementOfSeq
        <4>3. ~(s[Len(s)].k < s[Len(s)].msg.size)
          BY <4>1, <4>2, UnitSizes
        <4> QED
          BY <2>4, <3>3, <4>1, <4>3 DEF Follows
      <3>4. CASE n > Len(s)
        <4> DEFINE j == n - Len(s)
        <4>1. /\ j \in 1..(Len(t) - 1) /\ j \in 1..Len(t) /\ j + 1 \in 1..Len(t)
              /\ n = Len(s) + j /\ n + 1 = Len(s) + (j + 1)
          BY <1>1, <3>1, <3>4
        <4> HIDE DEF j
        <4>2. c[n] = t[j] /\ c[n + 1] = t[j + 1]
          BY <2>3, <4>1
        <4>3. Follows(t[j], t[j + 1])
          BY <4>1 DEF Chained
        <4> QED
          BY <4>2, <4>3
      <3> QED
        BY <1>1, <3>1, <3>2, <3>3, <3>4
    <2>7. Chained(c)
      BY <1>4, <2>4, <2>6 DEF Chained
    <2> QED
      BY <2>5, <2>7 DEF c
  <1> QED
    BY <1>2, <1>3, <1>4
-----------------------------------------------------------------------------
(***************************************************************************)
(* The message at the start of a stream.                                   *)
(***************************************************************************)
LEMMA MessageAtStart ==
    ASSUME NEW s \in Seq(Unit), Chained(s), s # <<>>,
           NEW j \in 1..Len(s), j <= s[1].msg.size
    PROVE  s[j].msg = s[1].msg /\ s[j].k = j
  <1> DEFINE Good(i) == s[i].msg = s[1].msg /\ s[i].k = i
             B == {i \in 1..Len(s) : i <= s[1].msg.size /\ ~Good(i)}
  <1>1. Len(s) \in Nat /\ Len(s) >= 1
    BY LenProperties, EmptySeq
  <1>2. s[1].msg.size \in Nat
    BY <1>1, ElementOfSeq, UnitSizes
  <1>3. SUFFICES ASSUME B # {} PROVE FALSE
    OBVIOUS
  <1>4. PICK i \in B : \A k \in B : i <= k
    <2>1. B \subseteq Nat
      BY <1>1
    <2> HIDE DEF B
    <2> QED
      BY <1>3, <2>1, LeastNatural
  <1>5. i \in 1..Len(s) /\ i <= s[1].msg.size /\ ~Good(i)
    OBVIOUS
  <1>6. i # 1
    BY <1>5 DEF Chained
  <1> DEFINE p == i - 1
  <1>7. /\ p \in 1..Len(s) /\ p \in 1..(Len(s) - 1) /\ p + 1 = i
        /\ p < s[1].msg.size /\ p <= s[1].msg.size /\ p < i /\ p \in Nat /\ i \in Nat
    BY <1>1, <1>2, <1>5, <1>6
  <1>8. Good(p)
    <2> HIDE DEF p, Good
    <2>1. p \notin B
      BY <1>4, <1>7
    <2> QED
      BY <1>7, <2>1
  <1>9. Follows(s[p], s[i])
    BY <1>7 DEF Chained
  <1> HIDE DEF p
  <1>10. s[i].msg = s[p].msg /\ s[i].k = s[p].k + 1
    BY <1>7, <1>8, <1>9 DEF Follows
  <1> QED
    BY <1>5, <1>7, <1>8, <1>10

\* Without its first message a stream is messages still.
LEMMA DropMessage ==
    ASSUME NEW s \in Seq(Unit), Chained(s), Whole(s), s # <<>>,
           NEW n, n = s[1].msg.size, n <= Len(s)
    PROVE  /\ n \in 0..Len(s)
           /\ Chained(Rest(s, n)) /\ Whole(Rest(s, n))
  <1> DEFINE r == Rest(s, n)
  <1>1. Len(s) \in Nat /\ Len(s) >= 1 /\ s[1] \in Unit
    BY LenProperties, EmptySeq, ElementOfSeq
  <1>2. n \in Nat /\ n >= 1
    BY <1>1, UnitSizes
  <1>3. n \in 0..Len(s) /\ n \in 1..Len(s)
    BY <1>1, <1>2
  <1>4. /\ r \in Seq(Unit) /\ Len(r) = Len(s) - n
        /\ \A j \in 1..(Len(s) - n) : r[j] = s[n + j]
    BY <1>3, CutProperties
  <1> HIDE DEF r
  <1>5. s[n].k = n /\ s[n].msg = s[1].msg
    BY <1>1, <1>3, MessageAtStart
  <1>6. r # <<>> => Len(s) - n >= 1
    BY <1>1, <1>4, EmptySeq
  <1>7. Whole(r)
    <2> SUFFICES ASSUME r # <<>> PROVE r[Len(r)].k = r[Len(r)].msg.size
      BY DEF Whole
    <2>1. r[Len(r)] = s[Len(s)]
      <3>1. Len(s) - n \in 1..(Len(s) - n) /\ n + (Len(s) - n) = Len(s)
        BY <1>1, <1>2, <1>6
      <3> QED
        BY <1>4, <3>1
    <2>2. s[Len(s)].k = s[Len(s)].msg.size
      BY DEF Whole
    <2> QED
      BY <2>1, <2>2
  <1>8. r # <<>> => r[1].k = 1
    <2> SUFFICES ASSUME r # <<>> PROVE r[1].k = 1
      OBVIOUS
    <2>1. n \in 1..(Len(s) - 1) /\ 1 \in 1..(Len(s) - n)
      BY <1>1, <1>2, <1>6
    <2>2. r[1] = s[n + 1]
      BY <1>4, <2>1
    <2>3. Follows(s[n], s[n + 1])
      BY <2>1 DEF Chained
    <2>4. ~(s[n].k < s[n].msg.size)
      BY <1>2, <1>5
    <2> QED
      BY <2>2, <2>3, <2>4 DEF Follows
  <1>9. ASSUME NEW j \in 1..(Len(r) - 1)
        PROVE  Follows(r[j], r[j + 1])
    <2>1. /\ j \in 1..(Len(s) - n) /\ j + 1 \in 1..(Len(s) - n)
          /\ n + j \in 1..(Len(s) - 1) /\ n + (j + 1) = (n + j) + 1
      <3>1. j \in 1..((Len(s) - n) - 1)
        BY <1>4
      <3> QED
        BY <1>1, <1>2, <3>1, ShiftedIndex
    <2>2. r[j] = s[n + j] /\ r[j + 1] = s[(n + j) + 1]
      BY <1>4, <2>1
    <2> QED
      BY <2>1, <2>2 DEF Chained
  <1>10. Chained(r)
    BY <1>8, <1>9 DEF Chained
  <1> QED
    BY <1>3, <1>7, <1>10 DEF r
-----------------------------------------------------------------------------
(***************************************************************************)
(* What is written: one message, or the answers of a handler.              *)
(***************************************************************************)
LEMMA FunctionIsSeq ==
    ASSUME NEW S, NEW n \in Nat, NEW f \in [1..n -> S]
    PROVE  /\ f \in Seq(S) /\ Len(f) = n
           /\ f = <<>> <=> n = 0
  <1>1. f \in Seq(S)
    BY SeqDef
  <1>2. DOMAIN f = 1..Len(f) /\ Len(f) \in Nat
    BY <1>1, LenProperties
  <1>3. Len(f) = n
    BY <1>1
  <1> QED
    BY <1>1, <1>3, EmptySeq

LEMMA UnitsOfChained ==
    ASSUME NEW M \in SUBSET Msg, NEW m \in M
    PROVE  /\ UnitsOf(m) \in Seq([msg : M, k : Nat])
           /\ Chained(UnitsOf(m)) /\ Whole(UnitsOf(m))
           /\ Len(UnitsOf(m)) = m.size /\ UnitsOf(m) # <<>>
           /\ \A j \in 1..Len(UnitsOf(m)) : UnitsOf(m)[j].msg = m
  <1> DEFINE f == UnitsOf(m)
             n == m.size
  <1>1. n \in Nat /\ n >= 1
    BY PipesAssumption DEF PipesAssumption, Msg, Size
  <1>2. /\ f \in [1..n -> [msg : M, k : Nat]]
        /\ \A j \in 1..n : f[j].msg = m /\ f[j].k = j
    BY DEF UnitsOf
  <1> HIDE DEF f, n
  <1>3. f \in Seq([msg : M, k : Nat]) /\ Len(f) = n /\ f # <<>>
    <2> DEFINE S == [msg : M, k : Nat]
    <2>1. f \in [1..n -> S]
      BY <1>2
    <2> HIDE DEF S
    <2>2. f \in Seq(S) /\ Len(f) = n /\ f # <<>>
      BY <1>1, <2>1, FunctionIsSeq
    <2> QED
      BY <2>2 DEF S
  <1>4. Whole(f)
    <2>1. n \in 1..n
      BY <1>1
    <2> QED
      BY <1>2, <1>3, <2>1 DEF Whole, n
  <1>5. Chained(f)
    <2>1. f[1].k = 1
      BY <1>1, <1>2
    <2>2. ASSUME NEW j \in 1..(n - 1)
          PROVE  Follows(f[j], f[j + 1])
      <3>1. j \in 1..n /\ j + 1 \in 1..n
        BY <1>1
      <3> QED
        BY <1>2, <3>1, <1>1 DEF Follows, n
    <2> QED
      BY <1>3, <2>1, <2>2 DEF Chained
  <1> QED
    BY <1>2, <1>3, <1>4, <1>5 DEF f, n

LEMMA ReplyUnitsChained ==
    ASSUME NEW m \in Msg, NEW types \in Seq(Nat)
    PROVE  /\ ReplyUnits(m, types) \in Seq(Unit)
           /\ Chained(ReplyUnits(m, types)) /\ Whole(ReplyUnits(m, types))
           /\ \A u \in 1..Len(ReplyUnits(m, types)) :
                ReplyUnits(m, types)[u].msg.id = m.id
  <1> DEFINE f == ReplyUnits(m, types)
             d == m.size
             l == Len(types)
             n == d * l
             q(u) == (u - 1) \div d
             sent == [i \in DOMAIN types |->
                        Message(types[i], m.type, m.id, m.size)]
  <1>1. d \in Nat \ {0} /\ l \in Nat /\ m.type \in Nat /\ m.id \in Nat
        /\ m.size \in Size
    BY PipesAssumption, LenProperties DEF PipesAssumption, Msg, Size
  <1>2. n \in Nat
    BY <1>1
  <1>3. ASSUME NEW i \in 1..l
        PROVE  sent[i] \in Msg /\ sent[i].size = d /\ sent[i].id = m.id
    <2>1. types[i] \in Nat /\ i \in DOMAIN types
      BY ElementOfSeq, LenProperties
    <2> QED
      BY <1>1, <2>1 DEF Msg, Message
  <1>4. f = [u \in 1..n |-> [msg |-> sent[q(u) + 1], k |-> ((u - 1) % d) + 1]]
    BY DEF ReplyUnits
  <1> HIDE DEF d, l, sent
  <1>5. ASSUME NEW u \in 1..n
        PROVE  /\ q(u) + 1 \in 1..l
               /\ (u - 1) % d \in 0..(d - 1)
               /\ u - 1 \in Nat
    <2>1. u - 1 \in Nat /\ u - 1 < d * l
      BY <1>1, <1>2
    <2>2. (u - 1) % d \in 0..(d - 1) /\ q(u) \in Nat /\ q(u) < l
      BY <1>1, <2>1, NextRemainder, QuotientBelow
    <2> QED
      BY <1>1, <2>1, <2>2
  <1>6. /\ f \in [1..n -> Unit]
        /\ \A u \in 1..n : /\ f[u].msg = sent[q(u) + 1]
                           /\ f[u].k = ((u - 1) % d) + 1
                           /\ f[u].msg.size = d /\ f[u].msg.id = m.id
    <2>1. \A u \in 1..n : [msg |-> sent[q(u) + 1], k |-> ((u - 1) % d) + 1] \in Unit
      BY <1>1, <1>3, <1>5 DEF Unit
    <2> QED
      BY <1>3, <1>4, <1>5, <2>1
  <1> HIDE DEF f
  <1>7. f \in Seq(Unit) /\ Len(f) = n /\ (f # <<>> => n # 0)
    BY <1>2, <1>6, FunctionIsSeq
  <1>8. Whole(f)
    <2> SUFFICES ASSUME f # <<>> PROVE f[n].k = f[n].msg.size
      BY <1>7 DEF Whole
    <2>1. n # 0
      BY <1>7
    <2>2. l \in Nat \ {0}
      BY <1>1, <2>1
    <2>3. (n - 1) % d = d - 1
      BY <1>1, <2>2, LastRemainder
    <2>4. n \in 1..n
      BY <1>2, <2>1
    <2>5. f[n].k = ((n - 1) % d) + 1 /\ f[n].msg.size = d
      BY <1>6, <2>4
    <2> HIDE DEF n
    <2> QED
      BY <1>1, <2>3, <2>5
  <1>9. f # <<>> => f[1].k = 1
    <2> SUFFICES ASSUME f # <<>> PROVE f[1].k = 1
      OBVIOUS
    <2>1. 1 \in 1..n
      BY <1>2, <1>7
    <2>2. (1 - 1) % d = 0
      BY <1>1
    <2> QED
      BY <1>6, <2>1, <2>2
  <1>10. ASSUME NEW u \in 1..(n - 1)
         PROVE  Follows(f[u], f[u + 1])
    <2>1. u \in 1..n /\ u + 1 \in 1..n /\ u - 1 \in Nat /\ (u + 1) - 1 = (u - 1) + 1
      BY <1>2
    <2>2. /\ (u - 1) % d \in 0..(d - 1)
          /\ ((u - 1) % d) + 1 < d => /\ ((u - 1) + 1) % d = ((u - 1) % d) + 1
                                    /\ ((u - 1) + 1) \div d = (u - 1) \div d
          /\ ~(((u - 1) % d) + 1 < d) => ((u - 1) + 1) % d = 0
      BY <1>1, <2>1, NextRemainder
    <2>3. /\ f[u].k = ((u - 1) % d) + 1 /\ f[u].msg.size = d
          /\ f[u].msg = sent[q(u) + 1]
          /\ f[u + 1].k = (((u - 1) + 1) % d) + 1
          /\ f[u + 1].msg = sent[(((u - 1) + 1) \div d) + 1]
      BY <1>6, <2>1
    <2> QED
      BY <2>2, <2>3 DEF Follows
  <1>11. \A u \in 1..Len(f) : f[u].msg.id = m.id
    BY <1>6, <1>7
  <1> QED
    BY <1>7, <1>8, <1>9, <1>10, <1>11 DEF Chained, f
-----------------------------------------------------------------------------
(***************************************************************************)
(* The messages that end in a stream, in their order: IdsOf.               *)
(***************************************************************************)
\* What holds at 0 and goes from each number to the next holds up to l.
LEMMA UpToAll ==
    ASSUME NEW l \in Nat, NEW G, 0 \in G,
           \A n \in 1..l : n - 1 \in G => n \in G
    PROVE  \A n \in 0..l : n \in G
  <1> DEFINE B == {n \in 0..l : n \notin G}
  <1>1. SUFFICES ASSUME B # {} PROVE FALSE
    OBVIOUS
  <1>2. B \subseteq Nat
    OBVIOUS
  <1>3. PICK n \in B : \A k \in B : n <= k
    <2> HIDE DEF B
    <2> QED
      BY <1>1, <1>2, LeastNatural
  <1>4. n \in 0..l /\ n \notin G /\ n # 0
    BY <1>3
  <1>5. n \in 1..l /\ n - 1 \in 0..l /\ ~(n <= n - 1)
    BY <1>4
  <1>6. n - 1 \in G
    BY <1>3, <1>5
  <1> QED
    BY <1>4, <1>5, <1>6

\* A function over 0..l may be defined by recursion.
Recursion(f, l, S, x, step) ==
    /\ f \in [0..l -> S]
    /\ f[0] = x
    /\ \A n \in 1..l : f[n] = step[n][f[n - 1]]

LEMMA RecursionExists ==
    ASSUME NEW l \in Nat, NEW S, NEW x \in S, NEW step \in [1..l -> [S -> S]]
    PROVE  \E f : Recursion(f, l, S, x, step)
  <1> DEFINE Part(k, f) == Recursion(f, k, S, x, step)
             G == {k \in 0..l : \E f : Part(k, f)}
  <1>1. 0 \in G
    <2> DEFINE f == [n \in 0..0 |-> x]
    <2>1. f \in [0..0 -> S] /\ f[0] = x /\ \A n \in 1..0 : FALSE
      OBVIOUS
    <2> HIDE DEF f
    <2>2. Part(0, f)
      BY <2>1 DEF Recursion
    <2> QED
      BY <2>2
  <1>2. ASSUME NEW k \in 1..l, k - 1 \in G PROVE k \in G
    <2>1. PICK f : Part(k - 1, f)
      BY <1>2
    <2>2. /\ f \in [0..(k - 1) -> S] /\ f[0] = x
          /\ \A n \in 1..(k - 1) : f[n] = step[n][f[n - 1]]
      BY <2>1 DEF Recursion
    <2> DEFINE g == [n \in 0..k |-> IF n = k THEN step[k][f[k - 1]] ELSE f[n]]
    <2>3. /\ k \in Nat /\ k >= 1 /\ k # 0 /\ k \in 0..k /\ 0 \in 0..k
          /\ \A n \in 0..k : n = k \/ n \in 0..(k - 1)
          /\ k - 1 \in 0..(k - 1) /\ k - 1 \in 0..k /\ k - 1 # k
          /\ \A n \in 1..k : /\ n \in 0..k /\ n - 1 \in 0..k /\ n - 1 # k
                             /\ n # k => n \in 1..(k - 1)
      OBVIOUS
    <2>4. step[k][f[k - 1]] \in S
      BY <2>2, <2>3
    <2>5. g \in [0..k -> S]
      BY <2>2, <2>3, <2>4
    <2>6. /\ \A n \in 0..k : n # k => g[n] = f[n]
          /\ g[k] = step[k][f[k - 1]]
      BY <2>3
    <2> HIDE DEF g
    <2>7. g[0] = x
      BY <2>2, <2>3, <2>6
    <2>8. ASSUME NEW n \in 1..k PROVE g[n] = step[n][g[n - 1]]
      <3>1. g[n - 1] = f[n - 1]
        BY <2>3, <2>6
      <3>2. CASE n = k
        BY <2>6, <3>1, <3>2
      <3>3. CASE n # k
        <4>1. n \in 1..(k - 1) /\ g[n] = f[n]
          BY <2>3, <2>6, <3>3
        <4> QED
          BY <2>2, <3>1, <4>1
      <3> QED
        BY <3>2, <3>3
    <2>9. Part(k, g)
      BY <2>5, <2>7, <2>8 DEF Recursion
    <2> HIDE DEF Part
    <2> QED
      BY <2>9
  <1>3. l \in G
    <2>1. l \in 0..l
      OBVIOUS
    <2> HIDE DEF G
    <2>2. \A n \in 0..l : n \in G
      BY <1>1, <1>2, UpToAll
    <2> QED
      BY <2>1, <2>2
  <1> QED
    BY <1>3

\* f counts through s: f[n] are the identities among the first n units.
Counts(f, s, type) ==
    /\ f[0] = <<>>
    /\ \A n \in 1..Len(s) :
         f[n] = IF IsEnd(s[n], type) THEN Append(f[n - 1], s[n].msg.id)
                                     ELSE f[n - 1]

LEMMA IdsCounted ==
    ASSUME NEW s \in Seq(Unit), NEW type
    PROVE  \E f : /\ Counts(f, s, type) /\ IdsOf(s, type) = f[Len(s)]
                  /\ \A n \in 0..Len(s) : f[n] \in Seq(Nat)
  <1> DEFINE l == Len(s)
             S == Seq(Nat)
             Next(n, q) == IF IsEnd(s[n], type) THEN Append(q, s[n].msg.id) ELSE q
             Eq(f) == f = [n \in 0..l |->
                             IF n = 0 THEN <<>>
                             ELSE IF IsEnd(s[n], type)
                                  THEN Append(f[n - 1], s[n].msg.id)
                                  ELSE f[n - 1]]
  <1>1. l \in Nat /\ <<>> \in S
    BY LenProperties, EmptySeq
  <1>2. ASSUME NEW n \in 1..l, NEW q \in S PROVE Next(n, q) \in S
    <2>1. s[n] \in Unit
      BY ElementOfSeq
    <2>2. s[n].msg.id \in Nat
      BY <2>1 DEF Unit, Msg
    <2>3. Append(q, s[n].msg.id) \in S
      BY <2>2, AppendProperties
    <2> QED
      BY <2>3
  <1>3. \E f : Eq(f)
    <2> DEFINE step == [n \in 1..l |-> [q \in S |-> Next(n, q)]]
               x == <<>>
    <2>1. step \in [1..l -> [S -> S]]
      <3> HIDE DEF l, S, Next
      <3> QED
        BY <1>2
    <2>2. \A n \in 1..l : \A q \in S : step[n][q] = Next(n, q)
      OBVIOUS
    <2>3. x \in S
      BY <1>1
    <2>4. PICK f : Recursion(f, l, S, x, step)
      <3> HIDE DEF l, S, step, x
      <3> QED
        BY <1>1, <2>1, <2>3, RecursionExists
    <2>5. /\ f \in [0..l -> S] /\ f[0] = x
          /\ \A n \in 1..l : f[n] = step[n][f[n - 1]]
      BY <2>4 DEF Recursion
    <2>6. ASSUME NEW n \in 0..l
          PROVE  f[n] = IF n = 0 THEN <<>> ELSE Next(n, f[n - 1])
      <3>1. n # 0 => n \in 1..l /\ n - 1 \in 0..l
        BY <1>1
      <3>2. n # 0 => f[n - 1] \in S
        BY <2>5, <3>1
      <3>3. n # 0 => step[n][f[n - 1]] = Next(n, f[n - 1])
        BY <2>2, <3>1, <3>2
      <3> HIDE DEF step, Next, l, S
      <3> QED
        BY <2>5, <3>1, <3>3
    <2>7. f = [n \in 0..l |-> f[n]]
      BY <2>5
    <2>8. Eq(f)
      <3> HIDE DEF l
      <3> QED
        BY <2>6, <2>7
    <2> QED
      BY <2>8
  <1> DEFINE f == CHOOSE g : Eq(g)
  <1>4. IdsOf(s, type) = f[l]
    BY DEF IdsOf
  <1>5. Eq(f)
    <2> HIDE DEF Eq
    <2> QED
      BY <1>3
  <1> HIDE DEF f
  <1>6. Counts(f, s, type)
    <2>1. 0 \in 0..l /\ \A n \in 1..l : n \in 0..l /\ n # 0
      BY <1>1
    <2> QED
      BY <1>5, <2>1 DEF Counts
  <1>7. \A n \in 0..l : f[n] \in S
    <2> DEFINE G == {n \in 0..l : f[n] \in S}
    <2>1. 0 \in G
      <3>1. f[0] \in S /\ 0 \in 0..l
        BY <1>1, <1>6 DEF Counts
      <3> HIDE DEF l, S
      <3> QED
        BY <3>1
    <2>2. ASSUME NEW n \in 1..l, n - 1 \in G PROVE n \in G
      <3>1. f[n] = Next(n, f[n - 1])
        BY <1>6 DEF Counts
      <3>2. f[n - 1] \in S
        BY <2>2
      <3>3. Next(n, f[n - 1]) \in S
        <4> HIDE DEF Next, S, l
        <4> QED
          BY <1>2, <3>2
      <3>4. n \in 0..l
        BY <1>1
      <3> QED
        BY <3>1, <3>3, <3>4
    <2>3. \A n \in 0..l : n \in G
      <3> HIDE DEF G, l
      <3> QED
        BY <1>1, <2>1, <2>2, UpToAll
    <2> QED
      BY <2>3
  <1> QED
    BY <1>4, <1>6, <1>7

LEMMA IdsOfEmpty == \A type : IdsOf(<<>>, type) = <<>>
  <1> TAKE type
  <1>1. <<>> \in Seq(Unit) /\ Len(<<>>) = 0
    BY EmptySeq
  <1>2. \E f : Counts(f, <<>>, type) /\ IdsOf(<<>>, type) = f[Len(<<>>)]
    BY <1>1, IdsCounted
  <1> QED
    BY <1>1, <1>2 DEF Counts

\* The identities in two streams, one behind the other.
LEMMA IdsOfConcat ==
    ASSUME NEW s \in Seq(Unit), NEW t \in Seq(Unit), NEW type
    PROVE  /\ IdsOf(s \o t, type) = IdsOf(s, type) \o IdsOf(t, type)
           /\ IdsOf(s, type) \in Seq(Nat)
  <1> DEFINE c == s \o t
             a == Len(s)
             b == Len(t)
  <1>1. a \in Nat /\ b \in Nat
    BY LenProperties
  <1>2. /\ c \in Seq(Unit) /\ Len(c) = a + b
        /\ \A j \in 1..(a + b) : c[j] = IF j <= a THEN s[j] ELSE t[j - a]
    BY ConcatProperties
  <1>3. PICK f : /\ Counts(f, s, type) /\ IdsOf(s, type) = f[a]
                 /\ \A n \in 0..a : f[n] \in Seq(Nat)
    BY IdsCounted
  <1>4. PICK g : /\ Counts(g, t, type) /\ IdsOf(t, type) = g[b]
                 /\ \A n \in 0..b : g[n] \in Seq(Nat)
    BY IdsCounted
  <1> HIDE DEF c
  <1>5. PICK h : /\ Counts(h, c, type) /\ IdsOf(c, type) = h[Len(c)]
                 /\ \A n \in 0..Len(c) : h[n] \in Seq(Nat)
    BY <1>2, IdsCounted
  <1>6. ASSUME NEW n \in 1..a
        PROVE  /\ h[n] = IF IsEnd(s[n], type) THEN Append(h[n - 1], s[n].msg.id)
                                              ELSE h[n - 1]
               /\ f[n] = IF IsEnd(s[n], type) THEN Append(f[n - 1], s[n].msg.id)
                                              ELSE f[n - 1]
    <2>1. n \in 1..(a + b) /\ n <= a
      BY <1>1
    <2>2. c[n] = s[n] /\ n \in 1..Len(c)
      BY <1>2, <2>1
    <2> QED
      BY <1>3, <1>5, <2>2 DEF Counts
  <1>7. ASSUME NEW n \in 1..b
        PROVE  /\ h[a + n] = IF IsEnd(t[n], type)
                             THEN Append(h[a + (n - 1)], t[n].msg.id)
                             ELSE h[a + (n - 1)]
               /\ g[n] = IF IsEnd(t[n], type) THEN Append(g[n - 1], t[n].msg.id)
                                              ELSE g[n - 1]
    <2>1. a + n \in 1..(a + b) /\ ~(a + n <= a) /\ (a + n) - a = n
          /\ (a + n) - 1 = a + (n - 1)
      BY <1>1
    <2>2. c[a + n] = t[n] /\ a + n \in 1..Len(c)
      BY <1>2, <2>1
    <2> QED
      BY <1>4, <1>5, <2>1, <2>2 DEF Counts
  <1>8. h[0] = <<>> /\ f[0] = <<>> /\ g[0] = <<>>
    BY <1>3, <1>4, <1>5 DEF Counts
  <1> HIDE DEF a, b
  <1>9. h[a] = f[a]
    <2> DEFINE G == {n \in 0..a : h[n] = f[n]}
    <2>1. 0 \in G
      BY <1>1, <1>8
    <2>2. ASSUME NEW n \in 1..a, n - 1 \in G PROVE n \in G
      BY <1>1, <1>6, <2>2
    <2>3. \A n \in 0..a : n \in G
      <3> HIDE DEF G
      <3> QED
        BY <1>1, <2>1, <2>2, UpToAll
    <2>4. a \in 0..a
      BY <1>1
    <2> QED
      BY <2>3, <2>4
  <1>10. f[a] \in Seq(Nat)
    BY <1>1, <1>3
  <1>11. h[a + b] = f[a] \o g[b]
    <2> DEFINE G == {n \in 0..b : h[a + n] = f[a] \o g[n]}
    <2>1. 0 \in G
      <3>1. f[a] \o <<>> = f[a] /\ a + 0 = a /\ 0 \in 0..b
        BY <1>1, <1>10, ConcatEmptySeq
      <3> QED
        BY <1>8, <1>9, <3>1
    <2>2. ASSUME NEW n \in 1..b, n - 1 \in G PROVE n \in G
      <3> DEFINE p == f[a]
                 q == g[n - 1]
                 id == t[n].msg.id
      <3>1. h[a + (n - 1)] = p \o q /\ n \in 0..b /\ n - 1 \in 0..b
        <4>1. h[a + (n - 1)] = f[a] \o g[n - 1] /\ n - 1 \in 0..b
          BY <2>2
        <4> QED
          BY <1>1, <4>1
      <3>2. p \in Seq(Nat) /\ q \in Seq(Nat) /\ id \in Nat
        <4>1. t[n] \in Unit
          BY ElementOfSeq DEF b
        <4> QED
          BY <1>4, <1>10, <3>1, <4>1 DEF Unit, Msg
      <3>3. IsEnd(t[n], type) => h[a + n] = Append(p \o q, id)
                                 /\ g[n] = Append(q, id)
        BY <1>7, <3>1
      <3>4. ~IsEnd(t[n], type) => h[a + n] = p \o q /\ g[n] = q
        BY <1>7, <3>1
      <3> HIDE DEF p, q, id
      <3>5. Append(p \o q, id) = p \o Append(q, id)
        <4>1. p \o q \in Seq(Nat) /\ <<id>> \in Seq(Nat)
          BY <3>2, ConcatProperties
        <4>2. Append(p \o q, id) = (p \o q) \o <<id>>
          BY <3>2, <4>1, AppendIsConcat
        <4>3. Append(q, id) = q \o <<id>>
          BY <3>2, AppendIsConcat
        <4>4. (p \o q) \o <<id>> = p \o (q \o <<id>>)
          <5> DEFINE e == <<id>>
          <5>1. e \in Seq(Nat)
            BY <4>1
          <5> HIDE DEF e
          <5>2. (p \o q) \o e = p \o (q \o e)
            BY <3>2, <5>1, ConcatAssociative
          <5> QED
            BY <5>2 DEF e
        <4> QED
          BY <4>2, <4>3, <4>4
      <3>6. h[a + n] = p \o g[n]
        BY <3>3, <3>4, <3>5
      <3> QED
        BY <3>1, <3>6 DEF p
    <2>3. \A n \in 0..b : n \in G
      <3> HIDE DEF G
      <3> QED
        BY <1>1, <2>1, <2>2, UpToAll
    <2>4. b \in 0..b
      BY <1>1
    <2> QED
      BY <2>3, <2>4
  <1> QED
    BY <1>2, <1>3, <1>4, <1>5, <1>10, <1>11 DEF a, b, c

\* A message is counted once, at its end.
IdOf(m, type) == IF m.type = type THEN <<m.id>> ELSE <<>>

LEMMA IdsOfUnits ==
    ASSUME NEW m \in Msg, NEW type
    PROVE  IdsOf(UnitsOf(m), type) = IdOf(m, type)
  <1> DEFINE s == UnitsOf(m)
             n == m.size
  <1>1. n \in Nat /\ n >= 1 /\ m.id \in Nat
    BY PipesAssumption DEF PipesAssumption, Msg, Size
  <1>2. s \in Seq(Unit) /\ Len(s) = n
    <2>1. Msg \in SUBSET Msg
      OBVIOUS
    <2> QED
      BY <2>1, UnitsOfChained DEF Unit
  <1>3. \A j \in 1..n : s[j].msg = m /\ s[j].k = j
    BY DEF UnitsOf
  <1> HIDE DEF s, n
  <1>4. PICK f : Counts(f, s, type) /\ IdsOf(s, type) = f[n]
    BY <1>2, IdsCounted
  <1>5. f[0] = <<>>
    BY <1>4 DEF Counts
  <1>6. ASSUME NEW j \in 1..n
        PROVE  f[j] = IF m.type = type /\ j = n THEN Append(f[j - 1], m.id)
                                                ELSE f[j - 1]
    BY <1>2, <1>3, <1>4 DEF Counts, IsEnd, n
  <1>7. f[n - 1] = <<>>
    <2> DEFINE G == {j \in 0..(n - 1) : f[j] = <<>>}
               l == n - 1
    <2>1. 0 \in G
      BY <1>1, <1>5
    <2>2. ASSUME NEW j \in 1..(n - 1), j - 1 \in G PROVE j \in G
      <3>1. j \in 1..n /\ j # n /\ j \in 0..(n - 1) /\ f[j - 1] = <<>>
        BY <1>1, <2>2
      <3> QED
        BY <1>6, <3>1
    <2>3. l \in Nat /\ l \in 0..l
      BY <1>1
    <2>4. \A j \in 0..l : j \in G
      <3>1. \A j \in 1..l : j - 1 \in G => j \in G
        BY <2>2
      <3> HIDE DEF G, l
      <3> QED
        BY <2>1, <2>3, <3>1, UpToAll
    <2> QED
      BY <2>3, <2>4
  <1>8. n \in 1..n
    BY <1>1
  <1>9. Append(<<>>, m.id) = <<m.id>>
    <2>1. <<>> \in Seq(Nat)
      BY EmptySeq
    <2>2. Append(<<>>, m.id) = <<>> \o <<m.id>> /\ <<m.id>> \in Seq(Nat)
      BY <1>1, <2>1, AppendIsConcat
    <2> QED
      BY <2>2, ConcatEmptySeq
  <1>10. IdsOf(s, type) = IF m.type = type THEN <<m.id>> ELSE <<>>
    BY <1>4, <1>6, <1>7, <1>8, <1>9
  <1> QED
    BY <1>10 DEF s, IdOf

\* The message at the start of a stream, and what is behind it.
LEMMA FirstIsWhole ==
    ASSUME NEW s \in Seq(Unit), Chained(s), s # <<>>,
           NEW m, m = s[1].msg, m.size <= Len(s)
    PROVE  /\ m \in Msg
           /\ UnitsOf(m) \in Seq(Unit) /\ Rest(s, m.size) \in Seq(Unit)
           /\ UnitsOf(m) \o Rest(s, m.size) = s
  <1> DEFINE n == m.size
             f == Front(s, n)
             r == Rest(s, n)
             u == UnitsOf(m)
  <1>1. Len(s) \in Nat /\ Len(s) >= 1 /\ s[1] \in Unit
    BY LenProperties, EmptySeq, ElementOfSeq
  <1>2. m \in Msg /\ n \in Nat /\ n <= Len(s) /\ n \in 0..Len(s)
    BY <1>1, UnitSizes
  <1>3. /\ f \in Seq(Unit) /\ Len(f) = n
        /\ \A j \in 1..n : f[j] = s[j]
        /\ r \in Seq(Unit) /\ f \o r = s
    <2> HIDE DEF n
    <2> QED
      BY <1>2, CutProperties
  <1>4. u \in Seq(Unit) /\ Len(u) = n
    <2>1. Msg \in SUBSET Msg
      OBVIOUS
    <2> QED
      BY <1>2, <2>1, UnitsOfChained DEF Unit
  <1>5. ASSUME NEW j \in 1..n PROVE f[j] = u[j]
    <2>1. j \in 1..Len(s) /\ j <= s[1].msg.size
      BY <1>1, <1>2
    <2>2. s[j].msg = m /\ s[j].k = j
      BY <2>1, MessageAtStart
    <2>3. s[j] \in Unit
      BY <2>1, ElementOfSeq
    <2>4. s[j] = [msg |-> m, k |-> j]
      BY <2>2, <2>3 DEF Unit
    <2>5. u[j] = [msg |-> m, k |-> j]
      BY DEF UnitsOf
    <2>6. f[j] = s[j]
      BY <1>3
    <2> QED
      BY <2>4, <2>5, <2>6
  <1>6. f = u
    <2> HIDE DEF f, u, n
    <2> QED
      BY <1>3, <1>4, <1>5, SeqEqual
  <1> QED
    BY <1>2, <1>3, <1>4, <1>6

\* The identities in a stream whose first message leaves it.
LEMMA IdsWithoutFirst ==
    ASSUME NEW s \in Seq(Unit), Chained(s), s # <<>>,
           NEW m, m = s[1].msg, m.size <= Len(s),
           NEW w, w = Rest(s, m.size), NEW type
    PROVE  /\ IdsOf(s, type) = IdOf(m, type) \o IdsOf(w, type)
           /\ IdsOf(w, type) \in Seq(Nat)
  <1> DEFINE f == UnitsOf(m)
  <1>1. /\ m \in Msg /\ f \in Seq(Unit) /\ w \in Seq(Unit)
        /\ f \o w = s
    BY FirstIsWhole
  <1>2. IdsOf(f, type) = IdOf(m, type)
    BY <1>1, IdsOfUnits
  <1> HIDE DEF f
  <1>3. IdsOf(f \o w, type) = IdsOf(f, type) \o IdsOf(w, type)
    BY <1>1, IdsOfConcat
  <1>4. IdsOf(w, type) \in Seq(Nat)
    BY <1>1, IdsOfConcat
  <1> QED
    BY <1>1, <1>2, <1>3, <1>4
=============================================================================
