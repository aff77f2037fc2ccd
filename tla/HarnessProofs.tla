---------------------------- MODULE HarnessProofs ----------------------------
(***************************************************************************)
(* Harness, for every suite of tests, capacity of the buffers and pipes,   *)
(* deadline and program under test: type correctness, the framing of the   *)
(* streams, what a passed test is worth, and why a test for a hub fails.   *)
(***************************************************************************)
EXTENDS TestHub, StreamProofs, FiniteSetTheorems

(***************************************************************************)
(* The inductive invariant.  What is sent to the program are messages that *)
(* it has a handler for.                                                   *)
(***************************************************************************)
Known == {m \in Msg : m.type \in DOMAIN Reply}
KnownUnit == [msg : Known, k : Nat]

Inbound == (inbuf \o toChild) \o unsent
Outbound == (child_buf \o fromChild) \o pending

Result == {0, 1, 4}
Waiting == {"expect", "silence"}
Between == {"meta", "done"}

Scalars ==
    /\ suite \in Suites /\ test \in Nat /\ test >= 1 /\ test <= Len(suite)
    /\ cmd \in Nat /\ cmd >= 1 /\ fresh \in BOOLEAN
    /\ pc \in {"meta", "macs", "run", "send", "expect", "silence", "cleanup",
               "done", "exited"}
    /\ child \in {"alive", "dead"}
    /\ left \in -1..WAIT
    /\ ret \in Result /\ results \in Seq(Result)
    /\ pc \notin Between =>
         attempts \in 0..Running.ifcs /\ all \subseteq 1..Running.ifcs

\* Both streams as sequences of units.
Streams ==
    /\ inbuf \in Seq(KnownUnit) /\ toChild \in Seq(KnownUnit)
    /\ unsent \in Seq(KnownUnit)
    /\ child_buf \in Seq(Unit) /\ fromChild \in Seq(Unit) /\ pending \in Seq(Unit)
    /\ Len(toChild) <= PIPE_CAP /\ Len(fromChild) <= PIPE_CAP
    /\ Len(child_buf) <= CHILD_BUF /\ Len(inbuf) <= BUF_SIZE

\* Between two tests no program runs and the pipes are closed; only
\* child_buf keeps what it held.
Idle ==
    /\ pc \in Between => child = "dead"
    /\ pc \in Between \cup {"macs"} => inbuf = <<>> /\ toChild = <<>>
    /\ pc \in Between => fromChild = <<>> /\ pending = <<>>
    /\ pc \notin {"send", "exited"} => unsent = <<>>
    /\ test = 1 => fresh /\ (pc = "meta" => child_buf = <<>>)

InFramed == Chained(Inbound) /\ Whole(Inbound)

\* The last message of a program that was killed may be cut off.
OutFramed ==
    fresh => /\ Chained(Outbound)
             /\ pc \notin Between => Whole(Outbound)

IInv == Scalars /\ Streams /\ Idle /\ InFramed /\ OutFramed
-----------------------------------------------------------------------------
(***************************************************************************)
(* A stream in three parts, shortened at its start, or cut off.            *)
(***************************************************************************)
LEMMA RestOfUnits ==
    ASSUME NEW s \in Seq(Unit), NEW n \in 0..Len(s)
    PROVE  Rest(s, n) \in Seq(Unit) /\ Len(Rest(s, n)) = Len(s) - n
  BY CutProperties

LEMMA UnitsAssociative ==
    \A u, v, w \in Seq(Unit) : (u \o v) \o w = u \o (v \o w)
  <1> TAKE u, v, w \in Seq(Unit)
  <1> QED
    BY ConcatAssociative

LEMMA NaturalsAssociative ==
    \A u, v, w \in Seq(Nat) : (u \o v) \o w = u \o (v \o w)
  <1> TAKE u, v, w \in Seq(Nat)
  <1> QED
    BY ConcatAssociative

\* The message at the start of the first part is the first of the stream.
Starts(a, b, c, o, n) ==
    /\ o \in Seq(Unit) /\ o # <<>> /\ o[1] = a[1] /\ n <= Len(o)
    /\ (Rest(a, n) \o b) \o c = Rest(o, n)
    /\ n \in 0..Len(a)

LEMMA FrontIsFirst ==
    ASSUME NEW a \in Seq(Unit), NEW b \in Seq(Unit), NEW c \in Seq(Unit), Complete(a),
           NEW o, o = (a \o b) \o c, NEW n, n = FirstOf(a).size
    PROVE  Starts(a, b, c, o, n)
  <1> DEFINE r == Rest(a, n)
             t == b \o c
             p == a \o t
  <1>1. Len(a) \in Nat /\ Len(a) >= 1
    BY LenProperties, PipesAssumption DEF PipesAssumption, Complete
  <1>2. a[1] \in Unit
    BY <1>1, ElementOfSeq
  <1>3. n \in 0..Len(a)
    <2>1. n \in Nat
      BY <1>2 DEF FirstOf, Unit, Msg, Size
    <2> QED
      BY <1>1, <2>1 DEF Complete, FirstOf
  <1>4. r \in Seq(Unit)
    BY <1>3, RestOfUnits
  <1>5. t \in Seq(Unit)
    BY ConcatProperties
  <1>6. r \o t = Rest(p, n)
    <2> HIDE DEF t
    <2> QED
      BY <1>3, <1>5, DropOfConcat
  <1>7. \A u, v, w \in Seq(Unit) : (u \o v) \o w = u \o (v \o w)
    BY UnitsAssociative
  <1>8. o = p
    BY <1>7, Zenon
  <1>9. (r \o b) \o c = r \o t
    <2> HIDE DEF r
    <2> QED
      BY <1>4, <1>7, Zenon
  <1>10. a # <<>>
    BY <1>1, EmptySeq
  <1>11. p \in Seq(Unit) /\ p # <<>> /\ p[1] = a[1] /\ Len(p) >= Len(a) /\ Len(p) \in Nat
    <2> HIDE DEF t
    <2> QED
      BY <1>1, <1>5, <1>10, FirstOfConcat, ConcatProperties, LenProperties
  <1> HIDE DEF p, t, r
  <1>12. n <= Len(p)
    BY <1>1, <1>3, <1>11
  <1> QED
    BY <1>3, <1>6, <1>8, <1>9, <1>11, <1>12 DEF r, Starts

\* It leaves the stream.
LEMMA FrontLeaves ==
    ASSUME NEW M \in SUBSET Msg,
           NEW a \in Seq([msg : M, k : Nat]), NEW b \in Seq(Unit), NEW c \in Seq(Unit),
           Complete(a)
    PROVE  /\ FirstOf(a) \in M
           /\ Rest(a, FirstOf(a).size) \in Seq([msg : M, k : Nat])
           /\ Len(Rest(a, FirstOf(a).size)) <= Len(a)
           /\ Chained((a \o b) \o c) /\ Whole((a \o b) \o c)
              => /\ Chained((Rest(a, FirstOf(a).size) \o b) \o c)
                 /\ Whole((Rest(a, FirstOf(a).size) \o b) \o c)
  <1> DEFINE S == [msg : M, k : Nat]
             n == FirstOf(a).size
             r == Rest(a, n)
             o == (a \o b) \o c
  <1>1. a \in Seq(Unit) /\ Len(a) \in Nat /\ Len(a) >= 1
    <2>1. S \subseteq Unit
      BY DEF Unit
    <2>2. a \in Seq(Unit)
      <3> HIDE DEF S
      <3>1. a \in Seq(S)
        BY DEF S
      <3> QED
        BY <2>1, <3>1, SeqMonotonic
    <2> QED
      BY <2>2, LenProperties, PipesAssumption DEF PipesAssumption, Complete
  <1>2. FirstOf(a) \in M
    <2>1. a \in Seq(S) /\ 1 \in 1..Len(a)
      BY <1>1
    <2>2. a[1] \in S
      <3> HIDE DEF S
      <3> QED
        BY <2>1, ElementOfSeq
    <2> QED
      BY <2>2 DEF FirstOf
  <1>3. /\ o \in Seq(Unit) /\ o # <<>> /\ o[1] = a[1] /\ n <= Len(o)
        /\ (r \o b) \o c = Rest(o, n)
        /\ n \in 0..Len(a)
    <2>1. Starts(a, b, c, o, n)
      BY <1>1, FrontIsFirst
    <2> QED
      BY <2>1 DEF Starts
  <1>4. r \in Seq(S) /\ Len(r) = Len(a) - n
    <2>1. a \in Seq(S)
      OBVIOUS
    <2> HIDE DEF S, n
    <2> QED
      BY <1>3, <2>1, CutProperties
  <1>5. n = o[1].msg.size
    BY <1>3 DEF FirstOf
  <1> HIDE DEF n, o
  <1>6. Len(r) <= Len(a)
    <2> HIDE DEF r
    <2> QED
      BY <1>1, <1>3, <1>4
  <1>7. ASSUME Chained(o), Whole(o)
        PROVE  Chained(Rest(o, n)) /\ Whole(Rest(o, n))
    BY <1>3, <1>5, <1>7, DropMessage
  <1>8. Chained(o) /\ Whole(o) => Chained((r \o b) \o c) /\ Whole((r \o b) \o c)
    BY <1>3, <1>7
  <1> QED
    BY <1>2, <1>4, <1>6, <1>8 DEF n, o

\* What was cut off at its end is still messages, back to back.
LEMMA ChainedPrefix ==
    ASSUME NEW s \in Seq(Unit), NEW t \in Seq(Unit), Chained(s \o t)
    PROVE  Chained(s)
  <1> DEFINE c == s \o t
  <1>1. Len(s) \in Nat /\ Len(t) \in Nat
    BY LenProperties
  <1>2. /\ Len(c) = Len(s) + Len(t)
        /\ \A j \in 1..(Len(s) + Len(t)) :
              c[j] = IF j <= Len(s) THEN s[j] ELSE t[j - Len(s)]
    BY ConcatProperties
  <1>3. s # <<>> => c # <<>> /\ c[1] = s[1]
    BY FirstOfConcat
  <1>4. Chained(c)
    OBVIOUS
  <1> HIDE DEF c
  <1>5. ASSUME NEW n \in 1..(Len(s) - 1) PROVE Follows(s[n], s[n + 1])
    <2>1. /\ n \in 1..(Len(c) - 1) /\ n <= Len(s) /\ n + 1 <= Len(s)
          /\ n \in 1..(Len(s) + Len(t)) /\ n + 1 \in 1..(Len(s) + Len(t))
      BY <1>1, <1>2
    <2>2. c[n] = s[n] /\ c[n + 1] = s[n + 1]
      BY <1>2, <2>1
    <2>3. Follows(c[n], c[n + 1])
      BY <1>4, <2>1 DEF Chained
    <2> QED
      BY <2>2, <2>3
  <1> QED
    BY <1>3, <1>4, <1>5 DEF Chained
-----------------------------------------------------------------------------
(***************************************************************************)
(* Sequences put one behind the other: what TypesOf and Frames compute.    *)
(***************************************************************************)
Parts == Seq(Seq(Nat))
Flat(e) == Sequence!FlattenSeq(e)

\* f[n] are the first n parts of e.
Gathers(f, e) ==
    /\ f[0] = <<>>
    /\ \A n \in 1..Len(e) : f[n] = f[n - 1] \o e[n]

LEMMA GatherExists ==
    ASSUME NEW e \in Parts
    PROVE  \E f : f \in [0..Len(e) -> Seq(Nat)] /\ Gathers(f, e)
  <1> DEFINE l == Len(e)
             S == Seq(Nat)
             x == <<>>
             step == [n \in 1..l |-> [q \in S |-> q \o e[n]]]
  <1>1. l \in Nat /\ x \in S /\ \A n \in 1..l : e[n] \in S
    BY LenProperties, EmptySeq, ElementOfSeq DEF Parts
  <1>2. step \in [1..l -> [S -> S]]
    <2>1. ASSUME NEW n \in 1..l, NEW q \in S PROVE q \o e[n] \in S
      <3>1. e[n] \in S
        BY <1>1
      <3> QED
        BY <3>1, ConcatProperties
    <2> HIDE DEF l, S
    <2> QED
      BY <2>1
  <1>3. \A n \in 1..l : \A q \in S : step[n][q] = q \o e[n]
    <2> HIDE DEF l, S
    <2> QED
      OBVIOUS
  <1>4. PICK f : Recursion(f, l, S, x, step)
    <2> HIDE DEF l, S, step, x
    <2> QED
      BY <1>1, <1>2, RecursionExists
  <1>5. /\ f \in [0..l -> S] /\ f[0] = x
        /\ \A n \in 1..l : f[n] = step[n][f[n - 1]]
    BY <1>4 DEF Recursion
  <1>6. ASSUME NEW n \in 1..l PROVE f[n] = f[n - 1] \o e[n]
    <2>1. n - 1 \in 0..l
      BY <1>1
    <2>2. f[n - 1] \in S
      BY <1>5, <2>1
    <2> HIDE DEF l, S, step, x
    <2> QED
      BY <1>3, <1>5, <2>2
  <1> QED
    BY <1>5, <1>6 DEF Gathers

LEMMA Gathered ==
    ASSUME NEW e \in Parts
    PROVE  \E f : /\ Gathers(f, e) /\ Flat(e) = f[Len(e)]
                  /\ \A n \in 0..Len(e) : f[n] \in Seq(Nat)
  <1> DEFINE l == Len(e)
             S == Seq(Nat)
             Eq(g) == g = [i \in 1..l |-> IF i = 1 THEN e[i] ELSE g[i - 1] \o e[i]]
  <1>1. /\ l \in Nat /\ <<>> \in S /\ (l = 0 => e = <<>>)
        /\ \A n \in 1..l : e[n] \in S
    BY LenProperties, EmptySeq, ElementOfSeq DEF Parts
  <1>2. PICK f : f \in [0..l -> S] /\ Gathers(f, e)
    BY GatherExists
  <1>3. f[0] = <<>> /\ \A n \in 1..l : f[n] = f[n - 1] \o e[n]
    BY <1>2 DEF Gathers
  <1>4. CASE l = 0
    <2>1. Flat(e) = <<>> /\ f[l] = <<>>
      BY <1>1, <1>3, <1>4 DEF Flat, Sequence!FlattenSeq
    <2> QED
      BY <1>2, <2>1
  <1>5. CASE l # 0
    <2>1. \E g : Eq(g)
      <3> DEFINE g == [i \in 1..l |-> f[i]]
      <3>1. ASSUME NEW i \in 1..l
            PROVE  f[i] = IF i = 1 THEN e[i] ELSE g[i - 1] \o e[i]
        <4>1. CASE i = 1
          <5>1. i - 1 = 0 /\ e[i] \in S
            BY <1>1, <4>1
          <5>2. f[i] = <<>> \o e[i]
            BY <1>3, <5>1
          <5>3. f[i] = e[i]
            BY <5>1, <5>2, ConcatEmptySeq
          <5> QED
            BY <4>1, <5>3
        <4>2. CASE i # 1
          <5>1. i - 1 \in 1..l
            BY <1>1, <4>2
          <5>2. g[i - 1] = f[i - 1]
            BY <5>1
          <5> QED
            BY <1>3, <4>2, <5>2
        <4> QED
          BY <4>1, <4>2
      <3>2. Eq(g)
        BY <3>1
      <3> QED
        BY <3>2
    <2> DEFINE g == CHOOSE h : Eq(h)
               k == [n \in 0..l |-> IF n = 0 THEN <<>> ELSE g[n]]
    <2>2. Flat(e) = g[l]
      BY <1>5 DEF Flat, Sequence!FlattenSeq
    <2>3. Eq(g)
      <3> HIDE DEF Eq
      <3> QED
        BY <2>1
    <2> HIDE DEF g
    <2>4. k[0] = <<>> /\ \A n \in 1..l : k[n] = g[n]
      BY <1>1
    <2> HIDE DEF k
    <2>5. ASSUME NEW n \in 1..l PROVE k[n] = k[n - 1] \o e[n]
      <3>1. e[n] \in S
        BY <1>1
      <3>2. CASE n = 1
        <4>1. k[n] = e[n] /\ n - 1 = 0 /\ k[n - 1] = <<>>
          BY <2>3, <2>4, <3>2
        <4>2. <<>> \o e[n] = e[n]
          BY <3>1, ConcatEmptySeq
        <4> QED
          BY <4>1, <4>2
      <3>3. CASE n # 1
        <4>1. n - 1 \in 1..l
          BY <1>1, <3>3
        <4>2. k[n - 1] = g[n - 1] /\ k[n] = g[n]
          BY <2>4, <4>1
        <4> QED
          BY <2>3, <3>3, <4>2
      <3> QED
        BY <3>2, <3>3
    <2>6. \A n \in 0..l : k[n] = f[n]
      <3> DEFINE G == {n \in 0..l : k[n] = f[n]}
      <3>1. 0 \in G
        BY <1>1, <1>3, <2>4
      <3>2. ASSUME NEW n \in 1..l, n - 1 \in G PROVE n \in G
        <4>1. k[n - 1] = f[n - 1] /\ n \in 0..l
          BY <1>1, <3>2
        <4> QED
          BY <1>3, <2>5, <4>1
      <3>3. \A n \in 0..l : n \in G
        <4> HIDE DEF G, l
        <4> QED
          BY <1>1, <3>1, <3>2, UpToAll
      <3> QED
        BY <3>3
    <2>7. l \in 0..l /\ l \in 1..l
      BY <1>1, <1>5
    <2>8. Flat(e) = f[l]
      BY <2>2, <2>4, <2>6, <2>7
    <2> QED
      BY <1>2, <2>8
  <1> QED
    BY <1>4, <1>5

LEMMA FlatOfConcat ==
    ASSUME NEW p \in Parts, NEW q \in Parts
    PROVE  Flat(p \o q) = Flat(p) \o Flat(q) /\ Flat(p) \in Seq(Nat)
  <1> DEFINE c == p \o q
             a == Len(p)
             b == Len(q)
  <1>1. a \in Nat /\ b \in Nat
    BY LenProperties DEF Parts
  <1>2. /\ c \in Parts /\ Len(c) = a + b
        /\ \A j \in 1..(a + b) : c[j] = IF j <= a THEN p[j] ELSE q[j - a]
    BY ConcatProperties DEF Parts
  <1>3. PICK f : /\ Gathers(f, p) /\ Flat(p) = f[a]
                 /\ \A n \in 0..a : f[n] \in Seq(Nat)
    BY Gathered
  <1>4. PICK g : /\ Gathers(g, q) /\ Flat(q) = g[b]
                 /\ \A n \in 0..b : g[n] \in Seq(Nat)
    BY Gathered
  <1> HIDE DEF c
  <1>5. PICK h : Gathers(h, c) /\ Flat(c) = h[Len(c)]
    BY <1>2, Gathered
  <1>6. ASSUME NEW n \in 1..a
        PROVE  h[n] = h[n - 1] \o p[n] /\ f[n] = f[n - 1] \o p[n]
    <2>1. n \in 1..(a + b) /\ n <= a
      BY <1>1
    <2>2. c[n] = p[n] /\ n \in 1..Len(c)
      BY <1>2, <2>1
    <2> QED
      BY <1>3, <1>5, <2>2 DEF Gathers
  <1>7. ASSUME NEW n \in 1..b
        PROVE  h[a + n] = h[a + (n - 1)] \o q[n] /\ g[n] = g[n - 1] \o q[n]
    <2>1. a + n \in 1..(a + b) /\ ~(a + n <= a) /\ (a + n) - a = n
          /\ (a + n) - 1 = a + (n - 1)
      BY <1>1
    <2>2. c[a + n] = q[n] /\ a + n \in 1..Len(c)
      BY <1>2, <2>1
    <2> QED
      BY <1>4, <1>5, <2>1, <2>2 DEF Gathers
  <1>8. h[0] = <<>> /\ f[0] = <<>> /\ g[0] = <<>>
    BY <1>3, <1>4, <1>5 DEF Gathers
  <1>9. \A n \in 1..b : q[n] \in Seq(Nat)
    BY ElementOfSeq DEF Parts
  <1> HIDE DEF a, b
  <1>10. h[a] = f[a]
    <2> DEFINE G == {n \in 0..a : h[n] = f[n]}
    <2>1. 0 \in G
      BY <1>1, <1>8
    <2>2. ASSUME NEW n \in 1..a, n - 1 \in G PROVE n \in G
      <3>1. h[n - 1] = f[n - 1] /\ n \in 0..a
        BY <1>1, <2>2
      <3>2. h[n] = f[n]
        BY <1>6, <3>1
      <3> QED
        BY <3>1, <3>2
    <2>3. \A n \in 0..a : n \in G
      <3> HIDE DEF G
      <3> QED
        BY <1>1, <2>1, <2>2, UpToAll
    <2>4. a \in 0..a
      BY <1>1
    <2> QED
      BY <2>3, <2>4
  <1>11. f[a] \in Seq(Nat)
    BY <1>1, <1>3
  <1>12. h[a + b] = f[a] \o g[b]
    <2> DEFINE G == {n \in 0..b : h[a + n] = f[a] \o g[n]}
    <2>1. 0 \in G
      <3>1. f[a] \o <<>> = f[a] /\ a + 0 = a /\ 0 \in 0..b
        BY <1>1, <1>11, ConcatEmptySeq
      <3> QED
        BY <1>8, <1>10, <3>1
    <2>2. ASSUME NEW n \in 1..b, n - 1 \in G PROVE n \in G
      <3> DEFINE u == f[a]
                 v == g[n - 1]
                 w == q[n]
      <3>1. h[a + (n - 1)] = u \o v /\ n \in 0..b /\ n - 1 \in 0..b
        <4>1. h[a + (n - 1)] = f[a] \o g[n - 1] /\ n - 1 \in 0..b
          BY <2>2
        <4> QED
          BY <1>1, <4>1
      <3>2. u \in Seq(Nat) /\ v \in Seq(Nat) /\ w \in Seq(Nat)
        BY <1>4, <1>9, <1>11, <3>1
      <3>3. h[a + n] = (u \o v) \o w /\ g[n] = v \o w
        BY <1>7, <3>1
      <3> HIDE DEF u, v, w
      <3>4. (u \o v) \o w = u \o (v \o w)
        BY <3>2, ConcatAssociative
      <3>5. h[a + n] = u \o g[n]
        BY <3>3, <3>4
      <3> QED
        BY <3>1, <3>5 DEF u
    <2>3. \A n \in 0..b : n \in G
      <3> HIDE DEF G
      <3> QED
        BY <1>1, <2>1, <2>2, UpToAll
    <2>4. b \in 0..b
      BY <1>1
    <2> QED
      BY <2>3, <2>4
  <1> QED
    BY <1>2, <1>3, <1>4, <1>5, <1>11, <1>12 DEF a, b, c

LEMMA ConcatAt ==
    ASSUME NEW S, NEW p \in Seq(S), NEW q \in Seq(S),
           NEW a, a = Len(p), NEW b, b = Len(q)
    PROVE  /\ p \o q \in Seq(S) /\ Len(p \o q) = a + b /\ a \in Nat /\ b \in Nat
           /\ \A j \in 1..(a + b) : (p \o q)[j] = IF j <= a THEN p[j] ELSE q[j - a]
  <1>1. Len(p) \in Nat /\ Len(q) \in Nat
    BY LenProperties
  <1>2. /\ p \o q \in Seq(S) /\ Len(p \o q) = Len(p) + Len(q)
        /\ \A j \in 1..(Len(p) + Len(q)) :
             (p \o q)[j] = IF j <= Len(p) THEN p[j] ELSE q[j - Len(p)]
    BY ConcatProperties
  <1> QED
    BY <1>1, <1>2

\* Only the last part is not empty.
LEMMA FlatOfLast ==
    ASSUME NEW e \in Parts, NEW l \in Nat, l = Len(e), l >= 1,
           \A n \in 1..(l - 1) : e[n] = <<>>
    PROVE  Flat(e) = e[l]
  <1>1. PICK f : Gathers(f, e) /\ Flat(e) = f[l]
    BY Gathered
  <1>2. f[0] = <<>> /\ \A n \in 1..l : f[n] = f[n - 1] \o e[n]
    BY <1>1 DEF Gathers
  <1>3. f[l - 1] = <<>>
    <2> DEFINE k == l - 1
               G == {n \in 0..k : f[n] = <<>>}
    <2>1. k \in Nat /\ k \in 0..k
      OBVIOUS
    <2>2. 0 \in G
      BY <1>2, <2>1
    <2>3. ASSUME NEW n \in 1..k, n - 1 \in G PROVE n \in G
      <3>1. n \in 1..l /\ n \in 0..k /\ f[n - 1] = <<>> /\ e[n] = <<>>
        BY <2>3
      <3>2. <<>> \in Seq(Nat)
        BY EmptySeq
      <3>3. <<>> \o <<>> = <<>>
        BY <3>2, ConcatEmptySeq
      <3> QED
        BY <1>2, <3>1, <3>3
    <2>4. \A n \in 0..k : n \in G
      <3> HIDE DEF G, k
      <3> QED
        BY <2>1, <2>2, <2>3, UpToAll
    <2> QED
      BY <2>1, <2>4
  <1>4. l \in 1..l /\ e[l] \in Seq(Nat)
    <2>1. l \in 1..Len(e)
      OBVIOUS
    <2> QED
      BY <2>1, ElementOfSeq DEF Parts
  <1> QED
    BY <1>1, <1>2, <1>3, <1>4, ConcatEmptySeq
-----------------------------------------------------------------------------
(***************************************************************************)
(* The types of the messages in a stream, and those that are frames.       *)
(***************************************************************************)
TypeOfUnit(u) == IF u.k = u.msg.size THEN <<u.msg.type>> ELSE <<>>
TypeOfFrame(t) == IF t = 0 THEN <<>> ELSE <<t>>

LEMMA OneNatural == \A n \in Nat : <<n>> \in Seq(Nat) /\ <<>> \in Seq(Nat)
  BY EmptySeq

\* A part for every element.
PartsOf(g, s) == [n \in 1..Len(s) |-> g[s[n]]]

LEMMA PartsOfSeq ==
    ASSUME NEW A, NEW g \in [A -> Seq(Nat)], NEW s \in Seq(A)
    PROVE  PartsOf(g, s) \in Parts /\ Len(PartsOf(g, s)) = Len(s)
  <1>1. Len(s) \in Nat /\ \A n \in 1..Len(s) : s[n] \in A
    BY LenProperties, ElementOfSeq
  <1>2. PartsOf(g, s) \in [1..Len(s) -> Seq(Nat)]
    BY <1>1 DEF PartsOf
  <1> QED
    BY <1>1, <1>2, FunctionIsSeq DEF Parts

LEMMA FlatOfParts ==
    ASSUME NEW A, NEW g \in [A -> Seq(Nat)], NEW s \in Seq(A), NEW t \in Seq(A)
    PROVE  /\ Flat(PartsOf(g, s \o t)) = Flat(PartsOf(g, s)) \o Flat(PartsOf(g, t))
           /\ Flat(PartsOf(g, s)) \in Seq(Nat)
  <1> DEFINE c == s \o t
             p == PartsOf(g, s)
             q == PartsOf(g, t)
             e == PartsOf(g, c)
             a == Len(s)
             b == Len(t)
             d == p \o q
  <1>1. /\ c \in Seq(A) /\ Len(c) = a + b /\ a \in Nat /\ b \in Nat
        /\ \A j \in 1..(a + b) : c[j] = IF j <= a THEN s[j] ELSE t[j - a]
    BY ConcatProperties, LenProperties
  <1> HIDE DEF c
  <1>2. p \in Parts /\ a = Len(p) /\ q \in Parts /\ b = Len(q)
        /\ e \in Parts /\ Len(e) = a + b
    BY <1>1, PartsOfSeq
  <1>3. /\ \A j \in 1..(a + b) : e[j] = g[c[j]]
        /\ \A j \in 1..a : p[j] = g[s[j]]
        /\ \A j \in 1..b : q[j] = g[t[j]]
    BY <1>1 DEF PartsOf
  <1>4. d = p \o q
    OBVIOUS
  <1> HIDE DEF p, q, e, a, b, d
  <1>5. p \in Seq(Seq(Nat)) /\ q \in Seq(Seq(Nat)) /\ a = Len(p) /\ b = Len(q)
    BY <1>2 DEF Parts
  <1>6. /\ p \o q \in Seq(Seq(Nat)) /\ Len(p \o q) = a + b
        /\ \A j \in 1..(a + b) : (p \o q)[j] = IF j <= a THEN p[j] ELSE q[j - a]
    BY <1>5, ConcatAt
  <1>7. ASSUME NEW j \in 1..(a + b) PROVE e[j] = d[j]
    <2>1. CASE j <= a
      <3>1. j \in 1..a
        BY <1>1, <2>1
      <3>2. c[j] = s[j] /\ (p \o q)[j] = p[j]
        BY <1>1, <1>6, <2>1
      <3>3. e[j] = g[c[j]] /\ p[j] = g[s[j]]
        BY <1>3, <3>1
      <3> QED
        BY <1>4, <3>2, <3>3, Zenon
    <2>2. CASE ~(j <= a)
      <3>1. j - a \in 1..b
        BY <1>1, <2>2
      <3>2. c[j] = t[j - a] /\ (p \o q)[j] = q[j - a]
        BY <1>1, <1>6, <2>2
      <3>3. e[j] = g[c[j]] /\ q[j - a] = g[t[j - a]]
        BY <1>3, <3>1
      <3> QED
        BY <1>4, <3>2, <3>3, Zenon
    <2> QED
      BY <2>1, <2>2
  <1>8. e = d
    BY <1>2, <1>4, <1>6, <1>7, SeqEqual DEF Parts
  <1>9. Flat(p \o q) = Flat(p) \o Flat(q) /\ Flat(p) \in Seq(Nat)
    BY <1>2, FlatOfConcat
  <1> QED
    BY <1>4, <1>8, <1>9 DEF c, e, p, q

LEMMA TypesOfConcat ==
    ASSUME NEW s \in Seq(Unit), NEW t \in Seq(Unit)
    PROVE  TypesOf(s \o t) = TypesOf(s) \o TypesOf(t) /\ TypesOf(s) \in Seq(Nat)
  <1> DEFINE g == [u \in Unit |-> TypeOfUnit(u)]
  <1>1. g \in [Unit -> Seq(Nat)]
    <2>1. ASSUME NEW u \in Unit PROVE TypeOfUnit(u) \in Seq(Nat)
      <3>1. u.msg.type \in Nat
        BY DEF Unit, Msg
      <3> QED
        BY <3>1, OneNatural DEF TypeOfUnit
    <2> QED
      BY <2>1
  <1>2. ASSUME NEW x \in Seq(Unit) PROVE TypesOf(x) = Flat(PartsOf(g, x))
    <2>1. DOMAIN x = 1..Len(x) /\ \A n \in 1..Len(x) : x[n] \in Unit
      BY LenProperties, ElementOfSeq
    <2>2. PartsOf(g, x) = [n \in DOMAIN x |-> TypeOfUnit(x[n])]
      BY <2>1 DEF PartsOf
    <2> QED
      BY <2>2 DEF TypesOf, Flat, TypeOfUnit
  <1>3. s \o t \in Seq(Unit)
    BY ConcatProperties
  <1> HIDE DEF g
  <1>4. /\ Flat(PartsOf(g, s \o t)) = Flat(PartsOf(g, s)) \o Flat(PartsOf(g, t))
        /\ Flat(PartsOf(g, s)) \in Seq(Nat)
    BY <1>1, FlatOfParts
  <1>5. TypesOf(s \o t) = Flat(PartsOf(g, s \o t))
    BY <1>2, <1>3
  <1> QED
    BY <1>2, <1>4, <1>5, Zenon

LEMMA TypesOfEmpty == TypesOf(<<>>) = <<>>
  <1> DEFINE e == <<>>
  <1>1. e \in Seq(Unit) /\ e \o e = e
    BY EmptySeq, ConcatEmptySeq
  <1>2. TypesOf(e \o e) = TypesOf(e) \o TypesOf(e) /\ TypesOf(e) \in Seq(Nat)
    <2> HIDE DEF e
    <2> QED
      BY <1>1, TypesOfConcat
  <1>3. TypesOf(e) = TypesOf(e) \o TypesOf(e)
    BY <1>1, <1>2
  <1> HIDE DEF e
  <1>4. TypesOf(e) = <<>>
    BY <1>2, <1>3, ConcatEqualIffEmpty
  <1> QED
    BY <1>4 DEF e

LEMMA TypesOfUnits ==
    ASSUME NEW m \in Msg
    PROVE  TypesOf(UnitsOf(m)) = <<m.type>>
  <1> DEFINE s == UnitsOf(m)
             l == m.size
             e == [n \in 1..l |-> TypeOfUnit(s[n])]
  <1>1. l \in Nat /\ l >= 1 /\ m.type \in Nat
    BY PipesAssumption DEF PipesAssumption, Msg, Size
  <1>2. \A j \in 1..l : s[j].msg = m /\ s[j].k = j
    BY DEF UnitsOf
  <1>3. DOMAIN s = 1..l
    BY DEF UnitsOf
  <1> HIDE DEF s
  <1>4. \A n \in 1..l : e[n] = IF n = l THEN <<m.type>> ELSE <<>>
    BY <1>2 DEF TypeOfUnit
  <1>5. e \in Parts /\ Len(e) = l
    <2>1. ASSUME NEW n \in 1..l PROVE e[n] \in Seq(Nat)
      BY <1>1, <1>4, OneNatural
    <2>2. e \in [1..l -> Seq(Nat)]
      BY <2>1
    <2> HIDE DEF e, l
    <2> QED
      BY <1>1, <2>2, FunctionIsSeq DEF Parts
  <1>6. TypesOf(s) = Flat(e)
    BY <1>3 DEF TypesOf, Flat, TypeOfUnit
  <1> HIDE DEF e, l
  <1>7. Flat(e) = e[l]
    <2>1. \A n \in 1..(l - 1) : e[n] = <<>>
      BY <1>1, <1>4
    <2> QED
      BY <1>1, <1>5, <2>1, FlatOfLast
  <1>8. e[l] = <<m.type>>
    BY <1>1, <1>4
  <1> QED
    BY <1>6, <1>7, <1>8 DEF s

\* The message at the start of the first part leaves the stream.
Leaves(m, o, w) ==
    /\ m \in Msg /\ o \in Seq(Unit) /\ w \in Seq(Unit)
    /\ TypesOf(o) = <<m.type>> \o TypesOf(w) /\ TypesOf(w) \in Seq(Nat)
    /\ o[1].msg = m /\ o # <<>>
    /\ \E n \in 0..Len(o) : w = Rest(o, n)

LEMMA WithoutFirst ==
    ASSUME NEW o \in Seq(Unit), Chained(o), o # <<>>,
           NEW m, m = o[1].msg, m.size <= Len(o),
           NEW w, w = Rest(o, m.size)
    PROVE  Leaves(m, o, w)
  <1> DEFINE f == UnitsOf(m)
  <1>1. /\ m \in Msg /\ f \in Seq(Unit) /\ w \in Seq(Unit)
        /\ f \o w = o
    BY FirstIsWhole
  <1>2. TypesOf(f) = <<m.type>> /\ m.size \in Nat
    BY <1>1, TypesOfUnits DEF Msg, Size
  <1> HIDE DEF f
  <1>3. TypesOf(f \o w) = TypesOf(f) \o TypesOf(w)
    BY <1>1, TypesOfConcat
  <1>4. TypesOf(w) \in Seq(Nat)
    BY <1>1, TypesOfConcat
  <1>5. m.size \in 0..Len(o)
    BY <1>2, LenProperties
  <1> QED
    BY <1>1, <1>2, <1>3, <1>4, <1>5 DEF Leaves

LEMMA FirstLeaves ==
    ASSUME NEW a \in Seq(Unit), NEW b \in Seq(Unit), NEW c \in Seq(Unit), Complete(a),
           NEW o, o = (a \o b) \o c, Chained(o), NEW m, m = FirstOf(a),
           NEW w, w = (Rest(a, m.size) \o b) \o c
    PROVE  Leaves(m, o, w)
  <1> DEFINE n == m.size
  <1>1. Starts(a, b, c, o, n)
    <2>1. n = FirstOf(a).size
      OBVIOUS
    <2> HIDE DEF n
    <2> QED
      BY <2>1, FrontIsFirst
  <1>2. /\ o \in Seq(Unit) /\ o # <<>> /\ o[1] = a[1] /\ m.size <= Len(o)
        /\ w = Rest(o, m.size)
    BY <1>1 DEF Starts
  <1>3. m = o[1].msg
    BY <1>2 DEF FirstOf
  <1> QED
    BY <1>2, <1>3, WithoutFirst

LEMMA FramesOfConcat ==
    ASSUME NEW s \in Seq(Nat), NEW t \in Seq(Nat)
    PROVE  Frames(s \o t) = Frames(s) \o Frames(t) /\ Frames(s) \in Seq(Nat)
  <1> DEFINE g == [n \in Nat |-> TypeOfFrame(n)]
  <1>1. g \in [Nat -> Seq(Nat)]
    BY OneNatural DEF TypeOfFrame
  <1>2. ASSUME NEW x \in Seq(Nat) PROVE Frames(x) = Flat(PartsOf(g, x))
    <2>1. DOMAIN x = 1..Len(x) /\ \A n \in 1..Len(x) : x[n] \in Nat
      BY LenProperties, ElementOfSeq
    <2>2. PartsOf(g, x) = [n \in DOMAIN x |-> TypeOfFrame(x[n])]
      BY <2>1 DEF PartsOf
    <2> QED
      BY <2>2 DEF Frames, Flat, TypeOfFrame
  <1>3. s \o t \in Seq(Nat)
    BY ConcatProperties
  <1> HIDE DEF g
  <1>4. /\ Flat(PartsOf(g, s \o t)) = Flat(PartsOf(g, s)) \o Flat(PartsOf(g, t))
        /\ Flat(PartsOf(g, s)) \in Seq(Nat)
    BY <1>1, FlatOfParts
  <1>5. Frames(s \o t) = Flat(PartsOf(g, s \o t))
    BY <1>2, <1>3
  <1> QED
    BY <1>2, <1>4, <1>5, Zenon

\* A frame, or a text.
LEMMA FramesOfOne ==
    ASSUME NEW t \in Nat PROVE Frames(<<t>>) = TypeOfFrame(t)
  <1> DEFINE o == <<t>>
             l == 1
             e == [n \in 1..l |-> TypeOfFrame(o[n])]
  <1>1. DOMAIN o = 1..l /\ o[1] = t /\ l \in Nat /\ l >= 1
    OBVIOUS
  <1>2. Frames(o) = Flat(e)
    BY <1>1 DEF Frames, Flat, TypeOfFrame
  <1>3. e[l] = TypeOfFrame(t) /\ e \in [1..l -> Seq(Nat)]
    BY <1>1, OneNatural DEF TypeOfFrame
  <1>4. \A n \in 1..(l - 1) : e[n] = <<>>
    BY <1>1
  <1> HIDE DEF e, l
  <1>5. e \in Parts /\ Len(e) = l
    BY <1>1, <1>3, FunctionIsSeq DEF Parts
  <1>6. Flat(e) = e[l]
    BY <1>1, <1>4, <1>5, FlatOfLast
  <1> QED
    BY <1>2, <1>3, <1>6 DEF o

LEMMA FramesOfAppend ==
    ASSUME NEW s \in Seq(Nat), NEW t \in Nat
    PROVE  /\ Frames(s \o <<t>>) = Frames(s) \o TypeOfFrame(t)
           /\ Frames(s) \in Seq(Nat)
  <1> DEFINE o == <<t>>
  <1>1. o \in Seq(Nat) /\ Frames(o) = TypeOfFrame(t)
    BY OneNatural, FramesOfOne
  <1> HIDE DEF o
  <1>2. Frames(s \o o) = Frames(s) \o Frames(o) /\ Frames(s) \in Seq(Nat)
    BY <1>1, FramesOfConcat
  <1> QED
    BY <1>1, <1>2 DEF o
-----------------------------------------------------------------------------
(***************************************************************************)
(* The frames that the commands of a test expect.                          *)
(***************************************************************************)
LEMMA DueRecursion ==
    ASSUME NEW cmds, NEW l \in Nat, l = Len(cmds),
           \A n \in 1..l : Expected(cmds[n]) \in Nat
    PROVE  /\ Due(cmds, 0) = 0
           /\ \A n \in 1..l : Due(cmds, n) = Due(cmds, n - 1) + Expected(cmds[n])
           /\ \A n \in 0..l : Due(cmds, n) \in Nat
  <1> DEFINE S == Nat
             x == 0
             step == [n \in 1..l |-> [q \in S |-> q + Expected(cmds[n])]]
             Eq(f) == f = [i \in 0..l |->
                             IF i = 0 THEN 0 ELSE f[i - 1] + Expected(cmds[i])]
  <1>1. step \in [1..l -> [S -> S]]
    OBVIOUS
  <1>2. \A n \in 1..l : \A q \in S : step[n][q] = q + Expected(cmds[n])
    OBVIOUS
  <1>3. PICK f : Recursion(f, l, S, x, step)
    <2>1. x \in S
      OBVIOUS
    <2> HIDE DEF S, x, step
    <2> QED
      BY <1>1, <2>1, RecursionExists
  <1>4. /\ f \in [0..l -> S] /\ f[0] = 0
        /\ \A n \in 1..l : f[n] = step[n][f[n - 1]]
    BY <1>3 DEF Recursion
  <1>5. ASSUME NEW i \in 0..l
        PROVE  f[i] = IF i = 0 THEN 0 ELSE f[i - 1] + Expected(cmds[i])
    <2>1. CASE i = 0
      BY <1>4, <2>1
    <2>2. CASE i # 0
      <3>1. i \in 1..l /\ i - 1 \in 0..l
        BY <2>2
      <3>2. f[i - 1] \in S
        BY <1>4, <3>1
      <3> HIDE DEF S, step
      <3>3. f[i] = f[i - 1] + Expected(cmds[i])
        BY <1>2, <1>4, <3>1, <3>2
      <3> QED
        BY <2>2, <3>3
    <2> QED
      BY <2>1, <2>2
  <1>6. Eq(f)
    <2>1. f = [i \in 0..l |-> f[i]]
      BY <1>4
    <2> QED
      BY <1>5, <2>1
  <1> DEFINE g == CHOOSE h : Eq(h)
  <1>7. Eq(g)
    <2> HIDE DEF Eq
    <2> QED
      BY <1>6
  <1>8. \A n : Due(cmds, n) = g[n]
    BY DEF Due
  <1> HIDE DEF g
  <1>9. g[0] = 0 /\ \A n \in 1..l : g[n] = g[n - 1] + Expected(cmds[n])
    BY <1>7
  <1>10. \A n \in 0..l : g[n] \in Nat
    <2> DEFINE G == {n \in 0..l : g[n] \in Nat}
    <2>1. 0 \in G
      BY <1>9
    <2>2. ASSUME NEW n \in 1..l, n - 1 \in G PROVE n \in G
      <3>1. g[n - 1] \in Nat /\ n \in 0..l
        BY <2>2
      <3>2. g[n] \in Nat
        BY <1>9, <3>1
      <3> QED
        BY <3>1, <3>2
    <2>3. \A n \in 0..l : n \in G
      <3> HIDE DEF G
      <3> QED
        BY <2>1, <2>2, UpToAll
    <2> QED
      BY <2>3
  <1> QED
    BY <1>8, <1>9, <1>10

-----------------------------------------------------------------------------
(***************************************************************************)
(* Constants, and the test that runs.                                      *)
(***************************************************************************)
LEMMA Constants ==
    /\ HDR \in Nat /\ HDR >= 1 /\ PIPE_CAP \in Nat /\ BUF_SIZE \in Nat
    /\ BUF_SIZE > HDR
    /\ FRAME \in Nat /\ FRAME \in Size /\ MACS \in Nat /\ MACS \in Size
    /\ MACS <= PIPE_CAP
    /\ CHILD_BUF \in Nat /\ WAIT \in Nat /\ 0 \in DOMAIN Reply
  BY PipesAssumption, LoopAssumption, HarnessAssumption
     DEF PipesAssumption, LoopAssumption, HarnessAssumption, Size

LEMMA KnownAreUnits == Seq(KnownUnit) \subseteq Seq(Unit)
  <1>1. KnownUnit \subseteq Unit
    BY DEF KnownUnit, Known, Unit
  <1> QED
    BY <1>1, SeqMonotonic

LEMMA RunningTest ==
    ASSUME Scalars
    PROVE  /\ test \in DOMAIN suite /\ Running.ifcs \in Nat
           /\ \A k \in 1..Len(Running.cmds) :
                /\ Running.cmds[k].op \in {"send", "expect", "silence"}
                /\ Running.cmds[k].ifc \in Nat
                /\ Running.cmds[k].ifc \in DOMAIN Reply
                /\ Running.cmds[k].all \subseteq 1..Running.ifcs
                /\ Running.cmds[k].all \subseteq 1..(INT_BITS - 1)
  <1> DEFINE C == [op : {"send", "expect", "silence"}, ifc : Nat, all : SUBSET Nat]
             T == [ifcs : Nat, cmds : Seq(C)]
             r == suite[test]
  <1>1. /\ suite \in Seq(T)
        /\ \A n \in DOMAIN suite : \A k \in DOMAIN suite[n].cmds :
              /\ suite[n].cmds[k].ifc \in DOMAIN Reply
              /\ suite[n].cmds[k].all \subseteq 1..suite[n].ifcs
              /\ suite[n].cmds[k].all \subseteq 1..(INT_BITS - 1)
    BY HarnessAssumption DEF HarnessAssumption, Scalars
  <1>2. test \in DOMAIN suite /\ test \in 1..Len(suite)
    <2>1. DOMAIN suite = 1..Len(suite) /\ Len(suite) \in Nat
      <3> HIDE DEF T
      <3> QED
        BY <1>1, LenProperties
    <2> QED
      BY <2>1 DEF Scalars
  <1>3. r \in T
    <2> HIDE DEF T
    <2> QED
      BY <1>1, <1>2, ElementOfSeq
  <1>4. /\ r.ifcs \in Nat /\ r.cmds \in Seq(C)
        /\ \A k \in DOMAIN r.cmds : /\ r.cmds[k].ifc \in DOMAIN Reply
                                    /\ r.cmds[k].all \subseteq 1..r.ifcs
                                    /\ r.cmds[k].all \subseteq 1..(INT_BITS - 1)
    BY <1>1, <1>2, <1>3
  <1> HIDE DEF r
  <1>5. ASSUME NEW k \in 1..Len(r.cmds)
        PROVE  r.cmds[k] \in C /\ k \in DOMAIN r.cmds
    <2> HIDE DEF C
    <2> QED
      BY <1>4, ElementOfSeq, LenProperties
  <1>6. \A k \in 1..Len(r.cmds) :
          /\ r.cmds[k].op \in {"send", "expect", "silence"}
          /\ r.cmds[k].ifc \in Nat /\ r.cmds[k].ifc \in DOMAIN Reply
          /\ r.cmds[k].all \subseteq 1..r.ifcs
          /\ r.cmds[k].all \subseteq 1..(INT_BITS - 1)
    BY <1>4, <1>5
  <1> QED
    BY <1>2, <1>4, <1>6 DEF Running, r

\* meta() and tsend(): a message for the program, all of it.
LEMMA MessageToChild ==
    ASSUME Scalars, NEW type \in DOMAIN Reply, type \in Nat, NEW size \in Size
    PROVE  LET u == UnitsOf(Message(type, type, FrameId, size)) IN
             /\ u \in Seq(KnownUnit) /\ Chained(u) /\ Whole(u) /\ Len(u) = size
  <1> DEFINE m == Message(type, type, FrameId, size)
  <1>1. FrameId \in Nat
    BY DEF FrameId, Scalars
  <1>2. m \in Known /\ m.size = size
    BY <1>1 DEF Message, Known, Msg
  <1>3. Known \in SUBSET Msg
    BY DEF Known
  <1> HIDE DEF m
  <1>4. /\ UnitsOf(m) \in Seq([msg : Known, k : Nat])
        /\ Chained(UnitsOf(m)) /\ Whole(UnitsOf(m)) /\ Len(UnitsOf(m)) = m.size
    BY <1>2, <1>3, UnitsOfChained
  <1> QED
    BY <1>2, <1>4 DEF KnownUnit, m

LEMMA AtMost ==
    ASSUME NEW n \in Nat, NEW S, S \subseteq 1..n
    PROVE  Cardinality(S) \in 0..n
  <1>1. IsFiniteSet(1..n) /\ Cardinality(1..n) = n
    BY FS_Interval
  <1>2. Cardinality(S) <= n /\ IsFiniteSet(S)
    BY <1>1, FS_Subset
  <1> QED
    BY <1>2, FS_CardinalityType
-----------------------------------------------------------------------------
(***************************************************************************)
(* Parts of the invariant that a step leaves alone.                        *)
(***************************************************************************)
LEMMA InSame ==
    InFramed /\ UNCHANGED <<inbuf, toChild, unsent>> => InFramed'
  <1> SUFFICES ASSUME InFramed, UNCHANGED <<inbuf, toChild, unsent>> PROVE InFramed'
    OBVIOUS
  <1>1. Inbound' = Inbound
    BY DEF Inbound
  <1> QED
    BY <1>1 DEF InFramed

LEMMA OutSame ==
    /\ OutFramed /\ (pc \in Between => pc' \in Between)
    /\ UNCHANGED <<child_buf, fromChild, pending, fresh>>
    => OutFramed'
  <1> SUFFICES ASSUME OutFramed, pc \in Between => pc' \in Between,
                      UNCHANGED <<child_buf, fromChild, pending, fresh>>
               PROVE OutFramed'
    OBVIOUS
  <1>1. Outbound' = Outbound
    BY DEF Outbound
  <1> QED
    BY <1>1 DEF OutFramed

\* A step of the program: the harness only sees its own state.
LEMMA ProgramScalars ==
    ASSUME Scalars, child' \in {"alive", "dead"},
           UNCHANGED <<suite, test, fresh, cmd, pc, left, ret, results, attempts,
                       all>>
    PROVE  Scalars'
  BY DEF Scalars, Running, Between

\* A step of a command: it goes on, or returns.
LEMMA CommandScalars ==
    ASSUME Scalars, pc \notin Between,
           (UNCHANGED <<ret, cmd, pc, asleep>>) \/ (\E r \in Result : Return(r)),
           UNCHANGED <<suite, test, fresh, results, child, left>>,
           attempts' \in 0..Running.ifcs, all' \subseteq 1..Running.ifcs
    PROVE  Scalars'
  <1>1. pc' \in {pc, "run", "cleanup"} /\ ret' \in Result
        /\ cmd' \in Nat /\ cmd' >= 1
    BY DEF Scalars, Return
  <1>2. Running' = Running
    BY DEF Running
  <1> QED
    BY <1>1, <1>2 DEF Scalars, Between

LEMMA QuietStep ==
    ASSUME IInv, Scalars', pc \notin Between \cup {"macs", "send", "exited"},
           pc' \notin Between \cup {"macs"},
           UNCHANGED <<inbuf, toChild, unsent, child_buf, fromChild, pending, test,
                       fresh>>
    PROVE  IInv'
  <1>1. InFramed' /\ OutFramed'
    BY InSame, OutSame DEF IInv, Between
  <1>2. Streams'
    BY DEF IInv, Streams
  <1>3. Idle'
    BY DEF IInv, Idle, Between
  <1> QED
    BY <1>1, <1>2, <1>3 DEF IInv

LEMMA EmptyStream ==
    /\ \A S : <<>> \in Seq(S)
    /\ Len(<<>>) = 0 /\ Chained(<<>>) /\ Whole(<<>>)
    /\ (<<>> \o <<>>) \o <<>> = <<>>
  <1>1. \A S : <<>> \in Seq(S) /\ Len(<<>>) = 0 /\ <<>> \o <<>> = <<>>
    BY EmptySeq, ConcatEmptySeq
  <1>2. \A n \in 1..(Len(<<>>) - 1) : FALSE
    BY <1>1
  <1> QED
    BY <1>1, <1>2 DEF Chained, Whole

LEMMA InitInv == Init => IInv
  <1> SUFFICES ASSUME Init PROVE IInv
    OBVIOUS
  <1>1. /\ inbuf = <<>> /\ toChild = <<>> /\ unsent = <<>>
        /\ child_buf = <<>> /\ fromChild = <<>> /\ pending = <<>>
        /\ pc = "meta" /\ test = 1 /\ fresh = TRUE /\ cmd = 1 /\ child = "dead"
        /\ ret = 0
        /\ results = <<>> /\ left = WAIT /\ suite \in Suites
    BY DEF Init, LoopInit
  <1>2. Len(suite) >= 1
    <2>1. suite # <<>> /\ Len(suite) \in Nat
      BY <1>1, HarnessAssumption, LenProperties DEF HarnessAssumption
    <2>2. suite \in Seq([ifcs : Nat,
                         cmds : Seq([op : {"send", "expect", "silence"},
                                     ifc : Nat, all : SUBSET Nat])])
      BY <1>1, HarnessAssumption DEF HarnessAssumption
    <2> QED
      BY <2>1, <2>2, EmptySeq
  <1>3. Scalars
    BY <1>1, <1>2, EmptyStream, Constants DEF Scalars, Result, Between
  <1>4. Streams
    BY <1>1, EmptyStream, Constants DEF Streams
  <1>5. Idle
    BY <1>1 DEF Idle, Between
  <1>6. InFramed /\ OutFramed
    BY <1>1, EmptyStream DEF InFramed, OutFramed, Inbound, Outbound
  <1> QED
    BY <1>3, <1>4, <1>5, <1>6 DEF IInv
-----------------------------------------------------------------------------
(***************************************************************************)
(* meta() and run().                                                       *)
(***************************************************************************)
LEMMA RecordScalars ==
    ASSUME Scalars, NEW r \in Result, Record(r), child' = "dead",
           UNCHANGED <<cmd, left, ret>>
    PROVE  Scalars' /\ pc' \in Between /\ (pc' = "meta" => test' # 1)
  <1>1. test' \in Nat /\ test' >= 1 /\ test' <= Len(suite)
        /\ (pc' = "meta" => test' = test + 1) /\ pc' \in Between
    <2>1. Len(suite) \in Nat
      BY HarnessAssumption, LenProperties DEF HarnessAssumption, Scalars
    <2> QED
      BY <2>1 DEF Record, Scalars, Between
  <1>2. results' \in Seq(Result)
    BY AppendProperties DEF Record, Scalars
  <1>3. suite' = suite /\ fresh' = fresh
    BY DEF Record
  <1>4. pc' = "meta" => test' # 1
    BY <1>1 DEF Scalars
  <1> QED
    BY <1>1, <1>2, <1>3, <1>4 DEF Scalars, Between

LEMMA LaunchStep ==
    ASSUME IInv, Launch PROVE IInv'
  <1>1. /\ pc = "meta" /\ pc' = "macs" /\ cmd' = 1 /\ ret' = 0 /\ child' = "alive"
        /\ toChild' = <<>> /\ fromChild' = <<>> /\ inbuf' = <<>>
        /\ pending' = <<>> /\ unsent' = <<>> /\ left' = WAIT
        /\ attempts' = 0 /\ all' = {}
        /\ fresh' = (child_buf = <<>>)
        /\ UNCHANGED <<suite, test, results, child_buf>>
    BY DEF Launch
  <1>2. Running.ifcs \in Nat /\ Running' = Running
    BY <1>1, RunningTest DEF IInv, Running
  <1>3. Scalars'
    BY <1>1, <1>2, Constants DEF IInv, Scalars, Result, Between
  <1>4. Streams'
    BY <1>1, EmptyStream, Constants DEF IInv, Streams
  <1>5. Idle'
    BY <1>1 DEF IInv, Idle, Between
  <1>6. InFramed'
    BY <1>1, EmptyStream DEF InFramed, Inbound
  <1>7. OutFramed'
    <2> SUFFICES ASSUME fresh' PROVE Chained(Outbound') /\ Whole(Outbound')
      BY DEF OutFramed
    <2>1. child_buf' = <<>>
      BY <1>1
    <2> QED
      BY <1>1, <2>1, EmptyStream DEF Outbound
  <1> QED
    BY <1>3, <1>4, <1>5, <1>6, <1>7 DEF IInv

LEMMA LaunchFailsStep ==
    ASSUME IInv, LaunchFails PROVE IInv'
  <1>1. /\ pc = "meta" /\ Record(1)
        /\ UNCHANGED <<toChild, fromChild, child, inbuf, pending, unsent, cmd, left,
                       child_buf, ret>>
    BY DEF LaunchFails, loopVars, cmdVars
  <1>2. child' = "dead" /\ 1 \in Result
    BY <1>1 DEF IInv, Idle, Between, Result
  <1>3. Scalars' /\ pc' \in Between /\ (pc' = "meta" => test' # 1)
    BY <1>1, <1>2, RecordScalars DEF IInv
  <1>4. Streams'
    BY <1>1 DEF IInv, Streams
  <1>5. /\ inbuf' = <<>> /\ toChild' = <<>> /\ unsent' = <<>>
        /\ fromChild' = <<>> /\ pending' = <<>>
        /\ child_buf' = child_buf
    BY <1>1 DEF IInv, Idle, Between
  <1>6. Idle'
    <2>1. test' = 1 => test = 1 /\ fresh' = fresh
      BY <1>1 DEF Record, IInv, Scalars
    <2> QED
      BY <1>2, <1>3, <1>5, <2>1 DEF IInv, Idle, Between
  <1>7. InFramed'
    BY <1>5, EmptyStream DEF InFramed, Inbound
  <1>8. OutFramed'
    BY <1>1, <1>3, OutSame DEF IInv, Record
  <1> QED
    BY <1>3, <1>4, <1>6, <1>7, <1>8 DEF IInv

LEMMA SendMacsStep ==
    ASSUME IInv, SendMacs PROVE IInv'
  <1> DEFINE u == UnitsOf(Message(0, 0, FrameId, MACS))
  <1>1. /\ pc = "macs"
        /\ \/ toChild' = u /\ pc' = "run" /\ UNCHANGED ret
           \/ ret' = 4 /\ pc' = "cleanup" /\ UNCHANGED toChild
        /\ UNCHANGED <<fromChild, child, inbuf, pending, unsent, suite, test, fresh,
                       results, cmd, left, attempts, all, child_buf>>
    BY DEF SendMacs, loopVars, cmdVars, suiteVars
  <1>2. inbuf = <<>> /\ unsent = <<>>
    BY <1>1 DEF IInv, Idle, Between
  <1>3. u \in Seq(KnownUnit) /\ Chained(u) /\ Whole(u) /\ Len(u) <= PIPE_CAP
    BY MessageToChild, Constants DEF IInv
  <1> HIDE DEF u
  <1>4. Scalars'
    BY <1>1 DEF IInv, Scalars, Running, Result, Between
  <1>5. Streams'
    BY <1>1, <1>3 DEF IInv, Streams
  <1>6. Idle'
    BY <1>1, <1>2 DEF IInv, Idle, Between
  <1>7. InFramed'
    <2>1. CASE toChild' = u
      <3>1. Inbound' = u
        BY <1>1, <1>2, <1>3, <2>1, ConcatEmptySeq DEF Inbound
      <3> QED
        BY <1>3, <3>1 DEF InFramed
    <2>2. CASE UNCHANGED toChild
      BY <1>1, <2>2, InSame DEF IInv
    <2> QED
      BY <1>1, <2>1, <2>2
  <1>8. OutFramed'
    BY <1>1, OutSame DEF IInv, Between
  <1> QED
    BY <1>4, <1>5, <1>6, <1>7, <1>8 DEF IInv

LEMMA RunCommandStep ==
    ASSUME IInv, RunCommand PROVE IInv'
  <1>1. /\ pc = "run"
        /\ UNCHANGED <<toChild, fromChild, child, inbuf, pending, suite, test,
                       fresh, results, cmd, child_buf, ret>>
    BY DEF RunCommand, loopVars, suiteVars
  <1>2. CASE cmd > Len(Running.cmds) /\ pc' = "cleanup" /\ UNCHANGED cmdVars
    <2>1. Scalars'
      BY <1>1, <1>2 DEF IInv, Scalars, Running, cmdVars, Between
    <2> QED
      BY <1>1, <1>2, <2>1, QuietStep DEF Between, cmdVars
  <1>3. CASE /\ cmd <= Len(Running.cmds) /\ Command.op = "send"
             /\ pc' = "send"
             /\ unsent' = UnitsOf(Message(Command.ifc, Command.ifc, FrameId, FRAME))
             /\ UNCHANGED <<left, asleep, attempts, all>>
    <2> DEFINE u == UnitsOf(Message(Command.ifc, Command.ifc, FrameId, FRAME))
               s == inbuf \o toChild
    <2>1. Command.ifc \in Nat /\ Command.ifc \in DOMAIN Reply
      <3>1. cmd \in 1..Len(Running.cmds)
        BY <1>3 DEF IInv, Scalars
      <3> QED
        BY <3>1, RunningTest DEF IInv, Command
    <2>2. u \in Seq(KnownUnit) /\ Chained(u) /\ Whole(u)
      BY <2>1, MessageToChild, Constants DEF IInv
    <2>3. unsent' = u
      BY <1>3
    <2> HIDE DEF u
    <2>4. Scalars'
      BY <1>1, <1>3 DEF IInv, Scalars, Running, Between
    <2>5. Streams'
      BY <1>1, <2>2, <2>3 DEF IInv, Streams
    <2>6. Idle'
      BY <1>1, <1>3 DEF IInv, Idle, Between
    <2>7. InFramed'
      <3>1. s \in Seq(KnownUnit)
        BY ConcatProperties DEF IInv, Streams
      <3>2. unsent = <<>> /\ Inbound = s \o unsent /\ Inbound' = s \o u
        BY <1>1, <2>3 DEF IInv, Idle, Inbound, Between
      <3> HIDE DEF s
      <3>3. Chained(s) /\ Whole(s)
        BY <3>1, <3>2, ConcatEmptySeq DEF IInv, InFramed
      <3>4. s \in Seq(Unit) /\ u \in Seq(Unit)
        BY <2>2, <3>1, KnownAreUnits
      <3> QED
        BY <2>2, <3>2, <3>3, <3>4, ChainedConcat DEF InFramed
    <2>8. OutFramed'
      BY <1>1, OutSame DEF IInv, Between
    <2> QED
      BY <2>4, <2>5, <2>6, <2>7, <2>8 DEF IInv
  <1>4. CASE /\ cmd <= Len(Running.cmds) /\ Command.op \in {"expect", "silence"}
             /\ pc' = Command.op /\ left' = WAIT
             /\ attempts' = Cardinality(Command.all) /\ all' = Command.all
             /\ UNCHANGED <<unsent, asleep>>
    <2>1. Command.all \subseteq 1..Running.ifcs /\ Running.ifcs \in Nat
      <3>1. cmd \in 1..Len(Running.cmds)
        BY <1>4 DEF IInv, Scalars
      <3> QED
        BY <3>1, RunningTest DEF IInv, Command
    <2>2. Cardinality(Command.all) \in 0..Running.ifcs
      BY <2>1, AtMost
    <2>3. Running' = Running
      BY <1>1 DEF Running
    <2>4. Scalars'
      BY <1>1, <1>4, <2>1, <2>2, <2>3, Constants DEF IInv, Scalars
    <2> QED
      BY <1>1, <1>4, <2>4, QuietStep DEF Between
  <1> QED
    BY <1>2, <1>3, <1>4 DEF RunCommand

LEMMA CleanupStep ==
    ASSUME IInv, Cleanup PROVE IInv'
  <1>1. /\ pc = "cleanup" /\ Record(ret) /\ child' = "dead"
        /\ toChild' = <<>> /\ fromChild' = <<>> /\ inbuf' = <<>> /\ pending' = <<>>
        /\ UNCHANGED <<unsent, cmd, left, child_buf, ret>>
    BY DEF Cleanup, cmdVars
  <1>2. Scalars' /\ pc' \in Between /\ (pc' = "meta" => test' # 1)
    BY <1>1, RecordScalars DEF IInv, Scalars
  <1>3. Streams'
    BY <1>1, EmptyStream, Constants DEF IInv, Streams
  <1>4. unsent' = <<>>
    BY <1>1 DEF IInv, Idle
  <1>5. Idle'
    <2>1. test' = 1 => test = 1 /\ fresh' = fresh
      BY <1>1 DEF Record, IInv, Scalars
    <2> QED
      BY <1>1, <1>2, <1>4, <2>1 DEF IInv, Idle, Between
  <1>6. InFramed'
    BY <1>1, <1>4, EmptyStream DEF InFramed, Inbound
  <1>7. OutFramed'
    <2> SUFFICES ASSUME fresh' PROVE Chained(Outbound')
      BY <1>2 DEF OutFramed
    <2>1. fresh
      BY <1>1 DEF Record
    <2>2. /\ child_buf \in Seq(Unit) /\ fromChild \in Seq(Unit)
          /\ pending \in Seq(Unit)
      BY DEF IInv, Streams
    <2> DEFINE t == fromChild \o pending
    <2>3. t \in Seq(Unit)
      BY <2>2, ConcatProperties
    <2>4. Outbound = child_buf \o t
      BY <2>2, ConcatAssociative DEF Outbound
    <2> HIDE DEF t
    <2>5. Chained(child_buf)
      BY <2>1, <2>2, <2>3, <2>4, ChainedPrefix DEF IInv, OutFramed
    <2>6. Outbound' = child_buf
      BY <1>1, <2>2, ConcatEmptySeq DEF Outbound
    <2> QED
      BY <2>1, <2>5, <2>6
  <1> QED
    BY <1>2, <1>3, <1>5, <1>6, <1>7 DEF IInv
-----------------------------------------------------------------------------
(***************************************************************************)
(* tsend().                                                                *)
(***************************************************************************)
\* write_all moves units from unsent to the pipe.
LEMMA WriteMoves ==
    ASSUME IInv, Write
    PROVE  /\ toChild' \in Seq(KnownUnit) /\ Len(toChild') <= PIPE_CAP
           /\ unsent' \in Seq(KnownUnit)
           /\ pc' = "send" \/ (pc' = "run" /\ unsent' = <<>>)
           /\ Inbound' = Inbound
  <1> DEFINE n == Least(Len(unsent), PIPE_CAP - Len(toChild))
             f == Front(unsent, n)
             r == Rest(unsent, n)
  <1>1. /\ inbuf \in Seq(KnownUnit) /\ toChild \in Seq(KnownUnit)
        /\ unsent \in Seq(KnownUnit) /\ Len(toChild) <= PIPE_CAP
        /\ Len(toChild) \in Nat /\ Len(unsent) \in Nat
    BY LenProperties DEF IInv, Streams
  <1>2. /\ pc = "send" /\ toChild' = toChild \o f /\ unsent' = r /\ UNCHANGED inbuf
        /\ IF n = Len(unsent) THEN Return(0) ELSE UNCHANGED <<ret, cmd, pc, asleep>>
    BY DEF Write, loopVars
  <1>3. n \in 0..Len(unsent) /\ n <= PIPE_CAP - Len(toChild)
    <2>1. PIPE_CAP - Len(toChild) \in Nat
      BY <1>1, Constants
    <2>2. n \in Nat /\ n <= Len(unsent) /\ n <= PIPE_CAP - Len(toChild)
      BY <1>1, <2>1, LeastBounds
    <2> HIDE DEF n
    <2> QED
      BY <1>1, <2>1, <2>2
  <1> HIDE DEF n
  <1>4. /\ f \in Seq(KnownUnit) /\ Len(f) = n
        /\ r \in Seq(KnownUnit) /\ Len(r) = Len(unsent) - n
    BY <1>1, <1>3, CutProperties
  <1>5. (inbuf \o (toChild \o f)) \o r = (inbuf \o toChild) \o unsent
    <2> DEFINE s == inbuf \o toChild
    <2>1. s \in Seq(KnownUnit)
      BY <1>1, ConcatProperties
    <2>2. (s \o f) \o r = s \o unsent
      <3> HIDE DEF s
      <3> QED
        BY <1>1, <1>3, <2>1, MoveUnits
    <2>3. inbuf \o (toChild \o f) = s \o f
      <3>1. \A u, v, w \in Seq(KnownUnit) : u \o (v \o w) = (u \o v) \o w
        BY ConcatAssociative
      <3> HIDE DEF f
      <3> QED
        BY <1>1, <1>4, <3>1, Zenon
    <2> QED
      BY <2>2, <2>3
  <1> HIDE DEF f, r
  <1>6. toChild' \in Seq(KnownUnit) /\ Len(toChild') = Len(toChild) + n
    BY <1>1, <1>2, <1>4, ConcatProperties
  <1>7. Len(toChild') <= PIPE_CAP
    BY <1>1, <1>3, <1>6, Constants
  <1>8. pc' = "send" \/ (pc' = "run" /\ unsent' = <<>>)
    <2>1. CASE n = Len(unsent)
      <3>1. Len(r) = 0 /\ pc' = "run"
        BY <1>1, <1>2, <1>4, <2>1 DEF Return
      <3> QED
        BY <1>2, <1>4, <3>1, EmptySeq
    <2>2. CASE n # Len(unsent)
      BY <1>2, <2>2
    <2> QED
      BY <2>1, <2>2
  <1>9. Inbound' = Inbound
    BY <1>2, <1>5 DEF Inbound
  <1> QED
    BY <1>2, <1>4, <1>6, <1>7, <1>8, <1>9

LEMMA WriteStep ==
    ASSUME IInv, Write PROVE IInv'
  <1>1. /\ pc = "send"
        /\ Return(0) \/ UNCHANGED <<ret, cmd, pc, asleep>>
        /\ UNCHANGED <<fromChild, child, inbuf, pending, suite, test, fresh,
                       results, left, attempts, all, child_buf>>
    BY DEF Write, loopVars, suiteVars
  <1>2. /\ toChild' \in Seq(KnownUnit) /\ Len(toChild') <= PIPE_CAP
        /\ unsent' \in Seq(KnownUnit)
        /\ pc' = "send" \/ (pc' = "run" /\ unsent' = <<>>)
        /\ Inbound' = Inbound
    BY WriteMoves
  <1>3. Streams'
    BY <1>1, <1>2 DEF IInv, Streams
  <1>4. Scalars'
    <2>1. (UNCHANGED <<ret, cmd, pc, asleep>>) \/ (\E k \in Result : Return(k))
      BY <1>1 DEF Result
    <2>2. attempts' \in 0..Running.ifcs /\ all' \subseteq 1..Running.ifcs
      BY <1>1 DEF IInv, Scalars, Between
    <2> QED
      BY <1>1, <2>1, <2>2, CommandScalars DEF IInv, Between
  <1>5. Idle'
    BY <1>1, <1>2 DEF IInv, Idle, Between
  <1>6. InFramed' /\ OutFramed'
    BY <1>1, <1>2, OutSame DEF IInv, InFramed, Between
  <1> QED
    BY <1>3, <1>4, <1>5, <1>6 DEF IInv

LEMMA WriteFailsStep ==
    ASSUME IInv, WriteFails PROVE IInv'
  <1>1. /\ pc = "send" /\ pc' = "exited"
        /\ UNCHANGED <<toChild, fromChild, child, inbuf, pending, suite, test,
                       fresh, results, cmd, unsent, left, attempts, all, child_buf, ret>>
    BY DEF WriteFails, loopVars, suiteVars, cmdVars
  <1>2. Scalars'
    BY <1>1 DEF IInv, Scalars, Running, Between
  <1>3. Streams' /\ Idle'
    BY <1>1 DEF IInv, Streams, Idle, Between
  <1>4. InFramed' /\ OutFramed'
    BY <1>1, InSame, OutSame DEF IInv, Between
  <1> QED
    BY <1>2, <1>3, <1>4 DEF IInv
-----------------------------------------------------------------------------
(***************************************************************************)
(* trecv() and expect_silence().                                           *)
(***************************************************************************)
\* The message at the start of child_buf is taken; the command goes on, or
\* returns.
LEMMA TakeStep ==
    ASSUME IInv, Scalars', pc \in Waiting, pc' \in Waiting \cup {"run", "cleanup"},
           Complete(child_buf), Take(FirstOf(child_buf)),
           UNCHANGED <<toChild, fromChild, inbuf, pending, unsent, test, fresh>>
    PROVE  IInv'
  <1> DEFINE r == Rest(child_buf, FirstOf(child_buf).size)
  <1>1. child_buf' = r
    BY DEF Take, Shift
  <1>2. /\ child_buf \in Seq([msg : Msg, k : Nat]) /\ fromChild \in Seq(Unit)
        /\ pending \in Seq(Unit) /\ Len(child_buf) <= CHILD_BUF
    BY DEF IInv, Streams, Unit
  <1>3. /\ r \in Seq([msg : Msg, k : Nat]) /\ Len(r) <= Len(child_buf)
        /\ Chained(Outbound) /\ Whole(Outbound)
           => /\ Chained((r \o fromChild) \o pending)
              /\ Whole((r \o fromChild) \o pending)
    BY <1>2, FrontLeaves DEF Outbound
  <1> HIDE DEF r
  <1>4. r \in Seq(Unit) /\ Len(r) <= CHILD_BUF
    <2>1. r \in Seq(Unit)
      BY <1>3 DEF Unit
    <2>2. Len(r) \in Nat /\ Len(child_buf) \in Nat
      BY <1>2, <1>3, LenProperties
    <2> QED
      BY <1>2, <1>3, <2>1, <2>2, Constants
  <1>5. Streams'
    BY <1>1, <1>4 DEF IInv, Streams
  <1>6. Idle'
    BY DEF IInv, Idle, Waiting, Between
  <1>7. InFramed'
    BY InSame DEF IInv
  <1>8. OutFramed'
    <2> SUFFICES ASSUME fresh' PROVE Chained(Outbound') /\ Whole(Outbound')
      BY DEF OutFramed
    <2>1. Chained(Outbound) /\ Whole(Outbound)
      BY DEF IInv, OutFramed, Waiting, Between
    <2>2. Outbound' = (r \o fromChild) \o pending
      BY <1>1 DEF Outbound
    <2> QED
      BY <1>3, <2>1, <2>2
  <1> QED
    BY <1>5, <1>6, <1>7, <1>8 DEF IInv

LEMMA Returned ==
    ASSUME pc \in Waiting,
           (UNCHANGED <<ret, cmd, pc, asleep>>) \/ (\E r \in Result : Return(r))
    PROVE  pc' \in Waiting \cup {"run", "cleanup"} /\ pc \notin Between
  BY DEF Return, Waiting, Between

LEMMA TryMessageStep ==
    ASSUME IInv, TryMessage PROVE IInv'
  <1> DEFINE m == FirstOf(child_buf)
  <1>1. /\ pc = "expect" /\ attempts > 0 /\ Complete(child_buf) /\ Take(m)
        /\ \E bit \in Bits(m) : all' = Remaining(m, bit)
        /\ attempts' = IF IsText(m) THEN attempts ELSE attempts - 1
        /\ (UNCHANGED <<ret, cmd, pc, asleep>>) \/ Return(0)
        /\ UNCHANGED <<toChild, fromChild, child, inbuf, pending, suite, test,
                       fresh, results, unsent, left>>
    BY DEF TryMessage, loopVars, suiteVars
  <1> HIDE DEF m
  <1>2. pc \in Waiting /\ 0 \in Result
    BY <1>1 DEF Waiting, Result
  <1>3. pc' \in Waiting \cup {"run", "cleanup"} /\ pc \notin Between
    BY <1>1, <1>2, Returned
  <1>4. attempts' \in 0..Running.ifcs /\ all' \subseteq 1..Running.ifcs
    <2>1. /\ attempts \in 0..Running.ifcs /\ all \subseteq 1..Running.ifcs
          /\ Running.ifcs \in Nat
      BY <1>3, RunningTest DEF IInv, Scalars
    <2>2. all' \subseteq all
      BY <1>1 DEF Remaining
    <2>3. attempts' \in {attempts, attempts - 1}
      BY <1>1
    <2>4. attempts' \in 0..Running.ifcs
      BY <1>1, <2>1, <2>3
    <2> QED
      BY <2>1, <2>2, <2>4
  <1>5. Scalars'
    BY <1>1, <1>2, <1>3, <1>4, CommandScalars DEF IInv
  <1> QED
    BY <1>1, <1>2, <1>3, <1>5, TakeStep DEF m

LEMMA BreakSilenceStep ==
    ASSUME IInv, BreakSilence PROVE IInv'
  <1> DEFINE m == FirstOf(child_buf)
  <1>1. /\ pc = "silence" /\ Complete(child_buf) /\ Take(m)
        /\ (UNCHANGED <<ret, cmd, pc, asleep>>) \/ Return(1)
        /\ UNCHANGED <<toChild, fromChild, child, inbuf, pending, suite, test,
                       fresh, results, unsent, left, attempts, all>>
    BY DEF BreakSilence, loopVars, suiteVars
  <1> HIDE DEF m
  <1>2. pc \in Waiting /\ 1 \in Result
    BY <1>1 DEF Waiting, Result
  <1>3. pc' \in Waiting \cup {"run", "cleanup"} /\ pc \notin Between
    BY <1>1, <1>2, Returned
  <1>4. attempts' \in 0..Running.ifcs /\ all' \subseteq 1..Running.ifcs
    BY <1>1, <1>3 DEF IInv, Scalars
  <1>5. Scalars'
    BY <1>1, <1>2, <1>3, <1>4, CommandScalars DEF IInv
  <1> QED
    BY <1>1, <1>2, <1>3, <1>5, TakeStep DEF m

\* A command that waits, gives up or succeeds without taking anything.
LEMMA WaitStep ==
    ASSUME IInv, pc \in Waiting,
           (UNCHANGED <<ret, cmd, pc>>) \/ (\E r \in Result : Return(r)),
           UNCHANGED <<toChild, fromChild, child, inbuf, pending, suite, test,
                       fresh, results, unsent, left, attempts, all, child_buf>>
    PROVE  IInv'
  <1>1. pc' \in Waiting \cup {"run", "cleanup"} /\ pc \notin Between
    BY DEF Return, Waiting, Between
  <1>2. ret' \in Result /\ cmd' \in Nat /\ cmd' >= 1
    BY DEF IInv, Scalars, Return
  <1>3. Scalars'
    BY <1>1, <1>2 DEF IInv, Scalars, Running, Waiting, Between
  <1> QED
    BY <1>1, <1>3, QuietStep DEF Waiting, Between

LEMMA WaitingSteps ==
    ASSUME IInv, Exhausted \/ CallSelect \/ ReadEnd \/ TimedOut PROVE IInv'
  <1>1. pc \in Waiting
    BY DEF Exhausted, CallSelect, ReadEnd, TimedOut, NeedsMore, Waiting
  <1>2. (UNCHANGED <<ret, cmd, pc>>) \/ (\E r \in Result : Return(r))
    BY DEF Exhausted, CallSelect, ReadEnd, TimedOut, Result
  <1>3. UNCHANGED <<toChild, fromChild, child, inbuf, pending, suite, test, fresh,
                    results, unsent, left, attempts, all, child_buf>>
    BY DEF Exhausted, CallSelect, ReadEnd, TimedOut, loopVars, suiteVars
  <1> QED
    BY <1>1, <1>2, <1>3, WaitStep

LEMMA TickStep ==
    ASSUME IInv, Tick PROVE IInv'
  <1>1. /\ pc \in Waiting /\ left >= 0 /\ left' = left - 1
        /\ UNCHANGED <<toChild, fromChild, child, inbuf, pending, suite, test,
                       fresh, results, cmd, pc, unsent, attempts, all, child_buf, ret>>
    BY DEF Tick, loopVars, suiteVars, Waiting
  <1>2. Scalars'
    <2>1. left' \in -1..WAIT
      BY <1>1, Constants DEF IInv, Scalars
    <2> QED
      BY <1>1, <2>1 DEF IInv, Scalars, Running
  <1> QED
    BY <1>1, <1>2, QuietStep DEF Waiting, Between

\* What is read moves from the pipe to the buffer behind it.
LEMMA ReadChildMoves ==
    ASSUME IInv, ReadChild
    PROVE  \E n \in 1..Len(fromChild) :
             /\ n <= CHILD_BUF - Len(child_buf)
             /\ child_buf' \in Seq(Unit) /\ Len(child_buf') = Len(child_buf) + n
             /\ fromChild' \in Seq(Unit) /\ Len(fromChild') = Len(fromChild) - n
             /\ Outbound' = Outbound
  <1>1. PICK n \in 1..Least(Len(fromChild), ReadRoom) :
          /\ child_buf' = child_buf \o Front(fromChild, n)
          /\ fromChild' = Rest(fromChild, n)
    BY DEF ReadChild
  <1>2. UNCHANGED pending
    BY DEF ReadChild, loopVars
  <1>3. /\ child_buf \in Seq(Unit) /\ fromChild \in Seq(Unit)
        /\ Len(child_buf) \in Nat /\ Len(fromChild) \in Nat
        /\ Len(child_buf) <= CHILD_BUF
    BY LenProperties DEF IInv, Streams
  <1>4. n \in 0..Len(fromChild) /\ n <= CHILD_BUF - Len(child_buf) /\ n >= 1
    <2>1. CHILD_BUF - Len(child_buf) \in Nat
      BY <1>3, Constants
    <2> DEFINE l == Least(Len(fromChild), CHILD_BUF - Len(child_buf))
    <2>2. l \in Nat /\ l <= Len(fromChild) /\ l <= CHILD_BUF - Len(child_buf)
      BY <1>3, <2>1, LeastBounds
    <2>3. n \in 1..l
      BY DEF ReadRoom
    <2> HIDE DEF l
    <2> QED
      BY <1>3, <2>1, <2>2, <2>3
  <1> DEFINE f == Front(fromChild, n)
             r == Rest(fromChild, n)
  <1>5. /\ f \in Seq(Unit) /\ Len(f) = n
        /\ r \in Seq(Unit) /\ Len(r) = Len(fromChild) - n
    BY <1>3, <1>4, CutProperties
  <1>6. Outbound' = Outbound
    <2>1. (child_buf \o f) \o r = child_buf \o fromChild
      BY <1>3, <1>4, MoveUnits
    <2> QED
      BY <1>1, <1>2, <2>1 DEF Outbound
  <1>7. child_buf' = child_buf \o f /\ fromChild' = r
    BY <1>1
  <1> HIDE DEF f, r
  <1>8. child_buf' \in Seq(Unit) /\ Len(child_buf') = Len(child_buf) + n
    BY <1>3, <1>5, <1>7, ConcatProperties
  <1> QED
    BY <1>3, <1>4, <1>5, <1>6, <1>7, <1>8

LEMMA ReadChildStep ==
    ASSUME IInv, ReadChild PROVE IInv'
  <1>1. PICK n \in 1..Len(fromChild) :
          /\ n <= CHILD_BUF - Len(child_buf)
          /\ child_buf' \in Seq(Unit) /\ Len(child_buf') = Len(child_buf) + n
          /\ fromChild' \in Seq(Unit) /\ Len(fromChild') = Len(fromChild) - n
          /\ Outbound' = Outbound
    BY ReadChildMoves
  <1>2. /\ pc \in Waiting
        /\ UNCHANGED <<toChild, child, inbuf, pending, suite, test, fresh, results,
                       cmd, pc, ret, unsent, left, attempts, all>>
    BY DEF ReadChild, NeedsMore, loopVars, suiteVars, Waiting
  <1>3. Len(child_buf') <= CHILD_BUF /\ Len(fromChild') <= PIPE_CAP
    <2>1. /\ Len(child_buf) \in Nat /\ Len(fromChild) \in Nat
          /\ Len(child_buf) <= CHILD_BUF /\ Len(fromChild) <= PIPE_CAP
      BY LenProperties DEF IInv, Streams
    <2> QED
      BY <1>1, <2>1, Constants
  <1>4. Streams'
    BY <1>1, <1>2, <1>3 DEF IInv, Streams
  <1>5. Scalars'
    BY <1>2 DEF IInv, Scalars, Running
  <1>6. Idle'
    BY <1>2 DEF IInv, Idle, Waiting, Between
  <1>7. InFramed'
    BY <1>2, InSame DEF IInv
  <1>8. OutFramed'
    BY <1>1, <1>2 DEF IInv, OutFramed
  <1> QED
    BY <1>4, <1>5, <1>6, <1>7, <1>8 DEF IInv
-----------------------------------------------------------------------------
(***************************************************************************)
(* The program under test.                                                 *)
(***************************************************************************)
LEMMA ProgramIdle ==
    ASSUME Idle, child = "alive", UNCHANGED <<pc, test, fresh, unsent, child_buf>>,
           pc = "macs" => inbuf' = <<>> /\ toChild' = <<>>
    PROVE  Idle'
  BY DEF Idle, Between

\* loop's read() moves units from the pipe to its buffer.
LEMMA LoopReadMoves ==
    ASSUME IInv, LoopRead, UNCHANGED unsent
    PROVE  /\ inbuf' \in Seq(KnownUnit) /\ Len(inbuf') <= BUF_SIZE
           /\ toChild' \in Seq(KnownUnit) /\ Len(toChild') <= PIPE_CAP
           /\ Inbound' = Inbound
  <1> DEFINE n == Least(Len(toChild), BUF_SIZE - Len(inbuf))
             f == Front(toChild, n)
             r == Rest(toChild, n)
  <1>1. /\ inbuf \in Seq(KnownUnit) /\ toChild \in Seq(KnownUnit)
        /\ Len(inbuf) \in Nat /\ Len(toChild) \in Nat /\ Len(toChild) <= PIPE_CAP
        /\ Len(inbuf) <= BUF_SIZE
    BY LenProperties DEF IInv, Streams
  <1>2. inbuf' = inbuf \o f /\ toChild' = r /\ unsent' = unsent
    BY DEF LoopRead
  <1>3. n \in 0..Len(toChild) /\ n <= BUF_SIZE - Len(inbuf)
    <2>1. BUF_SIZE - Len(inbuf) \in Nat
      BY <1>1, Constants
    <2>2. n \in Nat /\ n <= Len(toChild) /\ n <= BUF_SIZE - Len(inbuf)
      BY <1>1, <2>1, LeastBounds
    <2> HIDE DEF n
    <2> QED
      BY <1>1, <2>2
  <1> HIDE DEF n
  <1>4. /\ f \in Seq(KnownUnit) /\ Len(f) = n /\ r \in Seq(KnownUnit)
        /\ Len(r) = Len(toChild) - n
    BY <1>1, <1>3, CutProperties
  <1>5. Inbound' = Inbound
    <2>1. (inbuf \o f) \o r = inbuf \o toChild
      BY <1>1, <1>3, MoveUnits
    <2> QED
      BY <1>2, <2>1 DEF Inbound
  <1> HIDE DEF f, r
  <1>6. /\ inbuf' \in Seq(KnownUnit) /\ toChild' \in Seq(KnownUnit)
        /\ Len(inbuf') = Len(inbuf) + n
    BY <1>1, <1>2, <1>4, ConcatProperties
  <1>7. Len(toChild') <= PIPE_CAP /\ Len(inbuf') <= BUF_SIZE
    BY <1>1, <1>2, <1>3, <1>4, <1>6, Constants
  <1> QED
    BY <1>5, <1>6, <1>7

LEMMA LoopReadStep ==
    ASSUME IInv, LoopRead, UNCHANGED harnessVars PROVE IInv'
  <1>1. /\ child = "alive" /\ (toChild # <<>> \/ Len(inbuf) = BUF_SIZE)
        /\ child' \in {"alive", "dead"}
        /\ UNCHANGED <<fromChild, pending, suite, test, fresh, results, cmd, pc,
                       unsent, left, attempts, all, child_buf, ret>>
    BY DEF LoopRead, Reading, harnessVars, suiteVars, cmdVars
  <1>2. pc # "macs"
    <2> SUFFICES ASSUME inbuf = <<>>, toChild = <<>> PROVE FALSE
      BY DEF IInv, Idle
    <2> QED
      BY <1>1, EmptyStream, Constants
  <1>3. /\ inbuf' \in Seq(KnownUnit) /\ Len(inbuf') <= BUF_SIZE
        /\ toChild' \in Seq(KnownUnit) /\ Len(toChild') <= PIPE_CAP
        /\ Inbound' = Inbound
    BY <1>1, LoopReadMoves
  <1>4. Streams'
    BY <1>1, <1>3 DEF IInv, Streams
  <1>5. Scalars'
    BY <1>1, ProgramScalars DEF IInv
  <1>6. Idle'
    BY <1>1, <1>2, ProgramIdle DEF IInv
  <1>7. InFramed' /\ OutFramed'
    BY <1>1, <1>3, OutSame DEF IInv, InFramed
  <1> QED
    BY <1>4, <1>5, <1>6, <1>7 DEF IInv

\* write_all moves units from pending to the pipe in front of it.
LEMMA WriteAllMoves ==
    ASSUME IInv, WriteAll, UNCHANGED child_buf
    PROVE  /\ fromChild' \in Seq(Unit) /\ Len(fromChild') <= PIPE_CAP
           /\ pending' \in Seq(Unit)
           /\ Outbound' = Outbound
  <1> DEFINE n == Least(Len(pending), PIPE_CAP - Len(fromChild))
             f == Front(pending, n)
             r == Rest(pending, n)
  <1>1. /\ child_buf \in Seq(Unit) /\ fromChild \in Seq(Unit)
        /\ pending \in Seq(Unit)
        /\ Len(fromChild) \in Nat /\ Len(pending) \in Nat
        /\ Len(fromChild) <= PIPE_CAP
    BY LenProperties DEF IInv, Streams
  <1>2. fromChild' = fromChild \o f /\ pending' = r
    BY DEF WriteAll
  <1>3. n \in 0..Len(pending) /\ n <= PIPE_CAP - Len(fromChild)
    <2>1. PIPE_CAP - Len(fromChild) \in Nat
      BY <1>1, Constants
    <2>2. n \in Nat /\ n <= Len(pending) /\ n <= PIPE_CAP - Len(fromChild)
      BY <1>1, <2>1, LeastBounds
    <2> HIDE DEF n
    <2> QED
      BY <1>1, <2>1, <2>2
  <1> HIDE DEF n
  <1>4. /\ f \in Seq(Unit) /\ Len(f) = n /\ r \in Seq(Unit)
    BY <1>1, <1>3, CutProperties
  <1>5. Outbound' = Outbound
    <2> DEFINE s == child_buf \o fromChild
    <2>1. s \in Seq(Unit)
      BY <1>1, ConcatProperties
    <2>2. (s \o f) \o r = s \o pending
      <3> HIDE DEF s
      <3> QED
        BY <1>1, <1>3, <2>1, MoveUnits
    <2>3. child_buf \o (fromChild \o f) = s \o f
      <3> HIDE DEF f
      <3>1. child_buf \in Seq(Unit) /\ fromChild \in Seq(Unit) /\ f \in Seq(Unit)
        BY <1>1, <1>4
      <3>2. (child_buf \o fromChild) \o f = child_buf \o (fromChild \o f)
        BY <3>1, UnitsAssociative, Zenon
      <3> QED
        BY <3>2
    <2>4. (child_buf \o (fromChild \o f)) \o r = s \o pending
      BY <2>2, <2>3
    <2> QED
      BY <1>2, <2>4 DEF Outbound
  <1> HIDE DEF f, r
  <1>6. fromChild' \in Seq(Unit) /\ Len(fromChild') = Len(fromChild) + n
    BY <1>1, <1>2, <1>4, ConcatProperties
  <1>7. Len(fromChild') <= PIPE_CAP
    BY <1>1, <1>3, <1>6, Constants
  <1> QED
    BY <1>2, <1>4, <1>5, <1>6, <1>7

LEMMA WriteAllStep ==
    ASSUME IInv, WriteAll, UNCHANGED harnessVars PROVE IInv'
  <1>1. /\ child = "alive"
        /\ UNCHANGED <<toChild, inbuf, child, suite, test, fresh, results, cmd, pc,
                       unsent, left, attempts, all, child_buf, ret>>
    BY DEF WriteAll, harnessVars, suiteVars, cmdVars
  <1>2. /\ fromChild' \in Seq(Unit) /\ Len(fromChild') <= PIPE_CAP
        /\ pending' \in Seq(Unit) /\ Outbound' = Outbound
    BY <1>1, WriteAllMoves
  <1>3. Streams'
    BY <1>1, <1>2 DEF IInv, Streams
  <1>4. Scalars'
    BY <1>1, ProgramScalars DEF IInv, Scalars
  <1>5. Idle'
    BY <1>1 DEF IInv, Idle, Between
  <1>6. InFramed'
    BY <1>1, InSame DEF IInv
  <1>7. OutFramed'
    BY <1>1, <1>2 DEF IInv, OutFramed
  <1> QED
    BY <1>3, <1>4, <1>5, <1>6, <1>7 DEF IInv

LEMMA LoopHandleStep ==
    ASSUME IInv, ProgramHandles PROVE IInv'
  <1> DEFINE m == FirstOf(inbuf)
             r == Rest(inbuf, m.size)
  <1>1. /\ child = "alive" /\ pending = <<>> /\ CanHandle
        /\ child' \in {"alive", "dead"}
        /\ inbuf' = r
        /\ UNCHANGED <<toChild, fromChild, suite, test, fresh, results, cmd, pc,
                       unsent, left, attempts, all, child_buf, ret>>
    BY DEF ProgramHandles, LoopHandle, Shifted, harnessVars, suiteVars, cmdVars
  <1>2. \/ UNCHANGED pending
        \/ \E types \in Reply[m.type] : pending' = ReplyUnits(m, types)
    BY DEF ProgramHandles, LoopHandle
  <1>3. /\ inbuf \in Seq([msg : Known, k : Nat])
        /\ toChild \in Seq(Unit) /\ unsent \in Seq(Unit) /\ Complete(inbuf)
    BY <1>1, KnownAreUnits DEF IInv, Streams, CanHandle, KnownUnit
  <1>4. /\ m \in Known /\ r \in Seq([msg : Known, k : Nat]) /\ Len(r) <= Len(inbuf)
        /\ Chained(Inbound) /\ Whole(Inbound)
           => /\ Chained((r \o toChild) \o unsent)
              /\ Whole((r \o toChild) \o unsent)
    <2>1. Known \in SUBSET Msg
      BY DEF Known
    <2> QED
      BY <1>3, <2>1, FrontLeaves DEF Inbound
  <1> HIDE DEF m, r
  <1>5. m \in Msg /\ m.type \in DOMAIN Reply
    BY <1>4 DEF Known
  <1>6. pc # "macs"
    <2> SUFFICES ASSUME inbuf = <<>> PROVE FALSE
      BY DEF IInv, Idle
    <2> QED
      BY <1>1, EmptyStream, Constants DEF CanHandle
  <1>7. InFramed'
    <2>1. Inbound' = (r \o toChild) \o unsent
      BY <1>1 DEF Inbound
    <2> QED
      BY <1>4, <2>1 DEF IInv, InFramed
  <1>8. /\ pending' \in Seq(Unit) /\ Chained(pending') /\ Whole(pending')
    <2>1. CASE UNCHANGED pending
      BY <1>1, <2>1, EmptyStream
    <2>2. CASE \E types \in Reply[m.type] : pending' = ReplyUnits(m, types)
      <3>1. PICK types \in Reply[m.type] : pending' = ReplyUnits(m, types)
        BY <2>2
      <3>2. types \in Seq(Nat)
        BY <1>5, LoopAssumption DEF LoopAssumption
      <3> QED
        BY <1>5, <3>1, <3>2, ReplyUnitsChained
    <2> QED
      BY <1>2, <2>1, <2>2
  <1>9. OutFramed'
    <2> SUFFICES ASSUME fresh' PROVE Chained(Outbound') /\ Whole(Outbound')
      BY DEF OutFramed
    <2> DEFINE s == child_buf \o fromChild
    <2>1. s \in Seq(Unit)
      BY ConcatProperties DEF IInv, Streams
    <2>2. Outbound = s \o <<>> /\ Outbound' = s \o pending'
      BY <1>1 DEF Outbound
    <2> HIDE DEF s
    <2>3. Chained(s) /\ Whole(s)
      <3>1. fresh /\ pc \notin Between
        BY <1>1 DEF IInv, Idle, Between
      <3> QED
        BY <2>1, <2>2, <3>1, ConcatEmptySeq DEF IInv, OutFramed
    <2> QED
      BY <1>8, <2>1, <2>2, <2>3, ChainedConcat
  <1>10. Streams'
    <2>1. Len(r) <= BUF_SIZE
      <3>1. Len(inbuf) \in Nat /\ Len(r) \in Nat /\ Len(inbuf) <= BUF_SIZE
        BY <1>3, <1>4, LenProperties DEF IInv, Streams
      <3> QED
        BY <1>4, <3>1, Constants
    <2> QED
      BY <1>1, <1>4, <1>8, <2>1 DEF IInv, Streams, KnownUnit
  <1>11. Scalars'
    BY <1>1, ProgramScalars DEF IInv
  <1>12. Idle'
    BY <1>1, <1>6, ProgramIdle DEF IInv
  <1> QED
    BY <1>7, <1>9, <1>10, <1>11, <1>12 DEF IInv

LEMMA ProgramEndsStep ==
    ASSUME IInv, ProgramEnds PROVE IInv'
  <1>1. /\ child' = "dead"
        /\ UNCHANGED <<toChild, fromChild, inbuf, pending, suite, test, fresh,
                       results, cmd, pc, unsent, left, attempts, all, child_buf, ret>>
    BY DEF ProgramEnds, loopVars, harnessVars, suiteVars, cmdVars
  <1>2. Scalars'
    BY <1>1, ProgramScalars DEF IInv
  <1>3. Streams' /\ Idle'
    BY <1>1 DEF IInv, Streams, Idle
  <1>4. InFramed' /\ OutFramed'
    BY <1>1, InSame, OutSame DEF IInv
  <1> QED
    BY <1>2, <1>3, <1>4 DEF IInv

LEMMA StutterStep == IInv /\ UNCHANGED vars => IInv'
  <1> SUFFICES ASSUME IInv, UNCHANGED vars PROVE IInv'
    OBVIOUS
  <1>1. UNCHANGED <<child, toChild, fromChild, inbuf, pending, suite, test, fresh,
                    results, cmd, pc, unsent, left, attempts, all, child_buf, ret>>
    BY DEF vars, loopVars, suiteVars, cmdVars
  <1>2. Scalars'
    BY <1>1 DEF IInv, Scalars, Running
  <1>3. Streams' /\ Idle'
    BY <1>1 DEF IInv, Streams, Idle
  <1>4. InFramed' /\ OutFramed'
    BY <1>1, InSame, OutSame DEF IInv
  <1> QED
    BY <1>2, <1>3, <1>4 DEF IInv

LEMMA NextInv == IInv /\ [Next]_vars => IInv'
  <1> SUFFICES ASSUME IInv, [Next]_vars PROVE IInv'
    OBVIOUS
  <1>1. CASE Launch \/ LaunchFails \/ SendMacs \/ RunCommand \/ Cleanup
    BY <1>1, LaunchStep, LaunchFailsStep, SendMacsStep, RunCommandStep, CleanupStep
  <1>2. CASE Write \/ WriteFails
    BY <1>2, WriteStep, WriteFailsStep
  <1>3. CASE TryMessage \/ BreakSilence \/ ReadChild
    BY <1>3, TryMessageStep, BreakSilenceStep, ReadChildStep
  <1>4. CASE Exhausted \/ CallSelect \/ ReadEnd \/ TimedOut
    BY <1>4, WaitingSteps
  <1>5. CASE Tick
    BY <1>5, TickStep
  <1>6. CASE Program
    BY <1>6, LoopHandleStep, LoopReadStep, WriteAllStep DEF Program
  <1>7. CASE ProgramEnds
    BY <1>7, ProgramEndsStep
  <1>8. CASE UNCHANGED vars
    BY <1>8, StutterStep
  <1> QED
    BY <1>1, <1>2, <1>3, <1>4, <1>5, <1>6, <1>7, <1>8 DEF Next, HarnessStep

LEMMA Inductive == Spec => []IInv
  <1> QED
    BY InitInv, NextInv, PTL DEF Spec
-----------------------------------------------------------------------------
(***************************************************************************)
(* What a test has taken.  The commands that were run got the frames they  *)
(* expect, one command after the other; the one that runs got some of      *)
(* them, and lost an attempt for every frame.                              *)
(***************************************************************************)
Got == Frames(Front(made, taken))

\* Of a test that began with an empty child_buf: what was made and not taken
\* is on its way.
Accounted ==
    fresh /\ pc \notin Between =>
        /\ made \in Seq(Nat) /\ taken \in 0..Len(made)
        /\ Rest(made, taken) = TypesOf(Outbound)

\* What the frames among got count for that are for the n-th command, up to
\* the k-th frame.
For(got, cmds, n, k) == {Interface(got[j]) : j \in (Due(cmds, n - 1) + 1)..k}

Served(got, cmds, n) ==
    \A k \in 1..n :
        cmds[k].op = "expect" => For(got, cmds, k, Due(cmds, k)) = cmds[k].all

\* Between the n-th command and the next.
Even(got, cmds, n) ==
    /\ got \in Seq(Nat) /\ Len(got) = Due(cmds, n)
    /\ Served(got, cmds, n)

\* While the n-th command expects frames.  Only who took nothing but right
\* frames has as many interfaces open as attempts.
Midway(got, cmds, n, tries, open) ==
    /\ got \in Seq(Nat)
    /\ Due(cmds, n - 1) <= Len(got) /\ Len(got) + tries = Due(cmds, n)
    /\ Served(got, cmds, n - 1)
    /\ open \subseteq cmds[n].all /\ Cardinality(open) >= tries
    /\ Cardinality(open) = tries =>
         For(got, cmds, n, Len(got)) = cmds[n].all \ open

Earned ==
    fresh =>
        /\ pc = "macs" => Got = <<>> /\ cmd = 1
        /\ pc \in {"run", "send", "silence"} => Even(Got, Running.cmds, cmd - 1)
        /\ pc = "expect" => Midway(Got, Running.cmds, cmd, attempts, all)
        /\ pc = "run" => cmd <= Len(Running.cmds) + 1
        /\ pc \in {"send", "silence", "expect"} =>
             cmd <= Len(Running.cmds) /\ Command.op = pc
        /\ pc = "cleanup" /\ ret = 0 =>
             Even(Got, Running.cmds, Len(Running.cmds))

\* What is assumed of the commands of a test.
Commands(cmds, l) ==
    /\ l \in Nat /\ l = Len(cmds)
    /\ \A n \in 1..l : IsFiniteSet(cmds[n].all) /\ cmds[n].all \subseteq Nat

LEMMA DueProperties ==
    ASSUME NEW cmds, NEW l, Commands(cmds, l)
    PROVE  /\ Due(cmds, 0) = 0
           /\ \A n \in 1..l : Due(cmds, n) = Due(cmds, n - 1) + Expected(cmds[n])
           /\ \A n \in 0..l : Due(cmds, n) \in Nat
           /\ \A n \in 1..l : Due(cmds, n) \in Nat /\ Due(cmds, n - 1) \in Nat
  <1>1. l \in Nat /\ l = Len(cmds) /\ \A n \in 1..l : IsFiniteSet(cmds[n].all)
    BY DEF Commands
  <1>2. \A n \in 1..l : Expected(cmds[n]) \in Nat
    BY <1>1, FS_CardinalityType DEF Expected
  <1>3. \A n \in 1..l : n \in 0..l /\ n - 1 \in 0..l
    BY <1>1
  <1> QED
    BY <1>1, <1>2, <1>3, DueRecursion

LEMMA DueGrows ==
    ASSUME NEW cmds, NEW l, Commands(cmds, l), NEW n \in 1..l, NEW k \in 1..(n - 1)
    PROVE  /\ Due(cmds, k) <= Due(cmds, n - 1)
           /\ Due(cmds, k) \in Nat /\ Due(cmds, k - 1) \in Nat
  <1> DEFINE r == n - 1 - k
             G == {i \in 0..r : Due(cmds, k) <= Due(cmds, k + i)}
  <1>1. k \in 1..l /\ r \in Nat /\ k + r = n - 1 /\ k + r < l
    BY DEF Commands
  <1>2. Due(cmds, k) \in Nat /\ Due(cmds, k - 1) \in Nat
    BY <1>1, DueProperties
  <1> HIDE DEF r
  <1>3. 0 \in G
    BY <1>1, <1>2
  <1>4. ASSUME NEW i \in 1..r, i - 1 \in G PROVE i \in G
    <2>1. k + i \in 1..l /\ (k + i) - 1 = k + (i - 1) /\ i \in 0..r
      BY <1>1 DEF Commands
    <2>2. /\ Due(cmds, k + i) = Due(cmds, (k + i) - 1) + Expected(cmds[k + i])
          /\ Due(cmds, (k + i) - 1) \in Nat
      BY <2>1, DueProperties
    <2>3. Expected(cmds[k + i]) \in Nat
      BY <2>1, FS_CardinalityType DEF Commands, Expected
    <2>4. Due(cmds, k) <= Due(cmds, k + (i - 1))
      BY <1>4
    <2>5. Due(cmds, k) <= Due(cmds, k + i)
      BY <1>2, <2>1, <2>2, <2>3, <2>4
    <2> QED
      BY <2>1, <2>5
  <1>5. \A i \in 0..r : i \in G
    <2> HIDE DEF G
    <2> QED
      BY <1>1, <1>3, <1>4, UpToAll
  <1>6. r \in G
    BY <1>1, <1>5
  <1> QED
    BY <1>1, <1>2, <1>6

LEMMA EvenAtStart ==
    ASSUME NEW cmds, NEW l, Commands(cmds, l)
    PROVE  Even(<<>>, cmds, 0)
  <1>1. <<>> \in Seq(Nat) /\ Len(<<>>) = 0
    BY EmptySeq
  <1>2. Due(cmds, 0) = 0
    BY DueProperties
  <1>3. \A k \in 1..0 : FALSE
    OBVIOUS
  <1> QED
    BY <1>1, <1>2, <1>3 DEF Even, Served

\* A command that expects nothing.
LEMMA EvenNext ==
    ASSUME NEW cmds, NEW l, Commands(cmds, l), NEW n \in 1..l, NEW got,
           Even(got, cmds, n - 1), cmds[n].op # "expect"
    PROVE  Even(got, cmds, n)
  <1>1. Due(cmds, n) = Due(cmds, n - 1) /\ n \in Nat
    <2>1. /\ Due(cmds, n) = Due(cmds, n - 1) + Expected(cmds[n])
          /\ Due(cmds, n - 1) \in Nat
      BY DueProperties
    <2>2. Expected(cmds[n]) = 0
      BY DEF Expected
    <2> QED
      BY <2>1, <2>2 DEF Commands
  <1>2. \A k \in 1..n : k = n \/ k \in 1..(n - 1)
    OBVIOUS
  <1> QED
    BY <1>1, <1>2 DEF Even, Served

LEMMA MidwayStart ==
    ASSUME NEW cmds, NEW l, Commands(cmds, l), NEW n \in 1..l, NEW got,
           Even(got, cmds, n - 1), cmds[n].op = "expect"
    PROVE  Midway(got, cmds, n, Cardinality(cmds[n].all), cmds[n].all)
  <1> DEFINE S == cmds[n].all
             d == Due(cmds, n - 1)
  <1>1. /\ Due(cmds, n) = d + Cardinality(S) /\ d \in Nat
    <2>1. /\ Due(cmds, n) = d + Expected(cmds[n]) /\ d \in Nat
      BY DueProperties
    <2> QED
      BY <2>1 DEF Expected
  <1>2. Cardinality(S) \in Nat
    BY FS_CardinalityType DEF Commands
  <1>3. got \in Seq(Nat) /\ Len(got) = d /\ Served(got, cmds, n - 1)
    BY DEF Even
  <1>4. For(got, cmds, n, d) = {}
    <2>1. \A j \in (d + 1)..d : FALSE
      BY <1>1
    <2> QED
      BY <2>1 DEF For
  <1>5. S \ S = {} /\ S \subseteq S
    OBVIOUS
  <1> HIDE DEF S, d
  <1>6. d <= Len(got) /\ Len(got) + Cardinality(S) = Due(cmds, n)
        /\ Cardinality(S) >= Cardinality(S)
    BY <1>1, <1>2, <1>3
  <1>7. For(got, cmds, n, Len(got)) = S \ S
    BY <1>3, <1>4, <1>5
  <1> QED
    BY <1>3, <1>5, <1>6, <1>7 DEF Midway, S, d

\* One more frame, of type t: an attempt less, and the interface it counts
\* for may no longer be open.
LEMMA MidwayFrame ==
    ASSUME NEW cmds, NEW l, Commands(cmds, l), NEW n \in 1..l, NEW got, NEW open,
           NEW tries \in Nat, tries > 0,
           Midway(got, cmds, n, tries, open), NEW t \in Nat,
           NEW i, i = Interface(t),
           NEW rest, rest = open \/ (i \in open /\ rest = open \ {i})
    PROVE  Midway(got \o <<t>>, cmds, n, tries - 1, rest)
  <1> DEFINE now == got \o <<t>>
             d == Due(cmds, n - 1)
             c == Len(got)
             S == cmds[n].all
  <1>1. d \in Nat /\ Due(cmds, n) \in Nat
    BY DueProperties
  <1>2. got \in Seq(Nat) /\ c \in Nat /\ d <= c /\ c + tries = Due(cmds, n)
    <2>1. got \in Seq(Nat)
      BY DEF Midway
    <2> QED
      BY <2>1, LenProperties DEF Midway
  <1>3. /\ now \in Seq(Nat) /\ Len(now) = c + 1
        /\ \A j \in 1..c : now[j] = got[j]
        /\ now[c + 1] = t
    <2> DEFINE o == <<t>>
               k == Len(o)
    <2>1. o \in Seq(Nat) /\ k = 1 /\ o[1] = t
      BY OneNatural
    <2>2. c = Len(got) /\ k = Len(o) /\ now = got \o o
      OBVIOUS
    <2> HIDE DEF o, k, c, now
    <2>3. /\ got \o o \in Seq(Nat) /\ Len(got \o o) = c + k
          /\ \A j \in 1..(c + k) :
               (got \o o)[j] = IF j <= c THEN got[j] ELSE o[j - c]
      <3>1. got \in Seq(Nat) /\ o \in Seq(Nat)
        BY <1>2, <2>1
      <3>2. c = Len(got) /\ k = Len(o)
        BY <2>2
      <3> QED
        BY <3>1, <3>2, ConcatAt
    <2>4. \A j \in 1..c : j \in 1..(c + k) /\ j <= c
      BY <1>2, <2>1
    <2>5. c + 1 \in 1..(c + k) /\ ~(c + 1 <= c) /\ (c + 1) - c = 1
      BY <1>2, <2>1
    <2>6. now[c + 1] = t
      BY <2>1, <2>2, <2>3, <2>5
    <2> QED
      BY <2>1, <2>2, <2>3, <2>4, <2>6
  <1> HIDE DEF now
  <1>4. Served(now, cmds, n - 1)
    <2> SUFFICES ASSUME NEW k \in 1..(n - 1), cmds[k].op = "expect"
                 PROVE  For(now, cmds, k, Due(cmds, k)) = cmds[k].all
      BY DEF Served
    <2>1. For(got, cmds, k, Due(cmds, k)) = cmds[k].all
      BY DEF Midway, Served
    <2>2. Due(cmds, k) \in Nat /\ Due(cmds, k) <= d /\ Due(cmds, k - 1) \in Nat
      BY DueGrows
    <2>3. \A j \in (Due(cmds, k - 1) + 1)..Due(cmds, k) : j \in 1..c
      <3> HIDE DEF c, d
      <3> QED
        BY <1>1, <1>2, <2>2
    <2>4. \A j \in (Due(cmds, k - 1) + 1)..Due(cmds, k) : now[j] = got[j]
      BY <1>3, <2>3
    <2>5. For(now, cmds, k, Due(cmds, k)) = For(got, cmds, k, Due(cmds, k))
      BY <2>4 DEF For
    <2> QED
      BY <2>1, <2>5
  <1>5. /\ open \subseteq S /\ Cardinality(open) >= tries
        /\ Cardinality(open) \in Nat
        /\ IsFiniteSet(open)
    <2>1. open \subseteq S /\ Cardinality(open) >= tries
      BY DEF Midway
    <2>2. IsFiniteSet(open)
      BY <2>1, FS_Subset DEF Commands
    <2> QED
      BY <2>1, <2>2, FS_CardinalityType
  <1>6. /\ rest \subseteq S
        /\ Cardinality(rest) \in {Cardinality(open), Cardinality(open) - 1}
        /\ rest = open => Cardinality(rest) = Cardinality(open)
        /\ rest # open => i \in open /\ rest = open \ {i}
                          /\ Cardinality(rest) = Cardinality(open) - 1
    BY <1>5, FS_RemoveElement
  <1>7. Cardinality(rest) >= tries - 1
    BY <1>5, <1>6
  <1>8. ASSUME Cardinality(rest) = tries - 1
        PROVE  For(now, cmds, n, Len(now)) = S \ rest
    <2>1. rest # open
      BY <1>5, <1>6, <1>8
    <2>2. Cardinality(open) = tries
      BY <1>5, <1>6, <1>8, <2>1
    <2>3. For(got, cmds, n, c) = S \ open
      BY <2>2 DEF Midway
    <2>4. For(now, cmds, n, c + 1) = For(got, cmds, n, c) \cup {i}
      <3> HIDE DEF c, d
      <3>1. \A j : j \in (d + 1)..(c + 1) <=> (j \in (d + 1)..c \/ j = c + 1)
        BY <1>1, <1>2
      <3>2. \A j \in (d + 1)..c : now[j] = got[j]
        <4>1. \A j \in (d + 1)..c : j \in 1..c
          BY <1>1, <1>2
        <4> QED
          BY <1>3, <4>1
      <3>3. {Interface(now[j]) : j \in (d + 1)..(c + 1)}
              = {Interface(got[j]) : j \in (d + 1)..c} \cup {i}
        BY <1>3, <3>1, <3>2
      <3> QED
        BY <3>3 DEF For, d
    <2>5. S \ rest = (S \ open) \cup {i}
      BY <1>5, <1>6, <2>1
    <2> QED
      BY <1>3, <2>3, <2>4, <2>5
  <1>9. d <= Len(now) /\ Len(now) + (tries - 1) = Due(cmds, n)
    BY <1>1, <1>2, <1>3
  <1> QED
    BY <1>3, <1>4, <1>6, <1>7, <1>8, <1>9 DEF Midway, now

\* Nothing is expected any more.
LEMMA MidwayDone ==
    ASSUME NEW cmds, NEW l, Commands(cmds, l), NEW n \in 1..l, NEW got,
           NEW tries \in Nat, Midway(got, cmds, n, tries, {})
    PROVE  Even(got, cmds, n)
  <1>1. Cardinality({}) = 0
    BY FS_EmptySet
  <1>2. tries = 0
    BY <1>1 DEF Midway
  <1>3. got \in Seq(Nat) /\ Len(got) \in Nat
    <2>1. got \in Seq(Nat)
      BY DEF Midway
    <2> QED
      BY <2>1, LenProperties
  <1>4. Len(got) = Due(cmds, n)
    BY <1>2, <1>3 DEF Midway
  <1>5. For(got, cmds, n, Due(cmds, n)) = cmds[n].all
    <2>1. For(got, cmds, n, Len(got)) = cmds[n].all \ {}
      BY <1>1, <1>2 DEF Midway
    <2> QED
      BY <1>4, <2>1
  <1>6. \A k \in 1..n : k = n \/ k \in 1..(n - 1)
    OBVIOUS
  <1>7. Served(got, cmds, n)
    BY <1>5, <1>6 DEF Midway, Served
  <1> QED
    BY <1>3, <1>4, <1>7 DEF Even
-----------------------------------------------------------------------------
(***************************************************************************)
(* The steps, for a test that begins with an empty child_buf.              *)
(***************************************************************************)
LEMMA RunningCommands ==
    ASSUME Scalars
    PROVE  /\ Commands(Running.cmds, Len(Running.cmds))
           /\ DOMAIN Running.cmds = 1..Len(Running.cmds)
  <1> DEFINE C == [op : {"send", "expect", "silence"}, ifc : Nat, all : SUBSET Nat]
             T == [ifcs : Nat, cmds : Seq(C)]
  <1>1. test \in 1..Len(suite) /\ suite \in Seq(T)
    BY HarnessAssumption DEF HarnessAssumption, Scalars
  <1>2. Running \in T
    <2> HIDE DEF T
    <2> QED
      BY <1>1, ElementOfSeq DEF Running
  <1>3. Running.cmds \in Seq(C) /\ Running.ifcs \in Nat
    BY <1>2
  <1>4. Len(Running.cmds) \in Nat /\ DOMAIN Running.cmds = 1..Len(Running.cmds)
    <2> HIDE DEF C
    <2> QED
      BY <1>3, LenProperties
  <1>5. ASSUME NEW n \in 1..Len(Running.cmds)
        PROVE  IsFiniteSet(Running.cmds[n].all) /\ Running.cmds[n].all \subseteq Nat
    <2>1. Running.cmds[n].all \subseteq 1..Running.ifcs
      BY RunningTest
    <2>2. IsFiniteSet(1..Running.ifcs)
      BY <1>3, FS_Interval
    <2> QED
      BY <1>3, <2>1, <2>2, FS_Subset
  <1> QED
    BY <1>4, <1>5 DEF Commands

LEMMA AccountedSame ==
    ASSUME Accounted, UNCHANGED <<made, taken, test, fresh>>, Outbound' = Outbound,
           pc \in Between => pc' \in Between
    PROVE  Accounted'
  <1>1. TypesOf(Outbound)' = TypesOf(Outbound)
    BY DEF TypesOf
  <1> QED
    BY <1>1 DEF Accounted

LEMMA GotSame == UNCHANGED <<made, taken>> => UNCHANGED Got
  BY DEF Got

\* Nothing is taken or decided.
LEMMA EarnedSame ==
    ASSUME Earned, UNCHANGED Got,
           UNCHANGED <<suite, test, fresh, cmd, pc, attempts, all, ret>>
    PROVE  Earned'
  <1>1. Running' = Running /\ Command' = Command
    BY DEF Running, Command
  <1> QED
    BY <1>1 DEF Earned

\* A command that gives up, or that is over and expects nothing.
LEMMA EarnedReturn ==
    ASSUME IInv, Earned, UNCHANGED Got, UNCHANGED <<suite, test, fresh>>,
           NEW r \in Result, pc \in {"send", "silence", "expect"}, Return(r),
           r = 0 => pc # "expect"
    PROVE  Earned'
  <1> SUFFICES ASSUME fresh' PROVE Earned'
    BY DEF Earned
  <1> DEFINE cmds == Running.cmds
             l == Len(cmds)
  <1>1. Running' = Running /\ fresh
    BY DEF Running
  <1>2. CASE r = 0
    <2>1. pc' = "run" /\ cmd' = cmd + 1
      BY <1>2 DEF Return
    <2>2. Even(Got, cmds, cmd - 1) /\ cmd \in 1..l /\ cmds[cmd].op # "expect"
      BY <1>1, <1>2 DEF Earned, Command, IInv, Scalars
    <2>3. Commands(cmds, l)
      BY RunningCommands DEF IInv
    <2> HIDE DEF cmds, l
    <2>4. Even(Got, cmds, cmd)
      BY <2>2, <2>3, EvenNext
    <2>5. cmd' - 1 = cmd /\ cmd' <= l + 1
      BY <2>1, <2>2, <2>3 DEF Commands
    <2>6. Even(Got', Running.cmds', cmd' - 1) /\ cmd' <= Len(Running.cmds') + 1
      BY <1>1, <2>4, <2>5 DEF cmds, l
    <2> QED
      BY <2>1, <2>6 DEF Earned
  <1>3. CASE r # 0
    BY <1>3 DEF Return, Earned
  <1> QED
    BY <1>2, <1>3

\* More at the end of a sequence changes nothing at its start.
LEMMA CutOfConcat ==
    ASSUME NEW s \in Seq(Nat), NEW t \in Seq(Nat), NEW n \in 0..Len(s)
    PROVE  /\ Rest(s \o t, n) = Rest(s, n) \o t
           /\ Front(s \o t, n) = Front(s, n)
           /\ s \o t \in Seq(Nat) /\ Len(s \o t) = Len(s) + Len(t)
           /\ Len(t) \in Nat
  <1> DEFINE c == s \o t
             a == Len(s)
             b == Len(t)
             i == Rest(s, n)
             u == Rest(c, n)
             v == i \o t
             f == Front(c, n)
             g == Front(s, n)
  <1>1. a \in Nat /\ b \in Nat /\ n \in 0..a
    BY LenProperties
  <1>2. /\ c \in Seq(Nat) /\ Len(c) = a + b
        /\ \A j \in 1..(a + b) : c[j] = IF j <= a THEN s[j] ELSE t[j - a]
    BY ConcatProperties
  <1>3. /\ g \in Seq(Nat) /\ Len(g) = n
        /\ \A j \in 1..n : g[j] = s[j]
        /\ i \in Seq(Nat) /\ Len(i) = a - n
        /\ \A j \in 1..(a - n) : i[j] = s[n + j]
    BY CutProperties
  <1> HIDE DEF c
  <1>4. n \in 0..Len(c)
    BY <1>1, <1>2
  <1>5. /\ f \in Seq(Nat) /\ Len(f) = n
        /\ \A j \in 1..n : f[j] = c[j]
        /\ u \in Seq(Nat) /\ Len(u) = Len(c) - n
        /\ \A j \in 1..(Len(c) - n) : u[j] = c[n + j]
    BY <1>2, <1>4, CutProperties
  <1> HIDE DEF f, g, u, i
  <1> DEFINE k == Len(i)
  <1>6. /\ v \in Seq(Nat) /\ Len(v) = k + b /\ k = a - n
        /\ \A j \in 1..(k + b) : v[j] = IF j <= k THEN i[j] ELSE t[j - k]
    <2>1. k = Len(i) /\ b = Len(t) /\ i \in Seq(Nat) /\ t \in Seq(Nat)
      BY <1>3
    <2>2. v = i \o t /\ k = a - n
      BY <1>3
    <2> HIDE DEF k, b, v
    <2>3. /\ i \o t \in Seq(Nat) /\ Len(i \o t) = k + b
          /\ \A j \in 1..(k + b) : (i \o t)[j] = IF j <= k THEN i[j] ELSE t[j - k]
      BY <2>1, ConcatAt
    <2> QED
      BY <2>2, <2>3
  <1> HIDE DEF a, b, k, v
  <1>7. f = g
    <2>1. ASSUME NEW j \in 1..n PROVE f[j] = g[j]
      <3>1. j \in 1..(a + b) /\ j <= a
        BY <1>1
      <3> QED
        BY <1>2, <1>3, <1>5, <3>1
    <2> QED
      BY <1>3, <1>5, <2>1, SeqEqual
  <1>8. u = v
    <2>1. ASSUME NEW j \in 1..(k + b) PROVE u[j] = v[j]
      <3>1. /\ j \in 1..(Len(c) - n) /\ n + j \in 1..(a + b)
            /\ (n + j <= a <=> j <= k) /\ (n + j) - a = j - k
            /\ (j <= k => j \in 1..(a - n))
        BY <1>1, <1>2, <1>6
      <3>2. u[j] = c[n + j]
        BY <1>5, <3>1
      <3>3. CASE j <= k
        <4>1. v[j] = i[j] /\ i[j] = s[n + j]
          BY <1>3, <1>6, <3>1, <3>3
        <4>2. c[n + j] = s[n + j]
          BY <1>2, <3>1, <3>3
        <4> QED
          BY <3>2, <4>1, <4>2
      <3>4. CASE ~(j <= k)
        <4>1. v[j] = t[j - k]
          BY <1>6, <3>4
        <4>2. c[n + j] = t[(n + j) - a]
          BY <1>2, <3>1, <3>4
        <4> QED
          BY <3>1, <3>2, <4>1, <4>2
      <3> QED
        BY <3>3, <3>4
    <2>2. Len(u) = Len(v) /\ Len(u) = k + b
      BY <1>1, <1>2, <1>5, <1>6
    <2> QED
      BY <1>5, <1>6, <2>1, <2>2, SeqEqual
  <1> QED
    BY <1>1, <1>2, <1>7, <1>8 DEF a, b, c, f, g, i, u, v

\* What is taken is the next of what was made.
LEMMA NextOfRest ==
    ASSUME NEW s \in Seq(Nat), NEW n \in 0..Len(s), NEW x \in Nat, NEW r \in Seq(Nat),
           Rest(s, n) = <<x>> \o r
    PROVE  /\ n + 1 \in 0..Len(s)
           /\ Front(s, n + 1) = Front(s, n) \o <<x>>
           /\ Rest(s, n + 1) = r
           /\ Front(s, n) \in Seq(Nat)
  <1> DEFINE o == <<x>>
             q == Rest(s, n)
  <1>1. o \in Seq(Nat) /\ Len(o) = 1 /\ o[1] = x /\ Len(s) \in Nat
    BY OneNatural, LenProperties
  <1>2. /\ Front(s, n) \in Seq(Nat) /\ Len(Front(s, n)) = n
        /\ \A j \in 1..n : Front(s, n)[j] = s[j]
        /\ q \in Seq(Nat) /\ Len(q) = Len(s) - n
        /\ \A j \in 1..(Len(s) - n) : q[j] = s[n + j]
    BY <1>1, CutProperties
  <1>3. q = o \o r
    OBVIOUS
  <1> HIDE DEF o, q
  <1> DEFINE k == Len(o)
             b == Len(r)
  <1>4. /\ k + b = Len(s) - n /\ k = 1 /\ b \in Nat
        /\ \A j \in 1..(k + b) : q[j] = IF j <= k THEN o[j] ELSE r[j - k]
    <2>1. k = Len(o) /\ b = Len(r) /\ o \in Seq(Nat) /\ r \in Seq(Nat)
      BY <1>1
    <2>2. k = 1
      BY <1>1
    <2> HIDE DEF k, b
    <2>3. /\ Len(o \o r) = k + b /\ b \in Nat
          /\ \A j \in 1..(k + b) : (o \o r)[j] = IF j <= k THEN o[j] ELSE r[j - k]
      BY <2>1, ConcatAt
    <2> QED
      BY <1>2, <1>3, <2>2, <2>3
  <1>5. b = Len(r)
    OBVIOUS
  <1> HIDE DEF k, b
  <1>6. n + 1 \in 0..Len(s) /\ n + 1 \in 1..Len(s) /\ Len(s) - (n + 1) = b
    BY <1>1, <1>4
  <1>7. s[n + 1] = x
    <2>1. 1 \in 1..(k + b) /\ 1 <= k /\ 1 \in 1..(Len(s) - n)
      BY <1>1, <1>4
    <2> QED
      BY <1>1, <1>2, <1>4, <2>1
  <1>8. /\ Front(s, n + 1) \in Seq(Nat) /\ Len(Front(s, n + 1)) = n + 1
        /\ \A j \in 1..(n + 1) : Front(s, n + 1)[j] = s[j]
        /\ Rest(s, n + 1) \in Seq(Nat) /\ Len(Rest(s, n + 1)) = Len(s) - (n + 1)
        /\ \A j \in 1..(Len(s) - (n + 1)) : Rest(s, n + 1)[j] = s[(n + 1) + j]
    <2> DEFINE i == n + 1
    <2>1. i \in 0..Len(s)
      BY <1>6
    <2> HIDE DEF i
    <2>2. /\ Front(s, i) \in Seq(Nat) /\ Len(Front(s, i)) = i
          /\ \A j \in 1..i : Front(s, i)[j] = s[j]
          /\ Rest(s, i) \in Seq(Nat) /\ Len(Rest(s, i)) = Len(s) - i
          /\ \A j \in 1..(Len(s) - i) : Rest(s, i)[j] = s[i + j]
      BY <2>1, CutProperties
    <2> QED
      BY <2>2 DEF i
  <1>9. Front(s, n + 1) = Front(s, n) \o o
    <2> DEFINE f == Front(s, n + 1)
               g == Front(s, n) \o o
               e == Front(s, n)
    <2>1. /\ g \in Seq(Nat) /\ Len(g) = n + k
          /\ \A j \in 1..(n + k) : g[j] = IF j <= n THEN e[j] ELSE o[j - n]
      <3>1. e \in Seq(Nat) /\ n = Len(e) /\ o \in Seq(Nat) /\ k = Len(o)
        BY <1>1, <1>2 DEF k
      <3>2. g = e \o o
        OBVIOUS
      <3> HIDE DEF e, g
      <3>3. /\ e \o o \in Seq(Nat) /\ Len(e \o o) = n + k
            /\ \A j \in 1..(n + k) : (e \o o)[j] = IF j <= n THEN e[j] ELSE o[j - n]
        BY <3>1, ConcatAt
      <3> QED
        BY <3>2, <3>3
    <2>2. f \in Seq(Nat) /\ Len(f) = n + 1 /\ \A j \in 1..(n + 1) : f[j] = s[j]
      BY <1>8
    <2>3. \A j \in 1..n : e[j] = s[j]
      BY <1>2
    <2> HIDE DEF f, g, e
    <2>4. ASSUME NEW j \in 1..(n + 1) PROVE f[j] = g[j]
      <3>1. CASE j \in 1..n
        <4>1. j <= n /\ j \in 1..(n + k)
          BY <1>4, <3>1
        <4>2. g[j] = e[j]
          BY <2>1, <4>1
        <4> QED
          BY <2>2, <2>3, <3>1, <4>2
      <3>2. CASE j = n + 1
        <4>1. ~(j <= n) /\ j - n = 1 /\ j \in 1..(n + k)
          BY <1>4, <3>2
        <4>2. g[j] = o[1]
          BY <2>1, <4>1
        <4> QED
          BY <1>1, <1>7, <2>2, <3>2, <4>2
      <3>3. j \in 1..n \/ j = n + 1
        OBVIOUS
      <3> QED
        BY <3>1, <3>2, <3>3
    <2>5. f = g
      <3>1. Len(f) = Len(g)
        BY <1>4, <2>1, <2>2
      <3> QED
        BY <2>1, <2>2, <2>4, <3>1, SeqEqual
    <2> QED
      BY <2>5 DEF f, g
  <1>10. Rest(s, n + 1) = r
    <2> DEFINE f == Rest(s, n + 1)
    <2>1. /\ f \in Seq(Nat) /\ Len(f) = b
          /\ \A j \in 1..b : f[j] = s[(n + 1) + j]
      BY <1>6, <1>8
    <2> HIDE DEF f
    <2>2. ASSUME NEW j \in 1..b PROVE f[j] = r[j]
      <3>1. /\ j + 1 \in 1..(k + b) /\ ~(j + 1 <= k) /\ (j + 1) - k = j
            /\ j + 1 \in 1..(Len(s) - n) /\ n + (j + 1) = (n + 1) + j
        BY <1>1, <1>4
      <3>2. q[j + 1] = r[j]
        BY <1>4, <3>1
      <3>3. q[j + 1] = s[n + (j + 1)]
        BY <1>2, <3>1
      <3> QED
        BY <2>1, <3>1, <3>2, <3>3
    <2>3. f = r
      BY <1>5, <2>1, <2>2, SeqEqual
    <2> QED
      BY <2>3 DEF f
  <1> QED
    BY <1>2, <1>6, <1>9, <1>10 DEF o

\* trecv() and expect_silence() take a message.
LEMMA TakeMoves ==
    ASSUME IInv, fresh, pc \in Waiting, Complete(child_buf),
           NEW m, m = FirstOf(child_buf), Take(m), UNCHANGED <<fromChild, pending>>
    PROVE  Leaves(m, Outbound, Outbound')
  <1>1. /\ child_buf \in Seq(Unit) /\ fromChild \in Seq(Unit)
        /\ pending \in Seq(Unit)
        /\ Chained(Outbound)
    BY DEF IInv, Streams, OutFramed, Waiting
  <1>2. child_buf' = Rest(child_buf, m.size)
    BY DEF Take, Shift
  <1> DEFINE o == Outbound
             w == Outbound'
  <1>3. /\ o = (child_buf \o fromChild) \o pending
        /\ w = (Rest(child_buf, m.size) \o fromChild) \o pending
    BY <1>2 DEF Outbound
  <1>4. Chained(o)
    BY <1>1
  <1> HIDE DEF o, w
  <1>5. Leaves(m, o, w)
    BY <1>1, <1>3, <1>4, FirstLeaves
  <1> QED
    BY <1>5 DEF o, w

\* It is the next of those made.
LEMMA TookNext ==
    ASSUME IInv, Accounted, fresh, pc \in Waiting,
           Complete(child_buf), NEW m, m = FirstOf(child_buf), Take(m),
           UNCHANGED <<fromChild, pending>>
    PROVE  /\ m.type \in Nat
           /\ Got \in Seq(Nat) /\ Got' = Got \o TypeOfFrame(m.type)
           /\ made' = made /\ made \in Seq(Nat) /\ taken' \in 0..Len(made)
           /\ Rest(made, taken') = TypesOf(Outbound')
  <1> DEFINE t == m.type
             r == TypesOf(Outbound')
  <1>1. TypesOf(Outbound) = <<t>> \o r /\ r \in Seq(Nat) /\ t \in Nat
    <2>1. Leaves(m, Outbound, Outbound')
      BY TakeMoves
    <2> QED
      BY <2>1 DEF Leaves, Msg
  <1>2. /\ made \in Seq(Nat) /\ taken \in 0..Len(made) /\ Len(made) \in Nat
        /\ Rest(made, taken) = TypesOf(Outbound)
    BY LenProperties DEF Accounted, Waiting, Between
  <1>3. taken' = taken + 1 /\ made' = made
    BY DEF Take
  <1> HIDE DEF r, t
  <1>4. /\ taken + 1 \in 0..Len(made)
        /\ Front(made, taken + 1) = Front(made, taken) \o <<t>>
        /\ Rest(made, taken + 1) = r
        /\ Front(made, taken) \in Seq(Nat)
    <2>1. Rest(made, taken) = <<t>> \o r /\ r \in Seq(Nat) /\ t \in Nat
      BY <1>1, <1>2
    <2> QED
      BY <1>2, <2>1, NextOfRest
  <1>5. Got' = Frames(Front(made, taken) \o <<t>>)
    BY <1>3, <1>4 DEF Got
  <1>6. Got' = Got \o TypeOfFrame(t) /\ Got \in Seq(Nat)
    BY <1>1, <1>4, <1>5, FramesOfAppend DEF Got
  <1> QED
    BY <1>1, <1>2, <1>3, <1>4, <1>6 DEF r, t

LEMMA NothingMade ==
    /\ Rest(<<>>, 0) = <<>> /\ TypesOf(<<>>) = <<>> /\ Len(<<>>) = 0
    /\ Frames(Front(<<>>, 0)) = <<>> /\ Frames(<<>>) = <<>>
  <1> DEFINE e == <<>>
  <1>1. e \in Seq(Nat) /\ Len(e) = 0
    BY EmptySeq
  <1>2. /\ Front(e, 0) \in Seq(Nat) /\ Len(Front(e, 0)) = 0
        /\ Rest(e, 0) \in Seq(Nat) /\ Len(Rest(e, 0)) = 0
    <2> DEFINE n == 0
    <2>1. n \in 0..Len(e) /\ n = 0
      BY <1>1
    <2> HIDE DEF e, n
    <2>2. /\ Front(e, n) \in Seq(Nat) /\ Len(Front(e, n)) = n
          /\ Rest(e, n) \in Seq(Nat) /\ Len(Rest(e, n)) = Len(e) - n
      BY <1>1, <2>1, CutProperties
    <2> QED
      BY <1>1, <2>1, <2>2
  <1>3. Front(e, 0) = e /\ Rest(e, 0) = e
    BY <1>2, EmptySeq
  <1>4. Frames(e) = <<>>
    <2> DEFINE p == [n \in 1..0 |-> TypeOfFrame(e[n])]
    <2>1. p \in [1..0 -> Seq(Nat)]
      OBVIOUS
    <2>2. DOMAIN e = 1..0
      BY <1>1, LenProperties
    <2>3. Frames(e) = Flat(p)
      BY <2>2 DEF Frames, Flat, TypeOfFrame
    <2> DEFINE l == 0
    <2>4. l \in Nat /\ p \in [1..l -> Seq(Nat)]
      BY <2>1
    <2>5. p \in Parts /\ Len(p) = l
      <3> HIDE DEF p, l
      <3> QED
        BY <2>4, FunctionIsSeq DEF Parts
    <2> HIDE DEF p
    <2>6. \E f : Gathers(f, p) /\ Flat(p) = f[Len(p)]
      BY <2>5, Gathered
    <2> QED
      BY <2>3, <2>5, <2>6 DEF Gathers
  <1> QED
    BY <1>1, <1>3, <1>4, TypesOfEmpty

History == Accounted /\ Earned

LEMMA InitHistory == Init => History
  <1> SUFFICES ASSUME Init PROVE History
    OBVIOUS
  <1>1. pc = "meta" /\ made = <<>> /\ taken = 0
        /\ child_buf = <<>> /\ fromChild = <<>> /\ pending = <<>>
    BY DEF Init, LoopInit
  <1>2. Outbound = <<>> /\ <<>> \in Seq(Nat)
    BY <1>1, EmptyStream DEF Outbound
  <1>3. Accounted
    BY <1>1, <1>2, NothingMade DEF Accounted
  <1>4. Earned
    BY <1>1 DEF Earned
  <1> QED
    BY <1>3, <1>4 DEF History

LEMMA LaunchHistory ==
    ASSUME IInv, Launch PROVE History'
  <1>1. /\ pc = "meta" /\ pc' = "macs" /\ cmd' = 1 /\ made' = <<>> /\ taken' = 0
        /\ fromChild' = <<>> /\ pending' = <<>>
        /\ fresh' = (child_buf = <<>>) /\ UNCHANGED child_buf
    BY DEF Launch
  <1>2. Accounted'
    <2> SUFFICES ASSUME fresh'
                 PROVE  made' \in Seq(Nat) /\ taken' \in 0..Len(made')
                        /\ Rest(made', taken') = TypesOf(Outbound')
      BY <1>1 DEF Accounted
    <2>1. child_buf' = <<>>
      BY <1>1
    <2>2. Outbound' = <<>> /\ <<>> \in Seq(Nat)
      BY <1>1, <2>1, EmptyStream DEF Outbound
    <2> QED
      BY <1>1, <2>2, NothingMade
  <1>3. Got' = <<>>
    BY <1>1, NothingMade DEF Got
  <1>4. Earned'
    BY <1>1, <1>3 DEF Earned
  <1> QED
    BY <1>2, <1>4 DEF History

LEMMA RecordHistory ==
    ASSUME NEW r, Record(r) PROVE History'
  BY DEF Record, History, Accounted, Earned, Between

LEMMA SendMacsHistory ==
    ASSUME IInv, History, SendMacs PROVE History'
  <1>1. /\ pc = "macs" /\ (pc' = "run" \/ (pc' = "cleanup" /\ ret' = 4))
        /\ UNCHANGED <<suite, test, fresh, cmd, made, taken, child_buf, fromChild,
                       pending>>
    BY DEF SendMacs, suiteVars, historyVars, loopVars
  <1>2. Got' = Got /\ Outbound' = Outbound /\ Running' = Running
    BY <1>1, GotSame DEF Outbound, Running
  <1>3. Accounted'
    BY <1>1, <1>2, AccountedSame DEF History, Between
  <1>4. Earned'
    <2> SUFFICES ASSUME fresh, pc' = "run"
                 PROVE  Even(Got', Running.cmds', cmd' - 1)
                        /\ cmd' <= Len(Running.cmds') + 1
      BY <1>1 DEF Earned
    <2>1. Got = <<>> /\ cmd = 1
      BY <1>1 DEF History, Earned
    <2>2. Even(<<>>, Running.cmds, 0)
      BY RunningCommands, EvenAtStart DEF IInv
    <2>3. cmd' - 1 = 0 /\ cmd' = 1 /\ Got' = <<>> /\ Running.cmds' = Running.cmds
      BY <1>1, <1>2, <2>1
    <2>4. Len(Running.cmds) \in Nat
      BY RunningCommands DEF IInv, Commands
    <2> QED
      BY <2>2, <2>3, <2>4
  <1> QED
    BY <1>3, <1>4 DEF History

LEMMA RunCommandHistory ==
    ASSUME IInv, History, RunCommand PROVE History'
  <1>1. /\ pc = "run" /\ pc' \in {"cleanup", "send", "expect", "silence"}
        /\ UNCHANGED <<suite, test, fresh, cmd, made, taken, child_buf, fromChild,
                       pending>>
    BY DEF RunCommand, suiteVars, historyVars, loopVars
  <1>2. Got' = Got /\ Outbound' = Outbound /\ Running' = Running
    BY <1>1, GotSame DEF Outbound, Running
  <1>3. Accounted'
    BY <1>1, <1>2, AccountedSame DEF History, Between
  <1>4. Earned'
    <2> SUFFICES ASSUME fresh PROVE Earned'
      BY <1>1 DEF Earned
    <2> DEFINE cmds == Running.cmds
               l == Len(cmds)
    <2>1. Even(Got, cmds, cmd - 1) /\ cmd \in Nat /\ cmd >= 1
      BY <1>1 DEF History, Earned, IInv, Scalars
    <2>2. Commands(cmds, l) /\ l \in Nat
      BY RunningCommands DEF IInv, Commands
    <2>3. Command' = Command /\ cmds' = cmds /\ l' = l
      BY <1>1, <1>2 DEF Command
    <2>4. CASE cmd > l /\ pc' = "cleanup"
      <3>1. cmd - 1 = l
        <4> SUFFICES cmd <= l + 1
          BY <2>1, <2>2, <2>4
        <4> QED
          BY <1>1 DEF History, Earned
      <3> QED
        BY <1>2, <2>1, <2>3, <2>4, <3>1 DEF Earned
    <2>5. CASE cmd <= l /\ Command.op = "send" /\ pc' = "send"
      BY <1>1, <1>2, <2>1, <2>3, <2>5 DEF Earned
    <2>6. CASE cmd <= l /\ Command.op = "silence" /\ pc' = "silence"
      BY <1>1, <1>2, <2>1, <2>3, <2>6 DEF Earned
    <2>7. CASE /\ cmd <= l /\ Command.op = "expect" /\ pc' = "expect"
               /\ attempts' = Cardinality(Command.all) /\ all' = Command.all
      <3>1. cmd \in 1..l
        BY <2>1, <2>2, <2>7
      <3>2. cmds[cmd].op = "expect" /\ Command = cmds[cmd]
        BY <2>7 DEF Command
      <3> HIDE DEF cmds, l
      <3>3. Midway(Got, cmds, cmd, Cardinality(cmds[cmd].all), cmds[cmd].all)
        BY <2>1, <2>2, <3>1, <3>2, MidwayStart
      <3>4. Midway(Got', cmds', cmd', attempts', all')
        BY <1>1, <1>2, <2>3, <2>7, <3>2, <3>3
      <3> QED
        BY <1>1, <2>3, <2>7, <3>4 DEF Earned, cmds, l
    <2> QED
      BY <1>1, <2>4, <2>5, <2>6, <2>7 DEF RunCommand
  <1> QED
    BY <1>3, <1>4 DEF History

LEMMA WriteHistory ==
    ASSUME IInv, History, Write \/ WriteFails PROVE History'
  <1>1. /\ pc = "send"
        /\ UNCHANGED <<suite, test, fresh, made, taken, child_buf, fromChild,
                       pending, attempts, all>>
    BY DEF Write, WriteFails, suiteVars, historyVars, loopVars, cmdVars
  <1>2. Got' = Got /\ Outbound' = Outbound
    BY <1>1, GotSame DEF Outbound
  <1>3. Accounted'
    BY <1>1, <1>2, AccountedSame DEF History, Between
  <1>4. CASE WriteFails
    BY <1>3, <1>4 DEF WriteFails, History, Earned
  <1>5. CASE Write /\ UNCHANGED <<ret, cmd, pc, asleep>>
    BY <1>1, <1>2, <1>3, <1>5, EarnedSame DEF History
  <1>6. CASE Write /\ Return(0)
    <2>1. 0 \in Result
      BY DEF Result
    <2>2. Earned'
      BY <1>1, <1>2, <1>6, <2>1, EarnedReturn DEF History
    <2> QED
      BY <1>3, <2>2 DEF History
  <1> QED
    BY <1>4, <1>5, <1>6 DEF Write

\* The bit of a message, if any, is of the interface it counts for.
LEMMA BitOfFrame ==
    ASSUME NEW m, m.type \in Nat, NEW bit \in Bits(m)
    PROVE  bit \in {0, Interface(m.type)}
  <1> DEFINE t == m.type
  <1>1. t \in Nat /\ bit \in IF t < 32 THEN {t} ELSE {0, Interface(t)}
    BY DEF Bits, INT_BITS
  <1> HIDE DEF t
  <1>2. ASSUME t < 32 PROVE Interface(t) = t
    BY <1>1, <1>2 DEF Interface, INT_BITS
  <1>3. bit \in {0, Interface(t)}
    BY <1>1, <1>2
  <1> QED
    BY <1>3 DEF t

\* A message of a type that the int has a bit for.
LEMMA BitOfType ==
    ASSUME NEW m, m.type \in Nat, m.type < INT_BITS, NEW bit \in Bits(m)
    PROVE  bit = m.type
  BY DEF Bits

LEMMA TryMessageHistory ==
    ASSUME IInv, History, TryMessage PROVE History'
  <1> SUFFICES ASSUME fresh' PROVE History'
    BY DEF History, Accounted, Earned
  <1> DEFINE m == FirstOf(child_buf)
             cmds == Running.cmds
             l == Len(cmds)
  <1>1. /\ pc = "expect" /\ attempts > 0 /\ Complete(child_buf) /\ Take(m)
        /\ attempts' = IF IsText(m) THEN attempts ELSE attempts - 1
        /\ \E bit \in Bits(m) :
             /\ all' = Remaining(m, bit)
             /\ IF Matches(m, bit) /\ Remaining(m, bit) = {}
                THEN Return(0) ELSE UNCHANGED <<ret, cmd, pc, asleep>>
        /\ UNCHANGED <<fromChild, pending, suite, test, fresh>>
    BY DEF TryMessage, loopVars, suiteVars
  <1>11. PICK bit \in Bits(m) :
        /\ all' = Remaining(m, bit)
        /\ IF Matches(m, bit) /\ Remaining(m, bit) = {}
           THEN Return(0) ELSE UNCHANGED <<ret, cmd, pc, asleep>>
    BY <1>1
  <1>2. fresh /\ pc \in Waiting /\ m = FirstOf(child_buf)
    BY <1>1 DEF Waiting
  <1> HIDE DEF m
  <1>3. /\ m.type \in Nat
        /\ Got \in Seq(Nat) /\ Got' = Got \o TypeOfFrame(m.type)
        /\ made' = made /\ made \in Seq(Nat) /\ taken' \in 0..Len(made)
        /\ Rest(made, taken') = TypesOf(Outbound')
    BY <1>1, <1>2, TookNext DEF History
  <1>4. Accounted'
    BY <1>3 DEF Accounted
  <1>5. /\ Midway(Got, cmds, cmd, attempts, all)
        /\ cmd \in 1..l /\ Command.op = "expect" /\ Commands(cmds, l)
        /\ attempts \in Nat /\ all \subseteq 1..Running.ifcs
    <2>1. cmd \in Nat /\ cmd >= 1 /\ attempts \in 0..Running.ifcs
          /\ all \subseteq 1..Running.ifcs /\ Running.ifcs \in Nat
      BY <1>1, RunningTest DEF IInv, Scalars, Between
    <2>2. Commands(cmds, l) /\ l \in Nat
      BY RunningCommands DEF IInv, Commands
    <2> QED
      BY <1>1, <1>2, <2>1, <2>2 DEF History, Earned
  <1>6. cmds' = cmds /\ l' = l /\ Running' = Running /\ suite' = suite /\ test' = test
    BY <1>1 DEF Running
  <1> HIDE DEF cmds, l
  <1>7. Midway(Got', cmds, cmd, attempts', all')
    <2>1. CASE m.type = 0
      <3>1. 0 \notin all
        BY <1>5
      <3>2. bit = 0
        <4>1. m.type < INT_BITS /\ m.type \in Nat
          BY <2>1 DEF INT_BITS
        <4> QED
          BY <2>1, <4>1, BitOfType
      <3>4. attempts' = attempts /\ all' = all
        BY <1>1, <1>11, <2>1, <3>1, <3>2 DEF IsText, Remaining, Matches
      <3>3. Got' = Got
        BY <1>3, <2>1, ConcatEmptySeq DEF TypeOfFrame
      <3> QED
        BY <1>5, <3>3, <3>4
    <2>2. CASE m.type # 0
      <3> DEFINE t == m.type
                 i == Interface(t)
      <3>1. Got' = Got \o <<t>> /\ attempts' = attempts - 1
        BY <1>1, <1>3, <2>2 DEF IsText, TypeOfFrame
      <3>2. all' = all \/ (i \in all /\ all' = all \ {i})
        <4>1. bit \in {0, i}
          BY <1>3, BitOfFrame
        <4>2. 0 \notin all
          BY <1>5
        <4> QED
          BY <1>11, <4>1, <4>2 DEF Remaining, Matches
      <3>3. t \in Nat /\ i = Interface(t)
        BY <1>3
      <3> HIDE DEF t, i
      <3>4. Midway(Got \o <<t>>, cmds, cmd, attempts - 1, all')
        BY <1>1, <1>5, <3>2, <3>3, MidwayFrame
      <3> QED
        BY <3>1, <3>4
    <2> QED
      BY <2>1, <2>2
  <1>8. CASE Matches(m, bit) /\ Remaining(m, bit) = {}
    <2>1. all' = {} /\ Return(0)
      BY <1>11, <1>8
    <2>2. attempts' \in Nat
      BY <1>1, <1>5
    <2>3. Even(Got', cmds, cmd)
      BY <1>5, <1>7, <2>1, <2>2, MidwayDone
    <2>4. pc' = "run" /\ cmd' = cmd + 1
      BY <2>1 DEF Return
    <2>5. cmd' - 1 = cmd /\ cmd' <= l + 1
      BY <1>5, <2>4 DEF Commands
    <2>6. Even(Got', cmds', cmd' - 1) /\ cmd' <= l' + 1
      BY <1>6, <2>3, <2>5
    <2>7. Earned'
      BY <2>4, <2>6 DEF Earned, cmds, l
    <2> QED
      BY <1>4, <2>7 DEF History
  <1>9. CASE ~(Matches(m, bit) /\ Remaining(m, bit) = {})
    <2>1. UNCHANGED <<ret, cmd, pc>>
      BY <1>11, <1>9
    <2>2. cmd <= l /\ l' = l /\ Command' = Command
      BY <1>5, <1>6, <2>1 DEF Command, Commands
    <2>3. Midway(Got', cmds', cmd', attempts', all')
      BY <1>6, <1>7, <2>1
    <2>4. Earned'
      BY <1>1, <1>5, <2>1, <2>2, <2>3 DEF Earned, cmds, l
    <2> QED
      BY <1>4, <2>4 DEF History
  <1> QED
    BY <1>8, <1>9

\* A text in the silence changes nothing; a frame fails the test.
LEMMA BreakSilenceHistory ==
    ASSUME IInv, History, BreakSilence PROVE History'
  <1> SUFFICES ASSUME fresh' PROVE History'
    BY DEF History, Accounted, Earned
  <1> DEFINE m == FirstOf(child_buf)
  <1>1. /\ pc = "silence" /\ Complete(child_buf) /\ Take(m)
        /\ IF IsText(m) THEN UNCHANGED <<ret, cmd, pc, asleep>> ELSE Return(1)
        /\ UNCHANGED <<fromChild, pending, suite, test, fresh, attempts, all>>
    BY DEF BreakSilence, loopVars, suiteVars
  <1>2. fresh /\ pc \in Waiting /\ m = FirstOf(child_buf)
    BY <1>1 DEF Waiting
  <1> HIDE DEF m
  <1>3. /\ m.type \in Nat
        /\ Got \in Seq(Nat) /\ Got' = Got \o TypeOfFrame(m.type)
        /\ made' = made /\ made \in Seq(Nat) /\ taken' \in 0..Len(made)
        /\ Rest(made, taken') = TypesOf(Outbound')
    BY <1>1, <1>2, TookNext DEF History
  <1>4. Accounted'
    BY <1>3 DEF Accounted
  <1>5. CASE IsText(m)
    <2>1. Got' = Got
      BY <1>3, <1>5, ConcatEmptySeq DEF IsText, TypeOfFrame
    <2>2. Earned'
      BY <1>1, <1>5, <2>1, EarnedSame DEF History
    <2> QED
      BY <1>4, <2>2 DEF History
  <1>6. CASE ~IsText(m)
    BY <1>1, <1>4, <1>6 DEF Return, History, Earned
  <1> QED
    BY <1>5, <1>6

LEMMA WaitingHistory ==
    ASSUME IInv, History, Exhausted \/ CallSelect \/ ReadEnd \/ TimedOut PROVE History'
  <1>1. /\ pc \in {"silence", "expect"}
        /\ UNCHANGED <<suite, test, fresh, made, taken, child_buf, fromChild,
                       pending, attempts, all>>
    BY DEF Exhausted, CallSelect, ReadEnd, TimedOut, NeedsMore, suiteVars,
           historyVars, loopVars
  <1>2. Got' = Got /\ Outbound' = Outbound
    BY <1>1, GotSame DEF Outbound
  <1>3. Accounted'
    BY <1>1, <1>2, AccountedSame DEF History, Between
  <1>4. \/ UNCHANGED <<ret, cmd, pc>> \/ Return(1)
        \/ Return(0) /\ pc = "silence"
    BY DEF Exhausted, CallSelect, ReadEnd, TimedOut
  <1>5. 0 \in Result /\ 1 \in Result
    BY DEF Result
  <1>6. Earned'
    <2>1. CASE UNCHANGED <<ret, cmd, pc>>
      BY <1>1, <1>2, <2>1, EarnedSame DEF History
    <2>2. CASE Return(1)
      BY <1>1, <1>2, <1>5, <2>2, EarnedReturn DEF History
    <2>3. CASE Return(0) /\ pc = "silence"
      BY <1>1, <1>2, <1>5, <2>3, EarnedReturn DEF History
    <2> QED
      BY <1>4, <2>1, <2>2, <2>3
  <1> QED
    BY <1>3, <1>6 DEF History

\* Time passes, units move, the program reads or ends, or nothing happens.
LEMMA QuietHistory ==
    ASSUME IInv, History,
           \/ Tick \/ ReadChild
           \/ (LoopRead \/ WriteAll) /\ UNCHANGED <<harnessVars, made, faulty>>
           \/ ProgramEnds \/ UNCHANGED vars
    PROVE  History'
  <1>1. UNCHANGED <<suite, test, fresh, cmd, pc, attempts, all, ret, made, taken>>
    BY DEF Tick, ReadChild, ProgramEnds, harnessVars, vars, suiteVars, cmdVars,
           historyVars
  <1>2. Outbound' = Outbound
    <2>1. CASE ReadChild
      BY <2>1, ReadChildMoves
    <2>2. CASE WriteAll /\ UNCHANGED harnessVars
      BY <2>2, WriteAllMoves DEF harnessVars
    <2>3. CASE LoopRead /\ UNCHANGED harnessVars
      BY <2>3 DEF LoopRead, harnessVars, Outbound
    <2>4. CASE Tick \/ ProgramEnds \/ UNCHANGED vars
      BY <2>4 DEF Tick, ProgramEnds, vars, loopVars, harnessVars, Outbound
    <2> QED
      BY <2>1, <2>2, <2>3, <2>4
  <1>3. Accounted' /\ Earned'
    BY <1>1, <1>2, AccountedSame, EarnedSame, GotSame DEF History
  <1> QED
    BY <1>3 DEF History

\* loop() hands a message to the handler, which answers.
LEMMA HandleMoves ==
    ASSUME IInv, IInv', ProgramHandles, NEW m, m = FirstOf(inbuf)
    PROVE  /\ Leaves(m, Inbound, Inbound')
           /\ Outbound \in Seq(Unit) /\ pending' \in Seq(Unit)
           /\ Outbound' = Outbound \o pending'
  <1>1. /\ pending = <<>> /\ CanHandle /\ inbuf' = Rest(inbuf, m.size)
        /\ UNCHANGED <<toChild, unsent, child_buf, fromChild>>
    BY DEF ProgramHandles, LoopHandle, Shifted, harnessVars, cmdVars
  <1>2. /\ inbuf \in Seq(Unit) /\ toChild \in Seq(Unit) /\ unsent \in Seq(Unit)
        /\ Complete(inbuf) /\ Chained(Inbound)
    BY <1>1, KnownAreUnits DEF IInv, Streams, InFramed, CanHandle
  <1>3. Leaves(m, Inbound, Inbound')
    <2> DEFINE o == Inbound
               w == Inbound'
    <2>1. o = (inbuf \o toChild) \o unsent /\ Chained(o)
          /\ w = (Rest(inbuf, m.size) \o toChild) \o unsent
      BY <1>1, <1>2 DEF Inbound
    <2> HIDE DEF o, w
    <2>2. Leaves(m, o, w)
      BY <1>2, <2>1, FirstLeaves
    <2> QED
      BY <2>2 DEF o, w
  <1>4. pending' \in Seq(Unit)
    BY DEF IInv, Streams
  <1> DEFINE s == child_buf \o fromChild
  <1>5. s \in Seq(Unit) /\ Outbound = s \o <<>> /\ Outbound' = s \o pending'
    BY <1>1, ConcatProperties DEF IInv, Streams, Outbound
  <1> HIDE DEF s
  <1>6. Outbound = s
    BY <1>5, ConcatEmptySeq
  <1> QED
    BY <1>3, <1>4, <1>5, <1>6

\* What the handler sends is made, and on its way.
LEMMA HandleHistory ==
    ASSUME IInv, IInv', History, ProgramHandles PROVE History'
  <1> SUFFICES ASSUME fresh' PROVE History'
    BY DEF History, Accounted, Earned
  <1> DEFINE new == TypesOf(pending')
  <1>1. /\ made' = made \o new /\ child = "alive"
        /\ UNCHANGED <<suite, test, fresh, cmd, pc, attempts, all, ret, taken>>
    BY DEF ProgramHandles, LoopHandle, harnessVars, suiteVars, cmdVars
  <1>2. pc \notin Between /\ fresh
    BY <1>1 DEF IInv, Idle, Between
  <1>3. /\ made \in Seq(Nat) /\ taken \in 0..Len(made) /\ Len(made) \in Nat
        /\ Rest(made, taken) = TypesOf(Outbound)
    BY <1>2, LenProperties DEF History, Accounted
  <1>4. /\ Outbound \in Seq(Unit) /\ pending' \in Seq(Unit)
        /\ Outbound' = Outbound \o pending'
    BY HandleMoves
  <1>5. /\ TypesOf(Outbound') = TypesOf(Outbound) \o new /\ new \in Seq(Nat)
    BY <1>4, TypesOfConcat
  <1>6. /\ Rest(made \o new, taken) = Rest(made, taken) \o new
        /\ Front(made \o new, taken) = Front(made, taken)
        /\ made \o new \in Seq(Nat) /\ Len(made \o new) = Len(made) + Len(new)
        /\ Len(new) \in Nat
    BY <1>3, <1>5, CutOfConcat
  <1> HIDE DEF new
  <1>7. Accounted'
    <2>1. taken' \in 0..Len(made')
      BY <1>1, <1>3, <1>6
    <2>2. Rest(made', taken') = TypesOf(Outbound')
      BY <1>1, <1>3, <1>5, <1>6
    <2> QED
      BY <1>1, <1>6, <2>1, <2>2 DEF Accounted
  <1>8. Got' = Got
    BY <1>1, <1>6 DEF Got
  <1> QED
    BY <1>1, <1>7, <1>8, EarnedSame DEF History

LEMMA NextHistory == IInv /\ IInv' /\ History /\ [Next]_vars => History'
  <1> SUFFICES ASSUME IInv, IInv', History, [Next]_vars PROVE History'
    OBVIOUS
  <1>1. CASE Launch \/ LaunchFails \/ Cleanup
    BY <1>1, LaunchHistory, RecordHistory DEF LaunchFails, Cleanup
  <1>2. CASE SendMacs \/ RunCommand
    BY <1>2, SendMacsHistory, RunCommandHistory
  <1>3. CASE Write \/ WriteFails
    BY <1>3, WriteHistory
  <1>4. CASE TryMessage \/ BreakSilence
    BY <1>4, TryMessageHistory, BreakSilenceHistory
  <1>5. CASE Exhausted \/ CallSelect \/ ReadEnd \/ TimedOut
    BY <1>5, WaitingHistory
  <1>6. CASE Tick \/ ReadChild \/ ProgramEnds \/ UNCHANGED vars
    BY <1>6, QuietHistory
  <1>7. CASE Program
    BY <1>7, QuietHistory, HandleHistory DEF Program
  <1> QED
    BY <1>1, <1>2, <1>3, <1>4, <1>5, <1>6, <1>7 DEF Next, HarnessStep

LEMMA HistoryInductive == Spec => []History
  <1> QED
    BY Inductive, InitHistory, NextHistory, PTL DEF Spec
-----------------------------------------------------------------------------
(***************************************************************************)
(* The answers a test still waits for.                                     *)
(***************************************************************************)
\* The interfaces of a test with n interfaces, but for t.
Others(n, t) == (1..n) \ {t}

\* to names every member of S, once.
Exact(to, S) == Len(to) = Cardinality(S) /\ {to[j] : j \in DOMAIN to} = S

LEMMA SameFirst ==
    ASSUME NEW x \in Nat, NEW y \in Nat, NEW p \in Seq(Nat), NEW q \in Seq(Nat),
           <<x>> \o p = <<y>> \o q
    PROVE  x = y /\ p = q
  <1> DEFINE o == <<x>>
             u == <<y>>
             k == 1
  <1>1. /\ o \in Seq(Nat) /\ u \in Seq(Nat)
        /\ k = Len(o) /\ k = Len(u) /\ o[1] = x /\ u[1] = y /\ k = 1
    BY OneNatural
  <1>2. o \o p = u \o q
    OBVIOUS
  <1> HIDE DEF o, u, k
  <1> DEFINE a == Len(p)
             b == Len(q)
  <1>3. a = Len(p) /\ b = Len(q)
    OBVIOUS
  <1> HIDE DEF a, b
  <1>4. /\ a \in Nat /\ b \in Nat
        /\ \A j \in 1..(k + a) : (o \o p)[j] = IF j <= k THEN o[j] ELSE p[j - k]
        /\ \A j \in 1..(k + b) : (u \o q)[j] = IF j <= k THEN u[j] ELSE q[j - k]
    <2>1. o \in Seq(Nat) /\ p \in Seq(Nat) /\ k = Len(o) /\ a = Len(p)
      BY <1>1, <1>3
    <2>2. /\ a \in Nat
          /\ \A j \in 1..(k + a) : (o \o p)[j] = IF j <= k THEN o[j] ELSE p[j - k]
      BY <2>1, ConcatAt
    <2>3. u \in Seq(Nat) /\ q \in Seq(Nat) /\ k = Len(u) /\ b = Len(q)
      BY <1>1, <1>3
    <2>4. /\ b \in Nat
          /\ \A j \in 1..(k + b) : (u \o q)[j] = IF j <= k THEN u[j] ELSE q[j - k]
      BY <2>3, ConcatAt
    <2> QED
      BY <2>2, <2>4
  <1>5. (o \o p)[1] = o[1] /\ (u \o q)[1] = u[1]
    <2>1. 1 \in 1..(k + a) /\ 1 \in 1..(k + b) /\ 1 <= k
      BY <1>1, <1>4
    <2> QED
      BY <1>4, <2>1
  <1>6. x = y
    BY <1>1, <1>2, <1>5
  <1>7. o = u
    BY <1>6 DEF o, u
  <1>8. p = q
    BY <1>1, <1>2, <1>7, ConcatSimplifications
  <1> QED
    BY <1>6, <1>8

LEMMA ExactNone ==
    ASSUME NEW to \in Seq(Nat)
    PROVE  Exact(to, {}) <=> to = <<>>
  <1>1. Cardinality({}) = 0
    BY FS_EmptySet
  <1>2. Len(<<>>) = 0 /\ DOMAIN <<>> = {}
    OBVIOUS
  <1>3. Len(to) = 0 => to = <<>>
    BY EmptySeq
  <1> QED
    BY <1>1, <1>2, <1>3 DEF Exact

\* The first of several: what remains is one less.
LEMMA ExactFirst ==
    ASSUME NEW S, IsFiniteSet(S), NEW t \in Nat, NEW p \in Seq(Nat),
           Exact(<<t>> \o p, S)
    PROVE  t \in S /\ Exact(p, S \ {t})
  <1> DEFINE o == <<t>>
             k == 1
             a == Len(p)
             c == o \o p
             R == {p[j] : j \in 1..a}
  <1>1. /\ o \in Seq(Nat) /\ k = Len(o) /\ o[1] = t /\ k = 1 /\ a = Len(p)
        /\ DOMAIN p = 1..a /\ a \in Nat
    BY OneNatural, LenProperties
  <1>2. c = o \o p /\ Exact(c, S)
    OBVIOUS
  <1> HIDE DEF o, k, a, c
  <1>3. /\ c \in Seq(Nat) /\ Len(c) = k + a
        /\ \A j \in 1..(k + a) : c[j] = IF j <= k THEN o[j] ELSE p[j - k]
    <2>1. o \in Seq(Nat) /\ p \in Seq(Nat) /\ k = Len(o) /\ a = Len(p)
      BY <1>1
    <2>2. /\ o \o p \in Seq(Nat) /\ Len(o \o p) = k + a
          /\ \A j \in 1..(k + a) : (o \o p)[j] = IF j <= k THEN o[j] ELSE p[j - k]
      BY <2>1, ConcatAt
    <2> QED
      BY <1>2, <2>2
  <1>4. Cardinality(S) = a + 1 /\ {c[j] : j \in 1..(a + 1)} = S
    <2>1. DOMAIN c = 1..Len(c) /\ Len(c) = a + 1
      BY <1>1, <1>3, LenProperties
    <2> QED
      BY <1>2, <2>1 DEF Exact
  <1>5. c[1] = t /\ \A j \in 1..a : c[j + 1] = p[j]
    <2>1. 1 \in 1..(k + a) /\ 1 <= k
      BY <1>1
    <2>2. ASSUME NEW j \in 1..a PROVE c[j + 1] = p[j]
      <3>1. j + 1 \in 1..(k + a) /\ ~(j + 1 <= k) /\ (j + 1) - k = j
        BY <1>1
      <3> QED
        BY <1>3, <3>1
    <2> QED
      BY <1>1, <1>3, <2>1, <2>2
  <1>6. S = R \cup {t}
    <2>1. ASSUME NEW x \in S PROVE x \in R \cup {t}
      <3>1. PICK j \in 1..(a + 1) : c[j] = x
        BY <1>4
      <3>2. CASE j = 1
        BY <1>5, <3>1, <3>2
      <3>3. CASE j # 1
        <4>1. j - 1 \in 1..a /\ (j - 1) + 1 = j
          BY <1>1, <3>3
        <4> QED
          BY <1>5, <3>1, <4>1
      <3> QED
        BY <3>2, <3>3
    <2>2. t \in S
      <3>1. 1 \in 1..(a + 1)
        BY <1>1
      <3> QED
        BY <1>4, <1>5, <3>1
    <2>3. ASSUME NEW j \in 1..a PROVE p[j] \in S
      <3>1. j + 1 \in 1..(a + 1)
        BY <1>1
      <3> QED
        BY <1>4, <1>5, <3>1
    <2> QED
      BY <2>1, <2>2, <2>3
  <1>7. IsFiniteSet(R) /\ Cardinality(R) <= a /\ Cardinality(R) \in Nat
    <2>1. p \in [1..a -> R]
      BY <1>1
    <2>2. p \in Surjection(1..a, R)
      BY <2>1 DEF Surjection
    <2>3. IsFiniteSet(1..a) /\ Cardinality(1..a) = a
      <3>1. a \in Nat
        BY <1>1
      <3> QED
        BY <3>1, FS_Interval
    <2> HIDE DEF R
    <2>4. IsFiniteSet(R) /\ Cardinality(R) <= a
      BY <2>2, <2>3, FS_Surjection
    <2> QED
      BY <2>4, FS_CardinalityType
  <1> HIDE DEF R
  <1>8. t \notin R
    <2> SUFFICES ASSUME t \in R PROVE FALSE
      OBVIOUS
    <2>1. S = R
      BY <1>6
    <2> QED
      BY <1>1, <1>4, <1>7, <2>1
  <1>9. t \in S /\ S \ {t} = R
    BY <1>6, <1>8
  <1>10. Cardinality(S \ {t}) = a
    <2>1. Cardinality(S \ {t}) = Cardinality(S) - 1
      BY <1>9, FS_RemoveElement
    <2> QED
      BY <1>1, <1>4, <2>1
  <1> QED
    BY <1>1, <1>9, <1>10 DEF Exact, R

LEMMA FirstAndRest ==
    ASSUME NEW t \in Nat, NEW p \in Seq(Nat), NEW S, <<t>> \o p \in Seq(S)
    PROVE  t \in S /\ p \in Seq(S)
  <1> DEFINE o == <<t>>
             c == o \o p
             k == 1
             a == Len(p)
  <1>1. o \in Seq(Nat) /\ p \in Seq(Nat) /\ k = Len(o) /\ a = Len(p)
    BY OneNatural
  <1>2. o[1] = t /\ k = 1 /\ c = o \o p /\ c \in Seq(S) /\ DOMAIN p = 1..a
    BY LenProperties
  <1> HIDE DEF o, c, k, a
  <1>3. /\ Len(o \o p) = k + a /\ a \in Nat
        /\ \A j \in 1..(k + a) : (o \o p)[j] = IF j <= k THEN o[j] ELSE p[j - k]
    BY <1>1, ConcatAt
  <1>4. ASSUME NEW j \in 1..(k + a) PROVE c[j] \in S
    <2>1. j \in 1..Len(c)
      BY <1>2, <1>3
    <2> QED
      BY <1>2, <2>1, ElementOfSeq
  <1>5. t \in S
    <2>1. 1 \in 1..(k + a) /\ 1 <= k
      BY <1>2, <1>3
    <2>2. c[1] = t
      BY <1>2, <1>3, <2>1
    <2> QED
      BY <1>4, <2>1, <2>2
  <1>6. ASSUME NEW j \in 1..a PROVE p[j] \in S
    <2>1. j + 1 \in 1..(k + a) /\ ~(j + 1 <= k) /\ (j + 1) - k = j
      BY <1>2, <1>3
    <2>2. c[j + 1] = p[j]
      BY <1>2, <1>3, <2>1
    <2> QED
      BY <1>4, <2>1, <2>2
  <1>7. p \in Seq(S)
    <2>1. \A j \in 1..a : p[j] \in S
      BY <1>6
    <2>2. p = [j \in 1..a |-> p[j]]
      BY <1>1, <1>2
    <2>3. p \in [1..a -> S]
      BY <2>1, <2>2
    <2> QED
      BY <1>3, <2>3, FunctionIsSeq
  <1> QED
    BY <1>5, <1>7

\* The types sent to a program: the MAC list, until it has been read, and
\* frames on the n interfaces of the test.
AsSent(types, mac, n) ==
    /\ types = (IF mac THEN <<>> ELSE <<0>>) \o Frames(types)
    /\ Frames(types) \in Seq(1..n)

\* A hub still sends, or has yet to take, what is due on each member of S: the
\* answers are on their way, or the frame is.  A test with one interface
\* does not wait for its frames to be read.
Coming(n, in, out, S) ==
    \/ Exact(out, S) /\ (in = <<>> \/ n <= 1)
    \/ out = <<>> /\ Len(in) = 1 /\ Others(n, in[1]) = S

LEMMA AsSentStart ==
    ASSUME NEW n \in Nat
    PROVE  /\ AsSent(<<0>>, FALSE, n) /\ Frames(<<0>>) = <<>>
           /\ Coming(n, <<>>, <<>>, {})
  <1>1. Frames(<<0>>) = <<>>
    BY FramesOfOne DEF TypeOfFrame
  <1>2. <<0>> \o <<>> = <<0>> /\ <<>> \in Seq(1..n)
    <2> DEFINE o == <<0>>
    <2>1. o \in Seq(Nat)
      BY OneNatural
    <2> HIDE DEF o
    <2>2. o \o <<>> = o
      BY <2>1, ConcatEmptySeq
    <2> QED
      BY <2>2, EmptySeq DEF o
  <1>3. Exact(<<>>, {})
    BY ExactNone, EmptySeq
  <1> QED
    BY <1>1, <1>2, <1>3 DEF AsSent, Coming

LEMMA AsSentAppend ==
    ASSUME NEW n \in Nat, NEW mac, NEW types \in Seq(Nat), AsSent(types, mac, n),
           NEW t \in 1..n
    PROVE  /\ AsSent(types \o <<t>>, mac, n)
           /\ Frames(types \o <<t>>) = Frames(types) \o <<t>>
  <1> DEFINE o == <<t>>
             b == IF mac THEN <<>> ELSE <<0>>
             f == Frames(types)
  <1>1. t \in Nat /\ t # 0 /\ 0 \in Nat
    OBVIOUS
  <1>2. o \in Seq(Nat) /\ b \in Seq(Nat) /\ o \in Seq(1..n)
    BY <1>1, OneNatural
  <1>3. Frames(types \o o) = f \o o /\ f \in Seq(Nat)
    BY <1>1, FramesOfAppend DEF TypeOfFrame
  <1>4. types = b \o f /\ f \in Seq(1..n)
    BY DEF AsSent
  <1> HIDE DEF o, b, f
  <1>5. (b \o f) \o o = b \o (f \o o)
    BY <1>2, <1>3, NaturalsAssociative, Zenon
  <1>6. f \o o \in Seq(1..n)
    BY <1>2, <1>4, ConcatProperties
  <1>7. types \o o = b \o Frames(types \o o)
    BY <1>3, <1>4, <1>5
  <1> QED
    BY <1>3, <1>6, <1>7 DEF AsSent, o, b, f

\* The first message is the MAC list or, once that has been read, a frame.
Begins(t, w, mac, n) ==
    /\ mac => t \in 1..n /\ Frames(<<t>> \o w) = <<t>> \o Frames(w)
    /\ ~mac => t = 0 /\ Frames(<<t>> \o w) = Frames(w)
    /\ AsSent(w, TRUE, n) /\ Frames(w) \in Seq(Nat)

LEMMA AsSentNext ==
    ASSUME NEW n \in Nat, NEW mac \in BOOLEAN, NEW t \in Nat, NEW w \in Seq(Nat),
           AsSent(<<t>> \o w, mac, n)
    PROVE  Begins(t, w, mac, n)
  <1> DEFINE o == <<t>>
             c == o \o w
             f == Frames(w)
             z == <<0>>
  <1>1. o \in Seq(Nat) /\ Frames(o) = TypeOfFrame(t)
    BY OneNatural, FramesOfOne
  <1> HIDE DEF o, z
  <1>2. /\ c \in Seq(Nat) /\ Frames(c) = Frames(o) \o f /\ f \in Seq(Nat)
        /\ Frames(c) \in Seq(1..n)
    BY <1>1, FramesOfConcat, ConcatProperties DEF AsSent, o
  <1>3. c = (IF mac THEN <<>> ELSE z) \o Frames(c)
    BY DEF AsSent, o, z
  <1> HIDE DEF c, f
  <1>4. Frames(c) \in Seq(Nat)
    <2>1. 1..n \subseteq Nat
      OBVIOUS
    <2> QED
      BY <1>2, <2>1, SeqMonotonic
  <1>5. <<>> \o f = f /\ f = <<>> \o f
    BY <1>2, ConcatEmptySeq
  <1>6. CASE mac
    <2>1. c = Frames(c)
      BY <1>3, <1>4, <1>6, ConcatEmptySeq
    <2>2. t \in 1..n /\ w \in Seq(1..n)
      <3>1. c \in Seq(1..n)
        BY <1>2, <2>1
      <3>2. <<t>> \o w \in Seq(1..n)
        BY <3>1 DEF c, o
      <3> QED
        BY <3>2, FirstAndRest
    <2>3. Frames(o) = o
      BY <1>1, <2>2 DEF TypeOfFrame, o
    <2>4. c = o \o f
      BY <1>2, <2>1, <2>3
    <2>5. w = f
      <3>1. <<t>> \o w = <<t>> \o f
        BY <2>4 DEF c, o
      <3> QED
        BY <1>2, <3>1, SameFirst
    <2>6. f \in Seq(1..n)
      BY <2>2, <2>5
    <2> QED
      BY <1>2, <1>5, <1>6, <2>2, <2>3, <2>5, <2>6 DEF AsSent, Begins, c, f, o
  <1>7. CASE ~mac
    <2>1. z \o Frames(c) = o \o w
      BY <1>3, <1>7 DEF c
    <2>2. t = 0 /\ w = Frames(c)
      <3>1. <<0>> \o Frames(c) = <<t>> \o w
        BY <2>1 DEF z, o
      <3> QED
        BY <1>4, <3>1, SameFirst
    <2>3. Frames(c) = f
      BY <1>1, <1>2, <1>5, <2>2 DEF TypeOfFrame
    <2> QED
      BY <1>2, <1>5, <1>7, <2>2, <2>3 DEF AsSent, Begins, c, f, o
  <1> QED
    BY <1>6, <1>7

LEMMA OthersProperties ==
    ASSUME NEW n \in Nat, NEW t \in 1..n
    PROVE  /\ IsFiniteSet(Others(n, t)) /\ Others(n, t) \subseteq Nat
           /\ Others(n, t) = {} <=> n <= 1
  <1>1. IsFiniteSet(1..n)
    BY FS_Interval
  <1>2. IsFiniteSet(Others(n, t)) /\ Others(n, t) \subseteq Nat
    BY <1>1, FS_Subset DEF Others
  <1>3. CASE n <= 1
    BY <1>2, <1>3 DEF Others
  <1>4. CASE n > 1
    <2>1. \E i \in 1..n : i # t
      <3>1. CASE t = 1
        BY <1>4, <3>1
      <3>2. CASE t # 1
        BY <1>4, <3>2
      <3> QED
        BY <3>1, <3>2
    <2> QED
      BY <1>2, <1>4, <2>1 DEF Others
  <1> QED
    BY <1>3, <1>4

\* A frame is sent once nothing is due.
LEMMA ComingSent ==
    ASSUME NEW n \in Nat, NEW t \in 1..n, NEW in \in Seq(1..n), NEW out \in Seq(Nat),
           Coming(n, in, out, {})
    PROVE  Coming(n, in \o <<t>>, out, Others(n, t))
  <1>1. out = <<>> /\ (in = <<>> \/ n <= 1)
    <2>1. CASE Exact(out, {}) /\ (in = <<>> \/ n <= 1)
      BY <2>1, ExactNone
    <2>2. CASE out = <<>> /\ Len(in) = 1 /\ Others(n, in[1]) = {}
      <3>1. 1 \in 1..Len(in)
        BY <2>2
      <3>2. in[1] \in 1..n
        BY <3>1, ElementOfSeq
      <3> QED
        BY <2>2, <3>2, OthersProperties
    <2> QED
      BY <2>1, <2>2 DEF Coming
  <1>2. CASE n <= 1
    <2>1. Others(n, t) = {}
      BY <1>2, OthersProperties
    <2>2. Exact(out, {})
      BY <1>1, ExactNone
    <2> QED
      BY <1>2, <2>1, <2>2 DEF Coming
  <1>3. CASE in = <<>>
    <2> DEFINE o == <<t>>
    <2>1. o \in Seq(Nat) /\ Len(o) = 1 /\ o[1] = t
      BY OneNatural
    <2> HIDE DEF o
    <2>2. in \o o = o
      BY <1>3, <2>1, ConcatEmptySeq
    <2>3. Coming(n, in \o o, out, Others(n, t))
      BY <1>1, <2>1, <2>2 DEF Coming
    <2> QED
      BY <2>3 DEF o
  <1> QED
    BY <1>1, <1>2, <1>3

\* The program reads a frame and sends it on as it should.
LEMMA ComingAnswered ==
    ASSUME NEW n \in Nat, NEW t \in 1..n, NEW in \in Seq(Nat), NEW out \in Seq(Nat),
           NEW new \in Seq(Nat), Exact(new, Others(n, t)), NEW S,
           Coming(n, <<t>> \o in, out, S)
    PROVE  Coming(n, in, out \o new, S)
  <1> DEFINE o == <<t>>
             c == o \o in
             k == 1
             a == Len(in)
  <1>1. o \in Seq(Nat) /\ in \in Seq(Nat) /\ k = Len(o) /\ a = Len(in)
    BY OneNatural
  <1>2. o[1] = t /\ k = 1 /\ c = o \o in /\ Coming(n, c, out, S)
    OBVIOUS
  <1> HIDE DEF o, c, k, a
  <1>3. /\ Len(o \o in) = k + a /\ a \in Nat
        /\ \A j \in 1..(k + a) : (o \o in)[j] = IF j <= k THEN o[j] ELSE in[j - k]
    BY <1>1, ConcatAt
  <1>4. Len(c) = a + 1 /\ c[1] = t /\ c # <<>>
    <2>1. 1 \in 1..(k + a) /\ 1 <= k
      BY <1>2, <1>3
    <2>2. Len(c) = a + 1 /\ c[1] = t
      BY <1>2, <1>3, <2>1
    <2> QED
      BY <1>3, <2>2, EmptySeq
  <1>5. CASE Exact(out, S) /\ n <= 1
    <2>1. new = <<>>
      BY <1>5, OthersProperties, ExactNone
    <2>2. out \o new = out
      BY <2>1, ConcatEmptySeq
    <2> QED
      BY <1>5, <2>2 DEF Coming
  <1>6. CASE out = <<>> /\ Len(c) = 1 /\ Others(n, c[1]) = S
    <2>1. in = <<>>
      <3>1. Len(in) = 0
        BY <1>1, <1>3, <1>4, <1>6
      <3> QED
        BY <3>1, EmptySeq
    <2>2. out \o new = new
      BY <1>6, ConcatEmptySeq
    <2> QED
      BY <1>4, <1>6, <2>1, <2>2 DEF Coming
  <1> QED
    BY <1>2, <1>4, <1>5, <1>6 DEF Coming

\* What the test takes from the program was due.
LEMMA ComingTaken ==
    ASSUME NEW n \in Nat, NEW in, NEW t \in Nat, NEW out \in Seq(Nat),
           NEW S, IsFiniteSet(S), Coming(n, in, <<t>> \o out, S)
    PROVE  t \in S /\ Coming(n, in, out, S \ {t})
  <1>1. <<t>> \o out # <<>>
    <2> DEFINE o == <<t>>
    <2>1. o \in Seq(Nat) /\ o # <<>>
      BY OneNatural
    <2> HIDE DEF o
    <2>2. o \o out # <<>>
      BY <2>1, ConcatSimplifications
    <2> QED
      BY <2>2 DEF o
  <1>2. Exact(<<t>> \o out, S) /\ (in = <<>> \/ n <= 1)
    BY <1>1 DEF Coming
  <1>3. t \in S /\ Exact(out, S \ {t})
    BY <1>2, ExactFirst
  <1> QED
    BY <1>2, <1>3 DEF Coming

-----------------------------------------------------------------------------
(***************************************************************************)
(* Whose frames they are.  A test knows its own frames, and meets no others*)
(* if nothing was left to it.                                              *)
(***************************************************************************)
OwnUnit(id) == [msg : {m \in Msg : m.id = id}, k : Nat]

Owns(id) == Inbound \in Seq(OwnUnit(id)) /\ Outbound \in Seq(OwnUnit(id))

Own == fresh /\ pc \notin Between => Owns(FrameId)

LEMMA OwnLeaves ==
    ASSUME NEW id, NEW m, NEW o \in Seq(OwnUnit(id)), NEW w, Leaves(m, o, w)
    PROVE  m.id = id /\ w \in Seq(OwnUnit(id))
  <1>1. o \in Seq(Unit) /\ o # <<>> /\ o[1].msg = m
    BY DEF Leaves
  <1>2. PICK n \in 0..Len(o) : w = Rest(o, n)
    BY DEF Leaves
  <1>3. w \in Seq(OwnUnit(id))
    BY <1>2, CutProperties
  <1>4. 1 \in 1..Len(o)
    BY <1>1, LenProperties, EmptySeq
  <1>5. o[1] \in OwnUnit(id)
    BY <1>4, ElementOfSeq
  <1>6. m.id = id
    BY <1>1, <1>5 DEF OwnUnit
  <1> QED
    BY <1>3, <1>6

\* meta() and tsend(), and loop's handler.
LEMMA OwnMessage ==
    ASSUME NEW id, NEW m \in Msg, m.id = id
    PROVE  /\ UnitsOf(m) \in Seq(OwnUnit(id))
           /\ \A types \in Seq(Nat) : ReplyUnits(m, types) \in Seq(OwnUnit(id))
  <1> DEFINE M == {x \in Msg : x.id = id}
  <1>1. M \in SUBSET Msg /\ m \in M
    OBVIOUS
  <1>2. UnitsOf(m) \in Seq(OwnUnit(id))
    <2> HIDE DEF M
    <2>1. UnitsOf(m) \in Seq([msg : M, k : Nat])
      BY <1>1, UnitsOfChained
    <2> QED
      BY <2>1 DEF M, OwnUnit
  <1>3. ASSUME NEW types \in Seq(Nat) PROVE ReplyUnits(m, types) \in Seq(OwnUnit(id))
    <2> DEFINE f == ReplyUnits(m, types)
               l == Len(f)
    <2>1. f \in Seq(Unit) /\ \A u \in 1..l : f[u].msg.id = m.id
      BY ReplyUnitsChained
    <2> HIDE DEF f
    <2>2. l \in Nat /\ DOMAIN f = 1..l /\ \A u \in 1..l : f[u] \in Unit
      BY <2>1, LenProperties, ElementOfSeq
    <2>3. \A u \in 1..l : f[u] \in OwnUnit(id)
      BY <2>1, <2>2 DEF Unit, OwnUnit
    <2>4. f = [u \in 1..l |-> f[u]]
      BY <2>1, <2>2
    <2> HIDE DEF l
    <2>5. f \in [1..l -> OwnUnit(id)]
      BY <2>3, <2>4
    <2> QED
      BY <2>2, <2>5, FunctionIsSeq DEF f
  <1> QED
    BY <1>2, <1>3

\* A message of a test: its units, and the type that it adds.
LEMMA SentMessage ==
    ASSUME IInv, NEW t \in Nat, NEW size \in Size, NEW id, id = FrameId,
           NEW m, m = Message(t, t, id, size)
    PROVE  /\ UnitsOf(m) \in Seq(OwnUnit(id)) /\ UnitsOf(m) \in Seq(Unit)
           /\ TypesOf(UnitsOf(m)) = <<t>>
  <1>1. id \in Nat
    BY DEF FrameId, IInv, Scalars
  <1>2. m \in Msg /\ m.id = id /\ m.type = t
    BY <1>1 DEF Message, Msg
  <1>3. UnitsOf(m) \in Seq(OwnUnit(id))
    BY <1>2, OwnMessage
  <1>4. OwnUnit(id) \subseteq Unit
    BY DEF OwnUnit, Unit
  <1>5. UnitsOf(m) \in Seq(Unit)
    BY <1>3, <1>4, SeqMonotonic
  <1> QED
    BY <1>2, <1>3, <1>5, TypesOfUnits

LEMMA SendMacsAdds ==
    ASSUME IInv, SendMacs, pc' = "run"
    PROVE  Inbound' = UnitsOf(Message(0, 0, FrameId, MACS)) /\ Inbound = <<>>
  <1> DEFINE u == UnitsOf(Message(0, 0, FrameId, MACS))
  <1>1. /\ pc = "macs" /\ toChild' = u /\ UNCHANGED <<inbuf, unsent>>
    BY DEF SendMacs, loopVars, cmdVars
  <1>2. inbuf = <<>> /\ unsent = <<>> /\ toChild = <<>>
    BY <1>1 DEF IInv, Idle, Between
  <1>3. u \in Seq(KnownUnit)
    BY MessageToChild, Constants DEF IInv
  <1> HIDE DEF u
  <1>4. Inbound' = u
    BY <1>1, <1>2, <1>3, ConcatEmptySeq DEF Inbound
  <1>5. Inbound = <<>>
    BY <1>2, EmptyStream DEF Inbound
  <1> QED
    BY <1>4, <1>5 DEF u

LEMMA RunCommandAdds ==
    ASSUME IInv, RunCommand, pc' = "send"
    PROVE  /\ Command.op = "send" /\ cmd \in 1..Len(Running.cmds)
           /\ Command.ifc \in Nat
           /\ Inbound \in Seq(Unit)
           /\ Inbound' = Inbound
                \o UnitsOf(Message(Command.ifc, Command.ifc, FrameId, FRAME))
  <1> DEFINE u == UnitsOf(Message(Command.ifc, Command.ifc, FrameId, FRAME))
             s == inbuf \o toChild
  <1>1. /\ pc = "run" /\ cmd <= Len(Running.cmds) /\ Command.op = "send"
        /\ unsent' = u
        /\ UNCHANGED <<inbuf, toChild>>
    BY DEF RunCommand, loopVars
  <1>2. cmd \in 1..Len(Running.cmds) /\ Command.ifc \in Nat
    <2>1. cmd \in 1..Len(Running.cmds)
      BY <1>1 DEF IInv, Scalars
    <2> QED
      BY <2>1, RunningTest DEF IInv, Command
  <1>3. s \in Seq(Unit)
    <2>1. inbuf \in Seq(Unit) /\ toChild \in Seq(Unit)
      BY KnownAreUnits DEF IInv, Streams
    <2> QED
      BY <2>1, ConcatProperties
  <1>4. Inbound = s \o <<>> /\ Inbound' = s \o u
    BY <1>1 DEF IInv, Idle, Inbound, Between
  <1> HIDE DEF s, u
  <1>5. Inbound = s
    BY <1>3, <1>4, ConcatEmptySeq
  <1> QED
    BY <1>1, <1>2, <1>3, <1>4, <1>5 DEF u

LEMMA OwnSame ==
    ASSUME Own, Inbound' = Inbound, Outbound' = Outbound, UNCHANGED <<test, fresh>>,
           pc \in Between => pc' \in Between
    PROVE  Own'
  <1>1. FrameId' = FrameId
    BY DEF FrameId
  <1> QED
    BY <1>1 DEF Own, Owns

LEMMA InitOwn == Init => Own
  BY DEF Init, Own, Between

\* meta() and tsend().
LEMMA OwnSent ==
    ASSUME IInv, Own, SendMacs \/ RunCommand PROVE Own'
  <1>1. /\ pc \in {"macs", "run"}
        /\ UNCHANGED <<test, fresh, inbuf, child_buf, fromChild, pending>>
    BY DEF SendMacs, RunCommand, suiteVars, loopVars
  <1>2. Outbound' = Outbound
    BY <1>1 DEF Outbound
  <1>3. CASE UNCHANGED <<toChild, unsent>>
    <2>1. Inbound' = Inbound
      BY <1>1, <1>3 DEF Inbound
    <2> QED
      BY <1>1, <1>2, <2>1, OwnSame DEF Between
  <1> DEFINE id == FrameId
  <1>4. ASSUME fresh PROVE Owns(id) /\ id = FrameId
    BY <1>1, <1>4 DEF Own, Between
  <1>5. ASSUME fresh => Inbound' \in Seq(OwnUnit(id)) PROVE Own'
    <2>1. FrameId' = FrameId
      BY <1>1 DEF FrameId
    <2>2. fresh => Outbound' \in Seq(OwnUnit(id))
      BY <1>2, <1>4 DEF Owns
    <2> QED
      BY <1>1, <1>5, <2>1, <2>2 DEF Own, Owns
  <1>6. ASSUME SendMacs, pc' = "run" PROVE Own'
    <2> SUFFICES ASSUME fresh PROVE Inbound' \in Seq(OwnUnit(id))
      BY <1>5
    <2> DEFINE m == Message(0, 0, id, MACS)
    <2>1. Inbound' = UnitsOf(m)
      BY <1>6, SendMacsAdds
    <2>2. MACS \in Size /\ id = FrameId /\ m = Message(0, 0, id, MACS)
      BY Constants
    <2> HIDE DEF id, m
    <2>3. UnitsOf(m) \in Seq(OwnUnit(id))
      BY <2>2, SentMessage
    <2> QED
      BY <2>1, <2>3
  <1>7. ASSUME RunCommand, pc' = "send" PROVE Own'
    <2> SUFFICES ASSUME fresh PROVE Inbound' \in Seq(OwnUnit(id))
      BY <1>5
    <2> DEFINE t == Command.ifc
               m == Message(t, t, id, FRAME)
               u == UnitsOf(m)
    <2>1. Inbound' = Inbound \o u /\ t \in Nat
      BY <1>7, RunCommandAdds
    <2>2. FRAME \in Size /\ id = FrameId /\ m = Message(t, t, id, FRAME)
      BY Constants
    <2>3. Inbound \in Seq(OwnUnit(id))
      BY <1>4 DEF Owns
    <2> HIDE DEF id, m, t
    <2>4. u \in Seq(OwnUnit(id))
      BY <2>1, <2>2, SentMessage
    <2> HIDE DEF u
    <2> QED
      BY <2>1, <2>3, <2>4, ConcatProperties
  <1> QED
    <2>1. CASE SendMacs
      BY <1>3, <1>6, <2>1 DEF SendMacs, cmdVars
    <2>2. CASE RunCommand
      BY <1>3, <1>7, <2>2 DEF RunCommand, cmdVars
    <2> QED
      BY <2>1, <2>2

LEMMA OwnTaken ==
    ASSUME IInv, Own, TryMessage \/ BreakSilence PROVE Own'
  <1> SUFFICES ASSUME fresh' PROVE Own'
    BY DEF Own
  <1> DEFINE m == FirstOf(child_buf)
             id == FrameId
  <1>1. /\ pc \in Waiting /\ Complete(child_buf) /\ Take(m) /\ m = FirstOf(child_buf)
        /\ UNCHANGED <<test, fresh, inbuf, toChild, unsent, fromChild, pending>>
    BY DEF TryMessage, BreakSilence, suiteVars, loopVars, Waiting
  <1>2. FrameId' = id
    BY <1>1 DEF FrameId
  <1> HIDE DEF m
  <1>3. Leaves(m, Outbound, Outbound')
    BY <1>1, TakeMoves
  <1>4. Inbound \in Seq(OwnUnit(id)) /\ Outbound \in Seq(OwnUnit(id))
    BY <1>1 DEF Own, Owns, Waiting, Between
  <1> HIDE DEF id
  <1>5. Outbound' \in Seq(OwnUnit(id))
    BY <1>3, <1>4, OwnLeaves
  <1>6. Inbound' = Inbound
    BY <1>1 DEF Inbound
  <1> QED
    BY <1>2, <1>4, <1>5, <1>6 DEF Own, Owns

LEMMA OwnHandled ==
    ASSUME IInv, IInv', Own, ProgramHandles PROVE Own'
  <1> SUFFICES ASSUME fresh' PROVE Own'
    BY DEF Own
  <1> DEFINE m == FirstOf(inbuf)
             id == FrameId
  <1>1. /\ m = FirstOf(inbuf) /\ pending = <<>> /\ child = "alive"
        /\ \/ UNCHANGED pending
           \/ \E types \in Reply[m.type] : pending' = ReplyUnits(m, types)
        /\ inbuf # <<>> /\ UNCHANGED <<test, fresh>>
    <2>1. Len(inbuf) > HDR
      BY DEF ProgramHandles, LoopHandle, CanHandle
    <2>2. inbuf # <<>>
      BY <2>1, EmptyStream, Constants
    <2> QED
      BY <2>2 DEF ProgramHandles, LoopHandle, harnessVars, suiteVars
  <1>2. fresh /\ pc \notin Between /\ FrameId' = id
    BY <1>1 DEF IInv, Idle, FrameId
  <1>3. m.type \in DOMAIN Reply
    <2>1. inbuf \in Seq(KnownUnit) /\ 1 \in 1..Len(inbuf)
      BY <1>1, LenProperties, EmptySeq DEF IInv, Streams
    <2>2. inbuf[1] \in KnownUnit
      BY <2>1, ElementOfSeq
    <2> QED
      BY <2>2 DEF KnownUnit, Known, FirstOf
  <1> HIDE DEF m
  <1>4. /\ Leaves(m, Inbound, Inbound')
        /\ Outbound' = Outbound \o pending'
    BY <1>1, HandleMoves
  <1>5. Inbound \in Seq(OwnUnit(id)) /\ Outbound \in Seq(OwnUnit(id))
    BY <1>2 DEF Own, Owns
  <1> HIDE DEF id
  <1>6. Inbound' \in Seq(OwnUnit(id)) /\ m.id = id /\ m \in Msg
    BY <1>4, <1>5, OwnLeaves DEF Leaves
  <1>7. pending' \in Seq(OwnUnit(id))
    <2>1. CASE UNCHANGED pending
      BY <1>1, <2>1, EmptyStream
    <2>2. ASSUME NEW types \in Reply[m.type], pending' = ReplyUnits(m, types)
          PROVE  pending' \in Seq(OwnUnit(id))
      <3>1. types \in Seq(Nat)
        BY <1>3, LoopAssumption DEF LoopAssumption
      <3> QED
        BY <1>6, <2>2, <3>1, OwnMessage
    <2> QED
      BY <1>1, <2>1, <2>2
  <1>8. Outbound' \in Seq(OwnUnit(id))
    BY <1>4, <1>5, <1>7, ConcatProperties
  <1> QED
    BY <1>2, <1>6, <1>8 DEF Own, Owns

\* Steps that only move units, or none.
LEMMA SameStreams ==
    ASSUME IInv,
           \/ Write \/ WriteFails \/ Exhausted \/ CallSelect \/ ReadEnd \/ TimedOut
           \/ Tick \/ ReadChild \/ ProgramEnds \/ UNCHANGED vars
           \/ (LoopRead \/ WriteAll) /\ UNCHANGED <<harnessVars, made, faulty>>
    PROVE  Inbound' = Inbound /\ Outbound' = Outbound /\ have_mac' = have_mac
           /\ UNCHANGED <<suite, test, fresh>> /\ (pc \in Between => pc' \in Between)
  <1>1. /\ UNCHANGED <<suite, test, fresh, have_mac>>
        /\ pc \in Between => pc' \in Between
    BY DEF Write, WriteFails, Exhausted, CallSelect, ReadEnd, TimedOut, Tick,
           ReadChild, ProgramEnds, vars, LoopRead, WriteAll, harnessVars,
           suiteVars, loopVars, NeedsMore, Between
  <1>2. Inbound' = Inbound
    <2>1. CASE Write
      BY <2>1, WriteMoves
    <2>2. CASE LoopRead /\ UNCHANGED harnessVars
      BY <2>2, LoopReadMoves DEF harnessVars, cmdVars
    <2>3. CASE \/ WriteFails \/ Exhausted \/ CallSelect \/ ReadEnd \/ TimedOut
               \/ Tick \/ ReadChild \/ ProgramEnds \/ UNCHANGED vars
               \/ WriteAll /\ UNCHANGED harnessVars
      <3>1. UNCHANGED <<inbuf, toChild, unsent>>
        BY <2>3 DEF WriteFails, Exhausted, CallSelect, ReadEnd, TimedOut, Tick,
               ReadChild, ProgramEnds, vars, WriteAll, harnessVars, loopVars, cmdVars
      <3> QED
        BY <3>1 DEF Inbound
    <2> QED
      BY <2>1, <2>2, <2>3
  <1>3. Outbound' = Outbound
    <2>1. CASE ReadChild
      BY <2>1, ReadChildMoves
    <2>2. CASE WriteAll /\ UNCHANGED harnessVars
      BY <2>2, WriteAllMoves DEF harnessVars
    <2>3. CASE \/ Write \/ WriteFails \/ Exhausted \/ CallSelect \/ ReadEnd \/ TimedOut
               \/ Tick \/ ProgramEnds \/ UNCHANGED vars
               \/ LoopRead /\ UNCHANGED harnessVars
      <3>1. UNCHANGED <<child_buf, fromChild, pending>>
        BY <2>3 DEF Write, WriteFails, Exhausted, CallSelect, ReadEnd, TimedOut,
                    Tick, ProgramEnds, vars, LoopRead, harnessVars, loopVars
      <3> QED
        BY <3>1 DEF Outbound
    <2> QED
      BY <2>1, <2>2, <2>3
  <1> QED
    BY <1>1, <1>2, <1>3

LEMMA NextOwn == IInv /\ IInv' /\ Own /\ [Next]_vars => Own'
  <1> SUFFICES ASSUME IInv, IInv', Own, [Next]_vars PROVE Own'
    OBVIOUS
  <1>1. CASE Launch
    <2>1. /\ fresh' = (child_buf = <<>>) /\ UNCHANGED child_buf /\ fromChild' = <<>>
          /\ pending' = <<>> /\ inbuf' = <<>> /\ toChild' = <<>> /\ unsent' = <<>>
      BY <1>1 DEF Launch
    <2>2. Inbound' = <<>>
      BY <2>1, EmptyStream DEF Inbound
    <2>3. fresh' => Outbound' = <<>>
      BY <2>1, EmptyStream DEF Outbound
    <2>4. \A S : <<>> \in Seq(S)
      BY EmptySeq
    <2> QED
      BY <2>2, <2>3, <2>4 DEF Own, Owns
  <1>2. CASE LaunchFails \/ Cleanup
    BY <1>2 DEF LaunchFails, Cleanup, Record, Own, Between
  <1>3. CASE SendMacs \/ RunCommand
    BY <1>3, OwnSent
  <1>4. CASE TryMessage \/ BreakSilence
    BY <1>4, OwnTaken
  <1>5. CASE ProgramHandles
    BY <1>5, OwnHandled
  <1>6. CASE \/ Write \/ WriteFails \/ Exhausted \/ CallSelect \/ ReadEnd \/ TimedOut
             \/ Tick \/ ReadChild \/ ProgramEnds \/ UNCHANGED vars
             \/ (LoopRead \/ WriteAll) /\ UNCHANGED <<harnessVars, made, faulty>>
    BY <1>6, SameStreams, OwnSame
  <1> QED
    BY <1>1, <1>2, <1>3, <1>4, <1>5, <1>6 DEF Next, HarnessStep, Program

LEMMA OwnInductive == Spec => []Own
  <1> QED
    BY Inductive, InitOwn, NextOwn, PTL DEF Spec

-----------------------------------------------------------------------------
(***************************************************************************)
(* While the program has answered every frame as a hub should, a running   *)
(* test gets what it waits for.                                            *)
(***************************************************************************)
Commanding == {"run", "send", "expect", "silence"}

\* A test for a hub: what it sends on one of its interfaces it expects on all
\* others at once, if there are any, and it expects nothing else.
FloodTest(t) ==
    \A k \in 1..Len(t.cmds) :
        /\ t.cmds[k].op = "send" =>
             /\ t.cmds[k].ifc \in 1..t.ifcs
             /\ t.ifcs > 1 => k < Len(t.cmds) /\ t.cmds[k + 1].op = "expect"
        /\ t.cmds[k].op = "expect" =>
             /\ k > 1 /\ t.cmds[k - 1].op = "send"
             /\ t.cmds[k].all = Others(t.ifcs, t.cmds[k - 1].ifc)
             /\ t.cmds[k].all # {}

\* What a hub test still has to get of the frame it sent.
Owed ==
    IF cmd > 1 /\ Running.cmds[cmd - 1].op = "send"
    THEN Others(Running.ifcs, Running.cmds[cmd - 1].ifc) ELSE {}

Wanted ==
    IF pc = "expect" THEN all
    ELSE IF pc = "send" THEN Others(Running.ifcs, Command.ifc)
    ELSE IF pc = "run" THEN Owed ELSE {}

Promised(in, out, mac, n, S) ==
    /\ AsSent(TypesOf(in), mac, n)
    /\ Coming(n, Frames(TypesOf(in)), Frames(TypesOf(out)), S)

Answering ==
    fresh /\ FloodTest(Running) /\ ~faulty =>
        /\ pc = "macs" => ~have_mac /\ Outbound = <<>>
        /\ pc \in Commanding =>
             Promised(Inbound, Outbound, have_mac, Running.ifcs, Wanted)
        /\ pc = "expect" => attempts = Cardinality(all) /\ all # {}
        /\ pc \in Commanding \cup {"macs"} => have_mac \in BOOLEAN /\ ret = 0
        /\ pc = "cleanup" /\ ret # 0 => child = "dead" \/ DeadlinePassed

LEMMA FramesOfNext ==
    ASSUME NEW t \in Nat, NEW w \in Seq(Nat)
    PROVE  Frames(<<t>> \o w) = TypeOfFrame(t) \o Frames(w) /\ Frames(w) \in Seq(Nat)
  <1> DEFINE o == <<t>>
  <1>1. o \in Seq(Nat) /\ Frames(o) = TypeOfFrame(t)
    BY OneNatural, FramesOfOne
  <1> HIDE DEF o
  <1>2. Frames(o \o w) = Frames(o) \o Frames(w) /\ Frames(w) \in Seq(Nat)
    BY <1>1, FramesOfConcat
  <1> QED
    BY <1>1, <1>2 DEF o

\* The four things that happen to what is promised.
LEMMA PromisedSent ==
    ASSUME NEW n \in Nat, NEW mac, NEW in \in Seq(Unit), NEW out \in Seq(Unit),
           NEW u \in Seq(Unit), NEW t \in 1..n, TypesOf(u) = <<t>>,
           Promised(in, out, mac, n, {})
    PROVE  Promised(in \o u, out, mac, n, Others(n, t))
  <1> DEFINE a == TypesOf(in)
             f == Frames(a)
             g == Frames(TypesOf(out))
  <1>1. TypesOf(in \o u) = a \o <<t>> /\ a \in Seq(Nat) /\ TypesOf(out) \in Seq(Nat)
    BY TypesOfConcat
  <1>2. AsSent(a, mac, n) /\ Coming(n, f, g, {})
    BY DEF Promised
  <1>3. f \in Seq(1..n) /\ g \in Seq(Nat)
    BY <1>1, <1>2, FramesOfConcat DEF AsSent
  <1> HIDE DEF a, g
  <1>4. AsSent(a \o <<t>>, mac, n) /\ Frames(a \o <<t>>) = f \o <<t>>
    BY <1>1, <1>2, AsSentAppend
  <1> HIDE DEF f
  <1>5. Coming(n, f \o <<t>>, g, Others(n, t))
    BY <1>2, <1>3, ComingSent
  <1> QED
    BY <1>1, <1>4, <1>5 DEF Promised, g

LEMMA PromisedTaken ==
    ASSUME NEW n \in Nat, NEW mac, NEW in, NEW out, NEW w, NEW m, Leaves(m, out, w),
           NEW S, IsFiniteSet(S), Promised(in, out, mac, n, S)
    PROVE  /\ m.type = 0 => Promised(in, w, mac, n, S)
           /\ m.type # 0 => m.type \in S /\ Promised(in, w, mac, n, S \ {m.type})
  <1> DEFINE t == m.type
             x == TypesOf(w)
             i == Frames(TypesOf(in))
             f == Frames(x)
  <1>1. TypesOf(out) = <<t>> \o x /\ x \in Seq(Nat) /\ t \in Nat
    BY DEF Leaves, Msg
  <1>2. AsSent(TypesOf(in), mac, n) /\ Coming(n, i, Frames(TypesOf(out)), S)
    BY DEF Promised
  <1> HIDE DEF t, x, i
  <1>3. Frames(TypesOf(out)) = TypeOfFrame(t) \o f /\ f \in Seq(Nat)
    BY <1>1, FramesOfNext
  <1> HIDE DEF f
  <1>4. CASE t = 0
    <2>1. Frames(TypesOf(out)) = f
      BY <1>3, <1>4, ConcatEmptySeq DEF TypeOfFrame
    <2> QED
      BY <1>2, <1>4, <2>1 DEF Promised, t, x, i, f
  <1>5. CASE t # 0
    <2>1. Coming(n, i, <<t>> \o f, S)
      BY <1>2, <1>3, <1>5 DEF TypeOfFrame
    <2>2. t \in S /\ Coming(n, i, f, S \ {t})
      BY <1>1, <1>3, <2>1, ComingTaken
    <2> QED
      BY <1>2, <1>5, <2>2 DEF Promised, t, x, i, f
  <1> QED
    BY <1>4, <1>5

\* The program reads the MAC list, or a frame that it answers with new.
LEMMA PromisedHandled ==
    ASSUME NEW n \in Nat, NEW mac \in BOOLEAN, NEW in, NEW w, NEW m, Leaves(m, in, w),
           NEW out \in Seq(Unit), NEW new \in Seq(Unit), NEW S,
           Promised(in, out, mac, n, S),
           ~mac /\ m.type = 0 => new = <<>>,
           mac => Exact(Frames(TypesOf(new)), Others(n, m.type))
    PROVE  Promised(w, out \o new, TRUE, n, S)
  <1> DEFINE t == m.type
             x == TypesOf(w)
             f == Frames(x)
             g == Frames(TypesOf(out))
             h == Frames(TypesOf(new))
  <1>1. TypesOf(in) = <<t>> \o x /\ x \in Seq(Nat) /\ t \in Nat
    BY DEF Leaves, Msg
  <1>2. AsSent(TypesOf(in), mac, n) /\ Coming(n, Frames(TypesOf(in)), g, S)
    BY DEF Promised
  <1>3. /\ Frames(TypesOf(out \o new)) = g \o h
        /\ g \in Seq(Nat) /\ h \in Seq(Nat)
    <2> DEFINE p == TypesOf(out)
               q == TypesOf(new)
    <2>1. TypesOf(out \o new) = p \o q /\ p \in Seq(Nat) /\ q \in Seq(Nat)
      BY TypesOfConcat
    <2> HIDE DEF p, q
    <2>2. Frames(p \o q) = Frames(p) \o Frames(q)
          /\ Frames(p) \in Seq(Nat) /\ Frames(q) \in Seq(Nat)
      BY <2>1, FramesOfConcat
    <2> QED
      BY <2>1, <2>2 DEF p, q
  <1> HIDE DEF t, x, g, h
  <1>4. /\ mac => t \in 1..n /\ Frames(<<t>> \o x) = <<t>> \o f
        /\ ~mac => t = 0 /\ Frames(<<t>> \o x) = f
        /\ AsSent(x, TRUE, n) /\ f \in Seq(Nat)
    <2>1. AsSent(<<t>> \o x, mac, n) /\ x \in Seq(Nat) /\ t \in Nat
      BY <1>1, <1>2
    <2>2. Begins(t, x, mac, n)
      BY <2>1, AsSentNext
    <2> QED
      BY <2>2 DEF Begins
  <1> HIDE DEF f
  <1>5. CASE mac
    <2>1. Coming(n, <<t>> \o f, g, S) /\ t \in 1..n
      BY <1>1, <1>2, <1>4, <1>5
    <2>2. Exact(h, Others(n, t))
      BY <1>5 DEF h, t
    <2>3. Coming(n, f, g \o h, S)
      BY <1>3, <1>4, <2>1, <2>2, ComingAnswered
    <2> QED
      BY <1>3, <1>4, <2>3 DEF Promised, f, x
  <1>6. CASE ~mac
    <2>1. new = <<>>
      BY <1>4, <1>6 DEF t
    <2>2. out \o new = out
      BY <2>1, ConcatEmptySeq
    <2>3. Coming(n, f, g, S)
      BY <1>1, <1>2, <1>4, <1>6
    <2> QED
      BY <1>4, <2>2, <2>3 DEF Promised, f, x, g
  <1> QED
    BY <1>5, <1>6

\* Of the command that runs, or has just run.
LEMMA FloodCommand ==
    ASSUME IInv, FloodTest(Running), NEW k \in 1..Len(Running.cmds),
           NEW c, c = Running.cmds[k]
    PROVE  /\ Running.ifcs \in Nat
           /\ c.op = "send" =>
                /\ c.ifc \in 1..Running.ifcs
                /\ IsFiniteSet(Others(Running.ifcs, c.ifc))
                /\ Running.ifcs > 1 =>
                     k < Len(Running.cmds) /\ Running.cmds[k + 1].op = "expect"
                /\ Running.ifcs <= 1 => Others(Running.ifcs, c.ifc) = {}
           /\ c.op = "expect" =>
                /\ k > 1 /\ Running.cmds[k - 1].op = "send"
                /\ c.all = Others(Running.ifcs, Running.cmds[k - 1].ifc)
                /\ c.all # {}
  <1>1. Running.ifcs \in Nat
    BY RunningTest DEF IInv
  <1> QED
    BY <1>1, OthersProperties DEF FloodTest

\* A frame that nobody is to get is owed to nobody.
LEMMA NothingOwed ==
    ASSUME IInv, FloodTest(Running), cmd <= Len(Running.cmds) + 1,
           cmd <= Len(Running.cmds) => Command.op # "expect"
    PROVE  Owed = {}
  <1> SUFFICES ASSUME cmd > 1, Running.cmds[cmd - 1].op = "send"
               PROVE  Others(Running.ifcs, Running.cmds[cmd - 1].ifc) = {}
    BY DEF Owed
  <1> DEFINE k == cmd - 1
             c == Running.cmds[k]
  <1>1. cmd \in Nat /\ Len(Running.cmds) \in Nat
    BY RunningCommands DEF IInv, Scalars, Commands
  <1>2. k \in 1..Len(Running.cmds) /\ k + 1 = cmd
    BY <1>1
  <1>3. c = Running.cmds[k] /\ c.op = "send"
    OBVIOUS
  <1> HIDE DEF k, c
  <1>4. /\ Running.ifcs \in Nat
        /\ Running.ifcs > 1 =>
             k < Len(Running.cmds) /\ Running.cmds[k + 1].op = "expect"
        /\ Running.ifcs <= 1 => Others(Running.ifcs, c.ifc) = {}
    BY <1>2, <1>3, FloodCommand
  <1>5. ~(k < Len(Running.cmds) /\ Running.cmds[k + 1].op = "expect")
    BY <1>1, <1>2 DEF Command
  <1>6. Running.ifcs <= 1
    BY <1>4, <1>5
  <1> QED
    BY <1>4, <1>6 DEF k, c

LEMMA AnsweringKept ==
    ASSUME Answering, Inbound' = Inbound, Outbound' = Outbound, have_mac' = have_mac,
           UNCHANGED <<suite, test, fresh, faulty, cmd, pc, attempts, all, ret>>,
           pc = "cleanup" => /\ left' = left /\ child_buf' = child_buf
                             /\ child = "dead" => child' = "dead"
    PROVE  Answering'
  <1>1. Running' = Running /\ Command' = Command
    BY DEF Running, Command
  <1>2. Owed' = Owed
    BY <1>1 DEF Owed
  <1>3. Wanted' = Wanted
    BY <1>1, <1>2 DEF Wanted
  <1>4. Promised(Inbound, Outbound, have_mac, Running.ifcs, Wanted)
          = Promised(Inbound', Outbound', have_mac', Running.ifcs', Wanted')
    BY <1>1, <1>3
  <1>5. pc = "cleanup" /\ DeadlinePassed => DeadlinePassed'
    BY <1>1 DEF DeadlinePassed, Complete
  <1> QED
    BY <1>1, <1>4, <1>5 DEF Answering

\* tsend() and expect_silence() return 0.
LEMMA AnsweringGoesOn ==
    ASSUME IInv, Earned, Answering, Inbound' = Inbound, Outbound' = Outbound,
           have_mac' = have_mac, UNCHANGED <<suite, test, fresh, faulty>>,
           pc \in {"send", "silence"}, Return(0)
    PROVE  Answering'
  <1>1. pc' = "run" /\ cmd' = cmd + 1 /\ ret' = 0
    BY DEF Return
  <1>2. Running' = Running
    BY DEF Running
  <1> SUFFICES ASSUME fresh, FloodTest(Running), ~faulty
               PROVE  /\ have_mac' \in BOOLEAN
                      /\ Promised(Inbound', Outbound', have_mac', Running.ifcs', Wanted')
    BY <1>1, <1>2 DEF Answering, Commanding
  <1>3. cmd \in Nat /\ cmd >= 1 /\ Command.op = pc
    BY DEF IInv, Scalars, Earned
  <1>4. cmd' > 1 /\ cmd' - 1 = cmd
    BY <1>1, <1>3
  <1>5. Wanted' = Wanted
    BY <1>1, <1>2, <1>3, <1>4 DEF Wanted, Owed, Command
  <1>6. have_mac \in BOOLEAN
        /\ Promised(Inbound, Outbound, have_mac, Running.ifcs, Wanted)
    BY DEF Answering, Commanding
  <1> QED
    BY <1>2, <1>5, <1>6

\* A command fails when the program has ended or its deadline has passed.
LEMMA AnsweringFails ==
    ASSUME Answering, UNCHANGED <<suite, test, fresh, faulty, have_mac>>,
           pc' = "cleanup", child' = "dead" \/ DeadlinePassed'
    PROVE  Answering'
  <1>1. Running' = Running
    BY DEF Running
  <1> QED
    BY <1>1 DEF Answering, Commanding

LEMMA InitAnswering == Init => Answering
  BY DEF Init, LoopInit, Answering, Commanding

LEMMA LaunchAnswering ==
    ASSUME Launch PROVE Answering'
  <1>1. /\ pc' = "macs" /\ ret' = 0 /\ have_mac' = FALSE
        /\ fromChild' = <<>> /\ pending' = <<>>
        /\ fresh' = (child_buf = <<>>) /\ UNCHANGED child_buf
    BY DEF Launch
  <1>2. fresh' => Outbound' = <<>>
    BY <1>1, EmptyStream DEF Outbound
  <1> QED
    BY <1>1, <1>2 DEF Answering, Commanding

LEMMA RecordAnswering ==
    ASSUME NEW r, Record(r) PROVE Answering'
  BY DEF Record, Answering, Commanding

LEMMA SendMacsAnswering ==
    ASSUME IInv, Earned, Answering, SendMacs PROVE Answering'
  <1>1. /\ pc = "macs"
        /\ (pc' = "run" /\ UNCHANGED ret) \/ (pc' = "cleanup" /\ child = "dead")
        /\ UNCHANGED <<suite, test, fresh, cmd, child, faulty, have_mac, child_buf,
                       fromChild, pending>>
    BY DEF SendMacs, suiteVars, historyVars, loopVars
  <1>2. CASE pc' = "cleanup" /\ child = "dead"
    BY <1>1, <1>2, AnsweringFails
  <1>3. CASE pc' = "run" /\ UNCHANGED ret
    <2>1. Running' = Running /\ Outbound' = Outbound
      BY <1>1 DEF Running, Outbound
    <2> SUFFICES ASSUME fresh, FloodTest(Running), ~faulty
                 PROVE  /\ have_mac' \in BOOLEAN /\ ret' = 0
                        /\ Promised(Inbound', Outbound', have_mac', Running.ifcs',
                                    Wanted')
      BY <1>1, <1>3, <2>1 DEF Answering, Commanding
    <2>2. ~have_mac /\ have_mac \in BOOLEAN /\ Outbound = <<>> /\ ret = 0
      BY <1>1 DEF Answering
    <2>3. cmd = 1 /\ Wanted' = {}
      <3>1. cmd = 1
        BY <1>1 DEF Earned
      <3> QED
        BY <1>1, <1>3, <3>1 DEF Wanted, Owed
    <2>4. Inbound' = UnitsOf(Message(0, 0, FrameId, MACS))
      BY <1>3, SendMacsAdds
    <2>5. TypesOf(UnitsOf(Message(0, 0, FrameId, MACS))) = <<0>>
      <3> DEFINE id == FrameId
                 m == Message(0, 0, id, MACS)
      <3>1. MACS \in Size /\ id = FrameId /\ m = Message(0, 0, id, MACS)
        BY Constants
      <3> HIDE DEF id, m
      <3>2. TypesOf(UnitsOf(m)) = <<0>>
        BY <3>1, SentMessage
      <3> QED
        BY <3>2 DEF id, m
    <2>6. TypesOf(<<>>) = <<>> /\ Frames(<<>>) = <<>>
      BY NothingMade
    <2>7. Running.ifcs \in Nat
      BY RunningTest DEF IInv
    <2>8. /\ AsSent(<<0>>, FALSE, Running.ifcs) /\ Frames(<<0>>) = <<>>
          /\ Coming(Running.ifcs, <<>>, <<>>, {})
      BY <2>7, AsSentStart
    <2> DEFINE u == UnitsOf(Message(0, 0, FrameId, MACS))
    <2>9. Promised(u, <<>>, FALSE, Running.ifcs, {})
      <3> HIDE DEF u
      <3>1. TypesOf(u) = <<0>>
        BY <2>5 DEF u
      <3> QED
        BY <2>6, <2>8, <3>1 DEF Promised
    <2> QED
      BY <1>1, <1>3, <2>1, <2>2, <2>3, <2>4, <2>9
  <1> QED
    BY <1>1, <1>2, <1>3

LEMMA RunCommandAnswering ==
    ASSUME IInv, Earned, Answering, RunCommand PROVE Answering'
  <1>1. /\ pc = "run" /\ pc' \in {"cleanup", "send", "expect", "silence"}
        /\ UNCHANGED <<suite, test, fresh, cmd, toChild, faulty, have_mac, ret,
                       inbuf, child_buf, fromChild, pending>>
    BY DEF RunCommand, suiteVars, historyVars, loopVars
  <1>2. Running' = Running /\ Command' = Command /\ Outbound' = Outbound
    BY <1>1 DEF Running, Command, Outbound
  <1> SUFFICES ASSUME fresh, FloodTest(Running), ~faulty PROVE Answering'
    BY <1>1, <1>2 DEF Answering
  <1>3. /\ have_mac \in BOOLEAN /\ ret = 0 /\ cmd \in Nat /\ cmd >= 1
        /\ Promised(Inbound, Outbound, have_mac, Running.ifcs, Owed)
    BY <1>1 DEF Answering, Commanding, Wanted, IInv, Scalars
  <1>4. cmd <= Len(Running.cmds) + 1 /\ Running.ifcs \in Nat
    BY <1>1, RunningTest DEF Earned, IInv
  <1>5. CASE pc' = "cleanup"
    BY <1>1, <1>3, <1>5 DEF Answering, Commanding
  <1>6. CASE pc' = "send"
    <2> DEFINE t == Command.ifc
               u == UnitsOf(Message(t, t, FrameId, FRAME))
               n == Running.ifcs
    <2>1. /\ Command.op = "send" /\ cmd \in 1..Len(Running.cmds) /\ t \in Nat
          /\ Inbound \in Seq(Unit) /\ Inbound' = Inbound \o u
      BY <1>6, RunCommandAdds
    <2>2. t \in 1..n /\ n \in Nat
      <3>1. Command = Running.cmds[cmd]
        BY DEF Command
      <3> QED
        BY <1>4, <2>1, <3>1, FloodCommand
    <2>3. Owed = {}
      BY <1>4, <2>1, NothingOwed
    <2>4. u \in Seq(Unit) /\ TypesOf(u) = <<t>>
      <3> DEFINE id == FrameId
                 m == Message(t, t, id, FRAME)
      <3>1. FRAME \in Size /\ id = FrameId /\ m = Message(t, t, id, FRAME)
        BY Constants
      <3> HIDE DEF id, m
      <3>2. UnitsOf(m) \in Seq(Unit) /\ TypesOf(UnitsOf(m)) = <<t>>
        BY <2>1, <3>1, SentMessage
      <3> QED
        BY <3>2 DEF id, m
    <2>5. Outbound \in Seq(Unit)
      BY ConcatProperties DEF IInv, Streams, Outbound
    <2>6. Promised(Inbound \o u, Outbound, have_mac, n, Others(n, t))
      <3> HIDE DEF t, u, n
      <3>1. Promised(Inbound, Outbound, have_mac, n, {})
        BY <1>3, <2>3 DEF n
      <3> QED
        BY <2>1, <2>2, <2>4, <2>5, <3>1, PromisedSent
    <2>7. Wanted' = Others(n, t)
      BY <1>2, <1>6 DEF Wanted
    <2> QED
      BY <1>1, <1>2, <1>3, <1>6, <2>1, <2>6, <2>7 DEF Answering, Commanding
  <1>7. CASE pc' = "expect"
    <2>1. /\ cmd <= Len(Running.cmds) /\ Command.op = "expect"
          /\ attempts' = Cardinality(Command.all) /\ all' = Command.all
          /\ UNCHANGED unsent
      BY <1>7 DEF RunCommand
    <2>2. cmd \in 1..Len(Running.cmds) /\ Command = Running.cmds[cmd]
      BY <1>3, <2>1 DEF Command
    <2>3. /\ cmd > 1 /\ Running.cmds[cmd - 1].op = "send"
          /\ Command.all = Others(Running.ifcs, Running.cmds[cmd - 1].ifc)
          /\ Command.all # {}
      BY <2>1, <2>2, FloodCommand
    <2>4. Wanted' = Owed
      BY <1>7, <2>1, <2>3 DEF Wanted, Owed
    <2>5. Inbound' = Inbound
      BY <1>1, <2>1 DEF Inbound
    <2> QED
      BY <1>1, <1>2, <1>3, <1>7, <2>1, <2>3, <2>4, <2>5 DEF Answering, Commanding
  <1>8. CASE pc' = "silence"
    <2>1. cmd <= Len(Running.cmds) /\ Command.op = "silence" /\ UNCHANGED unsent
      BY <1>8 DEF RunCommand
    <2>2. Owed = {}
      BY <1>4, <2>1, NothingOwed
    <2>3. Wanted' = Owed
      BY <1>8, <2>2 DEF Wanted
    <2>4. Inbound' = Inbound
      BY <1>1, <2>1 DEF Inbound
    <2> QED
      BY <1>1, <1>2, <1>3, <1>8, <2>3, <2>4 DEF Answering, Commanding
  <1> QED
    BY <1>1, <1>5, <1>6, <1>7, <1>8

\* trecv: the frame is the test's own, on an interface that it waits for.
LEMMA TryMessageAnswering ==
    ASSUME IInv, Earned, Own, Answering, TryMessage PROVE Answering'
  <1> DEFINE m == FirstOf(child_buf)
  <1>1. /\ pc = "expect" /\ attempts > 0 /\ Complete(child_buf) /\ Take(m)
        /\ attempts' = IF IsText(m) THEN attempts ELSE attempts - 1
        /\ \E bit \in Bits(m) :
             /\ all' = Remaining(m, bit)
             /\ IF Matches(m, bit) /\ Remaining(m, bit) = {}
                THEN Return(0) ELSE UNCHANGED <<ret, cmd, pc, asleep>>
        /\ UNCHANGED <<fromChild, pending, suite, test, fresh, inbuf, toChild,
                       unsent, have_mac, faulty>>
        /\ m = FirstOf(child_buf)
    BY DEF TryMessage, Take, loopVars, suiteVars
  <1> HIDE DEF m
  <1>11. PICK bit \in Bits(m) :
           /\ all' = Remaining(m, bit)
           /\ IF Matches(m, bit) /\ Remaining(m, bit) = {}
              THEN Return(0) ELSE UNCHANGED <<ret, cmd, pc, asleep>>
    BY <1>1
  <1>2. Running' = Running /\ Inbound' = Inbound
    BY <1>1 DEF Running, Inbound
  <1> SUFFICES ASSUME fresh, FloodTest(Running), ~faulty PROVE Answering'
    BY <1>1, <1>2 DEF Answering
  <1> DEFINE n == Running.ifcs
  <1>3. /\ have_mac \in BOOLEAN /\ ret = 0 /\ attempts = Cardinality(all) /\ all # {}
        /\ Promised(Inbound, Outbound, have_mac, n, all)
    BY <1>1 DEF Answering, Commanding, Wanted
  <1>4. /\ cmd \in Nat /\ cmd >= 1 /\ Command.op = "expect"
        /\ n \in Nat /\ all \subseteq 1..n /\ IsFiniteSet(all)
    <2>1. cmd \in Nat /\ cmd >= 1 /\ Command.op = "expect" /\ all \subseteq 1..n
      BY <1>1 DEF IInv, Scalars, Earned, Between
    <2>2. n \in Nat
      BY RunningTest DEF IInv
    <2>3. IsFiniteSet(1..n)
      BY <2>2, FS_Interval
    <2> QED
      BY <2>1, <2>2, <2>3, FS_Subset
  <1>5. Leaves(m, Outbound, Outbound')
    BY <1>1, TakeMoves DEF Waiting
  <1>6. m.id = FrameId
    <2> DEFINE id == FrameId
    <2>1. Outbound \in Seq(OwnUnit(id))
      BY <1>1 DEF Own, Owns, Between
    <2> HIDE DEF id
    <2>2. m.id = id
      BY <1>5, <2>1, OwnLeaves
    <2> QED
      BY <2>2 DEF id
  <1> HIDE DEF n
  <1>12. \A t \in all : t \in 1..(INT_BITS - 1)
    <2>1. cmd \in 1..Len(Running.cmds)
      <3>1. cmd <= Len(Running.cmds) /\ Len(Running.cmds) \in Nat
        BY <1>1, RunningCommands DEF IInv, Earned, Commands
      <3> QED
        BY <1>4, <3>1
    <2>2. Running.cmds[cmd].all \subseteq 1..(INT_BITS - 1)
      BY <2>1, RunningTest DEF IInv
    <2>3. all \subseteq Running.cmds[cmd].all
      BY <1>1 DEF Earned, Midway
    <2> QED
      BY <2>2, <2>3
  <1>7. /\ m.type = 0 => Promised(Inbound, Outbound', have_mac, n, all)
        /\ m.type # 0 => /\ m.type \in all
                         /\ Promised(Inbound, Outbound', have_mac, n, all \ {m.type})
    BY <1>3, <1>4, <1>5, PromisedTaken
  <1>8. /\ Promised(Inbound, Outbound', have_mac, n, all')
        /\ attempts' = Cardinality(all')
        /\ (pc' = "expect" /\ all' # {} /\ UNCHANGED <<ret, cmd>>)
           \/ (all' = {} /\ Return(0))
    <2>1. CASE m.type = 0
      <3>1. bit = 0
        BY <2>1, BitOfType DEF INT_BITS
      <3>2. ~Matches(m, bit) /\ all' = all
        BY <1>4, <1>11, <3>1 DEF Matches, Remaining
      <3> QED
        BY <1>1, <1>3, <1>7, <1>11, <2>1, <3>2 DEF IsText
    <2>2. CASE m.type # 0
      <3>1. bit = m.type
        <4>1. m.type \in Nat /\ m.type < INT_BITS
          BY <1>7, <1>12, <2>2 DEF INT_BITS
        <4> QED
          BY <4>1, BitOfType
      <3>2. Matches(m, bit) /\ all' = all \ {m.type} /\ attempts' = attempts - 1
        BY <1>1, <1>6, <1>7, <1>11, <2>2, <3>1 DEF Matches, Remaining, IsText
      <3>3. Cardinality(all') = Cardinality(all) - 1
        BY <1>4, <1>7, <2>2, <3>2, FS_RemoveElement
      <3> QED
        BY <1>1, <1>3, <1>7, <1>11, <2>2, <3>2, <3>3
    <2> QED
      BY <2>1, <2>2
  <1>9. CASE pc' = "expect" /\ all' # {} /\ UNCHANGED <<ret, cmd>>
    BY <1>1, <1>2, <1>3, <1>8, <1>9 DEF Answering, Commanding, Wanted, n
  <1>10. CASE all' = {} /\ Return(0)
    <2>1. pc' = "run" /\ cmd' = cmd + 1 /\ ret' = 0
      BY <1>10 DEF Return
    <2>2. Running.cmds[cmd].op = "expect" /\ cmd' - 1 = cmd
      BY <1>4, <2>1 DEF Command
    <2>3. Wanted' = {}
      BY <1>2, <2>1, <2>2 DEF Wanted, Owed
    <2> QED
      BY <1>1, <1>2, <1>3, <1>8, <1>10, <2>1, <2>3 DEF Answering, Commanding, n
  <1> QED
    BY <1>8, <1>9, <1>10

\* expect_silence: nobody sends what is not due.
LEMMA BreakSilenceAnswering ==
    ASSUME IInv, Earned, Answering, BreakSilence PROVE Answering'
  <1> DEFINE m == FirstOf(child_buf)
  <1>1. /\ pc = "silence" /\ Complete(child_buf) /\ Take(m)
        /\ IF IsText(m) THEN UNCHANGED <<ret, cmd, pc, asleep>> ELSE Return(1)
        /\ UNCHANGED <<fromChild, pending, suite, test, fresh, inbuf, toChild,
                       unsent, have_mac, faulty, attempts, all>>
        /\ m = FirstOf(child_buf)
    BY DEF BreakSilence, Take, loopVars, suiteVars
  <1> HIDE DEF m
  <1>2. Running' = Running /\ Inbound' = Inbound
    BY <1>1 DEF Running, Inbound
  <1> SUFFICES ASSUME fresh, FloodTest(Running), ~faulty PROVE Answering'
    BY <1>1, <1>2 DEF Answering
  <1> DEFINE n == Running.ifcs
             S == {}
  <1>3. /\ have_mac \in BOOLEAN /\ ret = 0
        /\ Promised(Inbound, Outbound, have_mac, n, S)
    BY <1>1 DEF Answering, Commanding, Wanted
  <1>4. n \in Nat
    BY RunningTest DEF IInv
  <1>5. IsFiniteSet(S) /\ S = {}
    BY FS_EmptySet
  <1>6. Leaves(m, Outbound, Outbound')
    BY <1>1, TakeMoves DEF Waiting
  <1> HIDE DEF n, S
  <1>7. /\ m.type = 0 => Promised(Inbound, Outbound', have_mac, n, S)
        /\ m.type # 0 => m.type \in S
    BY <1>3, <1>4, <1>5, <1>6, PromisedTaken
  <1>8. IsText(m) /\ Promised(Inbound, Outbound', have_mac, n, {})
    BY <1>5, <1>7 DEF IsText
  <1>9. pc' = "silence" /\ ret' = 0 /\ Wanted' = {}
    BY <1>1, <1>3, <1>8 DEF Wanted
  <1> QED
    BY <1>1, <1>2, <1>3, <1>8, <1>9 DEF Answering, Commanding, n

\* The program reads the MAC list, or answers a frame as a hub does.
LEMMA HandleAnswering ==
    ASSUME IInv, IInv', Answering, ProgramHandles PROVE Answering'
  <1> DEFINE m == FirstOf(inbuf)
  <1>1. /\ child = "alive" /\ inbuf # <<>> /\ m = FirstOf(inbuf)
        /\ UNCHANGED <<suite, test, fresh, cmd, pc, attempts, all, ret, left,
                       child_buf>>
        /\ \/ m.type = 0 /\ ~have_mac /\ have_mac' = TRUE /\ pending' = <<>>
           \/ (m.type # 0 \/ have_mac) /\ UNCHANGED have_mac
        /\ last' = <<m.type, m.id>>
        /\ faulty' = (faulty \/ (have_mac /\ ~IsFlood(last'[1], TypesOf(pending'))))
    <2>1. Len(inbuf) > HDR
      BY DEF ProgramHandles, LoopHandle, CanHandle
    <2>2. inbuf # <<>>
      BY <2>1, EmptyStream, Constants
    <2> QED
      BY <2>2 DEF ProgramHandles, LoopHandle, harnessVars, suiteVars, cmdVars
  <1> HIDE DEF m
  <1>2. Running' = Running /\ Wanted' = Wanted
    <2>1. Running' = Running /\ Command' = Command
      BY <1>1 DEF Running, Command
    <2>2. Owed' = Owed
      BY <1>1, <2>1 DEF Owed
    <2> QED
      BY <1>1, <2>1, <2>2 DEF Wanted
  <1> SUFFICES ASSUME fresh, FloodTest(Running), ~faulty' PROVE Answering'
    BY <1>1, <1>2 DEF Answering
  <1>3. ~faulty /\ (have_mac => IsFlood(m.type, TypesOf(pending')))
    BY <1>1
  <1>4. pc \in Commanding => have_mac \in BOOLEAN /\ have_mac' \in BOOLEAN
    BY <1>1, <1>3 DEF Answering
  <1>5. pc # "macs"
    BY <1>1 DEF IInv, Idle
  <1>6. ASSUME pc \in Commanding
        PROVE  Promised(Inbound', Outbound', have_mac', Running.ifcs, Wanted)
    <2> DEFINE n == Running.ifcs
               S == Wanted
               in == Inbound
               w == Inbound'
               out == Outbound
               new == pending'
               mac == have_mac
    <2>1. /\ Leaves(m, in, w) /\ out \in Seq(Unit) /\ new \in Seq(Unit)
          /\ Outbound' = out \o new
      BY <1>1, HandleMoves
    <2>2. Promised(in, out, mac, n, S)
      BY <1>3, <1>6 DEF Answering
    <2>3. n \in Nat
      BY RunningTest DEF IInv
    <2>4. mac => Exact(Frames(TypesOf(new)), Others(n, m.type))
      BY <1>3 DEF IsFlood, Exact, Others
    <2>5. ~mac /\ m.type = 0 => new = <<>>
      BY <1>1
    <2>6. mac \in BOOLEAN
      BY <1>4, <1>6
    <2>7. have_mac' = TRUE
      <3>1. CASE have_mac
        BY <1>1, <2>6, <3>1
      <3>2. CASE ~have_mac
        <4> DEFINE x == TypesOf(w)
        <4>1. /\ TypesOf(in) = <<m.type>> \o x /\ x \in Seq(Nat) /\ m.type \in Nat
              /\ AsSent(TypesOf(in), mac, n)
          BY <2>1, <2>2 DEF Leaves, Msg, Promised
        <4> HIDE DEF x, mac, n, in
        <4>2. Begins(m.type, x, mac, n)
          BY <2>3, <2>6, <4>1, AsSentNext
        <4> QED
          BY <1>1, <3>2, <4>2 DEF Begins, mac
      <3> QED
        BY <3>1, <3>2
    <2> HIDE DEF n, S, in, w, out, new, mac
    <2>8. Promised(w, out \o new, TRUE, n, S)
      BY <2>1, <2>2, <2>3, <2>4, <2>5, <2>6, PromisedHandled
    <2> QED
      BY <2>1, <2>7, <2>8 DEF w, n, S
  <1> QED
    <2>1. pc = "expect" => attempts = Cardinality(all) /\ all # {}
      BY <1>3 DEF Answering
    <2>2. pc \in Commanding => ret = 0
      BY <1>3 DEF Answering
    <2>3. pc = "cleanup" /\ ret # 0 => DeadlinePassed'
      <3>1. Command' = Command /\ child_buf' = child_buf /\ UNCHANGED <<attempts, left>>
        BY <1>1, <1>2 DEF Command, Running
      <3>2. DeadlinePassed => DeadlinePassed'
        BY <3>1 DEF DeadlinePassed, Complete
      <3> QED
        BY <1>1, <1>3, <3>2 DEF Answering
    <2> QED
      BY <1>1, <1>2, <1>4, <1>5, <1>6, <2>1, <2>2, <2>3 DEF Answering, Commanding

\* What the commands do while they wait.
LEMMA WaitingAnswering ==
    ASSUME IInv, Earned, Answering,
           \/ Write \/ WriteFails \/ Exhausted \/ CallSelect \/ ReadEnd \/ TimedOut
           \/ Tick \/ ReadChild \/ ProgramEnds \/ UNCHANGED vars
           \/ (LoopRead \/ WriteAll) /\ UNCHANGED <<harnessVars, made, faulty>>
    PROVE  Answering'
  <1>1. /\ Inbound' = Inbound /\ Outbound' = Outbound /\ have_mac' = have_mac
        /\ UNCHANGED <<suite, test, fresh, faulty>>
    BY SameStreams DEF Write, WriteFails, Exhausted, CallSelect, ReadEnd, TimedOut,
                       Tick, ReadChild, ProgramEnds, vars, harnessVars, suiteVars,
                       historyVars
  <1> SUFFICES ASSUME fresh PROVE Answering'
    BY <1>1 DEF Answering
  <1>2. ASSUME pc' = "cleanup", child' = "dead" \/ DeadlinePassed' PROVE Answering'
    BY <1>1, <1>2, AnsweringFails
  <1>3. ASSUME UNCHANGED <<cmd, pc, attempts, all, ret>>,
               pc = "cleanup" => /\ left' = left /\ child_buf' = child_buf
                                 /\ child = "dead" => child' = "dead"
        PROVE  Answering'
    BY <1>1, <1>3, AnsweringKept
  <1>4. ASSUME pc \in {"send", "silence"}, Return(0) PROVE Answering'
    BY <1>1, <1>4, AnsweringGoesOn
  <1>16. ASSUME NeedsMore, fresh
         PROVE  /\ ~Complete(child_buf)
                /\ \/ pc = "silence" /\ Command.op = "silence"
                   \/ pc = "expect" /\ Command.op = "expect" /\ attempts > 0
    BY <1>16 DEF NeedsMore, Earned
  <1>5. CASE Write
    <2>1. pc = "send" /\ UNCHANGED <<attempts, all, left, child>>
      BY <1>5 DEF Write
    <2>2. Return(0) \/ UNCHANGED <<ret, cmd, pc, asleep>>
      BY <1>5 DEF Write
    <2> QED
      BY <1>3, <1>4, <2>1, <2>2
  <1>6. CASE WriteFails
    <2>1. pc = "send" /\ pc' = "exited"
      BY <1>6 DEF WriteFails
    <2>2. Running' = Running
      BY <1>1 DEF Running
    <2> QED
      BY <1>1, <2>1, <2>2 DEF Answering, Commanding
  <1>7. CASE Exhausted
    <2>1. pc = "expect" /\ attempts = 0 /\ Running' = Running
      BY <1>1, <1>7 DEF Exhausted, Running
    <2>2. IsFiniteSet(all)
      <3>1. Running.ifcs \in Nat /\ all \subseteq 1..Running.ifcs
        BY <2>1, RunningTest DEF IInv, Scalars, Between
      <3>2. IsFiniteSet(1..Running.ifcs)
        BY <3>1, FS_Interval
      <3> QED
        BY <3>1, <3>2, FS_Subset
    <2>3. ~(attempts = Cardinality(all) /\ all # {})
      BY <2>1, <2>2, FS_EmptySet
    <2> QED
      BY <1>1, <2>1, <2>3 DEF Answering
  <1>8. CASE CallSelect
    <2>1. UNCHANGED <<attempts, all, left, child, child_buf>> /\ left \in Int
      BY <1>8 DEF CallSelect, IInv, Scalars
    <2>2. CASE left < 0
      <3>1. pc' = "cleanup" /\ Command' = Command
        BY <1>1, <1>8, <2>2 DEF CallSelect, Return, Command, Running
      <3>2. DeadlinePassed'
        BY <1>8, <1>16, <2>1, <2>2, <3>1 DEF CallSelect, DeadlinePassed, Complete
      <3> QED
        BY <1>2, <3>1, <3>2
    <2>3. CASE ~(left < 0)
      <3>1. UNCHANGED <<ret, cmd, pc>>
        BY <1>8, <2>3 DEF CallSelect
      <3> QED
        BY <1>3, <2>1, <3>1
    <2> QED
      BY <2>2, <2>3
  <1>9. CASE ReadEnd
    <2>1. child' = "dead" /\ pc' = "cleanup"
      BY <1>9 DEF ReadEnd, Return
    <2> QED
      BY <1>2, <2>1
  <1>10. CASE TimedOut
    <2>1. left' <= 0
      BY <1>10 DEF TimedOut, Expired
    <2>2. CASE pc = "silence"
      <3>1. Return(0)
        BY <1>10, <2>2 DEF TimedOut
      <3> QED
        BY <1>4, <2>2, <3>1
    <2>3. CASE pc # "silence"
      <3>1. pc' = "cleanup" /\ Command' = Command
        BY <1>1, <1>10, <2>3 DEF TimedOut, Return, Command, Running
      <3>2. DeadlinePassed'
        BY <1>10, <1>16, <2>1, <2>3, <3>1 DEF TimedOut, DeadlinePassed, Complete
      <3> QED
        BY <1>2, <3>1, <3>2
    <2> QED
      BY <2>2, <2>3
  <1>11. CASE Tick
    BY <1>3, <1>11 DEF Tick
  <1>12. CASE ReadChild
    <2>1. pc # "cleanup"
      BY <1>12 DEF ReadChild, NeedsMore
    <2> QED
      BY <1>3, <1>12, <2>1 DEF ReadChild
  <1>13. CASE ProgramEnds
    BY <1>3, <1>13 DEF ProgramEnds, harnessVars, cmdVars
  <1>14. CASE UNCHANGED vars
    BY <1>3, <1>14 DEF vars, cmdVars
  <1>15. CASE (LoopRead \/ WriteAll) /\ UNCHANGED <<harnessVars, made, faulty>>
    <2>1. child = "alive"
      BY <1>15 DEF LoopRead, Reading, WriteAll
    <2> QED
      BY <1>3, <1>15, <2>1 DEF harnessVars, cmdVars
  <1> QED
    BY <1>5, <1>6, <1>7, <1>8, <1>9, <1>10, <1>11, <1>12, <1>13, <1>14, <1>15

LEMMA NextAnswering ==
    IInv /\ IInv' /\ History /\ Own /\ Answering /\ [Next]_vars => Answering'
  <1> SUFFICES ASSUME IInv, IInv', History, Own, Answering, [Next]_vars PROVE Answering'
    OBVIOUS
  <1>1. Earned
    BY DEF History
  <1>2. CASE Launch
    BY <1>2, LaunchAnswering
  <1>3. CASE LaunchFails \/ Cleanup
    BY <1>3, RecordAnswering DEF LaunchFails, Cleanup
  <1>4. CASE SendMacs \/ RunCommand
    BY <1>1, <1>4, SendMacsAnswering, RunCommandAnswering
  <1>5. CASE TryMessage \/ BreakSilence
    BY <1>1, <1>5, TryMessageAnswering, BreakSilenceAnswering
  <1>6. CASE ProgramHandles
    BY <1>6, HandleAnswering
  <1>7. CASE \/ Write \/ WriteFails \/ Exhausted \/ CallSelect \/ ReadEnd \/ TimedOut
             \/ Tick \/ ReadChild \/ ProgramEnds \/ UNCHANGED vars
             \/ (LoopRead \/ WriteAll) /\ UNCHANGED <<harnessVars, made, faulty>>
    BY <1>1, <1>7, WaitingAnswering
  <1> QED
    BY <1>2, <1>3, <1>4, <1>5, <1>6, <1>7 DEF Next, HarnessStep, Program

LEMMA AnsweringInductive == Spec => []Answering
  <1> QED
    BY Inductive, HistoryInductive, OwnInductive, InitAnswering, NextAnswering, PTL
       DEF Spec

\* test-hub.c: each of its tests is such a test.
LEMMA HubTests ==
    \A t \in {test_bc0, test_bc1, test_bc123, test_bc_large} : FloodTest(t)
  <1>1. FloodTest(test_bc0)
    <2> DEFINE c == test_bc0.cmds
    <2>1. Len(c) = 2 /\ c[1] = Send(1) /\ c[2] = Silence /\ test_bc0.ifcs = 1
      BY DEF test_bc0
    <2> HIDE DEF c
    <2> QED
      BY <2>1 DEF FloodTest, Send, Silence, c
  <1>2. FloodTest(test_bc1)
    <2> DEFINE c == test_bc1.cmds
    <2>1. /\ Len(c) = 3 /\ c[1] = Send(1) /\ c[2] = Expect({2, 3}) /\ c[3] = Silence
          /\ test_bc1.ifcs = 3
      BY DEF test_bc1
    <2>2. Others(3, 1) = {2, 3}
      BY DEF Others
    <2> HIDE DEF c
    <2> QED
      BY <2>1, <2>2 DEF FloodTest, Send, Expect, Silence, c
  <1>3. FloodTest(test_bc123)
    <2> DEFINE c == test_bc123.cmds
    <2>1. /\ Len(c) = 7 /\ c[7] = Silence /\ test_bc123.ifcs = 3
          /\ c[1] = Send(1) /\ c[2] = Expect({2, 3})
          /\ c[3] = Send(2) /\ c[4] = Expect({1, 3})
          /\ c[5] = Send(3) /\ c[6] = Expect({1, 2})
      BY DEF test_bc123
    <2>2. Others(3, 1) = {2, 3} /\ Others(3, 2) = {1, 3} /\ Others(3, 3) = {1, 2}
      BY DEF Others
    <2> HIDE DEF c
    <2>3. /\ \A k \in {1, 3, 5, 7} : c[k].op # "expect"
          /\ \A k \in {2, 4, 6, 7} : c[k].op # "send"
          /\ \A k \in {1, 3, 5} :
               c[k].op = "send" /\ c[k].ifc \in 1..3 /\ c[k + 1].op = "expect"
      BY <2>1 DEF Send, Expect, Silence
    <2>4. /\ c[2].all = Others(3, c[1].ifc) /\ c[2].all # {}
          /\ c[4].all = Others(3, c[3].ifc) /\ c[4].all # {}
          /\ c[6].all = Others(3, c[5].ifc) /\ c[6].all # {}
      BY <2>1, <2>2 DEF Send, Expect
    <2>5. ASSUME NEW k \in 1..7, c[k].op = "send"
          PROVE  c[k].ifc \in 1..3 /\ k < 7 /\ c[k + 1].op = "expect"
      BY <2>3, <2>5
    <2>6. ASSUME NEW k \in 1..7, c[k].op = "expect"
          PROVE  k > 1 /\ c[k - 1].op = "send" /\ c[k].all # {}
                 /\ c[k].all = Others(3, c[k - 1].ifc)
      <3>1. k \in {2, 4, 6} /\ k - 1 \in {1, 3, 5}
        BY <2>3, <2>6
      <3>2. c[k].all # {} /\ c[k].all = Others(3, c[k - 1].ifc)
        BY <2>4, <3>1
      <3> QED
        BY <2>3, <3>1, <3>2
    <2> QED
      BY <2>1, <2>5, <2>6 DEF FloodTest, c
  <1>4. FloodTest(test_bc_large)
    <2> DEFINE c == test_bc_large.cmds
    <2>1. /\ Len(c) = 3 /\ c[1] = Send(1) /\ c[2] = Expect(2..5) /\ c[3] = Silence
          /\ test_bc_large.ifcs = 5
      BY DEF test_bc_large
    <2>2. Others(5, 1) = 2..5
      BY DEF Others
    <2> HIDE DEF c
    <2> QED
      BY <2>1, <2>2 DEF FloodTest, Send, Expect, Silence, c
  <1> QED
    BY <1>1, <1>2, <1>3, <1>4
-----------------------------------------------------------------------------
(***************************************************************************)
(* The theorems.                                                           *)
(***************************************************************************)
\* harness.c: attempts and bits stay within the interfaces of the test, and
\* neither child_buf nor a pipe overflows.
THEOREM TypeCorrect == Spec => []TypeOK
  <1>1. IInv => TypeOK
    <2> SUFFICES ASSUME IInv PROVE TypeOK
      OBVIOUS
    <2>1. test \in DOMAIN suite
      BY RunningTest DEF IInv
    <2>2. \A n \in DOMAIN results : results[n] \in {0, 1, 4}
      BY ElementOfSeq, LenProperties DEF IInv, Scalars, Result
    <2> QED
      BY <2>1, <2>2 DEF IInv, Scalars, Streams, TypeOK, Between
  <1> QED
    BY <1>1, Inductive, PTL

\* harness.c, child_buf: the first test of a program begins with an empty one.
THEOREM FirstTestIsFresh == Spec => [](test = 1 => fresh)
  <1>1. IInv => (test = 1 => fresh)
    BY DEF IInv, Idle
  <1> QED
    BY <1>1, Inductive, PTL

\* The memmoves of trecv, expect_silence and loop() keep to message bounds in
\* every test that begins with an empty child_buf, and so does what it leaves.
THEOREM FreshTestFramed == Spec => [](fresh => StreamsFramed)
  <1>1. IInv => (fresh => StreamsFramed)
    <2> SUFFICES ASSUME IInv, fresh PROVE StreamsFramed
      OBVIOUS
    <2>1. /\ child_buf \in Seq(Unit) /\ fromChild \in Seq(Unit)
          /\ pending \in Seq(Unit)
          /\ inbuf \in Seq(Unit) /\ toChild \in Seq(Unit) /\ unsent \in Seq(Unit)
      BY KnownAreUnits DEF IInv, Streams
    <2>2. Outbound \in Seq(Unit) /\ Inbound \in Seq(Unit)
      BY <2>1, ConcatProperties DEF Outbound, Inbound
    <2>3. Framed(Outbound) /\ Framed(Inbound)
      BY <2>2, FramedIsChained DEF IInv, InFramed, OutFramed
    <2> QED
      BY <2>3 DEF StreamsFramed, Outbound, Inbound
  <1> QED
    BY <1>1, Inductive, PTL

\* A test is passed only by a program whose answers count for each expected
\* interface exactly once and that said nothing else that was taken: attempts
\* and bits can only run out together.  A type from 33 to 63 may count for the
\* interface 32 below it, as in expect_multicast.  Of a test that begins with
\* an empty child_buf; another may take what an earlier program left there.
THEOREM FreshPassEarned == Spec => [](fresh => PassIsEarned)
  <1>1. IInv /\ History => (fresh => PassIsEarned)
    <2> SUFFICES ASSUME IInv, History, fresh, pc = "cleanup", ret = 0
                 PROVE  PassIsEarned
      BY DEF PassIsEarned
    <2> DEFINE cmds == Running.cmds
               l == Len(cmds)
    <2>1. Commands(cmds, l) /\ DOMAIN cmds = 1..l
      BY RunningCommands DEF IInv
    <2>2. Even(Got, cmds, l)
      BY DEF History, Earned
    <2>3. /\ Len(Got) = Due(cmds, l)
          /\ \A n \in 1..l :
               cmds[n].op = "expect" =>
                 {Interface(Got[j]) : j \in (Due(cmds, n - 1) + 1)..Due(cmds, n)}
                     = cmds[n].all
      BY <2>2 DEF Even, Served, For
    <2> QED
      BY <2>1, <2>3 DEF PassIsEarned, Got
  <1> QED
    BY <1>1, Inductive, HistoryInductive, PTL

\* A test for a hub fails only when the program has answered a frame wrongly or
\* has ended, when trecv waits for frames beyond its deadline, or when a
\* silence comes to wait after its own (a text, or a slow test program, at the
\* deadline does that): no order of the answers or text before makes trecv or
\* expect_silence fail.  Of a test that begins with an empty child_buf and
\* expects no interface above 31.
THEOREM FreshFailureHasCause ==
    Spec => [](fresh /\ FloodTest(Running) => FailureHasCause)
  <1>1. Answering => (fresh /\ FloodTest(Running) => FailureHasCause)
    BY DEF Answering, FailureHasCause
  <1> QED
    BY <1>1, AnsweringInductive, PTL

\* test-hub.c: the same for its tests, each one that begins with an empty
\* child_buf, and so the first.
THEOREM HubTestFailureHasCause ==
    ASSUME \A tests \in Suites : \A n \in 1..Len(tests) :
             tests[n] \in {test_bc0, test_bc1, test_bc123, test_bc_large}
    PROVE  Spec => [](fresh => FailureHasCause)
  <1>1. IInv => FloodTest(Running)
    BY HubTests DEF IInv, Scalars, Running
  <1> QED
    BY <1>1, Inductive, FreshFailureHasCause, PTL
=============================================================================
