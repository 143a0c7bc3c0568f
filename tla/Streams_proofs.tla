---------------------------- MODULE Streams_proofs ----------------------------
(***************************************************************************)
(* Proofs about the components that carry bytes in pieces: TelnetStream,    *)
(* for every set of bytes and messages and any number of threads;           *)
(* QueuePort, for chunks, reads and queues of any size; and Framing, for     *)
(* streams of any length cut in any way.                                    *)
(***************************************************************************)
EXTENDS TelnetStream, QueuePort, Framing, SequenceTheorems, FiniteSetTheorems, WellFoundedInduction, TLAPS

(* Induction over the natural numbers, as a fact about sets.                *)
LEMMA LeastNumber ==
  ASSUME NEW T, T \subseteq Nat, T # {}
  PROVE  \E x \in T : \A y \in T : x <= y
<1> DEFINE R == {ss \in Nat \X Nat : ss[1] < ss[2]}
<1>1. IsWellFoundedOn(R, Nat)
  BY NatLessThanWellFounded DEF OpToRel
<1>2. \E x \in T : \A y \in T : ~ (<<y, x>> \in R)
  <2> HIDE DEF R
  <2> QED
    BY <1>1, WFMin
<1>3. PICK x \in T : \A y \in T : ~ (<<y, x>> \in R)
  BY <1>2
<1>4. ASSUME NEW y \in T PROVE x <= y
  <2>1. y \in Nat /\ x \in Nat
    OBVIOUS
  <2>2. ~(y < x)
    BY <1>3, <2>1
  <2> QED
    BY <2>1, <2>2
<1> QED
  BY <1>4

LEMMA Induction ==
  ASSUME NEW T, 0 \in T, \A n \in Nat : n \in T => n + 1 \in T
  PROVE  Nat \subseteq T
<1> SUFFICES ASSUME NEW k \in Nat, k \notin T PROVE FALSE
  OBVIOUS
<1>1. PICK m \in Nat \ T : \A y \in Nat \ T : m <= y
  BY LeastNumber
<1>2. m # 0 /\ m - 1 \in Nat
  OBVIOUS
<1>3. m - 1 \in T
  BY <1>1, <1>2
<1>4. (m - 1) + 1 \in T
  BY <1>2, <1>3
<1> QED
  BY <1>4
-----------------------------------------------------------------------------
(* The concatenation of the first n of a sequence of sequences, one after   *)
(* the other, as FlattenSeq builds it.                                      *)
Joins(f, ss, n) ==
  f = [i \in 1 .. n |-> IF i = 1 THEN ss[i] ELSE f[i - 1] \o ss[i]]

LEMMA JoinsOne ==
  ASSUME NEW f, NEW ss, NEW n \in Nat, Joins(f, ss, n), NEW i \in 1 .. n
  PROVE  f[i] = IF i = 1 THEN ss[i] ELSE f[i - 1] \o ss[i]
BY Zenon DEF Joins

LEMMA JoinsMore ==
  ASSUME NEW ss, NEW n \in Nat, NEW f, Joins(f, ss, n)
  PROVE  \E g : Joins(g, ss, n + 1)
<1> DEFINE next == IF n + 1 = 1 THEN ss[n + 1] ELSE f[n] \o ss[n + 1]
           g == [i \in 1 .. n + 1 |-> IF i = n + 1 THEN next ELSE f[i]]
           h == [i \in 1 .. n + 1 |-> IF i = 1 THEN ss[i] ELSE g[i - 1] \o ss[i]]
<1>1. ASSUME NEW i \in 1 .. n + 1 PROVE g[i] = h[i]
  <2>1. CASE i = n + 1
    <3>1. g[i] = next
      BY <2>1
    <3>2. i # 1 => i - 1 = n /\ i - 1 \in 1 .. n + 1 /\ i - 1 # n + 1
      BY <2>1
    <3>3. i # 1 => g[i - 1] = f[n]
      BY <3>2
    <3>4. h[i] = IF i = 1 THEN ss[i] ELSE g[i - 1] \o ss[i]
      BY Zenon
    <3> QED
      BY <2>1, <3>1, <3>3, <3>4
  <2>2. CASE i # n + 1
    <3>1. i \in 1 .. n /\ (i # 1 => i - 1 \in 1 .. n + 1 /\ i - 1 # n + 1)
      BY <2>2
    <3>2. g[i] = f[i] /\ (i # 1 => g[i - 1] = f[i - 1])
      BY <2>2, <3>1
    <3>3. h[i] = IF i = 1 THEN ss[i] ELSE g[i - 1] \o ss[i]
      BY Zenon
    <3> QED
      BY <3>1, <3>2, <3>3, JoinsOne
  <2> QED
    BY <2>1, <2>2
<1>2. g = h
  <2>1. g = [i \in 1 .. n + 1 |-> g[i]]
    OBVIOUS
  <2>2. h = [i \in 1 .. n + 1 |-> h[i]]
    <3> HIDE DEF g
    <3> QED
      OBVIOUS
  <2> HIDE DEF g, h
  <2> QED
    BY <1>1, <2>1, <2>2, Zenon
<1>3. Joins(g, ss, n + 1)
  BY <1>2, Zenon DEF Joins
<1> QED
  BY <1>3

LEMMA JoinsExists ==
  ASSUME NEW ss, NEW n \in Nat
  PROVE  \E f : Joins(f, ss, n)
<1> DEFINE T == {k \in Nat : \E f : Joins(f, ss, k)}
<1>1. 0 \in T
  <2>1. \A e : [i \in 1 .. 0 |-> IF i = 1 THEN ss[i] ELSE e[i - 1] \o ss[i]] = <<>>
    OBVIOUS
  <2>2. Joins(<<>>, ss, 0)
    BY <2>1 DEF Joins
  <2> QED
    BY <2>2
<1>2. ASSUME NEW k \in Nat, k \in T PROVE k + 1 \in T
  BY <1>2, JoinsMore
<1> HIDE DEF T
<1>3. n \in T
  BY <1>1, <1>2, Induction
<1> QED
  BY <1>3 DEF T

LEMMA Flattened ==
  ASSUME NEW S, NEW ss \in Seq(Seq(S))
  PROVE  \E f : /\ f[0] = <<>> /\ FlattenSeq(ss) = f[Len(ss)]
                /\ \A i \in 0 .. Len(ss) - 1 : f[i + 1] = f[i] \o ss[i + 1]
<1> DEFINE g == CHOOSE f : Joins(f, ss, Len(ss))
           h == [i \in 0 .. Len(ss) |-> IF i = 0 THEN <<>> ELSE g[i]]
<1>1. Joins(g, ss, Len(ss))
  <2> HIDE DEF g, h
  <2>1. Len(ss) \in Nat
    OBVIOUS
  <2>2. \E f : Joins(f, ss, Len(ss))
    BY <2>1, JoinsExists, Zenon
  <2> QED
    BY <2>2, Zenon DEF g
<1>2. Len(ss) # 0 => FlattenSeq(ss) = g[Len(ss)]
  BY Zenon DEF FlattenSeq, Joins
<1>3. Len(ss) = 0 => FlattenSeq(ss) = <<>>
  BY DEF FlattenSeq
<1>4. h[0] = <<>> /\ FlattenSeq(ss) = h[Len(ss)]
  <2> HIDE DEF g
  <2> QED
    BY <1>2, <1>3
<1>5. ASSUME NEW i \in 0 .. Len(ss) - 1
      PROVE  h[i + 1] = h[i] \o ss[i + 1]
  <2> HIDE DEF g
  <2>1. i + 1 \in 1 .. Len(ss) /\ i + 1 - 1 = i /\ ss[i + 1] \in Seq(S)
    OBVIOUS
  <2>2. g[i + 1] = IF i + 1 = 1 THEN ss[i + 1] ELSE g[i + 1 - 1] \o ss[i + 1]
    BY <1>1, <2>1, JoinsOne
  <2>3. h[i + 1] = g[i + 1] /\ h[i] = IF i = 0 THEN <<>> ELSE g[i]
    BY <2>1
  <2>4. CASE i = 0
    <3>1. g[i + 1] = ss[i + 1] /\ h[i] = <<>>
      BY <2>2, <2>3, <2>4
    <3>2. <<>> \o ss[i + 1] = ss[i + 1]
      BY <2>1
    <3> QED
      BY <2>3, <3>1, <3>2
  <2>5. CASE i # 0
    <3>1. i + 1 # 1
      BY <2>5
    <3>2. g[i + 1] = g[i] \o ss[i + 1]
      BY <2>1, <2>2, <3>1, Zenon
    <3>3. h[i] = g[i]
      BY <2>3, <2>5
    <3> QED
      BY <2>3, <3>2, <3>3
  <2> QED
    BY <2>4, <2>5
<1> HIDE DEF h
<1> QED
  BY <1>4, <1>5

LEMMA FlattenNone == FlattenSeq(<<>>) = <<>>
BY DEF FlattenSeq

(* Flattening a sequence and one that begins with it.                       *)
LEMMA FlattenAppend ==
  ASSUME NEW S, NEW ss \in Seq(Seq(S)), NEW c \in Seq(S)
  PROVE  /\ FlattenSeq(ss) \in Seq(S)
         /\ FlattenSeq(Append(ss, c)) = FlattenSeq(ss) \o c
<1> DEFINE tt == Append(ss, c)
<1>1. /\ tt \in Seq(Seq(S)) /\ Len(ss) \in Nat /\ Len(tt) = Len(ss) + 1
      /\ tt[Len(ss) + 1] = c
      /\ \A i \in 1 .. Len(ss) : tt[i] = ss[i] /\ ss[i] \in Seq(S)
  OBVIOUS
<1> HIDE DEF tt
<1>2. PICK f : /\ f[0] = <<>> /\ FlattenSeq(ss) = f[Len(ss)]
               /\ \A i \in 0 .. Len(ss) - 1 : f[i + 1] = f[i] \o ss[i + 1]
  BY Flattened
<1>3. PICK g : /\ g[0] = <<>> /\ FlattenSeq(tt) = g[Len(tt)]
               /\ \A i \in 0 .. Len(tt) - 1 : g[i + 1] = g[i] \o tt[i + 1]
  BY <1>1, Flattened
<1> DEFINE T == {i \in Nat : i <= Len(ss) => f[i] \in Seq(S) /\ g[i] = f[i]}
<1>4. 0 \in T
  <2>1. <<>> \in Seq(S)
    OBVIOUS
  <2> QED
    BY <1>2, <1>3, <2>1
<1>5. ASSUME NEW n \in Nat, n \in T PROVE n + 1 \in T
  <2> SUFFICES ASSUME n + 1 <= Len(ss) PROVE f[n + 1] \in Seq(S) /\ g[n + 1] = f[n + 1]
    OBVIOUS
  <2>1. f[n] \in Seq(S) /\ g[n] = f[n] /\ n \in 0 .. Len(ss) - 1 /\ n \in 0 .. Len(tt) - 1
    BY <1>1, <1>5
  <2>2. f[n + 1] = f[n] \o ss[n + 1] /\ g[n + 1] = g[n] \o tt[n + 1]
    BY <1>2, <1>3, <2>1
  <2>3. n + 1 \in 1 .. Len(ss) /\ ss[n + 1] \in Seq(S) /\ tt[n + 1] = ss[n + 1]
    BY <1>1
  <2> QED
    BY <2>1, <2>2, <2>3, ConcatProperties
<1> HIDE DEF T
<1>6. Len(ss) \in T
  BY <1>1, <1>4, <1>5, Induction
<1>7. f[Len(ss)] \in Seq(S) /\ g[Len(ss)] = f[Len(ss)]
  BY <1>1, <1>6 DEF T
<1>8. Len(ss) \in 0 .. Len(tt) - 1
  BY <1>1
<1>9. g[Len(ss) + 1] = g[Len(ss)] \o c
  BY <1>1, <1>3, <1>8
<1> QED
  BY <1>1, <1>2, <1>3, <1>7, <1>9 DEF tt

Groups(S) == \A x, y, z \in Seq(S) : (x \o y) \o z = x \o (y \o z)

LEMMA Grouping == \A S : Groups(S)
BY ConcatAssociative, Zenon DEF Groups

LEMMA FlattenHead ==
  ASSUME NEW S, NEW ss \in Seq(Seq(S)), ss # <<>>
  PROVE  /\ FlattenSeq(Tail(ss)) \in Seq(S)
         /\ FlattenSeq(ss) = Head(ss) \o FlattenSeq(Tail(ss))
<1>0. Groups(S)
  BY Grouping
<1> DEFINE tt == Tail(ss)
           h == Head(ss)
<1>1. /\ tt \in Seq(Seq(S)) /\ Len(tt) \in Nat /\ Len(ss) = Len(tt) + 1
      /\ h \in Seq(S) /\ ss[1] = h
      /\ \A i \in 1 .. Len(tt) : tt[i] = ss[i + 1] /\ tt[i] \in Seq(S)
  OBVIOUS
<1> HIDE DEF tt, h
<1>2. PICK f : /\ f[0] = <<>> /\ FlattenSeq(ss) = f[Len(ss)]
               /\ \A i \in 0 .. Len(ss) - 1 : f[i + 1] = f[i] \o ss[i + 1]
  BY Flattened
<1>3. PICK g : /\ g[0] = <<>> /\ FlattenSeq(tt) = g[Len(tt)]
               /\ \A i \in 0 .. Len(tt) - 1 : g[i + 1] = g[i] \o tt[i + 1]
  BY <1>1, Flattened
<1> DEFINE T == {i \in Nat : i <= Len(tt) => g[i] \in Seq(S) /\ f[i + 1] = h \o g[i]}
<1>4. 0 \in T
  <2>1. 0 \in 0 .. Len(ss) - 1 /\ 0 + 1 = 1
    BY <1>1
  <2>2. f[1] = <<>> \o h
    BY <1>1, <1>2, <2>1
  <2>3. <<>> \o h = h /\ h \o <<>> = h /\ <<>> \in Seq(S)
    BY <1>1, ConcatEmptySeq
  <2>4. f[0 + 1] = h \o g[0] /\ g[0] \in Seq(S)
    BY <1>3, <2>1, <2>2, <2>3
  <2> QED
    BY <2>4
<1>5. ASSUME NEW n \in Nat, n \in T PROVE n + 1 \in T
  <2> SUFFICES ASSUME n + 1 <= Len(tt) PROVE g[n + 1] \in Seq(S) /\ f[(n + 1) + 1] = h \o g[n + 1]
    OBVIOUS
  <2>0. n <= Len(tt) /\ n \in 0 .. Len(tt) - 1 /\ n + 1 \in 0 .. Len(ss) - 1
    BY <1>1
  <2>1. g[n] \in Seq(S) /\ f[n + 1] = h \o g[n]
    BY <1>5, <2>0
  <2>2. g[n + 1] = g[n] \o tt[n + 1] /\ f[(n + 1) + 1] = f[n + 1] \o ss[(n + 1) + 1]
    BY <1>2, <1>3, <2>0
  <2>3. n + 1 \in 1 .. Len(tt) /\ tt[n + 1] \in Seq(S) /\ ss[(n + 1) + 1] = tt[n + 1]
    BY <1>1
  <2>4. (h \o g[n]) \o tt[n + 1] = h \o (g[n] \o tt[n + 1])
    <3> DEFINE a == g[n]
               b == tt[n + 1]
    <3>1. h \in Seq(S) /\ a \in Seq(S) /\ b \in Seq(S)
      BY <1>1, <2>1, <2>3
    <3> HIDE DEF a, b
    <3>2. (h \o a) \o b = h \o (a \o b)
      BY <1>0, <3>1, Zenon DEF Groups
    <3> QED
      BY <3>2 DEF a, b
  <2> QED
    BY <2>1, <2>2, <2>3, <2>4, ConcatProperties
<1> HIDE DEF T
<1>6. Len(tt) \in T
  BY <1>1, <1>4, <1>5, Induction
<1>7. g[Len(tt)] \in Seq(S) /\ f[Len(tt) + 1] = h \o g[Len(tt)]
  BY <1>1, <1>6 DEF T
<1> QED
  BY <1>1, <1>2, <1>3, <1>7 DEF tt, h
-----------------------------------------------------------------------------
(* What the receiver does with one byte, from r to q.  It never meets the   *)
(* end of a subnegotiation outside of one.                                  *)
At(r) == mode = r.mode /\ suboption = r.suboption /\ command = r.command /\ got = r.got

Rx(m, s, c, g) == [mode |-> m, suboption |-> s, command |-> c, got |-> g]

LEMMA RxFields ==
  ASSUME NEW m, NEW s, NEW c, NEW g
  PROVE  /\ Rx(m, s, c, g).mode = m /\ Rx(m, s, c, g).suboption = s
         /\ Rx(m, s, c, g).command = c /\ Rx(m, s, c, g).got = g
BY DEF Rx

Stored(r, b, q) ==
  /\ q.mode = "NORMAL" /\ q.command = r.command
  /\ IF r.suboption = None
     THEN q.suboption = None /\ q.got = Append(r.got, Data(b))
     ELSE q.suboption = {Append(s, b) : s \in r.suboption} /\ q.got = r.got

Stepped(r, b, q) ==
  \/ /\ r.mode = "NORMAL" /\ b = "IAC"
     /\ q.mode = "IAC_SEEN"
     /\ q.suboption = r.suboption /\ q.command = r.command /\ q.got = r.got
  \/ /\ r.mode = "NORMAL" /\ b # "IAC"
     /\ Stored(r, b, q)
  \/ /\ r.mode = "IAC_SEEN" /\ b = "IAC"
     /\ Stored(r, b, q)
  \/ /\ r.mode = "IAC_SEEN" /\ b = "SB"
     /\ q.mode = "NORMAL" /\ q.suboption = Some(<<>>)
     /\ q.command = r.command /\ q.got = r.got
  \/ /\ r.mode = "IAC_SEEN" /\ b = "SE"
     /\ q.mode = "NORMAL" /\ q.suboption = None /\ q.command = r.command
     /\ \E s : r.suboption = Some(s) /\ q.got = Append(r.got, Sub(s))
  \/ /\ r.mode = "IAC_SEEN" /\ b \notin {"IAC", "SB", "SE"}
     /\ q.suboption = r.suboption /\ q.got = r.got
     /\ IF b \in Commands THEN q.mode = "NEGOTIATE" /\ q.command = b
        ELSE q.mode = "NORMAL" /\ q.command = r.command
  \/ /\ r.mode = "NEGOTIATE"
     /\ q.mode = "NORMAL" /\ q.suboption = r.suboption /\ q.command = r.command
     /\ q.got = Append(r.got, Option(r.command, b))

(* What was delivered is the beginning of what will be.                     *)
Before(a, b) ==
  /\ a \in Seq(Items) /\ b \in Seq(Items)
  /\ Len(a) <= Len(b)
  /\ \A i \in 1 .. Len(a) : a[i] = b[i]

(* The bytes s take the receiver from r to q.                               *)
Takes(run, r, s, q) ==
  /\ run[0] = r /\ run[Len(s)] = q
  /\ \A k \in 0 .. Len(s) : Before(run[k].got, q.got)
  /\ \A k \in 1 .. Len(s) : Stepped(run[k - 1], s[k], run[k])
Path(r, s, q) == \E run : Takes(run, r, s, q)

LEMMA BeforeTrans ==
  ASSUME NEW a, NEW b, NEW c, Before(a, b), Before(b, c)
  PROVE  Before(a, c)
BY DEF Before

LEMMA PathNone ==
  ASSUME NEW r, NEW q
  PROVE  /\ Path(r, <<>>, q) => r = q /\ q.got \in Seq(Items)
         /\ r.got \in Seq(Items) => Path(r, <<>>, r)
<1>1. ASSUME NEW run, Takes(run, r, <<>>, q) PROVE r = q /\ q.got \in Seq(Items)
  BY <1>1 DEF Takes, Before
<1>2. ASSUME r.got \in Seq(Items) PROVE Path(r, <<>>, r)
  <2> DEFINE run == [k \in {0} |-> r]
  <2>1. Takes(run, r, <<>>, r)
    BY <1>2 DEF Takes, Before
  <2> QED
    BY <2>1 DEF Path
<1> QED
  BY <1>1, <1>2 DEF Path

LEMMA PathByte ==
  ASSUME NEW r, NEW q, NEW b, Stepped(r, b, q), Before(r.got, q.got)
  PROVE  Path(r, <<b>>, q)
<1> DEFINE run == [k \in {0, 1} |-> IF k = 0 THEN r ELSE q]
<1>1. Before(q.got, q.got)
  BY DEF Before
<1>2. Takes(run, r, <<b>>, q)
  <2>1. run[0] = r /\ run[1] = q /\ Len(<<b>>) = 1 /\ <<b>>[1] = b
    OBVIOUS
  <2> HIDE DEF run
  <2>2. \A k \in 0 .. Len(<<b>>) : Before(run[k].got, q.got)
    BY <1>1, <2>1
  <2>3. \A k \in 1 .. Len(<<b>>) : Stepped(run[k - 1], <<b>>[k], run[k])
    BY <2>1
  <2> QED
    BY <2>1, <2>2, <2>3 DEF Takes
<1> QED
  BY <1>2 DEF Path

LEMMA PathJoin ==
  ASSUME NEW S, NEW a \in Seq(S), NEW b \in Seq(S), NEW r, NEW p, NEW q,
         Path(r, a, p), Path(p, b, q)
  PROVE  Path(r, a \o b, q)
<1>1. PICK ra : Takes(ra, r, a, p)
  BY DEF Path
<1>2. PICK rb : Takes(rb, p, b, q)
  BY DEF Path
<1> DEFINE n == Len(a)
           c == a \o b
           run == [k \in 0 .. Len(c) |-> IF k <= n THEN ra[k] ELSE rb[k - n]]
<1>3. /\ n \in Nat /\ Len(b) \in Nat /\ Len(c) = n + Len(b)
      /\ \A k \in 1 .. n : c[k] = a[k]
      /\ \A k \in n + 1 .. Len(c) : c[k] = b[k - n]
  BY ConcatProperties
<1> HIDE DEF c
<1>4. /\ \A k \in 0 .. n : run[k] = ra[k]
      /\ \A k \in n .. Len(c) : run[k] = rb[k - n]
  <2>1. ra[n] = p /\ rb[0] = p
    BY <1>1, <1>2 DEF Takes
  <2>2. \A k \in 0 .. n : run[k] = ra[k]
    BY <1>3
  <2>3. ASSUME NEW k \in n .. Len(c) PROVE run[k] = rb[k - n]
    <3>1. CASE k = n
      BY <1>3, <2>1, <2>2, <3>1
    <3>2. CASE k # n
      BY <1>3, <3>2
    <3> QED
      BY <3>1, <3>2
  <2> QED
    BY <2>2, <2>3
<1> HIDE DEF run, n
<1>5. run[0] = r /\ run[Len(c)] = q
  <2>1. 0 \in 0 .. n /\ Len(c) \in n .. Len(c) /\ Len(c) - n = Len(b)
    BY <1>3
  <2>2. run[0] = ra[0] /\ run[Len(c)] = rb[Len(c) - n]
    BY <1>4, <2>1, Zenon
  <2> QED
    BY <1>1, <1>2, <2>1, <2>2 DEF Takes
<1>6. ASSUME NEW k \in 0 .. Len(c) PROVE Before(run[k].got, q.got)
  <2>1. Before(p.got, q.got)
    <3>1. 0 \in 0 .. Len(b)
      BY <1>3
    <3> QED
      BY <1>2, <3>1, Zenon DEF Takes
  <2>2. CASE k <= n
    <3>1. k \in 0 .. n
      BY <1>3, <2>2
    <3>2. Before(ra[k].got, p.got) /\ run[k] = ra[k]
      BY <1>1, <1>4, <3>1 DEF Takes, n
    <3> QED
      BY <2>1, <3>2, BeforeTrans
  <2>3. CASE ~(k <= n)
    <3>1. k \in n .. Len(c) /\ k - n \in 0 .. Len(b)
      BY <1>3, <2>3
    <3> QED
      BY <1>2, <1>4, <3>1 DEF Takes
  <2> QED
    BY <2>2, <2>3
<1>7. ASSUME NEW k \in 1 .. Len(c) PROVE Stepped(run[k - 1], c[k], run[k])
  <2>1. CASE k <= n
    <3>1. k \in 1 .. n /\ k \in 0 .. n /\ k - 1 \in 0 .. n
      BY <1>3, <2>1
    <3>2. run[k] = ra[k] /\ run[k - 1] = ra[k - 1] /\ c[k] = a[k]
      BY <1>3, <1>4, <3>1
    <3> QED
      BY <1>1, <3>1, <3>2 DEF Takes, n
  <2>2. CASE ~(k <= n)
    <3>1. /\ k \in n .. Len(c) /\ k - 1 \in n .. Len(c) /\ k \in n + 1 .. Len(c)
          /\ k - n \in 1 .. Len(b) /\ (k - 1) - n = (k - n) - 1
      BY <1>3, <2>2
    <3>2. run[k] = rb[k - n] /\ run[k - 1] = rb[(k - n) - 1] /\ c[k] = b[k - n]
      BY <1>3, <1>4, <3>1
    <3>3. Stepped(rb[(k - n) - 1], b[k - n], rb[k - n])
      BY <1>2, <3>1 DEF Takes
    <3> QED
      BY <3>2, <3>3
  <2> QED
    BY <2>1, <2>2
<1>8. Takes(run, r, c, q)
  BY <1>5, <1>6, <1>7 DEF Takes
<1> QED
  BY <1>8 DEF Path, c

LEMMA PathTail ==
  ASSUME NEW S, NEW s \in Seq(S), s # <<>>, NEW r, NEW q, Path(r, s, q)
  PROVE  \E p : Stepped(r, Head(s), p) /\ Before(p.got, q.got) /\ Path(p, Tail(s), q)
<1>1. PICK run : Takes(run, r, s, q)
  BY DEF Path
<1> DEFINE n == Len(s) - 1
           rest == [k \in 0 .. n |-> run[k + 1]]
<1>2. /\ n \in Nat /\ Len(s) = n + 1 /\ Len(Tail(s)) = n /\ s[1] = Head(s)
      /\ \A k \in 1 .. n : Tail(s)[k] = s[k + 1]
  OBVIOUS
<1>3. \A k \in 0 .. n : rest[k] = run[k + 1]
  OBVIOUS
<1> HIDE DEF rest, n
<1>4. Stepped(r, Head(s), rest[0]) /\ Before(rest[0].got, q.got)
  <2>1. 1 \in 1 .. Len(s) /\ 1 \in 0 .. Len(s) /\ 0 \in 0 .. n /\ 1 - 1 = 0 /\ 0 + 1 = 1
    BY <1>2
  <2>2. rest[0] = run[1]
    BY <1>3, <2>1
  <2>3. Stepped(run[1 - 1], s[1], run[1]) /\ Before(run[1].got, q.got) /\ run[0] = r
    BY <1>1, <2>1 DEF Takes
  <2> QED
    BY <1>2, <2>1, <2>2, <2>3
<1>5. Takes(rest, rest[0], Tail(s), q)
  <2>1. rest[Len(Tail(s))] = q
    <3>1. n \in 0 .. n /\ rest[n] = run[n + 1]
      BY <1>2, <1>3
    <3> QED
      BY <1>1, <1>2, <3>1 DEF Takes
  <2>2. ASSUME NEW k \in 0 .. n PROVE Before(rest[k].got, q.got)
    <3>1. k + 1 \in 0 .. Len(s) /\ rest[k] = run[k + 1]
      BY <1>2, <1>3
    <3> QED
      BY <1>1, <3>1 DEF Takes
  <2>3. ASSUME NEW k \in 1 .. n PROVE Stepped(rest[k - 1], Tail(s)[k], rest[k])
    <3>1. /\ k + 1 \in 1 .. Len(s) /\ k \in 0 .. n /\ k - 1 \in 0 .. n
          /\ (k - 1) + 1 = k /\ (k + 1) - 1 = k
      BY <1>2
    <3>2. rest[k] = run[k + 1] /\ rest[k - 1] = run[k]
      BY <1>3, <3>1
    <3>3. Stepped(run[(k + 1) - 1], s[k + 1], run[k + 1])
      BY <1>1, <3>1 DEF Takes
    <3> QED
      BY <1>2, <3>1, <3>2, <3>3
  <2> QED
    BY <1>2, <2>1, <2>2, <2>3 DEF Takes
<1> QED
  BY <1>4, <1>5 DEF Path
-----------------------------------------------------------------------------
(* Every message takes the receiver from its first state back to it, with   *)
(* the message delivered.                                                   *)
Escaped(b) == IF b = "IAC" THEN <<"IAC", "IAC">> ELSE <<b>>

LEMMA Pair ==
  ASSUME NEW S, NEW a \in S, NEW b \in S
  PROVE  <<a>> \o <<b>> = <<a, b>>
<1> DEFINE c == <<a>> \o <<b>>
           d == <<a, b>>
<1>1. c \in Seq(S) /\ Len(c) = 2 /\ c[1] = a /\ c[2] = b
  <2>1. <<a>> \in Seq(S) /\ <<b>> \in Seq(S)
    OBVIOUS
  <2> QED
    BY <2>1, ConcatProperties
<1>2. d \in Seq(S) /\ Len(d) = 2 /\ d[1] = a /\ d[2] = b
  OBVIOUS
<1> HIDE DEF c, d
<1>3. \A i \in 1 .. Len(c) : c[i] = d[i]
  BY <1>1, <1>2
<1>4. c = d
  BY <1>1, <1>2, <1>3, SeqEqual
<1> QED
  BY <1>4 DEF c, d

LEMMA EscapedPath ==
  ASSUME NEW b \in Bytes, NEW r, NEW q, r.mode = "NORMAL", Stored(r, b, q), Before(r.got, q.got)
  PROVE  Escaped(b) \in Seq(Bytes) /\ Path(r, Escaped(b), q)
<1>1. "IAC" \in Bytes
  BY StreamAssumption DEF StreamAssumption
<1>2. CASE b # "IAC"
  <2>1. Stepped(r, b, q)
    BY <1>2 DEF Stepped
  <2> QED
    BY <1>2, <2>1, PathByte DEF Escaped
<1>3. CASE b = "IAC"
  <2> DEFINE p == Rx("IAC_SEEN", r.suboption, r.command, r.got)
  <2>1. Before(r.got, r.got) /\ p.got = r.got
    BY DEF Before, Rx
  <2>2. Stepped(r, "IAC", p) /\ Stepped(p, "IAC", q)
    BY <1>3 DEF Stepped, Stored, Rx
  <2> HIDE DEF p
  <2>3. Path(r, <<"IAC">>, p) /\ Path(p, <<"IAC">>, q)
    BY <2>1, <2>2, PathByte
  <2>4. <<"IAC">> \in Seq(Bytes) /\ Escaped(b) \in Seq(Bytes)
    BY <1>1, <1>3 DEF Escaped
  <2>5. <<"IAC">> \o <<"IAC">> = Escaped(b)
    BY <1>1, <1>3, Pair DEF Escaped
  <2> DEFINE iac == <<"IAC">>
  <2>6. iac \in Seq(Bytes) /\ Path(r, iac, p) /\ Path(p, iac, q) /\ iac \o iac = Escaped(b)
    BY <2>3, <2>4, <2>5
  <2> HIDE DEF iac
  <2> QED
    BY <2>4, <2>6, PathJoin
<1> QED
  BY <1>2, <1>3

(* at(i) is the receiver after the first i bytes of s.                      *)
LEMMA DoubledPath ==
  ASSUME NEW s \in Seq(Bytes), NEW at,
         \A i \in 0 .. Len(s) : at[i].mode = "NORMAL" /\ at[i].got \in Seq(Items),
         \A i \in 0 .. Len(s) - 1 :
           Stored(at[i], s[i + 1], at[i + 1]) /\ Before(at[i].got, at[i + 1].got)
  PROVE  Doubled(s) \in Seq(Bytes) /\ Path(at[0], Doubled(s), at[Len(s)])
<1> DEFINE ss == [i \in DOMAIN s |-> Escaped(s[i])]
<1>1. Len(s) \in Nat /\ DOMAIN s = 1 .. Len(s) /\ \A i \in 1 .. Len(s) : s[i] \in Bytes
  OBVIOUS
<1>2. "IAC" \in Bytes
  BY StreamAssumption DEF StreamAssumption
<1>3. ss \in Seq(Seq(Bytes)) /\ Len(ss) = Len(s) /\ \A i \in 1 .. Len(s) : ss[i] = Escaped(s[i])
  <2>1. \A i \in 1 .. Len(s) : Escaped(s[i]) \in Seq(Bytes)
    BY <1>1, <1>2 DEF Escaped
  <2> QED
    BY <1>1, <2>1
<1>4. Doubled(s) = FlattenSeq(ss)
  BY DEF Doubled, Escaped
<1> HIDE DEF ss
<1>5. PICK f : /\ f[0] = <<>> /\ FlattenSeq(ss) = f[Len(ss)]
               /\ \A i \in 0 .. Len(ss) - 1 : f[i + 1] = f[i] \o ss[i + 1]
  BY <1>3, Flattened
<1> DEFINE T == {n \in Nat : n <= Len(s) => f[n] \in Seq(Bytes) /\ Path(at[0], f[n], at[n])}
<1>6. 0 \in T
  <2>1. at[0].got \in Seq(Items)
    BY <1>1
  <2>2. Path(at[0], <<>>, at[0]) /\ <<>> \in Seq(Bytes)
    BY <2>1, PathNone
  <2> QED
    BY <1>5, <2>2
<1>7. ASSUME NEW n \in Nat, n \in T PROVE n + 1 \in T
  <2> SUFFICES ASSUME n + 1 <= Len(s)
               PROVE  f[n + 1] \in Seq(Bytes) /\ Path(at[0], f[n + 1], at[n + 1])
    OBVIOUS
  <2>1. /\ n \in 0 .. Len(s) - 1 /\ n \in 0 .. Len(s) /\ n + 1 \in 1 .. Len(s)
        /\ f[n] \in Seq(Bytes) /\ Path(at[0], f[n], at[n])
    BY <1>1, <1>7
  <2>2. f[n + 1] = f[n] \o Escaped(s[n + 1])
    BY <1>3, <1>5, <2>1
  <2>3. Escaped(s[n + 1]) \in Seq(Bytes) /\ Path(at[n], Escaped(s[n + 1]), at[n + 1])
    <3>1. s[n + 1] \in Bytes /\ at[n].mode = "NORMAL"
      BY <1>1, <2>1
    <3>2. Stored(at[n], s[n + 1], at[n + 1]) /\ Before(at[n].got, at[n + 1].got)
      BY <2>1
    <3> QED
      BY <3>1, <3>2, EscapedPath
  <2>4. Path(at[0], f[n] \o Escaped(s[n + 1]), at[n + 1])
    BY <2>1, <2>3, PathJoin
  <2>5. f[n] \o Escaped(s[n + 1]) \in Seq(Bytes)
    BY <2>1, <2>3
  <2> QED
    BY <2>2, <2>4, <2>5
<1>8. Len(s) \in T
  <2> HIDE DEF T
  <2> QED
    BY <1>1, <1>6, <1>7, Induction
<1> QED
  BY <1>1, <1>3, <1>4, <1>5, <1>8

LEMMA DataPath ==
  ASSUME NEW s \in Seq(Bytes), NEW c, NEW g \in Seq(Items)
  PROVE  LET items == [i \in DOMAIN s |-> Data(s[i])] IN
           /\ Doubled(s) \in Seq(Bytes) /\ items \in Seq(Items)
           /\ Path(Rx("NORMAL", None, c, g), Doubled(s), Rx("NORMAL", None, c, g \o items))
<1> DEFINE items == [i \in DOMAIN s |-> Data(s[i])]
           now == [i \in 0 .. Len(s) |-> g \o SubSeq(items, 1, i)]
           at == [i \in 0 .. Len(s) |-> Rx("NORMAL", None, c, now[i])]
<1>1. Len(s) \in Nat /\ DOMAIN s = 1 .. Len(s) /\ \A i \in 1 .. Len(s) : s[i] \in Bytes
  OBVIOUS
<1>2. items \in Seq(Items) /\ Len(items) = Len(s) /\ \A i \in 1 .. Len(s) : items[i] = Data(s[i])
  BY <1>1 DEF Items
<1> HIDE DEF items
<1>3. \A i \in 0 .. Len(s) : now[i] = g \o SubSeq(items, 1, i) /\ now[i] \in Seq(Items)
  <2>1. \A i \in 0 .. Len(s) : SubSeq(items, 1, i) \in Seq(Items)
    BY <1>1, <1>2
  <2> QED
    BY <2>1
<1>4. now[0] = g /\ now[Len(s)] = g \o items
  <2>1. SubSeq(items, 1, 0) = <<>> /\ SubSeq(items, 1, Len(s)) = items /\ g \o <<>> = g
    BY <1>1, <1>2
  <2>2. 0 \in 0 .. Len(s) /\ Len(s) \in 0 .. Len(s)
    BY <1>1
  <2> QED
    BY <1>3, <2>1, <2>2, Zenon
<1>5. \A i \in 0 .. Len(s) - 1 : now[i + 1] = Append(now[i], Data(s[i + 1]))
  <2> SUFFICES ASSUME NEW i \in 0 .. Len(s) - 1
               PROVE  now[i + 1] = Append(now[i], Data(s[i + 1]))
    OBVIOUS
  <2>1. i + 1 \in 1 .. Len(s) /\ i \in 0 .. Len(s) /\ i + 1 \in 0 .. Len(s)
    BY <1>1
  <2>2. items[i + 1] = Data(s[i + 1]) /\ items[i + 1] \in Items
    BY <1>2, <2>1
  <2> DEFINE a == SubSeq(items, 1, i)
             d == items[i + 1]
  <2>3. a \in Seq(Items) /\ d \in Items
    BY <1>1, <1>2, <2>1, <2>2
  <2>4. SubSeq(items, 1, i + 1) = Append(a, d)
    BY <1>1, <1>2, <2>1
  <2>5. g \o Append(a, d) = Append(g \o a, d)
    <3> HIDE DEF a, d
    <3> QED
      BY <2>3
  <2> QED
    BY <1>3, <2>1, <2>2, <2>4, <2>5
<1> HIDE DEF now
<1>6. \A i \in 0 .. Len(s) : at[i] = Rx("NORMAL", None, c, now[i])
  BY Zenon
<1>7. \A i \in 0 .. Len(s) : at[i].mode = "NORMAL" /\ at[i].got \in Seq(Items)
  BY <1>3, <1>6 DEF Rx
<1>8. ASSUME NEW i \in 0 .. Len(s) - 1
      PROVE  Stored(at[i], s[i + 1], at[i + 1]) /\ Before(at[i].got, at[i + 1].got)
  <2>1. i \in 0 .. Len(s) /\ i + 1 \in 0 .. Len(s) /\ i + 1 \in 1 .. Len(s)
    BY <1>1
  <2>2. now[i + 1] = Append(now[i], Data(s[i + 1])) /\ Data(s[i + 1]) \in Items
    BY <1>2, <1>5, <2>1
  <2>3. Before(now[i], now[i + 1])
    BY <1>3, <2>1, <2>2 DEF Before
  <2> QED
    BY <1>6, <2>1, <2>2, <2>3 DEF Rx, Stored
<1>9. Doubled(s) \in Seq(Bytes) /\ Path(at[0], Doubled(s), at[Len(s)])
  <2> HIDE DEF at
  <2> QED
    BY <1>7, <1>8, DoubledPath
<1>10. at[0] = Rx("NORMAL", None, c, g) /\ at[Len(s)] = Rx("NORMAL", None, c, g \o items)
  <2>1. 0 \in 0 .. Len(s) /\ Len(s) \in 0 .. Len(s)
    BY <1>1
  <2> QED
    BY <1>4, <1>6, <2>1, Zenon
<1> QED
  BY <1>2, <1>9, <1>10 DEF items

LEMMA Triple ==
  ASSUME NEW S, NEW a \in S, NEW b \in S, NEW e \in S
  PROVE  <<a, b>> \o <<e>> = <<a, b, e>>
<1> DEFINE c == <<a, b>> \o <<e>>
           d == <<a, b, e>>
<1>1. c \in Seq(S) /\ Len(c) = 3 /\ c[1] = a /\ c[2] = b /\ c[3] = e
  <2>1. <<a, b>> \in Seq(S) /\ <<e>> \in Seq(S)
    OBVIOUS
  <2> QED
    BY <2>1, ConcatProperties
<1>2. d \in Seq(S) /\ Len(d) = 3 /\ d[1] = a /\ d[2] = b /\ d[3] = e
  OBVIOUS
<1> HIDE DEF c, d
<1>3. \A i \in 1 .. Len(c) : c[i] = d[i]
  BY <1>1, <1>2
<1>4. c = d
  BY <1>1, <1>2, <1>3, SeqEqual
<1> QED
  BY <1>4 DEF c, d

LEMMA PathPair ==
  ASSUME NEW a \in Bytes, NEW b \in Bytes, NEW r, NEW p, NEW q,
         Stepped(r, a, p), Stepped(p, b, q), Before(r.got, p.got), Before(p.got, q.got)
  PROVE  <<a, b>> \in Seq(Bytes) /\ Path(r, <<a, b>>, q)
<1> DEFINE x == <<a>>
           y == <<b>>
<1>1. x \in Seq(Bytes) /\ y \in Seq(Bytes) /\ x \o y = <<a, b>> /\ x \o y \in Seq(Bytes)
  BY Pair
<1>2. Path(r, x, p) /\ Path(p, y, q)
  BY PathByte
<1> HIDE DEF x, y
<1>3. Path(r, x \o y, q)
  BY <1>1, <1>2, PathJoin
<1> QED
  BY <1>1, <1>3

LEMMA OptionPath ==
  ASSUME NEW b \in Bytes, NEW code \in Bytes, NEW c, NEW g \in Seq(Items), b \in Commands
  PROVE  /\ OptionBytes(b, code) \in Seq(Bytes)
         /\ Append(g, Option(b, code)) \in Seq(Items)
         /\ Path(Rx("NORMAL", None, c, g), OptionBytes(b, code),
                 Rx("NORMAL", None, b, Append(g, Option(b, code))))
<1> DEFINE r == Rx("NORMAL", None, c, g)
           p1 == Rx("IAC_SEEN", None, c, g)
           p2 == Rx("NEGOTIATE", None, b, g)
           q == Rx("NORMAL", None, b, Append(g, Option(b, code)))
           x == <<"IAC", b>>
           y == <<code>>
<1>1. "IAC" \in Bytes
  BY StreamAssumption DEF StreamAssumption
<1>2. Append(g, Option(b, code)) \in Seq(Items) /\ Before(g, Append(g, Option(b, code))) /\ Before(g, g)
  <2>1. Option(b, code) \in Items
    BY DEF Items
  <2> QED
    BY <2>1 DEF Before
<1>3. Stepped(r, "IAC", p1) /\ Stepped(p1, b, p2) /\ Stepped(p2, code, q)
  BY DEF Stepped, Rx, Commands
<1>4. Before(r.got, p1.got) /\ Before(p1.got, p2.got) /\ Before(p2.got, q.got)
  BY <1>2 DEF Rx
<1> HIDE DEF r, p1, p2, q
<1>5. x \in Seq(Bytes) /\ Path(r, x, p2)
  BY <1>1, <1>3, <1>4, PathPair
<1>6. y \in Seq(Bytes) /\ Path(p2, y, q)
  BY <1>3, <1>4, PathByte
<1>7. x \o y = OptionBytes(b, code)
  BY <1>1, Triple DEF OptionBytes
<1> HIDE DEF x, y
<1>8. x \o y \in Seq(Bytes) /\ Path(r, x \o y, q)
  BY <1>5, <1>6, PathJoin
<1> QED
  BY <1>2, <1>7, <1>8 DEF r, q

LEMMA IgnoredPath ==
  ASSUME NEW c, NEW g \in Seq(Items)
  PROVE  /\ <<"IAC", "x">> \in Seq(Bytes)
         /\ Path(Rx("NORMAL", None, c, g), <<"IAC", "x">>, Rx("NORMAL", None, c, g))
<1> DEFINE r == Rx("NORMAL", None, c, g)
           p == Rx("IAC_SEEN", None, c, g)
<1>1. "IAC" \in Bytes /\ "x" \in Bytes
  BY StreamAssumption DEF StreamAssumption
<1>2. Stepped(r, "IAC", p) /\ Stepped(p, "x", r)
  BY DEF Stepped, Rx, Commands
<1>3. Before(r.got, p.got) /\ Before(p.got, r.got)
  BY DEF Rx, Before
<1> HIDE DEF r, p
<1>4. <<"IAC", "x">> \in Seq(Bytes) /\ Path(r, <<"IAC", "x">>, r)
  BY <1>1, <1>2, <1>3, PathPair
<1> QED
  BY <1>4 DEF r

LEMMA ContentPath ==
  ASSUME NEW s \in Seq(Bytes), NEW h \in Seq(Bytes), NEW c, NEW g \in Seq(Items)
  PROVE  /\ Doubled(s) \in Seq(Bytes)
         /\ Path(Rx("NORMAL", Some(h), c, g), Doubled(s), Rx("NORMAL", Some(h \o s), c, g))
<1> DEFINE now == [i \in 0 .. Len(s) |-> h \o SubSeq(s, 1, i)]
           at == [i \in 0 .. Len(s) |-> Rx("NORMAL", Some(now[i]), c, g)]
<1>1. Len(s) \in Nat /\ \A i \in 1 .. Len(s) : s[i] \in Bytes
  OBVIOUS
<1>2. \A i \in 0 .. Len(s) : now[i] = h \o SubSeq(s, 1, i)
  OBVIOUS
<1>3. now[0] = h /\ now[Len(s)] = h \o s
  <2>1. SubSeq(s, 1, 0) = <<>> /\ SubSeq(s, 1, Len(s)) = s /\ h \o <<>> = h
    BY <1>1
  <2>2. 0 \in 0 .. Len(s) /\ Len(s) \in 0 .. Len(s)
    BY <1>1
  <2> QED
    BY <1>2, <2>1, <2>2, Zenon
<1>4. \A i \in 0 .. Len(s) - 1 : now[i + 1] = Append(now[i], s[i + 1])
  <2> SUFFICES ASSUME NEW i \in 0 .. Len(s) - 1
               PROVE  now[i + 1] = Append(now[i], s[i + 1])
    OBVIOUS
  <2> DEFINE a == SubSeq(s, 1, i)
             d == s[i + 1]
  <2>1. i + 1 \in 1 .. Len(s) /\ i \in 0 .. Len(s) /\ i + 1 \in 0 .. Len(s)
    BY <1>1
  <2>2. a \in Seq(Bytes) /\ d \in Bytes
    BY <1>1, <2>1
  <2>3. SubSeq(s, 1, i + 1) = Append(a, d)
    BY <1>1, <2>1
  <2>4. h \o Append(a, d) = Append(h \o a, d)
    <3> HIDE DEF a, d
    <3> QED
      BY <2>2
  <2> QED
    BY <1>2, <2>1, <2>3, <2>4
<1> HIDE DEF now
<1>5. \A i \in 0 .. Len(s) : at[i] = Rx("NORMAL", Some(now[i]), c, g)
  BY Zenon
<1> HIDE DEF at
<1>6. \A i \in 0 .. Len(s) : /\ at[i].mode = "NORMAL" /\ at[i].suboption = Some(now[i])
                             /\ at[i].command = c /\ at[i].got = g
  <2> SUFFICES ASSUME NEW i \in 0 .. Len(s)
               PROVE  /\ at[i].mode = "NORMAL" /\ at[i].suboption = Some(now[i])
                      /\ at[i].command = c /\ at[i].got = g
    OBVIOUS
  <2>1. at[i] = Rx("NORMAL", Some(now[i]), c, g)
    BY <1>5
  <2> DEFINE h1 == Some(now[i])
  <2>2. at[i] = Rx("NORMAL", h1, c, g)
    BY <2>1
  <2> HIDE DEF h1
  <2>3. at[i].mode = "NORMAL" /\ at[i].suboption = h1 /\ at[i].command = c /\ at[i].got = g
    BY <2>2, RxFields
  <2> QED
    BY <2>3 DEF h1
<1>7. ASSUME NEW i \in 0 .. Len(s) - 1
      PROVE  Stored(at[i], s[i + 1], at[i + 1]) /\ Before(at[i].got, at[i + 1].got)
  <2>1. i \in 0 .. Len(s) /\ i + 1 \in 0 .. Len(s)
    BY <1>1
  <2>2. now[i + 1] = Append(now[i], s[i + 1])
    BY <1>4
  <2>3. Before(g, g)
    BY DEF Before
  <2>4. Some(now[i]) # None
    BY DEF Some, None
  <2>5. {Append(e, s[i + 1]) : e \in Some(now[i])} = Some(now[i + 1])
    BY <2>2 DEF Some
  <2> QED
    BY <1>6, <2>1, <2>3, <2>4, <2>5 DEF Stored
<1>8. Doubled(s) \in Seq(Bytes) /\ Path(at[0], Doubled(s), at[Len(s)])
  BY <1>6, <1>7, DoubledPath
<1>9. at[0] = Rx("NORMAL", Some(h), c, g) /\ at[Len(s)] = Rx("NORMAL", Some(h \o s), c, g)
  <2>1. 0 \in 0 .. Len(s) /\ Len(s) \in 0 .. Len(s)
    BY <1>1
  <2> QED
    BY <1>3, <1>5, <2>1, Zenon
<1> QED
  BY <1>8, <1>9

LEMMA SubPath ==
  ASSUME NEW v \in Seq(Bytes), NEW c, NEW g \in Seq(Items)
  PROVE  LET item == Sub(Header \o v) IN
           /\ SubBytes(v) \in Seq(Bytes) /\ item \in Items
           /\ Path(Rx("NORMAL", None, c, g), SubBytes(v), Rx("NORMAL", None, c, Append(g, item)))
<1> DEFINE item == Sub(Header \o v)
           r == Rx("NORMAL", None, c, g)
           p1 == Rx("IAC_SEEN", None, c, g)
           p2 == Rx("NORMAL", Some(<<>>), c, g)
           p3 == Rx("NORMAL", Some(Header), c, g)
           p4 == Rx("NORMAL", Some(Header \o v), c, g)
           p5 == Rx("IAC_SEEN", Some(Header \o v), c, g)
           q == Rx("NORMAL", None, c, Append(g, item))
           x == <<"IAC", "SB">>
           y == Doubled(v)
           z == <<"IAC", "SE">>
<1>1. {"IAC", "SB", "SE", "x"} \subseteq Bytes
  BY StreamAssumption DEF StreamAssumption
<1>2. Header \in Seq(Bytes) /\ Header \o v \in Seq(Bytes) /\ item \in Items
  <2>1. Header \in Seq(Bytes)
    BY <1>1 DEF Header
  <2>2. Header \o v \in Seq(Bytes)
    BY <2>1
  <2> QED
    BY <2>1, <2>2 DEF Items, Sub
<1>3. Before(g, g) /\ Before(g, Append(g, item)) /\ Append(g, item) \in Seq(Items)
  <2> HIDE DEF item
  <2> QED
    BY <1>2 DEF Before
<1>4. x \in Seq(Bytes) /\ Path(r, x, p2)
  <2>1. Stepped(r, "IAC", p1) /\ Stepped(p1, "SB", p2)
    BY DEF Stepped, Rx
  <2>2. Before(r.got, p1.got) /\ Before(p1.got, p2.got)
    BY <1>3 DEF Rx
  <2> HIDE DEF r, p1, p2
  <2> QED
    BY <1>1, <2>1, <2>2, PathPair
<1>5. Path(p2, Header, p3)
  <2>1. Append(<<>>, "x") = <<"x">>
    OBVIOUS
  <2>2. Stepped(p2, "x", p3)
    BY <2>1 DEF Stepped, Stored, Rx, Some, None, Header
  <2>3. Before(p2.got, p3.got)
    BY <1>3 DEF Rx
  <2> HIDE DEF p2, p3
  <2> QED
    BY <2>2, <2>3, PathByte DEF Header
<1>6. y \in Seq(Bytes) /\ Path(p3, y, p4)
  BY <1>2, ContentPath
<1>7. z \in Seq(Bytes) /\ Path(p4, z, q)
  <2>1. Stepped(p4, "IAC", p5) /\ Stepped(p5, "SE", q)
    BY DEF Stepped, Rx
  <2>2. Before(p4.got, p5.got) /\ Before(p5.got, q.got)
    BY <1>3 DEF Rx
  <2> HIDE DEF p4, p5, q
  <2> QED
    BY <1>1, <2>1, <2>2, PathPair
<1>8. SubBytes(v) = x \o Header \o y \o z
  BY DEF SubBytes
<1> HIDE DEF r, p2, p3, p4, q, x, y, z
<1> DEFINE xh == x \o Header
           xhy == xh \o y
<1>9. xh \in Seq(Bytes) /\ Path(r, xh, p3)
  BY <1>2, <1>4, <1>5, PathJoin
<1> HIDE DEF xh
<1>10. xhy \in Seq(Bytes) /\ Path(r, xhy, p4)
  BY <1>6, <1>9, PathJoin
<1> HIDE DEF xhy
<1>11. xhy \o z \in Seq(Bytes) /\ Path(r, xhy \o z, q)
  BY <1>7, <1>10, PathJoin
<1> QED
  BY <1>2, <1>8, <1>11 DEF r, q, xh, xhy

LEMMA MessagePath ==
  ASSUME NEW m \in Messages, NEW c \in Commands, NEW g \in Seq(Items)
  PROVE  /\ m.bytes \in Seq(Bytes) /\ m.bytes # <<>> /\ m.items \in Seq(Items)
         /\ \E d \in Commands : Path(Rx("NORMAL", None, c, g), m.bytes,
                                     Rx("NORMAL", None, d, g \o m.items))
<1>1. ASSUME NEW s \in Writes,
             m = [items |-> [i \in DOMAIN s |-> Data(s[i])], bytes |-> DataBytes(s)]
      PROVE  /\ m.bytes \in Seq(Bytes) /\ m.bytes # <<>> /\ m.items \in Seq(Items)
             /\ Path(Rx("NORMAL", None, c, g), m.bytes, Rx("NORMAL", None, c, g \o m.items))
  <2>1. s \in Seq(Bytes) /\ s # <<>>
    BY StreamAssumption DEF StreamAssumption
  <2>2. m.bytes = Doubled(s) /\ m.items = [i \in DOMAIN s |-> Data(s[i])]
    BY <1>1 DEF DataBytes
  <2>3. /\ m.bytes \in Seq(Bytes) /\ m.items \in Seq(Items)
        /\ Path(Rx("NORMAL", None, c, g), m.bytes, Rx("NORMAL", None, c, g \o m.items))
    BY <2>1, <2>2, DataPath
  <2>4. ASSUME m.bytes = <<>> PROVE FALSE
    <3>1. Rx("NORMAL", None, c, g) = Rx("NORMAL", None, c, g \o m.items)
      BY <2>3, <2>4, PathNone
    <3>2. g = g \o m.items
      BY <3>1 DEF Rx
    <3>3. Len(m.items) = Len(s) /\ Len(s) > 0
      BY <2>1, <2>2
    <3>4. Len(g \o m.items) = Len(g) + Len(m.items) /\ Len(g) \in Nat
      BY <2>3
    <3> QED
      BY <3>2, <3>3, <3>4
  <2> QED
    BY <2>3, <2>4
<1>2. ASSUME NEW code \in Codes,
             m = [items |-> <<Option("DO", code)>>, bytes |-> OptionBytes("DO", code)]
      PROVE  /\ m.bytes \in Seq(Bytes) /\ m.bytes # <<>> /\ m.items \in Seq(Items)
             /\ Path(Rx("NORMAL", None, c, g), m.bytes, Rx("NORMAL", None, "DO", g \o m.items))
  <2>1. code \in Bytes /\ "DO" \in Bytes /\ "DO" \in Commands
    BY StreamAssumption DEF StreamAssumption, Commands
  <2>2. m.bytes = OptionBytes("DO", code) /\ m.items = <<Option("DO", code)>>
    BY <1>2
  <2>3. Option("DO", code) \in Items
    BY <2>1 DEF Items
  <2>4. g \o <<Option("DO", code)>> = Append(g, Option("DO", code))
    BY <2>3, AppendIsConcat
  <2>5. OptionBytes("DO", code) # <<>>
    BY DEF OptionBytes
  <2>6. <<Option("DO", code)>> \in Seq(Items)
    BY <2>3
  <2>7. /\ OptionBytes("DO", code) \in Seq(Bytes)
        /\ Path(Rx("NORMAL", None, c, g), OptionBytes("DO", code),
                Rx("NORMAL", None, "DO", g \o <<Option("DO", code)>>))
    BY <2>1, <2>4, OptionPath
  <2> QED
    BY <2>2, <2>5, <2>6, <2>7, Zenon
<1>3. ASSUME m = [items |-> <<>>, bytes |-> <<"IAC", "x">>]
      PROVE  /\ m.bytes \in Seq(Bytes) /\ m.bytes # <<>> /\ m.items \in Seq(Items)
             /\ Path(Rx("NORMAL", None, c, g), m.bytes, Rx("NORMAL", None, c, g \o m.items))
  <2>1. m.bytes = <<"IAC", "x">> /\ m.items = <<>> /\ g \o <<>> = g
    BY <1>3
  <2> QED
    BY <2>1, IgnoredPath
<1>4. ASSUME NEW v \in Values, m = [items |-> <<Sub(Header \o v)>>, bytes |-> SubBytes(v)]
      PROVE  /\ m.bytes \in Seq(Bytes) /\ m.bytes # <<>> /\ m.items \in Seq(Items)
             /\ Path(Rx("NORMAL", None, c, g), m.bytes, Rx("NORMAL", None, c, g \o m.items))
  <2> DEFINE item == Sub(Header \o v)
  <2>1. v \in Seq(Bytes)
    BY StreamAssumption DEF StreamAssumption
  <2>2. /\ SubBytes(v) \in Seq(Bytes) /\ item \in Items
        /\ Path(Rx("NORMAL", None, c, g), SubBytes(v), Rx("NORMAL", None, c, Append(g, item)))
    BY <2>1, SubPath
  <2>3. m.bytes = SubBytes(v) /\ m.items = <<item>>
    BY <1>4
  <2> HIDE DEF item
  <2>4. g \o <<item>> = Append(g, item) /\ <<item>> \in Seq(Items)
    BY <2>2, AppendIsConcat
  <2>5. ASSUME SubBytes(v) = <<>> PROVE FALSE
    <3>1. Rx("NORMAL", None, c, g) = Rx("NORMAL", None, c, Append(g, item))
      BY <2>2, <2>5, PathNone
    <3>2. g = Append(g, item)
      BY <3>1 DEF Rx
    <3> QED
      BY <2>2, <3>2
  <2> QED
    BY <2>2, <2>3, <2>4, <2>5
<1>5. "DO" \in Commands
  BY DEF Commands
<1> QED
  BY <1>1, <1>2, <1>3, <1>4, <1>5 DEF Messages
-----------------------------------------------------------------------------
(* The types, and what is under way.                                        *)
Links ==
  /\ lock \in {None} \cup {Some(t) : t \in Threads}
  /\ out \in [Threads -> Seq(Bytes)]
  /\ \A t \in Threads : out[t] # <<>> <=> lock = Some(t)
  /\ wire \in Seq(Bytes) /\ Len(wire) <= MaxWire
  /\ sent \in Seq(Items) /\ messages \in 0 .. MaxMessages

Receiver ==
  /\ mode \in {"NORMAL", "IAC_SEEN", "NEGOTIATE"}
  /\ suboption \in {None} \cup {Some(s) : s \in Seq(Bytes)}
  /\ command \in Commands
  /\ got \in Seq(Items)

TypeInv == Links /\ Receiver

LEMMA TypeInvType == TypeInv /\ broken = FALSE => TypeOK
<1> SUFFICES ASSUME TypeInv, broken = FALSE PROVE TypeOK
  OBVIOUS
<1>1. \A s \in suboption : s \in Seq(Bytes)
  BY DEF TypeInv, Receiver, None, Some
<1> QED
  BY <1>1 DEF TypeInv, Links, Receiver, TypeOK

LEMMA TypeInit == Init => TypeInv
<1> SUFFICES ASSUME Init PROVE TypeInv
  OBVIOUS
<1>1. \A t : None # Some(t)
  BY DEF None, Some
<1>2. Links
  <2>1. out \in [Threads -> Seq(Bytes)] /\ \A t \in Threads : out[t] = <<>>
    BY DEF Init
  <2>2. \A t \in Threads : out[t] # <<>> <=> lock = Some(t)
    BY <1>1, <2>1 DEF Init
  <2>3. Len(wire) <= MaxWire /\ messages \in 0 .. MaxMessages
    BY StreamAssumption DEF Init, StreamAssumption
  <2> QED
    BY <2>1, <2>2, <2>3 DEF Init, Links
<1>3. Receiver
  BY DEF Init, Receiver, Commands
<1> QED
  BY <1>2, <1>3 DEF TypeInv

LEMMA BeginTypes ==
  ASSUME TypeInv, NEW t \in Threads, Begin(t)
  PROVE  TypeInv'
<1>1. PICK m \in Messages : out' = [out EXCEPT ![t] = m.bytes] /\ sent' = sent \o m.items
  BY DEF Begin
<1>2. m.bytes \in Seq(Bytes) /\ m.bytes # <<>> /\ m.items \in Seq(Items)
  <2>1. "DO" \in Commands /\ <<>> \in Seq(Items)
    BY DEF Commands
  <2> QED
    BY <2>1, MessagePath
<1>3. out' \in [Threads -> Seq(Bytes)] /\ lock' = Some(t)
  BY <1>1, <1>2 DEF Begin, TypeInv, Links
<1>4. ASSUME NEW u \in Threads PROVE out'[u] # <<>> <=> lock' = Some(u)
  <2>1. lock = None /\ None # Some(u)
    BY DEF Begin, None, Some
  <2>2. out[u] = <<>>
    BY <2>1 DEF TypeInv, Links
  <2>3. u # t => Some(u) # Some(t)
    BY DEF Some
  <2> QED
    BY <1>1, <1>2, <1>3, <2>2, <2>3 DEF TypeInv, Links
<1>5. sent' \in Seq(Items)
  BY <1>1, <1>2 DEF TypeInv, Links
<1>6. messages' \in 0 .. MaxMessages
  BY StreamAssumption DEF Begin, TypeInv, Links, StreamAssumption
<1>7. Links'
  BY <1>3, <1>4, <1>5, <1>6 DEF Begin, TypeInv, Links
<1>8. Receiver'
  BY DEF Begin, TypeInv, Receiver, receiver
<1> QED
  BY <1>7, <1>8 DEF TypeInv

LEMMA PushTypes ==
  ASSUME TypeInv, NEW t \in Threads, Push(t)
  PROVE  TypeInv'
<1> DEFINE o == out[t]
<1>1. o \in Seq(Bytes) /\ o # <<>> /\ lock = Some(t)
  BY DEF Push, TypeInv, Links
<1>2. Head(o) \in Bytes /\ Tail(o) \in Seq(Bytes)
  BY <1>1
<1>3. out' = [out EXCEPT ![t] = Tail(o)] /\ lock' = IF Tail(o) = <<>> THEN None ELSE lock
  BY DEF Push
<1> HIDE DEF o
<1>4. out' \in [Threads -> Seq(Bytes)] /\ lock' \in {None} \cup {Some(u) : u \in Threads}
  BY <1>2, <1>3 DEF TypeInv, Links
<1>5. ASSUME NEW u \in Threads PROVE out'[u] # <<>> <=> lock' = Some(u)
  <2>1. None # Some(u) /\ (u # t => Some(u) # Some(t))
    BY DEF None, Some
  <2>2. u # t => out[u] = <<>> /\ out'[u] = <<>> /\ lock' # Some(u)
    BY <1>1, <1>3, <2>1 DEF TypeInv, Links
  <2>3. u = t => out'[u] = Tail(o)
    BY <1>3 DEF TypeInv, Links
  <2> QED
    BY <1>1, <1>3, <2>1, <2>2, <2>3
<1>6. wire' \in Seq(Bytes) /\ Len(wire') <= MaxWire
  <2>1. wire' = Append(wire, Head(o)) /\ Len(wire) < MaxWire /\ wire \in Seq(Bytes)
    BY DEF Push, TypeInv, Links, o
  <2>2. Len(wire') = Len(wire) + 1 /\ wire' \in Seq(Bytes) /\ Len(wire) \in Nat
    BY <1>2, <2>1
  <2> QED
    BY <2>1, <2>2, StreamAssumption DEF StreamAssumption
<1>7. Links'
  BY <1>4, <1>5, <1>6 DEF Push, TypeInv, Links
<1>8. Receiver'
  BY DEF Push, TypeInv, Receiver, receiver
<1> QED
  BY <1>7, <1>8 DEF TypeInv

LEMMA ReceiveTypes ==
  ASSUME TypeInv, Receive
  PROVE  TypeInv'
<1> DEFINE b == Head(wire)
<1>1. wire \in Seq(Bytes) /\ wire # <<>> /\ wire' = Tail(wire) /\ b \in Bytes
  BY DEF Receive, TypeInv, Links
<1>2. Links'
  <2>1. wire' \in Seq(Bytes) /\ Len(wire') <= MaxWire
    BY <1>1, StreamAssumption DEF TypeInv, Links, StreamAssumption
  <2> QED
    BY <2>1 DEF Receive, sender, TypeInv, Links
<1>3. /\ Data(b) \in Items /\ Option(command, b) \in Items
      /\ \A s \in Seq(Bytes) : Sub(s) \in Items
  BY <1>1 DEF TypeInv, Receiver, Items, Sub
<1> HIDE DEF b
<1>4. \/ InNormal(b) \/ InNegotiate(b)
      \/ mode = "IAC_SEEN" /\ (AfterIac(b) \/ AfterIacEnd(b) \/ AfterIacCommand(b))
  BY DEF Receive, b
<1>5. \A item \in Items : Append(got, item) \in Seq(Items)
  BY DEF TypeInv, Receiver
<1>6. ASSUME Store(b)
      PROVE  got' \in Seq(Items) /\ suboption' \in {None} \cup {Some(s) : s \in Seq(Bytes)}
  <2>1. CASE suboption = None
    BY <1>3, <1>5, <1>6, <2>1 DEF Store, Deliver
  <2>2. CASE suboption # None
    <3>1. PICK s \in Seq(Bytes) : suboption = Some(s)
      BY <2>2 DEF TypeInv, Receiver
    <3>2. suboption' = Some(Append(s, b)) /\ got' = got
      BY <1>6, <2>2, <3>1 DEF Store, Some
    <3>3. Append(s, b) \in Seq(Bytes)
      BY <1>1 DEF b
    <3> QED
      BY <3>2, <3>3 DEF TypeInv, Receiver
  <2> QED
    BY <2>1, <2>2
<1>7. CASE InNormal(b)
  BY <1>2, <1>6, <1>7 DEF InNormal, TypeInv, Receiver
<1>8. CASE InNegotiate(b)
  BY <1>2, <1>3, <1>5, <1>8 DEF InNegotiate, Deliver, TypeInv, Receiver
<1>9. CASE AfterIac(b)
  <2>1. CASE b = "IAC"
    BY <1>2, <1>6, <1>9, <2>1 DEF AfterIac, TypeInv, Receiver
  <2>2. CASE b = "SB"
    <3>1. suboption' = Some(<<>>) /\ <<>> \in Seq(Bytes) /\ got' = got
      BY <1>9, <2>2 DEF AfterIac
    <3> QED
      BY <1>2, <1>9, <3>1 DEF AfterIac, TypeInv, Receiver
  <2> QED
    BY <1>9, <2>1, <2>2 DEF AfterIac
<1>10. CASE AfterIacEnd(b)
  <2>1. got' \in Seq(Items)
    <3>1. CASE suboption = None
      BY <1>10, <3>1 DEF AfterIacEnd, TypeInv, Receiver
    <3>2. CASE suboption # None
      <4>1. PICK s \in Seq(Bytes) : suboption = Some(s)
        BY <3>2 DEF TypeInv, Receiver
      <4>2. got' = Append(got, Sub(s))
        BY <1>10, <3>2, <4>1 DEF AfterIacEnd, Deliver, Some
      <4> QED
        BY <1>3, <1>5, <4>2
    <3> QED
      BY <3>1, <3>2
  <2> QED
    BY <1>2, <1>10, <2>1 DEF AfterIacEnd, TypeInv, Receiver
<1>11. CASE AfterIacCommand(b)
  BY <1>2, <1>11 DEF AfterIacCommand, TypeInv, Receiver
<1> QED
  BY <1>4, <1>7, <1>8, <1>9, <1>10, <1>11

LEMMA TypeNext == TypeInv /\ [Next]_vars => TypeInv'
<1> SUFFICES ASSUME TypeInv, [Next]_vars PROVE TypeInv'
  OBVIOUS
<1>1. CASE UNCHANGED vars
  BY <1>1 DEF vars, sender, receiver, TypeInv, Links, Receiver
<1> QED
  BY <1>1, BeginTypes, PushTypes, ReceiveTypes DEF Next

LEMMA Types == Spec => []TypeInv
BY TypeInit, TypeNext, PTL DEF Spec
-----------------------------------------------------------------------------
(* What is under way, in the connection and in the hands of the thread that *)
(* has the lock, takes the receiver from where it is to its first state     *)
(* with all delivered that was sent.                                        *)
Carried == IF lock = None THEN <<>> ELSE out[CHOOSE t \in Threads : lock = Some(t)]
UnderWay == wire \o Carried
Leads(r) == \E c \in Commands : Path(r, UnderWay, Rx("NORMAL", None, c, sent))
StreamInv ==
  /\ broken = FALSE
  /\ \E r : At(r) /\ Leads(r)

LEMMA HeldIs ==
  ASSUME NEW t \in Threads
  PROVE  /\ lock = Some(t) => Carried = out[t]
         /\ lock' = Some(t) => Carried' = out'[t]
<1>1. \A u \in Threads : Some(t) = Some(u) => t = u
  BY DEF Some
<1>2. Some(t) # None
  BY DEF Some, None
<1>3. ASSUME lock = Some(t) PROVE Carried = out[t]
  <2>1. (CHOOSE u \in Threads : lock = Some(u)) = t
    BY <1>1, <1>3
  <2> QED
    BY <1>2, <1>3, <2>1 DEF Carried
<1>4. ASSUME lock' = Some(t) PROVE Carried' = out'[t]
  <2>1. (CHOOSE u \in Threads : lock' = Some(u)) = t
    BY <1>1, <1>4
  <2> QED
    BY <1>2, <1>4, <2>1 DEF Carried
<1> QED
  BY <1>3, <1>4

LEMMA StreamInit == Init => StreamInv
<1> SUFFICES ASSUME Init PROVE StreamInv
  OBVIOUS
<1> DEFINE r == Rx("NORMAL", None, "DO", <<>>)
<1>1. At(r) /\ r.got = <<>> /\ <<>> \in Seq(Items)
  BY DEF Init, At, Rx
<1>2. UnderWay = <<>> /\ sent = <<>> /\ broken = FALSE /\ "DO" \in Commands
  BY DEF Init, UnderWay, Carried, Commands
<1>3. Path(r, <<>>, r)
  <2> HIDE DEF r
  <2> QED
    BY <1>1, PathNone
<1>4. Leads(r)
  BY <1>2, <1>3 DEF Leads
<1> HIDE DEF r
<1> QED
  BY <1>1, <1>2, <1>4 DEF StreamInv

(* A message is added behind what is under way.                             *)
LEMMA StreamBegin ==
  ASSUME TypeInv, StreamInv, NEW t \in Threads, Begin(t)
  PROVE  StreamInv' /\ \E m \in Messages : sent' = sent \o m.items /\ got' = got
<1>1. PICK m \in Messages : out' = [out EXCEPT ![t] = m.bytes] /\ sent' = sent \o m.items
  BY DEF Begin
<1>2. PICK r : At(r) /\ Leads(r)
  BY DEF StreamInv
<1>3. PICK c \in Commands : Path(r, UnderWay, Rx("NORMAL", None, c, sent))
  BY <1>2 DEF Leads
<1>4. wire \in Seq(Bytes) /\ sent \in Seq(Items) /\ wire' = wire
  BY DEF TypeInv, Links, Begin
<1>5. UnderWay = wire
  BY <1>4 DEF UnderWay, Carried, Begin
<1>6. PICK d \in Commands : Path(Rx("NORMAL", None, c, sent), m.bytes, Rx("NORMAL", None, d, sent'))
  BY <1>1, <1>4, MessagePath
<1>7. m.bytes \in Seq(Bytes)
  BY <1>4, MessagePath
<1>8. Path(r, wire \o m.bytes, Rx("NORMAL", None, d, sent'))
  BY <1>3, <1>4, <1>5, <1>6, <1>7, PathJoin
<1>9. UnderWay' = wire \o m.bytes
  <2>1. lock' = Some(t) /\ out'[t] = m.bytes
    BY <1>1 DEF Begin, TypeInv, Links
  <2>2. Carried' = m.bytes
    BY <2>1, HeldIs
  <2> QED
    BY <1>4, <2>2 DEF UnderWay
<1>10. Leads(r)'
  BY <1>8, <1>9 DEF Leads
<1>11. At(r)' /\ (broken = FALSE)' /\ got' = got
  BY <1>2 DEF Begin, receiver, At, StreamInv
<1> QED
  BY <1>1, <1>10, <1>11 DEF StreamInv

(* A byte moves from the thread into the connection.                        *)
LEMMA StreamPush ==
  ASSUME TypeInv, StreamInv, NEW t \in Threads, Push(t)
  PROVE  StreamInv' /\ UNCHANGED <<sent, got>>
<1> DEFINE o == out[t]
<1>1. o \in Seq(Bytes) /\ o # <<>> /\ lock = Some(t) /\ wire \in Seq(Bytes)
  BY DEF Push, TypeInv, Links
<1>2. /\ out'[t] = Tail(o) /\ lock' = (IF Tail(o) = <<>> THEN None ELSE lock)
      /\ wire' = Append(wire, Head(o))
  BY DEF Push, TypeInv, Links
<1>3. Carried = o
  BY <1>1, HeldIs
<1> HIDE DEF o
<1>4. Carried' = Tail(o)
  <2>1. CASE Tail(o) = <<>>
    BY <1>2, <2>1 DEF Carried
  <2>2. CASE Tail(o) # <<>>
    BY <1>1, <1>2, <2>2, HeldIs
  <2> QED
    BY <2>1, <2>2
<1>5. UnderWay' = UnderWay
  <2> DEFINE h == Head(o)
             u == Tail(o)
  <2>1. h \in Bytes /\ u \in Seq(Bytes) /\ o = <<h>> \o u
    BY <1>1
  <2> HIDE DEF h, u
  <2>2. Append(wire, h) = wire \o <<h>> /\ <<h>> \in Seq(Bytes)
    BY <1>1, <2>1, AppendIsConcat
  <2>3. (wire \o <<h>>) \o u = wire \o (<<h>> \o u)
    BY <1>1, <2>1, <2>2, ConcatAssociative
  <2>4. UnderWay' = Append(wire, h) \o u /\ UnderWay = wire \o o
    BY <1>2, <1>3, <1>4 DEF UnderWay, h, u
  <2> QED
    BY <2>1, <2>2, <2>3, <2>4
<1>6. sent' = sent /\ UNCHANGED receiver
  BY DEF Push
<1>7. PICK r : At(r) /\ Leads(r)
  BY DEF StreamInv
<1>8. Leads(r)' /\ At(r)' /\ (broken = FALSE)'
  BY <1>5, <1>6, <1>7 DEF Leads, At, receiver, StreamInv
<1> QED
  BY <1>6, <1>8 DEF StreamInv, receiver

(* The receiver does with a byte what the path says.                        *)
LEMMA ReceiveStep ==
  ASSUME TypeInv, broken = FALSE, Receive, NEW r, NEW p, At(r), Stepped(r, Head(wire), p)
  PROVE  At(p)' /\ (broken = FALSE)'
<1> DEFINE b == Head(wire)
<1>1. \/ InNormal(b) \/ InNegotiate(b)
      \/ mode = "IAC_SEEN" /\ (AfterIac(b) \/ AfterIacEnd(b) \/ AfterIacCommand(b))
  BY DEF Receive
<1>2. Stepped(r, b, p)
  OBVIOUS
<1> HIDE DEF b
<1>3. mode = r.mode /\ suboption = r.suboption /\ command = r.command /\ got = r.got
  BY DEF At
<1>4. ASSUME Stored(r, b, p), Store(b), mode' = "NORMAL", UNCHANGED <<command, broken>>
      PROVE  At(p)' /\ (broken = FALSE)'
  BY <1>3, <1>4 DEF Stored, Store, Deliver, At
<1>5. CASE InNormal(b)
  <2>1. CASE b = "IAC"
    BY <1>2, <1>3, <1>5, <2>1 DEF InNormal, Stepped, At
  <2>2. CASE b # "IAC"
    BY <1>2, <1>3, <1>4, <1>5, <2>2 DEF InNormal, Stepped
  <2> QED
    BY <2>1, <2>2
<1>6. CASE InNegotiate(b)
  BY <1>2, <1>3, <1>6 DEF InNegotiate, Deliver, Stepped, At
<1>7. CASE mode = "IAC_SEEN" /\ AfterIac(b)
  <2>1. CASE b = "IAC"
    BY <1>2, <1>3, <1>4, <1>7, <2>1 DEF AfterIac, Stepped
  <2>2. CASE b = "SB"
    BY <1>2, <1>3, <1>7, <2>2 DEF AfterIac, Stepped, At
  <2> QED
    BY <1>7, <2>1, <2>2 DEF AfterIac
<1>8. CASE mode = "IAC_SEEN" /\ AfterIacEnd(b)
  <2>1. b = "SE"
    BY <1>8 DEF AfterIacEnd
  <2>2. PICK s : r.suboption = Some(s) /\ p.got = Append(r.got, Sub(s))
    BY <1>2, <1>3, <1>8, <2>1 DEF Stepped
  <2>3. /\ p.mode = "NORMAL" /\ p.suboption = None /\ p.command = r.command
    BY <1>2, <1>3, <1>8, <2>1 DEF Stepped
  <2>4. suboption = Some(s) /\ suboption # None
    BY <1>3, <2>2 DEF Some, None
  <2>5. got' = Append(got, Sub(s)) /\ broken' = broken
    BY <1>8, <2>4 DEF AfterIacEnd, Deliver, Some
  <2> QED
    BY <1>3, <1>8, <2>2, <2>3, <2>5 DEF AfterIacEnd, At
<1>9. CASE mode = "IAC_SEEN" /\ AfterIacCommand(b)
  BY <1>2, <1>3, <1>9 DEF AfterIacCommand, Stepped, At
<1> QED
  BY <1>1, <1>5, <1>6, <1>7, <1>8, <1>9

LEMMA StreamReceive ==
  ASSUME TypeInv, StreamInv, Receive
  PROVE  /\ StreamInv' /\ sent' = sent
         /\ \/ got' = got
            \/ Len(got) < Len(sent) /\ got' = Append(got, sent[Len(got) + 1])
<1>1. PICK r : At(r) /\ Leads(r)
  BY DEF StreamInv
<1> DEFINE end(c) == Rx("NORMAL", None, c, sent)
<1>2. PICK c \in Commands : Path(r, UnderWay, end(c))
  BY <1>1 DEF Leads
<1> DEFINE b == Head(wire)
<1>3. /\ wire \in Seq(Bytes) /\ wire # <<>> /\ wire' = Tail(wire)
      /\ sent' = sent /\ lock' = lock /\ out' = out
  BY DEF Receive, sender, TypeInv, Links
<1>4. Carried \in Seq(Bytes) /\ Carried' = Carried
  <2>1. lock # None => \E t \in Threads : lock = Some(t)
    BY DEF TypeInv, Links
  <2>2. ASSUME NEW t \in Threads, lock = Some(t) PROVE Carried \in Seq(Bytes)
    BY <2>2, HeldIs DEF TypeInv, Links
  <2>3. lock = None => Carried = <<>>
    BY DEF Carried
  <2> QED
    BY <1>3, <2>1, <2>2, <2>3 DEF Carried
<1>5. UnderWay \in Seq(Bytes) /\ UnderWay # <<>> /\ Head(UnderWay) = b /\ Tail(UnderWay) = UnderWay'
  <2> DEFINE h == Carried
             w == wire
  <2>1. w \in Seq(Bytes) /\ w # <<>> /\ h \in Seq(Bytes)
    BY <1>3, <1>4
  <2> HIDE DEF h, w
  <2>2. w \o h \in Seq(Bytes) /\ w \o h # <<>> /\ Head(w \o h) = Head(w) /\ Tail(w \o h) = Tail(w) \o h
    BY <2>1
  <2> QED
    BY <1>3, <1>4, <2>2 DEF UnderWay, h, w
<1>6. PICK p : Stepped(r, b, p) /\ Before(p.got, end(c).got) /\ Path(p, UnderWay', end(c))
  BY <1>2, <1>5, PathTail
<1>7. At(p)' /\ (broken = FALSE)'
  BY <1>1, <1>6, ReceiveStep DEF StreamInv
<1>8. Leads(p)'
  BY <1>3, <1>6 DEF Leads
<1>9. StreamInv'
  BY <1>7, <1>8 DEF StreamInv
<1>10. Before(got', sent) /\ got' = p.got /\ got = r.got
  BY <1>1, <1>6, <1>7 DEF At, Rx
<1>11. got' = got \/ \E item : got' = Append(got, item)
  <2> HIDE DEF b
  <2> QED
    BY <1>6, <1>10 DEF Stepped, Stored
<1>12. ASSUME NEW item, got' = Append(got, item)
       PROVE  Len(got) < Len(sent) /\ got' = Append(got, sent[Len(got) + 1])
  <2>1. got \in Seq(Items) /\ Len(got) \in Nat
    BY DEF TypeInv, Receiver
  <2>2. Len(got') = Len(got) + 1 /\ got'[Len(got) + 1] = item
    BY <1>12, <2>1
  <2>3. Len(got) + 1 <= Len(sent) /\ item = sent[Len(got) + 1]
    BY <1>10, <2>1, <2>2 DEF Before
  <2>4. Len(sent) \in Nat
    BY DEF TypeInv, Links
  <2> QED
    BY <1>12, <2>1, <2>3, <2>4
<1> QED
  BY <1>3, <1>9, <1>11, <1>12

LEMMA StreamNext == TypeInv /\ StreamInv /\ [Next]_vars => StreamInv'
<1> SUFFICES ASSUME TypeInv, StreamInv, [Next]_vars PROVE StreamInv'
  OBVIOUS
<1>1. CASE UNCHANGED vars
  BY <1>1 DEF vars, sender, receiver, StreamInv, At, Leads, UnderWay, Carried
<1> QED
  BY <1>1, StreamBegin, StreamPush, StreamReceive DEF Next

LEMMA StreamHolds == Spec => []StreamInv
BY StreamInit, StreamNext, Types, PTL DEF Spec

(* Between messages the receiver is in its first state with everything      *)
(* delivered, and it never meets the end of a subnegotiation that has not   *)
(* begun, whatever bytes the messages consist of (the state machines of     *)
(* _telnet_read_loop and filter against the doubling of IAC in write and    *)
(* rfc2217_send_subnegotiation).                                            *)
THEOREM ReceiverComesBack == Spec => []BackToNormal
<1>1. TypeInv /\ StreamInv => BackToNormal
  <2> SUFFICES ASSUME TypeInv, StreamInv PROVE BackToNormal
    OBVIOUS
  <2>1. TypeOK
    BY TypeInvType DEF StreamInv
  <2>2. ~broken
    BY DEF StreamInv
  <2>3. ASSUME wire = <<>>, lock = None
        PROVE  mode = "NORMAL" /\ suboption = None /\ got = sent
    <3>1. PICK r : At(r) /\ Leads(r)
      BY DEF StreamInv
    <3>2. UnderWay = <<>>
      BY <2>3 DEF UnderWay, Carried
    <3>3. PICK c : Path(r, <<>>, Rx("NORMAL", None, c, sent))
      BY <3>1, <3>2 DEF Leads
    <3>4. r = Rx("NORMAL", None, c, sent)
      BY <3>3, PathNone
    <3> QED
      BY <3>1, <3>4 DEF At, Rx
  <2> QED
    BY <2>1, <2>2, <2>3 DEF BackToNormal
<1> QED
  BY <1>1, Types, StreamHolds, PTL

(* Messages arrive whole and in the order in which they were handed over,   *)
(* and nothing else does: every step of the byte stream is a step of the    *)
(* channel, or leaves it as it is.                                          *)
THEOREM StreamIsChannel == Spec => Channel!Ordered
<1>1. Init => Channel!Init
  BY DEF Init, Channel!Init
<1>2. TypeInv /\ StreamInv /\ [Next]_vars => [Channel!Send \/ Channel!Deliver]_<<sent, got>>
  <2> SUFFICES ASSUME TypeInv, StreamInv, [Next]_vars
               PROVE  Channel!Send \/ Channel!Deliver \/ UNCHANGED <<sent, got>>
    OBVIOUS
  <2>1. CASE UNCHANGED vars
    BY <2>1 DEF vars, sender, receiver
  <2>2. CASE Receive
    BY <2>2, StreamReceive DEF Channel!Deliver
  <2>3. ASSUME NEW t \in Threads, Push(t)
        PROVE  UNCHANGED <<sent, got>>
    BY <2>3, StreamPush
  <2>4. ASSUME NEW t \in Threads, Begin(t)
        PROVE  Channel!Send
    <3>1. PICK m \in Messages : sent' = sent \o m.items /\ got' = got
      BY <2>4, StreamBegin
    <3> QED
      BY <3>1 DEF Channel!Send
  <2> QED
    BY <2>1, <2>2, <2>3, <2>4 DEF Next
<1> QED
  BY <1>1, <1>2, Types, StreamHolds, PTL DEF Spec, Channel!Ordered
-----------------------------------------------------------------------------
(* QueuePort: a port whose read() takes chunks of bytes from a queue.       *)
(*                                                                         *)
(* The bytes s are in the order in which they arrived, and unless some were *)
(* lost they are the first n.                                               *)
Rising(s) == \A i, j \in 1 .. Len(s) : i < j => s[i] < s[j]
InPlace(s, n, lost) ==
  /\ Rising(s)
  /\ \A i \in 1 .. Len(s) : s[i] <= n
  /\ ~lost => s = [i \in 1 .. n |-> i]

LEMMA PartDropped ==
  ASSUME NEW s \in Seq(Nat), NEW d \in Seq(Nat), NEW t \in Seq(Nat), NEW n \in Nat,
         Rising((s \o d) \o t), \A i \in 1 .. Len((s \o d) \o t) : ((s \o d) \o t)[i] <= n
  PROVE  s \o t \in Seq(Nat) /\ Rising(s \o t) /\ \A i \in 1 .. Len(s \o t) : (s \o t)[i] <= n
<1> DEFINE all == (s \o d) \o t
           at(i) == IF i <= Len(s) THEN i ELSE i + Len(d)
<1>1. Len(s) \in Nat /\ Len(d) \in Nat /\ Len(t) \in Nat
  BY LenProperties
<1>2. /\ s \o d \in Seq(Nat) /\ Len(s \o d) = Len(s) + Len(d)
      /\ \A i \in 1 .. Len(s) + Len(d) : (s \o d)[i] = IF i <= Len(s) THEN s[i] ELSE d[i - Len(s)]
  BY ConcatProperties
<1>3. /\ Len(all) = Len(s) + Len(d) + Len(t)
      /\ \A i \in 1 .. Len(s) + Len(d) + Len(t) :
           all[i] = IF i <= Len(s) + Len(d) THEN (s \o d)[i] ELSE t[i - (Len(s) + Len(d))]
  BY <1>2, ConcatProperties
<1>4. /\ s \o t \in Seq(Nat) /\ Len(s \o t) = Len(s) + Len(t)
      /\ \A i \in 1 .. Len(s) + Len(t) : (s \o t)[i] = IF i <= Len(s) THEN s[i] ELSE t[i - Len(s)]
  BY ConcatProperties
<1>5. ASSUME NEW i \in 1 .. Len(s) + Len(t)
      PROVE  at(i) \in 1 .. Len(s) + Len(d) + Len(t) /\ (s \o t)[i] = all[at(i)]
  <2>1. CASE i <= Len(s)
    BY <1>1, <1>2, <1>3, <1>4, <2>1
  <2>2. CASE ~(i <= Len(s))
    <3>1. /\ i + Len(d) \in 1 .. Len(s) + Len(d) + Len(t) /\ ~(i + Len(d) <= Len(s) + Len(d))
          /\ i + Len(d) - (Len(s) + Len(d)) = i - Len(s)
      BY <1>1, <2>2
    <3>2. all[i + Len(d)] = t[i - Len(s)]
      BY <1>3, <3>1
    <3>3. (s \o t)[i] = t[i - Len(s)]
      BY <1>4, <2>2
    <3> QED
      BY <2>2, <3>1, <3>2, <3>3
  <2> QED
    BY <2>1, <2>2
<1>6. \A i, j \in 1 .. Len(s) + Len(t) : i < j => at(i) < at(j)
  BY <1>1
<1>7. Rising(all) /\ \A i \in 1 .. Len(all) : all[i] <= n
  OBVIOUS
<1> HIDE DEF all, at
<1>8. ASSUME NEW i \in 1 .. Len(s) + Len(t), NEW j \in 1 .. Len(s) + Len(t), i < j
      PROVE  (s \o t)[i] < (s \o t)[j]
  <2>1. all[at(i)] < all[at(j)]
    BY <1>3, <1>5, <1>6, <1>7, <1>8 DEF Rising
  <2> QED
    BY <1>5, <2>1
<1>9. \A i \in 1 .. Len(s) + Len(t) : (s \o t)[i] <= n
  BY <1>3, <1>5, <1>7
<1> QED
  BY <1>4, <1>8, <1>9 DEF Rising

LEMMA ChunkFollows ==
  ASSUME NEW s \in Seq(Nat), NEW n \in Nat, NEW k \in Nat, NEW lost, InPlace(s, n, lost),
         NEW c \in Seq(Nat), Len(c) = k, \A i \in 1 .. k : c[i] = n + i
  PROVE  s \o c \in Seq(Nat) /\ InPlace(s \o c, n + k, lost)
<1> DEFINE e == s \o c
<1>1. Len(s) \in Nat /\ \A i \in 1 .. Len(s) : s[i] \in Nat
  OBVIOUS
<1>2. /\ e \in Seq(Nat) /\ Len(e) = Len(s) + k
      /\ \A i \in 1 .. Len(s) + k : e[i] = IF i <= Len(s) THEN s[i] ELSE c[i - Len(s)]
  BY ConcatProperties
<1> HIDE DEF e
<1>3. ASSUME NEW i \in 1 .. Len(s) + k, ~(i <= Len(s))
      PROVE  e[i] = n + (i - Len(s))
  <2>1. i - Len(s) \in 1 .. k
    BY <1>1, <1>3
  <2> QED
    BY <1>2, <1>3, <2>1
<1>4. ASSUME NEW i \in 1 .. Len(s)
      PROVE  i \in 1 .. Len(s) + k /\ e[i] = s[i] /\ e[i] <= n
  <2>1. i \in 1 .. Len(s) + k /\ i <= Len(s) /\ s[i] <= n
    BY <1>1 DEF InPlace
  <2> QED
    BY <1>2, <2>1
<1>5. Rising(e)
  <2> SUFFICES ASSUME NEW i \in 1 .. Len(s) + k, NEW j \in 1 .. Len(s) + k, i < j
               PROVE  e[i] < e[j]
    BY <1>2 DEF Rising
  <2>1. CASE j <= Len(s)
    <3>1. i \in 1 .. Len(s) /\ j \in 1 .. Len(s)
      BY <1>1, <2>1
    <3>2. s[i] < s[j]
      BY <3>1 DEF InPlace, Rising
    <3> QED
      BY <1>4, <3>1, <3>2
  <2>2. CASE ~(j <= Len(s)) /\ i <= Len(s)
    <3>1. i \in 1 .. Len(s) /\ j - Len(s) \in Nat /\ j - Len(s) >= 1
      BY <1>1, <2>2
    <3>2. e[i] <= n /\ e[i] \in Nat
      BY <1>1, <1>4, <3>1
    <3>3. e[j] = n + (j - Len(s))
      BY <1>3, <2>2
    <3> QED
      BY <3>1, <3>2, <3>3
  <2>3. CASE ~(j <= Len(s)) /\ ~(i <= Len(s))
    BY <1>1, <1>3, <2>3
  <2> QED
    BY <2>1, <2>2, <2>3
<1>6. ASSUME NEW i \in 1 .. Len(s) + k
      PROVE  e[i] <= n + k
  <2>1. CASE i <= Len(s)
    <3>1. i \in 1 .. Len(s) /\ s[i] \in Nat
      BY <1>1, <2>1
    <3> QED
      BY <1>4, <3>1
  <2>2. CASE ~(i <= Len(s))
    BY <1>1, <1>3, <2>2
  <2> QED
    BY <2>1, <2>2
<1>7. ASSUME ~lost PROVE e = [i \in 1 .. n + k |-> i]
  <2> DEFINE q == [i \in 1 .. n |-> i]
             r == [i \in 1 .. n + k |-> i]
  <2>1. s = q
    BY <1>7 DEF InPlace
  <2>2. Len(q) = n /\ \A i \in 1 .. n : q[i] = i
    OBVIOUS
  <2>3. r \in Seq(Nat) /\ Len(r) = n + k /\ \A i \in 1 .. n + k : r[i] = i
    OBVIOUS
  <2> HIDE DEF q, r
  <2>4. \A i \in 1 .. n + k : e[i] = r[i]
    BY <1>2, <1>3, <1>4, <2>1, <2>2, <2>3
  <2>5. e = r
    BY <1>2, <2>1, <2>2, <2>3, <2>4, SeqEqual
  <2> QED
    BY <2>5 DEF r
<1> QED
  BY <1>2, <1>5, <1>6, <1>7 DEF InPlace, e

(* The types with what reads and queues look like: a read waits while it has *)
(* less than it asked for, and only cp2110 takes more than a byte at a time. *)
Chunks == backend # "cp2110" => \A i \in 1 .. Len(queue) : Len(queue[i]) <= 1
Fits(r) ==
  /\ r.pc = "get" => Len(r.data) < r.size
  /\ backend # "cp2110" => Len(r.data) <= r.size
QueueShape ==
  /\ QueueTypeOK
  /\ backend = "loop" => feeder = "gone"
  /\ Fits(rd) /\ Chunks
QueueInv == QueueShape /\ InPlace(Held, fed, vanished)

Positions == 1 .. MaxFed
QueueReads == [pc : {"idle", "test", "get"}, size : 0 .. MaxSize, data : Seq(Positions)]

(* The parts of TypeOK.                                                     *)
LEMMA QueueInvTypes ==
  ASSUME QueueShape
  PROVE  /\ MaxSize \in Nat \ {0} /\ MaxFed \in Nat \ {0} /\ MaxReads \in Nat \ {0} /\ BufferSize \in Nat \ {0}
         /\ queue \in Seq(Seq(Positions)) /\ fed \in Nat /\ fed <= MaxFed
         /\ rd \in QueueReads /\ rd.data \in Seq(Positions) /\ returned \in Seq(Positions)
         /\ \A s \in Seq(Positions) : s \in Seq(Nat)
BY QueueAssumption DEF QueueAssumption, QueueShape, QueueTypeOK, Positions, QueueReads

LEMMA QueueInvInit == QueueInit => QueueInv
<1> SUFFICES ASSUME QueueInit PROVE QueueInv
  OBVIOUS
<1>1. QueueShape
  <2>1. /\ MaxSize \in Nat \ {0} /\ MaxFed \in Nat \ {0} /\ MaxReads \in Nat \ {0} /\ BufferSize \in Nat \ {0}
    BY QueueAssumption DEF QueueAssumption
  <2>2. {isOpen, thread, peer, shut, writer, vanished, taken, untold} \subseteq BOOLEAN
    BY Zenon DEF QueueInit
  <2>3. /\ backend \in Backends /\ timeout \in {"none", "finite"}
        /\ reset = "idle" /\ closer = "idle" /\ reads = 0 /\ fed = 0 /\ queue = <<>> /\ returned = <<>>
        /\ rd = [pc |-> "idle", size |-> 0, data |-> <<>>]
        /\ feeder \in {"check", "gone"} /\ (backend = "loop" => feeder = "gone")
    BY DEF QueueInit, NoRead
  <2>4. /\ <<>> \in Seq(1 .. MaxFed) /\ <<>> \in Seq(Seq(1 .. MaxFed)) /\ Len(<<>>) = 0
    OBVIOUS
  <2>5. rd \in [pc : {"idle", "test", "get"}, size : 0 .. MaxSize, data : Seq(1 .. MaxFed)]
    BY <2>1, <2>3, <2>4
  <2>6. QueueTypeOK
    BY <2>1, <2>2, <2>3, <2>4, <2>5 DEF QueueTypeOK, NoRead
  <2> QED
    BY <2>1, <2>3, <2>6 DEF QueueShape, Fits, Chunks
<1>2. Held = <<>>
  BY FlattenNone DEF QueueInit, NoRead, Held, FlattenSeq, FlattenSeq
<1>3. InPlace(<<>>, 0, vanished)
  BY DEF InPlace, Rising
<1> QED
  BY <1>1, <1>2, <1>3 DEF QueueInit, QueueInv

(* The truth values among the types, and the rest of the control.           *)
Flags == {isOpen, thread, peer, shut, writer, vanished, taken, untold} \subseteq BOOLEAN
Places ==
  /\ backend \in Backends /\ timeout \in {"none", "finite"}
  /\ feeder \in {"check", "recv", "put", "dying", "gone"}
  /\ backend = "loop" => feeder = "gone"
  /\ reset \in {"idle", "drain", "done"}
  /\ closer \in {"idle", "shutdown", "join", "handle", "done", "failed"}
QueueOK ==
  /\ queue \in Seq(Seq(Positions))
  /\ backend = "loop" => Len(queue) <= BufferSize
  /\ fed \in 0 .. MaxFed
  /\ Chunks
ReadOK ==
  /\ rd \in QueueReads
  /\ rd.pc = "idle" => rd = NoRead
  /\ reads \in 0 .. MaxReads
  /\ returned \in Seq(Positions)
  /\ Fits(rd)

LEMMA ShapeParts == QueueShape <=> Flags /\ Places /\ QueueOK /\ ReadOK
BY DEF QueueShape, QueueTypeOK, Flags, Places, QueueOK, ReadOK, Positions, QueueReads

LEMMA ShapePartsNext == QueueShape' <=> Flags' /\ Places' /\ QueueOK' /\ ReadOK'
BY DEF QueueShape, QueueTypeOK, Flags, Places, QueueOK, ReadOK, Positions, QueueReads

LEMMA Regroup == \A x, y, z \in Seq(Positions) : (x \o y) \o z = x \o (y \o z)
BY Grouping DEF Groups

LEMMA QueueFlattens ==
  ASSUME NEW s \in Seq(Seq(Positions))
  PROVE  /\ FlattenSeq(s) \in Seq(Positions)
         /\ \A c \in Seq(Positions) : FlattenSeq(Append(s, c)) = FlattenSeq(s) \o c
         /\ s # <<>> => /\ FlattenSeq(Tail(s)) \in Seq(Positions)
                        /\ FlattenSeq(s) = Head(s) \o FlattenSeq(Tail(s))
<1>1. FlattenSeq(s) \in Seq(Positions)
  BY FlattenAppend
<1>2. \A c \in Seq(Positions) : FlattenSeq(Append(s, c)) = FlattenSeq(s) \o c
  BY FlattenAppend
<1>3. s # <<>> => /\ FlattenSeq(Tail(s)) \in Seq(Positions)
                  /\ FlattenSeq(s) = Head(s) \o FlattenSeq(Tail(s))
  BY FlattenHead
<1> QED
  BY <1>1, <1>2, <1>3

LEMMA QueueStays ==
  ASSUME QueueInv, UNCHANGED <<backend, queue, fed, rd, returned, vanished>>
  PROVE  QueueOK' /\ InPlace(Held, fed, vanished)'
<1>1. QueueOK
  BY ShapeParts DEF QueueInv
<1>2. QueueOK'
  BY <1>1 DEF QueueOK, Chunks
<1>3. Held' = Held
  BY DEF Held
<1>4. InPlace(Held, fed, vanished)
  BY DEF QueueInv
<1> QED
  BY <1>2, <1>3, <1>4 DEF InPlace, Rising

(* Steps that touch neither the queue nor a read.                           *)
Bystander ==
  \/ FeederCheck \/ FeederTimeout \/ FeederRaises \/ FeederDies
  \/ StartWrite \/ EndWrite \/ HangUp
  \/ StartReset \/ EndReset
  \/ CloseFlag \/ CloseJoin \/ CloseHandle

LEMMA QueueBystander ==
  ASSUME QueueInv, Bystander
  PROVE  QueueInv'
<1> USE DEF config, history, port, input, reader, users
<1>1. Flags /\ Places /\ QueueOK /\ ReadOK
  BY ShapeParts DEF QueueInv
<1>2. UNCHANGED <<backend, timeout, queue, fed, rd, reads, returned, vanished, taken>>
  BY DEF Bystander, FeederCheck, FeederTimeout, FeederRaises, FeederDies, StartWrite,
         EndWrite, HangUp, StartReset, EndReset, CloseFlag,
         CloseJoin, CloseHandle
<1>3. Flags'
  <2>1. CASE UNCHANGED <<isOpen, thread, peer, shut, writer>> /\ untold' \in BOOLEAN
    BY <1>1, <1>2, <2>1 DEF Flags
  <2>2. CASE FeederDies \/ CloseJoin
    <3>1. UNCHANGED <<isOpen, peer, shut, writer, untold>> /\ thread' \in BOOLEAN
      BY <1>1, <2>2, Zenon DEF FeederDies, CloseJoin, Flags
    <3> QED
      BY <1>1, <1>2, <3>1 DEF Flags
  <2>3. CASE StartWrite \/ EndWrite \/ HangUp \/ CloseFlag \/ CloseHandle
    BY <1>1, <1>2, <2>3, Zenon DEF StartWrite, EndWrite, HangUp, CloseFlag, CloseHandle, Flags
  <2>4. CASE FeederCheck \/ FeederTimeout \/ FeederRaises \/ StartReset \/ EndReset
    <3>1. UNCHANGED <<isOpen, thread, peer, shut, writer>>
      BY <2>4 DEF FeederCheck, FeederTimeout, FeederRaises, StartReset, EndReset
    <3>2. untold' \in BOOLEAN
      BY <1>1, <2>4, Zenon DEF FeederCheck, FeederTimeout, FeederRaises, StartReset, EndReset, Flags
    <3> QED
      BY <2>1, <3>1, <3>2
  <2> QED
    BY <2>2, <2>3, <2>4 DEF Bystander
<1>4. Places'
  BY <1>1, <1>2 DEF Places, Bystander, FeederCheck, FeederTimeout, FeederRaises, FeederDies, StartWrite,
         EndWrite, HangUp, StartReset, EndReset, CloseFlag,
         CloseJoin, CloseHandle
<1>5. ReadOK'
  BY <1>1, <1>2 DEF ReadOK, Fits, NoRead
<1>6. QueueOK' /\ InPlace(Held, fed, vanished)'
  BY <1>2, QueueStays
<1> QED
  BY <1>3, <1>4, <1>5, <1>6, ShapePartsNext DEF QueueInv

(* The bytes held are numbers.                                              *)
LEMMA HeldBytes ==
  ASSUME QueueShape
  PROVE  /\ FlattenSeq(queue) \in Seq(Positions) /\ returned \o rd.data \in Seq(Positions)
         /\ Held = (returned \o rd.data) \o FlattenSeq(queue)
         /\ Held \in Seq(Positions) /\ Held \in Seq(Nat)
<1>1. /\ queue \in Seq(Seq(Positions)) /\ rd.data \in Seq(Positions) /\ returned \in Seq(Positions)
      /\ \A s \in Seq(Positions) : s \in Seq(Nat)
  BY QueueInvTypes
<1>2. FlattenSeq(queue) \in Seq(Positions)
  BY <1>1, QueueFlattens
<1>3. returned \o rd.data \in Seq(Positions)
  BY <1>1, ConcatProperties
<1>4. Held = (returned \o rd.data) \o FlattenSeq(queue)
  BY DEF Held
<1> DEFINE a == returned \o rd.data
           f == FlattenSeq(queue)
<1>5. a \o f \in Seq(Positions)
  <2> HIDE DEF a, f
  <2> QED
    BY <1>2, <1>3, ConcatProperties DEF a, f
<1> QED
  BY <1>1, <1>2, <1>3, <1>4, <1>5

(* What a step puts into the queue follows what is held.                    *)
LEMMA QueueAppended ==
  ASSUME QueueInv, NEW c \in Seq(Positions),
         queue' = Append(queue, c), fed' = fed + Len(c), fed' <= MaxFed,
         \A i \in 1 .. Len(c) : c[i] = fed + i, backend # "cp2110" => Len(c) <= 1,
         backend = "loop" => Len(queue) < BufferSize,
         UNCHANGED <<backend, rd, returned, vanished>>
  PROVE  QueueOK' /\ InPlace(Held, fed, vanished)'
<1> DEFINE a == returned \o rd.data
           f == FlattenSeq(queue)
<1>1. /\ queue \in Seq(Seq(Positions)) /\ fed \in Nat /\ QueueOK /\ BufferSize \in Nat
      /\ \A s \in Seq(Positions) : s \in Seq(Nat)
  BY QueueInvTypes, ShapeParts DEF QueueInv
<1>2. /\ queue' \in Seq(Seq(Positions)) /\ Len(queue) \in Nat /\ Len(queue') = Len(queue) + 1
      /\ \A i \in 1 .. Len(queue') : queue'[i] = IF i <= Len(queue) THEN queue[i] ELSE c
      /\ Len(c) \in Nat
  BY <1>1, AppendProperties, LenProperties
<1>3. QueueOK'
  <2>1. Chunks'
    <3> SUFFICES ASSUME backend # "cp2110", NEW i \in 1 .. Len(queue') PROVE Len(queue'[i]) <= 1
      BY DEF Chunks
    <3>1. CASE i <= Len(queue)
      BY <1>1, <1>2, <3>1 DEF QueueOK, Chunks
    <3>2. CASE ~(i <= Len(queue))
      BY <1>2, <3>2
    <3> QED
      BY <3>1, <3>2
  <2>2. fed' \in 0 .. MaxFed /\ (backend' = "loop" => Len(queue') <= BufferSize)
    BY <1>1, <1>2
  <2> QED
    BY <1>2, <2>1, <2>2 DEF QueueOK
<1>4. a \in Seq(Positions) /\ f \in Seq(Positions) /\ Held = a \o f /\ Held \in Seq(Nat)
  BY HeldBytes DEF QueueInv
<1>5. FlattenSeq(queue') = f \o c
  BY <1>1, QueueFlattens
<1>6. Held' = a \o (f \o c)
  BY <1>5 DEF Held
<1> HIDE DEF a, f
<1>7. (a \o f) \o c = a \o (f \o c)
  BY <1>4, Regroup
<1>8. InPlace(Held \o c, fed + Len(c), vanished)
  BY <1>1, <1>2, <1>4, ChunkFollows DEF QueueInv
<1>9. Held' = Held \o c
  BY <1>4, <1>6, <1>7
<1> QED
  BY <1>3, <1>8, <1>9 DEF InPlace, Rising

LEMMA QueueFed ==
  ASSUME QueueInv, FeederPut \/ FeederLost \/ WriteByte
                                          \/ CancelRead \/ CloseShutdown
  PROVE  QueueInv'
<1> USE DEF config, history, port, input, reader, users
<1>1. Flags /\ Places /\ QueueOK /\ ReadOK /\ MaxFed \in Nat /\ fed \in Nat /\ BufferSize \in Nat
  BY ShapeParts, QueueInvTypes DEF QueueInv
<1>2. UNCHANGED <<backend, timeout, rd, reads, returned, vanished, taken, untold>>
  BY DEF FeederPut, FeederLost, WriteByte, CancelRead, CloseShutdown
<1>3. Flags'
  <2>1. UNCHANGED <<isOpen, thread, peer, writer>> /\ shut' \in BOOLEAN
    BY <1>1, Zenon DEF FeederPut, FeederLost, WriteByte, CancelRead, CloseShutdown, Flags
  <2> QED
    BY <1>1, <1>2, <2>1 DEF Flags
<1>4. Places'
  BY <1>1, <1>2 DEF Places, FeederPut, FeederLost, WriteByte, CancelRead, CloseShutdown
<1>5. ReadOK'
  BY <1>1, <1>2 DEF ReadOK, Fits, NoRead
<1>6. ASSUME UNCHANGED <<queue, fed>>
      PROVE  QueueOK' /\ InPlace(Held, fed, vanished)'
  BY <1>2, <1>6, QueueStays
<1>7. ASSUME queue' = Append(queue, End), fed' = fed, backend = "loop" => Len(queue) < BufferSize
      PROVE  QueueOK' /\ InPlace(Held, fed, vanished)'
  <2>1. /\ End \in Seq(Positions) /\ Len(End) = 0
    BY DEF End
  <2>2. fed' = fed + Len(End) /\ fed' <= MaxFed
    BY <1>1, <1>7, <2>1 DEF QueueOK
  <2>3. \A i \in 1 .. Len(End) : End[i] = fed + i
    BY <2>1
  <2>4. (backend # "cp2110" => Len(End) <= 1) /\ UNCHANGED <<backend, rd, returned, vanished>>
    BY <1>2, <2>1
  <2> HIDE DEF End
  <2> QED
    BY <1>7, <2>1, <2>2, <2>3, <2>4, QueueAppended
<1>8. ASSUME FeederPut
      PROVE  QueueOK' /\ InPlace(Held, fed, vanished)'
  <2>1. PICK c \in Arrives(Chunk) : queue' = Append(queue, c) /\ fed' = fed + Len(c)
    BY <1>8 DEF FeederPut
  <2>2. /\ Chunk \in {1, 2} /\ (backend # "cp2110" => Chunk = 1) /\ MaxFed - fed \in Int
    BY <1>1 DEF Chunk
  <2>3. LET m == Min({Chunk, MaxFed - fed})
        IN  m \in Int /\ m <= Chunk /\ m <= MaxFed - fed
    <3>1. PICK m \in {Chunk, MaxFed - fed} : \A y \in {Chunk, MaxFed - fed} : m <= y
      BY <2>2
    <3> QED
      BY <2>2, <3>1 DEF Min
  <2>4. PICK k \in 1 .. Min({Chunk, MaxFed - fed}) : c = [i \in 1 .. k |-> fed + i]
    BY <2>1 DEF Arrives
  <2>5. k \in Nat /\ k <= Chunk /\ fed + k <= MaxFed
    BY <1>1, <2>2, <2>3
  <2>6. c \in Seq(Positions) /\ Len(c) = k /\ \A i \in 1 .. k : c[i] = fed + i
    BY <1>1, <2>4, <2>5 DEF Positions
  <2>7. backend # "loop"
    BY <1>1, <1>8 DEF Places, FeederPut
  <2> QED
    BY <1>2, <2>1, <2>2, <2>5, <2>6, <2>7, QueueAppended
<1>9. ASSUME WriteByte
      PROVE  QueueOK' /\ InPlace(Held, fed, vanished)'
  <2> DEFINE c == <<fed + 1>>
  <2>1. queue' = Append(queue, c) /\ fed' = fed + 1 /\ fed < MaxFed /\ Len(queue) < BufferSize
    BY <1>9 DEF WriteByte
  <2>2. c \in Seq(Positions) /\ Len(c) = 1 /\ \A i \in 1 .. Len(c) : c[i] = fed + i
    BY <1>1, <2>1 DEF Positions
  <2>3. fed' = fed + Len(c) /\ fed' <= MaxFed /\ (backend # "cp2110" => Len(c) <= 1)
    BY <1>1, <2>1, <2>2
  <2>4. UNCHANGED <<backend, rd, returned, vanished>>
    BY <1>2
  <2> HIDE DEF c
  <2> QED
    BY <2>1, <2>2, <2>3, <2>4, QueueAppended
<1>10. QueueOK' /\ InPlace(Held, fed, vanished)'
  <2>1. ASSUME FeederLost \/ CancelRead \/ CloseShutdown
        PROVE  \/ UNCHANGED <<queue, fed>>
               \/ /\ queue' = Append(queue, End) /\ fed' = fed
                  /\ backend = "loop" => Len(queue) < BufferSize
    BY <1>1, <2>1 DEF FeederLost, CancelRead, CloseShutdown, Places
  <2> QED
    BY <1>6, <1>7, <1>8, <1>9, <2>1
<1> QED
  BY <1>3, <1>4, <1>5, <1>10, ShapePartsNext DEF QueueInv

LEMMA SameBytes ==
  ASSUME InPlace(Held, fed, vanished), Held' = Held, UNCHANGED <<fed, vanished>>
  PROVE  InPlace(Held, fed, vanished)'
BY DEF InPlace, Rising

(* What is left when the first item was taken out of the queue.             *)
LEMMA QueueTail ==
  ASSUME QueueShape, queue # <<>>, queue' = Tail(queue), UNCHANGED <<fed, backend>>
  PROVE  /\ QueueOK'
         /\ Head(queue) \in Seq(Positions) /\ (backend # "cp2110" => Len(Head(queue)) <= 1)
         /\ FlattenSeq(queue') \in Seq(Positions)
         /\ FlattenSeq(queue) = Head(queue) \o FlattenSeq(queue')
<1>1. QueueOK /\ BufferSize \in Nat
  BY ShapeParts, QueueInvTypes
<1>2. /\ queue' \in Seq(Seq(Positions)) /\ Len(queue) \in Nat /\ Len(queue) = Len(queue') + 1
      /\ Head(queue) = queue[1] /\ Head(queue) \in Seq(Positions)
      /\ \A i \in 1 .. Len(queue') : queue'[i] = queue[i + 1]
      /\ Len(queue') \in Nat
  BY <1>1, HeadTailProperties, LenProperties DEF QueueOK
<1>3. Chunks' /\ (backend # "cp2110" => Len(Head(queue)) <= 1)
  <2>1. ASSUME backend # "cp2110", NEW i \in 1 .. Len(queue')
        PROVE  Len(queue'[i]) <= 1
    <3>1. i + 1 \in 1 .. Len(queue)
      BY <1>2
    <3> QED
      BY <1>1, <1>2, <2>1, <3>1 DEF QueueOK, Chunks
  <2>2. ASSUME backend # "cp2110" PROVE Len(queue[1]) <= 1
    BY <1>1, <1>2, <2>2 DEF QueueOK, Chunks
  <2> QED
    BY <1>2, <2>1, <2>2 DEF Chunks
<1>4. QueueOK'
  BY <1>1, <1>2, <1>3 DEF QueueOK
<1>5. /\ FlattenSeq(queue') \in Seq(Positions)
      /\ FlattenSeq(queue) = Head(queue) \o FlattenSeq(queue')
  BY <1>1, QueueFlattens DEF QueueOK
<1> QED
  BY <1>2, <1>3, <1>4, <1>5

(* A read that returns all it has.                                          *)
LEMMA QueueReturn ==
  ASSUME NEW d \in Seq(Positions), Return(d),
         returned \in Seq(Positions), reads' \in 0 .. MaxReads
  PROVE  /\ ReadOK' /\ vanished' = vanished
         /\ \A f \in Seq(Positions) :
              FlattenSeq(queue') = f => Held' = (returned \o d) \o f
<1>1. /\ returned' = returned \o d /\ vanished' = vanished
      /\ rd' = [pc |-> "idle", size |-> 0, data |-> <<>>]
  BY DEF Return, NoRead
<1>2. returned' \in Seq(Positions)
  BY <1>1, ConcatProperties
<1>3. /\ <<>> \in Seq(Positions) /\ Len(<<>>) = 0 /\ MaxSize \in Nat
  BY QueueAssumption DEF QueueAssumption
<1>4. rd' \in QueueReads /\ rd'.pc = "idle" /\ rd'.data = <<>> /\ rd'.size = 0 /\ rd' = NoRead
  BY <1>1, <1>3 DEF QueueReads, NoRead
<1>5. ReadOK'
  BY <1>2, <1>3, <1>4 DEF ReadOK, Fits, NoRead
<1>6. ASSUME NEW f \in Seq(Positions), FlattenSeq(queue') = f
      PROVE  Held' = (returned \o d) \o f
  <2>1. Held' = ((returned \o d) \o <<>>) \o f
    BY <1>1, <1>4, <1>6 DEF Held
  <2>2. returned \o d \in Seq(Positions)
    BY ConcatProperties
  <2>3. (returned \o d) \o <<>> = returned \o d
    BY <2>2, ConcatEmptySeq
  <2> QED
    BY <2>1, <2>3
<1> QED
  BY <1>1, <1>5, <1>6

LEMMA QueueRead ==
  ASSUME QueueInv, StartRead \/ Test \/ GetTimeout \/ Get
  PROVE  QueueInv'
<1> USE DEF config, history, port, input, reader, users
<1> DEFINE f == FlattenSeq(queue)
           same == returned \o rd.data
<1>1. /\ Flags /\ Places /\ QueueOK /\ ReadOK /\ MaxSize \in Nat /\ InPlace(Held, fed, vanished)
      /\ rd.data \in Seq(Positions) /\ returned \in Seq(Positions) /\ rd \in QueueReads
  BY ShapeParts, QueueInvTypes DEF QueueInv
<1>2. f \in Seq(Positions) /\ same \in Seq(Positions) /\ Held = same \o f
  BY HeldBytes DEF QueueInv
<1>3. UNCHANGED <<backend, timeout, isOpen, thread, peer, shut, feeder, fed, untold, writer, reset, closer>>
  BY DEF StartRead, Test, GetTimeout, Get
<1>4. Places'
  BY <1>1, <1>3 DEF Places
<1>5. ASSUME vanished' \in BOOLEAN, taken' \in BOOLEAN
      PROVE  Flags'
  BY <1>1, <1>3, <1>5 DEF Flags
<1>6. ASSUME UNCHANGED <<vanished, taken>>
      PROVE  Flags'
  BY <1>1, <1>3, <1>6 DEF Flags
<1>7. ASSUME UNCHANGED <<queue, reads, taken>>, Return(rd.data)
      PROVE  QueueInv'
  <2>1. QueueOK'
    BY <1>1, <1>3, <1>7 DEF QueueOK, Chunks
  <2>2. FlattenSeq(queue') = f
    BY <1>7
  <2>3. reads' \in 0 .. MaxReads
    BY <1>1, <1>7 DEF ReadOK
  <2> HIDE DEF f
  <2>4. ReadOK' /\ vanished' = vanished /\ Held' = (returned \o rd.data) \o f
    BY <1>1, <1>2, <1>7, <2>2, <2>3, QueueReturn
  <2>5. Held' = Held
    BY <1>2, <2>4
  <2>6. InPlace(Held, fed, vanished)'
    BY <1>1, <1>3, <2>4, <2>5, SameBytes
  <2> QED
    BY <1>4, <1>6, <1>7, <2>1, <2>4, <2>6, ShapePartsNext DEF QueueInv
<1>8. CASE StartRead
  <2>1. rd = NoRead /\ UNCHANGED <<queue, returned, vanished, taken>> /\ reads' \in 0 .. MaxReads
    <3>1. rd.pc = "idle" /\ reads < MaxReads /\ reads' = reads + 1
      BY <1>8 DEF StartRead
    <3>2. UNCHANGED <<queue, returned, vanished, taken>>
      BY <1>8 DEF StartRead
    <3>3. rd = NoRead /\ reads \in 0 .. MaxReads /\ MaxReads \in Nat
      BY <1>1, <3>1, QueueAssumption DEF ReadOK, QueueAssumption
    <3> QED
      BY <3>1, <3>2, <3>3
  <2>2. PICK n \in 1 .. MaxSize : rd' = [pc |-> "test", size |-> n, data |-> <<>>]
    BY <1>8 DEF StartRead
  <2>3. /\ rd' \in QueueReads /\ rd'.pc = "test" /\ rd'.data = <<>> /\ rd.data = <<>> /\ rd'.size \in Nat
        /\ Len(<<>>) = 0 /\ n \in Nat /\ rd'.size = n
    BY <1>1, <2>1, <2>2 DEF QueueReads, NoRead
  <2>4. ReadOK'
    BY <1>1, <2>1, <2>3 DEF ReadOK, Fits
  <2>5. QueueOK'
    BY <1>1, <1>3, <2>1 DEF QueueOK, Chunks
  <2>6. Held' = Held
    BY <2>1, <2>3 DEF Held
  <2>7. InPlace(Held, fed, vanished)'
    BY <1>1, <1>3, <2>1, <2>6, SameBytes
  <2> QED
    BY <1>4, <1>6, <2>1, <2>4, <2>5, <2>7, ShapePartsNext DEF QueueInv
<1>9. CASE Test
  <2>1. UNCHANGED <<queue, reads, taken>> /\ rd.pc = "test" /\ Len(rd.data) \in Nat /\ rd.size \in Nat
    BY <1>1, <1>9 DEF Test, QueueReads
  <2>2. QueueOK'
    BY <1>1, <1>3, <2>1 DEF QueueOK, Chunks
  <2>3. \/ Return(rd.data) \/ Raise
        \/ /\ Len(rd.data) < rd.size
           /\ rd' = [rd EXCEPT !.pc = "get"] /\ UNCHANGED <<returned, vanished>>
    BY <2>1, <1>9 DEF Test
  <2>4. CASE Return(rd.data)
    BY <1>7, <2>1, <2>4
  <2>5. CASE Raise
    <3>1. /\ vanished' = (vanished \/ rd.data # <<>>) /\ returned' = returned
          /\ rd' = [pc |-> "idle", size |-> 0, data |-> <<>>]
      BY <2>5 DEF Raise, NoRead
    <3>2. vanished' \in BOOLEAN /\ taken' \in BOOLEAN
      BY <1>1, <2>1, <3>1, Zenon DEF Flags
    <3>3. /\ rd' \in QueueReads /\ rd'.pc = "idle" /\ rd'.data = <<>> /\ rd'.size = 0 /\ rd' = NoRead
          /\ Len(<<>>) = 0
      BY <1>1, <3>1 DEF QueueReads, NoRead
    <3>4. ReadOK'
      BY <1>1, <2>1, <3>1, <3>3 DEF ReadOK, Fits
    <3>5. Held' = returned \o f
      <4>1. Held' = (returned \o <<>>) \o f
        BY <2>1, <3>1, <3>3 DEF Held
      <4>2. returned \o <<>> = returned
        BY <1>1, ConcatEmptySeq
      <4> QED
        BY <4>1, <4>2
    <3>6. InPlace(Held, fed, vanished)'
      <4>1. CASE rd.data = <<>>
        <5>1. returned \o rd.data = returned
          BY <1>1, <4>1, ConcatEmptySeq
        <5>2. Held' = Held
          BY <1>2, <3>5, <5>1
        <5>3. vanished' = vanished
          BY <1>1, <3>1, <4>1, Zenon DEF Flags
        <5> QED
          BY <1>1, <1>3, <5>2, <5>3, SameBytes
      <4>2. CASE rd.data # <<>>
        <5>1. vanished' = TRUE
          BY <3>1, <4>2, Zenon
        <5>2. /\ returned \in Seq(Nat) /\ rd.data \in Seq(Nat) /\ f \in Seq(Nat) /\ fed \in Nat
          BY <1>1, <1>2, QueueInvTypes DEF QueueInv
        <5>3. /\ Rising((returned \o rd.data) \o f)
              /\ \A i \in 1 .. Len((returned \o rd.data) \o f) : ((returned \o rd.data) \o f)[i] <= fed
          BY <1>1, <1>2 DEF InPlace
        <5> HIDE DEF f
        <5>4. Rising(returned \o f) /\ \A i \in 1 .. Len(returned \o f) : (returned \o f)[i] <= fed
          BY <5>2, <5>3, PartDropped
        <5> QED
          BY <1>3, <3>5, <5>1, <5>4 DEF InPlace, Rising
      <4> QED
        BY <4>1, <4>2
    <3> QED
      BY <1>4, <1>5, <2>2, <3>2, <3>4, <3>6, ShapePartsNext DEF QueueInv
  <2>6. CASE /\ Len(rd.data) < rd.size
             /\ rd' = [rd EXCEPT !.pc = "get"] /\ UNCHANGED <<returned, vanished>>
    <3>1. rd' \in QueueReads /\ rd'.data = rd.data /\ rd'.size = rd.size /\ rd'.pc = "get"
      BY <1>1, <2>6 DEF QueueReads
    <3>2. ReadOK'
      BY <1>1, <1>3, <2>1, <2>6, <3>1 DEF ReadOK, Fits
    <3>3. Held' = Held
      BY <2>1, <2>6, <3>1 DEF Held
    <3>4. InPlace(Held, fed, vanished)'
      BY <1>1, <1>3, <2>6, <3>3, SameBytes
    <3> QED
      BY <1>4, <1>6, <2>1, <2>2, <2>6, <3>2, <3>4, ShapePartsNext DEF QueueInv
  <2> QED
    BY <2>3, <2>4, <2>5, <2>6
<1>10. CASE GetTimeout
  BY <1>7, <1>10 DEF GetTimeout
<1>11. CASE Get
  <2> DEFINE c == Head(queue)
             d == rd.data \o c
             t == FlattenSeq(queue')
  <2>1. /\ queue # <<>> /\ queue' = Tail(queue) /\ rd.pc = "get" /\ reads' = reads
        /\ taken' = (taken \/ Head(queue) = End)
        /\ \/ Return(d)
           \/ rd' = [rd EXCEPT !.pc = "test", !.data = d] /\ UNCHANGED <<returned, vanished>>
    BY <1>11 DEF Get
  <2>2. /\ QueueOK' /\ c \in Seq(Positions) /\ (backend # "cp2110" => Len(c) <= 1)
        /\ t \in Seq(Positions) /\ f = c \o t
    BY <1>3, <2>1, QueueTail DEF QueueInv
  <2>3. Flags'
    <3>1. vanished' = vanished
      BY <2>1 DEF Return
    <3>2. vanished' \in BOOLEAN /\ taken' \in BOOLEAN
      BY <1>1, <2>1, <3>1, Zenon DEF Flags
    <3> QED
      BY <1>5, <3>2
  <2>4. reads' \in 0 .. MaxReads
    BY <1>1, <2>1 DEF ReadOK
  <2> HIDE DEF c, t, f
  <2>5. d \in Seq(Positions) /\ (returned \o d) \o t = (returned \o rd.data) \o (c \o t)
    <3> DEFINE b == rd.data
    <3>1. /\ returned \in Seq(Positions) /\ b \in Seq(Positions) /\ c \in Seq(Positions) /\ t \in Seq(Positions)
          /\ same \in Seq(Positions)
      BY <1>1, <1>2, <2>2
    <3>0. same = returned \o b
      OBVIOUS
    <3> HIDE DEF b, same
    <3>2. (returned \o b) \o c = returned \o (b \o c)
      <4>1. \A y, z \in Seq(Positions) : (returned \o y) \o z = returned \o (y \o z)
        BY <3>1, Regroup, Zenon
      <4> QED
        BY <3>1, <4>1, Zenon
    <3>3. (same \o c) \o t = same \o (c \o t)
      <4>1. \A y, z \in Seq(Positions) : (same \o y) \o z = same \o (y \o z)
        BY <3>1, Regroup, Zenon
      <4> QED
        BY <3>1, <4>1, Zenon
    <3>4. b \o c \in Seq(Positions)
      BY <3>1, ConcatProperties
    <3> QED
      BY <3>0, <3>2, <3>3, <3>4 DEF b
  <2>6. Len(d) = Len(rd.data) + Len(c) /\ Len(rd.data) \in Nat /\ Len(c) \in Nat
    BY <1>1, <2>2, ConcatProperties, LenProperties
  <2> HIDE DEF d
  <2>7. (returned \o d) \o t = Held
    BY <1>2, <2>2, <2>5
  <2>8. CASE Return(d)
    <3>1. ReadOK' /\ vanished' = vanished /\ Held' = (returned \o d) \o t
      BY <1>1, <2>2, <2>4, <2>5, <2>8, QueueReturn DEF t
    <3>2. InPlace(Held, fed, vanished)'
      BY <1>1, <1>3, <2>7, <3>1, SameBytes
    <3> QED
      BY <1>4, <2>2, <2>3, <3>1, <3>2, ShapePartsNext DEF QueueInv
  <2>9. CASE rd' = [rd EXCEPT !.pc = "test", !.data = d] /\ UNCHANGED <<returned, vanished>>
    <3>1. rd' \in QueueReads /\ rd'.data = d /\ rd'.size = rd.size /\ rd'.pc = "test" /\ rd.size \in Nat
      <4>1. rd \in QueueReads
        BY <1>1
      <4>2. rd.size \in Nat
        BY <1>1, <4>1 DEF QueueReads
      <4> QED
        BY <2>5, <2>9, <4>1, <4>2 DEF QueueReads
    <3>2. Fits(rd)'
      BY <1>1, <1>3, <2>1, <2>2, <2>6, <3>1 DEF ReadOK, Fits
    <3>3. ReadOK'
      BY <1>1, <2>4, <2>9, <3>1, <3>2 DEF ReadOK
    <3>4. Held' = (returned \o d) \o t
      BY <2>9, <3>1 DEF Held, t
    <3>5. InPlace(Held, fed, vanished)'
      BY <1>1, <1>3, <2>7, <2>9, <3>4, SameBytes
    <3> QED
      BY <1>4, <2>2, <2>3, <3>3, <3>5, ShapePartsNext DEF QueueInv
  <2> QED
    BY <2>1, <2>8, <2>9 DEF d, c
<1> QED
  BY <1>8, <1>9, <1>10, <1>11

(* A reset takes one item out of the queue, and its bytes are lost.         *)
LEMMA QueueDrain == ASSUME QueueInv, Drain PROVE QueueInv'
<1> USE DEF config, history, port, input, reader, users
<1> DEFINE f == FlattenSeq(queue)
           c == Head(queue)
           t == FlattenSeq(queue')
           r == returned \o rd.data
<1>1. /\ Flags /\ Places /\ QueueOK /\ ReadOK /\ fed \in Nat /\ InPlace(Held, fed, vanished)
      /\ \A s \in Seq(Positions) : s \in Seq(Nat)
  BY ShapeParts, QueueInvTypes DEF QueueInv
<1>2. f \in Seq(Positions) /\ r \in Seq(Positions) /\ Held = r \o f
  BY HeldBytes DEF QueueInv
<1>3. /\ UNCHANGED <<backend, timeout, isOpen, thread, peer, shut, feeder, fed, rd, reads, returned,
                     untold, writer, reset, closer>>
      /\ queue # <<>> /\ queue' = Tail(queue)
      /\ vanished' = (vanished \/ c # <<>>) /\ taken' = (taken \/ c = <<>>)
  BY DEF Drain, End
<1>4. /\ QueueOK' /\ c \in Seq(Positions) /\ t \in Seq(Positions) /\ f = c \o t
  BY <1>3, QueueTail DEF QueueInv
<1>5. Places'
  BY <1>1, <1>3 DEF Places
<1>6. Flags'
  <2>1. vanished' \in BOOLEAN /\ taken' \in BOOLEAN
    BY <1>1, <1>3, Zenon DEF Flags
  <2> QED
    BY <1>1, <1>3, <2>1 DEF Flags
<1>7. ReadOK'
  BY <1>1, <1>3 DEF ReadOK, Fits, NoRead
<1>8. Held' = r \o t
  BY <1>3 DEF Held
<1> HIDE DEF f, c, t, r
<1>9. Held = (r \o c) \o t
  <2>1. \A y, z \in Seq(Positions) : (r \o y) \o z = r \o (y \o z)
    BY <1>2, Regroup, Zenon
  <2>2. (r \o c) \o t = r \o (c \o t)
    BY <1>4, <2>1, Zenon
  <2> QED
    BY <1>2, <1>4, <2>2, Zenon
<1>10. InPlace(Held, fed, vanished)'
  <2>1. CASE c = <<>>
    <3>1. r \o c = r
      BY <1>2, <2>1, ConcatEmptySeq
    <3>2. vanished' = vanished
      BY <1>1, <1>3, <2>1, Zenon DEF Flags
    <3> QED
      BY <1>1, <1>3, <1>8, <1>9, <3>1, <3>2, SameBytes
  <2>2. CASE c # <<>>
    <3>1. vanished' = TRUE
      BY <1>3, <2>2, Zenon
    <3>2. r \in Seq(Nat) /\ c \in Seq(Nat) /\ t \in Seq(Nat)
      BY <1>1, <1>2, <1>4
    <3>3. Rising((r \o c) \o t) /\ \A i \in 1 .. Len((r \o c) \o t) : ((r \o c) \o t)[i] <= fed
      BY <1>1, <1>9 DEF InPlace
    <3>4. Rising(r \o t) /\ \A i \in 1 .. Len(r \o t) : (r \o t)[i] <= fed
      BY <1>1, <3>2, <3>3, PartDropped
    <3> QED
      BY <1>3, <1>8, <3>1, <3>4 DEF InPlace, Rising
  <2> QED
    BY <2>1, <2>2
<1> QED
  BY <1>4, <1>5, <1>6, <1>7, <1>10, ShapePartsNext DEF QueueInv

LEMMA QueueInvNext == QueueInv /\ [QueueNext]_queueVars => QueueInv'
<1> SUFFICES ASSUME QueueInv, [QueueNext]_queueVars PROVE QueueInv'
  OBVIOUS
<1>1. CASE UNCHANGED queueVars
  <2>1. UNCHANGED <<backend, timeout, isOpen, thread, feeder, peer, shut, queue, writer, fed, rd, reads,
                    returned, vanished, taken, untold, reset, closer>>
    BY <1>1 DEF queueVars, config, history, port, input, reader, users
  <2>2. QueueOK' /\ InPlace(Held, fed, vanished)'
    BY <2>1, QueueStays
  <2>3. Flags' /\ Places' /\ ReadOK'
    BY <2>1, ShapeParts DEF QueueInv, Flags, Places, ReadOK, Fits, NoRead
  <2> QED
    BY <2>2, <2>3, ShapePartsNext DEF QueueInv
<1>2. CASE Bystander
  BY <1>2, QueueBystander
<1>3. CASE FeederPut \/ FeederLost \/ WriteByte \/ CancelRead \/ CloseShutdown
  BY <1>3, QueueFed
<1>4. CASE StartRead \/ Test \/ GetTimeout \/ Get
  BY <1>4, QueueRead
<1>5. CASE Drain
  BY <1>5, QueueDrain
<1> QED
  BY <1>1, <1>2, <1>3, <1>4, <1>5
     DEF QueueNext, FeederStep, WriteStep, ReadStep, ResetStep, CloseStep, Bystander

(* However a read, the thread that fills the queue, a write, a reset, a      *)
(* cancelled read and a close interleave, every byte that arrived was        *)
(* returned once, in order, or is still to be read, unless a reset or an     *)
(* exception discarded some.  What is left then is still in order.           *)
THEOREM NoByteVanishes ==
  QueueSpec => []NothingVanishes
<1>1. QueueInit => QueueInv
  BY QueueInvInit
<1>2. QueueInv /\ [QueueNext]_queueVars => QueueInv'
  BY QueueInvNext
<1>3. QueueInv => NothingVanishes
  <2> SUFFICES ASSUME QueueInv PROVE NothingVanishes
    OBVIOUS
  <2>1. QueueShape /\ InPlace(Held, fed, vanished)
    BY DEF QueueInv
  <2>2. DOMAIN Held = 1 .. Len(Held)
    BY <2>1, HeldBytes
  <2>3. QueueTypeOK /\ (backend # "cp2110" => Len(rd.data) <= rd.size)
    BY <2>1 DEF QueueShape, Fits
  <2>4. \A i, j \in DOMAIN Held : i < j => Held[i] < Held[j]
    BY <2>1, <2>2 DEF InPlace, Rising
  <2>5. ~vanished => Held = [i \in 1 .. fed |-> i]
    BY <2>1 DEF InPlace
  <2> HIDE DEF Held
  <2> QED
    BY <2>3, <2>4, <2>5 DEF NothingVanishes
<1> QED
  BY <1>1, <1>2, <1>3, PTL DEF QueueSpec
-----------------------------------------------------------------------------
(* Framing.  What is made of a chunk of n bytes, in n steps.                 *)
Runs(f, first, data, n) ==
  f = [i \in 0..n |-> IF i = 0 THEN first ELSE Decoded(f[i - 1], data[i])]

LEMMA RunsOne ==
  ASSUME NEW f, NEW first, NEW data, NEW n \in Nat, Runs(f, first, data, n), NEW i \in 0..n
  PROVE  f[i] = IF i = 0 THEN first ELSE Decoded(f[i - 1], data[i])
BY Zenon DEF Runs

LEMMA RunsMore ==
  ASSUME NEW first, NEW data, NEW n \in Nat, NEW f, Runs(f, first, data, n)
  PROVE  \E g : Runs(g, first, data, n + 1)
<1> DEFINE next == Decoded(f[n], data[n + 1])
           g == [i \in 0..(n + 1) |-> IF i = n + 1 THEN next ELSE f[i]]
           h == [i \in 0..(n + 1) |-> IF i = 0 THEN first ELSE Decoded(g[i - 1], data[i])]
<1>1. ASSUME NEW i \in 0..(n + 1) PROVE g[i] = h[i]
  <2>1. h[i] = IF i = 0 THEN first ELSE Decoded(g[i - 1], data[i])
    BY Zenon
  <2>2. CASE i = n + 1
    <3>1. g[i] = next /\ i # 0 /\ i - 1 = n /\ i - 1 \in 0..(n + 1) /\ i - 1 # n + 1
      BY <2>2
    <3>2. g[i - 1] = f[n]
      BY <3>1
    <3> HIDE DEF g, h
    <3> QED
      BY <2>1, <2>2, <3>1, <3>2
  <2>3. CASE i # n + 1
    <3>1. i \in 0..n /\ (i # 0 => i - 1 \in 0..(n + 1) /\ i - 1 # n + 1)
      BY <2>3
    <3>2. g[i] = f[i] /\ (i # 0 => g[i - 1] = f[i - 1])
      BY <2>3, <3>1
    <3>3. f[i] = IF i = 0 THEN first ELSE Decoded(f[i - 1], data[i])
      BY <3>1, RunsOne
    <3> HIDE DEF g, h
    <3> QED
      BY <2>1, <3>2, <3>3
  <2> QED
    BY <2>2, <2>3
<1>2. g = h
  <2>1. g = [i \in 0..(n + 1) |-> g[i]]
    OBVIOUS
  <2>2. h = [i \in 0..(n + 1) |-> h[i]]
    <3> HIDE DEF g
    <3> QED
      BY Zenon
  <2> HIDE DEF g, h
  <2> QED
    BY <1>1, <2>1, <2>2, Zenon
<1>3. Runs(g, first, data, n + 1)
  BY <1>2, Zenon DEF Runs
<1> QED
  BY <1>3

LEMMA RunsExist ==
  ASSUME NEW first, NEW data, NEW n \in Nat
  PROVE  \E f : Runs(f, first, data, n)
<1> DEFINE T == {k \in Nat : \E f : Runs(f, first, data, k)}
<1>1. 0 \in T
  <2> DEFINE f == [i \in 0..0 |-> first]
  <2>1. f = [i \in 0..0 |-> IF i = 0 THEN first ELSE Decoded(f[i - 1], data[i])]
    OBVIOUS
  <2>2. Runs(f, first, data, 0)
    BY <2>1, Zenon DEF Runs
  <2> QED
    BY <2>2
<1>2. ASSUME NEW k \in Nat, k \in T PROVE k + 1 \in T
  BY <1>2, RunsMore
<1> HIDE DEF T
<1>3. n \in T
  BY <1>1, <1>2, Induction
<1> QED
  BY <1>3 DEF T

LEMMA RunSteps ==
  ASSUME NEW r, NEW data, Len(data) \in Nat
  PROVE  \E f : /\ f[0] = r /\ Run(r, data) = f[Len(data)]
                /\ \A n \in 0..(Len(data) - 1) : f[n + 1] = Decoded(f[n], data[n + 1])
<1> DEFINE f == CHOOSE x : Runs(x, r, data, Len(data))
<1>1. Runs(f, r, data, Len(data))
  <2>1. \E x : Runs(x, r, data, Len(data))
    BY RunsExist, Zenon
  <2> QED
    BY <2>1, Zenon
<1>2. Run(r, data) = f[Len(data)]
  BY Zenon DEF Run, Runs
<1> HIDE DEF f
<1>3. f[0] = r
  <2>1. 0 \in 0..Len(data)
    OBVIOUS
  <2> QED
    BY <1>1, <2>1, RunsOne
<1>4. ASSUME NEW n \in 0..(Len(data) - 1) PROVE f[n + 1] = Decoded(f[n], data[n + 1])
  <2>1. n + 1 \in 0..Len(data) /\ n + 1 # 0 /\ (n + 1) - 1 = n
    OBVIOUS
  <2> QED
    BY <1>1, <2>1, RunsOne
<1> QED
  BY <1>2, <1>3, <1>4

LEMMA AppendLater ==
  ASSUME NEW S, NEW a \in Seq(S), NEW b \in Seq(S), NEW x \in S
  PROVE  a \o Append(b, x) = Append(a \o b, x)
OBVIOUS

LEMMA Appended ==
  ASSUME NEW S, NEW s \in Seq(S), NEW x \in S
  PROVE  /\ Append(s, x) \in Seq(S) /\ Len(Append(s, x)) = Len(s) + 1
         /\ Append(s, x)[Len(s) + 1] = x
         /\ \A i \in 1..Len(s) : Append(s, x)[i] = s[i]
OBVIOUS

(* Sets of positions, and a position after all of them.                     *)
LEMMA Places1toN ==
  ASSUME NEW n \in Nat, NEW S \in SUBSET (1..n)
  PROVE  /\ IsFiniteSet(S) /\ Cardinality(S) \in Nat
         /\ S = {} <=> Cardinality(S) = 0
         /\ n + 1 \notin S
         /\ Cardinality(S \union {n + 1}) = Cardinality(S) + 1
         /\ \A i \in S : /\ PlaceIn(S, i) \in 1..Cardinality(S)
                         /\ PlaceIn(S \union {n + 1}, i) = PlaceIn(S, i)
         /\ PlaceIn(S \union {n + 1}, n + 1) = Cardinality(S) + 1
<1>1. IsFiniteSet(S) /\ Cardinality(S) \in Nat
  <2>1. IsFiniteSet(1..n)
    BY FS_Interval
  <2> QED
    BY <2>1, FS_Subset, FS_CardinalityType
<1>2. n + 1 \notin S
  OBVIOUS
<1>3. Cardinality(S \union {n + 1}) = Cardinality(S) + 1
  BY <1>1, <1>2, FS_AddElement
<1>4. ASSUME NEW i \in S
      PROVE  PlaceIn(S, i) \in 1..Cardinality(S) /\ PlaceIn(S \union {n + 1}, i) = PlaceIn(S, i)
  <2> DEFINE J == {j \in S : j <= i}
             K == {j \in S \union {n + 1} : j <= i}
  <2>1. J \subseteq S /\ i \in J /\ K = J
    OBVIOUS
  <2>2. IsFiniteSet(J) /\ Cardinality(J) <= Cardinality(S)
    BY <1>1, <2>1, FS_Subset
  <2>3. Cardinality(J) \in Nat /\ Cardinality(J) # 0
    BY <2>1, <2>2, FS_CardinalityType, FS_EmptySet
  <2>4. PlaceIn(S, i) = Cardinality(J) /\ PlaceIn(S \union {n + 1}, i) = Cardinality(K)
    BY DEF PlaceIn
  <2> HIDE DEF J, K
  <2> QED
    BY <1>1, <2>1, <2>2, <2>3, <2>4
<1>5. PlaceIn(S \union {n + 1}, n + 1) = Cardinality(S) + 1
  <2>1. {j \in S \union {n + 1} : j <= n + 1} = S \union {n + 1}
    <3>1. \A j \in S \union {n + 1} : j <= n + 1
      OBVIOUS
    <3> QED
      BY <3>1, Zenon
  <2> QED
    BY <1>3, <2>1 DEF PlaceIn
<1> QED
  BY <1>1, <1>2, <1>3, <1>4, <1>5, FS_EmptySet

(* What is picked of s is picked of a stream that goes on.                  *)
LEMMA PickedGoesOn ==
  ASSUME NEW B, NEW s \in Seq(B), NEW b \in B, NEW S \in SUBSET (1..Len(s)), NEW p \in Seq(B)
  PROVE  /\ Picked(p, Append(s, b), S) <=> Picked(p, s, S)
         /\ Picked(p, s, S) => Picked(Append(p, b), Append(s, b), S \union {Len(s) + 1})
<1> DEFINE n == Len(s)
           t == Append(s, b)
<1>1. n \in Nat /\ t[n + 1] = b /\ \A i \in 1..n : t[i] = s[i]
  OBVIOUS
<1>2. Len(p) \in Nat /\ Append(p, b)[Len(p) + 1] = b /\ Len(Append(p, b)) = Len(p) + 1
      /\ \A i \in 1..Len(p) : Append(p, b)[i] = p[i]
  OBVIOUS
<1>3. S \in SUBSET (1..n)
  OBVIOUS
<1>6. n + 1 = Len(s) + 1
  OBVIOUS
<1> HIDE DEF n, t
<1>4. Picked(p, t, S) <=> Picked(p, s, S)
  BY <1>1, <1>3 DEF Picked
<1>5. ASSUME Picked(p, s, S) PROVE Picked(Append(p, b), t, S \union {n + 1})
  <2>1. Len(p) = Cardinality(S) /\ \A i \in S : p[PlaceIn(S, i)] = s[i]
    BY <1>5 DEF Picked
  <2> DEFINE T == S \union {n + 1}
             q == Append(p, b)
  <2>2. Cardinality(T) = Cardinality(S) + 1 /\ PlaceIn(T, n + 1) = Cardinality(S) + 1
    BY <1>1, <1>3, Places1toN
  <2>3. \A i \in S : PlaceIn(S, i) \in 1..Cardinality(S) /\ PlaceIn(T, i) = PlaceIn(S, i)
    BY <1>1, <1>3, Places1toN
  <2> HIDE DEF T, q
  <2>4. ASSUME NEW i \in T PROVE q[PlaceIn(T, i)] = t[i]
    <3>1. CASE i = n + 1
      BY <1>1, <1>2, <2>1, <2>2, <3>1 DEF q
    <3>2. CASE i \in S
      <4>1. q[PlaceIn(S, i)] = p[PlaceIn(S, i)]
        BY <1>2, <2>1, <2>3, <3>2 DEF q
      <4>2. t[i] = s[i]
        BY <1>1, <1>3, <3>2
      <4> QED
        BY <2>1, <2>3, <3>2, <4>1, <4>2
    <3> QED
      BY <3>1, <3>2 DEF T
  <2>5. Len(q) = Cardinality(T)
    BY <1>2, <2>1, <2>2 DEF q
  <2> QED
    BY <2>4, <2>5 DEF Picked, T, q
<1> QED
  BY <1>4, <1>5, <1>6 DEF t
-----------------------------------------------------------------------------
(* FramedPacket.  What is put out and held, and whether in a packet, are of  *)
(* the stream s.                                                           *)
Opened(s) == \E start \in 1..Len(s) : s[start] = "(" /\ \A k \in start..Len(s) : s[k] # ")"
FramedGood(o, h, p, s) ==
  /\ s \in Seq(setup.bytes) /\ o \in Seq(Seq(setup.bytes)) /\ h \in Seq(setup.bytes)
  /\ Len(o) = Cardinality(Stops(s))
  /\ \A i \in Stops(s) : Picked(o[PlaceIn(Stops(s), i)], s, Inside(s, i))
  /\ Picked(h, s, Inside(s, Len(s) + 1))
  /\ p = Opened(s)

LEMMA InsideGoesOn ==
  ASSUME NEW B, NEW s \in Seq(B), NEW b \in B, NEW i \in 1..(Len(s) + 1)
  PROVE  Inside(Append(s, b), i) = Inside(s, i) /\ Inside(s, i) \in SUBSET (1..Len(s))
<1> DEFINE n == Len(s)
           t == Append(s, b)
<1>1. n \in Nat /\ i \in 1..(n + 1) /\ \A k \in 1..n : t[k] = s[k]
  OBVIOUS
<1> HIDE DEF n, t
<1>2. ASSUME NEW j \in 1..(i - 1) PROVE j \in Inside(t, i) <=> j \in Inside(s, i)
  <2>1. j \in 1..n /\ \A start \in 1..j : start \in 1..n /\ start..(i - 1) \subseteq 1..n
    BY <1>1
  <2> QED
    BY <1>1, <2>1 DEF Inside
<1>3. Inside(t, i) \subseteq 1..(i - 1) /\ Inside(s, i) \subseteq 1..(i - 1)
  BY DEF Inside
<1>4. 1..(i - 1) \subseteq 1..n
  BY <1>1
<1> QED
  BY <1>2, <1>3, <1>4 DEF n, t

LEMMA InsideNext ==
  ASSUME NEW B, NEW s \in Seq(B), NEW b \in B
  PROVE  LET t == Append(s, b)
             new == Len(s) + 1
         IN  /\ b = "(" => /\ Stops(t) = Stops(s) /\ Opened(t)
                           /\ Inside(t, Len(t) + 1) = Inside(s, new)
             /\ b = ")" => /\ Stops(t) = Stops(s) \union {new} /\ ~Opened(t)
                           /\ Inside(t, Len(t) + 1) = {}
             /\ b \notin {"(", ")"} =>
                  /\ Stops(t) = Stops(s) /\ Opened(t) = Opened(s)
                  /\ Inside(t, Len(t) + 1) = IF Opened(s) THEN Inside(s, new) \union {new} ELSE Inside(s, new)
<1> DEFINE n == Len(s)
           t == Append(s, b)
           X == Inside(t, n + 2)
           Y == Inside(s, n + 1)
<1>1. /\ n \in Nat /\ t[n + 1] = b /\ Len(t) = n + 1 /\ Len(t) + 1 = n + 2 /\ n + 2 - 1 = n + 1 /\ n + 1 - 1 = n
      /\ \A k \in 1..n : t[k] = s[k]
      /\ DOMAIN t = 1..(n + 1) /\ DOMAIN s = 1..n /\ 1..(n + 1) = (1..n) \union {n + 1}
  OBVIOUS
<1>6. n = Len(s) /\ "(" # ")"
  OBVIOUS
<1> HIDE DEF n, t, X, Y
<1>2. /\ b = ")" => Stops(t) = Stops(s) \union {n + 1}
      /\ b # ")" => Stops(t) = Stops(s)
  <2>1. /\ \A i \in 1..n : t[i] = ")" <=> s[i] = ")"
        /\ t[n + 1] = ")" <=> b = ")"
    BY <1>1
  <2>2. Stops(t) = {i \in (1..n) \union {n + 1} : t[i] = ")"} /\ Stops(s) = {i \in 1..n : s[i] = ")"}
    BY <1>1, Zenon DEF Stops
  <2> QED
    BY <2>1, <2>2, Zenon
<1>3. \A start \in 1..n : (\A k \in start..(n + 1) : t[k] # ")") <=> b # ")" /\ \A k \in start..n : s[k] # ")"
  <2> TAKE start \in 1..n
  <2>1. start..(n + 1) = (start..n) \union {n + 1} /\ start..n \subseteq 1..n
    BY <1>1
  <2> QED
    BY <1>1, <2>1, Zenon
<1>4. Opened(t) <=> b = "(" \/ (b # ")" /\ Opened(s))
  <2>1. Opened(t) <=> \E start \in (1..n) \union {n + 1} : t[start] = "(" /\ \A k \in start..(n + 1) : t[k] # ")"
    BY <1>1, Zenon DEF Opened
  <2>2. (n + 1)..(n + 1) = {n + 1}
    BY <1>1
  <2>3. \A start \in {n + 1} : (t[start] = "(" /\ \A k \in start..(n + 1) : t[k] # ")") <=> b = "("
    BY <1>1, <1>6, <2>2
  <2>4. \A start \in 1..n : (t[start] = "(" /\ \A k \in start..(n + 1) : t[k] # ")")
           <=> (b # ")" /\ s[start] = "(" /\ \A k \in start..n : s[k] # ")")
    BY <1>1, <1>3, Zenon
  <2>5. Opened(s) <=> \E start \in 1..n : s[start] = "(" /\ \A k \in start..n : s[k] # ")"
    BY <1>6, Zenon DEF Opened
  <2> QED
    BY <1>6, <2>1, <2>3, <2>4, <2>5
<1>5. ASSUME NEW j \in 1..(n + 1)
      PROVE  j \in X <=> IF j = n + 1 THEN b # "(" /\ Opened(t) ELSE b # ")" /\ j \in Y
  <2>1. j \in X <=> /\ t[j] # "("
                    /\ \E start \in 1..j : t[start] = "(" /\ \A k \in start..(n + 1) : t[k] # ")"
    BY <1>1 DEF Inside, X
  <2>2. CASE j = n + 1
    <3>1. Opened(t) <=> \E start \in 1..j : t[start] = "(" /\ \A k \in start..(n + 1) : t[k] # ")"
      BY <1>1, <2>2, Zenon DEF Opened
    <3> QED
      BY <1>1, <2>1, <2>2, <3>1
  <2>3. CASE j # n + 1
    <3>1. j \in 1..n /\ 1..j \subseteq 1..n
      BY <1>1, <2>3
    <3>2. \A start \in 1..j : (t[start] = "(" /\ \A k \in start..(n + 1) : t[k] # ")")
             <=> (b # ")" /\ s[start] = "(" /\ \A k \in start..n : s[k] # ")")
      BY <1>1, <1>3, <3>1
    <3>3. j \in Y <=> /\ s[j] # "("
                      /\ \E start \in 1..j : s[start] = "(" /\ \A k \in start..n : s[k] # ")"
      BY <1>1, <3>1 DEF Inside, Y
    <3>4. t[j] = s[j]
      BY <1>1, <3>1
    <3>5. (\E start \in 1..j : t[start] = "(" /\ \A k \in start..(n + 1) : t[k] # ")")
          <=> b # ")" /\ \E start \in 1..j : s[start] = "(" /\ \A k \in start..n : s[k] # ")"
      BY <3>2, Zenon
    <3> QED
      BY <2>1, <2>3, <3>3, <3>4, <3>5
  <2> QED
    BY <2>2, <2>3
<1>7. X \subseteq 1..(n + 1) /\ Y \subseteq 1..n /\ n + 1 \notin 1..n
  BY <1>1 DEF X, Y, Inside
<1>8. CASE b = "("
  <2>1. X = Y
    <3>1. \A j \in 1..(n + 1) : j \in X <=> j \in Y
      BY <1>5, <1>6, <1>7, <1>8
    <3>2. Y \subseteq 1..(n + 1)
      BY <1>1, <1>7
    <3> QED
      BY <1>7, <3>1, <3>2, Zenon
  <2> QED
    BY <1>1, <1>2, <1>4, <1>6, <1>8, <2>1 DEF t, n, X, Y
<1>9. CASE b = ")"
  <2>1. X = {} /\ ~Opened(t)
    BY <1>1, <1>4, <1>5, <1>6, <1>7, <1>9
  <2> QED
    BY <1>1, <1>2, <1>6, <1>9, <2>1 DEF t, n, X, Y
<1>10. CASE b \notin {"(", ")"}
  <2>1. X = (IF Opened(s) THEN Y \union {n + 1} ELSE Y) /\ Opened(t) = Opened(s)
    <3>1. (Opened(t) <=> Opened(s)) /\ Opened(t) \in BOOLEAN /\ Opened(s) \in BOOLEAN
      BY <1>4, <1>10 DEF Opened
    <3>2. Y \union {n + 1} \subseteq 1..(n + 1)
      BY <1>1, <1>7
    <3>3. \A j \in 1..(n + 1) : j \in X <=> IF Opened(s) THEN j \in Y \union {n + 1} ELSE j \in Y
      BY <1>5, <1>7, <1>10, <3>1
    <3> QED
      BY <1>7, <3>1, <3>2, <3>3, Zenon
  <2> QED
    BY <1>1, <1>2, <1>10, <2>1 DEF t, n, X, Y
<1> QED
  BY <1>8, <1>9, <1>10

LEMMA FramedByte ==
  ASSUME NEW o, NEW h, NEW p, NEW s, FramedGood(o, h, p, s), NEW b \in setup.bytes
  PROVE  LET t == Append(s, b)
         IN  /\ b = "(" => FramedGood(o, h, TRUE, t)
             /\ b = ")" => FramedGood(Append(o, h), <<>>, FALSE, t)
             /\ b \notin {"(", ")"} => FramedGood(o, IF p THEN Append(h, b) ELSE h, p, t)
<1> DEFINE B == setup.bytes
           n == Len(s)
           t == Append(s, b)
           X == Inside(t, Len(t) + 1)
           Y == Inside(s, n + 1)
           S == Stops(s)
<1>1. /\ s \in Seq(B) /\ o \in Seq(Seq(B)) /\ h \in Seq(B) /\ n \in Nat /\ Len(o) = Cardinality(S)
      /\ \A i \in S : Picked(o[PlaceIn(S, i)], s, Inside(s, i))
      /\ Picked(h, s, Y) /\ p = Opened(s)
  BY DEF FramedGood
<1>2. b \in B
  OBVIOUS
<1>3. S \in SUBSET (1..n) /\ n + 1 \in 1..(n + 1) /\ \A i \in S : i \in 1..(n + 1)
  BY <1>1 DEF Stops
<1>4. \A i \in 1..(n + 1) : Inside(t, i) = Inside(s, i) /\ Inside(s, i) \in SUBSET (1..n)
  BY <1>1, <1>2, InsideGoesOn
<1>5. \A q \in Seq(B), W \in SUBSET (1..n) :
        /\ Picked(q, t, W) <=> Picked(q, s, W)
        /\ Picked(q, s, W) => Picked(Append(q, b), t, W \union {n + 1})
  BY <1>1, <1>2, PickedGoesOn
<1>6. /\ b = "(" => Stops(t) = S /\ Opened(t) = TRUE /\ X = Y
      /\ b = ")" => Stops(t) = S \union {n + 1} /\ Opened(t) = FALSE /\ X = {}
      /\ b \notin {"(", ")"} => /\ Stops(t) = S /\ Opened(t) = Opened(s)
                                /\ X = IF Opened(s) THEN Y \union {n + 1} ELSE Y
  <2>1. Opened(t) \in BOOLEAN
    BY DEF Opened
  <2>2. /\ b = "(" => Stops(t) = S /\ Opened(t) /\ X = Y
        /\ b = ")" => Stops(t) = S \union {n + 1} /\ ~Opened(t) /\ X = {}
        /\ b \notin {"(", ")"} => /\ Stops(t) = S /\ Opened(t) = Opened(s)
                                  /\ X = IF Opened(s) THEN Y \union {n + 1} ELSE Y
    BY <1>1, <1>2, InsideNext
  <2> HIDE DEF X, Y, S, t, n
  <2> QED
    BY <2>1, <2>2
<1>7. /\ t \in Seq(B) /\ Append(h, b) \in Seq(B) /\ Append(o, h) \in Seq(Seq(B)) /\ <<>> \in Seq(B)
      /\ Len(Append(o, h)) = Len(o) + 1 /\ Append(o, h)[Len(o) + 1] = h
      /\ \A i \in 1..Len(o) : Append(o, h)[i] = o[i]
  <2> DEFINE C == Seq(B)
  <2>1. o \in Seq(C) /\ h \in C /\ s \in Seq(B) /\ h \in Seq(B) /\ b \in B
    BY <1>1, <1>2
  <2>2. <<>> \in Seq(B)
    OBVIOUS
  <2> HIDE DEF B, C
  <2>3. t \in Seq(B) /\ Append(h, b) \in Seq(B)
    BY <2>1, Appended
  <2>4. /\ Append(o, h) \in Seq(C) /\ Len(Append(o, h)) = Len(o) + 1 /\ Append(o, h)[Len(o) + 1] = h
        /\ \A i \in 1..Len(o) : Append(o, h)[i] = o[i]
    BY <2>1, Appended
  <2> QED
    BY <2>2, <2>3, <2>4 DEF C
<1>9. Y \in SUBSET (1..n)
  BY <1>3, <1>4
<1>14. \A r \in Seq(Seq(B)) : \A k \in 1..Len(r) : r[k] \in Seq(B)
  OBVIOUS
<1> HIDE DEF t, n, X, Y, S, B
<1>8. /\ \A i \in S : PlaceIn(S, i) \in 1..Len(o) /\ PlaceIn(S \union {n + 1}, i) = PlaceIn(S, i)
      /\ Cardinality(S \union {n + 1}) = Len(o) + 1 /\ PlaceIn(S \union {n + 1}, n + 1) = Len(o) + 1
  <2>1. n \in Nat /\ S \in SUBSET (1..n) /\ Len(o) = Cardinality(S)
    BY <1>1, <1>3
  <2>2. /\ \A i \in S : PlaceIn(S, i) \in 1..Cardinality(S) /\ PlaceIn(S \union {n + 1}, i) = PlaceIn(S, i)
        /\ Cardinality(S \union {n + 1}) = Cardinality(S) + 1
        /\ PlaceIn(S \union {n + 1}, n + 1) = Cardinality(S) + 1
    BY <2>1, Places1toN
  <2> QED
    BY <2>1, <2>2, Zenon
<1>10. ASSUME NEW i \in S PROVE Picked(o[PlaceIn(S, i)], t, Inside(t, i))
  BY <1>1, <1>3, <1>4, <1>5, <1>8, <1>14
<1>11. CASE b = "("
  <2>1. Picked(h, t, X)
    BY <1>1, <1>5, <1>6, <1>9, <1>11
  <2> QED
    BY <1>1, <1>6, <1>7, <1>10, <1>11, <2>1 DEF FramedGood, t, X, S, B
<1>12. CASE b = ")"
  <2> DEFINE T == S \union {n + 1}
             q == Append(o, h)
  <2>1. Picked(<<>>, t, {})
    BY FS_EmptySet DEF Picked
  <2>2. ASSUME NEW i \in T PROVE Picked(q[PlaceIn(T, i)], t, Inside(t, i))
    <3>1. CASE i = n + 1
      <4>1. q[PlaceIn(T, i)] = h /\ Inside(t, i) = Y
        BY <1>3, <1>4, <1>7, <1>8, <3>1 DEF Y
      <4> QED
        BY <1>1, <1>5, <1>9, <4>1
    <3>2. CASE i \in S
      <4>1. q[PlaceIn(T, i)] = o[PlaceIn(S, i)]
        BY <1>7, <1>8, <3>2
      <4> QED
        BY <1>10, <3>2, <4>1
    <3> QED
      BY <3>1, <3>2
  <2>3. Len(q) = Cardinality(T)
    BY <1>7, <1>8
  <2>4. Stops(t) = T /\ X = {} /\ Opened(t) = FALSE /\ q \in Seq(Seq(B))
    BY <1>6, <1>7, <1>12
  <2>5. FramedGood(q, <<>>, FALSE, t)
    <3> HIDE DEF T, q
    <3> QED
      BY <1>7, <2>1, <2>2, <2>3, <2>4 DEF FramedGood, X, B
  <2> QED
    BY <1>12, <2>5 DEF t
<1>13. CASE b \notin {"(", ")"}
  <2> DEFINE q == IF p THEN Append(h, b) ELSE h
  <2>1. Picked(q, t, X) /\ q \in Seq(B)
    BY <1>1, <1>5, <1>6, <1>7, <1>9, <1>13
  <2>2. Stops(t) = S /\ Opened(t) = p
    BY <1>1, <1>6, <1>13
  <2> HIDE DEF q
  <2>3. FramedGood(o, q, p, t)
    BY <1>1, <1>7, <1>10, <2>1, <2>2 DEF FramedGood, X, S, B
  <2> QED
    BY <1>13, <2>3 DEF t, q
<1> QED
  BY <1>11, <1>12, <1>13
-----------------------------------------------------------------------------
(* Hexlify: the bytes put out, and the digit held, are of the stream s.     *)
Value(s, i) == 16 * Index(s[Max(Word(s, i) \ {i})]) + Index(s[i])
HexGood(o, h, s) ==
  /\ s \in Seq(setup.bytes) /\ o \in Seq(Nat)
  /\ Len(o) = Cardinality(ByteEnds(s))
  /\ \A i \in ByteEnds(s) : o[PlaceIn(ByteEnds(s), i)] = Value(s, i)
  /\ LET word == Word(s, Len(s))
     IN  h = IF Cardinality(word) % 2 = 0 THEN <<>> ELSE State(Index(s[Max(word)]))

LEMMA SpaceNoDigit == " " \notin Range(HexDigits)
<1>1. DOMAIN HexDigits = 1..2 /\ HexDigits[1] = "0" /\ HexDigits[2] = "F"
  BY DEF HexDigits
<1>2. \A i \in 1..2 : HexDigits[i] # " "
  <2>1. 1..2 = {1, 2}
    OBVIOUS
  <2>2. "0" # " " /\ "F" # " "
    OBVIOUS
  <2> QED
    BY <1>1, <2>1, <2>2
<1>3. Range(HexDigits) = {HexDigits[i] : i \in 1..2}
  BY <1>1, Zenon DEF Range
<1> QED
  BY <1>2, <1>3

LEMMA LastOf ==
  ASSUME NEW n \in Nat, NEW S \in SUBSET (1..n)
  PROVE  /\ S # {} => Max(S) \in S
         /\ Max(S \union {n + 1}) = n + 1
<1>1. ASSUME S # {} PROVE Max(S) \in S
  <2> DEFINE T == {k \in 0..n : n - k \in S}
  <2>1. T \in SUBSET Nat /\ \E k \in Nat : k \in T
    <3>1. PICK i \in S : TRUE
      BY <1>1
    <3>2. n - i \in 0..n /\ n - (n - i) = i
      OBVIOUS
    <3> QED
      BY <3>1, <3>2
  <2>2. PICK m \in T : \A k \in T : m <= k
    BY <2>1, LeastNumber
  <2>3. n - m \in S /\ \A i \in S : n - m >= i
    <3>1. ASSUME NEW i \in S PROVE n - m >= i
      <4>1. n - i \in 0..n /\ n - (n - i) = i /\ i \in 1..n
        OBVIOUS
      <4>2. m <= n - i
        BY <2>2, <4>1
      <4>3. m \in 0..n
        OBVIOUS
      <4> QED
        BY <4>1, <4>2, <4>3
    <3> QED
      BY <3>1
  <2> QED
    BY <2>3, Zenon DEF Max
<1>2. Max(S \union {n + 1}) = n + 1
  <2> DEFINE W == S \union {n + 1}
  <2>1. \A y \in W : n + 1 >= y /\ y \in Nat
    OBVIOUS
  <2>2. \A x \in W : (\A y \in W : x >= y) <=> x = n + 1
    BY <2>1
  <2>3. n + 1 \in W
    OBVIOUS
  <2> HIDE DEF W
  <2>4. Max(W) = n + 1
    BY <2>2, <2>3, Zenon DEF Max
  <2> QED
    BY <2>4 DEF W
<1> QED
  BY <1>1, <1>2

LEMMA WordGoesOn ==
  ASSUME NEW B, NEW s \in Seq(B), NEW b \in B, NEW i \in 0..Len(s)
  PROVE  /\ Word(Append(s, b), i) = Word(s, i)
         /\ Word(s, i) \in SUBSET (1..Len(s)) /\ Word(s, i) \in SUBSET (1..i)
<1> DEFINE n == Len(s)
           t == Append(s, b)
           H == Range(HexDigits)
<1>1. /\ n \in Nat /\ i \in 0..n /\ (\A k \in 1..n : t[k] = s[k])
      /\ DOMAIN t = 1..(n + 1) /\ DOMAIN s = 1..n
  OBVIOUS
<1> HIDE DEF n, t, H
<1>2. ASSUME NEW j \in 1..n PROVE j \in Word(t, i) <=> j \in Word(s, i)
  <2>1. j..i \subseteq 1..n /\ j \in 1..(n + 1)
    BY <1>1
  <2>2. j \in Digits(t) <=> j \in Digits(s)
    BY <1>1, <2>1, Zenon DEF Digits
  <2>3. (\A k \in j..i : t[k] # " ") <=> (\A k \in j..i : s[k] # " ")
    BY <1>1, <2>1
  <2> QED
    BY <2>2, <2>3, Zenon DEF Word
<1>3. ASSUME NEW x, NEW j \in Word(x, i), DOMAIN x \subseteq Nat, 0 \notin DOMAIN x PROVE j \in 1..n /\ j \in 1..i
  <2>1. j \in DOMAIN x /\ j <= i
    BY DEF Word, Digits
  <2> QED
    BY <1>1, <1>3, <2>1
<1>4. Word(t, i) \subseteq 1..n /\ Word(s, i) \subseteq 1..n /\ Word(s, i) \subseteq 1..i
  BY <1>1, <1>3
<1> QED
  BY <1>2, <1>4 DEF n, t

LEMMA WordNext ==
  ASSUME NEW B, NEW s \in Seq(B), NEW b \in B
  PROVE  LET t == Append(s, b)
             new == Len(s) + 1
             digit == b \in Range(HexDigits)
         IN  /\ Digits(t) = IF digit THEN Digits(s) \union {new} ELSE Digits(s)
             /\ Word(t, Len(t)) = IF b = " " THEN {} ELSE IF digit THEN Word(s, Len(s)) \union {new} ELSE Word(s, Len(s))
<1> DEFINE n == Len(s)
           t == Append(s, b)
           H == Range(HexDigits)
           W == Word(s, n)
           X == Word(t, n + 1)
<1>1. /\ n \in Nat /\ t[n + 1] = b /\ Len(t) = n + 1
      /\ \A k \in 1..n : t[k] = s[k]
      /\ DOMAIN t = (1..n) \union {n + 1} /\ DOMAIN s = 1..n /\ n + 1 \notin 1..n
  OBVIOUS
<1>2. n = Len(s) /\ H = Range(HexDigits) /\ " " \notin H
  BY SpaceNoDigit
<1> HIDE DEF n, t, H, W, X
<1>3. Digits(s) = {k \in 1..n : s[k] \in H} /\ Digits(t) = {k \in (1..n) \union {n + 1} : t[k] \in H}
  BY <1>1, <1>2, Zenon DEF Digits
<1>4. Digits(t) = IF b \in H THEN Digits(s) \union {n + 1} ELSE Digits(s)
  <2>1. \A k \in (1..n) \union {n + 1} : k \in Digits(t) <=> IF k = n + 1 THEN b \in H ELSE k \in Digits(s)
    BY <1>1, <1>3
  <2>2. Digits(t) \subseteq (1..n) \union {n + 1} /\ Digits(s) \subseteq 1..n
    BY <1>3
  <2> QED
    BY <1>1, <2>1, <2>2
<1>5. ASSUME NEW j \in 1..n PROVE j \in X <=> b # " " /\ j \in W
  <2>1. j..(n + 1) = (j..n) \union {n + 1} /\ j..n \subseteq 1..n /\ j <= n /\ j <= n + 1
    BY <1>1
  <2>2. j \in Digits(t) <=> j \in Digits(s)
    BY <1>1, <1>3
  <2>3. (\A k \in j..(n + 1) : t[k] # " ") <=> b # " " /\ (\A k \in j..n : s[k] # " ")
    BY <1>1, <2>1, Zenon
  <2> QED
    BY <2>1, <2>2, <2>3, Zenon DEF Word, W, X
<1>6. n + 1 \in X <=> b \in H /\ b # " "
  <2>1. (n + 1)..(n + 1) = {n + 1} /\ n + 1 <= n + 1
    BY <1>1
  <2>2. n + 1 \in Digits(t) <=> b \in H
    BY <1>1, <1>3
  <2> QED
    BY <1>1, <2>1, <2>2, Zenon DEF Word, X
<1>7. X \subseteq (1..n) \union {n + 1} /\ W \subseteq 1..n
  BY <1>3, Zenon DEF Word, X, W
<1>8. X = IF b = " " THEN {} ELSE IF b \in H THEN W \union {n + 1} ELSE W
  <2>1. CASE b = " "
    BY <1>5, <1>6, <1>7, <2>1
  <2>2. CASE b # " " /\ b \in H
    BY <1>5, <1>6, <1>7, <2>2
  <2>3. CASE b # " " /\ b \notin H
    <3>1. X \subseteq 1..n /\ \A j \in 1..n : j \in X <=> j \in W
      BY <1>5, <1>6, <1>7, <2>3
    <3> QED
      BY <1>7, <2>3, <3>1, Zenon
  <2> QED
    BY <1>2, <2>1, <2>2, <2>3
<1> QED
  BY <1>1, <1>2, <1>4, <1>8 DEF t, W, X

LEMMA ByteEndsNext ==
  ASSUME NEW B, NEW s \in Seq(B), NEW b \in B
  PROVE  LET t == Append(s, b)
             word == Word(s, Len(s))
         IN  /\ ByteEnds(s) \in SUBSET (1..Len(s))
             /\ ByteEnds(t) = IF b \in Range(HexDigits) /\ Cardinality(word) % 2 # 0
                              THEN ByteEnds(s) \union {Len(s) + 1} ELSE ByteEnds(s)
             /\ \A i \in ByteEnds(s) : Value(t, i) = Value(s, i)
<1> DEFINE n == Len(s)
           t == Append(s, b)
           H == Range(HexDigits)
           W == Word(s, n)
           E == ByteEnds(s)
<1>1. /\ n \in Nat /\ t[n + 1] = b /\ Len(t) = n + 1 /\ n \in 0..n
      /\ \A k \in 1..n : t[k] = s[k] /\ k \in 0..n
      /\ DOMAIN s = 1..n /\ n + 1 \notin 1..n
  OBVIOUS
<1>2. n = Len(s) /\ H = Range(HexDigits) /\ " " \notin H
  BY SpaceNoDigit
<1>3. /\ Digits(t) = IF b \in H THEN Digits(s) \union {n + 1} ELSE Digits(s)
      /\ Word(t, n + 1) = IF b = " " THEN {} ELSE IF b \in H THEN W \union {n + 1} ELSE W
  <2>1. /\ Digits(t) = IF b \in H THEN Digits(s) \union {n + 1} ELSE Digits(s)
        /\ Word(t, Len(t)) = IF b = " " THEN {} ELSE IF b \in H THEN W \union {n + 1} ELSE W
    BY WordNext
  <2> HIDE DEF t, W, H
  <2> QED
    BY <1>1, <2>1, Zenon
<1>4. \A i \in 0..n : Word(t, i) = Word(s, i) /\ Word(s, i) \in SUBSET (1..n)
  BY WordGoesOn
<1> HIDE DEF n, t, H, W, E
<1>5. Digits(s) \subseteq 1..n
  BY <1>1, Zenon DEF Digits
<1>6. E \in SUBSET (1..n)
  BY <1>5, Zenon DEF E, ByteEnds
<1>7. \A i \in Digits(s) : i \in ByteEnds(t) <=> i \in E
  <2> TAKE i \in Digits(s)
  <2>1. Word(t, i) = Word(s, i) /\ i \in Digits(t)
    BY <1>1, <1>3, <1>4, <1>5
  <2> QED
    BY <2>1, Zenon DEF E, ByteEnds
<1>8. b \in H => (n + 1 \in ByteEnds(t) <=> Cardinality(W) % 2 # 0)
  <2> SUFFICES ASSUME b \in H PROVE n + 1 \in ByteEnds(t) <=> Cardinality(W) % 2 # 0
    OBVIOUS
  <2>1. n + 1 \in Digits(t) /\ Word(t, n + 1) = W \union {n + 1}
    BY <1>2, <1>3
  <2>2. W \in SUBSET (1..n)
    BY <1>1, <1>4 DEF W
  <2>3. Cardinality(W) \in Nat /\ Cardinality(W \union {n + 1}) = Cardinality(W) + 1
    BY <1>1, <2>2, Places1toN
  <2>4. n + 1 \in ByteEnds(t) <=> Cardinality(W \union {n + 1}) % 2 = 0
    BY <2>1, Zenon DEF ByteEnds
  <2> QED
    BY <2>3, <2>4
<1>9. ByteEnds(t) = IF b \in H /\ Cardinality(W) % 2 # 0 THEN E \union {n + 1} ELSE E
  <2>1. ByteEnds(t) \subseteq Digits(t) /\ E \subseteq Digits(s)
    BY DEF E, ByteEnds
  <2>2. CASE b \in H
    <3>1. ByteEnds(t) \subseteq Digits(s) \union {n + 1} /\ n + 1 \notin Digits(s)
      BY <1>1, <1>3, <1>5, <2>1, <2>2
    <3>2. CASE Cardinality(W) % 2 # 0
      <4>1. \A i \in Digits(s) \union {n + 1} : i \in ByteEnds(t) <=> i \in E \union {n + 1}
        BY <1>7, <1>8, <2>2, <3>1, <3>2, Zenon
      <4> QED
        BY <2>1, <2>2, <3>1, <3>2, <4>1, Zenon
    <3>3. CASE Cardinality(W) % 2 = 0
      <4>1. \A i \in Digits(s) \union {n + 1} : i \in ByteEnds(t) <=> i \in E
        BY <1>7, <1>8, <2>1, <2>2, <3>1, <3>3, Zenon
      <4> QED
        BY <2>1, <2>2, <3>1, <3>3, <4>1, Zenon
    <3> QED
      BY <3>2, <3>3
  <2>3. CASE b \notin H
    <3>1. ByteEnds(t) \subseteq Digits(s)
      BY <1>3, <2>1, <2>3
    <3> QED
      BY <1>7, <2>1, <2>3, <3>1, Zenon
  <2> QED
    BY <2>2, <2>3
<1>10. ASSUME NEW i \in E PROVE Value(t, i) = Value(s, i)
  <2> DEFINE V == Word(s, i)
  <2>1. i \in 1..n /\ i \in Digits(s) /\ Cardinality(V) % 2 = 0
    BY <1>6 DEF E, ByteEnds
  <2>2. V \in SUBSET (1..n) /\ Word(t, i) = V /\ t[i] = s[i]
    BY <1>1, <1>4, <2>1
  <2>3. i \in V
    <3>0. s[i] \in H
      BY <1>2, <2>1, Zenon DEF Digits
    <3>1. i..i = {i} /\ i <= i
      BY <1>1, <2>1
    <3>2. \A k \in i..i : s[k] # " "
      BY <1>2, <3>0, <3>1
    <3> QED
      BY <2>1, <3>1, <3>2, Zenon DEF Word
  <2> HIDE DEF V
  <2>4. IsFiniteSet(V) /\ Cardinality(V) \in Nat
    BY <1>1, <2>2, Places1toN
  <2>5. Cardinality(V \ {i}) = Cardinality(V) - 1 /\ IsFiniteSet(V \ {i}) /\ Cardinality(V \ {i}) \in Nat
    BY <2>3, <2>4, FS_RemoveElement, FS_CardinalityType
  <2>6. V \ {i} # {}
    <3>1. Cardinality(V \ {i}) # 0
      BY <2>1, <2>4, <2>5 DEF V
    <3> QED
      BY <2>5, <3>1, FS_EmptySet
  <2> DEFINE m == Max(V \ {i})
  <2>7. m \in 1..n
    <3>1. V \ {i} \in SUBSET (1..n)
      BY <2>2
    <3>2. m \in V \ {i}
      BY <1>1, <2>6, <3>1, LastOf
    <3> QED
      BY <3>1, <3>2
  <2> HIDE DEF m
  <2>8. t[m] = s[m]
    BY <1>1, <2>7
  <2> QED
    BY <2>2, <2>8, Zenon DEF Value, V, m
<1> QED
  BY <1>2, <1>6, <1>9, <1>10, Zenon DEF t, W, E

LEMMA HexByte ==
  ASSUME NEW o, NEW h, NEW s, HexGood(o, h, s), NEW b \in setup.bytes
  PROVE  LET t == Append(s, b)
         IN  /\ b \in Range(HexDigits) =>
                  IF h # <<>> THEN HexGood(Append(o, Index(b) + Head(h)), <<>>, t)
                  ELSE HexGood(o, State(Index(b)), t)
             /\ b = " " => HexGood(o, <<>>, t)
             /\ b \notin Range(HexDigits) \union {" "} => HexGood(o, h, t)
<1> DEFINE B == setup.bytes
           n == Len(s)
           t == Append(s, b)
           H == Range(HexDigits)
           W == Word(s, n)
           X == Word(t, n + 1)
           E == ByteEnds(s)
           F == ByteEnds(t)
           odd == Cardinality(W) % 2 # 0
<1>1. /\ s \in Seq(B) /\ o \in Seq(Nat) /\ n \in Nat /\ Len(o) = Cardinality(E) /\ b \in B
      /\ \A i \in E : o[PlaceIn(E, i)] = Value(s, i)
      /\ h = IF odd THEN State(Index(s[Max(W)])) ELSE <<>>
  BY DEF HexGood
<1>2. /\ Len(t) = n + 1 /\ t[n + 1] = b /\ n \in 0..n /\ \A i \in 1..n : t[i] = s[i]
  BY <1>1
<1>3. t \in Seq(B)
  <2> HIDE DEF B
  <2> QED
    BY <1>1, Appended
<1>4. X = IF b = " " THEN {} ELSE IF b \in H THEN W \union {n + 1} ELSE W
  <2>0. s \in Seq(B) /\ b \in B
    BY <1>1
  <2> HIDE DEF B
  <2>1. Word(t, Len(t)) = IF b = " " THEN {} ELSE IF b \in H THEN W \union {n + 1} ELSE W
    BY <2>0, WordNext
  <2> HIDE DEF t, W, H
  <2> QED
    BY <1>2, <2>1, Zenon
<1>5. W \in SUBSET (1..n)
  BY <1>1, <1>2, WordGoesOn
<1>6. /\ E \in SUBSET (1..n)
      /\ F = IF b \in H /\ odd THEN E \union {n + 1} ELSE E
      /\ \A i \in E : Value(t, i) = Value(s, i)
  BY <1>1, ByteEndsNext
<1>7. " " \notin H /\ H = Range(HexDigits)
  BY SpaceNoDigit
<1>8. \A c : Index(c) \in Nat
  BY DEF Index
<1>9. \A p, d : /\ p \in Seq(Nat) /\ Len(p) = Cardinality(F)
                /\ \A i \in F : p[PlaceIn(F, i)] = Value(t, i)
                /\ d = IF Cardinality(X) % 2 = 0 THEN <<>> ELSE State(Index(t[Max(X)]))
                => HexGood(p, d, t)
  BY <1>2, <1>3 DEF HexGood
<1> HIDE DEF B, n, t, H, W, X, E, F, odd
<1>10. /\ Cardinality(W) \in Nat /\ Cardinality(W \union {n + 1}) = Cardinality(W) + 1
       /\ odd => W # {}
  <2>1. /\ Cardinality(W) \in Nat /\ Cardinality(W \union {n + 1}) = Cardinality(W) + 1
        /\ W = {} <=> Cardinality(W) = 0
    BY <1>1, <1>5, Places1toN
  <2> QED
    BY <2>1 DEF odd
<1>11. Max(W \union {n + 1}) = n + 1 /\ (odd => Max(W) \in 1..n)
  BY <1>1, <1>5, <1>10, LastOf
<1>12. CASE b \in H /\ odd
  <2> DEFINE v == Index(b) + Head(h)
             q == Append(o, v)
  <2>1. h = State(Index(s[Max(W)])) /\ h # <<>> /\ Head(h) = 16 * Index(s[Max(W)]) /\ Head(h) \in Nat
    <3>1. h = <<16 * Index(s[Max(W)])>>
      BY <1>1, <1>12 DEF State
    <3> QED
      BY <1>8, <3>1 DEF State
  <2>2. v \in Nat
    BY <1>8, <2>1
  <2>3. q \in Seq(Nat) /\ Len(q) = Len(o) + 1 /\ q[Len(o) + 1] = v /\ \A i \in 1..Len(o) : q[i] = o[i]
    <3> HIDE DEF v
    <3> QED
      BY <1>1, <2>2, Appended
  <2>4. F = E \union {n + 1} /\ X = W \union {n + 1}
    BY <1>4, <1>6, <1>7, <1>12
  <2>5. Cardinality(X) % 2 = 0
    BY <1>10, <1>12, <2>4 DEF odd
  <2>6. /\ \A i \in E : PlaceIn(E, i) \in 1..Cardinality(E) /\ PlaceIn(F, i) = PlaceIn(E, i)
        /\ Cardinality(F) = Cardinality(E) + 1 /\ PlaceIn(F, n + 1) = Cardinality(E) + 1
    <3>1. n \in Nat /\ E \in SUBSET (1..n)
      BY <1>1, <1>6
    <3>2. /\ \A i \in E : PlaceIn(E, i) \in 1..Cardinality(E) /\ PlaceIn(E \union {n + 1}, i) = PlaceIn(E, i)
          /\ Cardinality(E \union {n + 1}) = Cardinality(E) + 1
          /\ PlaceIn(E \union {n + 1}, n + 1) = Cardinality(E) + 1
      BY <3>1, Places1toN
    <3> QED
      BY <2>4, <3>2, Zenon
  <2>7. Value(t, n + 1) = v
    <3>1. X \ {n + 1} = W
      <4>1. n + 1 \notin 1..n
        BY <1>1
      <4> QED
        BY <1>5, <2>4, <4>1
    <3>2. t[Max(W)] = s[Max(W)] /\ t[n + 1] = b
      BY <1>2, <1>11, <1>12
    <3>3. Value(t, n + 1) = 16 * Index(s[Max(W)]) + Index(b)
      BY <3>1, <3>2, Zenon DEF Value, X
    <3> QED
      BY <1>8, <2>1, <3>3
  <2> HIDE DEF v, q
  <2>8. ASSUME NEW i \in F PROVE q[PlaceIn(F, i)] = Value(t, i)
    <3>1. CASE i = n + 1
      BY <1>1, <2>3, <2>6, <2>7, <3>1
    <3>2. CASE i \in E
      <4>1. PlaceIn(F, i) = PlaceIn(E, i) /\ PlaceIn(E, i) \in 1..Len(o)
        BY <1>1, <2>6, <3>2
      <4> QED
        BY <1>1, <1>6, <2>3, <3>2, <4>1
    <3> QED
      BY <2>4, <3>1, <3>2
  <2>9. Len(q) = Cardinality(F)
    BY <1>1, <2>3, <2>6
  <2>10. HexGood(q, <<>>, t)
    BY <1>9, <2>3, <2>5, <2>8, <2>9
  <2> QED
    BY <1>7, <1>12, <2>1, <2>10 DEF t, q, v
<1>13. CASE ~(b \in H /\ odd)
  <2>1. F = E
    BY <1>6, <1>13
  <2>2. /\ Len(o) = Cardinality(F)
        /\ \A i \in F : o[PlaceIn(F, i)] = Value(t, i)
    BY <1>1, <1>6, <2>1
  <2>3. CASE b \in H
    <3>1. h = <<>> /\ X = W \union {n + 1} /\ ~odd
      BY <1>1, <1>4, <1>7, <1>13, <2>3
    <3>2. Cardinality(X) % 2 # 0
      BY <1>10, <3>1 DEF odd
    <3>3. t[Max(X)] = b
      BY <1>2, <1>11, <3>1
    <3>4. HexGood(o, State(Index(b)), t)
      BY <1>1, <1>9, <2>2, <3>2, <3>3
    <3> QED
      BY <1>7, <2>3, <3>1, <3>4 DEF t
  <2>4. CASE b = " "
    <3>1. Cardinality(X) = 0
      BY <1>4, <2>4, FS_EmptySet
    <3>2. HexGood(o, <<>>, t)
      BY <1>1, <1>9, <2>2, <3>1
    <3> QED
      BY <1>7, <2>4, <3>2 DEF t
  <2>5. CASE b \notin H \union {" "}
    <3>1. X = W
      BY <1>4, <2>5
    <3>2. odd => t[Max(W)] = s[Max(W)]
      BY <1>2, <1>11
    <3>3. h = IF Cardinality(X) % 2 = 0 THEN <<>> ELSE State(Index(t[Max(X)]))
      BY <1>1, <3>1, <3>2 DEF odd
    <3>4. HexGood(o, h, t)
      BY <1>1, <1>9, <2>2, <3>3
    <3> QED
      BY <1>7, <2>5, <3>4 DEF t
  <2> QED
    BY <2>3, <2>4, <2>5
<1> QED
  BY <1>12, <1>13

LEMMA FrontOf ==
  ASSUME NEW S, NEW k \in Nat, NEW x \in Seq(S), k + 1 <= Len(x)
  PROVE  /\ SubSeq(x, 1, k) \in Seq(S) /\ Len(SubSeq(x, 1, k)) = k
         /\ \A i \in 1..k : SubSeq(x, 1, k)[i] = x[i]
         /\ SubSeq(x, 1, k + 1) = Append(SubSeq(x, 1, k), x[k + 1])
         /\ SubSeq(x, 1, Len(x)) = x
OBVIOUS
-----------------------------------------------------------------------------
(* The text: what is put out, and the byte held, are of the stream s.       *)
Chars == setup.bytes \union {"wide", "?"}
EndsInLead(s) == Len(s) > 0 /\ s[Len(s)] = "lead"
TextGood(o, h, s) ==
  /\ s \in Seq(setup.bytes) /\ o \in Seq(Chars)
  /\ o = Text(s)
  /\ h = IF EndsInLead(s) THEN <<"lead">> ELSE <<>>

LEMMA CharTypes ==
  ASSUME NEW s \in Seq(setup.bytes), NEW i \in 1..Len(s)
  PROVE  CharAt(s, i) \in Seq(Chars)
<1>1. s[i] \in Chars /\ "wide" \in Chars /\ "?" \in Chars
  BY DEF Chars
<1>2. \A c \in Chars : <<c>> \in Seq(Chars)
  OBVIOUS
<1>3. <<>> \in Seq(Chars)
  OBVIOUS
<1> QED
  BY <1>1, <1>2, <1>3 DEF CharAt

LEMMA TextNext ==
  ASSUME NEW s \in Seq(setup.bytes), NEW b \in setup.bytes
  PROVE  LET bad == IF EndsInLead(s) /\ b # "cont" THEN <<"?">> ELSE <<>>
             char == IF b = "lead" THEN <<>>
                     ELSE IF b = "cont" THEN IF EndsInLead(s) THEN <<"wide">> ELSE <<"?">>
                     ELSE <<b>>
         IN  Text(Append(s, b)) = (Text(s) \o bad) \o char /\ Text(s) \in Seq(Chars)
             /\ bad \in Seq(Chars) /\ char \in Seq(Chars)
<1> DEFINE B == setup.bytes
           n == Len(s)
           t == Append(s, b)
           lead == EndsInLead(s)
           bad == IF lead /\ b # "cont" THEN <<"?">> ELSE <<>>
           char == IF b = "lead" THEN <<>>
                   ELSE IF b = "cont" THEN IF lead THEN <<"wide">> ELSE <<"?">>
                   ELSE <<b>>
           X == [i \in 1..n |-> CharAt(s, i)]
           Y == [i \in 1..(n + 1) |-> CharAt(t, i)]
<1>1. /\ n \in Nat /\ t[n + 1] = b /\ Len(t) = n + 1 /\ b \in B /\ s \in Seq(B)
      /\ \A k \in 1..n : t[k] = s[k]
      /\ DOMAIN t = 1..(n + 1) /\ DOMAIN s = 1..n
  OBVIOUS
<1>2. t \in Seq(B) /\ s \in Seq(B)
  <2> HIDE DEF B
  <2> QED
    BY <1>1, Appended
<1>3. /\ \A i \in 1..n : CharAt(s, i) \in Seq(Chars)
      /\ \A i \in 1..(n + 1) : CharAt(t, i) \in Seq(Chars)
  <2>1. \A i \in 1..Len(s) : CharAt(s, i) \in Seq(Chars)
    BY CharTypes
  <2>2. \A i \in 1..Len(t) : CharAt(t, i) \in Seq(Chars)
    BY <1>2, CharTypes
  <2> HIDE DEF t
  <2> QED
    BY <1>1, <2>1, <2>2
<1>4. Text(s) = FlattenSeq(X) /\ Text(t) = FlattenSeq(Y)
  BY <1>1, Zenon DEF Text
<1>5. bad \in Seq(Chars) /\ char \in Seq(Chars)
  <2>1. b \in Chars /\ "wide" \in Chars /\ "?" \in Chars
    BY DEF Chars
  <2> QED
    BY <2>1
<1>6. n = Len(s) /\ lead = (n > 0 /\ s[n] = "lead")
  BY DEF EndsInLead
<1> HIDE DEF B, n, t, lead
<1>0. n \in Nat
  BY <1>1
<1>7. \A i \in 1..n : CharAt(t, i) = IF i = n /\ lead THEN IF b = "cont" THEN <<"wide">> ELSE <<"?">> ELSE CharAt(s, i)
  <2> TAKE i \in 1..n
  <2>1. CASE i = n
    <3>0. i # n + 1 /\ i \in 1..n /\ (i > 1 => i - 1 \in 1..n) /\ n > 0
      BY <1>0
    <3>1. t[i] = s[i] /\ t[i + 1] = b /\ i # Len(t) /\ i = Len(s) /\ n > 0 /\ (i > 1 => t[i - 1] = s[i - 1])
      BY <1>1, <1>6, <2>1, <3>0
    <3> QED
      BY <1>6, <2>1, <3>1 DEF CharAt
  <2>2. CASE i # n
    <3>0. i # n + 1 /\ i + 1 \in 1..n /\ (i > 1 => i - 1 \in 1..n)
      BY <1>0, <2>2, SMTT(30)
    <3>1. /\ t[i] = s[i] /\ t[i + 1] = s[i + 1] /\ i # Len(t) /\ i # Len(s) /\ (i > 1 => t[i - 1] = s[i - 1])
      BY <1>1, <1>6, <2>2, <3>0
    <3> QED
      BY <2>2, <3>1 DEF CharAt
  <2> QED
    BY <2>1, <2>2
<1>8. CharAt(t, n + 1) = IF lead /\ b = "cont" THEN <<>> ELSE char
  <2>1. n + 1 = Len(t) /\ t[n + 1] = b /\ (n + 1 > 1 <=> n > 0) /\ (n + 1) - 1 = n /\ (n > 0 => t[n] = s[n])
    BY <1>1
  <2> QED
    BY <1>6, <2>1 DEF CharAt
<1>9. X \in Seq(Seq(Chars)) /\ Y \in Seq(Seq(Chars)) /\ Len(X) = n /\ Len(Y) = n + 1
  <2> DEFINE C == Seq(Chars)
  <2>1. \A i \in 1..n : X[i] \in C
    BY <1>3
  <2>2. \A i \in 1..(n + 1) : Y[i] \in C
    BY <1>3
  <2> HIDE DEF C
  <2>3. X \in [1..n -> C] /\ Y \in [1..(n + 1) -> C]
    BY <1>3 DEF C
  <2> HIDE DEF X, Y
  <2>4. X \in Seq(C) /\ Y \in Seq(C) /\ Len(X) = n /\ Len(Y) = n + 1
    BY <1>1, <2>3
  <2> QED
    BY <2>4 DEF C
<1> DEFINE u == CharAt(t, n + 1)
           front == SubSeq(Y, 1, n)
<1>10. /\ u \in Seq(Chars) /\ n + 1 \in 1..(n + 1) /\ (\A i \in 1..n : i \in 1..(n + 1))
       /\ Y[n + 1] = u
       /\ \A i \in 1..n : X[i] = CharAt(s, i) /\ Y[i] = CharAt(t, i)
  <2>1. n + 1 \in 1..(n + 1) /\ \A i \in 1..n : i \in 1..(n + 1)
    BY <1>1
  <2> QED
    BY <1>3, <2>1
<1> HIDE DEF X, Y, u
<1>11. /\ Text(t) = FlattenSeq(front) \o u /\ front \in Seq(Seq(Chars)) /\ FlattenSeq(front) \in Seq(Chars)
       /\ Len(front) = n /\ \A i \in 1..n : front[i] = Y[i]
  <2> DEFINE C == Seq(Chars)
  <2>1. Y \in Seq(C) /\ n + 1 <= Len(Y)
    BY <1>1, <1>9
  <2> HIDE DEF C
  <2>2. /\ front \in Seq(C) /\ Len(front) = n /\ (\A i \in 1..n : front[i] = Y[i])
        /\ Y = Append(front, Y[n + 1])
    BY <1>1, <1>9, <2>1, FrontOf
  <2> HIDE DEF front
  <2>3. Y = Append(front, u) /\ front \in Seq(Seq(Chars))
    BY <1>10, <2>2 DEF C
  <2> QED
    BY <1>4, <1>10, <2>2, <2>3, FlattenAppend
<1> HIDE DEF front
<1>12. Text(s) \in Seq(Chars)
  BY <1>4, <1>9, <1>10, FlattenAppend
<1>13. CASE ~lead
  <2>1. front = X
    <3>1. \A i \in 1..n : front[i] = X[i]
      BY <1>7, <1>10, <1>11, <1>13
    <3> QED
      BY <1>9, <1>11, <3>1, SeqEqual
  <2>2. u = char /\ bad = <<>>
    BY <1>8, <1>13 DEF u
  <2>3. Text(s) \o <<>> = Text(s)
    BY <1>12
  <2> HIDE DEF bad, char
  <2>4. Text(t) = (Text(s) \o bad) \o char
    BY <1>4, <1>11, <2>1, <2>2, <2>3, Zenon
  <2> QED
    BY <1>5, <1>12, <2>4 DEF bad, char, t, lead, n
<1>14. CASE lead
  <2> DEFINE m == n - 1
             first == SubSeq(front, 1, m)
             c == IF b = "cont" THEN <<"wide">> ELSE <<"?">>
  <2>0. n > 0 /\ n \in Nat
    BY <1>1, <1>6, <1>14
  <2>1. m \in Nat /\ m + 1 = n /\ n \in 1..n /\ (\A i \in 1..m : i \in 1..n /\ i # n) /\ m + 1 <= n
    BY <2>0
  <2>2. CharAt(s, n) = <<>> /\ CharAt(t, n) = c
    <3>1. CharAt(t, n) = c
      BY <1>7, <1>14, <2>1
    <3> QED
      BY <1>6, <1>14, <3>1 DEF CharAt
  <2>3. \A i \in 1..m : front[i] = X[i]
    BY <1>7, <1>10, <1>11, <2>1, ZenonT(30)
  <2>4. front[n] = c /\ X[n] = <<>>
    BY <1>10, <1>11, <2>1, <2>2
  <2>5. c \in Seq(Chars)
    <3>1. "wide" \in Chars /\ "?" \in Chars
      BY DEF Chars
    <3> QED
      BY <3>1
  <2> HIDE DEF m, c
  <2>6. front = Append(first, c) /\ X = Append(first, <<>>) /\ first \in Seq(Seq(Chars))
    <3> DEFINE C == Seq(Chars)
    <3>1. front \in Seq(C) /\ X \in Seq(C) /\ m + 1 <= Len(front) /\ m + 1 <= Len(X)
      BY <1>9, <1>11, <2>1
    <3> HIDE DEF C
    <3> DEFINE second == SubSeq(X, 1, m)
    <3>2. /\ first \in Seq(C) /\ Len(first) = m /\ (\A i \in 1..m : first[i] = front[i])
          /\ front = Append(first, front[n])
      BY <1>11, <2>1, <3>1, FrontOf
    <3>3. /\ second \in Seq(C) /\ Len(second) = m /\ (\A i \in 1..m : second[i] = X[i])
          /\ X = Append(second, X[n])
      BY <1>9, <2>1, <3>1, FrontOf, SMTT(30)
    <3> HIDE DEF first, second
    <3>4. second = first
      BY <2>3, <3>2, <3>3, SeqEqual
    <3> QED
      BY <2>4, <3>2, <3>3, <3>4 DEF C
  <2> HIDE DEF first
  <2>7. FlattenSeq(first) \in Seq(Chars) /\ FlattenSeq(front) = FlattenSeq(first) \o c
    BY <2>5, <2>6, FlattenAppend
  <2>8. Text(s) = FlattenSeq(first)
    <3>1. FlattenSeq(X) = FlattenSeq(first) \o <<>>
      <4>1. <<>> \in Seq(Chars)
        OBVIOUS
      <4> QED
        BY <2>6, <4>1, FlattenAppend
    <3>2. FlattenSeq(first) \o <<>> = FlattenSeq(first)
      BY <2>7
    <3> QED
      BY <1>4, <3>1, <3>2
  <2>9. Text(t) = (Text(s) \o c) \o u
    BY <1>11, <2>7, <2>8
  <2>10. CASE b = "cont"
    <3>1. c = char /\ u = <<>> /\ bad = <<>>
      BY <1>8, <1>14, <2>10 DEF u, c
    <3>2. Text(s) \o bad = Text(s) /\ (Text(s) \o char) \o <<>> = Text(s) \o char
      BY <1>5, <1>12, <3>1
    <3> HIDE DEF char, bad
    <3>3. Text(t) = (Text(s) \o bad) \o char
      BY <2>9, <3>1, <3>2
    <3> QED
      BY <1>5, <1>12, <3>3 DEF bad, char, t, lead, n
  <2>11. CASE b # "cont"
    <3>1. c = bad /\ u = char
      BY <1>8, <1>14, <2>11 DEF u, c
    <3> HIDE DEF char, bad
    <3>3. Text(t) = (Text(s) \o bad) \o char
      BY <2>9, <3>1
    <3> QED
      BY <1>5, <1>12, <3>3 DEF bad, char, t, lead, n
  <2> QED
    BY <2>10, <2>11
<1> QED
  BY <1>13, <1>14

(* The transformations do the same to a text as to its parts.               *)
LEMMA FlattenJoin ==
  ASSUME NEW S, NEW x \in Seq(Seq(S)), NEW y \in Seq(Seq(S))
  PROVE  FlattenSeq(x \o y) = FlattenSeq(x) \o FlattenSeq(y) /\ FlattenSeq(x) \in Seq(S)
<1> DEFINE C == Seq(S)
           part(n) == SubSeq(y, 1, n)
           T == {n \in Nat : n <= Len(y) =>
                   FlattenSeq(x \o part(n)) = FlattenSeq(x) \o FlattenSeq(part(n))}
<1>1. x \in Seq(C) /\ y \in Seq(C) /\ Len(y) \in Nat /\ FlattenSeq(x) \in Seq(S)
  BY FlattenAppend, EmptySeq
<1>2. 0 \in T
  <2>1. part(0) = <<>> /\ x \o <<>> = x /\ FlattenSeq(x) \o <<>> = FlattenSeq(x)
    BY <1>1
  <2> HIDE DEF part
  <2> QED
    BY <2>1, FlattenNone
<1>3. ASSUME NEW n \in Nat, n \in T PROVE n + 1 \in T
  <2> SUFFICES ASSUME n + 1 <= Len(y)
               PROVE  FlattenSeq(x \o part(n + 1)) = FlattenSeq(x) \o FlattenSeq(part(n + 1))
    OBVIOUS
  <2> DEFINE c == y[n + 1]
             p == part(n)
  <2>1. n <= Len(y) /\ n + 1 \in 1..Len(y)
    BY <1>1
  <2>2. FlattenSeq(x \o p) = FlattenSeq(x) \o FlattenSeq(p)
    BY <1>3, <2>1
  <2>3. c \in C /\ p \in Seq(C) /\ part(n + 1) = Append(p, c)
    <3>1. c \in C
      <4> HIDE DEF C
      <4> QED
        BY <1>1, <2>1
    <3> HIDE DEF C
    <3> QED
      BY <1>1, <3>1, FrontOf
  <2> HIDE DEF C, p, c, part, T
  <2>4. x \o Append(p, c) = Append(x \o p, c) /\ x \o p \in Seq(C)
    BY <1>1, <2>3, AppendLater, ConcatProperties, SMTT(30)
  <2>5. /\ FlattenSeq(Append(x \o p, c)) = FlattenSeq(x \o p) \o c
        /\ FlattenSeq(Append(p, c)) = FlattenSeq(p) \o c /\ FlattenSeq(p) \in Seq(S)
    BY <2>3, <2>4, FlattenAppend DEF C
  <2>6. (FlattenSeq(x) \o FlattenSeq(p)) \o c = FlattenSeq(x) \o (FlattenSeq(p) \o c)
    <3>1. Groups(S)
      BY Grouping
    <3>2. c \in Seq(S)
      BY <2>3 DEF C
    <3> QED
      BY <1>1, <2>5, <3>1, <3>2, Zenon DEF Groups
  <2> QED
    BY <2>2, <2>3, <2>4, <2>5, <2>6, Zenon
<1> HIDE DEF T
<1>4. Len(y) \in T
  BY <1>1, <1>2, <1>3, Induction
<1>5. part(Len(y)) = y
  OBVIOUS
<1> HIDE DEF part
<1> DEFINE m == Len(y)
<1>6. m \in Nat /\ m <= m
  BY <1>1
<1>7. FlattenSeq(x \o part(m)) = FlattenSeq(x) \o FlattenSeq(part(m))
  <2> HIDE DEF m
  <2> QED
    BY <1>4, <1>6 DEF T, m
<1> QED
  BY <1>1, <1>5, <1>7

Glyphs == Chars \union {"picture", "number", "sp", "lf"}

LEMMA GlyphTypes == ASSUME NEW name, NEW c \in Glyphs PROVE Transformation(name, c) \in Seq(Glyphs)
<1>1. /\ "picture" \in Glyphs /\ "number" \in Glyphs /\ "sp" \in Glyphs /\ "lf" \in Glyphs
  BY DEF Glyphs
<1>2. (\A g \in Glyphs : <<g>> \in Seq(Glyphs)) /\ \A g, h \in Glyphs : <<g, h>> \in Seq(Glyphs)
  OBVIOUS
<1> QED
  BY <1>1, <1>2 DEF Transformation, NoTerminal, NoControls, Printable, CRrx, Unchanged

LEMMA TransformedJoins ==
  ASSUME NEW name, NEW a \in Seq(Glyphs), NEW b \in Seq(Glyphs)
  PROVE  /\ Transformed(name, a) \in Seq(Glyphs)
         /\ Transformed(name, a \o b) = Transformed(name, a) \o Transformed(name, b)
<1> DEFINE C == Seq(Glyphs)
           F(x) == [i \in DOMAIN x |-> Transformation(name, x[i])]
<1>1. ASSUME NEW x \in Seq(Glyphs) PROVE F(x) \in Seq(C) /\ Len(F(x)) = Len(x)
  <2>1. Len(x) \in Nat /\ DOMAIN x = 1..Len(x) /\ \A i \in 1..Len(x) : x[i] \in Glyphs
    OBVIOUS
  <2>2. \A i \in 1..Len(x) : Transformation(name, x[i]) \in C
    BY <2>1, GlyphTypes
  <2> HIDE DEF C
  <2>3. F(x) \in [1..Len(x) -> C]
    BY <2>1, <2>2
  <2> HIDE DEF F
  <2> QED
    BY <2>1, <2>3
<1>2. a \o b \in Seq(Glyphs) /\ Len(a) \in Nat /\ Len(b) \in Nat /\ Len(a \o b) = Len(a) + Len(b)
      /\ \A i \in 1..(Len(a) + Len(b)) : (a \o b)[i] = IF i <= Len(a) THEN a[i] ELSE b[i - Len(a)]
  BY ConcatProperties
<1>3. F(a \o b) = F(a) \o F(b)
  <2>1. F(a) \in Seq(C) /\ F(b) \in Seq(C) /\ F(a \o b) \in Seq(C)
        /\ Len(F(a)) = Len(a) /\ Len(F(b)) = Len(b) /\ Len(F(a \o b)) = Len(a) + Len(b)
    BY <1>1, <1>2
  <2>2. /\ \A i \in 1..Len(a) : F(a)[i] = Transformation(name, a[i])
        /\ \A i \in 1..Len(b) : F(b)[i] = Transformation(name, b[i])
        /\ \A i \in 1..(Len(a) + Len(b)) : F(a \o b)[i] = Transformation(name, (a \o b)[i])
    <3>1. DOMAIN a = 1..Len(a) /\ DOMAIN b = 1..Len(b)
      OBVIOUS
    <3>2. DOMAIN (a \o b) = 1..(Len(a) + Len(b))
      <4> DEFINE ab == a \o b
      <4>1. ab \in Seq(Glyphs) /\ Len(ab) = Len(a) + Len(b)
        BY <1>2
      <4> HIDE DEF ab
      <4>2. DOMAIN ab = 1..(Len(a) + Len(b))
        BY <4>1
      <4> QED
        BY <4>2 DEF ab
    <3> QED
      BY <3>1, <3>2, Zenon
  <2> HIDE DEF C, F
  <2>3. /\ F(a) \o F(b) \in Seq(C) /\ Len(F(a) \o F(b)) = Len(a) + Len(b)
        /\ \A i \in 1..(Len(a) + Len(b)) : (F(a) \o F(b))[i] = IF i <= Len(a) THEN F(a)[i] ELSE F(b)[i - Len(a)]
    <3>1. /\ F(a) \o F(b) \in Seq(C) /\ Len(F(a) \o F(b)) = Len(F(a)) + Len(F(b))
          /\ \A i \in 1..(Len(F(a)) + Len(F(b))) :
               (F(a) \o F(b))[i] = IF i <= Len(F(a)) THEN F(a)[i] ELSE F(b)[i - Len(F(a))]
      BY <2>1, ConcatProperties
    <3> QED
      BY <2>1, <3>1, Zenon
  <2>4. ASSUME NEW i \in 1..(Len(a) + Len(b)) PROVE F(a \o b)[i] = (F(a) \o F(b))[i]
    <3>1. CASE i <= Len(a)
      <4>1. i \in 1..Len(a)
        BY <1>2, <3>1
      <4> QED
        BY <1>2, <2>2, <2>3, <3>1, <4>1
    <3>2. CASE ~(i <= Len(a))
      <4>1. i - Len(a) \in 1..Len(b)
        BY <1>2, <3>2
      <4> QED
        BY <1>2, <2>2, <2>3, <3>2, <4>1
    <3> QED
      BY <3>1, <3>2
  <2> QED
    BY <2>1, <2>3, <2>4, SeqEqual
<1>4. F(a) \in Seq(C) /\ F(b) \in Seq(C)
  BY <1>1
<1>5. /\ Transformed(name, a) = FlattenSeq(F(a)) /\ Transformed(name, b) = FlattenSeq(F(b))
      /\ Transformed(name, a \o b) = FlattenSeq(F(a \o b))
  BY DEF Transformed
<1> HIDE DEF F
<1>6. FlattenSeq(F(a) \o F(b)) = FlattenSeq(F(a)) \o FlattenSeq(F(b)) /\ FlattenSeq(F(a)) \in Seq(Glyphs)
  BY <1>4, FlattenJoin
<1> QED
  BY <1>3, <1>5, <1>6, Zenon

Stages(f, text, n) ==
  f = [i \in 0..n |-> IF i = 0 THEN text ELSE Transformed(rx_transformations[i], f[i - 1])]
LEMMA StagesOne ==
  ASSUME NEW f, NEW first, NEW n \in Nat, Stages(f, first, n), NEW i \in 0..n
  PROVE  f[i] = IF i = 0 THEN first ELSE Transformed(rx_transformations[i], f[i - 1])
BY Zenon DEF Stages

LEMMA StagesMore ==
  ASSUME NEW first, NEW n \in Nat, NEW f, Stages(f, first, n)
  PROVE  \E g : Stages(g, first, n + 1)
<1> DEFINE next == Transformed(rx_transformations[n + 1], f[n])
           g == [i \in 0..(n + 1) |-> IF i = n + 1 THEN next ELSE f[i]]
           h == [i \in 0..(n + 1) |-> IF i = 0 THEN first ELSE Transformed(rx_transformations[i], g[i - 1])]
<1>1. ASSUME NEW i \in 0..(n + 1) PROVE g[i] = h[i]
  <2>1. h[i] = IF i = 0 THEN first ELSE Transformed(rx_transformations[i], g[i - 1])
    BY Zenon
  <2>2. CASE i = n + 1
    <3>1. g[i] = next /\ i # 0 /\ i - 1 = n /\ i - 1 \in 0..(n + 1) /\ i - 1 # n + 1
      BY <2>2
    <3>2. g[i - 1] = f[n]
      BY <3>1
    <3> HIDE DEF g, h
    <3> QED
      BY <2>1, <2>2, <3>1, <3>2
  <2>3. CASE i # n + 1
    <3>1. i \in 0..n /\ (i # 0 => i - 1 \in 0..(n + 1) /\ i - 1 # n + 1)
      BY <2>3
    <3>2. g[i] = f[i] /\ (i # 0 => g[i - 1] = f[i - 1])
      BY <2>3, <3>1
    <3>3. f[i] = IF i = 0 THEN first ELSE Transformed(rx_transformations[i], f[i - 1])
      BY <3>1, StagesOne
    <3> HIDE DEF g, h
    <3> QED
      BY <2>1, <3>2, <3>3
  <2> QED
    BY <2>2, <2>3
<1>2. g = h
  <2>1. g = [i \in 0..(n + 1) |-> g[i]]
    OBVIOUS
  <2>2. h = [i \in 0..(n + 1) |-> h[i]]
    <3> HIDE DEF g
    <3> QED
      BY Zenon
  <2> HIDE DEF g, h
  <2> QED
    BY <1>1, <2>1, <2>2, Zenon
<1>3. Stages(g, first, n + 1)
  BY <1>2, Zenon DEF Stages
<1> QED
  BY <1>3

LEMMA StagesExist ==
  ASSUME NEW first, NEW n \in Nat
  PROVE  \E f : Stages(f, first, n)
<1> DEFINE T == {k \in Nat : \E f : Stages(f, first, k)}
<1>1. 0 \in T
  <2> DEFINE f == [i \in 0..0 |-> first]
  <2>1. f = [i \in 0..0 |-> IF i = 0 THEN first ELSE Transformed(rx_transformations[i], f[i - 1])]
    OBVIOUS
  <2>2. Stages(f, first, 0)
    BY <2>1, Zenon DEF Stages
  <2> QED
    BY <2>2
<1>2. ASSUME NEW k \in Nat, k \in T PROVE k + 1 \in T
  BY <1>2, StagesMore
<1> HIDE DEF T
<1>3. n \in T
  BY <1>1, <1>2, Induction
<1> QED
  BY <1>3 DEF T

LEMMA ShownSteps ==
  ASSUME NEW text, Len(setup.chain) \in Nat
  PROVE  \E f : /\ f[0] = text /\ Shown(text) = f[Len(setup.chain)]
                /\ \A n \in 0..(Len(setup.chain) - 1) : f[n + 1] = Transformed(rx_transformations[n + 1], f[n])
<1> DEFINE f == CHOOSE x : Stages(x, text, Len(setup.chain))
<1>1. Stages(f, text, Len(setup.chain))
  <2>1. \E x : Stages(x, text, Len(setup.chain))
    BY StagesExist, Zenon
  <2> QED
    BY <2>1, Zenon
<1>2. Shown(text) = f[Len(setup.chain)]
  BY Zenon DEF Shown, Stages
<1> HIDE DEF f
<1>3. f[0] = text
  <2>1. 0 \in 0..Len(setup.chain)
    OBVIOUS
  <2> QED
    BY <1>1, <2>1, StagesOne
<1>4. ASSUME NEW n \in 0..(Len(setup.chain) - 1) PROVE f[n + 1] = Transformed(rx_transformations[n + 1], f[n])
  <2>1. n + 1 \in 0..Len(setup.chain) /\ n + 1 # 0 /\ (n + 1) - 1 = n
    OBVIOUS
  <2> QED
    BY <1>1, <2>1, StagesOne, SMTT(30)
<1> QED
  BY <1>2, <1>3, <1>4

LEMMA ShownJoins ==
  ASSUME Len(setup.chain) \in Nat, NEW a \in Seq(Glyphs), NEW b \in Seq(Glyphs)
  PROVE  /\ Shown(a) \in Seq(Glyphs) /\ Shown(a \o b) = Shown(a) \o Shown(b)
<1> DEFINE k == Len(setup.chain)
<1>1. PICK f : /\ f[0] = a /\ Shown(a) = f[k]
               /\ \A n \in 0..(k - 1) : f[n + 1] = Transformed(rx_transformations[n + 1], f[n])
  BY ShownSteps
<1>2. PICK g : /\ g[0] = b /\ Shown(b) = g[k]
               /\ \A n \in 0..(k - 1) : g[n + 1] = Transformed(rx_transformations[n + 1], g[n])
  BY ShownSteps
<1>3. PICK h : /\ h[0] = a \o b /\ Shown(a \o b) = h[k]
               /\ \A n \in 0..(k - 1) : h[n + 1] = Transformed(rx_transformations[n + 1], h[n])
  BY ShownSteps
<1>6. k \in Nat /\ k <= k
  OBVIOUS
<1> HIDE DEF k
<1> DEFINE J(n) == f[n] \in Seq(Glyphs) /\ g[n] \in Seq(Glyphs) /\ h[n] = f[n] \o g[n]
           T == {n \in Nat : n <= k => J(n)}
<1>4. 0 \in T
  BY <1>1, <1>2, <1>3
<1>5. ASSUME NEW n \in Nat, n \in T PROVE n + 1 \in T
  <2> SUFFICES ASSUME n + 1 <= k PROVE J(n + 1)
    <3> HIDE DEF J
    <3> QED
      OBVIOUS
  <2>1. n <= k /\ n \in 0..(k - 1)
    BY <1>6
  <2>2. f[n] \in Seq(Glyphs) /\ g[n] \in Seq(Glyphs) /\ h[n] = f[n] \o g[n]
    BY <1>5, <2>1
  <2> HIDE DEF T
  <2> DEFINE name == rx_transformations[n + 1]
  <2>3. /\ f[n + 1] = Transformed(name, f[n]) /\ g[n + 1] = Transformed(name, g[n])
        /\ h[n + 1] = Transformed(name, h[n])
    BY <1>1, <1>2, <1>3, <2>1
  <2> HIDE DEF name
  <2>4. /\ Transformed(name, f[n]) \in Seq(Glyphs) /\ Transformed(name, g[n]) \in Seq(Glyphs)
        /\ Transformed(name, f[n] \o g[n]) = Transformed(name, f[n]) \o Transformed(name, g[n])
    BY <2>2, TransformedJoins
  <2> QED
    BY <2>2, <2>3, <2>4, Zenon
<1> HIDE DEF T
<1>7. k \in T
  BY <1>4, <1>5, <1>6, Induction
<1>8. f[k] \in Seq(Glyphs) /\ h[k] = f[k] \o g[k]
  BY <1>6, <1>7 DEF T
<1> QED
  BY <1>1, <1>2, <1>3, <1>8

LEMMA NothingShown ==
  ASSUME Len(setup.chain) \in Nat
  PROVE  Text(<<>>) = <<>> /\ Shown(<<>>) = <<>>
<1>1. Text(<<>>) = <<>>
  <2>1. [i \in DOMAIN <<>> |-> CharAt(<<>>, i)] = <<>>
    OBVIOUS
  <2> QED
    BY <2>1, FlattenNone, Zenon DEF Text
<1>2. Shown(<<>>) = <<>>
  <2> DEFINE e == Shown(<<>>)
  <2>1. e \in Seq(Glyphs) /\ e = e \o e
    <3>1. <<>> \in Seq(Glyphs) /\ <<>> \o <<>> = <<>>
      OBVIOUS
    <3>2. e \in Seq(Glyphs) /\ Shown(<<>> \o <<>>) = e \o e
      BY <3>1, ShownJoins
    <3> QED
      BY <3>1, <3>2
  <2> HIDE DEF e
  <2>2. Len(e) = Len(e) + Len(e) /\ Len(e) \in Nat
    BY <2>1, ConcatProperties
  <2>3. Len(e) = 0
    BY <2>2
  <2>4. e = <<>>
    BY <2>1, <2>3
  <2> QED
    BY <2>4 DEF e
<1> QED
  BY <1>1, <1>2

LEMMA TextTurn ==
  ASSUME NEW w, NEW h, NEW s, TextGood(w, h, s), NEW b \in setup.bytes, NEW o \in Seq(Chars), NEW p
  PROVE  \E x \in Seq(Chars) : \E e, i :
           DecodedByte(Result(o, h, p), b) = Result(o \o x, e, i) /\ TextGood(w \o x, e, Append(s, b))
<1> DEFINE B == setup.bytes
           t == Append(s, b)
           lead == EndsInLead(s)
           bad == IF lead /\ b # "cont" THEN <<"?">> ELSE <<>>
           char == IF b = "lead" THEN <<>>
                   ELSE IF b = "cont" THEN IF lead THEN <<"wide">> ELSE <<"?">>
                   ELSE <<b>>
           x == bad \o char
           e == IF b = "lead" THEN <<b>> ELSE <<>>
<1>1. s \in Seq(B) /\ w \in Seq(Chars) /\ w = Text(s) /\ (h # <<>> <=> lead) /\ b \in B
  BY DEF TextGood
<1>2. Text(t) = (w \o bad) \o char /\ bad \in Seq(Chars) /\ char \in Seq(Chars)
  BY <1>1, TextNext
<1>3. /\ x \in Seq(Chars) /\ (w \o bad) \o char = w \o x /\ (o \o bad) \o char = o \o x
      /\ w \o x \in Seq(Chars)
  <2>1. Groups(Chars)
    BY Grouping
  <2> HIDE DEF bad, char
  <2>2. x \in Seq(Chars)
    BY <1>2, ConcatProperties
  <2>3. w \o x \in Seq(Chars)
    BY <1>1, <2>2, ConcatProperties
  <2>4. (w \o bad) \o char = w \o x /\ (o \o bad) \o char = o \o x
    <3>1. w \in Seq(Chars) /\ o \in Seq(Chars) /\ bad \in Seq(Chars) /\ char \in Seq(Chars)
      <4>1. w \in Seq(Chars)
        BY <1>1
      <4>2. bad \in Seq(Chars) /\ char \in Seq(Chars)
        BY <1>2, Zenon
      <4> QED
        BY <4>1, <4>2
    <3>2. (w \o bad) \o char = w \o (bad \o char)
      BY <2>1, <3>1, ZenonT(30) DEF Groups
    <3>3. (o \o bad) \o char = o \o (bad \o char)
      BY <2>1, <3>1, Zenon DEF Groups
    <3> QED
      BY <3>2, <3>3
  <2> QED
    BY <2>2, <2>3, <2>4
<1>4. t \in Seq(B) /\ Len(t) > 0 /\ t[Len(t)] = b
  <2> HIDE DEF B
  <2>1. Len(s) \in Nat /\ t \in Seq(B) /\ Len(t) = Len(s) + 1 /\ t[Len(s) + 1] = b
    BY <1>1, Appended
  <2> QED
    BY <2>1
<1>5. TextGood(w \o x, e, t)
  <2>1. EndsInLead(t) <=> b = "lead"
    BY <1>4 DEF EndsInLead
  <2>2. e = IF EndsInLead(t) THEN <<"lead">> ELSE <<>>
    BY <2>1
  <2> HIDE DEF x, e, t
  <2> QED
    BY <1>2, <1>3, <1>4, <2>2 DEF TextGood
<1>6. DecodedByte(Result(o, h, p), b) = Result((o \o bad) \o char, e, FALSE)
  <2>1. Result(o, h, p).output = o /\ Result(o, h, p).held = h
    BY DEF Result
  <2>2. o \o <<>> = o /\ (\A c \in Chars : Append(o, c) = o \o <<c>>) /\ \A y \in Seq(Chars) : y \o <<>> = y
    BY AppendIsConcat
  <2>3. "wide" \in Chars /\ "?" \in Chars
    BY DEF Chars
  <2>4. CASE b = "cont"
    BY <1>1, <2>1, <2>2, <2>3, <2>4 DEF DecodedByte
  <2>5. CASE b = "lead"
    <3>1. (o \o bad) \o char = o \o bad
      BY <1>2, <2>2, <2>5
    <3> QED
      BY <1>1, <2>1, <2>5, <3>1 DEF DecodedByte
  <2>6. CASE b \notin {"cont", "lead"}
    BY <1>1, <2>1, <2>6 DEF DecodedByte
  <2> QED
    BY <2>4, <2>5, <2>6
<1> HIDE DEF x, e
<1> QED
  BY <1>3, <1>5, <1>6
-----------------------------------------------------------------------------
(* A byte, in each of the decoders: what it puts out is the same whatever    *)
(* was put out before.                                                     *)
LEMMA ResultFields ==
  ASSUME NEW o, NEW h, NEW p
  PROVE  /\ Result(o, h, p).output = o /\ Result(o, h, p).held = h /\ Result(o, h, p).in_packet = p
         /\ \A x : /\ [Result(o, h, p) EXCEPT !.held = x] = Result(o, x, p)
                   /\ [Result(o, h, p) EXCEPT !.in_packet = x] = Result(o, h, x)
BY DEF Result

LEMMA PutOut ==
  ASSUME NEW S, NEW o \in Seq(S), NEW c \in S
  PROVE  <<>> \in Seq(S) /\ o \o <<>> = o /\ <<c>> \in Seq(S) /\ Append(o, c) = o \o <<c>>
<1>1. Append(o, c) = o \o <<c>>
  BY AppendIsConcat
<1> QED
  BY <1>1

LEMMA FramedTurn ==
  ASSUME NEW w, NEW h, NEW p, NEW s, FramedGood(w, h, p, s), NEW b \in setup.bytes,
         NEW o \in Seq(Seq(setup.bytes))
  PROVE  \E x \in Seq(Seq(setup.bytes)) : \E e, i :
           Framed(Result(o, h, p), b) = Result(o \o x, e, i) /\ FramedGood(w \o x, e, i, Append(s, b))
<1> DEFINE C == Seq(setup.bytes)
           r == Result(o, h, p)
           t == Append(s, b)
<1>1. w \in Seq(C) /\ h \in C /\ o \in Seq(C) /\ p \in BOOLEAN
  BY DEF FramedGood, Opened
<1>2. /\ r.output = o /\ r.held = h /\ r.in_packet = p
      /\ \A y : [r EXCEPT !.held = y] = Result(o, y, p) /\ [r EXCEPT !.in_packet = y] = Result(o, h, y)
  BY ResultFields
<1>3. /\ b = "(" => FramedGood(w, h, TRUE, t)
      /\ b = ")" => FramedGood(Append(w, h), <<>>, FALSE, t)
      /\ b \notin {"(", ")"} => FramedGood(w, IF p THEN Append(h, b) ELSE h, p, t)
  BY FramedByte
<1>4. r = Result(o, h, p)
  OBVIOUS
<1> HIDE DEF C, r, t
<1>5. /\ <<>> \in Seq(C) /\ <<h>> \in Seq(C) /\ o \o <<>> = o /\ w \o <<>> = w
      /\ Append(o, h) = o \o <<h>> /\ Append(w, h) = w \o <<h>>
  BY <1>1, PutOut
<1>6. CASE b = "("
  <2>1. Framed(r, b) = Result(o \o <<>>, h, TRUE)
    BY <1>2, <1>5, <1>6 DEF Framed
  <2>2. FramedGood(w \o <<>>, h, TRUE, t)
    BY <1>3, <1>5, <1>6
  <2> QED
    BY <1>5, <2>1, <2>2 DEF C, r, t
<1>7. CASE b = ")"
  <2>0. b # "("
    BY <1>7
  <2>1. Framed(r, b) = Result(o \o <<h>>, <<>>, FALSE)
    BY <1>2, <1>5, <1>7, <2>0 DEF Framed
  <2>2. FramedGood(w \o <<h>>, <<>>, FALSE, t)
    BY <1>3, <1>5, <1>7
  <2> QED
    BY <1>5, <2>1, <2>2 DEF C, r, t
<1>8. CASE b \notin {"(", ")"}
  <2> DEFINE e == IF p THEN Append(h, b) ELSE h
  <2>1. Framed(r, b) = IF p THEN [r EXCEPT !.held = Append(h, b)] ELSE r
    BY <1>2, <1>8, Zenon DEF Framed
  <2>2. Framed(r, b) = Result(o \o <<>>, e, p)
    BY <1>2, <1>4, <1>5, <2>1
  <2>3. FramedGood(w \o <<>>, e, p, t)
    BY <1>3, <1>5, <1>8
  <2> HIDE DEF e
  <2> QED
    BY <1>5, <2>2, <2>3 DEF C, r, t
<1> QED
  BY <1>6, <1>7, <1>8

LEMMA HexTurn ==
  ASSUME NEW w, NEW h, NEW s, HexGood(w, h, s), NEW b \in setup.bytes, NEW o \in Seq(Nat), NEW p
  PROVE  \E x \in Seq(Nat) : \E e, i :
           Hexlify(Result(o, h, p), b) = Result(o \o x, e, i) /\ HexGood(w \o x, e, Append(s, b))
<1> DEFINE r == Result(o, h, p)
           t == Append(s, b)
           H == Range(HexDigits)
           v == Index(b) + Head(h)
<1>1. w \in Seq(Nat) /\ o \in Seq(Nat)
  BY DEF HexGood
<1>2. r.output = o /\ r.held = h /\ \A y : [r EXCEPT !.held = y] = Result(o, y, p)
  BY ResultFields
<1>3. /\ b \in H => IF h # <<>> THEN HexGood(Append(w, v), <<>>, t) ELSE HexGood(w, State(Index(b)), t)
      /\ b = " " => HexGood(w, <<>>, t)
      /\ b \notin H \union {" "} => HexGood(w, h, t)
  BY HexByte
<1>4. r = Result(o, h, p) /\ H = Range(HexDigits) /\ v = Index(b) + Head(h) /\ " " \notin H
  BY SpaceNoDigit
<1>5. h # <<>> => v \in Nat
  <2> SUFFICES ASSUME h # <<>> PROVE v \in Nat
    OBVIOUS
  <2>1. \A c : Index(c) \in Nat
    BY DEF Index
  <2>2. PICK c : h = <<16 * Index(c)>>
    BY Zenon DEF HexGood, State
  <2>3. Head(h) = 16 * Index(c)
    BY <2>2
  <2> QED
    BY <2>1, <2>3
<1> HIDE DEF r, t, H, v
<1>6. <<>> \in Seq(Nat) /\ o \o <<>> = o /\ w \o <<>> = w
  BY <1>1
<1>7. CASE b \in H /\ h # <<>>
  <2>1. <<v>> \in Seq(Nat) /\ Append(o, v) = o \o <<v>> /\ Append(w, v) = w \o <<v>>
    BY <1>1, <1>5, <1>7, PutOut
  <2>2. Hexlify(r, b) = Result(o \o <<v>>, <<>>, FALSE)
    BY <1>2, <1>4, <1>7, <2>1, Zenon DEF Hexlify
  <2>3. HexGood(w \o <<v>>, <<>>, t)
    BY <1>3, <1>7, <2>1
  <2> QED
    BY <2>1, <2>2, <2>3 DEF r, t
<1>8. CASE b \in H /\ h = <<>>
  <2> DEFINE e == State(Index(b))
  <2>1. Hexlify(r, b) = Result(o \o <<>>, e, p)
    BY <1>2, <1>4, <1>6, <1>8, Zenon DEF Hexlify
  <2>2. HexGood(w \o <<>>, e, t)
    BY <1>3, <1>6, <1>8
  <2> HIDE DEF e
  <2> QED
    BY <1>6, <2>1, <2>2 DEF r, t
<1>9. CASE b = " "
  <2>1. Hexlify(r, b) = Result(o \o <<>>, <<>>, p)
    BY <1>2, <1>4, <1>6, <1>9, Zenon DEF Hexlify
  <2>2. HexGood(w \o <<>>, <<>>, t)
    BY <1>3, <1>6, <1>9
  <2> QED
    BY <1>6, <2>1, <2>2 DEF r, t
<1>10. CASE b \notin H \union {" "}
  <2>1. Hexlify(r, b) = Result(o \o <<>>, h, p)
    BY <1>4, <1>6, <1>10, Zenon DEF Hexlify
  <2>2. HexGood(w \o <<>>, h, t)
    BY <1>3, <1>6, <1>10
  <2> QED
    BY <1>6, <2>1, <2>2 DEF r, t
<1> QED
  BY <1>7, <1>8, <1>9, <1>10
-----------------------------------------------------------------------------
(* The lines of read_until.  What has been read, put in lines and   *)
(* the beginning of the next one: no line goes on after its end.            *)
Ended(line) == IsSuffix(setup.terminator, line)
LongEnough(line) == setup.size # 0 /\ Len(line) >= setup.size
OnlyLastEnds(line) ==
  /\ \A n \in 1..(Len(line) - 1) : ~Ended(SubSeq(line, 1, n))
  /\ setup.size # 0 => Len(line) <= setup.size
EndsSomehow(lines, k, times) ==
  \/ Len(FlattenSeq(SubSeq(lines, 1, k))) \in times
  \/ Ended(lines[k])
  \/ Len(lines[k]) = setup.size
Lines(lines, rest, read, times) ==
  /\ lines \in Seq(Seq(setup.bytes)) /\ rest \in Seq(setup.bytes) /\ read \in Seq(setup.bytes)
  /\ FlattenSeq(lines) \o rest = read
  /\ OnlyLastEnds(rest) /\ ~Ended(rest) /\ ~LongEnough(rest)
  /\ \A k \in DOMAIN lines : OnlyLastEnds(lines[k]) /\ EndsSomehow(lines, k, times)
Reader == setup.terminator \in Seq(setup.bytes) \ {<<>>} /\ setup.size \in Nat

LEMMA NothingEndsEmpty ==
  ASSUME Reader
  PROVE  ~Ended(<<>>) /\ ~LongEnough(<<>>) /\ OnlyLastEnds(<<>>)
<1>1. Len(setup.terminator) # 0 /\ Len(setup.terminator) \in Nat
  BY DEF Reader
<1>2. ~Ended(<<>>)
  BY <1>1 DEF Ended, IsSuffix, IsPrefix, Reverse
<1>3. Len(<<>>) = 0 /\ setup.size \in Nat
  BY DEF Reader
<1> QED
  BY <1>2, <1>3 DEF LongEnough, OnlyLastEnds

(* A line that is complete, with the bytes that complete it.                *)
LEMMA LineAdded ==
  ASSUME Reader, NEW lines, NEW rest, NEW read, NEW times, Lines(lines, rest, read, times),
         NEW more \in Seq(setup.bytes), NEW later, times \subseteq later,
         OnlyLastEnds(rest \o more),
         Len(read \o more) \in later \/ Ended(rest \o more) \/ Len(rest \o more) = setup.size
  PROVE  Lines(Append(lines, rest \o more), <<>>, read \o more, later)
<1> DEFINE line == rest \o more
           B == setup.bytes
           longer == Append(lines, line)
<1>1. lines \in Seq(Seq(B)) /\ rest \in Seq(B) /\ read \in Seq(B) /\ more \in Seq(B) /\ line \in Seq(B)
  BY DEF Lines
<1>2. FlattenSeq(lines) \in Seq(B) /\ FlattenSeq(longer) = FlattenSeq(lines) \o line
  BY <1>1, FlattenAppend
<1>3. FlattenSeq(longer) = read \o more
  <2> DEFINE f == FlattenSeq(lines)
  <2>1. f \in Seq(B) /\ rest \in Seq(B) /\ more \in Seq(B)
    BY <1>1, <1>2
  <2>2. (f \o rest) \o more = f \o (rest \o more)
    <3>1. Groups(B)
      BY Grouping
    <3> HIDE DEF f, B
    <3> QED
      BY <2>1, <3>1, Zenon DEF Groups
  <2>3. f \o rest = read
    BY DEF Lines
  <2> QED
    BY <1>2, <2>2, <2>3
<1>4. read \o more \in Seq(B) /\ (read \o more) \o <<>> = read \o more
  BY <1>1, ConcatEmptySeq, ConcatProperties
<1>5. /\ longer \in Seq(Seq(B)) /\ Len(longer) = Len(lines) + 1 /\ Len(lines) \in Nat
      /\ longer[Len(lines) + 1] = line /\ SubSeq(longer, 1, Len(lines) + 1) = longer
      /\ \A k \in 1..Len(lines) : longer[k] = lines[k] /\ SubSeq(longer, 1, k) = SubSeq(lines, 1, k)
  BY <1>1
<1> HIDE DEF line, longer, B
<1>6. ASSUME NEW k \in DOMAIN longer
      PROVE  OnlyLastEnds(longer[k]) /\ EndsSomehow(longer, k, later)
  <2>1. CASE k = Len(lines) + 1
    <3>1. longer[k] = line /\ SubSeq(longer, 1, k) = longer
      BY <1>5, <2>1
    <3> QED
      BY <1>3, <3>1 DEF EndsSomehow, line
  <2>2. CASE k \in 1..Len(lines)
    <3>1. longer[k] = lines[k] /\ SubSeq(longer, 1, k) = SubSeq(lines, 1, k)
      BY <1>5, <2>2
    <3>2. k \in DOMAIN lines
      BY <1>1, <2>2
    <3>3. OnlyLastEnds(lines[k]) /\ EndsSomehow(lines, k, times)
      BY <3>2 DEF Lines
    <3> QED
      BY <3>1, <3>3 DEF EndsSomehow
  <2> QED
    BY <1>5, <2>1, <2>2
<1>7. <<>> \in Seq(B)
  OBVIOUS
<1>8. FlattenSeq(longer) \o <<>> = read \o more
  BY <1>3, <1>4
<1> QED
  BY <1>4, <1>5, <1>6, <1>7, <1>8, NothingEndsEmpty DEF Lines, longer, line, B

(* A byte that ends nothing.                                                *)
LEMMA LineGoesOn ==
  ASSUME Reader, NEW lines, NEW rest, NEW read, NEW times, Lines(lines, rest, read, times),
         NEW c \in setup.bytes
  PROVE  /\ OnlyLastEnds(rest \o <<c>>) /\ Append(rest, c) = rest \o <<c>>
         /\ Len(rest \o <<c>>) = Len(rest) + 1
         /\ ~EndsLine(Append(rest, c)) => Lines(lines, Append(rest, c), read \o <<c>>, times)
<1> DEFINE B == setup.bytes
           line == Append(rest, c)
<1>1. lines \in Seq(Seq(B)) /\ rest \in Seq(B) /\ read \in Seq(B)
  BY DEF Lines
<1>2. /\ line \in Seq(B) /\ line = rest \o <<c>> /\ Len(line) = Len(rest) + 1 /\ Len(rest) \in Nat
      /\ \A n \in 1..Len(rest) : SubSeq(line, 1, n) = SubSeq(rest, 1, n)
      /\ SubSeq(rest, 1, Len(rest)) = rest
  BY <1>1
<1> HIDE DEF line
<1>3. OnlyLastEnds(line)
  <2>1. ASSUME NEW n \in 1..(Len(line) - 1) PROVE ~Ended(SubSeq(line, 1, n))
    <3>1. n \in 1..Len(rest) /\ SubSeq(line, 1, n) = SubSeq(rest, 1, n)
      BY <1>2
    <3>2. CASE n = Len(rest)
      BY <1>2, <3>1, <3>2 DEF Lines
    <3>3. CASE n # Len(rest)
      <4>1. n \in 1..(Len(rest) - 1)
        <5>1. Len(rest) \in Nat /\ n \in 1..Len(rest)
          BY <1>2, <3>1
        <5> QED
          BY <3>3, <5>1
      <4>2. \A i \in 1..(Len(rest) - 1) : ~Ended(SubSeq(rest, 1, i))
        BY DEF Lines, OnlyLastEnds
      <4> QED
        BY <3>1, <4>1, <4>2
    <3> QED
      BY <3>2, <3>3
  <2>2. setup.size # 0 => Len(line) <= setup.size
    BY <1>2 DEF Lines, LongEnough, Reader
  <2> QED
    BY <2>1, <2>2 DEF OnlyLastEnds
<1>4. ASSUME ~EndsLine(line) PROVE Lines(lines, line, read \o <<c>>, times)
  <2>1. ~Ended(line) /\ ~LongEnough(line)
    BY <1>4 DEF EndsLine, Ended, LongEnough
  <2>2. FlattenSeq(lines) \in Seq(B) /\ <<c>> \in Seq(B)
    <3>1. <<c>> \in Seq(B)
      <4>1. c \in B
        OBVIOUS
      <4> HIDE DEF B
      <4> QED
        BY <4>1
    <3> QED
      BY <1>1, <3>1, FlattenAppend
  <2>3. FlattenSeq(lines) \o line = read \o <<c>>
    <3> DEFINE f == FlattenSeq(lines)
               t == <<c>>
    <3>1. f \o rest = read
      BY DEF Lines
    <3>2. f \in Seq(B) /\ rest \in Seq(B) /\ t \in Seq(B)
      BY <1>1, <2>2
    <3>3. Groups(B)
      BY Grouping
    <3>4. (f \o rest) \o t = f \o (rest \o t)
      <4> HIDE DEF f, t, B
      <4> QED
        BY <3>2, <3>3, Zenon DEF Groups
    <3> QED
      BY <1>2, <3>1, <3>4
  <2>4. read \o <<c>> \in Seq(B)
    BY <1>1, <2>2, ConcatProperties
  <2> QED
    BY <1>2, <1>3, <2>1, <2>3, <2>4 DEF Lines
<1> QED
  BY <1>2, <1>3, <1>4 DEF line

LEMMA ReadTurn ==
  ASSUME Reader, NEW w, NEW h, NEW s, NEW times, Lines(w, h, s, times), NEW b \in setup.bytes,
         NEW o \in Seq(Seq(setup.bytes)), NEW p
  PROVE  \E x \in Seq(Seq(setup.bytes)) : \E e, i :
           ReadByte(Result(o, h, p), b) = Result(o \o x, e, i) /\ Lines(w \o x, e, Append(s, b), times)
<1> DEFINE B == setup.bytes
           C == Seq(B)
           r == Result(o, h, p)
           t == Append(s, b)
           line == Append(h, b)
<1>1. w \in Seq(C) /\ h \in C /\ s \in Seq(B) /\ o \in Seq(C) /\ b \in B
  BY DEF Lines
<1>2. r.output = o /\ r.held = h /\ \A y : [r EXCEPT !.held = y] = Result(o, y, p)
  BY ResultFields
<1>3. /\ OnlyLastEnds(line) /\ line = h \o <<b>>
      /\ ~EndsLine(line) => Lines(w, line, s \o <<b>>, times)
  BY LineGoesOn
<1>4. line \in C /\ <<b>> \in C /\ t = s \o <<b>>
  <2>1. h \in Seq(B) /\ s \in Seq(B) /\ b \in B
    BY <1>1
  <2> HIDE DEF B
  <2> QED
    BY <2>1, Appended, PutOut
<1>5. Lines(w, h, s, times) /\ <<b>> \in Seq(setup.bytes)
  BY <1>4
<1>6. r = Result(o, h, p)
  OBVIOUS
<1> DEFINE more == <<b>>
<1>12. line = h \o more /\ more \in Seq(setup.bytes) /\ t = s \o more
  BY <1>3, <1>4
<1> HIDE DEF line, C, r, t, more
<1>7. /\ <<>> \in Seq(C) /\ <<line>> \in Seq(C) /\ o \o <<>> = o /\ w \o <<>> = w
      /\ Append(o, line) = o \o <<line>> /\ Append(w, line) = w \o <<line>>
  <2> HIDE DEF B
  <2> QED
    BY <1>1, <1>4, PutOut
<1>8. CASE EndsLine(line)
  <2>1. ReadByte(r, b) = Result(o \o <<line>>, <<>>, FALSE)
    BY <1>2, <1>7, <1>8 DEF ReadByte, line
  <2>2. Ended(line) \/ Len(line) = setup.size
    <3>1. Len(line) \in Nat /\ setup.size \in Nat
      <4>1. line \in Seq(B)
        BY <1>4 DEF C
      <4> HIDE DEF B
      <4>2. Len(line) \in Nat
        BY <4>1
      <4> QED
        BY <4>2 DEF Reader
    <3>2. setup.size # 0 => Len(line) <= setup.size
      BY <1>3 DEF OnlyLastEnds
    <3>3. Ended(line) \/ (setup.size # 0 /\ Len(line) >= setup.size)
      BY <1>8 DEF EndsLine, Ended
    <3> QED
      BY <3>1, <3>2, <3>3
  <2>3. OnlyLastEnds(h \o more) /\ (Ended(h \o more) \/ Len(h \o more) = setup.size) /\ times \subseteq times
    BY <1>3, <1>12, <2>2
  <2>4. Lines(Append(w, h \o more), <<>>, s \o more, times)
    BY <1>12, <2>3, LineAdded
  <2>5. Lines(w \o <<line>>, <<>>, t, times)
    BY <1>7, <1>12, <2>4
  <2> QED
    BY <1>7, <2>1, <2>5 DEF C, r, t
<1>9. CASE ~EndsLine(line)
  <2>1. ReadByte(r, b) = Result(o \o <<>>, line, p)
    BY <1>2, <1>7, <1>9 DEF ReadByte, line
  <2>2. Lines(w \o <<>>, line, t, times)
    BY <1>3, <1>7, <1>9, <1>12 DEF more
  <2> QED
    BY <1>7, <2>1, <2>2 DEF C, r, t
<1> QED
  BY <1>8, <1>9
-----------------------------------------------------------------------------
(* Packetizer.  A turn of its loop splits off what is before the first       *)
(* terminator.                                                             *)
Cutter == setup.terminator \in Seq(setup.bytes) \ {<<>>}
NoTerminator(h) == \A i \in DOMAIN h : ~TerminatedAt(h, i)
Whole(packet) == \A i \in 1..Len(packet) : ~TerminatedAt(Terminated(packet), i)
WithEnds(packets) == [k \in DOMAIN packets |-> Terminated(packets[k])]
PacketsGood(o, h, s) ==
  /\ s \in Seq(setup.bytes) /\ o \in Seq(Seq(setup.bytes)) /\ h \in Seq(setup.bytes)
  /\ FlattenSeq(WithEnds(o)) \o h = s
  /\ \A k \in DOMAIN o : Whole(o[k])

LEMMA CutApart ==
  ASSUME NEW S, NEW h \in Seq(S), NEW a \in Nat, NEW b \in Nat, a <= b, b <= Len(h)
  PROVE  /\ SubSeq(h, 1, a) \in Seq(S) /\ SubSeq(h, a + 1, b) \in Seq(S)
         /\ Len(SubSeq(h, 1, a)) = a /\ Len(SubSeq(h, a + 1, b)) = b - a
         /\ SubSeq(h, 1, a) \o SubSeq(h, a + 1, b) = SubSeq(h, 1, b)
         /\ \A i, j \in Nat : 1 <= i /\ j <= b => SubSeq(SubSeq(h, 1, b), i, j) = SubSeq(h, i, j)
<1>1. Len(h) \in Nat /\ a <= Len(h)
  OBVIOUS
<1>2. /\ SubSeq(h, 1, a) \in Seq(S) /\ Len(SubSeq(h, 1, a)) = a
      /\ \A i \in 1..a : SubSeq(h, 1, a)[i] = h[i]
  BY <1>1
<1>3. /\ SubSeq(h, 1, b) \in Seq(S) /\ Len(SubSeq(h, 1, b)) = b
      /\ \A i \in 1..b : SubSeq(h, 1, b)[i] = h[i]
  OBVIOUS
<1>4. /\ SubSeq(h, a + 1, b) \in Seq(S) /\ Len(SubSeq(h, a + 1, b)) = b - a
      /\ \A i \in 1..(b - a) : SubSeq(h, a + 1, b)[i] = h[a + i]
  BY <1>1
<1> DEFINE u == SubSeq(h, 1, a)
           v == SubSeq(h, a + 1, b)
           w == SubSeq(h, 1, b)
<1> HIDE DEF u, v, w
<1>5. u \o v = w
  <2>1. u \in Seq(S) /\ Len(u) = a /\ \A i \in 1..a : u[i] = h[i]
    BY <1>2 DEF u
  <2>2. v \in Seq(S) /\ Len(v) = b - a /\ \A i \in 1..(b - a) : v[i] = h[a + i]
    BY <1>4 DEF v
  <2>3. w \in Seq(S) /\ Len(w) = b /\ \A i \in 1..b : w[i] = h[i]
    BY <1>3 DEF w
  <2>4. /\ u \o v \in Seq(S) /\ Len(u \o v) = b
        /\ \A i \in 1..b : (u \o v)[i] = IF i <= a THEN u[i] ELSE v[i - a]
    <3>1. a + (b - a) = b
      OBVIOUS
    <3>2. /\ u \o v \in Seq(S) /\ Len(u \o v) = Len(u) + Len(v)
          /\ \A i \in 1..(Len(u) + Len(v)) : (u \o v)[i] = IF i <= Len(u) THEN u[i] ELSE v[i - Len(u)]
      BY <2>1, <2>2, ConcatProperties
    <3>3. Len(u) = a /\ Len(u) + Len(v) = b
      BY <2>1, <2>2, <3>1
    <3> QED
      BY <3>2, <3>3
  <2>5. ASSUME NEW i \in 1..b PROVE (u \o v)[i] = w[i]
    <3>1. CASE i <= a
      <4>1. i \in 1..a
        BY <3>1
      <4> QED
        BY <2>1, <2>3, <2>4, <3>1, <4>1
    <3>2. CASE ~(i <= a)
      <4>1. i - a \in 1..(b - a) /\ a + (i - a) = i
        BY <3>2
      <4> QED
        BY <2>2, <2>3, <2>4, <3>2, <4>1
    <3> QED
      BY <3>1, <3>2
  <2> QED
    BY <2>3, <2>4, <2>5, SeqEqual
<1>6. ASSUME NEW i \in Nat, NEW j \in Nat, 1 <= i, j <= b PROVE SubSeq(w, i, j) = SubSeq(h, i, j)
  <2>0. w \in Seq(S) /\ Len(w) = b /\ \A k \in 1..b : w[k] = h[k]
    BY <1>3 DEF w
  <2>1. /\ SubSeq(w, i, j) = [k \in 1..(j - i + 1) |-> w[i + k - 1]]
        /\ SubSeq(h, i, j) = [k \in 1..(j - i + 1) |-> h[i + k - 1]]
    BY <1>1, <1>6, <2>0
  <2>2. \A k \in 1..(j - i + 1) : w[i + k - 1] = h[i + k - 1]
    BY <1>6, <2>0
  <2> QED
    BY <2>1, <2>2
<1> QED
  BY <1>2, <1>4, <1>5, <1>6 DEF u, v, w

LEMMA SplitTurn ==
  ASSUME Cutter, NEW o \in Seq(Seq(setup.bytes)), NEW h \in Seq(setup.bytes), NEW p
  PROVE  LET q == Split(Result(o, h, p))
         IN  \/ NoTerminator(h) /\ q = Result(o, h, p)
             \/ ~NoTerminator(h) /\ \E packet, rest \in Seq(setup.bytes) :
                  /\ q = Result(Append(o, packet), rest, FALSE)
                  /\ h = Terminated(packet) \o rest /\ Terminated(packet) \in Seq(setup.bytes)
                  /\ Whole(packet) /\ Len(rest) < Len(h)
<1> DEFINE B == setup.bytes
           L == Len(setup.terminator)
           r == Result(o, h, p)
           ends == {i \in DOMAIN h : TerminatedAt(h, i)}
           m == Min(ends)
           packet == SubSeq(h, 1, m - 1)
           rest == SubSeq(h, m + L, Len(h))
           q == Split(r)
<1>1. /\ L \in Nat /\ L # 0 /\ h \in Seq(B) /\ Len(h) \in Nat /\ DOMAIN h = 1..Len(h)
      /\ r.output = o /\ r.held = h /\ setup.terminator \in Seq(B)
  BY ResultFields DEF Cutter
<1>2. q = IF ends = {} THEN r ELSE Result(Append(o, packet), rest, FALSE)
  BY <1>1, Zenon DEF Split
<1>3. CASE ends = {}
  <2>1. NoTerminator(h)
    BY <1>3 DEF NoTerminator
  <2> QED
    BY <1>2, <1>3, <2>1
<1>4. CASE ends # {}
  <2> HIDE DEF B, L, r, q
  <2>1. m \in ends /\ \A i \in ends : m <= i
    <3>1. ends \in SUBSET Nat /\ \E i \in Nat : i \in ends
      BY <1>1, <1>4
    <3> HIDE DEF ends
    <3>2. \E i \in ends : \A y \in ends : i <= y
      BY <3>1, LeastNumber
    <3> QED
      BY <3>2, Zenon DEF Min
  <2> HIDE DEF m
  <2>2. /\ m \in 1..Len(h) /\ m + L - 1 <= Len(h)
        /\ SubSeq(h, m, m + L - 1) = setup.terminator
    BY <1>1, <2>1 DEF TerminatedAt, L
  <2> HIDE DEF ends
  <2> DEFINE a == m - 1
             b == m + L - 1
             c == Len(h)
             front == SubSeq(h, 1, b)
  <2>3. /\ a \in Nat /\ b \in Nat /\ c \in Nat /\ a <= b /\ b <= c /\ a + 1 = m /\ b + 1 = m + L /\ c <= Len(h)
        /\ c - b < Len(h) /\ c = Len(h)
    BY <1>1, <2>2
  <2> HIDE DEF a, b, c
  <2>0. h \in Seq(B) /\ a \in Nat /\ b \in Nat /\ c \in Nat /\ a <= b /\ b <= Len(h) /\ b <= c /\ c <= Len(h)
    BY <1>1, <2>3
  <2>4. /\ SubSeq(h, 1, a) \in Seq(B) /\ Len(SubSeq(h, 1, a)) = a
        /\ SubSeq(h, 1, a) \o SubSeq(h, a + 1, b) = SubSeq(h, 1, b)
        /\ \A i, j \in Nat : 1 <= i /\ j <= b => SubSeq(SubSeq(h, 1, b), i, j) = SubSeq(h, i, j)
    BY <2>0, CutApart
  <2>5. /\ SubSeq(h, 1, b) \in Seq(B) /\ SubSeq(h, b + 1, c) \in Seq(B) /\ Len(SubSeq(h, b + 1, c)) = c - b
        /\ Len(SubSeq(h, 1, b)) = b
        /\ SubSeq(h, 1, b) \o SubSeq(h, b + 1, c) = SubSeq(h, 1, c)
    BY <2>0, CutApart
  <2>6. SubSeq(h, 1, c) = h
    BY <1>1, <2>3
  <2>7. packet = SubSeq(h, 1, a) /\ rest = SubSeq(h, b + 1, c) /\ SubSeq(h, a + 1, b) = setup.terminator
    BY <2>2, <2>3 DEF a, b
  <2>8. Terminated(packet) = front
    BY <2>4, <2>7 DEF Terminated
  <2>9. /\ packet \in Seq(B) /\ rest \in Seq(B) /\ Len(packet) = a /\ front \in Seq(B) /\ h = front \o rest
        /\ Len(rest) < Len(h) /\ Len(front) = b
    BY <2>3, <2>4, <2>5, <2>6, <2>7
  <2> HIDE DEF packet, rest
  <2>10. ASSUME NEW i \in 1..a, TerminatedAt(front, i) PROVE FALSE
    <3>1. i + L - 1 <= b /\ SubSeq(front, i, i + L - 1) = setup.terminator
      BY <2>9, <2>10 DEF TerminatedAt, L
    <3>2. i \in Nat /\ 1 <= i /\ i + L - 1 \in Nat /\ i + L - 1 <= Len(h) /\ i \in DOMAIN h /\ ~(m <= i)
      BY <1>1, <2>3, <3>1 DEF a
    <3>3. SubSeq(h, i, i + L - 1) = setup.terminator
      BY <2>4, <3>1, <3>2
    <3>4. TerminatedAt(h, i)
      BY <3>2, <3>3 DEF TerminatedAt, L
    <3>5. i \in ends
      BY <3>2, <3>4 DEF ends
    <3> QED
      BY <2>1, <3>2, <3>5
  <2>11. Whole(packet)
    BY <2>8, <2>9, <2>10 DEF Whole
  <2> HIDE DEF front
  <2>12. q = Result(Append(o, packet), rest, FALSE)
    BY <1>2, <1>4
  <2>13. ~NoTerminator(h)
    BY <2>1 DEF NoTerminator, ends
  <2> QED
    BY <2>8, <2>9, <2>11, <2>12, <2>13 DEF B, q, r
<1> QED
  BY <1>3, <1>4

LEMMA PacketAdded ==
  ASSUME Cutter, NEW o, NEW h, NEW s, PacketsGood(o, h, s),
         NEW packet \in Seq(setup.bytes), NEW rest \in Seq(setup.bytes),
         Terminated(packet) \in Seq(setup.bytes), h = Terminated(packet) \o rest, Whole(packet)
  PROVE  PacketsGood(Append(o, packet), rest, s)
<1> DEFINE B == setup.bytes
           C == Seq(B)
           q == Append(o, packet)
           c == Terminated(packet)
           X == WithEnds(o)
           Y == WithEnds(q)
<1>1. /\ s \in Seq(B) /\ o \in Seq(C) /\ packet \in C /\ rest \in C /\ c \in C /\ h = c \o rest
      /\ FlattenSeq(X) \o h = s /\ \A k \in DOMAIN o : Whole(o[k])
  BY DEF PacketsGood
<1>6. setup.terminator \in Seq(B)
  BY DEF Cutter
<1>2. /\ X \in Seq(C) /\ Y = Append(X, c) /\ q \in Seq(C)
      /\ q[Len(o) + 1] = packet /\ \A k \in 1..Len(o) : q[k] = o[k]
      /\ Len(o) \in Nat /\ DOMAIN q = 1..(Len(o) + 1) /\ DOMAIN o = 1..Len(o)
  <2> DEFINE n == Len(o)
  <2>0. n \in Nat /\ DOMAIN o = 1..n
    BY <1>1
  <2> HIDE DEF C
  <2>1. q \in Seq(C) /\ Len(q) = n + 1 /\ q[n + 1] = packet /\ \A k \in 1..n : q[k] = o[k]
    BY <1>1, Appended
  <2> HIDE DEF q, c, n, X, Y
  <2>2. DOMAIN q = 1..(n + 1)
    BY <2>0, <2>1
  <2>3. X = [k \in 1..n |-> Terminated(o[k])] /\ Y = [k \in 1..(n + 1) |-> Terminated(q[k])]
    BY <2>0, <2>2, Zenon DEF X, Y, WithEnds
  <2>4. \A k \in 1..n : Terminated(o[k]) \in C
    <3>1. \A k \in 1..n : o[k] \in C
      BY <1>1, <2>0 DEF n
    <3>2. ASSUME NEW k \in 1..n PROVE Terminated(o[k]) \in C
      <4>1. o[k] \in Seq(B) /\ setup.terminator \in Seq(B)
        BY <3>1, <1>6 DEF C
      <4> QED
        BY <4>1, ConcatProperties DEF Terminated, C
    <3> QED
      BY <3>2
  <2>5. X \in Seq(C) /\ Len(X) = n /\ \A k \in 1..n : X[k] = Terminated(o[k])
    <3>1. X \in [1..n -> C] /\ \A k \in 1..n : X[k] = Terminated(o[k])
      BY <2>3, <2>4
    <3> QED
      BY <2>0, <3>1
  <2>6. /\ Append(X, c) \in Seq(C) /\ Len(Append(X, c)) = n + 1 /\ Append(X, c)[n + 1] = c
        /\ \A k \in 1..n : Append(X, c)[k] = X[k]
    BY <1>1, <2>5, Appended
  <2>7. Append(X, c) = [k \in 1..(n + 1) |-> Append(X, c)[k]]
    <3> DEFINE Z == Append(X, c)
    <3>1. Z \in Seq(C) /\ Len(Z) = n + 1
      BY <2>6
    <3> HIDE DEF Z
    <3>2. Z = [k \in 1..(n + 1) |-> Z[k]]
      BY <2>0, <3>1
    <3> QED
      BY <3>2 DEF Z
  <2>8. \A k \in 1..(n + 1) : Append(X, c)[k] = Terminated(q[k])
    <3>1. \A k \in 1..(n + 1) : k \in 1..n \/ k = n + 1
      BY <2>0
    <3> QED
      BY <2>1, <2>5, <2>6, <3>1 DEF c
  <2>9. Append(X, c) = Y
    BY <2>3, <2>7, <2>8
  <2> QED
    BY <2>0, <2>1, <2>2, <2>5, <2>9 DEF n
<1> HIDE DEF X, Y, q, c
<1>3. FlattenSeq(X) \in Seq(B) /\ FlattenSeq(Y) = FlattenSeq(X) \o c
  BY <1>1, <1>2, FlattenAppend
<1>4. FlattenSeq(Y) \o rest = s
  <2>1. Groups(B)
    BY Grouping
  <2>2. FlattenSeq(X) \in Seq(B) /\ c \in Seq(B) /\ rest \in Seq(B)
    BY <1>1, <1>3
  <2>3. (FlattenSeq(X) \o c) \o rest = FlattenSeq(X) \o (c \o rest)
    BY <2>1, <2>2, ZenonT(30) DEF Groups
  <2>4. FlattenSeq(Y) = FlattenSeq(X) \o c /\ c \o rest = h /\ FlattenSeq(X) \o h = s
    BY <1>1, <1>3
  <2> QED
    BY <2>3, <2>4, Zenon
<1>5. ASSUME NEW k \in DOMAIN q PROVE Whole(q[k])
  <2>0. Len(o) \in Nat /\ k \in 1..(Len(o) + 1)
    BY <1>2
  <2>1. k \in 1..Len(o) \/ k = Len(o) + 1
    BY <2>0
  <2>2. CASE k \in 1..Len(o)
    <3>1. q[k] = o[k] /\ k \in DOMAIN o
      BY <1>2, <2>2
    <3> QED
      BY <1>1, <3>1, Zenon
  <2>3. CASE k = Len(o) + 1
    BY <1>2, <2>3, Zenon
  <2> QED
    BY <2>1, <2>2, <2>3
<1> QED
  BY <1>1, <1>2, <1>4, <1>5 DEF PacketsGood, q, Y

(* A chunk, by the turns of a run.                                         *)
LEMMA PacketizerKeeps ==
  ASSUME Cutter, setup.mode = "packets", NEW w, NEW s, PacketsGood(w, held, s), NEW data \in Seq(setup.bytes)
  PROVE  LET r == Packetizer(data)
         IN  PacketsGood(w \o r.output, r.held, s \o data) /\ NoTerminator(r.held)
<1> DEFINE B == setup.bytes
           C == Seq(B)
           buffer == held \o data
           N == Len(buffer)
           first == Result(<<>>, buffer, FALSE)
           all == s \o data
           Kept(o, h, n) == /\ o \in Seq(C) /\ h \in Seq(B)
                            /\ PacketsGood(w \o o, h, all) /\ (NoTerminator(h) \/ Len(h) + n <= N)
           J(r, n) == \E o, h, p : r = Result(o, h, p) /\ Kept(o, h, n)
<1>1. /\ s \in Seq(B) /\ w \in Seq(C) /\ held \in Seq(B) /\ data \in Seq(B)
      /\ FlattenSeq(WithEnds(w)) \o held = s /\ \A k \in DOMAIN w : Whole(w[k])
  BY DEF PacketsGood
<1>2. buffer \in Seq(B) /\ N \in Nat /\ all \in Seq(B)
  BY <1>1, ConcatProperties, LenProperties
<1>3. PacketsGood(w, buffer, all)
  <2> DEFINE X == WithEnds(w)
  <2>1. FlattenSeq(X) \in Seq(B)
    <3>1. X \in Seq(C)
      <4>1. \A k \in DOMAIN w : w[k] \in Seq(B)
        BY <1>1
      <4>2. ASSUME NEW k \in DOMAIN w PROVE Terminated(w[k]) \in C
        <5>1. w[k] \in Seq(B) /\ setup.terminator \in Seq(B)
          BY <4>1 DEF Cutter
        <5> QED
          BY <5>1, ConcatProperties DEF Terminated
      <4>3. Len(w) \in Nat /\ DOMAIN w = 1..Len(w)
        BY <1>1
      <4> HIDE DEF C
      <4>4. X \in [1..Len(w) -> C]
        BY <4>2, <4>3 DEF WithEnds
      <4> HIDE DEF X
      <4> QED
        BY <4>3, <4>4
    <3> HIDE DEF X
    <3> QED
      BY <3>1, FlattenAppend, EmptySeq
  <2> HIDE DEF X, B
  <2>2. (FlattenSeq(X) \o held) \o data = FlattenSeq(X) \o (held \o data)
    <3>1. Groups(B)
      BY Grouping
    <3> QED
      BY <1>1, <2>1, <3>1, Zenon DEF Groups
  <2>3. FlattenSeq(WithEnds(w)) \o buffer = all
    BY <1>1, <2>2 DEF X
  <2> HIDE DEF buffer, all
  <2> QED
    BY <1>1, <1>2, <2>3 DEF PacketsGood, B
<1> HIDE DEF buffer, first, all
<1>4. PICK f : /\ f[0] = first /\ Run(first, buffer) = f[N]
               /\ \A n \in 0..(N - 1) : f[n + 1] = Decoded(f[n], buffer[n + 1])
  BY <1>2, RunSteps
<1>5. \A n \in 0..(N - 1) : f[n + 1] = Split(f[n])
  BY <1>4 DEF Decoded
<1> HIDE DEF N
<1>6. J(f[0], 0)
  <2>1. f[0] = Result(<<>>, buffer, FALSE)
    BY <1>4 DEF first
  <2>2. w \o <<>> = w /\ <<>> \in Seq(C)
    BY <1>1
  <2>3. Len(buffer) + 0 <= N
    BY <1>2 DEF N
  <2> QED
    BY <1>2, <1>3, <2>1, <2>2, <2>3
<1>7. ASSUME NEW n \in Nat, n + 1 <= N, J(f[n], n) PROVE J(f[n + 1], n + 1)
  <2>1. PICK o, h, p : f[n] = Result(o, h, p) /\ Kept(o, h, n)
    BY <1>7
  <2>2. n \in 0..(N - 1)
    BY <1>2, <1>7
  <2>3. f[n + 1] = Split(Result(o, h, p))
    BY <1>5, <2>1, <2>2
  <2>4. CASE NoTerminator(h) /\ f[n + 1] = Result(o, h, p)
    BY <2>1, <2>4
  <2>5. ASSUME NEW packet \in Seq(setup.bytes), NEW rest \in Seq(setup.bytes),
               f[n + 1] = Result(Append(o, packet), rest, FALSE),
               h = Terminated(packet) \o rest, Terminated(packet) \in Seq(setup.bytes),
               Whole(packet), Len(rest) < Len(h), ~NoTerminator(h)
        PROVE  J(f[n + 1], n + 1)
    <3>1. PacketsGood(Append(w \o o, packet), rest, all)
      BY <2>1, <2>5, PacketAdded
    <3>2. packet \in C /\ o \in Seq(C) /\ w \in Seq(C)
      BY <1>1, <2>1
    <3>3. Append(o, packet) \in Seq(C) /\ w \o Append(o, packet) = Append(w \o o, packet)
      <4> HIDE DEF C
      <4> QED
        BY <3>2, Appended, AppendLater
    <3>4. Len(rest) + (n + 1) <= N
      <4>1. Len(h) + n <= N
        BY <2>1, <2>5
      <4>2. Len(rest) \in Nat /\ Len(h) \in Nat
        BY <2>1
      <4> QED
        BY <1>2, <2>5, <4>1, <4>2
    <3>5. PacketsGood(w \o Append(o, packet), rest, all)
      BY <3>1, <3>3
    <3>6. Kept(Append(o, packet), rest, n + 1)
      BY <2>5, <3>3, <3>4, <3>5
    <3> HIDE DEF Kept
    <3> QED
      BY <2>5, <3>6
  <2>6. o \in Seq(Seq(setup.bytes)) /\ h \in Seq(setup.bytes)
    BY <2>1
  <2> HIDE DEF J
  <2>7. LET q == Split(Result(o, h, p))
        IN  \/ NoTerminator(h) /\ q = Result(o, h, p)
            \/ ~NoTerminator(h) /\ \E packet, rest \in Seq(setup.bytes) :
                 /\ q = Result(Append(o, packet), rest, FALSE)
                 /\ h = Terminated(packet) \o rest /\ Terminated(packet) \in Seq(setup.bytes)
                 /\ Whole(packet) /\ Len(rest) < Len(h)
    BY <2>6, SplitTurn
  <2> QED
    BY <2>3, <2>4, <2>5, <2>7, Zenon
<1> DEFINE T == {n \in Nat : n <= N => J(f[n], n)}
<1> HIDE DEF J
<1>8. 0 \in T
  BY <1>6
<1>9. ASSUME NEW n \in Nat, n \in T PROVE n + 1 \in T
  BY <1>2, <1>7, <1>9
<1>10. N \in Nat /\ N <= N
  BY <1>2
<1> HIDE DEF T
<1>11. N \in T
  BY <1>8, <1>9, <1>10, Induction
<1>12. J(f[N], N)
  BY <1>10, <1>11 DEF T
<1>13. PICK o, h, p : f[N] = Result(o, h, p) /\ Kept(o, h, N)
  BY <1>12 DEF J
<1>14. NoTerminator(h)
  <2>1. CASE Len(h) + N <= N
    <3>1. Len(h) \in Nat /\ DOMAIN h = 1..Len(h)
      BY <1>13
    <3>2. Len(h) = 0
      BY <1>10, <2>1, <3>1
    <3> QED
      BY <3>1, <3>2 DEF NoTerminator
  <2> QED
    BY <1>13, <2>1
<1>15. Packetizer(data) = Result(o, h, p)
  BY <1>4, <1>13 DEF Packetizer, first, buffer
<1> QED
  BY <1>13, <1>14, <1>15, ResultFields DEF all
-----------------------------------------------------------------------------
(* The decoders that take byte by byte: what has been put out, and is held,  *)
(* is of the stream s.                                                     *)
Parts == IF setup.mode = "hexlify" THEN Nat ELSE IF setup.mode = "terminal" THEN Chars ELSE Seq(setup.bytes)
Good(w, h, p, s) ==
  /\ setup.mode = "framed" => FramedGood(w, h, p, s)
  /\ setup.mode = "hexlify" => HexGood(w, h, s)
  /\ setup.mode = "terminal" => TextGood(w, h, s)
  /\ setup.mode = "read_until" => Lines(w, h, s, late)
ByteMode ==
  /\ setup.mode \in {"framed", "hexlify", "terminal", "read_until"}
  /\ setup.mode = "read_until" => Reader

LEMMA AnyTurn ==
  ASSUME ByteMode, NEW w, NEW h, NEW p, NEW s, Good(w, h, p, s), NEW b \in setup.bytes,
         NEW o \in Seq(Parts)
  PROVE  /\ w \in Seq(Parts) /\ s \in Seq(setup.bytes)
         /\ \E x \in Seq(Parts) : \E e, i :
              Decoded(Result(o, h, p), b) = Result(o \o x, e, i) /\ Good(w \o x, e, i, Append(s, b))
<1> DEFINE r == Result(o, h, p)
           t == Append(s, b)
           q == Decoded(r, b)
           Done(x, e, i) == q = Result(o \o x, e, i) /\ Good(w \o x, e, i, t)
<1>1. CASE setup.mode = "framed"
  <2>1. Parts = Seq(setup.bytes) /\ q = Framed(r, b) /\ FramedGood(w, h, p, s)
    BY <1>1 DEF Parts, Decoded, Good
  <2>2. \A v, e, i : FramedGood(v, e, i, t) => Good(v, e, i, t)
    BY <1>1 DEF Good
  <2>3. \E x \in Seq(Parts) : \E e, i : Framed(r, b) = Result(o \o x, e, i) /\ FramedGood(w \o x, e, i, t)
    BY <2>1, FramedTurn
  <2>4. \E x \in Seq(Parts) : \E e, i : Done(x, e, i)
    <3> HIDE DEF q, r, t
    <3> QED
      BY <2>1, <2>2, <2>3, Zenon
  <2> QED
    BY <2>1, <2>4 DEF FramedGood
<1>2. CASE setup.mode = "hexlify"
  <2>1. Parts = Nat /\ q = Hexlify(r, b) /\ HexGood(w, h, s)
    BY <1>2 DEF Parts, Decoded, Good
  <2>2. \A v, e, i : HexGood(v, e, t) => Good(v, e, i, t)
    BY <1>2 DEF Good
  <2>3. \E x \in Seq(Parts) : \E e, i : Hexlify(r, b) = Result(o \o x, e, i) /\ HexGood(w \o x, e, t)
    BY <2>1, HexTurn
  <2>4. \E x \in Seq(Parts) : \E e, i : Done(x, e, i)
    <3> HIDE DEF q, r, t
    <3> QED
      BY <2>1, <2>2, <2>3, Zenon
  <2> QED
    BY <2>1, <2>4 DEF HexGood
<1>3. CASE setup.mode = "terminal"
  <2>1. Parts = Chars /\ q = DecodedByte(r, b) /\ TextGood(w, h, s)
    BY <1>3 DEF Parts, Decoded, Good
  <2>2. \A v, e, i : TextGood(v, e, t) => Good(v, e, i, t)
    BY <1>3 DEF Good
  <2>3. \E x \in Seq(Parts) : \E e, i : DecodedByte(r, b) = Result(o \o x, e, i) /\ TextGood(w \o x, e, t)
    BY <2>1, TextTurn
  <2>4. \E x \in Seq(Parts) : \E e, i : Done(x, e, i)
    <3> HIDE DEF q, r, t
    <3> QED
      BY <2>1, <2>2, <2>3, Zenon
  <2> QED
    BY <2>1, <2>4 DEF TextGood
<1>4. CASE setup.mode = "read_until"
  <2>1. Parts = Seq(setup.bytes) /\ q = ReadByte(r, b) /\ Lines(w, h, s, late) /\ Reader
    BY <1>4 DEF Parts, Decoded, Good, ByteMode
  <2>2. \A v, e, i : Lines(v, e, t, late) => Good(v, e, i, t)
    BY <1>4 DEF Good
  <2>3. \E x \in Seq(Parts) : \E e, i : ReadByte(r, b) = Result(o \o x, e, i) /\ Lines(w \o x, e, t, late)
    BY <2>1, ReadTurn
  <2>4. \E x \in Seq(Parts) : \E e, i : Done(x, e, i)
    <3> HIDE DEF q, r, t
    <3> QED
      BY <2>1, <2>2, <2>3, Zenon
  <2> QED
    BY <2>1, <2>4 DEF Lines
<1> QED
  BY <1>1, <1>2, <1>3, <1>4 DEF ByteMode

LEMMA BytesKeep ==
  ASSUME ByteMode, NEW w, NEW s, Good(w, held, in_packet, s), NEW data \in Seq(setup.bytes),
         w \in Seq(Parts), s \in Seq(setup.bytes)
  PROVE  \E o \in Seq(Parts) : \E h, p :
           ByteByByte(data) = Result(o, h, p) /\ Good(w \o o, h, p, s \o data)
<1> DEFINE B == setup.bytes
           N == Len(data)
           first == Result(<<>>, held, in_packet)
           upTo(n) == s \o SubSeq(data, 1, n)
           J(r, n) == \E o \in Seq(Parts) : \E h, p : r = Result(o, h, p) /\ Good(w \o o, h, p, upTo(n))
<1>1. N \in Nat /\ s \in Seq(B) /\ data \in Seq(B) /\ \A n \in 1..N : data[n] \in B
  OBVIOUS
<1> HIDE DEF first
<1>2. PICK f : /\ f[0] = first /\ Run(first, data) = f[N]
               /\ \A n \in 0..(N - 1) : f[n + 1] = Decoded(f[n], data[n + 1])
  BY <1>1, RunSteps
<1>3. upTo(0) = s /\ upTo(N) = s \o data
  BY <1>1, SMTT(30)
<1>4. ASSUME NEW n \in Nat, n + 1 <= N PROVE upTo(n + 1) = Append(upTo(n), data[n + 1])
  <2> DEFINE a == SubSeq(data, 1, n)
             c == data[n + 1]
  <2> HIDE DEF B
  <2>1. a \in Seq(B) /\ SubSeq(data, 1, n + 1) = Append(a, c) /\ c \in B
    BY <1>1, <1>4, FrontOf
  <2> HIDE DEF a, c
  <2>2. s \o Append(a, c) = Append(s \o a, c)
    BY <1>1, <2>1, AppendLater
  <2> QED
    BY <2>1, <2>2 DEF a, c
<1> HIDE DEF upTo, N
<1>5. J(f[0], 0)
  <2>1. <<>> \in Seq(Parts) /\ w \o <<>> = w
    OBVIOUS
  <2>2. f[0] = Result(<<>>, held, in_packet)
    BY <1>2 DEF first
  <2> QED
    BY <1>3, <2>1, <2>2
<1>6. ASSUME NEW n \in Nat, n + 1 <= N, J(f[n], n) PROVE J(f[n + 1], n + 1)
  <2>1. PICK o \in Seq(Parts) : \E h, p : f[n] = Result(o, h, p) /\ Good(w \o o, h, p, upTo(n))
    BY <1>6
  <2>2. PICK h, p : f[n] = Result(o, h, p) /\ Good(w \o o, h, p, upTo(n))
    BY <2>1
  <2> DEFINE b == data[n + 1]
  <2>3. n \in 0..(N - 1) /\ n + 1 \in 1..N
    BY <1>1, <1>6
  <2>4. b \in setup.bytes /\ f[n + 1] = Decoded(Result(o, h, p), b)
    BY <1>1, <1>2, <2>2, <2>3
  <2> HIDE DEF b
  <2>5. \E x \in Seq(Parts) : \E e, i :
          Decoded(Result(o, h, p), b) = Result(o \o x, e, i) /\ Good((w \o o) \o x, e, i, Append(upTo(n), b))
    BY <2>2, <2>4, AnyTurn
  <2>6. PICK x \in Seq(Parts) : \E e, i :
          Decoded(Result(o, h, p), b) = Result(o \o x, e, i) /\ Good((w \o o) \o x, e, i, Append(upTo(n), b))
    BY <2>5
  <2>7. o \o x \in Seq(Parts) /\ (w \o o) \o x = w \o (o \o x)
    <3>1. Groups(Parts)
      BY Grouping
    <3>2. (w \o o) \o x = w \o (o \o x)
      BY <3>1, Zenon DEF Groups
    <3> QED
      BY <3>2, ConcatProperties
  <2>8. Append(upTo(n), b) = upTo(n + 1)
    BY <1>4, <1>6 DEF b
  <2> QED
    BY <2>4, <2>6, <2>7, <2>8, Zenon
<1> DEFINE T == {n \in Nat : n <= N => J(f[n], n)}
<1> HIDE DEF J
<1>7. 0 \in T
  BY <1>5
<1>8. ASSUME NEW n \in Nat, n \in T PROVE n + 1 \in T
  BY <1>1, <1>6, <1>8
<1>9. N \in Nat /\ N <= N
  BY <1>1
<1> HIDE DEF T
<1>10. N \in T
  BY <1>7, <1>8, <1>9, Induction
<1>11. J(f[N], N)
  BY <1>9, <1>10 DEF T
<1>12. ByteByByte(data) = f[N]
  BY <1>2 DEF ByteByByte, first
<1> QED
  BY <1>3, <1>11, <1>12 DEF J
-----------------------------------------------------------------------------
(* What every mode keeps, and what the setups are good for.                  *)
Kept(o, h, p, s, times) ==
  /\ setup.mode = "packets" => PacketsGood(o, h, s) /\ NoTerminator(h)
  /\ setup.mode = "framed" => FramedGood(o, h, p, s)
  /\ setup.mode = "hexlify" => HexGood(o, h, s)
  /\ setup.mode = "terminal" => o = Shown(Text(s)) /\ TextGood(Text(s), h, s)
  /\ setup.mode = "read_until" => Lines(o, h, s, times)
FramingInv == setup \in Setups /\ Kept(output, held, in_packet, stream, late)

LEMMA SetupOK ==
  ASSUME setup \in Setups
  PROVE  /\ setup.mode = "packets" => Cutter
         /\ setup.mode = "read_until" => Reader
         /\ setup.mode = "terminal" => Len(setup.chain) \in Nat
<1>1. \A s \in Setups : s.mode = "terminal" => Len(s.chain) \in Nat
  BY SetupsAssumption
<1> QED
  BY <1>1, SetupsAssumption DEF Reader, Cutter

LEMMA SetupStays ==
  ASSUME setup' = setup, setup \in Setups, Kept(output', held', in_packet', stream', late')
  PROVE  FramingInv'
<1> DEFINE o == output'
           h == held'
           p == in_packet'
           s == stream'
<1>1. setup.mode = "packets" => (PacketsGood(output, held, stream) /\ NoTerminator(held))'
  BY DEF Kept, PacketsGood, NoTerminator, WithEnds, Whole, TerminatedAt, Terminated
<1>2. setup.mode = "framed" => FramedGood(output, held, in_packet, stream)'
  BY DEF Kept, FramedGood
<1>3. setup.mode = "hexlify" => HexGood(output, held, stream)'
  BY DEF Kept, HexGood
<1>4. setup.mode = "terminal" => TextGood(Text(stream), held, stream)'
  BY DEF Kept, TextGood, Chars
<1>5. setup.mode = "terminal" => (output = Shown(Text(stream)))'
  <2>1. \A t : Shown(t)' = Shown(t)
    BY DEF Shown, Transformed, rx_transformations
  <2> QED
    BY <2>1 DEF Kept
<1>6. setup.mode = "read_until" => Lines(output, held, stream, late)'
  BY DEF Kept, Lines, OnlyLastEnds, EndsSomehow, Ended, LongEnough
<1> QED
  BY <1>1, <1>2, <1>3, <1>4, <1>5, <1>6 DEF FramingInv, Kept

LEMMA NothingFramed == FramedGood(<<>>, <<>>, FALSE, <<>>)
<1>1. <<>> \in Seq(setup.bytes) /\ <<>> \in Seq(Seq(setup.bytes)) /\ Len(<<>>) = 0
  OBVIOUS
<1>2. Stops(<<>>) = {} /\ Inside(<<>>, Len(<<>>) + 1) = {} /\ ~Opened(<<>>) /\ FALSE = Opened(<<>>)
  BY DEF Stops, Inside, Opened
<1> QED
  BY <1>1, <1>2, FS_EmptySet, Zenon DEF FramedGood, Picked

LEMMA FramingInvInit == FramingInit => FramingInv
<1> SUFFICES ASSUME FramingInit PROVE FramingInv
  OBVIOUS
<1>1. setup \in Setups /\ stream = <<>> /\ output = <<>> /\ held = <<>> /\ in_packet = FALSE /\ late = {}
  BY DEF FramingInit
<1>2. /\ <<>> \in Seq(setup.bytes) /\ <<>> \in Seq(Seq(setup.bytes)) /\ <<>> \in Seq(Nat)
      /\ Len(<<>>) = 0 /\ DOMAIN <<>> = {} /\ 1..0 = {}
  OBVIOUS
<1>3. Cardinality({}) = 0
  BY FS_EmptySet
<1>4. FlattenSeq(<<>>) \o <<>> = <<>>
  BY FlattenNone
<1>5. PacketsGood(<<>>, <<>>, <<>>) /\ NoTerminator(<<>>)
  <2>1. WithEnds(<<>>) = <<>>
    BY DEF WithEnds
  <2> QED
    BY <1>2, <1>4, <2>1 DEF PacketsGood, NoTerminator
<1>6. FramedGood(<<>>, <<>>, FALSE, <<>>)
  BY NothingFramed
<1>7. HexGood(<<>>, <<>>, <<>>)
  <2>1. Digits(<<>>) = {}
    BY DEF Digits
  <2>2. ByteEnds(<<>>) = {} /\ Word(<<>>, Len(<<>>)) = {}
    BY <2>1 DEF ByteEnds, Word
  <2> QED
    <3>1. 0 % 2 = 0
      OBVIOUS
    <3> QED
      BY <1>2, <1>3, <2>2, <3>1, Zenon DEF HexGood
<1>8. setup.mode = "terminal" => <<>> = Shown(Text(<<>>)) /\ TextGood(Text(<<>>), <<>>, <<>>)
  <2> SUFFICES ASSUME setup.mode = "terminal"
               PROVE  <<>> = Shown(Text(<<>>)) /\ TextGood(Text(<<>>), <<>>, <<>>)
    OBVIOUS
  <2>1. Text(<<>>) = <<>> /\ Shown(<<>>) = <<>>
    BY <1>1, SetupOK, NothingShown
  <2>2. <<>> \in Seq(Chars) /\ ~EndsInLead(<<>>)
    BY <1>2 DEF EndsInLead
  <2> QED
    BY <1>2, <2>1, <2>2, Zenon DEF TextGood
<1>9. setup.mode = "read_until" => Lines(<<>>, <<>>, <<>>, {})
  <2> SUFFICES ASSUME setup.mode = "read_until" PROVE Lines(<<>>, <<>>, <<>>, {})
    OBVIOUS
  <2>1. Reader
    BY <1>1, SetupOK
  <2> QED
    BY <1>2, <1>4, <2>1, NothingEndsEmpty DEF Lines
<1> QED
  BY <1>1, <1>5, <1>6, <1>7, <1>8, <1>9 DEF FramingInv, Kept

(* A chunk.                                                                *)
LEMMA ReceiveKeeps ==
  ASSUME FramingInv, NEW data \in Pieces, ReceiveChunk(data)
  PROVE  FramingInv'
<1> DEFINE B == setup.bytes
           q == Received(data)
<1>1. data \in Seq(setup.bytes)
  BY DEF Pieces
<1>2. setup \in Setups /\ Kept(output, held, in_packet, stream, late)
  BY DEF FramingInv
<1>3. /\ stream' = stream \o data /\ output' = output \o q.output /\ held' = q.held
      /\ in_packet' = q.in_packet /\ late' = late /\ setup' = setup
  BY DEF ReceiveChunk
<1> HIDE DEF q
<1>4. CASE setup.mode = "packets"
  <2> DEFINE r == Packetizer(data)
  <2>1. q = r /\ Cutter /\ PacketsGood(output, held, stream)
    BY <1>2, <1>4, SetupOK DEF q, Received, Kept
  <2>2. PacketsGood(output \o r.output, r.held, stream \o data) /\ NoTerminator(r.held)
    BY <1>1, <1>4, <2>1, PacketizerKeeps
  <2> HIDE DEF r
  <2>3. Kept(output', held', in_packet', stream', late')
    BY <1>3, <1>4, <2>1, <2>2 DEF Kept
  <2> QED
    BY <1>2, <1>3, <2>3, SetupStays
<1>5. ASSUME ByteMode, NEW w, Good(w, held, in_packet, stream), w \in Seq(Parts), stream \in Seq(setup.bytes)
      PROVE  \E o \in Seq(Parts) : /\ ByteByByte(data).output = o
                                   /\ LET r == ByteByByte(data)
                                      IN  Good(w \o o, r.held, r.in_packet, stream \o data)
  <2>1. PICK o \in Seq(Parts) : \E h, p :
           ByteByByte(data) = Result(o, h, p) /\ Good(w \o o, h, p, stream \o data)
    BY <1>1, <1>5, BytesKeep
  <2> QED
    BY <2>1, ResultFields
<1>6. CASE setup.mode \in {"framed", "hexlify", "read_until"}
  <2>1. ByteMode /\ q = ByteByByte(data)
    BY <1>2, <1>6, SetupOK DEF q, Received, ByteMode
  <2>2. Good(output, held, in_packet, stream) /\ output \in Seq(Parts) /\ stream \in Seq(setup.bytes)
    BY <1>2, <1>6 DEF Good, Kept, Parts, FramedGood, HexGood, Lines
  <2>3. Good(output \o q.output, q.held, q.in_packet, stream \o data)
    BY <1>5, <2>1, <2>2
  <2>4. Kept(output', held', in_packet', stream', late')
    BY <1>3, <1>6, <2>3 DEF Kept, Good
  <2> QED
    BY <1>2, <1>3, <2>4, SetupStays
<1>7. CASE setup.mode = "terminal"
  <2> DEFINE r == ByteByByte(data)
             w == Text(stream)
  <2>1. ByteMode /\ Parts = Chars /\ Len(setup.chain) \in Nat /\ q = [r EXCEPT !.output = Shown(@)]
    BY <1>2, <1>7, SetupOK DEF q, Received, ByteMode, Parts
  <2>2. /\ Good(w, held, in_packet, stream) /\ w \in Seq(Chars) /\ stream \in Seq(setup.bytes)
        /\ output = Shown(w)
    BY <1>2, <1>7 DEF Good, Kept, TextGood
  <2> HIDE DEF w
  <2>3. PICK o \in Seq(Chars) : \E h, p : r = Result(o, h, p) /\ Good(w \o o, h, p, stream \o data)
    BY <1>1, <2>1, <2>2, BytesKeep
  <2>4. PICK h, p : r = Result(o, h, p) /\ Good(w \o o, h, p, stream \o data)
    BY <2>3
  <2> HIDE DEF r
  <2>5. q = Result(Shown(o), h, p)
    BY <2>1, <2>4 DEF Result
  <2>6. TextGood(w \o o, h, stream \o data) /\ w \o o = Text(stream \o data)
    BY <1>7, <2>4 DEF Good, TextGood
  <2>7. w \in Seq(Glyphs) /\ o \in Seq(Glyphs)
    BY <2>2 DEF Glyphs
  <2>8. Shown(w \o o) = Shown(w) \o Shown(o)
    BY <2>1, <2>7, ShownJoins
  <2>9. q.output = Shown(o) /\ q.held = h
    BY <2>5, ResultFields
  <2>10. output' = Shown(Text(stream')) /\ TextGood(Text(stream'), held', stream')
    BY <1>3, <2>2, <2>6, <2>8, <2>9, Zenon
  <2>11. Kept(output', held', in_packet', stream', late')
    BY <1>7, <2>10 DEF Kept
  <2> QED
    BY <1>2, <1>3, <2>11, SetupStays
<1>8. CASE setup.mode \notin {"packets", "framed", "hexlify", "terminal", "read_until"}
  <2>1. Kept(output', held', in_packet', stream', late')
    BY <1>8 DEF Kept
  <2> QED
    BY <1>2, <1>3, <2>1, SetupStays
<1> QED
  BY <1>4, <1>6, <1>7, <1>8

(* The next connection of the same protocol object: what the Packetizer has   *)
(* kept holds no terminator.                                                *)
LEMMA ConnectionLostKeeps ==
  ASSUME FramingInv, ConnectionLost
  PROVE  FramingInv'
<1>1. /\ setup \in Setups /\ Kept(output, held, in_packet, stream, late)
      /\ setup' = setup /\ output' = <<>> /\ in_packet' = FALSE /\ stream' = held'
      /\ setup.mode \in {"packets", "framed"}
      /\ held' = IF setup.mode = "framed" THEN <<>> ELSE held
  BY DEF FramingInv, ConnectionLost
<1>2. CASE setup.mode = "packets"
  <2>1. held \in Seq(setup.bytes) /\ NoTerminator(held)
    BY <1>1, <1>2 DEF Kept, PacketsGood
  <2>2. WithEnds(<<>>) = <<>> /\ FlattenSeq(<<>>) = <<>>
    BY FlattenNone DEF WithEnds
  <2>3. <<>> \in Seq(Seq(setup.bytes)) /\ DOMAIN <<>> = {} /\ <<>> \o held = held
    BY <2>1
  <2>4. PacketsGood(<<>>, held, held)
    BY <2>1, <2>2, <2>3 DEF PacketsGood
  <2>5. Kept(output', held', in_packet', stream', late')
    BY <1>1, <1>2, <2>1, <2>4 DEF Kept
  <2> QED
    BY <1>1, <2>5, SetupStays
<1>3. CASE setup.mode = "framed"
  <2>1. FramedGood(<<>>, <<>>, FALSE, <<>>)
    BY NothingFramed
  <2>2. Kept(output', held', in_packet', stream', late')
    BY <1>1, <1>3, <2>1 DEF Kept
  <2> QED
    BY <1>1, <2>2, SetupStays
<1> QED
  BY <1>1, <1>2, <1>3

(* The line of a timeout: what is held, and perhaps one byte more.          *)
LEMMA TimedOutKeeps ==
  ASSUME FramingInv, setup.mode = "read_until", NEW more \in Seq(setup.bytes),
         OnlyLastEnds(held \o more), TimedOut(held \o more)
  PROVE  FramingInv'
<1> DEFINE B == setup.bytes
           line == held \o more
<1>1. Reader /\ setup \in Setups /\ Lines(output, held, stream, late)
  BY SetupOK DEF FramingInv, Kept
<1>2. held \in Seq(B) /\ SubSeq(line, Len(held) + 1, Len(line)) = more
  BY <1>1 DEF Lines
<1>3. /\ output' = Append(output, line) /\ held' = <<>> /\ stream' = stream \o more
      /\ late' = late \union {Len(stream')} /\ setup' = setup
  BY <1>2 DEF TimedOut
<1>4. Lines(Append(output, line), <<>>, stream \o more, late')
  <2>1. late \subseteq late' /\ Len(stream \o more) \in late'
    BY <1>3
  <2> QED
    BY <1>1, <2>1, LineAdded
<1> HIDE DEF line
<1>5. Kept(output', held', in_packet', stream', late')
  BY <1>3, <1>4 DEF Kept
<1> QED
  BY <1>1, <1>3, <1>5, SetupStays

LEMMA FramingInvNext == FramingInv /\ [FramingNext]_framingVars => FramingInv'
<1> SUFFICES ASSUME FramingInv, [FramingNext]_framingVars PROVE FramingInv'
  OBVIOUS
<1>1. CASE UNCHANGED framingVars
  <2>1. Kept(output', held', in_packet', stream', late') /\ setup' = setup /\ setup \in Setups
    BY <1>1 DEF framingVars, FramingInv
  <2> QED
    BY <2>1, SetupStays
<1>2. ASSUME NEW data \in Pieces, ReceiveChunk(data) PROVE FramingInv'
  BY <1>2, ReceiveKeeps
<1>3. CASE ConnectionLost
  BY <1>3, ConnectionLostKeeps
<1>4. ASSUME setup.mode = "read_until" PROVE Reader /\ Lines(output, held, stream, late) /\ held \in Seq(setup.bytes)
  BY <1>4, SetupOK DEF FramingInv, Kept, Lines
<1>5. CASE NoByte
  <2>1. /\ setup.mode = "read_until" /\ held \o <<>> = held /\ <<>> \in Seq(setup.bytes)
        /\ OnlyLastEnds(held) /\ TimedOut(held)
    BY <1>4, <1>5 DEF Lines, NoByte
  <2> QED
    BY <2>1, TimedOutKeeps
<1>6. CASE LateByte
  <2>1. PICK c \in setup.bytes : setup.mode = "read_until" /\ TimedOut(Append(held, c))
    BY <1>6 DEF LateByte
  <2>2. OnlyLastEnds(held \o <<c>>) /\ Append(held, c) = held \o <<c>>
    BY <1>4, <2>1, LineGoesOn
  <2> DEFINE B == setup.bytes
  <2>3. <<c>> \in Seq(setup.bytes)
    <3> HIDE DEF B
    <3>1. c \in B => <<c>> \in Seq(B)
      OBVIOUS
    <3> QED
      BY <2>1, <3>1 DEF B
  <2> QED
    BY <2>1, <2>2, <2>3, TimedOutKeeps
<1> QED
  BY <1>1, <1>2, <1>3, <1>5, <1>6 DEF FramingNext

(* The lines that read_until returns are the stream, however it comes in     *)
(* pieces and whenever the time is over, for any terminator and size; none   *)
(* goes on after its terminator or its size.                                *)
THEOREM ReadUntilLosesNothing == FramingSpec => []LinesAreTheStream
<1>1. FramingInv => LinesAreTheStream
  <2> SUFFICES ASSUME FramingInv, setup.mode = "read_until"
               PROVE  /\ FlattenSeq(output) \o held = stream /\ ~EndsLine(held)
                      /\ \A k \in DOMAIN output : OnlyLastEnds(output[k]) /\ EndsSomehow(output, k, late)
    BY DEF LinesAreTheStream, OnlyLastEnds, EndsSomehow, Ended
  <2>1. Lines(output, held, stream, late)
    BY DEF FramingInv, Kept
  <2> QED
    BY <2>1 DEF Lines, EndsLine, Ended, LongEnough
<1> QED
  BY <1>1, FramingInvInit, FramingInvNext, PTL DEF FramingSpec

(* However a stream is cut into chunks, for any terminator and any chain of   *)
(* transformations: the packets of Packetizer and FramedPacket, the bytes of  *)
(* the hexlify encoder and the text of miniterm are those that the stream has  *)
(* when it is looked at as a whole.                                          *)
THEOREM ChunkingIsInvisible == FramingSpec => []ChunksDoNotMatter
<1>1. FramingInv => ChunksDoNotMatter
  <2> SUFFICES ASSUME FramingInv PROVE ChunksDoNotMatter
    OBVIOUS
  <2>1. setup.mode = "packets" => Packets(stream)
    BY DEF FramingInv, Kept, PacketsGood, NoTerminator, WithEnds, Whole, Packets
  <2>2. setup.mode = "framed" => FramedPackets(stream)
    BY DEF FramingInv, Kept, FramedGood, FramedPackets
  <2>3. setup.mode = "hexlify" => HexBytes(stream)
    BY DEF FramingInv, Kept, HexGood, HexBytes, Value
  <2>4. setup.mode = "terminal" => output = Shown(Text(stream))
    BY DEF FramingInv, Kept
  <2> QED
    BY <2>1, <2>2, <2>3, <2>4 DEF ChunksDoNotMatter
<1> QED
  BY <1>1, FramingInvInit, FramingInvNext, PTL DEF FramingSpec
=============================================================================
