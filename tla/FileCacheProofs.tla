-------------------------- MODULE FileCacheProofs --------------------------
(***************************************************************************)
(* Theorems about FileCache: the total never drifts, what is on disk is    *)
(* charged to it, and eviction spares only dirty files, for any paths,     *)
(* sizes and limit.                                                        *)
(***************************************************************************)
EXTENDS FileCache, SequenceTheorems, SetInduction

(* The partial sums of the sizes of a sequence of entries.                 *)
LEMMA SumsStep ==
    ASSUME NEW t \in Seq(Entry)
    PROVE  /\ Sums(t) \in [0 .. Len(t) -> Nat] /\ Sums(t)[0] = 0
           /\ \A i \in 1 .. Len(t) : Sums(t)[i] = Sums(t)[i - 1] + t[i].size
  <1>0. PICK n \in Nat : n = Len(t)
      BY LenProperties
  <1>1. \A i \in 1 .. n : t[i].size \in Nat
    <2>1. \A i \in 1 .. n : t[i] \in Entry
        BY <1>0, ElementOfSeq
    <2>2. \A e \in Entry : e.size \in Nat
        BY BoundAssumption DEF Entry, Sizes
    <2> QED
        BY <2>1, <2>2
  <1>2. PICK step : step = [z \in (1 .. n) \X Nat |-> z[2] + t[z[1]].size]
      OBVIOUS
  <1>3. step \in [(1 .. n) \X Nat -> Nat]
    <2>1. \A z \in (1 .. n) \X Nat : z[2] + t[z[1]].size \in Nat
        BY <1>1
    <2> QED
        BY <1>2, <2>1
  <1>4. PICK f : Computes(f, n, Nat, 0, step)
    <2>1. 0 \in Nat
        OBVIOUS
    <2> QED
        BY <1>3, <2>1, Recursion
  <1>5. ASSUME NEW i \in 1 .. n
        PROVE  f[i] = f[i - 1] + t[i].size
    <2>1. i - 1 \in 0 .. n
        BY <1>1
    <2>2. <<i, f[i - 1]>> \in (1 .. n) \X Nat
        BY <1>4, <2>1 DEF Computes
    <2> QED
        BY <1>2, <1>4, <2>2 DEF Computes
  <1>6. f = [i \in 0 .. n |-> IF i = 0 THEN 0 ELSE f[i - 1] + t[i].size]
      BY <1>1, <1>4, <1>5 DEF Computes
  <1>7. \E g : g = [i \in 0 .. Len(t) |-> IF i = 0 THEN 0 ELSE g[i - 1] + t[i].size]
      BY <1>0, <1>6
  <1>8. Sums(t) = [i \in 0 .. Len(t) |->
                      IF i = 0 THEN 0 ELSE Sums(t)[i - 1] + t[i].size]
      BY <1>7 DEF Sums
  <1>9. PICK g : g = Sums(t)
      OBVIOUS
  <1>10. /\ DOMAIN g = 0 .. n /\ g[0] = 0
         /\ \A i \in 1 .. n : g[i] = g[i - 1] + t[i].size
      BY <1>0, <1>8, <1>9
  <1>11. 0 .. n \subseteq {i \in 0 .. n : g[i] \in Nat}
    <2> DEFINE T == {i \in 0 .. n : g[i] \in Nat}
    <2>1. 0 \in T
        BY <1>10
    <2>2. ASSUME NEW i \in 0 .. n - 1, i \in T
          PROVE  i + 1 \in T
      <3>1. i + 1 \in 1 .. n /\ (i + 1) - 1 = i
          OBVIOUS
      <3>2. g[i + 1] = g[i] + t[i + 1].size
          BY <1>10, <3>1
      <3>3. g[i] \in Nat /\ t[i + 1].size \in Nat
          BY <1>1, <2>2, <3>1
      <3>4. g[i + 1] \in Nat
          BY <3>2, <3>3
      <3> QED
          BY <3>1, <3>4
    <2> HIDE DEF T
    <2>3. 0 .. n \subseteq T
        BY <2>1, <2>2, UpTo
    <2> QED
        BY <2>3 DEF T
  <1>12. g = [i \in 0 .. n |-> g[i]]
      BY <1>0, <1>8, <1>9
  <1>13. g \in [0 .. n -> Nat]
      BY <1>11, <1>12
  <1> QED
      BY <1>0, <1>9, <1>10, <1>13

(* The sum of a sequence is a natural number.                              *)
LEMMA SumType ==
    ASSUME NEW t \in Seq(Entry)
    PROVE  Sum(t) \in Nat
  BY SumsStep, LenProperties DEF Sum

(* The sum of two sequences together is the sum of theirs.                 *)
LEMMA SumConcat ==
    ASSUME NEW s \in Seq(Entry), NEW t \in Seq(Entry)
    PROVE  Sum(s \o t) = Sum(s) + Sum(t)
  <1>1. PICK m \in Nat, n \in Nat : m = Len(s) /\ n = Len(t)
      BY LenProperties
  <1>2. /\ s \o t \in Seq(Entry) /\ Len(s \o t) = m + n
        /\ \A i \in 1 .. m + n :
              (s \o t)[i] = IF i <= m THEN s[i] ELSE t[i - m]
      BY <1>1, ConcatProperties
  <1>3. PICK f, g, h : f = Sums(s) /\ g = Sums(t) /\ h = Sums(s \o t)
      OBVIOUS
  <1>4. /\ f[0] = 0 /\ \A i \in 1 .. m : f[i] = f[i - 1] + s[i].size
        /\ g[0] = 0 /\ \A i \in 1 .. n : g[i] = g[i - 1] + t[i].size
        /\ h[0] = 0 /\ \A i \in 1 .. m + n : h[i] = h[i - 1] + (s \o t)[i].size
      BY <1>1, <1>2, <1>3, SumsStep
  <1>5. 0 .. m \subseteq {i \in 0 .. m : h[i] = f[i]}
    <2> DEFINE T == {i \in 0 .. m : h[i] = f[i]}
    <2>1. 0 \in T
        BY <1>4
    <2>2. ASSUME NEW i \in 0 .. m - 1, i \in T
          PROVE  i + 1 \in T
      <3>1. i + 1 \in 1 .. m /\ i + 1 \in 1 .. m + n /\ (i + 1) - 1 = i
          OBVIOUS
      <3>2. h[i + 1] = h[i] + s[i + 1].size
        <4>1. i + 1 <= m
            OBVIOUS
        <4>2. (s \o t)[i + 1] = s[i + 1]
            BY <1>2, <3>1, <4>1
        <4>3. h[i + 1] = h[(i + 1) - 1] + (s \o t)[i + 1].size
            BY <1>4, <3>1
        <4> QED
            BY <3>1, <4>2, <4>3
      <3>3. f[i + 1] = f[i] + s[i + 1].size
          BY <1>4, <3>1
      <3> QED
          BY <2>2, <3>1, <3>2, <3>3
    <2> HIDE DEF T
    <2>3. 0 .. m \subseteq T
        BY <2>1, <2>2, UpTo
    <2> QED
        BY <2>3 DEF T
  <1>6. 0 .. n \subseteq {i \in 0 .. n : h[m + i] = f[m] + g[i]}
    <2> DEFINE T == {i \in 0 .. n : h[m + i] = f[m] + g[i]}
    <2>1. f[m] \in Nat /\ \A i \in 0 .. n : g[i] \in Nat
      <3>1. f \in [0 .. m -> Nat] /\ g \in [0 .. n -> Nat]
          BY <1>1, <1>3, SumsStep
      <3> QED
          BY <3>1
    <2>2. 0 \in T
        BY <1>4, <1>5, <2>1
    <2>3. ASSUME NEW i \in 0 .. n - 1, i \in T
          PROVE  i + 1 \in T
      <3>1. /\ i + 1 \in 1 .. n /\ m + (i + 1) \in 1 .. m + n
            /\ (i + 1) - 1 = i /\ (m + (i + 1)) - 1 = m + i
            /\ (m + (i + 1)) - m = i + 1 /\ ~(m + (i + 1) <= m)
          OBVIOUS
      <3>2. h[m + (i + 1)] = h[m + i] + t[i + 1].size
          BY <1>2, <1>4, <3>1
      <3>3. g[i + 1] = g[i] + t[i + 1].size
          BY <1>4, <3>1
      <3>4. t[i + 1].size \in Nat
        <4>1. t[i + 1] \in Entry
            BY <1>1, <3>1, ElementOfSeq
        <4> QED
            BY <4>1, BoundAssumption DEF Entry, Sizes
      <3>5. h[m + i] = f[m] + g[i] /\ g[i] \in Nat
          BY <2>1, <2>3
      <3>6. h[m + (i + 1)] = f[m] + g[i + 1]
          BY <2>1, <3>2, <3>3, <3>4, <3>5
      <3> QED
          BY <3>1, <3>6
    <2> HIDE DEF T
    <2>4. 0 .. n \subseteq T
        BY <2>2, <2>3, UpTo
    <2> QED
        BY <2>4 DEF T
  <1>7. h[m + n] = f[m] + g[n]
      BY <1>6
  <1> QED
      BY <1>1, <1>2, <1>3, <1>7 DEF Sum

(* The sum of no entry.                                                    *)
LEMMA SumNone == Sum(<<>>) = 0
  <1>1. PICK t : t = <<>>
      OBVIOUS
  <1>2. t \in Seq(Entry) /\ Len(t) = 0
      BY <1>1, EmptySeq
  <1>3. Sums(t)[0] = 0
      BY <1>2, SumsStep
  <1> QED
      BY <1>1, <1>2, <1>3 DEF Sum

(* The sum of one entry is its size.                                       *)
LEMMA SumOne ==
    ASSUME NEW e \in Entry
    PROVE  Sum(<<e>>) = e.size
  <1>1. <<e>> \in Seq(Entry)
      OBVIOUS
  <1>2. Len(<<e>>) = 1 /\ <<e>>[1] = e
      OBVIOUS
  <1>3. e.size \in Nat
      BY BoundAssumption DEF Entry, Sizes
  <1>4. Sums(<<e>>)[1] = Sums(<<e>>)[0] + e.size /\ Sums(<<e>>)[0] = 0
    <2>1. PICK t : t = <<e>>
        OBVIOUS
    <2>2. t \in Seq(Entry) /\ Len(t) = 1 /\ t[1] = e
        BY <1>1, <1>2, <2>1
    <2>3. 1 \in 1 .. Len(t) /\ 1 - 1 = 0
        BY <2>2
    <2>4. Sums(t)[1] = Sums(t)[0] + t[1].size /\ Sums(t)[0] = 0
        BY <2>2, <2>3, SumsStep
    <2> QED
        BY <2>1, <2>2, <2>4
  <1> QED
      BY <1>2, <1>3, <1>4 DEF Sum

(* The sum after an entry is added at the end.                             *)
LEMMA SumAppend ==
    ASSUME NEW t \in Seq(Entry), NEW e \in Entry
    PROVE  Sum(Append(t, e)) = Sum(t) + e.size
  <1>1. Append(t, e) = t \o <<e>> /\ <<e>> \in Seq(Entry)
      BY AppendIsConcat
  <1> QED
      BY <1>1, SumConcat, SumOne

(* The sum after the first entry is taken.                                 *)
LEMMA SumTail ==
    ASSUME NEW t \in Seq(Entry), t # <<>>
    PROVE  Sum(t) = Head(t).size + Sum(Tail(t))
  <1>1. Head(t) \in Entry /\ Tail(t) \in Seq(Entry)
      BY HeadTailProperties
  <1>2. t = <<Head(t)>> \o Tail(t) /\ <<Head(t)>> \in Seq(Entry)
    <2>1. <<Head(t)>> \in Seq(Entry) /\ Len(<<Head(t)>>) = 1
        BY <1>1
    <2>2. Len(t) \in Nat \ {0} /\ Len(Tail(t)) = Len(t) - 1
        BY EmptySeq, HeadTailProperties
    <2>3. /\ <<Head(t)>> \o Tail(t) \in Seq(Entry)
          /\ Len(<<Head(t)>> \o Tail(t)) = Len(t)
          /\ \A i \in 1 .. Len(t) : (<<Head(t)>> \o Tail(t))[i] =
                IF i <= 1 THEN <<Head(t)>>[i] ELSE Tail(t)[i - 1]
        BY <1>1, <2>1, <2>2, ConcatProperties
    <2>4. \A i \in 1 .. Len(t) : (<<Head(t)>> \o Tail(t))[i] = t[i]
        BY <2>2, <2>3, HeadTailProperties
    <2> QED
        BY <2>1, <2>3, <2>4, SeqEqual
  <1> QED
      BY <1>1, <1>2, SumConcat, SumOne

-----------------------------------------------------------------------------
(* Sequences of entries: none has a path twice, the paths of two differ.   *)
Once(t) == \A i, j \in DOMAIN t : t[i].path = t[j].path => i = j
Apart(s, t) == \A x \in Range(s), y \in Range(t) : x.path # y.path

(* What RemoveAt leaves.                                                   *)
LEMMA Removal ==
    ASSUME NEW t \in Seq(Entry), NEW k \in 1 .. Len(t)
    PROVE  /\ RemoveAt(t, k) \in Seq(Entry)
           /\ Len(RemoveAt(t, k)) = Len(t) - 1
           /\ \A j \in 1 .. Len(t) - 1 :
                 RemoveAt(t, k)[j] = IF j < k THEN t[j] ELSE t[j + 1]
           /\ Sum(t) = Sum(RemoveAt(t, k)) + t[k].size
  <1>1. PICK n \in Nat : /\ n = Len(t) /\ k \in 1 .. n
                         /\ \A i \in 1 .. n : t[i] \in Entry
      BY LenProperties, ElementOfSeq
  <1>2. PICK a, b : a = SubSeq(t, 1, k - 1) /\ b = SubSeq(t, k + 1, n)
      OBVIOUS
  <1>3. /\ a \in Seq(Entry) /\ Len(a) = k - 1
        /\ \A i \in 1 .. k - 1 : a[i] = t[i]
    <2>1. \A i \in 1 .. k - 1 : t[i] \in Entry
        BY <1>1
    <2> QED
        BY <1>1, <1>2, <2>1, SubSeqProperties
  <1>4. /\ b \in Seq(Entry) /\ Len(b) = n - k
        /\ \A i \in 1 .. n - k : b[i] = t[k + i]
    <2>1. \A i \in k + 1 .. n : t[i] \in Entry
        BY <1>1
    <2> QED
        BY <1>1, <1>2, <2>1, SubSeqProperties
  <1>5. /\ a \o b \in Seq(Entry) /\ Len(a \o b) = n - 1
        /\ \A j \in 1 .. n - 1 :
              (a \o b)[j] = IF j <= k - 1 THEN a[j] ELSE b[j - (k - 1)]
    <2>1. Len(a) + Len(b) = n - 1
        BY <1>1, <1>3, <1>4
    <2>2. /\ a \o b \in Seq(Entry) /\ Len(a \o b) = Len(a) + Len(b)
          /\ \A j \in 1 .. Len(a) + Len(b) :
                (a \o b)[j] = IF j <= Len(a) THEN a[j] ELSE b[j - Len(a)]
        BY <1>3, <1>4, ConcatProperties
    <2> QED
        BY <1>3, <2>1, <2>2
  <1>6. \A j \in 1 .. n - 1 : (a \o b)[j] = IF j < k THEN t[j] ELSE t[j + 1]
      BY <1>1, <1>3, <1>4, <1>5
  <1>7. PICK e : e = <<t[k]>>
      OBVIOUS
  <1>8. e \in Seq(Entry) /\ Len(e) = 1 /\ e[1] = t[k] /\ Sum(e) = t[k].size
      BY <1>1, <1>7, SumOne
  <1>9. /\ a \o e \in Seq(Entry) /\ Len(a \o e) = k
        /\ \A j \in 1 .. k : (a \o e)[j] = IF j <= k - 1 THEN a[j] ELSE e[j - (k - 1)]
    <2>1. Len(a) + Len(e) = k
        BY <1>1, <1>3, <1>8
    <2>2. /\ a \o e \in Seq(Entry) /\ Len(a \o e) = Len(a) + Len(e)
          /\ \A j \in 1 .. Len(a) + Len(e) :
                (a \o e)[j] = IF j <= Len(a) THEN a[j] ELSE e[j - Len(a)]
        BY <1>3, <1>8, ConcatProperties
    <2> QED
        BY <1>3, <2>1, <2>2
  <1>10. t = (a \o e) \o b
    <2>1. \A j \in 1 .. k : (a \o e)[j] = t[j]
        BY <1>1, <1>3, <1>8, <1>9
    <2>2. PICK c : c = a \o e
        OBVIOUS
    <2>3. c \in Seq(Entry) /\ Len(c) = k /\ \A j \in 1 .. k : c[j] = t[j]
        BY <1>9, <2>1, <2>2
    <2>4. Len(c) + Len(b) = n
        BY <1>1, <1>4, <2>3
    <2>5. /\ c \o b \in Seq(Entry) /\ Len(c \o b) = Len(c) + Len(b)
          /\ \A j \in 1 .. Len(c) + Len(b) :
                (c \o b)[j] = IF j <= Len(c) THEN c[j] ELSE b[j - Len(c)]
        BY <1>4, <2>3, ConcatProperties
    <2>6. ASSUME NEW j \in 1 .. n
          PROVE  (c \o b)[j] = t[j]
      <3>1. CASE j <= k
          BY <1>1, <2>3, <2>4, <2>5, <3>1
      <3>2. CASE j > k
        <4>1. j - k \in 1 .. n - k /\ k + (j - k) = j
            BY <1>1, <3>2
        <4> QED
            BY <1>1, <1>4, <2>3, <2>4, <2>5, <3>2, <4>1
      <3>3. j <= k \/ j > k
        <4>1. k \in Int /\ j \in Int
            BY <1>1
        <4> QED
            BY <4>1
      <3> QED
          BY <3>1, <3>2, <3>3
    <2> QED
        BY <1>1, <2>2, <2>4, <2>5, <2>6, SeqEqual
  <1>11. Sum(t) = (Sum(a) + t[k].size) + Sum(b)
    <2>1. Sum(a \o e) = Sum(a) + t[k].size
        BY <1>3, <1>8, SumConcat
    <2>2. Sum((a \o e) \o b) = Sum(a \o e) + Sum(b)
        BY <1>4, <1>9, SumConcat
    <2> QED
        BY <1>10, <2>1, <2>2
  <1>12. Sum(a \o b) = Sum(a) + Sum(b) /\ Sum(a) \in Nat /\ Sum(b) \in Nat
      BY <1>3, <1>4, SumConcat, SumType
  <1>13. t[k].size \in Nat
      BY <1>1, BoundAssumption DEF Entry, Sizes
  <1>14. RemoveAt(t, k) = a \o b
      BY <1>1, <1>2 DEF RemoveAt
  <1>15. Sum(t) = Sum(a \o b) + t[k].size
    <2>1. PICK x, y, z : x = Sum(a) /\ y = Sum(b) /\ z = t[k].size
        OBVIOUS
    <2>2. x \in Nat /\ y \in Nat /\ z \in Nat
        BY <1>12, <1>13, <2>1
    <2>3. (x + z) + y = (x + y) + z
        BY <2>2
    <2> QED
        BY <1>11, <1>12, <2>1, <2>3
  <1>16. PICK u : u = a \o b
      OBVIOUS
  <1>17. RemoveAt(t, k) = u /\ Sum(t) = Sum(u) + t[k].size
      BY <1>14, <1>15, <1>16
  <1>18. /\ u \in Seq(Entry) /\ Len(u) = Len(t) - 1
         /\ \A j \in 1 .. Len(t) - 1 : u[j] = IF j < k THEN t[j] ELSE t[j + 1]
      BY <1>1, <1>5, <1>6, <1>16
  <1> QED
      BY <1>17, <1>18

(* The table without a path.                                               *)
LEMMA WithoutPath ==
    ASSUME lru \in Seq(Entry), Once(lru), NEW p \in Paths
    PROVE  /\ Without(p) \in Seq(Entry) /\ Once(Without(p))
           /\ Range(Without(p)) = {e \in Range(lru) : e.path # p}
           /\ SizeIn(p) \in Sizes /\ Sum(lru) = Sum(Without(p)) + SizeIn(p)
           /\ InTable(p) => [path |-> p, size |-> SizeIn(p)] \in Range(lru)
  <1>1. PICK n \in Nat : n = Len(lru) /\ DOMAIN lru = 1 .. n
                         /\ \A i \in 1 .. n : lru[i] \in Entry
      BY LenProperties, ElementOfSeq
  <1>2. CASE InTable(p)
    <2>1. PICK k \in 1 .. n : k = Place(p) /\ lru[k].path = p
        BY <1>1, <1>2 DEF InTable, Place
    <2>2. PICK w : w = RemoveAt(lru, k)
        OBVIOUS
    <2>3. /\ w \in Seq(Entry) /\ Len(w) = n - 1
          /\ \A j \in 1 .. n - 1 : w[j] = IF j < k THEN lru[j] ELSE lru[j + 1]
          /\ Sum(lru) = Sum(w) + lru[k].size
        BY <1>1, <2>2, Removal
    <2>4. DOMAIN w = 1 .. n - 1
        BY <2>3, LenProperties
    <2>5. Once(w)
      <3>1. \A j \in 1 .. n - 1 : (IF j < k THEN j ELSE j + 1) \in 1 .. n
          BY <1>1
      <3>2. \A j \in 1 .. n - 1 : w[j] = lru[IF j < k THEN j ELSE j + 1]
          BY <2>3
      <3>3. ASSUME NEW i \in 1 .. n - 1, NEW j \in 1 .. n - 1, w[i].path = w[j].path
            PROVE  i = j
        <4>1. (IF i < k THEN i ELSE i + 1) = (IF j < k THEN j ELSE j + 1)
            BY <1>1, <3>1, <3>2, <3>3 DEF Once
        <4> QED
            BY <1>1, <4>1
      <3> QED
          BY <2>4, <3>3 DEF Once
    <2>6. \A i \in 1 .. n : lru[i].path = p <=> i = k
        BY <1>1, <2>1 DEF Once
    <2>7. Range(w) = {e \in Range(lru) : e.path # p}
      <3>1. ASSUME NEW j \in 1 .. n - 1
            PROVE  \E i \in 1 .. n : w[j] = lru[i] /\ lru[i].path # p
        <4>1. CASE j < k
            BY <2>3, <2>6, <4>1
        <4>2. CASE ~(j < k)
          <5>1. j + 1 \in 1 .. n /\ j + 1 # k
              BY <4>2
          <5> QED
              BY <2>3, <2>6, <4>2, <5>1
        <4> QED
            BY <4>1, <4>2
      <3>2. ASSUME NEW i \in 1 .. n, lru[i].path # p
            PROVE  \E j \in 1 .. n - 1 : w[j] = lru[i]
        <4>1. CASE i < k
            BY <2>3, <4>1
        <4>2. CASE i > k
          <5>1. i - 1 \in 1 .. n - 1 /\ ~(i - 1 < k) /\ (i - 1) + 1 = i
              BY <4>2
          <5> QED
              BY <2>3, <5>1
        <4> QED
            BY <2>1, <3>2, <4>1, <4>2
      <3>3. ASSUME NEW e, e \in Range(w)
            PROVE  e \in Range(lru) /\ e.path # p
        <4>1. PICK j \in 1 .. n - 1 : e = w[j]
            BY <2>4, <3>3 DEF Range
        <4>2. PICK i \in 1 .. n : w[j] = lru[i] /\ lru[i].path # p
            BY <3>1
        <4> QED
            BY <1>1, <4>1, <4>2 DEF Range
      <3>4. ASSUME NEW e, e \in Range(lru), e.path # p
            PROVE  e \in Range(w)
          BY <1>1, <2>4, <3>2, <3>4 DEF Range
      <3> QED
          BY <3>3, <3>4
    <2>8. /\ SizeIn(p) = lru[k].size /\ lru[k].size \in Sizes
          /\ lru[k] = [path |-> p, size |-> lru[k].size]
        BY <1>1, <1>2, <2>1 DEF SizeIn, Entry
    <2>9. Without(p) = w
        BY <1>2, <2>1, <2>2 DEF Without
    <2>10. [path |-> p, size |-> SizeIn(p)] \in Range(lru)
        BY <1>1, <2>8 DEF Range
    <2> QED
        BY <2>3, <2>5, <2>7, <2>8, <2>9, <2>10
  <1>3. CASE ~InTable(p)
    <2>1. 0 \in Sizes
        BY BoundAssumption DEF Sizes
    <2> QED
        BY <1>1, <1>3, <2>1, SumType DEF Without, SizeIn, InTable, Range
  <1> QED
      BY <1>2, <1>3

(* A sequence with one more entry at its end, of another path.             *)
LEMMA Appending ==
    ASSUME NEW t \in Seq(Entry), Once(t), NEW e \in Entry,
           \A x \in Range(t) : x.path # e.path
    PROVE  /\ Append(t, e) \in Seq(Entry) /\ Once(Append(t, e))
           /\ Range(Append(t, e)) = Range(t) \cup {e}
           /\ Sum(Append(t, e)) = Sum(t) + e.size
           /\ \A i \in DOMAIN Append(t, e) :
                 Append(t, e)[i].path = e.path => i = Len(Append(t, e))
  <1>1. PICK n \in Nat : n = Len(t) /\ DOMAIN t = 1 .. n
      BY LenProperties
  <1>2. PICK a : a = Append(t, e)
      OBVIOUS
  <1>3. /\ a \in Seq(Entry) /\ Len(a) = n + 1 /\ a[n + 1] = e
        /\ \A i \in 1 .. n : a[i] = t[i]
      BY <1>1, <1>2, AppendProperties
  <1>4. DOMAIN a = 1 .. n + 1
      BY <1>3, LenProperties
  <1>5. \A i \in 1 .. n : a[i].path # e.path
      BY <1>1, <1>3 DEF Range
  <1>6. Once(a)
      BY <1>1, <1>3, <1>4, <1>5 DEF Once
  <1>7. Range(a) = Range(t) \cup {e}
    <2>1. n + 1 \in 1 .. n + 1 /\ \A i \in 1 .. n + 1 : i \in 1 .. n \/ i = n + 1
        OBVIOUS
    <2>2. \A i \in 1 .. n : i \in 1 .. n + 1
        OBVIOUS
    <2> QED
        BY <1>1, <1>3, <1>4, <2>1, <2>2 DEF Range
  <1> QED
      BY <1>2, <1>3, <1>4, <1>5, <1>6, <1>7, SumAppend

(* put: the entry of the path is replaced by one at the end.               *)
LEMMA Putting ==
    ASSUME lru \in Seq(Entry), Once(lru), NEW p \in Paths, NEW s \in Sizes
    PROVE  /\ Put(p, s) \in Seq(Entry) /\ Once(Put(p, s))
           /\ Range(Put(p, s))
                 = {e \in Range(lru) : e.path # p} \cup {[path |-> p, size |-> s]}
           /\ SizeIn(p) \in Nat /\ Sum(Put(p, s)) \in Nat
           /\ Sum(lru) = Sum(Without(p)) + SizeIn(p)
           /\ Sum(Put(p, s)) = Sum(Without(p)) + s /\ Sum(Without(p)) \in Nat
           /\ \A i \in DOMAIN Put(p, s) :
                 Put(p, s)[i].path = p => i = Len(Put(p, s))
  <1>1. PICK w, e : w = Without(p) /\ e = [path |-> p, size |-> s]
      OBVIOUS
  <1>2. e \in Entry /\ e.path = p /\ e.size = s
      BY <1>1 DEF Entry
  <1>3. /\ w \in Seq(Entry) /\ Once(w)
        /\ Range(w) = {x \in Range(lru) : x.path # p}
        /\ SizeIn(p) \in Sizes /\ Sum(lru) = Sum(w) + SizeIn(p)
      BY <1>1, WithoutPath
  <1>4. Put(p, s) = Append(w, e)
      BY <1>1 DEF Put
  <1>5. \A x \in Range(w) : x.path # e.path
      BY <1>2, <1>3
  <1>6. /\ Append(w, e) \in Seq(Entry) /\ Once(Append(w, e))
        /\ Range(Append(w, e)) = Range(w) \cup {e}
        /\ Sum(Append(w, e)) = Sum(w) + e.size
        /\ \A i \in DOMAIN Append(w, e) :
              Append(w, e)[i].path = e.path => i = Len(Append(w, e))
      BY <1>2, <1>3, <1>5, Appending
  <1>7. Sum(w) \in Nat /\ Sum(Append(w, e)) \in Nat
      BY <1>3, <1>6, SumType
  <1>8. SizeIn(p) \in Nat
      BY <1>3, BoundAssumption DEF Sizes
  <1> QED
      BY <1>1, <1>2, <1>3, <1>4, <1>6, <1>7, <1>8

(* get: the entry of the path moves to the end; nothing else changes.      *)
LEMMA Touching ==
    ASSUME lru \in Seq(Entry), Once(lru), NEW p \in Paths
    PROVE  /\ Touched(p) \in Seq(Entry) /\ Once(Touched(p))
           /\ Range(Touched(p)) = Range(lru) /\ Sum(Touched(p)) = Sum(lru)
  <1>1. CASE InTable(p)
    <2>1. PICK s \in Sizes : s = SizeIn(p)
        BY WithoutPath
    <2>2. [path |-> p, size |-> s] \in Range(lru)
        BY <1>1, <2>1, WithoutPath
    <2>3. ASSUME NEW x \in Range(lru), x.path = p
          PROVE  x = [path |-> p, size |-> s]
      <3>1. [path |-> p, size |-> s].path = p
          OBVIOUS
      <3> QED
          BY <2>2, <2>3, <3>1 DEF Once, Range
    <2>4. Range(Put(p, s)) = Range(lru)
      <3>1. Range(Put(p, s))
               = {e \in Range(lru) : e.path # p} \cup {[path |-> p, size |-> s]}
          BY Putting
      <3> QED
          BY <2>2, <2>3, <3>1
    <2>5. Touched(p) = Put(p, s)
        BY <1>1, <2>1 DEF Touched
    <2>6. /\ Put(p, s) \in Seq(Entry) /\ Once(Put(p, s))
          /\ Sum(Put(p, s)) = Sum(lru)
        BY <2>1, Putting
    <2> QED
        BY <2>4, <2>5, <2>6
  <1>2. CASE ~InTable(p)
      BY <1>2 DEF Touched
  <1> QED
      BY <1>1, <1>2

(* The head of a sequence and the rest.                                    *)
LEMMA Taking ==
    ASSUME NEW t \in Seq(Entry), Once(t), t # <<>>
    PROVE  /\ Head(t) \in Entry /\ Tail(t) \in Seq(Entry) /\ Once(Tail(t))
           /\ Range(t) = Range(Tail(t)) \cup {Head(t)}
           /\ \A x \in Range(Tail(t)) : x.path # Head(t).path
           /\ Sum(t) = Head(t).size + Sum(Tail(t))
  <1>1. PICK n \in Nat : n = Len(t) /\ n > 0 /\ DOMAIN t = 1 .. n /\ Head(t) = t[1]
      BY LenProperties, EmptySeq
  <1>2. PICK r : r = Tail(t)
      OBVIOUS
  <1>3. /\ Head(t) \in Entry /\ r \in Seq(Entry) /\ Len(r) = n - 1
        /\ \A i \in 1 .. n - 1 : r[i] = t[i + 1]
      BY <1>1, <1>2, HeadTailProperties
  <1>4. DOMAIN r = 1 .. n - 1
      BY <1>3, LenProperties
  <1>5. \A i \in 1 .. n - 1 : i + 1 \in 1 .. n /\ i + 1 # 1
      OBVIOUS
  <1>6. Once(r)
    <2>1. ASSUME NEW i \in 1 .. n - 1, NEW j \in 1 .. n - 1, r[i].path = r[j].path
          PROVE  i = j
      <3>1. i + 1 = j + 1
          BY <1>1, <1>3, <1>5, <2>1 DEF Once
      <3> QED
          BY <3>1
    <2> QED
        BY <1>4, <2>1 DEF Once
  <1>7. ASSUME NEW x \in Range(r)
        PROVE  x.path # Head(t).path /\ x \in Range(t)
    <2>1. PICK i \in 1 .. n - 1 : x = t[i + 1]
        BY <1>3, <1>4 DEF Range
    <2>2. 1 \in 1 .. n
        BY <1>1
    <2> QED
        BY <1>1, <1>5, <2>1, <2>2 DEF Once, Range
  <1>8. ASSUME NEW x \in Range(t)
        PROVE  x \in Range(r) \/ x = Head(t)
    <2>1. PICK i \in 1 .. n : x = t[i]
        BY <1>1 DEF Range
    <2>2. CASE i = 1
        BY <1>1, <2>1, <2>2
    <2>3. CASE i # 1
      <3>1. i - 1 \in 1 .. n - 1 /\ (i - 1) + 1 = i
          BY <2>3
      <3>2. r[i - 1] = x
          BY <1>3, <2>1, <3>1
      <3> QED
          BY <1>4, <3>1, <3>2 DEF Range
    <2> QED
        BY <2>2, <2>3
  <1>9. Head(t) \in Range(t)
      BY <1>1 DEF Range
  <1>10. Range(t) = Range(r) \cup {Head(t)}
      BY <1>7, <1>8, <1>9
  <1> QED
      BY <1>2, <1>3, <1>6, <1>7, <1>10, SumTail

(* Two sequences together.                                                 *)
LEMMA Joining ==
    ASSUME NEW s \in Seq(Entry), NEW t \in Seq(Entry), Once(s), Once(t), Apart(s, t)
    PROVE  /\ s \o t \in Seq(Entry) /\ Once(s \o t)
           /\ Range(s \o t) = Range(s) \cup Range(t)
           /\ Sum(s \o t) = Sum(s) + Sum(t)
  <1>1. PICK m \in Nat, n \in Nat : /\ m = Len(s) /\ DOMAIN s = 1 .. m
                                    /\ n = Len(t) /\ DOMAIN t = 1 .. n
      BY LenProperties
  <1>2. PICK c : c = s \o t
      OBVIOUS
  <1>3. /\ c \in Seq(Entry) /\ Len(c) = m + n
        /\ \A i \in 1 .. m + n : c[i] = IF i <= m THEN s[i] ELSE t[i - m]
      BY <1>1, <1>2, ConcatProperties
  <1>4. DOMAIN c = 1 .. m + n
      BY <1>3, LenProperties
  <1>5. \A i \in 1 .. m + n : IF i <= m THEN i \in 1 .. m ELSE i - m \in 1 .. n
      OBVIOUS
  <1>6. ASSUME NEW i \in 1 .. m + n, NEW j \in 1 .. m + n, c[i].path = c[j].path
        PROVE  i = j
    <2>1. CASE i <= m /\ j <= m
        BY <1>1, <1>3, <1>5, <1>6, <2>1 DEF Once
    <2>2. CASE ~(i <= m) /\ ~(j <= m)
      <3>1. i - m \in 1 .. n /\ j - m \in 1 .. n
          BY <1>5, <2>2
      <3>2. c[i] = t[i - m] /\ c[j] = t[j - m]
          BY <1>3, <2>2
      <3>3. i - m = j - m
          BY <1>1, <1>6, <3>1, <3>2 DEF Once
      <3> QED
          BY <3>3
    <2>3. CASE i <= m /\ ~(j <= m)
        BY <1>1, <1>3, <1>5, <1>6, <2>3 DEF Apart, Range
    <2>4. CASE ~(i <= m) /\ j <= m
        BY <1>1, <1>3, <1>5, <1>6, <2>4 DEF Apart, Range
    <2> QED
        BY <2>1, <2>2, <2>3, <2>4
  <1>7. Once(c)
      BY <1>4, <1>6 DEF Once
  <1> QED
      BY <1>2, <1>3, <1>7, SumConcat, RangeConcatenation

-----------------------------------------------------------------------------
(* The inductive invariant: the types; each path at most once in the table *)
(* or among what the loop set aside, which is empty between evictions; the *)
(* three properties; and, while the loop runs, the file it runs for last.  *)
CacheTypes ==
    /\ lru \in Seq(Entry) /\ held \in Seq(Entry)
    /\ total \in Nat /\ evicting \in BOOLEAN
    /\ copy \in [Paths -> Sizes \cup {NoCopy}]
    /\ {open, dirty, kept, untracked, newest} \subseteq SUBSET Paths
EachOnce == Once(lru) /\ Once(held) /\ Apart(lru, held)
Accounted ==
    \A p \in Paths :
        copy[p] # NoCopy /\ p \notin untracked
            => [path |-> p, size |-> copy[p]] \in Range(lru) \cup Range(held)
NewestLast ==
    evicting => \A i \in DOMAIN lru : lru[i].path \in newest => i = Len(lru)
TableInv ==
    /\ CacheTypes /\ EachOnce
    /\ ~evicting => held = <<>>
    /\ TotalIsSum /\ OverLimitOnlyDirty /\ NewestLast
CacheInv == TableInv /\ Accounted

(* The paths of a sequence are those of its entries.                       *)
LEMMA PathsOfRange ==
    ASSUME NEW t
    PROVE  PathsOf(t) = {e.path : e \in Range(t)}
  BY DEF PathsOf, Range

(* A copy is charged in the table or in what is set aside.                 *)
LEMMA AccountedIs ==
    ASSUME CacheTypes
    PROVE  CopyAccounted <=> Accounted
  <1>1. Range(lru \o held) = Range(lru) \cup Range(held)
      BY RangeConcatenation DEF CacheTypes
  <1> QED
      BY <1>1 DEF CopyAccounted, Accounted

(* add_file and update_size, with a copy of the new size.                  *)
LEMMA AccountStep ==
    ASSUME CacheInv, ~evicting, NEW p \in Paths, NEW s \in Sizes,
           AddFile(p, s) \/ UpdateSize(p, s),
           copy' = [copy EXCEPT ![p] = s],
           {open', dirty'} \subseteq SUBSET Paths
    PROVE  CacheInv'
  <1> USE DEF CacheInv, TableInv
  <1>1. held = <<>> /\ Sum(held) = 0 /\ Range(held) = {}
    <2>1. DOMAIN <<>> = {}
        OBVIOUS
    <2> QED
        BY <2>1, SumNone DEF Range
  <1>2. lru \in Seq(Entry) /\ Once(lru)
      BY DEF CacheTypes, EachOnce
  <1>3. /\ Put(p, s) \in Seq(Entry) /\ Once(Put(p, s))
        /\ Range(Put(p, s))
              = {e \in Range(lru) : e.path # p} \cup {[path |-> p, size |-> s]}
        /\ SizeIn(p) \in Nat /\ Sum(Put(p, s)) \in Nat
        /\ Sum(lru) = Sum(Without(p)) + SizeIn(p)
        /\ Sum(Put(p, s)) = Sum(Without(p)) + s /\ Sum(Without(p)) \in Nat
        /\ \A i \in DOMAIN Put(p, s) :
              Put(p, s)[i].path = p => i = Len(Put(p, s))
      BY <1>2, Putting
  <1>4. /\ lru' = Put(p, s) /\ evicting' = TRUE /\ newest' = {p}
        /\ untracked' = untracked \ {p} /\ UNCHANGED <<held, kept>>
        /\ total' = total - SizeIn(p) + s
    <2>1. total >= SizeIn(p)
      <3>1. total = Sum(Without(p)) + SizeIn(p)
          BY <1>1, <1>3 DEF TotalIsSum
      <3> QED
          BY <1>3, <3>1
    <2> QED
        BY <2>1 DEF AddFile, UpdateSize, Account
  <1>5. s \in Nat
      BY BoundAssumption DEF Sizes
  <1>6. total' = Sum(lru') + Sum(held') /\ total' \in Nat
    <2>1. total = Sum(Without(p)) + SizeIn(p)
        BY <1>1, <1>3 DEF TotalIsSum
    <2>2. total' = Sum(Without(p)) + s
        BY <1>3, <1>4, <1>5, <2>1
    <2>3. held' = held
        BY <1>4
    <2> QED
        BY <1>1, <1>3, <1>4, <2>2, <2>3
  <1>7. CacheTypes'
      BY <1>3, <1>4, <1>6 DEF CacheTypes
  <1>8. EachOnce'
      BY <1>1, <1>3, <1>4 DEF EachOnce, Apart, Once, Range
  <1>9. Accounted'
    <2>1. ASSUME NEW q \in Paths, copy'[q] # NoCopy, q \notin untracked'
          PROVE  [path |-> q, size |-> copy'[q]] \in Range(lru')
      <3>1. CASE q = p
          BY <1>3, <1>4, <3>1 DEF CacheTypes
      <3>2. CASE q # p
        <4>1. copy'[q] = copy[q] /\ q \notin untracked
            BY <1>4, <2>1, <3>2 DEF CacheTypes
        <4>2. [path |-> q, size |-> copy[q]] \in Range(lru)
            BY <1>1, <2>1, <4>1 DEF Accounted
        <4>3. [path |-> q, size |-> copy[q]].path # p
            BY <3>2
        <4> QED
            BY <1>3, <1>4, <4>1, <4>2, <4>3
      <3> QED
          BY <3>1, <3>2
    <2> QED
        BY <2>1 DEF Accounted
  <1>10. NewestLast'
      BY <1>3, <1>4 DEF NewestLast
  <1> QED
      BY <1>4, <1>6, <1>7, <1>8, <1>9, <1>10 DEF TotalIsSum, OverLimitOnlyDirty

(* An entry is touched; a copy that changes is not charged any more.       *)
LEMMA TouchStep ==
    ASSUME CacheInv, ~evicting, NEW p \in Paths, lru' = Touched(p),
           copy' \in [Paths -> Sizes \cup {NoCopy}],
           {open', dirty', untracked'} \subseteq SUBSET Paths,
           \A q \in Paths : \/ copy'[q] = copy[q] /\ (q \in untracked => q \in untracked')
                            \/ q \in untracked',
           UNCHANGED <<total, evictVars>>
    PROVE  CacheInv'
  <1> USE DEF CacheInv, TableInv, evictVars
  <1>1. lru \in Seq(Entry) /\ Once(lru)
      BY DEF CacheTypes, EachOnce
  <1>2. /\ lru' \in Seq(Entry) /\ Once(lru') /\ Range(lru') = Range(lru)
        /\ Sum(lru') = Sum(lru)
      BY <1>1, Touching
  <1>3. CacheTypes' /\ EachOnce' /\ Accounted'
      BY <1>2 DEF CacheTypes, EachOnce, Apart, Accounted
  <1>4. PathsOf(lru') = PathsOf(lru)
      BY <1>2, PathsOfRange
  <1> QED
      BY <1>2, <1>3, <1>4 DEF TotalIsSum, OverLimitOnlyDirty, NewestLast

(* The table stays as it is.                                               *)
LEMMA SameTable ==
    ASSUME CacheInv, UNCHANGED <<tableVars, evictVars>>,
           copy' \in [Paths -> Sizes \cup {NoCopy}],
           {open', dirty', untracked'} \subseteq SUBSET Paths,
           \A p \in Paths : \/ copy'[p] = copy[p] /\ (p \in untracked => p \in untracked')
                            \/ copy'[p] = NoCopy \/ p \in untracked'
    PROVE  CacheInv'
  <1> USE DEF CacheInv, TableInv, evictVars, tableVars
  <1>1. CacheTypes' /\ EachOnce'
      BY DEF CacheTypes, EachOnce
  <1>2. Accounted'
      BY DEF Accounted
  <1> QED
      BY <1>1, <1>2 DEF TotalIsSum, OverLimitOnlyDirty, NewestLast

(* One turn of the loop of evict_if_needed.                                *)
LEMMA EvictOneStep ==
    ASSUME CacheInv, EvictOne
    PROVE  CacheInv'
  <1> USE DEF CacheInv, TableInv
  <1>1. PICK e, r : e = Head(lru) /\ r = Tail(lru)
      OBVIOUS
  <1>2. /\ evicting /\ lru # <<>> /\ lru' = r
        /\ UNCHANGED <<evicting, open, dirty, kept, untracked, newest>>
      BY <1>1 DEF EvictOne
  <1>3. lru \in Seq(Entry) /\ held \in Seq(Entry) /\ Once(lru) /\ Once(held)
      BY DEF CacheTypes, EachOnce
  <1>4. /\ e \in Entry /\ r \in Seq(Entry) /\ Once(r)
        /\ Range(lru) = Range(r) \cup {e}
        /\ \A x \in Range(r) : x.path # e.path
        /\ Sum(lru) = e.size + Sum(r)
      BY <1>1, <1>2, <1>3, Taking
  <1>5. e.path \in Paths /\ e.size \in Nat
      BY <1>4, BoundAssumption DEF Entry, Sizes
  <1>6. Sum(r) \in Nat /\ Sum(held) \in Nat
      BY <1>3, <1>4, SumType
  <1>7. \A x \in Range(held) : x.path # e.path
      BY <1>4 DEF EachOnce, Apart
  <1>8. NewestLast'
    <2>1. PICK n \in Nat : n = Len(lru) /\ DOMAIN lru = 1 .. n
        BY <1>3, LenProperties
    <2>2. /\ DOMAIN r = 1 .. n - 1 /\ Len(r) = n - 1
          /\ \A i \in 1 .. n - 1 : r[i] = lru[i + 1]
      <3>1. /\ Len(r) = n - 1
            /\ \A i \in 1 .. Len(r) : r[i] = lru[i + 1]
          BY <1>1, <1>2, <1>3, <2>1, HeadTailProperties
      <3> QED
          BY <1>4, <3>1, LenProperties
    <2>3. \A i \in 1 .. n - 1 : i + 1 \in 1 .. n
        OBVIOUS
    <2>4. ASSUME NEW i \in 1 .. n - 1, r[i].path \in newest
          PROVE  i = n - 1
      <3>1. i + 1 = n
          BY <1>2, <2>1, <2>2, <2>3, <2>4 DEF NewestLast
      <3> QED
          BY <2>1, <3>1
    <2> QED
        BY <1>2, <2>2, <2>4 DEF NewestLast
  <1>9. CASE e.path \in dirty
    <2>1. held' = Append(held, e) /\ UNCHANGED <<total, copy>>
        BY <1>1, <1>9 DEF EvictOne
    <2>2. /\ held' \in Seq(Entry) /\ Once(held')
          /\ Range(held') = Range(held) \cup {e}
          /\ Sum(held') = Sum(held) + e.size
        BY <1>3, <1>4, <1>7, <2>1, Appending
    <2>3. CacheTypes'
        BY <1>2, <1>4, <2>1, <2>2 DEF CacheTypes
    <2>4. EachOnce'
        BY <1>2, <1>4, <2>2 DEF EachOnce, Apart
    <2>5. Accounted'
        BY <1>2, <1>4, <2>1, <2>2 DEF Accounted
    <2>6. TotalIsSum'
        BY <1>2, <1>4, <1>5, <1>6, <2>1, <2>2 DEF TotalIsSum
    <2> QED
        BY <1>2, <1>8, <2>3, <2>4, <2>5, <2>6 DEF OverLimitOnlyDirty
  <1>10. CASE e.path \notin dirty
    <2>1. /\ copy' = [copy EXCEPT ![e.path] = NoCopy]
          /\ total' = total - e.size /\ UNCHANGED held
        BY <1>1, <1>10 DEF EvictOne
    <2>2. total' = Sum(r) + Sum(held)
        BY <1>4, <1>5, <1>6, <2>1 DEF TotalIsSum
    <2>3. CacheTypes'
        BY <1>2, <1>4, <1>5, <1>6, <2>1, <2>2 DEF CacheTypes
    <2>4. EachOnce'
        BY <1>2, <1>4, <2>1 DEF EachOnce, Apart
    <2>5. Accounted'
      <3>1. ASSUME NEW q \in Paths, copy'[q] # NoCopy, q \notin untracked
            PROVE  [path |-> q, size |-> copy'[q]] \in Range(r) \cup Range(held)
        <4>1. q # e.path /\ copy'[q] = copy[q]
            BY <2>1, <3>1 DEF CacheTypes
        <4>2. [path |-> q, size |-> copy[q]] # e
            BY <4>1
        <4> QED
            BY <1>4, <3>1, <4>1, <4>2 DEF Accounted
      <3> QED
          BY <1>2, <2>1, <3>1 DEF Accounted
    <2> QED
        BY <1>2, <1>8, <2>1, <2>2, <2>3, <2>4, <2>5
        DEF TotalIsSum, OverLimitOnlyDirty
  <1> QED
      BY <1>9, <1>10

(* The end of evict_if_needed puts back what the loop has set aside.       *)
LEMMA EvictEndStep ==
    ASSUME CacheInv, EvictEnd
    PROVE  CacheInv'
  <1> USE DEF CacheInv, TableInv
  <1>1. /\ lru' = lru \o held /\ held' = <<>> /\ evicting' = FALSE
        /\ kept' = PathsOf(held) /\ (total <= MaxSize \/ lru = <<>>)
        /\ UNCHANGED <<total, copy, open, dirty, untracked, newest>>
      BY DEF EvictEnd
  <1>2. /\ lru \in Seq(Entry) /\ held \in Seq(Entry)
        /\ Once(lru) /\ Once(held) /\ Apart(lru, held)
      BY DEF CacheTypes, EachOnce
  <1>3. /\ lru' \in Seq(Entry) /\ Once(lru')
        /\ Range(lru') = Range(lru) \cup Range(held)
        /\ Sum(lru') = Sum(lru) + Sum(held)
      BY <1>1, <1>2, Joining
  <1>4. held' \in Seq(Entry) /\ Once(held') /\ Range(held') = {} /\ Sum(held') = 0
    <2>1. DOMAIN <<>> = {}
        OBVIOUS
    <2> QED
        BY <1>1, <2>1, SumNone, EmptySeq DEF Once, Range
  <1>5. Sum(lru') \in Nat
      BY <1>3, SumType
  <1>6. kept' \in SUBSET Paths
    <2>1. \A i \in DOMAIN held : held[i] \in Entry
        BY <1>2, LenProperties, ElementOfSeq
    <2> QED
        BY <1>1, <2>1 DEF PathsOf, Entry
  <1>7. CacheTypes'
      BY <1>1, <1>3, <1>4, <1>6 DEF CacheTypes
  <1>8. EachOnce' /\ Accounted'
      BY <1>1, <1>3, <1>4 DEF EachOnce, Apart, Accounted
  <1>9. TotalIsSum'
      BY <1>1, <1>3, <1>4, <1>5 DEF TotalIsSum
  <1>10. OverLimitOnlyDirty'
    <2>1. total' > MaxSize => lru = <<>>
        BY <1>1, BoundAssumption DEF CacheTypes
    <2>2. lru = <<>> => lru' = held
        BY <1>1, <1>2, ConcatEmptySeq
    <2> QED
        BY <1>1, <2>1, <2>2 DEF OverLimitOnlyDirty
  <1> QED
      BY <1>1, <1>7, <1>8, <1>9, <1>10 DEF NewestLast

(* The handlers of the FUSE loop.                                          *)
LEMMA HandlerStep ==
    ASSUME CacheInv, NEW p \in Paths, Handler(p)
    PROVE  CacheInv'
  <1>1. /\ copy \in [Paths -> Sizes \cup {NoCopy}] /\ 0 \in Sizes
        /\ {open, dirty, kept, untracked, newest} \subseteq SUBSET Paths
      BY BoundAssumption DEF CacheInv, TableInv, CacheTypes, Sizes
  <1>2. CASE OpenDownload(p)
    <2>1. PICK s \in Sizes : copy' = [copy EXCEPT ![p] = s] /\ AddFile(p, s)
        BY <1>2 DEF OpenDownload
    <2>2. ~evicting /\ {open', dirty'} \subseteq SUBSET Paths
        BY <1>1, <1>2 DEF OpenDownload
    <2> QED
        BY <2>1, <2>2, AccountStep
  <1>3. CASE Write(p)
    <2>1. PICK s \in Sizes :
             /\ copy' = [copy EXCEPT ![p] = s]
             /\ \/ UpdateSize(p, s)
                \/ /\ lru' = Touched(p) /\ untracked' = untracked \cup {p}
                   /\ UNCHANGED <<total, evictVars>>
        BY <1>3 DEF Write
    <2>2. ~evicting /\ {open', dirty'} \subseteq SUBSET Paths
        BY <1>1, <1>3 DEF Write
    <2>3. CASE UpdateSize(p, s)
        BY <2>1, <2>2, <2>3, AccountStep
    <2>4. CASE ~UpdateSize(p, s)
        BY <1>1, <2>1, <2>2, <2>4, TouchStep
    <2> QED
        BY <2>3, <2>4
  <1>4. CASE OpenCached(p) \/ Read(p)
      BY <1>1, <1>4, TouchStep DEF OpenCached, Read
  <1>5. CASE OpenCut(p)
      BY <1>1, <1>5, SameTable DEF OpenCut
  <1>6. CASE Release(p)
      BY <1>1, <1>6, SameTable DEF Release
  <1>7. CASE Create(p)
      BY <1>1, <1>7, SameTable DEF Create
  <1>8. CASE Setattr(p)
    <2>1. PICK s \in Sizes :
             copy' = [copy EXCEPT ![p] = IF copy[p] = NoCopy THEN NoCopy ELSE s]
        BY <1>8 DEF Setattr
    <2> QED
        BY <1>1, <1>8, <2>1, SameTable DEF Setattr
  <1>9. CASE Unlink(p)
      BY <1>1, <1>9, SameTable DEF Unlink
  <1>10. ASSUME NEW q \in Paths, Rename(p, q)
         PROVE  CacheInv'
      BY <1>1, <1>10, SameTable DEF Rename
  <1> QED
      BY <1>2, <1>3, <1>4, <1>5, <1>6, <1>7, <1>8, <1>9, <1>10 DEF Handler

(* The invariant holds at first and is kept by every step.                 *)
LEMMA CacheInvHolds == Spec => []CacheInv
  <1>1. ASSUME Init
        PROVE  CacheInv
    <2>1. /\ DOMAIN <<>> = {} /\ <<>> \in Seq(Entry) /\ Len(<<>>) = 0
        BY EmptySeq
    <2>2. CacheTypes
        BY <1>1, <2>1 DEF Init, CacheTypes
    <2>3. EachOnce
        BY <1>1, <2>1 DEF Init, EachOnce, Once, Apart, Range
    <2>4. TotalIsSum
        BY <1>1, SumNone DEF Init, TotalIsSum
    <2>5. OverLimitOnlyDirty /\ NewestLast /\ Accounted
        BY <1>1, BoundAssumption DEF Init, OverLimitOnlyDirty, NewestLast, Accounted
    <2> QED
        BY <1>1, <2>2, <2>3, <2>4, <2>5 DEF Init, CacheInv, TableInv
  <1>2. ASSUME CacheInv, [Next]_vars
        PROVE  CacheInv'
    <2>1. /\ copy \in [Paths -> Sizes \cup {NoCopy}]
          /\ {open, dirty, kept, untracked, newest} \subseteq SUBSET Paths
        BY <1>2 DEF CacheInv, TableInv, CacheTypes
    <2>2. ASSUME NEW p \in Paths, Handler(p)
          PROVE  CacheInv'
        BY <1>2, <2>2, HandlerStep
    <2>3. ASSUME NEW p \in Paths, SyncClear(p)
          PROVE  CacheInv'
        BY <1>2, <2>1, <2>3, SameTable DEF SyncClear
    <2>4. ASSUME NEW p \in Paths, Purge(p)
          PROVE  CacheInv'
        BY <1>2, <2>1, <2>4, SameTable DEF Purge
    <2>5. CASE EvictStep
        BY <1>2, <2>5, EvictOneStep, EvictEndStep DEF EvictStep
    <2>6. CASE UNCHANGED vars
        BY <1>2, <2>1, <2>6, SameTable DEF vars
    <2> QED
        BY <1>2, <2>2, <2>3, <2>4, <2>5, <2>6 DEF Next
  <1> QED
      BY <1>1, <1>2, PTL DEF Spec

-----------------------------------------------------------------------------
(* The types; in particular the table never holds a path twice, not even   *)
(* with what the loop has set aside, and the total never goes below zero.  *)
THEOREM CacheTypesHold == Spec => []TypeOK
  <1>1. CacheInv => TypeOK
      BY Joining
      DEF CacheInv, TableInv, CacheTypes, EachOnce, TypeOK, Once
  <1> QED
      BY <1>1, CacheInvHolds, PTL

(* current_size never drifts from the sum of the entries.                  *)
THEOREM TotalNeverDrifts == Spec => []TotalIsSum
  <1>1. CacheInv => TotalIsSum
      BY DEF CacheInv, TableInv
  <1> QED
      BY <1>1, CacheInvHolds, PTL

(* What is on disk, and not made or resized behind the table, is charged.  *)
THEOREM CopiesAreAccounted == Spec => []CopyAccounted
  <1>1. CacheInv => CopyAccounted
      BY AccountedIs DEF CacheInv, TableInv
  <1> QED
      BY <1>1, CacheInvHolds, PTL

(* Over the limit, the table holds only what the last eviction found dirty.*)
THEOREM DirtyOnlyOverLimit == Spec => []OverLimitOnlyDirty
  <1>1. CacheInv => OverLimitOnlyDirty
      BY DEF CacheInv, TableInv
  <1> QED
      BY <1>1, CacheInvHolds, PTL

(* A file is evicted by its own open or write only as the last of all.     *)
THEOREM NewestIsLast == Spec => NewestGoesLast
  <1>1. ASSUME CacheInv, evicting, lru # <<>>, Head(lru).path \in newest
        PROVE  Len(lru) = 1
    <2>1. /\ DOMAIN lru = 1 .. Len(lru) /\ Len(lru) \in Nat \ {0}
          /\ Head(lru) = lru[1]
        BY <1>1, LenProperties, EmptySeq DEF CacheInv, TableInv, CacheTypes
    <2> QED
        BY <1>1, <2>1 DEF CacheInv, TableInv, NewestLast
  <1>2. CacheInv => [evicting /\ lru # <<>> /\ lru' = Tail(lru) /\ held' = held
                        /\ Head(lru).path \in newest
                        => Len(lru) = 1]_vars
      BY <1>1
  <1> QED
      BY <1>2, CacheInvHolds, PTL DEF NewestGoesLast
=============================================================================
