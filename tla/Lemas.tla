------------------------------- MODULE Lemas -------------------------------
(***************************************************************************)
(* Facts about natural numbers, sequences and small sets on which the      *)
(* proofs about the components rest.                                       *)
(***************************************************************************)
EXTENDS Integers, Sequences, SequencesExt, FiniteSets, Somas, SequenceTheorems,
        FiniteSetTheorems, TLAPS

(* Every non-empty set of natural numbers has a least element: the loops   *)
(* of the code that look for the first match find it.                      *)
LEMMA MenorElemento ==
    ASSUME NEW T, T \subseteq Nat, T # {}
    PROVE  \E x \in T : \A y \in T : x <= y
<1>1. \E R : /\ IsWellFoundedOn(R, Nat)
             /\ \A x, y \in Nat : x < y => <<x, y>> \in R
  <2>1. \A x, y \in Nat : x < y => <<x, y>> \in OpToRel(<, Nat)
    BY DEF OpToRel
  <2>2. WITNESS OpToRel(<, Nat)
  <2>. QED
    BY <2>1, NatLessThanWellFounded
<1>2. PICK R : /\ IsWellFoundedOn(R, Nat)
               /\ \A x, y \in Nat : x < y => <<x, y>> \in R
  BY <1>1
<1>3. IsWellFoundedOn(R, Nat)
  BY <1>2
<1>4. \E x \in T : \A y \in T : ~ (<<y, x>> \in R)
  BY <1>3, WFMin
<1>5. PICK x \in T : \A y \in T : ~ (<<y, x>> \in R)
  BY <1>4
<1>6. \A y \in T : ~ (y < x)
  BY <1>2, <1>5
<1>7. \A y \in T : x \in Nat /\ y \in Nat
  BY <1>5
<1>. QED
  BY <1>5, <1>6, <1>7

(* RemoveAt: the elements after the one removed move down by one.          *)
LEMMA RemoveAtProperties ==
    ASSUME NEW S, NEW s \in Seq(S), NEW i \in 1 .. Len(s)
    PROVE  /\ RemoveAt(s, i) \in Seq(S)
           /\ Len(RemoveAt(s, i)) = Len(s) - 1
           /\ \A k \in 1 .. Len(s) - 1 :
                 RemoveAt(s, i)[k] = IF k < i THEN s[k] ELSE s[k + 1]
<1>. DEFINE a == SubSeq(s, 1, i - 1)
            b == SubSeq(s, i + 1, Len(s))
<1>0. Len(s) \in Nat
  OBVIOUS
<1>1. /\ a \in Seq(S)
      /\ Len(a) = i - 1
      /\ \A k \in 1 .. i - 1 : a[k] = s[k]
  <2>1. \A k \in 1 .. i - 1 : s[k] \in S
    BY ElementOfSeq, <1>0
  <2>2. /\ SubSeq(s, 1, i - 1) \in Seq(S)
        /\ Len(SubSeq(s, 1, i - 1)) = IF 1 <= i - 1 THEN (i - 1) - 1 + 1 ELSE 0
        /\ \A k \in 1 .. (i - 1) - 1 + 1 : SubSeq(s, 1, i - 1)[k] = s[1 + k - 1]
    BY <2>1, SubSeqProperties
  <2>. QED
    BY <2>2, <1>0
<1>2. /\ b \in Seq(S)
      /\ Len(b) = Len(s) - i
      /\ \A k \in 1 .. Len(s) - i : b[k] = s[i + k]
  <2>1. \A k \in i + 1 .. Len(s) : s[k] \in S
    BY ElementOfSeq, <1>0
  <2>2. /\ SubSeq(s, i + 1, Len(s)) \in Seq(S)
        /\ Len(SubSeq(s, i + 1, Len(s))) =
              IF i + 1 <= Len(s) THEN Len(s) - (i + 1) + 1 ELSE 0
        /\ \A k \in 1 .. Len(s) - (i + 1) + 1 :
              SubSeq(s, i + 1, Len(s))[k] = s[(i + 1) + k - 1]
    BY <2>1, SubSeqProperties, <1>0
  <2>. QED
    BY <2>2, <1>0
<1>3. RemoveAt(s, i) = a \o b
  BY DEF RemoveAt
<1>. HIDE DEF a, b
<1>4. /\ a \o b \in Seq(S)
      /\ Len(a \o b) = Len(a) + Len(b)
      /\ \A k \in 1 .. Len(a) + Len(b) :
            (a \o b)[k] = IF k <= Len(a) THEN a[k] ELSE b[k - Len(a)]
  BY <1>1, <1>2, ConcatProperties
<1>5. Len(a) + Len(b) = Len(s) - 1
  BY <1>0, <1>1, <1>2
<1>6. ASSUME NEW k \in 1 .. Len(s) - 1
      PROVE  (a \o b)[k] = IF k < i THEN s[k] ELSE s[k + 1]
  <2>1. CASE k < i
    <3>1. k <= Len(a) /\ k \in 1 .. i - 1
      BY <2>1, <1>0, <1>1
    <3>. QED
      BY <3>1, <2>1, <1>1, <1>4, <1>5, <1>0
  <2>2. CASE ~ (k < i)
    <3>1. ~ (k <= Len(a)) /\ k - Len(a) \in 1 .. Len(s) - i /\ i + (k - Len(a)) = k + 1
      BY <2>2, <1>0, <1>1
    <3>2. (a \o b)[k] = b[k - Len(a)]
      BY <3>1, <1>4, <1>5
    <3>3. b[k - Len(a)] = s[k + 1]
      BY <3>1, <1>2
    <3>. QED
      BY <3>2, <3>3, <2>2
  <2>. QED
    BY <2>1, <2>2
<1>. QED
  BY <1>3, <1>4, <1>5, <1>6

(* The operations on sequences of one or two elements.                     *)
LEMMA SequenciasCurtas ==
    ASSUME NEW x, NEW y
    PROVE  /\ Append(<< >>, x) = <<x>> /\ Append(<<x>>, y) = <<x, y>>
           /\ <<x>> # << >> /\ Head(<<x>>) = x /\ Tail(<<x>>) = << >>
           /\ Len(<<x>>) = 1 /\ DOMAIN <<x>> = {1} /\ <<x>>[1] = x
           /\ Len(<<x, y>>) = 2 /\ DOMAIN <<x, y>> = {1, 2}
           /\ <<x, y>>[1] = x /\ <<x, y>>[2] = y
           /\ RemoveAt(<<x>>, 1) = << >>
<1>1. /\ Append(<< >>, x) = <<x>>
      /\ <<x>> # << >> /\ Head(<<x>>) = x
      /\ Len(<<x>>) = 1 /\ <<x>>[1] = x
      /\ Len(<<x, y>>) = 2
      /\ <<x, y>>[1] = x /\ <<x, y>>[2] = y
  OBVIOUS
<1>2. DOMAIN <<x>> = {1} /\ DOMAIN <<x, y>> = {1, 2}
  OBVIOUS
<1>3. <<x>> \in Seq({x, y}) /\ <<x, y>> \in Seq({x, y})
  OBVIOUS
<1>4. \A s \in Seq({x, y}) : Len(s) = 0 => s = << >>
  BY EmptySeq
<1>5. Tail(<<x>>) = << >>
  <2>1. Tail(<<x>>) \in Seq({x, y}) /\ Len(Tail(<<x>>)) = 0
    BY <1>1, <1>3, HeadTailProperties
  <2>. QED
    BY <1>4, <2>1
<1>6. RemoveAt(<<x>>, 1) = << >>
  <2>. DEFINE s == <<x>>
  <2>1. 1 \in 1 .. Len(s) /\ s \in Seq({x, y}) /\ Len(s) = 1
    BY <1>1, <1>3
  <2>. HIDE DEF s
  <2>2. RemoveAt(s, 1) \in Seq({x, y}) /\ Len(RemoveAt(s, 1)) = Len(s) - 1
    BY <2>1, RemoveAtProperties
  <2>3. RemoveAt(s, 1) = << >>
    BY <1>4, <2>1, <2>2
  <2>. QED
    BY <2>3 DEF s
<1>7. Append(<<x>>, y) = <<x, y>>
  <2>. DEFINE s == <<x>>
              t == <<x, y>>
  <2>1. s \in Seq({x, y}) /\ Len(s) = 1 /\ s[1] = x
    BY <1>1, <1>3
  <2>2. t \in Seq({x, y}) /\ Len(t) = 2 /\ t[1] = x /\ t[2] = y
    BY <1>1, <1>3
  <2>. HIDE DEF s, t
  <2>3. /\ Append(s, y) \in Seq({x, y}) /\ Len(Append(s, y)) = 2
        /\ Append(s, y)[1] = x /\ Append(s, y)[2] = y
    <3>. DEFINE S == {x, y}
    <3>1. s \in Seq(S) /\ y \in S
      BY <2>1
    <3>. HIDE DEF S
    <3>2. /\ Append(s, y) \in Seq(S) /\ Len(Append(s, y)) = Len(s) + 1
          /\ \A i \in 1 .. Len(s) : Append(s, y)[i] = s[i]
          /\ Append(s, y)[Len(s) + 1] = y
      BY <3>1, AppendProperties
    <3>. QED
      BY <2>1, <3>2 DEF S
  <2>4. \A i \in 1 .. 2 : Append(s, y)[i] = t[i]
    BY <2>2, <2>3
  <2>5. Append(s, y) = t
    BY <2>2, <2>3, <2>4, SeqEqual
  <2>. QED
    BY <2>5 DEF s, t
<1>. QED
  BY <1>1, <1>2, <1>5, <1>6, <1>7

-----------------------------------------------------------------------------
(* Sums.                                                                   *)

(* Induction up to n, for a set instead of a predicate.                    *)
LEMMA Inducao ==
    ASSUME NEW n \in Nat, NEW S, 0 \in S, \A k \in 1 .. n : k - 1 \in S => k \in S
    PROVE  \A k \in 0 .. n : k \in S
<1>. DEFINE T == {k \in 0 .. n : k \notin S}
<1>1. CASE T = {}
  BY <1>1
<1>2. CASE T # {}
  <2>1. T \subseteq Nat
    OBVIOUS
  <2>2. PICK x \in T : \A y \in T : x <= y
    <3>. HIDE DEF T
    <3>. QED
      BY <1>2, <2>1, MenorElemento
  <2>3. x \in 1 .. n /\ x - 1 \in 0 .. n /\ x - 1 < x
    BY <2>2
  <2>4. x - 1 \notin T
    BY <2>2, <2>3
  <2>. QED
    BY <2>2, <2>3, <2>4
<1>. QED
  BY <1>1, <1>2

(* A recursion whose step is a function g has a solution of any length.    *)
LEMMA RecursaoExiste ==
    ASSUME NEW n \in Nat, NEW g \in [Int \X (1 .. n) -> Int]
    PROVE  \E f \in [0 .. n -> Int] :
              f[0] = 0 /\ \A k \in 1 .. n : f[k] = g[<<f[k - 1], k>>]
<1>. DEFINE P(m) == \E f \in [0 .. m -> Int] :
                       f[0] = 0 /\ \A k \in 1 .. m : f[k] = g[<<f[k - 1], k>>]
            S == {m \in 0 .. n : P(m)}
<1>1. 0 \in S
  <2>1. PICK z : z = [k \in 0 .. 0 |-> 0]
    OBVIOUS
  <2>2. z \in [0 .. 0 -> Int] /\ z[0] = 0 /\ \A k \in 1 .. 0 : z[k] = g[<<z[k - 1], k>>]
    BY <2>1
  <2>3. P(0)
    BY <2>2
  <2>. QED
    BY <2>3
<1>2. ASSUME NEW m \in 1 .. n, m - 1 \in S PROVE m \in S
  <2>1. PICK f \in [0 .. m - 1 -> Int] :
           f[0] = 0 /\ \A k \in 1 .. m - 1 : f[k] = g[<<f[k - 1], k>>]
    BY <1>2
  <2>2. f[m - 1] \in Int
    BY <2>1
  <2>3. g[<<f[m - 1], m>>] \in Int
    BY <2>2
  <2>. DEFINE h == [k \in 0 .. m |-> IF k = m THEN g[<<f[m - 1], m>>] ELSE f[k]]
  <2>4. h \in [0 .. m -> Int]
    <3>1. ASSUME NEW k \in 0 .. m PROVE h[k] \in Int
      <4>1. k # m => k \in 0 .. m - 1
        OBVIOUS
      <4>. QED
        BY <2>1, <2>3, <4>1
    <3>. QED
      BY <3>1
  <2>5. h[0] = 0
    BY <2>1
  <2>6. ASSUME NEW k \in 1 .. m PROVE h[k] = g[<<h[k - 1], k>>]
    <3>1. k - 1 \in 0 .. m /\ k - 1 # m /\ h[k - 1] = f[k - 1]
      OBVIOUS
    <3>2. CASE k = m
      BY <3>1, <3>2
    <3>3. CASE k # m
      <4>1. k \in 1 .. m - 1 /\ h[k] = f[k]
        BY <3>3
      <4>. QED
        BY <2>1, <3>1, <4>1
    <3>. QED
      BY <3>2, <3>3
  <2>7. P(m)
    <3>. HIDE DEF h
    <3>. QED
      BY <2>4, <2>5, <2>6
  <2>. QED
    BY <2>7
<1>3. \A k \in 0 .. n : k \in S
  <2>. HIDE DEF S
  <2>. QED
    BY <1>1, <1>2, Inducao
<1>4. n \in S
  <2>. HIDE DEF S
  <2>. QED
    BY <1>3
<1>. QED
  BY <1>4

(* Running totals are what their definition says.                          *)
LEMMA SomasRecursao ==
    ASSUME NEW q \in Seq(Int)
    PROVE  /\ Somas(q) \in [0 .. Len(q) -> Int] /\ Somas(q)[0] = 0
           /\ \A k \in 1 .. Len(q) : Somas(q)[k] = Somas(q)[k - 1] + q[k]
           /\ Soma(q) = Somas(q)[Len(q)] /\ Soma(q) \in Int
<1>1. PICK n \in Nat : n = Len(q) /\ DOMAIN q = 1 .. n
  OBVIOUS
<1>2. \A k \in 1 .. n : q[k] \in Int
  BY <1>1
<1>3. \E f : f = [k \in 0 .. n |-> IF k = 0 THEN 0 ELSE f[k - 1] + q[k]]
  <2>1. PICK g : g = [y \in Int \X (1 .. n) |-> y[1] + q[y[2]]]
    OBVIOUS
  <2>2. \A x \in Int, k \in 1 .. n : g[<<x, k>>] = x + q[k]
    BY <2>1
  <2>3. g \in [Int \X (1 .. n) -> Int]
    BY <1>2, <2>1
  <2>4. PICK f \in [0 .. n -> Int] : f[0] = 0 /\ \A k \in 1 .. n : f[k] = g[<<f[k - 1], k>>]
    BY <1>1, <2>3, RecursaoExiste
  <2>5. ASSUME NEW k \in 0 .. n PROVE f[k] = IF k = 0 THEN 0 ELSE f[k - 1] + q[k]
    <3>1. CASE k = 0
      BY <2>4, <3>1
    <3>2. CASE k # 0
      <4>1. k \in 1 .. n /\ k - 1 \in 0 .. n
        BY <3>2
      <4>2. f[k - 1] \in Int
        BY <4>1
      <4>. QED
        BY <2>2, <2>4, <3>2, <4>1, <4>2
    <3>. QED
      BY <3>1, <3>2
  <2>6. f = [k \in 0 .. n |-> IF k = 0 THEN 0 ELSE f[k - 1] + q[k]]
    BY <2>5
  <2>. QED
    BY <2>6
<1>4. PICK a : a = Somas(q)
  OBVIOUS
<1>5. a = [k \in 0 .. n |-> IF k = 0 THEN 0 ELSE a[k - 1] + q[k]]
  BY <1>1, <1>3, <1>4 DEF Somas
<1>6. a[0] = 0 /\ \A k \in 1 .. n : a[k] = a[k - 1] + q[k]
  <2>1. PICK h : h = a
    OBVIOUS
  <2>2. h = [k \in 0 .. n |-> IF k = 0 THEN 0 ELSE a[k - 1] + q[k]]
    BY <1>5, <2>1
  <2>3. h[0] = 0 /\ \A k \in 1 .. n : h[k] = a[k - 1] + q[k]
    BY <1>1, <2>2
  <2>. QED
    BY <2>1, <2>3
<1>7. \A k \in 0 .. n : a[k] \in Int
  <2>. DEFINE S == {k \in 0 .. n : a[k] \in Int}
  <2>1. 0 \in S /\ \A k \in 1 .. n : k - 1 \in S => k \in S
    BY <1>1, <1>2, <1>6
  <2>2. \A k \in 0 .. n : k \in S
    <3>. HIDE DEF S
    <3>. QED
      BY <1>1, <2>1, Inducao
  <2>. QED
    BY <2>2
<1>8. a \in [0 .. n -> Int]
  BY <1>5, <1>7
<1>. QED
  BY <1>1, <1>4, <1>6, <1>8 DEF Soma

(* Running totals depend only on the elements added up.                    *)
LEMMA SomasIguais ==
    ASSUME NEW q \in Seq(Int), NEW r \in Seq(Int), NEW n \in Nat, n <= Len(q), n <= Len(r),
           \A k \in 1 .. n : q[k] = r[k]
    PROVE  \A k \in 0 .. n : Somas(q)[k] = Somas(r)[k]
<1>. DEFINE S == {k \in 0 .. n : Somas(q)[k] = Somas(r)[k]}
<1>1. 0 \in S
  BY SomasRecursao
<1>2. ASSUME NEW k \in 1 .. n, k - 1 \in S PROVE k \in S
  <2>1. k \in 1 .. Len(q) /\ k \in 1 .. Len(r)
    OBVIOUS
  <2>2. Somas(q)[k] = Somas(q)[k - 1] + q[k] /\ Somas(r)[k] = Somas(r)[k - 1] + r[k]
    BY <2>1, SomasRecursao
  <2>. QED
    BY <1>2, <2>2
<1>3. \A k \in 0 .. n : k \in S
  <2>. HIDE DEF S
  <2>. QED
    BY <1>1, <1>2, Inducao
<1>. QED
  BY <1>3

(* One more element adds itself.                                           *)
LEMMA SomaAcrescenta ==
    ASSUME NEW q \in Seq(Int), NEW x \in Int
    PROVE  Soma(Append(q, x)) = Soma(q) + x
<1>1. PICK r, n : r = Append(q, x) /\ n = Len(q)
  OBVIOUS
<1>2. /\ r \in Seq(Int) /\ n \in Nat /\ Len(r) = n + 1 /\ r[n + 1] = x
      /\ \A k \in 1 .. n : q[k] = r[k]
  BY <1>1
<1>3. Somas(q)[n] = Somas(r)[n]
  <2>1. n <= Len(q) /\ n <= Len(r) /\ n \in 0 .. n
    BY <1>1, <1>2
  <2>2. \A k \in 0 .. n : Somas(q)[k] = Somas(r)[k]
    BY <1>2, <2>1, SomasIguais
  <2>. QED
    BY <2>1, <2>2
<1>4. Somas(r)[n + 1] = Somas(r)[n] + x
  <2>1. n + 1 \in 1 .. Len(r) /\ (n + 1) - 1 = n
    BY <1>2
  <2>. QED
    BY <1>2, <2>1, SomasRecursao
<1>5. Soma(r) = Somas(r)[n + 1] /\ Soma(q) = Somas(q)[n]
  BY <1>1, <1>2 DEF Soma
<1>. QED
  BY <1>1, <1>3, <1>4, <1>5

(* A sum grows with its elements.                                          *)
LEMMA SomasMonotonas ==
    ASSUME NEW q \in Seq(Int), NEW r \in Seq(Int), Len(q) = Len(r),
           \A k \in 1 .. Len(q) : q[k] <= r[k]
    PROVE  /\ \A k \in 0 .. Len(q) : Somas(q)[k] <= Somas(r)[k]
           /\ Soma(q) <= Soma(r)
<1>1. PICK n \in Nat : n = Len(q) /\ n = Len(r)
  OBVIOUS
<1>. DEFINE S == {k \in 0 .. n : Somas(q)[k] <= Somas(r)[k]}
<1>2. 0 \in S
  BY SomasRecursao
<1>3. ASSUME NEW k \in 1 .. n, k - 1 \in S PROVE k \in S
  <2>1. /\ Somas(q)[k] = Somas(q)[k - 1] + q[k] /\ Somas(r)[k] = Somas(r)[k - 1] + r[k]
        /\ Somas(q)[k - 1] \in Int /\ Somas(r)[k - 1] \in Int
    <3>1. k - 1 \in 0 .. n
      OBVIOUS
    <3>. QED
      BY <1>1, <3>1, SomasRecursao
  <2>2. q[k] \in Int /\ r[k] \in Int /\ q[k] <= r[k] /\ Somas(q)[k - 1] <= Somas(r)[k - 1]
    BY <1>1, <1>3
  <2>. QED
    BY <2>1, <2>2
<1>4. \A k \in 0 .. n : k \in S
  <2>. HIDE DEF S
  <2>. QED
    BY <1>2, <1>3, Inducao
<1>5. \A k \in 0 .. n : Somas(q)[k] <= Somas(r)[k]
  BY <1>4
<1>. QED
  BY <1>1, <1>5 DEF Soma

(* Running totals of elements that are not negative do not decrease.       *)
LEMMA SomasCrescem ==
    ASSUME NEW q \in Seq(Int), \A k \in 1 .. Len(q) : 0 <= q[k]
    PROVE  \A k \in 0 .. Len(q) : 0 <= Somas(q)[k] /\ Somas(q)[k] <= Soma(q)
<1>0. PICK n \in Nat : n = Len(q)
  OBVIOUS
<1>1. PICK a : n = Len(q) /\ a = Somas(q)
  BY <1>0
<1>2. /\ a \in [0 .. n -> Int] /\ a[0] = 0 /\ \A k \in 1 .. n : a[k] = a[k - 1] + q[k]
      /\ Soma(q) = a[n]
  BY <1>1, SomasRecursao
<1>3. \A k \in 1 .. n : q[k] \in Int /\ 0 <= q[k]
  BY <1>1
<1>. DEFINE S == {k \in 0 .. n : 0 <= a[k]}
            R == {k \in 0 .. n : a[n - k] <= a[n]}
<1>4. \A k \in 1 .. n : k - 1 \in 0 .. n /\ a[k] \in Int /\ a[k - 1] \in Int /\ a[k - 1] <= a[k]
  BY <1>1, <1>2, <1>3
<1>5. 0 \in S /\ \A k \in 1 .. n : k - 1 \in S => k \in S
  BY <1>2, <1>4
<1>6. \A k \in 0 .. n : k \in S
  <2>. HIDE DEF S
  <2>. QED
    BY <1>5, Inducao
<1>7. 0 \in R
  BY <1>2
<1>8. ASSUME NEW k \in 1 .. n, k - 1 \in R PROVE k \in R
  <2>1. PICK l : l = n - k + 1
    OBVIOUS
  <2>2. l \in 1 .. n /\ n - k = l - 1 /\ n - (k - 1) = l
    BY <2>1
  <2>3. a[l - 1] <= a[l] /\ a[l] \in Int /\ a[l - 1] \in Int /\ a[n] \in Int
    BY <1>2, <1>4, <2>2
  <2>4. a[n - (k - 1)] <= a[n]
    BY <1>8
  <2>5. a[l - 1] <= a[n]
    BY <2>2, <2>3, <2>4
  <2>. QED
    BY <2>2, <2>5
<1>9. \A k \in 0 .. n : k \in R
  <2>. HIDE DEF R
  <2>. QED
    BY <1>7, <1>8, Inducao
<1>10. ASSUME NEW k \in 0 .. n PROVE a[k] <= a[n]
  <2>1. n - k \in 0 .. n /\ n - (n - k) = k
    OBVIOUS
  <2>2. n - k \in R
    <3>. HIDE DEF R
    <3>. QED
      BY <1>9, <2>1
  <2>. QED
    BY <2>1, <2>2
<1>. QED
  BY <1>1, <1>2, <1>6, <1>10

(* No running total is larger, in absolute value, than the sum of the      *)
(* absolute values.                                                        *)
LEMMA SomasLimitadas ==
    ASSUME NEW q \in Seq(Int)
    PROVE  /\ Absolutos(q) \in Seq(Int) /\ Len(Absolutos(q)) = Len(q)
           /\ \A k \in 1 .. Len(q) : 0 <= Absolutos(q)[k]
           /\ Soma(Absolutos(q)) \in Int
           /\ \A k \in 0 .. Len(q) : /\ - Soma(Absolutos(q)) <= Somas(q)[k]
                                     /\ Somas(q)[k] <= Soma(Absolutos(q))
<1>1. PICK n \in Nat : n = Len(q) /\ DOMAIN q = 1 .. n
  OBVIOUS
<1>2. PICK r : r = Absolutos(q)
  OBVIOUS
<1>3. \A k \in 1 .. n : q[k] \in Int
  BY <1>1
<1>4. r = [k \in 1 .. n |-> IF q[k] < 0 THEN - q[k] ELSE q[k]]
  BY <1>1, <1>2 DEF Absolutos
<1>5. \A k \in 1 .. n : r[k] \in Int /\ 0 <= r[k] /\ q[k] <= r[k] /\ - r[k] <= q[k]
  BY <1>3, <1>4
<1>6. r \in Seq(Int) /\ Len(r) = n
  BY <1>3, <1>4
<1>7. PICK a, b : a = Somas(q) /\ b = Somas(r)
  OBVIOUS
<1>8. /\ a \in [0 .. n -> Int] /\ a[0] = 0 /\ \A k \in 1 .. n : a[k] = a[k - 1] + q[k]
      /\ b \in [0 .. n -> Int] /\ b[0] = 0 /\ \A k \in 1 .. n : b[k] = b[k - 1] + r[k]
      /\ Soma(r) = b[n]
  BY <1>1, <1>6, <1>7, SomasRecursao
<1>. DEFINE S == {k \in 0 .. n : - b[k] <= a[k] /\ a[k] <= b[k]}
<1>9. 0 \in S
  BY <1>8
<1>10. ASSUME NEW k \in 1 .. n, k - 1 \in S PROVE k \in S
  <2>0. k - 1 \in 0 .. n
    OBVIOUS
  <2>1. a[k - 1] \in Int /\ b[k - 1] \in Int /\ q[k] \in Int /\ r[k] \in Int
    BY <1>3, <1>5, <1>8, <2>0
  <2>2. a[k] = a[k - 1] + q[k] /\ b[k] = b[k - 1] + r[k]
    BY <1>8
  <2>3. q[k] <= r[k] /\ - r[k] <= q[k]
    BY <1>5
  <2>4. - b[k - 1] <= a[k - 1] /\ a[k - 1] <= b[k - 1]
    BY <1>10
  <2>5. - b[k] <= a[k] /\ a[k] <= b[k]
    BY <2>1, <2>2, <2>3, <2>4
  <2>. QED
    BY <2>5
<1>11. \A k \in 0 .. n : k \in S
  <2>. HIDE DEF S
  <2>. QED
    BY <1>9, <1>10, Inducao
<1>12. \A k \in 0 .. n : b[k] <= b[n]
  <2>1. \A k \in 1 .. Len(r) : 0 <= r[k]
    BY <1>5, <1>6
  <2>2. \A k \in 0 .. Len(r) : Somas(r)[k] <= Soma(r)
    BY <1>6, <2>1, SomasCrescem
  <2>. QED
    BY <1>6, <1>7, <1>8, <2>2
<1>13. ASSUME NEW k \in 0 .. n PROVE - b[n] <= a[k] /\ a[k] <= b[n]
  <2>1. a[k] \in Int /\ b[k] \in Int /\ b[n] \in Int
    BY <1>8
  <2>2. - b[k] <= a[k] /\ a[k] <= b[k]
    BY <1>11
  <2>. QED
    BY <1>12, <2>1, <2>2
<1>. QED
  BY <1>1, <1>2, <1>5, <1>6, <1>7, <1>8, <1>13

(* Changing one element changes the sum by as much.                        *)
LEMMA SomaUmaMuda ==
    ASSUME NEW q \in Seq(Int), NEW r \in Seq(Int), Len(q) = Len(r), NEW j \in 1 .. Len(q),
           \A k \in 1 .. Len(q) : k # j => r[k] = q[k]
    PROVE  Soma(r) = Soma(q) - q[j] + r[j]
<1>1. PICK n \in Nat : n = Len(q) /\ DOMAIN q = 1 .. n /\ n = Len(r) /\ DOMAIN r = 1 .. n
  OBVIOUS
<1>2. \A k \in 1 .. n : q[k] \in Int /\ r[k] \in Int
  BY <1>1
<1>3. PICK a, b : a = Somas(q) /\ b = Somas(r)
  OBVIOUS
<1>4. /\ a \in [0 .. n -> Int] /\ a[0] = 0 /\ \A k \in 1 .. n : a[k] = a[k - 1] + q[k]
      /\ b \in [0 .. n -> Int] /\ b[0] = 0 /\ \A k \in 1 .. n : b[k] = b[k - 1] + r[k]
      /\ Soma(q) = a[n] /\ Soma(r) = b[n]
  BY <1>1, <1>3, SomasRecursao
<1>. DEFINE S == {k \in 0 .. n : b[k] = IF k < j THEN a[k] ELSE a[k] - q[j] + r[j]}
<1>5. 0 \in S
  BY <1>1, <1>4
<1>6. ASSUME NEW k \in 1 .. n, k - 1 \in S PROVE k \in S
  <2>0. k - 1 \in 0 .. n /\ j \in 1 .. n
    BY <1>1
  <2>1. /\ a[k - 1] \in Int /\ b[k - 1] \in Int /\ q[k] \in Int /\ r[k] \in Int
        /\ q[j] \in Int /\ r[j] \in Int
        /\ a[k] = a[k - 1] + q[k] /\ b[k] = b[k - 1] + r[k]
    BY <1>2, <1>4, <2>0
  <2>2. b[k - 1] = IF k - 1 < j THEN a[k - 1] ELSE a[k - 1] - q[j] + r[j]
    BY <1>6
  <2>3. CASE k < j
    <3>1. r[k] = q[k] /\ k - 1 < j
      BY <1>1, <2>3
    <3>. QED
      BY <2>1, <2>2, <2>3, <3>1
  <2>4. CASE k = j
    BY <2>1, <2>2, <2>4
  <2>5. CASE k > j
    <3>1. r[k] = q[k] /\ ~ (k - 1 < j) /\ ~ (k < j)
      BY <1>1, <2>5
    <3>2. b[k - 1] = a[k - 1] - q[j] + r[j]
      BY <2>2, <3>1
    <3>3. b[k] = a[k] - q[j] + r[j]
      <4>1. PICK x \in Int, y \in Int, z \in Int, w \in Int :
                x = a[k - 1] /\ y = q[k] /\ z = q[j] /\ w = r[j]
        BY <2>1
      <4>2. b[k] = (x - z + w) + y
        BY <2>1, <3>1, <3>2, <4>1
      <4>3. a[k] = x + y
        BY <2>1, <4>1
      <4>4. (x - z + w) + y = (x + y) - z + w
        OBVIOUS
      <4>. QED
        BY <4>1, <4>2, <4>3, <4>4
    <3>. QED
      BY <3>1, <3>3
  <2>. QED
    BY <1>1, <2>3, <2>4, <2>5
<1>7. \A k \in 0 .. n : k \in S
  <2>. HIDE DEF S
  <2>. QED
    BY <1>5, <1>6, Inducao
<1>8. b[n] = IF n < j THEN a[n] ELSE a[n] - q[j] + r[j]
  BY <1>7
<1>9. ~ (n < j)
  BY <1>1
<1>. QED
  BY <1>4, <1>8, <1>9

(* Setting an element that was 0 adds it to the sum.                       *)
LEMMA SomaPreenche ==
    ASSUME NEW u \in Seq(Int), NEW v \in Seq(Int), Len(u) = Len(v), NEW j \in 1 .. Len(u),
           u[j] = 0, \A k \in 1 .. Len(u) : k # j => v[k] = u[k]
    PROVE  Soma(v) = Soma(u) + v[j]
<1>1. Soma(v) = Soma(u) - u[j] + v[j]
  BY SomaUmaMuda
<1>2. Soma(u) \in Int
  BY SomasRecursao
<1>3. v[j] \in Int
  OBVIOUS
<1>. QED
  BY <1>1, <1>2, <1>3

(* r lists elements of q, those at the places p, no place twice.           *)
Escolhe(r, q, p) ==
    /\ p \in [1 .. Len(r) -> 1 .. Len(q)]
    /\ \A i, j \in 1 .. Len(r) : p[i] = p[j] => i = j
    /\ \A i \in 1 .. Len(r) : r[i] = q[p[i]]

(* q with 0 in the places that are not among the first l of p.             *)
Mascara(q, p, l) == [k \in 1 .. Len(q) |-> IF \E i \in 1 .. l : p[i] = k THEN q[k] ELSE 0]

(* A mask is a sequence of integers of the same length; when it hides      *)
(* everything its sum is 0.                                                *)
LEMMA MascaraTipo ==
    ASSUME NEW q \in Seq(Int), NEW p
    PROVE  /\ \A l : Mascara(q, p, l) \in Seq(Int) /\ Len(Mascara(q, p, l)) = Len(q)
           /\ Soma(Mascara(q, p, 0)) = 0
<1>1. PICK n \in Nat : n = Len(q)
  OBVIOUS
<1>2. \A k \in 1 .. n : q[k] \in Int
  BY <1>1
<1>3. ASSUME NEW l PROVE Mascara(q, p, l) \in Seq(Int) /\ Len(Mascara(q, p, l)) = n
  BY <1>1, <1>2 DEF Mascara
<1>4. PICK z : z = Mascara(q, p, 0)
  OBVIOUS
<1>5. z \in Seq(Int) /\ Len(z) = n
  BY <1>3, <1>4
<1>6. \A k \in 1 .. n : z[k] = 0
  BY <1>1, <1>4 DEF Mascara
<1>7. PICK a : a = Somas(z)
  OBVIOUS
<1>8. /\ a \in [0 .. n -> Int] /\ a[0] = 0 /\ \A k \in 1 .. n : a[k] = a[k - 1] + z[k]
      /\ Soma(z) = a[n]
  BY <1>5, <1>7, SomasRecursao
<1>. DEFINE R == {k \in 0 .. n : a[k] = 0}
<1>9. 0 \in R /\ \A k \in 1 .. n : k - 1 \in R => k \in R
  <2>1. ASSUME NEW k \in 1 .. n, k - 1 \in R PROVE k \in R
    <3>1. a[k - 1] = 0 /\ z[k] = 0 /\ a[k] = a[k - 1] + z[k]
      BY <1>6, <1>8, <2>1
    <3>. QED
      BY <3>1
  <2>. QED
    BY <1>8, <2>1
<1>10. \A k \in 0 .. n : k \in R
  <2>. HIDE DEF R
  <2>. QED
    BY <1>9, Inducao
<1>11. a[n] = 0
  BY <1>10
<1>. QED
  BY <1>1, <1>3, <1>4, <1>8, <1>11

(* The sum of chosen elements, in whatever order, is the sum of all with   *)
(* the others set to 0.                                                    *)
LEMMA SomaEscolhida ==
    ASSUME NEW q \in Seq(Int), NEW r \in Seq(Int), NEW p, Escolhe(r, q, p)
    PROVE  \A l \in 0 .. Len(r) : Somas(r)[l] = Soma(Mascara(q, p, l))
<1>1. PICK m \in Nat : m = Len(r)
  OBVIOUS
<1>. DEFINE S == {l \in 0 .. m : Somas(r)[l] = Soma(Mascara(q, p, l))}
<1>2. 0 \in S
  BY MascaraTipo, SomasRecursao
<1>3. ASSUME NEW l \in 1 .. m, l - 1 \in S PROVE l \in S
  <2>1. PICK u, v : u = Mascara(q, p, l - 1) /\ v = Mascara(q, p, l)
    OBVIOUS
  <2>2. /\ u \in Seq(Int) /\ Len(u) = Len(q) /\ v \in Seq(Int) /\ Len(v) = Len(q)
    BY <2>1, MascaraTipo
  <2>3. PICK j \in 1 .. Len(q) : j = p[l] /\ r[l] = q[j]
    BY <1>1 DEF Escolhe
  <2>4. u[j] = 0
    <3>1. ~ \E i \in 1 .. l - 1 : p[i] = j
      BY <1>1, <2>3 DEF Escolhe
    <3>. QED
      BY <2>1, <3>1 DEF Mascara
  <2>5. v[j] = q[j]
    BY <2>1, <2>3 DEF Mascara
  <2>6. ASSUME NEW k \in 1 .. Len(q), k # j PROVE v[k] = u[k]
    <3>1. p[l] # k
      BY <2>3, <2>6
    <3>2. (\E i \in 1 .. l : p[i] = k) <=> (\E i \in 1 .. l - 1 : p[i] = k)
      <4>1. ASSUME NEW i \in 1 .. l, p[i] = k PROVE i \in 1 .. l - 1
        BY <3>1, <4>1
      <4>2. \A i \in 1 .. l - 1 : i \in 1 .. l
        OBVIOUS
      <4>. QED
        BY <4>1, <4>2
    <3>. QED
      BY <2>1, <3>2 DEF Mascara
  <2>7. Soma(v) = Soma(u) + v[j]
    <3>1. Len(u) = Len(v) /\ j \in 1 .. Len(u)
      BY <2>2
    <3>2. \A k \in 1 .. Len(u) : k # j => v[k] = u[k]
      BY <2>2, <2>6
    <3>. QED
      BY <2>2, <2>4, <3>1, <3>2, SomaPreenche
  <2>8. Somas(r)[l] = Somas(r)[l - 1] + q[j]
    <3>1. l \in 1 .. Len(r)
      BY <1>1
    <3>. QED
      BY <2>3, <3>1, SomasRecursao
  <2>9. Somas(r)[l - 1] = Soma(u)
    BY <1>3, <2>1
  <2>10. Somas(r)[l] = Soma(v)
    BY <2>5, <2>7, <2>8, <2>9
  <2>. QED
    BY <2>1, <2>10
<1>4. \A l \in 0 .. m : l \in S
  <2>. HIDE DEF S
  <2>. QED
    BY <1>2, <1>3, Inducao
<1>. QED
  BY <1>1, <1>4

(* One more element, without its sign.                                     *)
LEMMA AbsolutosAcrescenta ==
    ASSUME NEW q \in Seq(Int), NEW x \in Int
    PROVE  LET y == IF x < 0 THEN - x ELSE x
           IN  /\ Absolutos(Append(q, x)) = Append(Absolutos(q), y)
               /\ Soma(Absolutos(Append(q, x))) = Soma(Absolutos(q)) + y
<1>. DEFINE y == IF x < 0 THEN - x ELSE x
<1>1. PICK n \in Nat : n = Len(q)
  OBVIOUS
<1>2. PICK r, s : r = Append(q, x) /\ s = Absolutos(q)
  OBVIOUS
<1>3. r \in Seq(Int) /\ Len(r) = n + 1 /\ r[n + 1] = x /\ \A k \in 1 .. n : r[k] = q[k]
  BY <1>1, <1>2
<1>4. s \in Seq(Int) /\ Len(s) = n /\ \A k \in 1 .. n : s[k] = IF q[k] < 0 THEN - q[k] ELSE q[k]
  BY <1>1, <1>2, SomasLimitadas DEF Absolutos
<1>5. y \in Int
  OBVIOUS
<1>6. PICK u, v : u = Absolutos(r) /\ v = Append(s, y)
  OBVIOUS
<1>7. u \in Seq(Int) /\ Len(u) = n + 1
      /\ \A k \in 1 .. n + 1 : u[k] = IF r[k] < 0 THEN - r[k] ELSE r[k]
  BY <1>3, <1>6, SomasLimitadas DEF Absolutos
<1>8. v \in Seq(Int) /\ Len(v) = n + 1 /\ v[n + 1] = y /\ \A k \in 1 .. n : v[k] = s[k]
  <2>. HIDE DEF y
  <2>. QED
    BY <1>4, <1>5, <1>6
<1>9. \A k \in 1 .. n + 1 : u[k] = v[k]
  <2>1. u[n + 1] = y
    BY <1>3, <1>7
  <2>2. ASSUME NEW k \in 1 .. n PROVE u[k] = s[k]
    <3>1. k \in 1 .. n + 1
      OBVIOUS
    <3>2. u[k] = IF r[k] < 0 THEN - r[k] ELSE r[k]
      BY <1>7, <3>1
    <3>3. r[k] = q[k] /\ s[k] = IF q[k] < 0 THEN - q[k] ELSE q[k]
      BY <1>3, <1>4
    <3>. QED
      BY <3>2, <3>3
  <2>. HIDE DEF y
  <2>. QED
    BY <1>8, <2>1, <2>2
<1>10. u = v
  <2>. HIDE DEF y
  <2>. QED
    BY <1>7, <1>8, <1>9, SeqEqual
<1>11. Soma(v) = Soma(s) + y
  <2>. HIDE DEF y
  <2>. QED
    BY <1>4, <1>5, <1>6, SomaAcrescenta
<1>. QED
  BY <1>2, <1>6, <1>10, <1>11

\* Zeros add up to nothing, and so do they without their signs.
LEMMA SomaNula ==
    ASSUME NEW q \in Seq(Int), \A k \in 1 .. Len(q) : q[k] = 0
    PROVE  Soma(q) = 0 /\ Soma(Absolutos(q)) = 0
<1>1. PICK n \in Nat : n = Len(q)
  OBVIOUS
<1>2. ASSUME NEW r \in Seq(Int), Len(r) = n, \A k \in 1 .. n : r[k] = 0
      PROVE  Soma(r) = 0
  <2>1. PICK a : a = Somas(r)
    OBVIOUS
  <2>2. a[0] = 0 /\ \A k \in 1 .. n : a[k] = a[k - 1] + r[k]
    BY <1>2, <2>1, SomasRecursao
  <2>. DEFINE S == {k \in 0 .. n : a[k] = 0}
  <2>3. 0 \in S
    BY <2>2
  <2>4. ASSUME NEW k \in 1 .. n, k - 1 \in S PROVE k \in S
    BY <1>2, <2>2, <2>4
  <2>5. n \in S
    <3>. HIDE DEF S
    <3>1. \A k \in 0 .. n : k \in S
      BY <2>3, <2>4, Inducao
    <3>. QED
      BY <3>1
  <2>. QED
    BY <1>2, <2>1, <2>5 DEF Soma
<1>3. /\ Absolutos(q) \in Seq(Int) /\ Len(Absolutos(q)) = n
      /\ \A k \in 1 .. n : Absolutos(q)[k] = 0
  <2>1. \A k \in 1 .. n : Absolutos(q)[k] = IF q[k] < 0 THEN - q[k] ELSE q[k]
    BY <1>1 DEF Absolutos
  <2>. QED
    BY <1>1, <2>1, SomasLimitadas
<1>. QED
  BY <1>1, <1>2, <1>3
=============================================================================
