---------------------------- MODULE QueuesProofs ----------------------------
(***************************************************************************)
(* What filtering a queue leaves: the elements that stay, in their order.  *)
(***************************************************************************)
EXTENDS Queues, TLAPS, WellFoundedInduction

Less == OpToRel(<, Nat)

\* The natural numbers are well-ordered.  Induction over a number is the
\* absence of a smallest counterexample.
LEMMA LeastNumber ==
  ASSUME NEW T, T \subseteq Nat, T # {}
  PROVE  \E n \in T : \A m \in T : n <= m
  <1>1. IsWellFoundedOn(Less, Nat)
    BY NatLessThanWellFounded, Zenon DEF Less, OpToRel
  <1>2. \A m, n \in Nat : m < n => <<m, n>> \in Less
    BY DEF Less, OpToRel
  <1>3. PICK n \in T : \A m \in T : <<m, n>> \notin Less
    BY <1>1, WFMin
  <1>4. n \in Nat /\ \A m \in T : m \in Nat /\ ~(m < n)
    BY <1>2, <1>3
  <1> QED BY <1>4

\* One step of WithoutAll, and the function its steps compute.
Step(q, X, f, n) ==
    IF n = 0 THEN <<>> ELSE IF q[n] \in X THEN f[n - 1] ELSE Append(f[n - 1], q[n])

\* The recursive function that filters exists.
LEMMA FilterExists ==
  ASSUME NEW q, NEW X, NEW N \in Nat
  PROVE  \E f : f = [n \in 0..N |-> Step(q, X, f, n)]
  <1> DEFINE Has(k) == \E f : f = [n \in 0..k |-> Step(q, X, f, n)]
             T == {k \in Nat : ~Has(k)}
  <1> SUFFICES ASSUME T # {} PROVE FALSE
    OBVIOUS
  <1>1. PICK k \in T : \A m \in T : k <= m
    <2>1. T \subseteq Nat
      OBVIOUS
    <2> HIDE DEF T
    <2> QED BY <2>1, LeastNumber
  <1>2. Has(0)
    <2> DEFINE g == [n \in 0..0 |-> <<>>]
    <2>1. g = [n \in 0..0 |-> Step(q, X, g, n)]
      BY DEF Step
    <2> QED BY <2>1
  <1>3. k \in Nat \ {0} /\ k - 1 \in Nat /\ k - 1 \notin T
    <2>1. k \in Nat /\ ~Has(k)
      OBVIOUS
    <2> HIDE DEF Has
    <2>2. k # 0
      BY <1>2, <2>1
    <2> QED BY <1>1, <2>1, <2>2
  <1>4. Has(k - 1)
    BY <1>3
  <1>5. PICK f : f = [n \in 0..(k - 1) |-> Step(q, X, f, n)]
    BY <1>4
  <1> DEFINE g == [n \in 0..k |-> IF n < k THEN f[n] ELSE Step(q, X, f, k)]
  <1>6. \A n \in 0..k : g[n] = Step(q, X, g, n)
    <2> TAKE n \in 0..k
    <2>1. CASE n = 0
      BY <1>3, <1>5, <2>1 DEF Step
    <2>2. CASE n # 0
      <3>1. n - 1 \in 0..(k - 1) /\ n - 1 < k /\ n - 1 \in 0..k /\ n \in Nat
        BY <2>2, <1>3
      <3>2. g[n - 1] = f[n - 1]
        BY <3>1
      <3>3. Step(q, X, g, n) = Step(q, X, f, n)
        BY <3>2 DEF Step
      <3>4. CASE n < k
        <4>1. n \in 0..(k - 1)
          BY <3>4, <3>1, <1>3
        <4>2. f[n] = Step(q, X, f, n)
          BY <1>5, <4>1
        <4> QED BY <3>3, <3>4, <4>2
      <3>5. CASE n = k
        BY <3>3, <3>5
      <3> QED BY <3>4, <3>5
    <2> QED BY <2>1, <2>2
  <1>7. g = [n \in 0..k |-> Step(q, X, g, n)]
    BY <1>6
  <1>8. Has(k)
    BY <1>7
  <1> QED BY <1>1, <1>8

Filtered(q, X) ==
    LET F[n \in 0..Len(q)] ==
            IF n = 0 THEN <<>>
            ELSE IF q[n] \in X THEN F[n - 1] ELSE Append(F[n - 1], q[n])
    IN F

LEMMA FilteredStep ==
  ASSUME NEW S, NEW q \in Seq(S), NEW X, NEW n \in 0..Len(q)
  PROVE  Filtered(q, X)[n] = Step(q, X, Filtered(q, X), n)
  <1>1. Len(q) \in Nat
    OBVIOUS
  <1>2. \E f : f = [k \in 0..Len(q) |-> Step(q, X, f, k)]
    BY <1>1, FilterExists
  <1>3. Filtered(q, X) = [k \in 0..Len(q) |-> Step(q, X, Filtered(q, X), k)]
    BY <1>2 DEF Filtered, Step
  <1> QED BY <1>3, Zenon
\* w is what is left of the first n elements of q: h says where they stood.
Left(q, X, w, n, h) ==
    /\ h \in [1..Len(w) -> 1..n]
    /\ \A i, j \in 1..Len(w) : i < j => h[i] < h[j]
    /\ \A i \in 1..Len(w) : w[i] = q[h[i]] /\ q[h[i]] \notin X
    /\ \A k \in 1..n : q[k] \notin X => \E i \in 1..Len(w) : h[i] = k

LEMMA LeftExtends ==
  ASSUME NEW S, NEW q \in Seq(S), NEW X, NEW n \in 1..Len(q), NEW w \in Seq(S), NEW h,
         Left(q, X, w, n - 1, h)
  PROVE  /\ q[n] \in X => Left(q, X, w, n, h)
         /\ q[n] \notin X => \E g : Left(q, X, Append(w, q[n]), n, g)
  <1>1. n \in Nat /\ Len(w) \in Nat /\ Len(q) \in Nat
    OBVIOUS
  <1>2. ASSUME q[n] \in X PROVE Left(q, X, w, n, h)
    <2>1. h \in [1..Len(w) -> 1..n]
      BY <1>1 DEF Left
    <2>2. \A k \in 1..n : q[k] \notin X => k \in 1..(n - 1)
      BY <1>1, <1>2
    <2> QED BY <2>1, <2>2 DEF Left
  <1>3. ASSUME q[n] \notin X PROVE \E g : Left(q, X, Append(w, q[n]), n, g)
    <2> DEFINE v == Append(w, q[n])
               g == [i \in 1..Len(v) |-> IF i = Len(v) THEN n ELSE h[i]]
    <2>1. /\ Len(v) = Len(w) + 1 /\ v[Len(v)] = q[n]
          /\ \A i \in 1..Len(w) : v[i] = w[i] /\ i \in 1..Len(v) /\ i # Len(v)
          /\ \A i \in 1..Len(v) : i = Len(v) \/ i \in 1..Len(w)
      BY <1>1
    <2>2. \A i \in 1..Len(w) : g[i] = h[i] /\ h[i] \in 1..(n - 1) /\ h[i] < n
      BY <1>1, <2>1 DEF Left
    <2>3. g[Len(v)] = n /\ Len(v) \in 1..Len(v)
      BY <1>1, <2>1
    <2> HIDE DEF v, g
    <2>4. g \in [1..Len(v) -> 1..n]
      <3>1. \A i \in 1..Len(v) : g[i] \in 1..n
        BY <1>1, <2>1, <2>2, <2>3
      <3> QED BY <3>1 DEF g
    <2>5. \A i, j \in 1..Len(v) : i < j => g[i] < g[j]
      <3> TAKE i, j \in 1..Len(v)
      <3> HAVE i < j
      <3>1. i \in 1..Len(w)
        BY <1>1, <2>1
      <3>2. CASE j = Len(v)
        BY <3>1, <3>2, <2>2, <2>3
      <3>3. CASE j \in 1..Len(w)
        BY <3>1, <3>3, <2>2 DEF Left
      <3> QED BY <2>1, <3>2, <3>3
    <2>6. \A i \in 1..Len(v) : v[i] = q[g[i]] /\ q[g[i]] \notin X
      BY <1>3, <2>1, <2>2, <2>3 DEF Left
    <2>7. \A k \in 1..n : q[k] \notin X => \E i \in 1..Len(v) : g[i] = k
      <3> TAKE k \in 1..n
      <3> HAVE q[k] \notin X
      <3>1. CASE k = n
        BY <3>1, <2>3
      <3>2. CASE k # n
        <4>1. k \in 1..(n - 1)
          BY <3>2, <1>1
        <4>2. PICK i \in 1..Len(w) : h[i] = k
          BY <4>1 DEF Left
        <4> QED BY <4>2, <2>1, <2>2
      <3> QED BY <3>1, <3>2
    <2> QED BY <2>4, <2>5, <2>6, <2>7 DEF Left, v
  <1> QED BY <1>2, <1>3

\* What filtering leaves are the other elements in their order.
LEMMA WithoutAllLeaves ==
  ASSUME NEW S, NEW q \in Seq(S), NEW X
  PROVE  WithoutAll(q, X) \in Seq(S) /\ \E h : Left(q, X, WithoutAll(q, X), Len(q), h)
  <1> DEFINE F == Filtered(q, X)
             Good(n) == F[n] \in Seq(S) /\ \E h : Left(q, X, F[n], n, h)
             T == {n \in 0..Len(q) : ~Good(n)}
  <1>0. Len(q) \in Nat
    OBVIOUS
  <1>1. Good(0)
    <2>1. F[0] = <<>>
      BY <1>0, FilteredStep DEF Step
    <2>2. Left(q, X, <<>>, 0, [i \in 1..0 |-> 0])
      BY DEF Left
    <2> QED BY <2>1, <2>2
  <1>2. ASSUME NEW n \in 1..Len(q), Good(n - 1) PROVE Good(n)
    <2>1. F[n] = IF q[n] \in X THEN F[n - 1] ELSE Append(F[n - 1], q[n])
      <3>1. n \in 0..Len(q) /\ n # 0
        BY <1>0
      <3> HIDE DEF F
      <3>2. F[n] = Step(q, X, F, n)
        BY <3>1, FilteredStep DEF F
      <3> QED BY <3>1, <3>2 DEF Step
    <2>2. PICK h : Left(q, X, F[n - 1], n - 1, h)
      BY <1>2
    <2>3. F[n - 1] \in Seq(S) /\ q[n] \in S
      BY <1>2, <1>0
    <2> HIDE DEF F
    <2>4. CASE q[n] \in X
      BY <2>1, <2>2, <2>3, <2>4, LeftExtends
    <2>5. CASE q[n] \notin X
      <3>1. F[n] = Append(F[n - 1], q[n])
        BY <2>1, <2>5
      <3>2. \E g : Left(q, X, Append(F[n - 1], q[n]), n, g)
        BY <2>2, <2>3, <2>5, LeftExtends
      <3>3. Append(F[n - 1], q[n]) \in Seq(S)
        BY <2>3
      <3> QED BY <3>1, <3>2, <3>3
    <2> QED BY <2>4, <2>5
  <1> HIDE DEF Good, F
  <1>3. T = {}
    <2> SUFFICES ASSUME T # {} PROVE FALSE
      OBVIOUS
    <2>1. T \subseteq Nat
      BY <1>0
    <2>2. PICK n \in T : \A m \in T : n <= m
      BY <2>1, LeastNumber
    <2>3. n # 0 /\ n \in 1..Len(q) /\ n - 1 \in 0..Len(q) /\ ~Good(n)
      BY <1>0, <1>1, <2>2
    <2>4. Good(n - 1)
      BY <2>2, <2>3
    <2> QED BY <1>2, <2>3, <2>4
  <1>4. Good(Len(q))
    BY <1>0, <1>3
  <1>5. WithoutAll(q, X) = F[Len(q)]
    BY DEF F, Filtered, WithoutAll
  <1> QED BY <1>4, <1>5 DEF Good

\* finish/3: the element is gone, the others are left, each once.
LEMMA WithoutElements ==
  ASSUME NEW S, NEW q \in Seq(S), NEW x
  PROVE  /\ Without(q, x) \in Seq(S)
         /\ Elements(Without(q, x)) = Elements(q) \ {x}
         /\ Distinct(q) => Distinct(Without(q, x))
  <1> DEFINE w == Without(q, x)
  <1>1. w \in Seq(S) /\ Len(w) \in Nat /\ Len(q) \in Nat
    BY WithoutAllLeaves DEF Without
  <1>2. PICK h : Left(q, {x}, w, Len(q), h)
    BY WithoutAllLeaves DEF Without
  <1> HIDE DEF w
  <1>3. \A i \in 1..Len(w) : h[i] \in 1..Len(q) /\ w[i] = q[h[i]] /\ w[i] # x
    BY <1>2 DEF Left
  <1>4. Elements(w) = Elements(q) \ {x}
    <2>1. ASSUME NEW y \in Elements(q), y # x PROVE y \in Elements(w)
      <3>1. PICK k \in 1..Len(q) : y = q[k]
        BY <2>1 DEF Elements
      <3>2. PICK i \in 1..Len(w) : h[i] = k
        BY <3>1, <2>1, <1>2 DEF Left
      <3> QED BY <3>1, <3>2, <1>3 DEF Elements
    <2>2. ASSUME NEW y \in Elements(w) PROVE y \in Elements(q) /\ y # x
      BY <1>3 DEF Elements
    <2> QED BY <2>1, <2>2
  <1>5. ASSUME Distinct(q), NEW i \in 1..Len(w), NEW j \in 1..Len(w), w[i] = w[j]
        PROVE  i = j
    <2>1. h[i] = h[j] /\ h[i] \in Nat
      BY <1>3, <1>5 DEF Distinct
    <2>2. i < j => h[i] < h[j]
      BY <1>2 DEF Left
    <2>3. j < i => h[j] < h[i]
      BY <1>2 DEF Left
    <2> QED BY <1>1, <2>1, <2>2, <2>3
  <1>6. Distinct(q) => Distinct(w)
    BY <1>5 DEF Distinct
  <1> QED BY <1>1, <1>4, <1>6 DEF w

\* Filtering keeps a queue sorted by the rank of its elements.
LEMMA WithoutSorted ==
  ASSUME NEW S, NEW q \in Seq(S), NEW x, NEW rank,
         \A i, j \in 1..Len(q) : i < j => rank[q[i]] < rank[q[j]]
  PROVE  \A i, j \in 1..Len(Without(q, x)) :
            i < j => rank[Without(q, x)[i]] < rank[Without(q, x)[j]]
  <1> DEFINE w == Without(q, x)
  <1>1. PICK h : Left(q, {x}, w, Len(q), h)
    BY WithoutAllLeaves DEF Without
  <1> HIDE DEF w
  <1>2. \A i, j \in 1..Len(w) : i < j => rank[w[i]] < rank[w[j]]
    BY <1>1 DEF Left
  <1> QED BY <1>2 DEF w

\* :queue.in/2
LEMMA AppendElements ==
  ASSUME NEW S, NEW q \in Seq(S), NEW x \in S
  PROVE  /\ Append(q, x) \in Seq(S)
         /\ Elements(Append(q, x)) = Elements(q) \cup {x}
         /\ Distinct(q) /\ x \notin Elements(q) => Distinct(Append(q, x))
  <1> DEFINE v == Append(q, x)
  <1>1. /\ v \in Seq(S) /\ Len(q) \in Nat /\ Len(v) = Len(q) + 1 /\ v[Len(v)] = x
        /\ \A i \in 1..Len(q) : v[i] = q[i] /\ i \in 1..Len(v)
        /\ \A i \in 1..Len(v) : i = Len(v) \/ i \in 1..Len(q)
        /\ Len(v) \in 1..Len(v)
    OBVIOUS
  <1> HIDE DEF v
  <1>2. Elements(v) = Elements(q) \cup {x}
    BY <1>1 DEF Elements
  <1>3. ASSUME Distinct(q), x \notin Elements(q) PROVE Distinct(v)
    BY <1>1, <1>3 DEF Distinct, Elements
  <1> QED BY <1>1, <1>2, <1>3 DEF v

\* :queue.out/1
LEMMA TailElements ==
  ASSUME NEW S, NEW q \in Seq(S), q # <<>>, Distinct(q)
  PROVE  /\ Head(q) \in S /\ Head(q) \in Elements(q)
         /\ Tail(q) \in Seq(S) /\ Distinct(Tail(q))
         /\ Elements(Tail(q)) = Elements(q) \ {Head(q)}
  <1> DEFINE t == Tail(q)
  <1>1. /\ Len(q) \in Nat \ {0} /\ t \in Seq(S) /\ Len(t) = Len(q) - 1 /\ Head(q) = q[1]
        /\ \A i \in 1..Len(t) : t[i] = q[i + 1] /\ i + 1 \in 1..Len(q) /\ i + 1 # 1
        /\ \A i \in 1..Len(q) : i = 1 \/ (i - 1 \in 1..Len(t) /\ (i - 1) + 1 = i)
        /\ 1 \in 1..Len(q)
    OBVIOUS
  <1> HIDE DEF t
  <1>2. Head(q) \in S /\ Head(q) \in Elements(q)
    BY <1>1 DEF Elements
  <1>3. Distinct(t)
    <2>1. ASSUME NEW i \in 1..Len(t), NEW j \in 1..Len(t), t[i] = t[j] PROVE i = j
      <3>1. i + 1 = j + 1
        BY <1>1, <2>1 DEF Distinct
      <3> QED BY <3>1, <1>1
    <2> QED BY <2>1 DEF Distinct
  <1>4. ASSUME NEW y \in Elements(t) PROVE y \in Elements(q) /\ y # Head(q)
    BY <1>1 DEF Elements, Distinct
  <1>5. ASSUME NEW y \in Elements(q), y # Head(q) PROVE y \in Elements(t)
    <2>1. PICK i \in 1..Len(q) : y = q[i]
      BY DEF Elements
    <2>2. i - 1 \in 1..Len(t) /\ t[i - 1] = y
      BY <1>1, <1>5, <2>1
    <2> QED BY <2>2 DEF Elements
  <1> QED BY <1>1, <1>2, <1>3, <1>4, <1>5 DEF t

LEMMA NoElements ==
  ASSUME NEW S, NEW q \in Seq(S)
  PROVE  q = <<>> <=> Elements(q) = {}
  <1>1. ASSUME q # <<>> PROVE q[1] \in Elements(q)
    <2>1. 1 \in 1..Len(q)
      BY <1>1
    <2> QED BY <2>1 DEF Elements
  <1>2. Elements(<<>>) = {}
    BY DEF Elements
  <1> QED BY <1>1, <1>2
=============================================================================
