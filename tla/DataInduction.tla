--------------------------- MODULE DataInduction ---------------------------
(* What the proofs about recursive functions rest on: induction and the        *)
(* existence of a function defined by recursion, with sets and functions in    *)
(* the place of the predicate and of the step, so that no lemma has an         *)
(* operator for a parameter.                                                   *)
EXTENDS Integers, Sequences, FiniteSetTheorems, TLAPS

\* A nonempty set of naturals has a least element: the intervals 1..n of its
\* members are finite sets, on which strict inclusion is well-founded.
LEMMA LeastElement ==
    ASSUME NEW T, T \subseteq Nat, T # {}
    PROVE  \E x \in T : \A y \in T : x <= y
<1>. DEFINE I == {1..n : n \in T}
<1>1. IsWellFoundedOn(StrictSubsetOrdering(Nat), FiniteSubsetsOf(Nat))
    BY FS_StrictSubsetOrderingWellFounded
<1>2. I \subseteq FiniteSubsetsOf(Nat) /\ I # {}
    <2>1. \A n \in T : 1..n \in SUBSET Nat /\ IsFiniteSet(1..n)
        BY FS_Interval
    <2>. QED  BY <2>1 DEF FiniteSubsetsOf
<1>3. PICK s \in I : \A t \in I : <<t, s>> \notin StrictSubsetOrdering(Nat)
    BY <1>1, <1>2, WFMin
<1>4. PICK x \in T : s = 1..x
    OBVIOUS
<1>5. ASSUME NEW y \in T, ~(x <= y) PROVE FALSE
    <2>1. x \in Nat /\ y \in Nat /\ y < x
        BY <1>5
    <2>2. 1..y \subseteq 1..x /\ 1..x \subseteq Nat /\ x \in 1..x /\ x \notin 1..y
        BY <2>1
    <2>3. <<1..y, 1..x>> \in StrictSubsetOrdering(Nat)
        BY <2>2 DEF StrictSubsetOrdering
    <2>. QED  BY <1>3, <1>4, <2>3
<1>. QED  BY <1>5

\* Induction, with the set of the numbers that have the property.
LEMMA SetInduction ==
    ASSUME NEW S, 0 \in S, \A n \in Nat : n \in S => n + 1 \in S
    PROVE  Nat \subseteq S
<1>. DEFINE T == Nat \ S
<1>. SUFFICES ASSUME T # {} PROVE FALSE
    OBVIOUS
<1>1. PICK x \in T : \A y \in T : x <= y
    BY LeastElement
<1>2. x - 1 \in Nat /\ x - 1 \in S /\ x = (x - 1) + 1
    BY <1>1
<1>. QED  BY <1>1, <1>2

\* The same up to a bound.
LEMMA IntervalInduction ==
    ASSUME NEW n \in Nat, NEW S, 0 \in S,
           \A i \in 1..n : i - 1 \in S => i \in S
    PROVE  0..n \subseteq S
<1>. DEFINE U == {i \in Nat : i <= n => i \in S}
<1>1. 0 \in U
    OBVIOUS
<1>2. ASSUME NEW i \in Nat, i \in U PROVE i + 1 \in U
    <2>. SUFFICES ASSUME i + 1 <= n PROVE i + 1 \in S
        OBVIOUS
    <2>1. i + 1 \in 1..n /\ (i + 1) - 1 = i /\ i <= n
        OBVIOUS
    <2>. QED  BY <1>2, <2>1
<1>. HIDE DEF U
<1>3. Nat \subseteq U
    BY <1>1, <1>2, SetInduction
<1>. QED  BY <1>3 DEF U

\* f is what a base and a step define by recursion on 0..n.
Recursive(f, n, base, step) ==
    f[0] = base /\ \A i \in 1..n : f[i] = step[<<f[i - 1], i>>]

\* There is such a function, into the set that the base and the step are in.
LEMMA RecursionExists ==
    ASSUME NEW T, NEW n \in Nat, NEW base \in T, NEW step \in [T \X (1..n) -> T]
    PROVE  \E f \in [0..n -> T] : Recursive(f, n, base, step)
<1>. DEFINE S == {m \in 0..n : \E f \in [0..m -> T] : Recursive(f, m, base, step)}
<1>1. 0 \in S
    <2>. DEFINE f == [i \in 0..0 |-> base]
    <2>1. f \in [0..0 -> T] /\ f[0] = base /\ 1..0 = {}
        OBVIOUS
    <2>. HIDE DEF f
    <2>. QED  BY <2>1 DEF Recursive
<1>2. ASSUME NEW m \in 1..n, m - 1 \in S PROVE m \in S
    <2>1. PICK g \in [0..(m - 1) -> T] : Recursive(g, m - 1, base, step)
        BY <1>2
    <2>2. g[0] = base /\ \A i \in 1..(m - 1) : g[i] = step[<<g[i - 1], i>>]
        BY <2>1 DEF Recursive
    <2>. DEFINE last == step[<<g[m - 1], m>>]
                f == [i \in 0..m |-> IF i = m THEN last ELSE g[i]]
    <2>3. last \in T
        BY <2>1
    <2>4. f \in [0..m -> T] /\ f[m] = last /\ \A i \in 0..(m - 1) : f[i] = g[i]
        BY <2>1, <2>3
    <2>. HIDE DEF f
    <2>5. f[0] = base
        BY <2>2, <2>4
    <2>6. ASSUME NEW i \in 1..m PROVE f[i] = step[<<f[i - 1], i>>]
        <3>1. f[i - 1] = g[i - 1]
            BY <2>4
        <3>2. CASE i = m
            BY <2>4, <3>1, <3>2
        <3>3. CASE i # m
            <4>1. i \in 1..(m - 1) /\ i \in 0..(m - 1)
                BY <3>3
            <4>. QED  BY <2>2, <2>4, <3>1, <4>1
        <3>. QED  BY <3>2, <3>3
    <2>. QED  BY <2>4, <2>5, <2>6 DEF Recursive
<1>. HIDE DEF S
<1>3. 0..n \subseteq S
    BY <1>1, <1>2, IntervalInduction
<1>4. n \in S
    BY <1>3
<1>. QED  BY <1>4 DEF S

------------------------------------------------------------------------------
(* Counting and adding up. *)

\* How many of the first n numbers are in a set.
CountIn(n, B) == Cardinality({d \in 1..n : d \in B})

\* One more number, one more in the set, if it is in it.
LEMMA OneMore ==
    ASSUME NEW n \in Nat, NEW B
    PROVE  /\ CountIn(n, B) \in Nat
           /\ CountIn(n + 1, B) = CountIn(n, B) + (IF n + 1 \in B THEN 1 ELSE 0)
<1>. DEFINE S == {d \in 1..n : d \in B}
<1>1. IsFiniteSet(S) /\ Cardinality(S) \in Nat
    <2>1. IsFiniteSet(1..n) /\ S \subseteq 1..n
        BY FS_Interval
    <2>2. IsFiniteSet(S)
        BY <2>1, FS_Subset
    <2>. QED  BY <2>2, FS_CardinalityType
<1>2. CASE n + 1 \in B
    <2>1. {d \in 1..(n + 1) : d \in B} = S \cup {n + 1} /\ n + 1 \notin S
        BY <1>2
    <2>2. Cardinality(S \cup {n + 1}) = Cardinality(S) + 1
        BY <1>1, <2>1, FS_AddElement
    <2>. QED  BY <1>1, <1>2, <2>1, <2>2 DEF CountIn
<1>3. CASE n + 1 \notin B
    <2>1. {d \in 1..(n + 1) : d \in B} = S
        BY <1>3
    <2>. QED  BY <1>1, <1>3, <2>1 DEF CountIn
<1>. QED  BY <1>1, <1>2, <1>3

\* There are none among the first none.
LEMMA NoneCounted == \A B : CountIn(0, B) = 0
<1>1. \A B : {d \in 1..0 : d \in B} = {}
    OBVIOUS
<1>. QED  BY <1>1, FS_EmptySet DEF CountIn

\* The sum of a sequence of numbers.
SumOf(v) ==
    LET sum[i \in 0..Len(v)] == IF i = 0 THEN 0 ELSE sum[i - 1] + v[i]
    IN sum[Len(v)]

\* A sequence of n numbers, and its partial sums.
Numbers(v, n) == Len(v) = n /\ \A i \in 1..n : v[i] \in Int
AddsUp(g, v, n) == g[0] = 0 /\ \A i \in 1..n : g[i] = g[i - 1] + v[i]

\* Every sequence of numbers has partial sums.
LEMMA SumExists ==
    ASSUME NEW n \in Nat, NEW v, Numbers(v, n)
    PROVE  \E g \in [0..n -> Int] : AddsUp(g, v, n)
<1>1. PICK step : step = [a \in Int \X (1..n) |-> a[1] + v[a[2]]]
    OBVIOUS
<1>2. step \in [Int \X (1..n) -> Int] /\ 0 \in Int
    BY <1>1 DEF Numbers
<1>3. PICK f \in [0..n -> Int] : Recursive(f, n, 0, step)
    BY <1>2, RecursionExists
<1>4. ASSUME NEW i \in 1..n PROVE f[i] = f[i - 1] + v[i]
    <2>1. f[i - 1] \in Int
        BY <1>3
    <2>. QED  BY <1>1, <1>3, <2>1 DEF Recursive
<1>. QED  BY <1>3, <1>4 DEF Recursive, AddsUp

\* The last of them is the sum.
LEMMA SumIs ==
    ASSUME NEW n \in Nat, NEW v, Numbers(v, n), NEW g, AddsUp(g, v, n)
    PROVE  SumOf(v) = g[n] /\ SumOf(v) \in Int
<1>1. PICK f \in [0..n -> Int] : AddsUp(f, v, n)
    BY SumExists
<1>2. f = [i \in 0..n |-> IF i = 0 THEN 0 ELSE f[i - 1] + v[i]]
    <2>1. ASSUME NEW i \in 0..n PROVE f[i] = IF i = 0 THEN 0 ELSE f[i - 1] + v[i]
        <3>1. i = 0 \/ i \in 1..n
            OBVIOUS
        <3>. QED  BY <1>1, <3>1 DEF AddsUp
    <2>. QED  BY <1>1, <2>1
<1>3. PICK e : e = CHOOSE h : h = [i \in 0..n |-> IF i = 0 THEN 0 ELSE h[i - 1] + v[i]]
    OBVIOUS
<1>4. e = [i \in 0..n |-> IF i = 0 THEN 0 ELSE e[i - 1] + v[i]]
    BY <1>2, <1>3
<1>5. SumOf(v) = e[n]
    BY <1>3 DEF SumOf, Numbers
<1>6. 0..n \subseteq {i \in 0..n : e[i] = g[i] /\ e[i] \in Int}
    <2>1. 0 \in {i \in 0..n : e[i] = g[i] /\ e[i] \in Int}
        BY <1>4 DEF AddsUp
    <2>2. ASSUME NEW i \in 1..n, i - 1 \in {j \in 0..n : e[j] = g[j] /\ e[j] \in Int}
          PROVE  i \in {j \in 0..n : e[j] = g[j] /\ e[j] \in Int}
        <3>1. e[i] = e[i - 1] + v[i]
            BY <1>4
        <3>. QED  BY <2>2, <3>1 DEF AddsUp, Numbers
    <2>. QED  BY <2>1, <2>2, IntervalInduction
<1>. QED  BY <1>5, <1>6

\* Nothing but zeros adds up to zero.
LEMMA SumOfZeros ==
    ASSUME NEW n \in Nat, NEW v, Len(v) = n, \A i \in 1..n : v[i] = 0
    PROVE  SumOf(v) = 0
<1>1. PICK g : g = [i \in 0..n |-> 0]
    OBVIOUS
<1>2. AddsUp(g, v, n) /\ Numbers(v, n) /\ g[n] = 0
    BY <1>1 DEF AddsUp, Numbers
<1>. QED  BY <1>2, SumIs

\* One more number at the end.
LEMMA SumPush ==
    ASSUME NEW n \in Nat, NEW v, NEW w, Numbers(v, n), Numbers(w, n + 1),
           \A i \in 1..n : w[i] = v[i]
    PROVE  SumOf(w) = SumOf(v) + w[n + 1]
<1>1. PICK k \in Nat : k = n + 1
    OBVIOUS
<1>2. PICK g \in [0..k -> Int] : AddsUp(g, w, k)
    BY <1>1, SumExists
<1>3. AddsUp(g, v, n)
    <2>. SUFFICES ASSUME NEW i \in 1..n PROVE g[i] = g[i - 1] + v[i]
        BY <1>2 DEF AddsUp
    <2>1. i \in 1..k
        BY <1>1
    <2>. QED  BY <1>2, <2>1 DEF AddsUp
<1>4. SumOf(v) = g[n] /\ SumOf(w) = g[k]
    BY <1>1, <1>2, <1>3, SumIs
<1>5. k \in 1..k /\ k - 1 = n
    BY <1>1
<1>6. g[k] = g[k - 1] + w[k]
    BY <1>2, <1>5 DEF AddsUp
<1>. QED  BY <1>1, <1>4, <1>5, <1>6

\* The same amount more in some of the places.
Raised(w, v, n, x, B) ==
    Len(w) = n /\ \A i \in 1..n : w[i] = v[i] + (IF i \in B THEN x ELSE 0)

\* The sum grows by it once for each of them.
LEMMA SumShift ==
    ASSUME NEW n \in Nat, NEW v, NEW w, NEW x \in Int, NEW B,
           Numbers(v, n), Raised(w, v, n, x, B)
    PROVE  SumOf(w) = SumOf(v) + x * CountIn(n, B)
<1>. Len(w) = n /\ \A i \in 1..n : w[i] = v[i] + (IF i \in B THEN x ELSE 0)
    BY DEF Raised
<1>1. PICK g \in [0..n -> Int] : AddsUp(g, v, n)
    BY SumExists
<1>2. SumOf(v) = g[n]
    BY <1>1, SumIs
<1>3. PICK c : c = [i \in 0..n |-> CountIn(i, B)]
    OBVIOUS
<1>4. c[0] = 0 /\ \A i \in 0..n : c[i] \in Nat
    <2>1. c[0] = 0
        BY <1>3, NoneCounted
    <2>2. \A i \in 0..n : i \in Nat /\ c[i] = CountIn(i, B)
        BY <1>3
    <2>3. \A i \in Nat : CountIn(i, B) \in Nat
        BY OneMore
    <2>. QED  BY <2>1, <2>2, <2>3
<1>5. ASSUME NEW i \in 1..n PROVE c[i] = c[i - 1] + (IF i \in B THEN 1 ELSE 0)
    <2>1. PICK j \in Nat : j = i - 1 /\ j + 1 = i
        OBVIOUS
    <2>2. CountIn(j + 1, B) = CountIn(j, B) + (IF j + 1 \in B THEN 1 ELSE 0)
        BY OneMore
    <2>. QED  BY <1>3, <2>1, <2>2
<1>6. PICK h : h = [i \in 0..n |-> g[i] + x * c[i]]
    OBVIOUS
<1>7. h[0] = 0
    <2>1. x * 0 = 0
        OBVIOUS
    <2>. QED  BY <1>1, <1>4, <1>6, <2>1 DEF AddsUp
<1>8. ASSUME NEW i \in 1..n PROVE h[i] = h[i - 1] + w[i]
    <2>1. i - 1 \in 0..n /\ i \in 0..n
        OBVIOUS
    <2>2. PICK a \in Nat, b \in Int : a = c[i - 1] /\ b = g[i - 1]
        BY <1>1, <1>4, <2>1
    <2>3. h[i - 1] = b + x * a /\ h[i] = g[i] + x * c[i] /\ g[i] = b + v[i]
        BY <1>1, <1>6, <2>1, <2>2 DEF AddsUp
    <2>4. PICK y \in Int, u \in Int : y = x * a /\ u = v[i]
        BY DEF Numbers
    <2>5. CASE i \in B
        <3>1. c[i] = a + 1 /\ w[i] = u + x
            BY <1>5, <2>2, <2>4, <2>5
        <3>2. x * (a + 1) = x * a + x
            OBVIOUS
        <3>. QED  BY <2>3, <2>4, <3>1, <3>2
    <2>6. CASE i \notin B
        <3>1. c[i] = a /\ w[i] = u
            BY <1>5, <2>2, <2>4, <2>6
        <3>. QED  BY <2>3, <2>4, <3>1
    <2>. QED  BY <2>5, <2>6
<1>9. Numbers(w, n) /\ AddsUp(h, w, n)
    <2>1. ASSUME NEW i \in 1..n PROVE w[i] \in Int
        <3>1. PICK u \in Int : u = v[i]
            BY DEF Numbers
        <3>. QED  BY <3>1
    <2>2. Numbers(w, n)
        BY <2>1 DEF Numbers
    <2>. QED  BY <1>7, <1>8, <2>2 DEF AddsUp
<1>10. SumOf(w) = h[n]
    BY <1>9, SumIs
<1>. QED  BY <1>2, <1>3, <1>6, <1>10

------------------------------------------------------------------------------
(* Going through the numbers up to n and collecting what v has for those in B. *)

Collects(c, n, B, v) ==
    /\ c[0] = <<>>
    /\ \A i \in 1..n : c[i] = IF i \in B THEN Append(c[i - 1], v[i]) ELSE c[i - 1]

\* There is such a collection.
LEMMA CollectsExists ==
    ASSUME NEW n \in Nat, NEW B, NEW T, NEW v \in [1..n -> T]
    PROVE  \E c \in [0..n -> Seq(T)] : Collects(c, n, B, v)
<1>1. PICK S : S = Seq(T)
    OBVIOUS
<1>2. PICK step : step = [a \in S \X (1..n) |-> IF a[2] \in B THEN Append(a[1], v[a[2]]) ELSE a[1]]
    OBVIOUS
<1>3. step \in [S \X (1..n) -> S] /\ <<>> \in S
    <2>1. \A s \in S, i \in 1..n : Append(s, v[i]) \in S
        BY <1>1
    <2>2. \A a \in S \X (1..n) : a[1] \in S /\ a[2] \in 1..n
        OBVIOUS
    <2>. QED  BY <1>1, <1>2, <2>1, <2>2
<1>4. PICK c \in [0..n -> S] : Recursive(c, n, <<>>, step)
    BY <1>3, RecursionExists
<1>5. ASSUME NEW i \in 1..n PROVE c[i] = IF i \in B THEN Append(c[i - 1], v[i]) ELSE c[i - 1]
    <2>1. c[i - 1] \in S /\ <<c[i - 1], i>> \in S \X (1..n)
        BY <1>4
    <2>2. c[i] = step[<<c[i - 1], i>>]
        BY <1>4 DEF Recursive
    <2>. QED  BY <1>2, <2>1, <2>2
<1>. QED  BY <1>1, <1>4, <1>5 DEF Collects, Recursive

\* What is collected does not depend on what comes later.
Alike(q, B, E, v, w) == \A i \in 1..q : (i \in B <=> i \in E) /\ v[i] = w[i]

\* Two collections of the same are the same.
LEMMA CollectsAgree ==
    ASSUME NEW q \in Nat, NEW n \in Nat, NEW l \in Nat, q <= n, q <= l, NEW B, NEW E, NEW v, NEW w,
           NEW c, Collects(c, n, B, v), NEW d, Collects(d, l, E, w),
           Alike(q, B, E, v, w)
    PROVE  c[q] = d[q]
<1>. DEFINE S == {i \in 0..q : c[i] = d[i]}
<1>1. 0 \in S
    BY DEF Collects
<1>2. ASSUME NEW i \in 1..q, i - 1 \in S PROVE i \in S
    <2>1. i \in 1..n /\ i \in 1..l
        OBVIOUS
    <2>. QED  BY <1>2, <2>1 DEF Collects, Alike
<1>. HIDE DEF S
<1>3. 0..q \subseteq S
    BY <1>1, <1>2, IntervalInduction
<1>4. q \in S
    BY <1>3
<1>. QED  BY <1>4 DEF S

Misses(q, r, B) == \A i \in (q + 1)..r : i \notin B

\* Nothing is collected where there is nothing of B.
LEMMA CollectsNothing ==
    ASSUME NEW n \in Nat, NEW B, NEW v, NEW c, Collects(c, n, B, v),
           NEW q \in Nat, NEW r \in Nat, q <= r, r <= n, Misses(q, r, B)
    PROVE  c[r] = c[q]
<1>. DEFINE S == {i \in 0..r : i >= q => c[i] = c[q]}
<1>1. 0 \in S
    OBVIOUS
<1>2. ASSUME NEW i \in 1..r, i - 1 \in S PROVE i \in S
    <2>1. CASE i > q
        <3>1. i \in 1..n /\ i \in (q + 1)..r
            BY <2>1
        <3>2. c[i] = c[i - 1]
            BY <3>1 DEF Collects, Misses
        <3>. QED  BY <1>2, <2>1, <3>2
    <2>2. CASE ~(i > q)
        <3>1. i >= q => i = q
            BY <2>2
        <3>. QED  BY <3>1
    <2>. QED  BY <2>1, <2>2
<1>. HIDE DEF S
<1>3. 0..r \subseteq S
    BY <1>1, <1>2, IntervalInduction
<1>4. r \in S
    BY <1>3
<1>. QED  BY <1>4 DEF S

CollectsInto(c, n, B, v, T) ==
    c \in [0..n -> Seq(T)] /\ v \in [1..n -> T] /\ Collects(c, n, B, v)

\* Two sequences put together, by their elements.
LEMMA PutTogether ==
    ASSUME NEW T, NEW r \in Seq(T), NEW s \in Seq(T), NEW t \in Seq(T),
           Len(t) = Len(r) + Len(s),
           \A i \in 1..Len(r) : t[i] = r[i],
           \A i \in 1..Len(s) : t[Len(r) + i] = s[i]
    PROVE  t = r \o s
<1>1. PICK m \in Nat, n \in Nat : m = Len(r) /\ n = Len(s)
    OBVIOUS
<1>2. PICK u : u = r \o s
    OBVIOUS
<1>3. u \in Seq(T) /\ Len(u) = m + n /\ \A i \in 1..(m + n) : u[i] = IF i <= m THEN r[i] ELSE s[i - m]
    BY <1>1, <1>2
<1>4. ASSUME NEW i \in 1..(m + n) PROVE t[i] = u[i]
    <2>1. CASE i <= m
        <3>1. i \in 1..m
            BY <1>1, <2>1
        <3>. QED  BY <1>1, <1>3, <2>1, <3>1
    <2>2. CASE ~(i <= m)
        <3>1. i - m \in 1..n /\ m + (i - m) = i
            BY <1>1, <2>2
        <3>2. t[i] = s[i - m]
            BY <1>1, <3>1
        <3>. QED  BY <1>3, <2>2, <3>2
    <2>. QED  BY <2>1, <2>2
<1>5. Len(t) = m + n
    BY <1>1
<1>. QED  BY <1>2, <1>3, <1>4, <1>5

\* s is the run of x numbers of B behind q.
Stretch(s, x, q, B, v) == Len(s) = x /\ \A i \in 1..x : q + i \in B /\ s[i] = v[q + i]

\* All of such a run is collected.
LEMMA CollectsRun ==
    ASSUME NEW n \in Nat, NEW B, NEW v, NEW T, NEW c, CollectsInto(c, n, B, v, T),
           NEW q \in Nat, NEW x \in Nat, q + x <= n, NEW s \in Seq(T), Stretch(s, x, q, B, v)
    PROVE  c[q + x] = c[q] \o s
<1>0. c \in [0..n -> Seq(T)] /\ v \in [1..n -> T] /\ Collects(c, n, B, v)
    BY DEF CollectsInto
<1>. USE <1>0
<1>0a. Len(s) = x /\ \A i \in 1..x : q + i \in B /\ s[i] = v[q + i]
    BY DEF Stretch
<1>1. PICK r \in Seq(T), l \in Nat : r = c[q] /\ l = Len(r)
    <2>1. q \in 0..n
        OBVIOUS
    <2>2. c[q] \in Seq(T)
        BY <2>1
    <2>. QED  BY <2>2
<1>. DEFINE S == {y \in 0..x : /\ Len(c[q + y]) = l + y
                               /\ \A i \in 1..l : c[q + y][i] = r[i]
                               /\ \A i \in 1..y : c[q + y][l + i] = s[i]}
<1>2. 0 \in S
    <2>1. q + 0 = q /\ 0 \in 0..x /\ l + 0 = l
        BY <1>1
    <2>. QED  BY <1>1, <2>1
<1>3. ASSUME NEW y \in 1..x, y - 1 \in S PROVE y \in S
    <2>1. q + y \in 1..n /\ (q + y) - 1 = q + (y - 1) /\ y - 1 \in 0..x
          /\ y \in 0..x
        OBVIOUS
    <2>2. PICK a : a = c[q + (y - 1)]
        OBVIOUS
    <2>3. a \in Seq(T) /\ Len(a) = l + (y - 1) /\ (\A i \in 1..l : a[i] = r[i])
          /\ (\A i \in 1..(y - 1) : a[l + i] = s[i])
        <3>1. q + (y - 1) \in 0..n
            BY <2>1
        <3>. QED  BY <1>3, <2>2, <3>1
    <2>4. PICK z \in T : z = s[y]
        BY <1>0a
    <2>5. PICK b : b = c[q + y]
        OBVIOUS
    <2>6. b = Append(a, z)
        <3>1. q + y \in B
            BY <1>0a
        <3>2. c[q + y] = Append(c[(q + y) - 1], v[q + y])
            BY <2>1, <3>1 DEF Collects
        <3>3. v[q + y] = z
            BY <1>0a, <2>4
        <3>. QED  BY <2>1, <2>2, <2>5, <3>2, <3>3
    <2>7. Len(b) = Len(a) + 1 /\ b[Len(a) + 1] = z /\ \A i \in 1..Len(a) : b[i] = a[i]
        <3>1. PICK k \in Nat : k = Len(a)
            BY <2>3
        <3>2. ASSUME NEW i \in 1..k PROVE b[i] = a[i]
            BY <2>3, <2>6, <3>1
        <3>3. Len(b) = k + 1 /\ b[k + 1] = z
            BY <2>3, <2>4, <2>6, <3>1
        <3>. QED  BY <3>1, <3>2, <3>3
    <2>8. Len(b) = l + y /\ b[l + y] = z /\ \A i \in 1..(l + y - 1) : b[i] = a[i]
        BY <1>1, <2>3, <2>7
    <2>9. \A i \in 1..l : b[i] = r[i]
        BY <1>1, <2>3, <2>8
    <2>10. \A i \in 1..y : b[l + i] = s[i]
        <3>. SUFFICES ASSUME NEW i \in 1..y PROVE b[l + i] = s[i]
            OBVIOUS
        <3>1. CASE i = y
            BY <2>4, <2>8, <3>1
        <3>2. CASE i # y
            <4>1. i \in 1..(y - 1) /\ l + i \in 1..(l + y - 1)
                BY <1>1, <3>2
            <4>. QED  BY <2>3, <2>8, <4>1
        <3>. QED  BY <3>1, <3>2
    <2>. QED  BY <2>1, <2>5, <2>8, <2>9, <2>10
<1>. HIDE DEF S
<1>4. 0..x \subseteq S
    <2>1. x \in Nat
        OBVIOUS
    <2>. QED  BY <1>2, <1>3, <2>1, IntervalInduction
<1>5. PICK t \in Seq(T) : t = c[q + x]
    <2>1. q + x \in 0..n
        OBVIOUS
    <2>. QED  BY <2>1
<1>6. Len(t) = l + x /\ (\A i \in 1..l : t[i] = r[i]) /\ (\A i \in 1..x : t[l + i] = s[i])
    <2>1. x \in S
        BY <1>4
    <2>. QED  BY <1>5, <2>1 DEF S
<1>7. t = r \o s
    BY <1>0a, <1>1, <1>6, PutTogether
<1>. QED  BY <1>1, <1>5, <1>7

\* What was collected is the beginning of what is collected later.
LEMMA CollectsMore ==
    ASSUME NEW n \in Nat, NEW B, NEW v, NEW T, NEW c, CollectsInto(c, n, B, v, T), NEW q \in Nat, NEW r \in Nat, q <= r, r <= n
    PROVE  Len(c[q]) <= Len(c[r]) /\ c[q] = SubSeq(c[r], 1, Len(c[q]))
<1>0. c \in [0..n -> Seq(T)] /\ v \in [1..n -> T] /\ Collects(c, n, B, v)
    BY DEF CollectsInto
<1>. USE <1>0
<1>1. PICK s \in Seq(T), l \in Nat : s = c[q] /\ l = Len(s)
    <2>1. q \in 0..n
        OBVIOUS
    <2>2. c[q] \in Seq(T)
        BY <2>1
    <2>. QED  BY <2>2
<1>. DEFINE S == {i \in 0..r : i >= q => l <= Len(c[i]) /\ \A j \in 1..l : c[i][j] = s[j]}
<1>2. 0 \in S
    BY <1>1
<1>3. ASSUME NEW i \in 1..r, i - 1 \in S PROVE i \in S
    <2>1. c[i - 1] \in Seq(T) /\ i \in 1..n /\ v[i] \in T
        OBVIOUS
    <2>2. CASE i > q
        <3>1. l <= Len(c[i - 1]) /\ \A j \in 1..l : c[i - 1][j] = s[j]
            BY <1>3, <2>2
        <3>2. CASE i \in B
            <4>1. c[i] = Append(c[i - 1], v[i])
                BY <2>1, <3>2 DEF Collects
            <4>2. Len(c[i]) = Len(c[i - 1]) + 1 /\ \A j \in 1..Len(c[i - 1]) : c[i][j] = c[i - 1][j]
                BY <2>1, <4>1
            <4>. QED  BY <1>1, <2>1, <3>1, <4>2
        <3>3. CASE i \notin B
            <4>1. c[i] = c[i - 1]
                BY <2>1, <3>3 DEF Collects
            <4>. QED  BY <3>1, <4>1
        <3>. QED  BY <3>2, <3>3
    <2>3. CASE ~(i > q)
        <3>1. i >= q => i = q
            BY <2>3
        <3>. QED  BY <1>1, <3>1
    <2>. QED  BY <2>2, <2>3
<1>. HIDE DEF S
<1>4. 0..r \subseteq S
    <2>1. r \in Nat
        OBVIOUS
    <2>. QED  BY <1>2, <1>3, <2>1, IntervalInduction
<1>5. PICK t \in Seq(T) : t = c[r] /\ l <= Len(t) /\ \A j \in 1..l : t[j] = s[j]
    <2>1. r \in S
        BY <1>4
    <2>. QED  BY <2>1 DEF S
<1>6. SubSeq(t, 1, l) = s
    BY <1>1, <1>5
<1>. QED  BY <1>1, <1>5, <1>6
=============================================================================
