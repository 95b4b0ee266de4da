------------------------- MODULE FieldStreamProofs -------------------------
(* What the layout of a message is, for every alphabet and every message: the  *)
(* facts about Layout and Decoding that the proofs about the decoder cite.     *)
EXTENDS FieldStream, DataInduction

\* A field of the alphabet has the sizes that the assumption gives it.
LEMMA FieldFacts ==
    ASSUME NEW x \in DOMAIN Alphabet
    PROVE  LET f == Known[x] IN
           /\ f \in Field
           /\ f.tag \in Nat \ {0} /\ f.meta \in Nat /\ f.units \in Nat
           /\ f.width \in Nat \ {0} /\ f.width <= CARRY_CAP
           /\ Header(f) \in Nat \ {0} /\ Header(f) <= CARRY_CAP
           /\ Size(f) \in Nat \ {0} /\ Header(f) <= Size(f)
           /\ f.type \in {"start", "end"} => Size(f) = f.tag
<1>. DEFINE f == Known[x]
<1>1. f \in Field /\ CARRY_CAP \in Nat \ {0} /\ f.width \in 1..CARRY_CAP /\ Header(f) <= CARRY_CAP
    BY FieldAssumption DEF Known
<1>2. f.tag \in Nat \ {0} /\ f.meta \in Nat /\ f.units \in Nat
    BY <1>1 DEF Field
<1>3. f.width \in Nat \ {0} /\ f.width <= CARRY_CAP
    BY <1>1
<1>4. f.units * f.width \in Nat
    BY <1>2, <1>3
<1>5. ASSUME f.type \in {"start", "end"} PROVE Size(f) = f.tag
    <2>1. f.units = 0 /\ f.meta = 0
        BY <1>5, FieldAssumption DEF Known
    <2>2. f.units * f.width = 0
        BY <1>3, <2>1
    <2>. QED  BY <1>2, <2>1, <2>2 DEF Size, Header
<1>. HIDE DEF f
<1>6. Header(f) \in Nat \ {0}
    BY <1>2 DEF Header
<1>7. Size(f) \in Nat \ {0} /\ Header(f) <= Size(f)
    BY <1>4, <1>6 DEF Size
<1>. QED  BY <1>1, <1>2, <1>3, <1>5, <1>6, <1>7 DEF f

\* Ends adds up the sizes.
LEMMA EndsAddUp ==
    ASSUME NEW word \in Seq(DOMAIN Alphabet)
    PROVE  /\ Ends(word) \in [0..Len(word) -> Nat]
           /\ Ends(word)[0] = 0
           /\ \A k \in 1..Len(word) :
                Ends(word)[k] = Ends(word)[k - 1] + Size(Known[word[k]])
<1>1. PICK n \in Nat : n = Len(word)
    OBVIOUS
<1>2. \A k \in 1..n : word[k] \in DOMAIN Alphabet /\ Size(Known[word[k]]) \in Nat
    BY <1>1, FieldFacts
<1>3. PICK step : step = [a \in Nat \X (1..n) |-> a[1] + Size(Known[word[a[2]]])]
    OBVIOUS
<1>4. step \in [Nat \X (1..n) -> Nat] /\ 0 \in Nat
    BY <1>2, <1>3
<1>5. PICK f \in [0..n -> Nat] : Recursive(f, n, 0, step)
    BY <1>4, RecursionExists
<1>6. \A i \in 1..n : f[i] = f[i - 1] + Size(Known[word[i]])
    <2>. SUFFICES ASSUME NEW i \in 1..n PROVE f[i] = f[i - 1] + Size(Known[word[i]])
        OBVIOUS
    <2>1. f[i - 1] \in Nat
        BY <1>5
    <2>. QED  BY <1>3, <1>5, <2>1 DEF Recursive
<1>7. f = [k \in 0..Len(word) |-> IF k = 0 THEN 0 ELSE f[k - 1] + Size(Known[word[k]])]
    <2>1. ASSUME NEW k \in 0..n
          PROVE  f[k] = IF k = 0 THEN 0 ELSE f[k - 1] + Size(Known[word[k]])
        <3>1. k = 0 \/ k \in 1..n
            OBVIOUS
        <3>. QED  BY <1>5, <1>6, <3>1 DEF Recursive
    <2>. QED  BY <1>1, <1>5, <2>1
<1>8. PICK e : e = Ends(word)
    OBVIOUS
<1>9. e = [k \in 0..Len(word) |-> IF k = 0 THEN 0 ELSE e[k - 1] + Size(Known[word[k]])]
    BY <1>7, <1>8 DEF Ends
<1>10. \A k \in 1..n : e[k] = e[k - 1] + Size(Known[word[k]])
    BY <1>1, <1>9
<1>11. 0..n \subseteq {k \in 0..n : e[k] \in Nat}
    <2>1. e[0] = 0
        BY <1>1, <1>9
    <2>2. ASSUME NEW k \in 1..n, k - 1 \in {i \in 0..n : e[i] \in Nat}
          PROVE  k \in {i \in 0..n : e[i] \in Nat}
        BY <1>2, <1>10, <2>2
    <2>3. 0 \in {i \in 0..n : e[i] \in Nat}
        BY <2>1
    <2>. QED  BY <2>2, <2>3, IntervalInduction
<1>12. e \in [0..n -> Nat] /\ e[0] = 0
    BY <1>1, <1>9, <1>11
<1>. QED  BY <1>1, <1>8, <1>10, <1>12

\* Open follows the sequences that start and end, from none open.
LEMMA OpenFollows ==
    ASSUME NEW word \in Seq(DOMAIN Alphabet)
    PROVE  /\ Open(word) \in [0..Len(word) -> Seq(Nat)]
           /\ Open(word)[0] = <<>>
           /\ \A k \in 1..Len(word) :
                Open(word)[k] = Inner(Open(word)[k - 1], k, Known[word[k]].type)
<1>1. PICK n \in Nat : n = Len(word)
    OBVIOUS
<1>2. ASSUME NEW q \in Seq(Nat), NEW k \in Nat, NEW type PROVE Inner(q, k, type) \in Seq(Nat)
    BY DEF Inner
<1>3. PICK step : step = [a \in Seq(Nat) \X (1..n) |-> Inner(a[1], a[2], Known[word[a[2]]].type)]
    OBVIOUS
<1>4. step \in [Seq(Nat) \X (1..n) -> Seq(Nat)] /\ <<>> \in Seq(Nat)
    BY <1>2, <1>3
<1>5. PICK f \in [0..n -> Seq(Nat)] : Recursive(f, n, <<>>, step)
    BY <1>4, RecursionExists
<1>6. \A i \in 1..n : f[i] = Inner(f[i - 1], i, Known[word[i]].type)
    <2>. SUFFICES ASSUME NEW i \in 1..n PROVE f[i] = Inner(f[i - 1], i, Known[word[i]].type)
        OBVIOUS
    <2>1. f[i - 1] \in Seq(Nat)
        BY <1>5
    <2>. QED  BY <1>3, <1>5, <2>1 DEF Recursive
<1>7. f = [k \in 0..Len(word) |->
              IF k = 0 THEN <<>> ELSE Inner(f[k - 1], k, Known[word[k]].type)]
    <2>1. ASSUME NEW k \in 0..n
          PROVE  f[k] = IF k = 0 THEN <<>> ELSE Inner(f[k - 1], k, Known[word[k]].type)
        <3>1. k = 0 \/ k \in 1..n
            OBVIOUS
        <3>. QED  BY <1>5, <1>6, <3>1 DEF Recursive
    <2>. QED  BY <1>1, <1>5, <2>1
<1>8. PICK o : o = Open(word)
    OBVIOUS
<1>9. o = [k \in 0..Len(word) |->
              IF k = 0 THEN <<>> ELSE Inner(o[k - 1], k, Known[word[k]].type)]
    BY <1>7, <1>8 DEF Open
<1>10. \A k \in 1..n : o[k] = Inner(o[k - 1], k, Known[word[k]].type)
    BY <1>1, <1>9
<1>11. 0..n \subseteq {k \in 0..n : o[k] \in Seq(Nat)}
    <2>1. 0 \in {i \in 0..n : o[i] \in Seq(Nat)}
        BY <1>1, <1>9
    <2>2. ASSUME NEW k \in 1..n, k - 1 \in {i \in 0..n : o[i] \in Seq(Nat)}
          PROVE  k \in {i \in 0..n : o[i] \in Seq(Nat)}
        BY <1>2, <1>10, <2>2
    <2>. QED  BY <2>1, <2>2, IntervalInduction
<1>12. o \in [0..n -> Seq(Nat)] /\ o[0] = <<>>
    BY <1>1, <1>9, <1>11
<1>. QED  BY <1>1, <1>8, <1>10, <1>12

\* The fields of a message follow one another: a field that comes later starts later.
LEMMA EndsGrow ==
    ASSUME NEW word \in Seq(DOMAIN Alphabet), NEW i \in 0..Len(word), NEW j \in 0..Len(word), i < j
    PROVE  Ends(word)[i] < Ends(word)[j]
<1>1. PICK n \in Nat : n = Len(word)
    OBVIOUS
<1>2. PICK e : e = Ends(word)
    OBVIOUS
<1>3. e \in [0..n -> Nat] /\ \A k \in 1..n : e[k] = e[k - 1] + Size(Known[word[k]])
    BY <1>1, <1>2, EndsAddUp
<1>4. \A k \in 1..n : e[k - 1] < e[k]
    <2>. SUFFICES ASSUME NEW k \in 1..n PROVE e[k - 1] < e[k]
        OBVIOUS
    <2>1. Size(Known[word[k]]) \in Nat \ {0}
        BY <1>1, FieldFacts
    <2>2. k - 1 \in 0..n /\ k \in 0..n
        OBVIOUS
    <2>3. e[k - 1] \in Nat /\ e[k] = e[k - 1] + Size(Known[word[k]])
        BY <1>3, <2>2
    <2>. QED  BY <2>1, <2>3
<1>5. PICK S : S = {k \in 0..n : i < k => e[i] < e[k]}
    OBVIOUS
<1>6. 0 \in S
    BY <1>1, <1>5
<1>7. ASSUME NEW k \in 1..n, k - 1 \in S PROVE k \in S
    <2>. k - 1 \in 0..n /\ k \in 0..n /\ i \in 0..n
        BY <1>1
    <2>1. e[k - 1] \in Nat /\ e[k] \in Nat /\ e[i] \in Nat /\ e[k - 1] < e[k]
        BY <1>3, <1>4
    <2>2. i < k => i = k - 1 \/ i < k - 1
        BY <1>1
    <2>. QED  BY <1>5, <1>7, <2>1, <2>2
<1>8. j \in S
    BY <1>1, <1>6, <1>7, IntervalInduction
<1>. QED  BY <1>2, <1>5, <1>8

\* Every byte of a message belongs to one field, the one that the layout names.
LEMMA OwnerFound ==
    ASSUME NEW word \in Seq(DOMAIN Alphabet), NEW b \in 1..Ends(word)[Len(word)]
    PROVE  LET k == Layout(word).owner[b] IN
           k \in 1..Len(word) /\ Ends(word)[k - 1] < b /\ b <= Ends(word)[k]
<1>1. PICK n \in Nat : n = Len(word)
    OBVIOUS
<1>2. PICK e : e = Ends(word)
    OBVIOUS
<1>3. e \in [0..n -> Nat] /\ e[0] = 0
    BY <1>1, <1>2, EndsAddUp
<1>4. PICK k \in {i \in 0..n : b <= e[i]} : \A i \in {i \in 0..n : b <= e[i]} : k <= i
    <2>1. n \in {i \in 0..n : b <= e[i]} /\ {i \in 0..n : b <= e[i]} \subseteq Nat
        BY <1>1, <1>2, <1>3
    <2>. QED  BY <2>1, LeastElement
<1>5. k \in 1..n /\ e[k - 1] < b
    <2>1. k # 0
        BY <1>1, <1>2, <1>3, <1>4
    <2>2. k - 1 \in 0..n /\ e[k - 1] \in Nat /\ ~(k <= k - 1)
        BY <1>3, <2>1
    <2>3. b \in Nat /\ ~(b <= e[k - 1])
        BY <1>2, <1>3, <1>4, <2>2
    <2>. QED  BY <2>1, <2>2, <2>3
<1>6. Layout(word).owner[b] = CHOOSE i \in 1..Len(word) : e[i - 1] < b /\ b <= e[i]
    BY <1>2 DEF Layout
<1>. QED  BY <1>1, <1>2, <1>4, <1>5, <1>6

\* What the proofs about the decoder use of a message that is decoded.
Laid(m) ==
    /\ m.fields \in Seq(DOMAIN Alphabet) /\ m.budget \in Nat
    /\ m.start \in [1..(Len(m.fields) + 1) -> Nat] /\ m.start[1] = 0
    /\ \A k \in Fields(m) : m.start[k + 1] = m.start[k] + Size(At(m, k))
    /\ \A j, k \in 1..(Len(m.fields) + 1) : j < k => m.start[j] < m.start[k]
    /\ m.opens \in [1..(Len(m.fields) + 1) -> Seq(Nat)] /\ m.opens[1] = <<>>
    /\ \A k \in Fields(m) : m.opens[k + 1] = Inner(m.opens[k], k, At(m, k).type)
    /\ m.owner \in [1..Bytes(m) -> Fields(m)]
    /\ \A b \in 1..Bytes(m) : m.start[m.owner[b]] < b /\ b <= m.start[m.owner[b] + 1]
    /\ m.live = {k \in Fields(m) : Live(m, k)}

\* Every decoding of the model is laid out in this way.
LEMMA DecodingsAreLaid ==
    ASSUME NEW m \in Decodings
    PROVE  Laid(m)
<1>1. PICK word \in Messages, b \in Budgets : m = Decoding(word, b)
    BY DEF Decodings
<1>2. word \in Seq(DOMAIN Alphabet) /\ b \in Nat
    BY <1>1, FieldAssumption
<1>3. PICK n \in Nat : n = Len(word)
    BY <1>2
<1>4. PICK e, o, layout : e = Ends(word) /\ o = Open(word) /\ layout = Layout(word)
    OBVIOUS
<1>5. /\ layout.fields = word
      /\ layout.start = [k \in 1..(n + 1) |-> e[k - 1]]
      /\ layout.opens = [k \in 1..(n + 1) |-> o[k - 1]]
      /\ DOMAIN layout.owner = 1..e[n]
    BY <1>3, <1>4 DEF Layout
<1>6. PICK full : full = WithLive(layout)
    OBVIOUS
<1>7. /\ full.fields = word /\ full.start = layout.start /\ full.opens = layout.opens
      /\ full.owner = layout.owner /\ full.live = {k \in Fields(layout) : Live(layout, k)}
    BY <1>5, <1>6 DEF WithLive
<1>8. /\ m.fields = word /\ m.start = layout.start /\ m.opens = layout.opens
      /\ m.owner = layout.owner /\ m.live = {k \in Fields(layout) : Live(layout, k)}
      /\ m.budget = b
    BY <1>1, <1>4, <1>6, <1>7 DEF Decoding
<1>9. /\ m.start \in [1..(n + 1) -> Nat] /\ m.start[1] = 0
      /\ \A k \in 1..n : m.start[k + 1] = m.start[k] + Size(At(m, k))
    <2>1. e \in [0..n -> Nat] /\ e[0] = 0 /\ \A k \in 1..n : e[k] = e[k - 1] + Size(Known[word[k]])
        BY <1>2, <1>3, <1>4, EndsAddUp
    <2>2. m.start = [k \in 1..(n + 1) |-> e[k - 1]]
        BY <1>5, <1>8
    <2>3. \A k \in 1..(n + 1) : k - 1 \in 0..n /\ e[k - 1] \in Nat
        BY <2>1
    <2>4. m.start \in [1..(n + 1) -> Nat]
        BY <2>2, <2>3
    <2>5. m.start[1] = 0
        BY <2>1, <2>2
    <2>6. ASSUME NEW k \in 1..n PROVE m.start[k + 1] = m.start[k] + Size(At(m, k))
        <3>1. m.start[k + 1] = e[k] /\ m.start[k] = e[k - 1] /\ At(m, k) = Known[word[k]]
            BY <1>8, <2>2 DEF At
        <3>. QED  BY <2>1, <3>1
    <2>. QED  BY <2>4, <2>5, <2>6
<1>10. \A j, k \in 1..(n + 1) : j < k => m.start[j] < m.start[k]
    <2>. SUFFICES ASSUME NEW j \in 1..(n + 1), NEW k \in 1..(n + 1), j < k
                  PROVE  m.start[j] < m.start[k]
        OBVIOUS
    <2>1. e[j - 1] < e[k - 1]
        BY <1>2, <1>3, <1>4, EndsGrow
    <2>. QED  BY <1>5, <1>8, <2>1
<1>11. /\ m.opens \in [1..(n + 1) -> Seq(Nat)] /\ m.opens[1] = <<>>
       /\ \A k \in 1..n : m.opens[k + 1] = Inner(m.opens[k], k, At(m, k).type)
    <2>1. /\ o \in [0..n -> Seq(Nat)] /\ o[0] = <<>>
          /\ \A k \in 1..n : o[k] = Inner(o[k - 1], k, Known[word[k]].type)
        BY <1>2, <1>3, <1>4, OpenFollows
    <2>2. m.opens = [k \in 1..(n + 1) |-> o[k - 1]]
        BY <1>5, <1>8
    <2>3. ASSUME NEW k \in 1..(n + 1) PROVE o[k - 1] \in Seq(Nat)
        <3>1. k - 1 \in 0..n
            OBVIOUS
        <3>. QED  BY <2>1, <3>1
    <2>4. m.opens \in [1..(n + 1) -> Seq(Nat)]
        BY <2>2, <2>3
    <2>5. m.opens[1] = <<>>
        BY <2>1, <2>2
    <2>6. ASSUME NEW k \in 1..n PROVE m.opens[k + 1] = Inner(m.opens[k], k, At(m, k).type)
        <3>1. m.opens[k + 1] = o[k] /\ m.opens[k] = o[k - 1] /\ At(m, k) = Known[word[k]]
            BY <1>8, <2>2 DEF At
        <3>. QED  BY <2>1, <3>1
    <2>. QED  BY <2>4, <2>5, <2>6
<1>12. Bytes(m) = e[n]
    BY <1>3, <1>5, <1>8 DEF Bytes
<1>13. \A c \in 1..Bytes(m) : /\ m.owner[c] \in 1..n
                              /\ m.start[m.owner[c]] < c /\ c <= m.start[m.owner[c] + 1]
    <2>. SUFFICES ASSUME NEW c \in 1..Bytes(m)
                  PROVE  /\ m.owner[c] \in 1..n
                         /\ m.start[m.owner[c]] < c /\ c <= m.start[m.owner[c] + 1]
        OBVIOUS
    <2>1. PICK k : k = m.owner[c]
        OBVIOUS
    <2>2. k \in 1..n /\ e[k - 1] < c /\ c <= e[k]
        BY <1>2, <1>3, <1>4, <1>8, <1>12, <2>1, OwnerFound
    <2>3. m.start[k] = e[k - 1] /\ m.start[k + 1] = e[k]
        BY <1>5, <1>8, <2>2
    <2>. QED  BY <2>1, <2>2, <2>3
<1>14. m.live = {k \in Fields(m) : Live(m, k)}
    <2>1. Fields(m) = Fields(layout)
        BY <1>5, <1>8 DEF Fields
    <2>2. \A k : At(m, k) = At(layout, k) /\ m.opens[k] = layout.opens[k]
        BY <1>5, <1>8 DEF At
    <2>3. \A k : (Nested(m, k) <=> Nested(layout, k)) /\ Outer(m, k) = Outer(layout, k)
        BY <2>2 DEF Nested, Outer
    <2>4. \A k : PastBound(m, k) <=> PastBound(layout, k)
        BY <2>2, <2>3 DEF PastBound
    <2>5. \A k : Declined(m, k) <=> Declined(layout, k)
        BY <2>2, <2>3, <2>4 DEF Declined, NotElement
    <2>6. \A k : Live(m, k) <=> Live(layout, k)
        BY <2>2, <2>5 DEF Live, Reached
    <2>. QED  BY <1>8, <2>1, <2>6
<1>15. m.owner \in [1..Bytes(m) -> 1..n]
    <2>1. PICK f : f = [c \in 1..e[n] |->
                           CHOOSE k \in 1..Len(word) : e[k - 1] < c /\ c <= e[k]]
        OBVIOUS
    <2>2. m.owner = f
        BY <1>3, <1>4, <1>8, <2>1 DEF Layout
    <2>. QED  BY <1>12, <1>13, <2>1, <2>2
<1>. QED  BY <1>2, <1>3, <1>8, <1>9, <1>10, <1>11, <1>13, <1>14, <1>15 DEF Laid, Fields

------------------------------------------------------------------------------
(* Where a byte is. *)

\* The field that goes on behind the first n bytes: the next one, when they end a field.
FieldAfter(m, n) == IF n + 1 > Bytes(m) THEN Len(m.fields) + 1 ELSE m.owner[n + 1]

\* A position from the start of a field to before its end is in that field.
LEMMA FieldAfterIs ==
    ASSUME NEW m, Laid(m), NEW k \in 1..(Len(m.fields) + 1), NEW n \in Nat,
           IF k \in Fields(m) THEN m.start[k] <= n /\ n < m.start[k + 1] ELSE n = m.start[k]
    PROVE  FieldAfter(m, n) = k
<1>1. PICK l \in Nat : l = Len(m.fields)
    BY DEF Laid
<1>2. /\ Fields(m) = 1..l /\ Bytes(m) = m.start[l + 1]
      /\ m.start \in [1..(l + 1) -> Nat]
      /\ \A i, j \in 1..(l + 1) : i < j => m.start[i] < m.start[j]
      /\ m.owner \in [1..Bytes(m) -> 1..l]
      /\ \A b \in 1..Bytes(m) : m.start[m.owner[b]] < b /\ b <= m.start[m.owner[b] + 1]
    BY <1>1 DEF Laid, Fields, Bytes
<1>3. Bytes(m) \in Nat
    BY <1>1, <1>2
<1>4. CASE k \notin Fields(m)
    BY <1>1, <1>2, <1>3, <1>4 DEF FieldAfter
<1>5. CASE k \in Fields(m)
    <2>1. k \in 1..l /\ k + 1 \in 1..(l + 1) /\ m.start[k] <= n /\ n < m.start[k + 1]
          /\ m.start[k] \in Nat /\ m.start[k + 1] \in Nat
        BY <1>1, <1>2, <1>5
    <2>2. m.start[k + 1] <= Bytes(m)
        <3>1. k = l \/ k + 1 < l + 1
            BY <1>1, <2>1
        <3>2. l + 1 \in 1..(l + 1)
            BY <1>1
        <3>. QED  BY <1>2, <1>3, <2>1, <3>1, <3>2
    <2>3. n + 1 \in 1..Bytes(m)
        BY <1>3, <2>1, <2>2
    <2>4. PICK j \in 1..l : j = m.owner[n + 1] /\ m.start[j] < n + 1 /\ n + 1 <= m.start[j + 1]
        BY <1>2, <2>3
    <2>5. j \in 1..(l + 1) /\ j + 1 \in 1..(l + 1)
        BY <1>1, <2>4
    <2>6. m.start[j] \in Nat /\ m.start[j + 1] \in Nat
        BY <1>2, <2>5
    <2>7. ~(j + 1 < k + 1) /\ ~(k + 1 < j + 1)
        <3>1. ASSUME j < k PROVE FALSE
            <4>1. j + 1 = k \/ j + 1 < k
                BY <3>1
            <4>2. j + 1 < k => m.start[j + 1] < m.start[k]
                BY <1>1, <1>2, <2>5
            <4>3. m.start[j + 1] <= m.start[k]
                BY <2>1, <2>6, <4>1, <4>2
            <4>. QED  BY <2>1, <2>4, <2>6, <4>3
        <3>2. ASSUME k < j PROVE FALSE
            <4>1. k + 1 = j \/ k + 1 < j
                BY <3>2
            <4>2. k + 1 < j => m.start[k + 1] < m.start[j]
                BY <1>1, <1>2, <2>1, <2>5
            <4>3. m.start[k + 1] <= m.start[j]
                BY <2>1, <2>6, <4>1, <4>2
            <4>. QED  BY <2>1, <2>4, <2>6, <4>3
        <3>. QED  BY <3>1, <3>2
    <2>8. j = k
        BY <2>1, <2>4, <2>7
    <2>9. ~(n + 1 > Bytes(m))
        BY <1>3, <2>3
    <2>. QED  BY <2>4, <2>8, <2>9 DEF FieldAfter
<1>. QED  BY <1>4, <1>5

------------------------------------------------------------------------------
(* How the sequences nest. *)

\* The sequences open at a field have started before it, and around each of them are
\* those that come before it in the list.
Nesting(m, k) ==
    \A d \in 1..Len(m.opens[k]) :
        /\ m.opens[k][d] \in 1..(k - 1)
        /\ m.opens[m.opens[k][d]] = SubSeq(m.opens[k], 1, d - 1)

\* They are so at every field of a message.
LEMMA SequencesNest ==
    ASSUME NEW m, Laid(m)
    PROVE  \A k \in 1..(Len(m.fields) + 1) : Nesting(m, k)
<1>1. PICK l \in Nat : l = Len(m.fields)
    BY DEF Laid
<1>2. /\ Fields(m) = 1..l /\ m.opens \in [1..(l + 1) -> Seq(Nat)] /\ m.opens[1] = <<>>
      /\ \A k \in 1..l : m.opens[k + 1] = Inner(m.opens[k], k, At(m, k).type)
    BY <1>1 DEF Laid, Fields
<1>3. PICK S : S = {k \in 0..l : Nesting(m, k + 1)}
    OBVIOUS
<1>4. 0 \in S
    BY <1>1, <1>2, <1>3 DEF Nesting
<1>5. ASSUME NEW k \in 1..l, k - 1 \in S PROVE k \in S
    <2>1. k \in 1..(l + 1) /\ k + 1 \in 1..(l + 1)
        BY <1>1
    <2>2. PICK q \in Seq(Nat) : q = m.opens[k]
        BY <1>2, <2>1
    <2>3. \A d \in 1..Len(q) : q[d] \in 1..(k - 1) /\ m.opens[q[d]] = SubSeq(q, 1, d - 1)
        <3>1. Nesting(m, k)
            BY <1>3, <1>5
        <3>. QED  BY <2>2, <3>1 DEF Nesting
    <2>4. PICK r \in Seq(Nat) : r = m.opens[k + 1]
        BY <1>2, <2>1
    <2>5. r = Inner(q, k, At(m, k).type)
        BY <1>2, <2>2, <2>4
    <2>6. ASSUME NEW d \in 1..Len(r)
          PROVE  r[d] \in 1..k /\ m.opens[r[d]] = SubSeq(r, 1, d - 1)
        <3>1. CASE r = q
            <4>1. r[d] \in 1..(k - 1)
                BY <2>3, <3>1
            <4>2. r[d] \in 1..k
                BY <4>1
            <4>. QED  BY <2>3, <3>1, <4>2
        <3>2. CASE r = Append(q, k)
            <4>1. Len(r) = Len(q) + 1 /\ Len(q) \in Nat
                BY <3>2
            <4>2. SubSeq(r, 1, d - 1) = SubSeq(q, 1, d - 1)
                BY <3>2, <4>1
            <4>3. CASE d = Len(q) + 1
                <5>1. r[d] = k
                    BY <3>2, <4>3
                <5>2. SubSeq(q, 1, d - 1) = q
                    BY <4>1, <4>3
                <5>. QED  BY <2>2, <4>2, <5>1, <5>2
            <4>4. CASE d # Len(q) + 1
                <5>1. d \in 1..Len(q)
                    BY <4>1, <4>4
                <5>2. r[d] = q[d]
                    BY <3>2, <5>1
                <5>3. q[d] \in 1..(k - 1) /\ m.opens[q[d]] = SubSeq(q, 1, d - 1)
                    BY <2>3, <5>1
                <5>4. q[d] \in 1..k
                    BY <5>3
                <5>. QED  BY <4>2, <5>2, <5>3, <5>4
            <4>. QED  BY <4>3, <4>4
        <3>3. CASE q # <<>> /\ r = SubSeq(q, 1, Len(q) - 1)
            <4>1. Len(q) \in Nat \ {0} /\ Len(r) = Len(q) - 1 /\ d \in 1..Len(q)
                BY <3>3
            <4>2. r[d] = q[d] /\ SubSeq(r, 1, d - 1) = SubSeq(q, 1, d - 1)
                BY <3>3, <4>1
            <4>3. q[d] \in 1..(k - 1) /\ m.opens[q[d]] = SubSeq(q, 1, d - 1)
                BY <2>3, <4>1
            <4>4. q[d] \in 1..k
                BY <4>3
            <4>. QED  BY <4>2, <4>3, <4>4
        <3>. QED  BY <2>5, <3>1, <3>2, <3>3 DEF Inner
    <2>7. Nesting(m, k + 1)
        BY <2>4, <2>6 DEF Nesting
    <2>. QED  BY <1>1, <1>3, <2>7
<1>6. 0..l \subseteq S
    BY <1>1, <1>4, <1>5, IntervalInduction
<1>. SUFFICES ASSUME NEW k \in 1..(l + 1) PROVE Nesting(m, k)
    BY <1>1
<1>7. k - 1 \in S /\ (k - 1) + 1 = k
    BY <1>1, <1>6
<1>. QED  BY <1>3, <1>7

\* What is open is a sequence.
LEMMA OpensAreStarts ==
    ASSUME NEW m, Laid(m)
    PROVE  \A k \in 1..(Len(m.fields) + 1) :
            \A d \in 1..Len(m.opens[k]) : At(m, m.opens[k][d]).type = "start"
<1>1. PICK l \in Nat : l = Len(m.fields)
    BY DEF Laid
<1>2. /\ Fields(m) = 1..l /\ m.opens \in [1..(l + 1) -> Seq(Nat)] /\ m.opens[1] = <<>>
      /\ \A k \in 1..l : m.opens[k + 1] = Inner(m.opens[k], k, At(m, k).type)
    BY <1>1 DEF Laid, Fields
<1>3. PICK S : S = {k \in 0..l : \A d \in 1..Len(m.opens[k + 1]) : At(m, m.opens[k + 1][d]).type = "start"}
    OBVIOUS
<1>4. 0 \in S
    BY <1>1, <1>2, <1>3
<1>5. ASSUME NEW k \in 1..l, k - 1 \in S PROVE k \in S
    <2>1. k \in 1..(l + 1) /\ k + 1 \in 1..(l + 1) /\ (k - 1) + 1 = k
        BY <1>1
    <2>2. PICK q \in Seq(Nat) : q = m.opens[k]
        BY <1>2, <2>1
    <2>3. \A d \in 1..Len(q) : At(m, q[d]).type = "start"
        BY <1>3, <1>5, <2>1, <2>2
    <2>4. PICK r \in Seq(Nat) : r = m.opens[k + 1]
        BY <1>2, <2>1
    <2>5. r = Inner(q, k, At(m, k).type)
        BY <1>2, <2>2, <2>4
    <2>6. ASSUME NEW d \in 1..Len(r) PROVE At(m, r[d]).type = "start"
        <3>1. CASE r = q
            BY <2>3, <3>1
        <3>2. CASE r = Append(q, k) /\ At(m, k).type = "start"
            <4>1. d \in 1..Len(q) \/ d = Len(q) + 1
                BY <3>2
            <4>2. d \in 1..Len(q) => r[d] = q[d]
                BY <3>2
            <4>3. d = Len(q) + 1 => r[d] = k
                BY <3>2
            <4>. QED  BY <2>3, <3>2, <4>1, <4>2, <4>3
        <3>3. CASE q # <<>> /\ r = SubSeq(q, 1, Len(q) - 1)
            <4>1. d \in 1..Len(q) /\ r[d] = q[d]
                BY <3>3
            <4>. QED  BY <2>3, <4>1
        <3>. QED  BY <2>5, <3>1, <3>2, <3>3 DEF Inner
    <2>. QED  BY <1>3, <2>4, <2>6
<1>6. 0..l \subseteq S
    BY <1>1, <1>4, <1>5, IntervalInduction
<1>7. ASSUME NEW k \in 1..(l + 1) PROVE k - 1 \in S /\ (k - 1) + 1 = k
    BY <1>6
<1>. QED  BY <1>1, <1>3, <1>7

\* A field is delivered when the sequence around it is and it is not declined itself.
LEMMA LiveInside ==
    ASSUME NEW m, Laid(m), NEW k \in Fields(m)
    PROVE  k \in m.live <=> (Nested(m, k) => Outer(m, k) \in m.live) /\ ~Declined(m, k)
<1>1. PICK l \in Nat : l = Len(m.fields)
    BY DEF Laid
<1>2. k \in 1..(l + 1) /\ m.opens \in [1..(l + 1) -> Seq(Nat)]
    BY <1>1 DEF Laid, Fields
<1>3. PICK q \in Seq(Nat) : q = m.opens[k]
    BY <1>2
<1>4. k \in 1..l /\ Fields(m) = 1..l /\ m.live = {j \in Fields(m) : Live(m, j)}
    BY <1>1 DEF Laid, Fields
<1>5. k \in m.live <=> Reached(m, k) /\ ~Declined(m, k)
    BY <1>4 DEF Live
<1>6. Reached(m, k) <=> (Nested(m, k) => Outer(m, k) \in m.live)
    <2>1. CASE q = <<>>
        BY <1>3, <2>1 DEF Reached, Nested
    <2>2. CASE q # <<>>
        <3>1. PICK n \in Nat \ {0} : n = Len(q)
            BY <2>2
        <3>2. PICK o : o = q[n]
            OBVIOUS
        <3>3. o \in 1..(k - 1) /\ m.opens[o] = SubSeq(q, 1, n - 1)
            <4>1. Nesting(m, k)
                BY <1>1, <1>4, SequencesNest
            <4>. QED  BY <1>3, <3>1, <3>2, <4>1 DEF Nesting
        <3>4. o \in m.live <=> Reached(m, o) /\ ~Declined(m, o)
            BY <1>4, <3>3 DEF Live
        <3>5. Reached(m, o) <=> \A i \in 1..(n - 1) : ~Declined(m, q[i])
            <4>1. Len(SubSeq(q, 1, n - 1)) = n - 1
                BY <3>1
            <4>2. \A i \in 1..(n - 1) : SubSeq(q, 1, n - 1)[i] = q[i]
                BY <3>1
            <4>. QED  BY <3>3, <4>1, <4>2 DEF Reached
        <3>6. Reached(m, k) <=> \A i \in 1..n : ~Declined(m, q[i])
            BY <1>3, <3>1 DEF Reached
        <3>7. Nested(m, k) /\ Outer(m, k) = o
            BY <1>3, <2>2, <3>1, <3>2 DEF Nested, Outer
        <3>8. \A i \in 1..n : i = n \/ i \in 1..(n - 1)
            BY <3>1
        <3>9. n \in 1..n /\ \A i \in 1..(n - 1) : i \in 1..n
            BY <3>1
        <3>. QED  BY <3>2, <3>4, <3>5, <3>6, <3>7, <3>8, <3>9
    <2>. QED  BY <2>1, <2>2
<1>. QED  BY <1>5, <1>6

\* Inside a sequence that is delivered every sequence around it is.
LEMMA LiveAround ==
    ASSUME NEW m, Laid(m), NEW k \in Fields(m), Nested(m, k), Outer(m, k) \in m.live,
           NEW d \in 1..Len(m.opens[k])
    PROVE  m.opens[k][d] \in m.live
<1>1. PICK l \in Nat : l = Len(m.fields)
    BY DEF Laid
<1>2. PICK q \in Seq(Nat) : q = m.opens[k]
    <2>1. k \in 1..(l + 1) /\ m.opens \in [1..(l + 1) -> Seq(Nat)]
        BY <1>1 DEF Laid, Fields
    <2>. QED  BY <2>1
<1>3. PICK n \in Nat \ {0} : n = Len(q)
    BY <1>2 DEF Nested
<1>4. Nesting(m, k) /\ Fields(m) = 1..l /\ k \in 1..l /\ m.live = {j \in Fields(m) : Live(m, j)}
    <2>1. Fields(m) = 1..l /\ k \in 1..l /\ k \in 1..(l + 1)
        BY <1>1 DEF Fields
    <2>2. m.live = {j \in Fields(m) : Live(m, j)}
        BY DEF Laid
    <2>3. Nesting(m, k)
        BY <1>1, <2>1, SequencesNest
    <2>. QED  BY <2>1, <2>2, <2>3
<1>5. \A i \in 1..n : q[i] \in Fields(m) /\ m.opens[q[i]] = SubSeq(q, 1, i - 1)
    <2>. SUFFICES ASSUME NEW i \in 1..n
                  PROVE  q[i] \in Fields(m) /\ m.opens[q[i]] = SubSeq(q, 1, i - 1)
        OBVIOUS
    <2>1. i \in 1..Len(m.opens[k])
        BY <1>2, <1>3
    <2>2. q[i] \in 1..(k - 1) /\ m.opens[q[i]] = SubSeq(q, 1, i - 1)
        BY <1>2, <1>4, <2>1 DEF Nesting
    <2>3. q[i] \in 1..l
        BY <1>1, <1>4, <2>2
    <2>. QED  BY <1>4, <2>2, <2>3
<1>6. Outer(m, k) = q[n] /\ n \in 1..n
    BY <1>2, <1>3 DEF Outer
<1>7. Live(m, q[n])
    BY <1>4, <1>6
<1>8. \A i \in 1..n : \A j \in 1..(i - 1) : /\ j \in 1..n /\ Len(SubSeq(q, 1, i - 1)) = i - 1
                                         /\ SubSeq(q, 1, i - 1)[j] = q[j]
    BY <1>2, <1>3
<1>9. ASSUME NEW i \in 1..n PROVE ~Declined(m, q[i])
    <2>1. i = n \/ i \in 1..(n - 1)
        OBVIOUS
    <2>2. CASE i = n
        BY <1>7, <2>2 DEF Live
    <2>3. CASE i \in 1..(n - 1)
        <3>1. m.opens[q[n]] = SubSeq(q, 1, n - 1)
            BY <1>5, <1>6
        <3>2. Len(SubSeq(q, 1, n - 1)) = n - 1 /\ SubSeq(q, 1, n - 1)[i] = q[i]
            BY <1>6, <1>8, <2>3
        <3>3. i \in 1..Len(m.opens[q[n]]) /\ m.opens[q[n]][i] = q[i]
            BY <2>3, <3>1, <3>2
        <3>. QED  BY <1>7, <3>3 DEF Live, Reached
    <2>. QED  BY <2>1, <2>2, <2>3
<1>10. d \in 1..n
    BY <1>2, <1>3
<1>11. Reached(m, q[d])
    <2>1. ASSUME NEW j \in 1..Len(m.opens[q[d]]) PROVE ~Declined(m, m.opens[q[d]][j])
        <3>1. m.opens[q[d]] = SubSeq(q, 1, d - 1)
            BY <1>5, <1>10
        <3>2. Len(SubSeq(q, 1, d - 1)) = d - 1
            BY <1>2, <1>3, <1>10
        <3>3. j \in 1..(d - 1)
            BY <3>1, <3>2
        <3>. QED  BY <1>8, <1>9, <1>10, <3>1, <3>3
    <2>. QED  BY <2>1 DEF Reached
<1>12. q[d] \in m.live
    BY <1>4, <1>5, <1>9, <1>10, <1>11 DEF Live
<1>. QED  BY <1>2, <1>12

------------------------------------------------------------------------------
(* What is discounted. *)

\* A byte is discounted a number of times.
LEMMA TimesIsNat ==
    ASSUME NEW m, Laid(m), NEW k \in Fields(m)
    PROVE  TimesDeclined(m, k) \in Nat
<1>1. m.opens[k] \in Seq(Nat)
    <2>1. k \in 1..(Len(m.fields) + 1)
        BY DEF Laid, Fields
    <2>. QED  BY <2>1 DEF Laid
<1>2. PICK n \in Nat : n = Len(m.opens[k])
    BY <1>1
<1>3. PICK B : B = {d \in 1..n : m.opens[k][d] \notin m.live}
    OBVIOUS
<1>4. {d \in DOMAIN m.opens[k] : m.opens[k][d] \notin m.live} = {d \in 1..n : d \in B}
    BY <1>1, <1>2, <1>3
<1>5. Cardinality({d \in DOMAIN m.opens[k] : m.opens[k][d] \notin m.live}) \in Nat
    BY <1>4, OneMore DEF CountIn
<1>. QED  BY <1>5 DEF TimesDeclined

\* Discounts adds up, from nothing at every top-level field.
LEMMA DiscountsAddUp ==
    ASSUME NEW m, Laid(m)
    PROVE  /\ \A k \in 1..(Len(m.fields) + 1) : Discounts(m)[k] \in Nat
           /\ \A k \in Fields(m) :
                Discounts(m)[k + 1] = IF Nested(m, k)
                                      THEN Discounts(m)[k] + Size(At(m, k)) * TimesDeclined(m, k)
                                      ELSE 0
<1>1. PICK l \in Nat : l = Len(m.fields) /\ Fields(m) = 1..l
    BY DEF Laid, Fields
<1>2. \A k \in 1..l : Size(At(m, k)) * TimesDeclined(m, k) \in Nat
    <2>. SUFFICES ASSUME NEW k \in 1..l PROVE Size(At(m, k)) * TimesDeclined(m, k) \in Nat
        OBVIOUS
    <2>1. m.fields[k] \in DOMAIN Alphabet
        BY <1>1 DEF Laid
    <2>2. Size(At(m, k)) \in Nat
        BY <2>1, FieldFacts DEF At
    <2>. QED  BY <1>1, <2>2, TimesIsNat
<1>3. PICK step : step = [a \in Nat \X (1..l) |->
                            IF Nested(m, a[2])
                            THEN a[1] + Size(At(m, a[2])) * TimesDeclined(m, a[2]) ELSE 0]
    OBVIOUS
<1>4. step \in [Nat \X (1..l) -> Nat] /\ 0 \in Nat
    <2>1. ASSUME NEW a \in Nat \X (1..l) PROVE step[a] \in Nat
        <3>1. Size(At(m, a[2])) * TimesDeclined(m, a[2]) \in Nat /\ a[1] \in Nat
            BY <1>2
        <3>2. PICK x \in Nat : x = Size(At(m, a[2])) * TimesDeclined(m, a[2])
            BY <3>1
        <3>. QED  BY <1>3, <3>1, <3>2
    <2>. QED  BY <1>3, <2>1
<1>5. PICK f \in [0..l -> Nat] : Recursive(f, l, 0, step)
    BY <1>4, RecursionExists
<1>6. PICK g : g = [k \in 1..(l + 1) |-> f[k - 1]]
    OBVIOUS
<1>7. g = [k \in 1..(l + 1) |->
             IF k = 1 \/ ~Nested(m, k - 1) THEN 0
             ELSE g[k - 1] + Size(At(m, k - 1)) * TimesDeclined(m, k - 1)]
    <2>1. ASSUME NEW k \in 1..(l + 1)
          PROVE  g[k] = IF k = 1 \/ ~Nested(m, k - 1) THEN 0
                        ELSE g[k - 1] + Size(At(m, k - 1)) * TimesDeclined(m, k - 1)
        <3>1. CASE k = 1
            BY <1>5, <1>6, <3>1 DEF Recursive
        <3>2. CASE k # 1
            <4>1. PICK i \in 1..l : i = k - 1
                BY <3>2
            <4>2. f[i] = step[<<f[i - 1], i>>] /\ f[i - 1] \in Nat
                BY <1>5 DEF Recursive
            <4>3. g[k] = f[i] /\ g[i] = f[i - 1]
                BY <1>6, <4>1
            <4>4. <<f[i - 1], i>> \in Nat \X (1..l)
                BY <4>2
            <4>. QED  BY <1>3, <3>2, <4>1, <4>2, <4>3, <4>4
        <3>. QED  BY <3>1, <3>2
    <2>. QED  BY <1>6, <2>1
<1>8. PICK e : e = Discounts(m)
    OBVIOUS
<1>9. e = [k \in 1..(l + 1) |->
             IF k = 1 \/ ~Nested(m, k - 1) THEN 0
             ELSE e[k - 1] + Size(At(m, k - 1)) * TimesDeclined(m, k - 1)]
    BY <1>1, <1>7, <1>8 DEF Discounts
<1>10. \A k \in 1..l :
        e[k + 1] = IF Nested(m, k) THEN e[k] + Size(At(m, k)) * TimesDeclined(m, k) ELSE 0
    <2>. SUFFICES ASSUME NEW k \in 1..l
                  PROVE  e[k + 1] = IF Nested(m, k)
                                    THEN e[k] + Size(At(m, k)) * TimesDeclined(m, k) ELSE 0
        OBVIOUS
    <2>1. PICK i \in 1..(l + 1) : i = k + 1
        OBVIOUS
    <2>2. i # 1 /\ i - 1 = k
        BY <2>1
    <2>. QED  BY <1>9, <2>1, <2>2
<1>11. 0..l \subseteq {k \in 0..l : e[k + 1] \in Nat}
    <2>1. e[1] = 0
        BY <1>9
    <2>2. ASSUME NEW k \in 1..l, k - 1 \in {i \in 0..l : e[i + 1] \in Nat}
          PROVE  k \in {i \in 0..l : e[i + 1] \in Nat}
        <3>1. (k - 1) + 1 = k
            OBVIOUS
        <3>2. e[k] \in Nat
            BY <2>2, <3>1
        <3>3. PICK x \in Nat : x = Size(At(m, k)) * TimesDeclined(m, k)
            BY <1>2
        <3>4. e[k + 1] = IF Nested(m, k) THEN e[k] + x ELSE 0
            BY <1>10, <3>3
        <3>5. e[k + 1] \in Nat
            BY <3>2, <3>3, <3>4
        <3>. QED  BY <3>5
    <2>3. 0 \in {i \in 0..l : e[i + 1] \in Nat}
        BY <2>1
    <2>. QED  BY <2>2, <2>3, IntervalInduction
<1>12. \A k \in 1..(l + 1) : e[k] \in Nat
    <2>. SUFFICES ASSUME NEW k \in 1..(l + 1) PROVE e[k] \in Nat
        OBVIOUS
    <2>1. k - 1 \in 0..l /\ (k - 1) + 1 = k
        OBVIOUS
    <2>. QED  BY <1>11, <2>1
<1>. QED  BY <1>1, <1>8, <1>10, <1>12

------------------------------------------------------------------------------
(* How a field can end a decode. *)

\* The way number i applies to field k; none of the first n does.
Applies(m, k, i) == Rules(m, k, m.budget)[i].when
Passes(m, k, n) == \A i \in 1..n : ~Applies(m, k, i)

\* How many bytes of the field it takes to see the way number i.
ShownBy(f, i) ==
    IF i = 1 THEN 1
    ELSE IF i \in 2..4 THEN f.tag
    ELSE IF i \in 5..9 THEN Header(f)
    ELSE Size(f)

\* The first of some rules that applies is the one no earlier one applies before.
LEMMA FirstIs ==
    ASSUME NEW T, NEW rules \in Seq(T), NEW last, last.when,
           NEW n \in Nat, n = Len(rules), NEW i \in 1..(n + 1),
           \A j \in 1..(i - 1) : ~rules[j].when, i \in 1..n => rules[i].when
    PROVE  FirstOf(Append(rules, last)) = IF i \in 1..n THEN rules[i] ELSE last
<1>. DEFINE all == Append(rules, last)
<1>. HIDE DEF all
<1>1. all \in Seq(T \cup {last}) /\ Len(all) = n + 1
    BY DEF all
<1>2. all[n + 1] = last /\ \A j \in 1..n : all[j] = rules[j]
    BY DEF all
<1>3. DOMAIN all = 1..(n + 1)
    BY <1>1
<1>4. all[i].when /\ \A j \in 1..(i - 1) : ~all[j].when
    BY <1>2
<1>5. ASSUME NEW h \in DOMAIN all, all[h].when, \A j \in 1..(h - 1) : ~all[j].when PROVE h = i
    BY <1>3, <1>4, <1>5
<1>6. (CHOOSE h \in DOMAIN all : all[h].when /\ \A j \in 1..(h - 1) : ~all[j].when) = i
    BY <1>3, <1>4, <1>5
<1>7. FirstOf(all) = all[i]
    BY <1>6 DEF FirstOf
<1>. QED  BY <1>2, <1>7 DEF all

\* Each rule shows behind the bytes ShownBy names.
LEMMA RulesAre ==
    ASSUME NEW m, NEW k, NEW r, r = Rules(m, k, m.budget), NEW i \in 1..11
    PROVE  r[i].at = m.start[k] + ShownBy(At(m, k), i)
<1>. USE DEF Rules, ShownBy
<1>1. CASE i = 1 BY <1>1
<1>2. CASE i = 2 BY <1>2
<1>3. CASE i = 3 BY <1>3
<1>4. CASE i = 4 BY <1>4
<1>5. CASE i = 5 BY <1>5
<1>6. CASE i = 6 BY <1>6
<1>7. CASE i = 7 BY <1>7
<1>8. CASE i = 8 BY <1>8
<1>9. CASE i = 9 BY <1>9
<1>10. CASE i = 10 BY <1>10
<1>11. CASE i = 11 BY <1>11
<1> QED BY <1>1, <1>2, <1>3, <1>4, <1>5, <1>6, <1>7, <1>8, <1>9, <1>10, <1>11

\* There are eleven.
LEMMA ElevenRules ==
    ASSUME NEW m, NEW k
    PROVE  \E T : Rules(m, k, m.budget) \in Seq(T) /\ Len(Rules(m, k, m.budget)) = 11
<1>1. ASSUME NEW a1, NEW a2, NEW a3, NEW a4, NEW a5, NEW a6, NEW a7, NEW a8, NEW a9, NEW a10,
             NEW a11
      PROVE  \E T : /\ <<a1, a2, a3, a4, a5, a6, a7, a8, a9, a10, a11>> \in Seq(T)
                    /\ Len(<<a1, a2, a3, a4, a5, a6, a7, a8, a9, a10, a11>>) = 11
    <2>. DEFINE T == {a1, a2, a3, a4, a5, a6, a7, a8, a9, a10, a11}
    <2>1. <<a1, a2, a3, a4, a5, a6, a7, a8, a9, a10, a11>> \in Seq(T)
        OBVIOUS
    <2>2. Len(<<a1, a2, a3, a4, a5, a6, a7, a8, a9, a10, a11>>) = 11
        OBVIOUS
    <2>. HIDE DEF T
    <2>. QED  BY <2>1, <2>2
<1>2. PICK r : r = Rules(m, k, m.budget)
    OBVIOUS
<1>3. r = <<r[1], r[2], r[3], r[4], r[5], r[6], r[7], r[8], r[9], r[10], r[11]>>
    BY <1>2 DEF Rules
<1>4. \E T : /\ <<r[1], r[2], r[3], r[4], r[5], r[6], r[7], r[8], r[9], r[10], r[11]>> \in Seq(T)
             /\ Len(<<r[1], r[2], r[3], r[4], r[5], r[6], r[7], r[8], r[9], r[10], r[11]>>) = 11
    BY <1>1
<1>5. \E T : r \in Seq(T) /\ Len(r) = 11
    <2>1. PICK q : q = <<r[1], r[2], r[3], r[4], r[5], r[6], r[7], r[8], r[9], r[10], r[11]>>
        OBVIOUS
    <2>2. \E T : q \in Seq(T) /\ Len(q) = 11
        BY <1>4, <2>1, Zenon
    <2>3. q = r
        BY <1>3, <2>1, Zenon
    <2>. QED  BY <2>2, <2>3
<1>. QED  BY <1>2, <1>5

\* What is discounted before a field is said of its fields, what is open and what is live.
LEMMA DiscountedOf ==
    ASSUME NEW m, NEW l, m.fields = l.fields, m.opens = l.opens, m.live = l.live, NEW k
    PROVE  Discounted(m, k) = Discounted(l, k)
<1>. DEFINE T(fields, opens, live, j) ==
        Cardinality({d \in DOMAIN opens[j] : opens[j][d] \notin live})
            + IF j \in live \/ Known[fields[j]].type = "end" THEN 0 ELSE 1
     S(fields, opens, live) ==
        LET sum[j \in 1..(Len(fields) + 1)] ==
                IF j = 1 \/ ~(opens[j - 1] # <<>>) THEN 0
                ELSE sum[j - 1] + Size(Known[fields[j - 1]]) * T(fields, opens, live, j - 1)
        IN sum
<1>1. Discounts(m) = S(m.fields, m.opens, m.live)
    BY Zenon DEF Discounts, TimesDeclined, Nested, At
<1>2. Discounts(l) = S(l.fields, l.opens, l.live)
    BY Zenon DEF Discounts, TimesDeclined, Nested, At
<1>. HIDE DEF S
<1>. QED  BY <1>1, <1>2 DEF Discounted

\* The verdict on a field is the first of its rules that applies, or none of them.
LEMMA FaultIs ==
    ASSUME NEW m \in Decodings, NEW k \in Fields(m)
    PROVE  m.fault[k] = FirstOf(Append(Rules(m, k, m.budget), Never(m)))
<1>1. PICK word \in Messages, b \in Budgets : m = Decoding(word, b)
    BY DEF Decodings
<1>2. PICK l : l = WithLive(Layout(word))
    OBVIOUS
<1>3. /\ m.fields = l.fields /\ m.start = l.start /\ m.opens = l.opens /\ m.live = l.live
      /\ m.budget = b /\ m.fault = [j \in Fields(l) |-> Fault(l, j, b)]
    BY <1>1, <1>2 DEF Decoding
<1>4. Fields(m) = Fields(l) /\ Never(m) = Never(l) /\ Discounted(m, k) = Discounted(l, k)
    BY <1>3, DiscountedOf DEF Fields, Never, Bytes
<1>5. /\ \A j : At(m, j) = At(l, j) /\ Outer(m, j) = Outer(l, j)
      /\ \A j : Nested(m, j) <=> Nested(l, j)
      /\ Spanned(m, k) = Spanned(l, k)
    BY <1>3 DEF At, Outer, Nested, Spanned
<1>6. (PastBound(m, k) <=> PastBound(l, k)) /\ (Offered(m, k) <=> Offered(l, k))
    BY <1>3, <1>5 DEF PastBound, Offered
<1>7. Rules(m, k, b) = Rules(l, k, b)
    BY <1>3, <1>4, <1>5, <1>6 DEF Rules
<1>8. m.fault[k] = Fault(l, k, b)
    BY <1>3, <1>4
<1>. QED  BY <1>3, <1>4, <1>7, <1>8 DEF Fault

\* It is rule number i when that applies and none before it does, and when none applies the
\* field ends no decode.
LEMMA FaultOf ==
    ASSUME NEW m \in Decodings, NEW k \in Fields(m)
    PROVE  /\ \A i \in 1..11 : Applies(m, k, i) /\ Passes(m, k, i - 1) =>
                m.fault[k] = Rules(m, k, m.budget)[i]
           /\ Passes(m, k, 11) => m.fault[k] = Never(m)
<1>1. PICK r : r = Rules(m, k, m.budget)
    OBVIOUS
<1>2. PICK T : r \in Seq(T) /\ Len(r) = 11
    BY <1>1, ElevenRules
<1>5. Never(m).when
    BY DEF Never
<1>6. PICK all : all = Append(r, Never(m)) /\ m.fault[k] = FirstOf(all)
    BY <1>1, FaultIs
<1>7. \A i \in 1..11 : r[i].when <=> Applies(m, k, i)
    BY <1>1 DEF Applies
<1>8. ASSUME NEW i \in 1..12, i \in 1..11 => Applies(m, k, i), Passes(m, k, i - 1)
      PROVE  m.fault[k] = IF i \in 1..11 THEN r[i] ELSE Never(m)
    <2>1. PICK last : last = Never(m) /\ last.when
        BY <1>5
    <2>2. PICK n \in Nat : n = 11
        OBVIOUS
    <2>3. r \in Seq(T) /\ n = Len(r) /\ i \in 1..(n + 1)
        BY <1>2, <2>2
    <2>4. (\A j \in 1..(i - 1) : ~r[j].when) /\ (i \in 1..n => r[i].when)
        <3>1. \A j \in 1..(i - 1) : j \in 1..11
            OBVIOUS
        <3>. QED  BY <1>7, <1>8, <2>2, <3>1 DEF Passes
    <2>5. FirstOf(Append(r, last)) = IF i \in 1..n THEN r[i] ELSE last
        BY <2>1, <2>3, <2>4, FirstIs
    <2>. QED  BY <1>6, <2>1, <2>2, <2>5
<1>9. ASSUME NEW i \in 1..11, Applies(m, k, i), Passes(m, k, i - 1) PROVE m.fault[k] = r[i]
    <2>1. i \in 1..12
      OBVIOUS
    <2>. QED BY <1>8, <1>9, <2>1
<1>10. ASSUME Passes(m, k, 11) PROVE m.fault[k] = Never(m)
    <2>1. 12 \in 1..12 /\ 12 \notin 1..11 /\ 12 - 1 = 11
        OBVIOUS
    <2>. QED  BY <1>8, <1>10, <2>1
<1>. QED  BY <1>1, <1>9, <1>10

\* The rules are in the order of the bytes they take.
LEMMA ShownInOrder ==
    ASSUME NEW f, f.tag \in Nat \ {0}, f.meta \in Nat, f.units \in Nat, f.width \in Nat,
           NEW i \in 1..11, NEW j \in 1..11, i <= j
    PROVE  ShownBy(f, i) \in Nat \ {0} /\ ShownBy(f, i) <= ShownBy(f, j) /\ ShownBy(f, j) <= Size(f)
<1>1. PICK z \in Nat : z = f.units * f.width
    OBVIOUS
<1>2. /\ Size(f) = f.tag + f.meta + z /\ Header(f) = f.tag + f.meta
    BY <1>1 DEF Size, Header
<1>. QED  BY <1>2 DEF ShownBy

\* So a field that none of the first n rules ends shows its fault, if any, no sooner than
\* the one behind them.
LEMMA FaultLater ==
    ASSUME NEW m \in Decodings, NEW k \in Fields(m), NEW n \in 0..10, Passes(m, k, n)
    PROVE  /\ m.fault[k].at \in Nat
           /\ m.fault[k].at >= m.start[k] + ShownBy(At(m, k), n + 1)
<1>1. Laid(m)
    BY DecodingsAreLaid
<1>2. PICK l \in Nat : l = Len(m.fields) /\ Fields(m) = 1..l
    BY <1>1 DEF Laid, Fields
<1>3. m.fields[k] \in DOMAIN Alphabet
    BY <1>1, <1>2 DEF Laid
<1>4. PICK f : f = At(m, k)
    OBVIOUS
<1>5. f.tag \in Nat \ {0} /\ f.meta \in Nat /\ f.units \in Nat /\ f.width \in Nat
    BY <1>3, <1>4, FieldFacts DEF At
<1>6. /\ k \in 1..(l + 1) /\ k + 1 \in 1..(l + 1) /\ l + 1 \in 1..(l + 1) /\ n + 1 \in 1..11
      /\ m.start[k] \in Nat /\ m.start[k + 1] \in Nat /\ Bytes(m) \in Nat
      /\ m.start[k + 1] = m.start[k] + Size(f)
    <2>1. k \in 1..(l + 1) /\ k + 1 \in 1..(l + 1) /\ l + 1 \in 1..(l + 1) /\ n + 1 \in 1..11
        BY <1>2
    <2>2. m.start \in [1..(l + 1) -> Nat] /\ Bytes(m) = m.start[l + 1]
        BY <1>1, <1>2 DEF Laid, Bytes
    <2>3. m.start[k + 1] = m.start[k] + Size(f)
        BY <1>1, <1>4 DEF Laid
    <2>. QED  BY <2>1, <2>2, <2>3
<1>7. m.start[k + 1] <= Bytes(m)
    <2>1. k + 1 = l + 1 \/ k + 1 < l + 1
        BY <1>2
    <2>2. k + 1 < l + 1 => m.start[k + 1] < m.start[l + 1]
        BY <1>1, <1>2, <1>6 DEF Laid
    <2>3. Bytes(m) = m.start[l + 1]
        BY <1>2 DEF Bytes
    <2>. QED  BY <1>6, <2>1, <2>2, <2>3
<1>8. CASE Passes(m, k, 11)
    <2>1. m.fault[k].at = Bytes(m) + 1
        <3>1. m.fault[k] = Never(m)
            BY <1>8, FaultOf
        <3>. QED  BY <3>1 DEF Never
    <2>2. ShownBy(f, n + 1) \in Nat /\ ShownBy(f, n + 1) <= Size(f) /\ Size(f) \in Nat
        <3>1. ShownBy(f, n + 1) \in Nat /\ ShownBy(f, n + 1) <= Size(f)
            BY <1>5, <1>6, ShownInOrder
        <3>2. Size(f) \in Nat
            BY <1>3, <1>4, FieldFacts DEF At
        <3>. QED  BY <3>1, <3>2
    <2>. QED  BY <1>4, <1>6, <1>7, <2>1, <2>2
<1>9. CASE ~Passes(m, k, 11)
    <2>1. PICK i \in 1..11 : Applies(m, k, i) /\ Passes(m, k, i - 1)
        <3>1. PICK i \in 1..11 : Applies(m, k, i)
            BY <1>9 DEF Passes
        <3>. DEFINE S == {h \in Nat : h \in 1..11 /\ Applies(m, k, h)}
        <3>2. PICK h \in S : \A j \in S : h <= j
            <4>1. i \in S /\ S \subseteq Nat
                BY <3>1
            <4>. QED  BY <4>1, LeastElement
        <3>3. \A j \in 1..(h - 1) : ~Applies(m, k, j)
            <4>. SUFFICES ASSUME NEW j \in 1..(h - 1), Applies(m, k, j) PROVE FALSE
                OBVIOUS
            <4>1. j \in S /\ j < h
                BY <3>2
            <4>. QED  BY <3>2, <4>1
        <3>. QED  BY <3>2, <3>3 DEF Passes
    <2>2. m.fault[k].at = m.start[k] + ShownBy(f, i)
        BY <1>4, <2>1, FaultOf, RulesAre
    <2>3. n + 1 <= i
        <3>1. ~(i \in 1..n)
            BY <2>1 DEF Passes
        <3>. QED  BY <3>1
    <2>4. ShownBy(f, n + 1) \in Nat /\ ShownBy(f, n + 1) <= ShownBy(f, i) /\ ShownBy(f, i) \in Nat
        BY <1>5, <1>6, <2>3, ShownInOrder
    <2>. QED  BY <1>4, <1>6, <2>2, <2>4
<1>. QED  BY <1>8, <1>9

\* The answer names the first field whose fault shows.
LEMMA AnswerIs ==
    ASSUME NEW m, NEW n, NEW l \in Nat, Fields(m) = 1..l
    PROVE  /\ \A k \in 1..l :
                /\ m.fault[k].at <= n
                /\ \A j \in 1..(k - 1) : ~(m.fault[j].at <= n)
                => Answer(m, n) = [verdict |-> m.fault[k].error, faulty |-> k]
           /\ (\A j \in 1..l : ~(m.fault[j].at <= n)) =>
                Answer(m, n) =
                    [verdict |-> IF \E k \in 1..(Len(m.fields) + 1) :
                                        m.start[k] = n /\ m.opens[k] = <<>>
                                 THEN "None" ELSE "Incomplete",
                     faulty |-> 0]
<1>1. PICK F : F = {k \in Fields(m) : m.fault[k].at <= n}
    OBVIOUS
<1>2. ASSUME NEW k \in 1..l, m.fault[k].at <= n, \A j \in 1..(k - 1) : ~(m.fault[j].at <= n)
      PROVE  Answer(m, n) = [verdict |-> m.fault[k].error, faulty |-> k]
    <2>1. k \in F /\ \A j \in F : k <= j
        BY <1>1, <1>2
    <2>2. \A i \in F : (\A j \in F : i <= j) => i = k
        BY <1>1, <2>1
    <2>3. (CHOOSE i \in F : \A j \in F : i <= j) = k
        BY <2>1, <2>2
    <2>4. F # {}
        BY <2>1
    <2>. QED  BY <1>1, <2>3, <2>4 DEF Answer
<1>3. ASSUME \A j \in 1..l : ~(m.fault[j].at <= n) PROVE F = {}
    BY <1>1, <1>3
<1>. QED  BY <1>1, <1>2, <1>3 DEF Answer

------------------------------------------------------------------------------
(* What a message is worth: its payload bytes in their order, each with the    *)
(* sequences around it.                                                        *)

Item == Seq(Nat) \X Nat
ItemsOf(m, n) == [b \in 1..n |-> <<m.opens[m.owner[b]], b>>]
PayloadOf(m) == {b \in 1..Bytes(m) : InPayload(m, b)}
HeldOf(m, n, last) ==
    {b \in 1..n : InPayload(m, b) /\ m.owner[b] <= last /\ UnitEnd(m, b) <= n}

\* The payload up to each byte.
PayloadTo(m) ==
    CHOOSE c \in [0..Bytes(m) -> Seq(Item)] :
        Collects(c, Bytes(m), PayloadOf(m), ItemsOf(m, Bytes(m)))

\* All of the payload up to byte q is held, or nothing behind it.
HeldUpTo(m, n, last, q) ==
    \A b \in 1..q : InPayload(m, b) => m.owner[b] <= last /\ UnitEnd(m, b) <= n
HeldNoMore(m, n, last, q) ==
    \A b \in (q + 1)..n : InPayload(m, b) => ~(m.owner[b] <= last /\ UnitEnd(m, b) <= n)

\* The items have their type.
LEMMA ItemsAre ==
    ASSUME NEW m, Laid(m), NEW n \in 0..Bytes(m)
    PROVE  Bytes(m) \in Nat /\ ItemsOf(m, n) \in [1..n -> Item]
<1>1. PICK l \in Nat : l = Len(m.fields) /\ Fields(m) = 1..l
    BY DEF Laid, Fields
<1>2. Bytes(m) \in Nat
    BY <1>1 DEF Laid, Bytes
<1>3. ASSUME NEW b \in 1..n PROVE m.opens[m.owner[b]] \in Seq(Nat) /\ b \in Nat
    <2>1. b \in 1..Bytes(m) /\ b \in Nat
        BY <1>2
    <2>2. m.owner[b] \in 1..l
        BY <1>1, <2>1 DEF Laid
    <2>3. m.owner[b] \in 1..(l + 1)
        BY <1>1, <2>2
    <2>. QED  BY <1>1, <2>1, <2>3 DEF Laid
<1>. QED  BY <1>2, <1>3 DEF ItemsOf, Item

\* PayloadTo collects the payload.
LEMMA PayloadCollects ==
    ASSUME NEW m, Laid(m)
    PROVE  /\ Bytes(m) \in Nat
           /\ PayloadTo(m) \in [0..Bytes(m) -> Seq(Item)]
           /\ Collects(PayloadTo(m), Bytes(m), PayloadOf(m), ItemsOf(m, Bytes(m)))
<1>1. Bytes(m) \in Nat
    BY DEF Laid, Bytes, Fields
<1>2. ItemsOf(m, Bytes(m)) \in [1..Bytes(m) -> Item]
    BY <1>1, ItemsAre
<1>3. \E c \in [0..Bytes(m) -> Seq(Item)] :
        Collects(c, Bytes(m), PayloadOf(m), ItemsOf(m, Bytes(m)))
    BY <1>1, <1>2, CollectsExists
<1>. QED  BY <1>1, <1>3 DEF PayloadTo

\* What is held is collected in the same way.
LEMMA ValuesCollect ==
    ASSUME NEW m, Laid(m), NEW n \in 0..Bytes(m), NEW last
    PROVE  \E c \in [0..n -> Seq(Item)] :
            /\ Collects(c, n, HeldOf(m, n, last), ItemsOf(m, n))
            /\ Values(m, n, last) = c[n]
<1>1. n \in Nat /\ ItemsOf(m, n) \in [1..n -> Item]
    <2>1. Bytes(m) \in Nat
        BY ItemsAre
    <2>. QED  BY <2>1, ItemsAre
<1>2. PICK c \in [0..n -> Seq(Item)] : Collects(c, n, HeldOf(m, n, last), ItemsOf(m, n))
    BY <1>1, CollectsExists
<1>. DEFINE Then(x, b) ==
        IF b = 0 THEN <<>>
        ELSE IF InPayload(m, b) /\ m.owner[b] <= last /\ UnitEnd(m, b) <= n
             THEN Append(x, <<m.opens[m.owner[b]], b>>) ELSE x
<1>3. c = [b \in 0..n |-> Then(c[b - 1], b)]
    <2>1. ASSUME NEW b \in 0..n PROVE c[b] = Then(c[b - 1], b)
        <3>1. CASE b = 0
            BY <1>2, <3>1 DEF Collects
        <3>2. CASE b # 0
            <4>1. b \in 1..n
                BY <3>2
            <4>2. ItemsOf(m, n)[b] = <<m.opens[m.owner[b]], b>>
                BY <4>1 DEF ItemsOf
            <4>3. b \in HeldOf(m, n, last)
                    <=> InPayload(m, b) /\ m.owner[b] <= last /\ UnitEnd(m, b) <= n
                BY <4>1 DEF HeldOf
            <4>4. PICK B, v, x : B = HeldOf(m, n, last) /\ v = ItemsOf(m, n) /\ x = v[b]
                OBVIOUS
            <4>5. c[b] = IF b \in B THEN Append(c[b - 1], x) ELSE c[b - 1]
                <5>1. Collects(c, n, B, v)
                    BY <1>2, <4>4
                <5>2. \A i \in 1..n : c[i] = IF i \in B THEN Append(c[i - 1], v[i]) ELSE c[i - 1]
                    BY <5>1 DEF Collects
                <5>. QED  BY <4>1, <4>4, <5>2
            <4>6. x = <<m.opens[m.owner[b]], b>>
                BY <4>2, <4>4
            <4>7. b \in B <=> InPayload(m, b) /\ m.owner[b] <= last /\ UnitEnd(m, b) <= n
                BY <4>3, <4>4
            <4>. QED  BY <3>2, <4>5, <4>6, <4>7
        <3>. QED  BY <3>1, <3>2
    <2>. QED  BY <2>1
<1>4. PICK e : /\ e = [b \in 0..n |-> Then(e[b - 1], b)]
               /\ Values(m, n, last) = e[n]
    <2>. DEFINE e == CHOOSE d : d = [b \in 0..n |-> Then(d[b - 1], b)]
    <2>1. e = [b \in 0..n |-> Then(e[b - 1], b)]
        BY <1>3
    <2>2. Values(m, n, last) = e[n]
        BY DEF Values
    <2>. QED  BY <2>1, <2>2
<1>5. 0..n \subseteq {b \in 0..n : e[b] = c[b]}
    <2>1. 0 \in {b \in 0..n : e[b] = c[b]}
        BY <1>1, <1>3, <1>4
    <2>2. ASSUME NEW b \in 1..n, b - 1 \in {i \in 0..n : e[i] = c[i]}
          PROVE  b \in {i \in 0..n : e[i] = c[i]}
        <3>1. b \in 0..n /\ e[b - 1] = c[b - 1]
            BY <2>2
        <3>2. e[b] = Then(e[b - 1], b) /\ c[b] = Then(c[b - 1], b)
            BY <1>3, <1>4, <3>1
        <3>. HIDE DEF Then
        <3>3. Then(e[b - 1], b) = Then(c[b - 1], b)
            BY <3>1
        <3>. QED  BY <3>1, <3>2, <3>3
    <2>. QED  BY <1>1, <2>1, <2>2, IntervalInduction
<1>6. n \in {b \in 0..n : e[b] = c[b]}
    <2>1. n \in 0..n
        BY <1>1
    <2>. QED  BY <1>5, <2>1
<1>. QED  BY <1>2, <1>4, <1>6

\* It goes along with the payload as far as that is held.
LEMMA HeldAgrees ==
    ASSUME NEW m, Laid(m), NEW n \in 0..Bytes(m), NEW last, NEW q \in 0..n,
           HeldUpTo(m, n, last, q)
    PROVE  \E c \in [0..n -> Seq(Item)] :
            /\ Collects(c, n, HeldOf(m, n, last), ItemsOf(m, n))
            /\ Values(m, n, last) = c[n] /\ PayloadTo(m)[q] = c[q]
<1>1. PICK z \in Nat : z = Bytes(m)
    BY ItemsAre
<1>2. PICK c \in [0..n -> Seq(Item)] :
        Collects(c, n, HeldOf(m, n, last), ItemsOf(m, n)) /\ Values(m, n, last) = c[n]
    BY ValuesCollect
<1>3. PICK d : d = PayloadTo(m) /\ Collects(d, z, PayloadOf(m), ItemsOf(m, z))
    BY <1>1, PayloadCollects
<1>4. n \in Nat /\ q \in Nat /\ q <= n /\ q <= z
    BY <1>1
<1>5. PICK B, E, v, w : /\ B = HeldOf(m, n, last) /\ E = PayloadOf(m)
                        /\ v = ItemsOf(m, n) /\ w = ItemsOf(m, z)
    OBVIOUS
<1>6. ASSUME NEW i \in 1..q PROVE (i \in B <=> i \in E) /\ v[i] = w[i]
    <2>1. i \in 1..n /\ i \in 1..z
        BY <1>1, <1>4
    <2>2. i \in B <=> i \in E
        BY <1>1, <1>5, <2>1 DEF HeldOf, PayloadOf, HeldUpTo
    <2>3. v[i] = w[i]
        BY <1>5, <2>1 DEF ItemsOf
    <2>. QED  BY <2>2, <2>3
<1>7. Collects(c, n, B, v) /\ Collects(d, z, E, w)
    BY <1>2, <1>3, <1>5
<1>8. c[q] = d[q]
    <2>1. Alike(q, B, E, v, w)
        BY <1>6 DEF Alike
    <2>. QED  BY <1>1, <1>4, <1>7, <2>1, CollectsAgree
<1>. QED  BY <1>2, <1>3, <1>8

\* What is held of n bytes is the payload up to byte q, when it is all of that and nothing
\* behind it ...
LEMMA ValuesAre ==
    ASSUME NEW m, Laid(m), NEW n \in 0..Bytes(m), NEW last, NEW q \in 0..n,
           HeldUpTo(m, n, last, q),
           HeldNoMore(m, n, last, q)
    PROVE  Values(m, n, last) = PayloadTo(m)[q]
<1>1. PICK c \in [0..n -> Seq(Item)] :
        /\ Collects(c, n, HeldOf(m, n, last), ItemsOf(m, n))
        /\ Values(m, n, last) = c[n] /\ PayloadTo(m)[q] = c[q]
    BY HeldAgrees
<1>2. PICK B, v : B = HeldOf(m, n, last) /\ v = ItemsOf(m, n)
    OBVIOUS
<1>3. n \in Nat /\ q \in Nat /\ q <= n /\ n <= n
    BY ItemsAre
<1>4. Misses(q, n, B)
    BY <1>2 DEF HeldOf, HeldNoMore, Misses
<1>5. Collects(c, n, B, v)
    BY <1>1, <1>2
<1>6. c[n] = c[q]
    BY <1>3, <1>4, <1>5, CollectsNothing
<1>. QED  BY <1>1, <1>6

\* ... and begins with it, when it is all of that.
LEMMA ValuesBegin ==
    ASSUME NEW m, Laid(m), NEW n \in 0..Bytes(m), NEW last, NEW q \in 0..n,
           HeldUpTo(m, n, last, q)
    PROVE  /\ Len(PayloadTo(m)[q]) <= Len(Values(m, n, last))
           /\ PayloadTo(m)[q] = SubSeq(Values(m, n, last), 1, Len(PayloadTo(m)[q]))
<1>1. PICK c \in [0..n -> Seq(Item)] :
        /\ Collects(c, n, HeldOf(m, n, last), ItemsOf(m, n))
        /\ Values(m, n, last) = c[n] /\ PayloadTo(m)[q] = c[q]
    BY HeldAgrees
<1>2. PICK B, v, T : B = HeldOf(m, n, last) /\ v = ItemsOf(m, n) /\ T = Item
    OBVIOUS
<1>3. n \in Nat /\ q \in Nat /\ q <= n /\ n <= n
    BY ItemsAre
<1>4. v \in [1..n -> T] /\ c \in [0..n -> Seq(T)] /\ Collects(c, n, B, v)
    BY <1>1, <1>2, ItemsAre
<1>. HIDE DEF Item
<1>5. Len(c[q]) <= Len(c[n]) /\ c[q] = SubSeq(c[n], 1, Len(c[q]))
    <2>1. CollectsInto(c, n, B, v, T)
        BY <1>4 DEF CollectsInto
    <2>. QED  BY <1>3, <2>1, CollectsMore
<1>. QED  BY <1>1, <1>5

\* A length rounded up to whole units.
LEMMA UnitsAround ==
    ASSUME NEW w \in Nat \ {0}, NEW d \in Nat \ {0}, NEW u, u = ((d + w - 1) \div w) * w
    PROVE  /\ u \in Nat
           /\ \A j \in Nat : /\ d <= j * w => u <= j * w
                             /\ d > j * w => u >= (j + 1) * w
<1>1. PICK a \in Nat : a = d + w - 1
    OBVIOUS
<1>2. PICK c \in Nat : c = a \div w
    OBVIOUS
<1>3. PICK z \in Nat : z = c * w
    OBVIOUS
<1>4. z <= a /\ a < z + w
    <2>1. (a \div w) * w <= a /\ a - (a \div w) * w < w
        OBVIOUS
    <2>. QED  BY <1>2, <1>3, <2>1
<1>5. u = z /\ d <= z /\ z < d + w
    BY <1>1, <1>2, <1>3, <1>4
<1>6. ASSUME NEW i \in Nat, NEW j \in Nat, i <= j PROVE i * w <= j * w
    <2>1. PICK e \in Nat : j = i + e
        <3>1. j - i \in Nat /\ j = i + (j - i)
            BY <1>6
        <3>. QED  BY <3>1
    <2>2. (i + e) * w = i * w + e * w /\ e * w \in Nat /\ i * w \in Nat
        OBVIOUS
    <2>. QED  BY <2>1, <2>2
<1>7. ASSUME NEW j \in Nat, d <= j * w PROVE z <= j * w
    <2>1. PICK y \in Nat : y = j * w
        OBVIOUS
    <2>2. (j + 1) * w = y + w
        BY <2>1
    <2>3. ~(j + 1 <= c)
        <3>1. j + 1 <= c => (j + 1) * w <= z
            BY <1>3, <1>6
        <3>2. z < y + w
            BY <1>5, <1>7, <2>1
        <3>. QED  BY <2>1, <2>2, <3>1, <3>2
    <2>4. c <= j
        BY <2>3
    <2>. QED  BY <1>3, <1>6, <2>4
<1>8. ASSUME NEW j \in Nat, d > j * w PROVE z >= (j + 1) * w
    <2>1. PICK y \in Nat : y = j * w
        OBVIOUS
    <2>2. ~(c <= j)
        <3>1. c <= j => z <= y
            BY <1>3, <1>6, <2>1
        <3>2. z > y
            BY <1>5, <1>8, <2>1
        <3>. QED  BY <2>1, <3>1, <3>2
    <2>3. j + 1 <= c
        BY <2>2
    <2>4. (j + 1) * w <= c * w
        BY <1>6, <2>3
    <2>5. (j + 1) * w \in Nat
        OBVIOUS
    <2>. QED  BY <1>3, <2>4, <2>5
<1>. QED  BY <1>5, <1>7, <1>8

\* The bytes of a field are those between its start and the next one's.
LEMMA OwnerIs ==
    ASSUME NEW m, Laid(m), NEW k \in Fields(m), NEW b \in 1..Bytes(m)
    PROVE  /\ m.start[k] \in Nat /\ m.start[k + 1] \in Nat /\ m.start[k + 1] <= Bytes(m)
           /\ Bytes(m) \in Nat /\ m.owner[b] \in Fields(m) /\ k \in Nat /\ m.owner[b] \in Nat
           /\ b <= m.start[k + 1] => m.owner[b] <= k
           /\ b > m.start[k] => m.owner[b] >= k
           /\ m.owner[b] < k => m.start[m.owner[b] + 1] <= m.start[k]
<1>1. PICK l \in Nat : l = Len(m.fields) /\ Fields(m) = 1..l /\ Bytes(m) = m.start[l + 1]
    BY DEF Laid, Fields, Bytes
<1>2. PICK o \in 1..l : o = m.owner[b]
    BY <1>1 DEF Laid
<1>3. \A i \in 1..(l + 1) : m.start[i] \in Nat
    BY <1>1 DEF Laid
<1>4. \A i, j \in 1..(l + 1) : i <= j => m.start[i] <= m.start[j]
    <2>. SUFFICES ASSUME NEW i \in 1..(l + 1), NEW j \in 1..(l + 1), i <= j
                  PROVE  m.start[i] <= m.start[j]
        OBVIOUS
    <2>1. CASE i = j
        BY <1>3, <2>1
    <2>2. CASE i # j
        <3>1. i < j
            BY <2>2
        <3>2. m.start[i] < m.start[j]
            BY <1>1, <3>1 DEF Laid
        <3>. QED  BY <1>3, <3>2
    <2>. QED  BY <2>1, <2>2
<1>5. m.start[o] < b /\ b <= m.start[o + 1]
    BY <1>1, <1>2 DEF Laid
<1>6. /\ k \in 1..(l + 1) /\ k + 1 \in 1..(l + 1) /\ o \in 1..(l + 1) /\ o + 1 \in 1..(l + 1)
      /\ l + 1 \in 1..(l + 1) /\ k \in 1..l
    BY <1>1, <1>2
<1>7. b <= m.start[k + 1] => o <= k
    <2>1. ASSUME ~(o <= k) PROVE m.start[k + 1] <= m.start[o]
        <3>1. k + 1 <= o
            BY <1>6, <2>1
        <3>. QED  BY <1>4, <1>6, <3>1
    <2>. QED  BY <1>1, <1>3, <1>5, <1>6, <2>1
<1>8. b > m.start[k] => o >= k
    <2>1. ASSUME ~(o >= k) PROVE m.start[o + 1] <= m.start[k]
        <3>1. o + 1 <= k
            BY <1>6, <2>1
        <3>. QED  BY <1>4, <1>6, <3>1
    <2>. QED  BY <1>1, <1>3, <1>5, <1>6, <2>1
<1>9. o < k => m.start[o + 1] <= m.start[k]
    <2>1. o < k => o + 1 <= k
        BY <1>6
    <2>. QED  BY <1>4, <1>6, <2>1
<1>10. m.start[k + 1] <= Bytes(m)
    <2>1. k + 1 <= l + 1
        BY <1>6
    <2>. QED  BY <1>1, <1>4, <1>6, <2>1
<1>. QED  BY <1>1, <1>2, <1>3, <1>6, <1>7, <1>8, <1>9, <1>10

\* Where the payload of a field begins.
PayloadAt(m, k) == m.start[k] + Header(At(m, k))

\* The payload of a field follows its header and ends with it.
LEMMA PayloadAtFacts ==
    ASSUME NEW m, Laid(m), NEW k \in Fields(m)
    PROVE  /\ At(m, k).width \in Nat \ {0} /\ At(m, k).units \in Nat
           /\ PayloadAt(m, k) \in Nat /\ m.start[k] \in Nat /\ m.start[k] < PayloadAt(m, k)
           /\ m.start[k + 1] = PayloadAt(m, k) + At(m, k).units * At(m, k).width
<1>1. PICK l \in Nat : l = Len(m.fields) /\ Fields(m) = 1..l
    BY DEF Laid, Fields
<1>2. m.fields[k] \in DOMAIN Alphabet
    BY <1>1 DEF Laid
<1>3. PICK f : f = At(m, k)
    OBVIOUS
<1>4. f.tag \in Nat \ {0} /\ f.meta \in Nat /\ f.units \in Nat /\ f.width \in Nat \ {0}
      /\ Header(f) \in Nat \ {0} /\ Size(f) \in Nat
    BY <1>2, <1>3, FieldFacts DEF At
<1>5. Size(f) = Header(f) + f.units * f.width
    BY DEF Size
<1>6. k \in 1..(l + 1) /\ m.start[k] \in Nat
    BY <1>1 DEF Laid
<1>7. m.start[k + 1] = m.start[k] + Size(f)
    BY <1>3 DEF Laid
<1>8. f.units * f.width \in Nat
    BY <1>4
<1>. QED  BY <1>3, <1>4, <1>5, <1>6, <1>7, <1>8 DEF PayloadAt

\* The unit of a payload byte ends with the first whole unit that has the byte.
LEMMA UnitEnds ==
    ASSUME NEW m, Laid(m), NEW b \in 1..Bytes(m), InPayload(m, b), NEW k, k = m.owner[b]
    PROVE  /\ k \in Fields(m) /\ k \in m.live /\ b > PayloadAt(m, k)
           /\ UnitEnd(m, b) \in Nat
           /\ \A j \in Nat :
                /\ b <= PayloadAt(m, k) + j * At(m, k).width =>
                        UnitEnd(m, b) <= PayloadAt(m, k) + j * At(m, k).width
                /\ b > PayloadAt(m, k) + j * At(m, k).width =>
                        UnitEnd(m, b) >= PayloadAt(m, k) + (j + 1) * At(m, k).width
<1>1. k \in Fields(m) /\ b \in Nat
    <2>1. Bytes(m) \in Nat
        BY PayloadCollects
    <2>2. m.owner[b] \in Fields(m)
        BY DEF Laid
    <2>. QED  BY <2>1, <2>2
<1>2. k \in m.live /\ b > PayloadAt(m, k)
    BY DEF InPayload, PayloadAt
<1>3. PICK w \in Nat \ {0}, e \in Nat : w = At(m, k).width /\ e = PayloadAt(m, k)
    BY <1>1, PayloadAtFacts
<1>4. PICK d \in Nat \ {0} : d = b - e
    BY <1>1, <1>2, <1>3
<1>5. PICK u : u = ((d + w - 1) \div w) * w
    OBVIOUS
<1>6. UnitEnd(m, b) = e + u
    <2>1. UnitEnd(m, b) = e + ((b - e + w - 1) \div w) * w
        BY <1>3 DEF UnitEnd, PayloadAt
    <2>. QED  BY <1>4, <1>5, <2>1
<1>7. u \in Nat /\ \A j \in Nat : (d <= j * w => u <= j * w) /\ (d > j * w => u >= (j + 1) * w)
    BY <1>5, UnitsAround
<1>8. ASSUME NEW j \in Nat
      PROVE  /\ b <= e + j * w => UnitEnd(m, b) <= e + j * w
             /\ b > e + j * w => UnitEnd(m, b) >= e + (j + 1) * w
    <2>1. PICK x \in Nat, y \in Nat : x = j * w /\ y = (j + 1) * w
        OBVIOUS
    <2>2. (d <= x => u <= x) /\ (d > x => u >= y)
        BY <1>7, <2>1
    <2>3. (b <= e + x => UnitEnd(m, b) <= e + x) /\ (b > e + x => UnitEnd(m, b) >= e + y)
        BY <1>1, <1>4, <1>6, <1>7, <2>2
    <2>. QED  BY <2>1, <2>3
<1>. QED  BY <1>1, <1>2, <1>3, <1>6, <1>7, <1>8

\* Between two units of field k, in front of its payload or in one that is not delivered.
OnUnit(m, k, q) ==
    /\ k \in Fields(m) /\ q \in Nat /\ m.start[k] <= q /\ q <= m.start[k + 1]
    /\ k \in m.live => q <= PayloadAt(m, k) \/ \E j \in Nat : q = PayloadAt(m, k) + j * At(m, k).width

\* There the units that have begun are complete.
LEMMA HeldTo ==
    ASSUME NEW m, Laid(m), NEW n \in 0..Bytes(m), NEW q \in 0..n, NEW k, OnUnit(m, k, q),
           NEW last \in Nat, k <= last
    PROVE  HeldUpTo(m, n, last, q)
<1>1. k \in Fields(m) /\ q \in Nat /\ m.start[k] <= q /\ q <= m.start[k + 1] /\ n \in Nat /\ q <= n
    <2>1. Bytes(m) \in Nat
        BY PayloadCollects
    <2>. QED  BY <2>1 DEF OnUnit
<1>2. SUFFICES ASSUME NEW b \in 1..q, InPayload(m, b) PROVE m.owner[b] <= last /\ UnitEnd(m, b) <= n
    BY DEF HeldUpTo
<1>3. b \in 1..Bytes(m) /\ b <= q /\ b \in Nat
    <2>1. Bytes(m) \in Nat
        BY PayloadCollects
    <2>. QED  BY <1>1, <2>1
<1>4. PICK o \in Nat : o = m.owner[b]
    BY <1>1, <1>3, OwnerIs
<1>5. o <= k /\ m.start[k] \in Nat /\ m.start[k + 1] \in Nat /\ k \in Nat
    BY <1>1, <1>3, <1>4, OwnerIs
<1>6. /\ o \in Fields(m) /\ o \in m.live /\ b > PayloadAt(m, o) /\ UnitEnd(m, b) \in Nat
      /\ \A j \in Nat : b <= PayloadAt(m, o) + j * At(m, o).width =>
                            UnitEnd(m, b) <= PayloadAt(m, o) + j * At(m, o).width
    BY <1>2, <1>3, <1>4, UnitEnds
<1>7. UnitEnd(m, b) <= q
    <2>1. CASE o = k
        <3>1. PICK j \in Nat : q = PayloadAt(m, k) + j * At(m, k).width
            <4>1. ~(q <= PayloadAt(m, k))
                <5>1. PayloadAt(m, k) \in Nat
                    BY <1>1, PayloadAtFacts
                <5>. QED  BY <1>1, <1>3, <1>6, <2>1, <5>1
            <4>. QED  BY <1>6, <2>1, <4>1 DEF OnUnit
        <3>2. b <= PayloadAt(m, k) + j * At(m, k).width
            BY <1>3, <3>1
        <3>. QED  BY <1>6, <2>1, <3>1, <3>2
    <2>2. CASE o # k
        <3>1. o < k
            BY <1>4, <1>5, <2>2
        <3>2. m.start[o + 1] <= m.start[k]
            BY <1>1, <1>3, <1>4, <3>1, OwnerIs
        <3>3. PICK u \in Nat, e \in Nat, z \in Nat :
                /\ u = At(m, o).units /\ e = PayloadAt(m, o) /\ z = u * At(m, o).width
                /\ m.start[o + 1] = e + z
            <4>1. At(m, o).width \in Nat /\ At(m, o).units \in Nat
                BY <1>6, PayloadAtFacts
            <4>2. At(m, o).units * At(m, o).width \in Nat
                BY <4>1
            <4>. QED  BY <1>6, <4>1, <4>2, PayloadAtFacts
        <3>4. b <= m.start[o + 1]
            BY <1>3, <1>4 DEF Laid
        <3>5. UnitEnd(m, b) <= e + z
            BY <1>6, <3>3, <3>4
        <3>. QED  BY <1>1, <1>5, <1>6, <3>2, <3>3, <3>5
    <2>. QED  BY <2>1, <2>2
<1>8. o <= last
    BY <1>4, <1>5
<1>. QED  BY <1>1, <1>4, <1>6, <1>7, <1>8

\* So they are where a field begins.
LEMMA HeldToStart ==
    ASSUME NEW m, Laid(m), NEW n \in 0..Bytes(m), NEW k \in 1..(Len(m.fields) + 1),
           NEW q \in 0..n, q = m.start[k], NEW last \in Nat, k - 1 <= last
    PROVE  HeldUpTo(m, n, last, q)
<1>1. PICK l \in Nat : l = Len(m.fields) /\ Fields(m) = 1..l
    BY DEF Laid, Fields
<1>2. CASE k = 1
    <2>1. q = 0
        BY <1>2 DEF Laid
    <2>. QED  BY <2>1 DEF HeldUpTo
<1>3. CASE k # 1
    <2>1. PICK j : j = k - 1 /\ j \in Fields(m) /\ j + 1 = k /\ j <= last
        BY <1>1, <1>3
    <2>2. PICK u \in Nat, e \in Nat, w \in Nat, a \in Nat :
            /\ e = PayloadAt(m, j) /\ u = At(m, j).units /\ w = At(m, j).width /\ a = m.start[j]
            /\ a < e /\ m.start[j + 1] = e + u * w
        <3>1. /\ PayloadAt(m, j) \in Nat /\ At(m, j).units \in Nat /\ At(m, j).width \in Nat
              /\ m.start[j] \in Nat /\ m.start[j] < PayloadAt(m, j)
              /\ m.start[j + 1] = PayloadAt(m, j) + At(m, j).units * At(m, j).width
            BY <2>1, PayloadAtFacts
        <3>. QED  BY <3>1
    <2>3. q = e + u * w /\ u * w \in Nat
        BY <2>1, <2>2
    <2>4. OnUnit(m, j, q)
        <3>1. q \in Nat /\ a <= q
            BY <2>2, <2>3
        <3>2. q <= m.start[j + 1]
            BY <2>1, <3>1
        <3>3. q = PayloadAt(m, j) + u * At(m, j).width
            BY <2>2, <2>3
        <3>4. m.start[j] <= q
            BY <2>2, <3>1
        <3>. QED  BY <2>1, <2>2, <3>1, <3>2, <3>3, <3>4 DEF OnUnit
    <2>. QED  BY <2>1, <2>4, HeldTo
<1>. QED  BY <1>2, <1>3

\* Of the next unit nothing is held before all of it is there.
LEMMA StopsInside ==
    ASSUME NEW m, Laid(m), NEW n \in 0..Bytes(m), NEW k \in Fields(m), NEW q \in 0..n,
           m.start[k] <= q, n < m.start[k + 1], NEW last,
           \/ n <= PayloadAt(m, k)
           \/ \E j \in Nat : /\ q >= PayloadAt(m, k) + j * At(m, k).width
                             /\ n < PayloadAt(m, k) + (j + 1) * At(m, k).width
           \/ k \notin m.live
    PROVE  HeldNoMore(m, n, last, q)
<1>1. Bytes(m) \in Nat /\ n \in Nat /\ q \in Nat
    <2>1. Bytes(m) \in Nat
        BY PayloadCollects
    <2>. QED  BY <2>1
<1>2. SUFFICES ASSUME NEW b \in (q + 1)..n, InPayload(m, b), UnitEnd(m, b) <= n PROVE FALSE
    BY DEF HeldNoMore
<1>3. b \in 1..Bytes(m) /\ b > q /\ b <= n /\ b \in Nat
    BY <1>1
<1>4. m.owner[b] = k
    <2>1. m.start[k] \in Nat /\ m.start[k + 1] \in Nat
        BY <1>3, OwnerIs
    <2>2. b <= m.start[k + 1] /\ b > m.start[k]
        BY <1>1, <1>3, <2>1
    <2>3. m.owner[b] <= k /\ m.owner[b] >= k /\ m.owner[b] \in Nat /\ k \in Nat
        BY <1>3, <2>2, OwnerIs
    <2>. QED  BY <2>3
<1>5. /\ k \in m.live /\ b > PayloadAt(m, k) /\ UnitEnd(m, b) \in Nat
      /\ \A j \in Nat : b > PayloadAt(m, k) + j * At(m, k).width =>
                            UnitEnd(m, b) >= PayloadAt(m, k) + (j + 1) * At(m, k).width
    BY <1>2, <1>3, <1>4, UnitEnds
<1>6. PICK e \in Nat, w \in Nat : e = PayloadAt(m, k) /\ w = At(m, k).width
    BY PayloadAtFacts
<1>7. PICK j \in Nat : q >= e + j * w /\ n < e + (j + 1) * w
    BY <1>1, <1>3, <1>5, <1>6
<1>8. PICK x \in Nat, y \in Nat : x = j * w /\ y = (j + 1) * w
    OBVIOUS
<1>9. b > e + x
    BY <1>1, <1>3, <1>6, <1>7, <1>8
<1>10. UnitEnd(m, b) >= e + y
    BY <1>5, <1>6, <1>8, <1>9
<1>. QED  BY <1>1, <1>2, <1>5, <1>6, <1>7, <1>8, <1>10

\* Nothing behind the start of a field is of the fields before it.
LEMMA StopsBefore ==
    ASSUME NEW m, Laid(m), NEW n \in 0..Bytes(m), NEW k \in Fields(m), NEW q \in 0..n,
           q = m.start[k]
    PROVE  HeldNoMore(m, n, k - 1, q)
<1>1. Bytes(m) \in Nat /\ n \in Nat /\ q \in Nat
    <2>1. Bytes(m) \in Nat
        BY PayloadCollects
    <2>. QED  BY <2>1
<1>2. SUFFICES ASSUME NEW b \in (q + 1)..n PROVE ~(m.owner[b] <= k - 1)
    BY DEF HeldNoMore
<1>3. b \in 1..Bytes(m) /\ b > q
    BY <1>1
<1>4. m.owner[b] >= k /\ m.owner[b] \in Nat /\ k \in Nat
    BY <1>3, OwnerIs
<1>. QED  BY <1>4
=============================================================================
