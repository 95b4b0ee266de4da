-------------------------- MODULE InlineVectorProofs --------------------------
(* Theorems about InlineVector.tla for every capacity, element type and ==.    *)
EXTENDS InlineVector, TLAPS

\* The smaller of two lengths.
LEMMA MinOfTwo ==
  ASSUME NEW m \in Nat, NEW n \in Nat
  PROVE  Min({m, n}) = IF m <= n THEN m ELSE n
  <1>. DEFINE least == IF m <= n THEN m ELSE n
  <1>1. least \in {m, n} /\ \A x \in {m, n} : least <= x
    OBVIOUS
  <1>2. \A x \in {m, n} : (\A y \in {m, n} : x <= y) => x = least
    OBVIOUS
  <1>3. Min({m, n}) \in {m, n} /\ \A y \in {m, n} : Min({m, n}) <= y
    BY <1>1 DEF Min
  <1>. QED
    BY <1>2, <1>3

------------------------------------------------------------------------------
(* Type correctness. *)

\* Giving one container slots and a length that fits it keeps the type.
LEMMA BecomesType ==
  ASSUME TypeOK, NEW c \in Containers, NEW b \in [Slots -> Elements], NEW n \in 0..N,
         Becomes(c, b, n), UNCHANGED class
  PROVE  TypeOK'
  BY DEF TypeOK, Becomes

\* A list's first n elements put into slots.
LEMMA FilledType ==
  ASSUME NEW b \in [Slots -> Elements], NEW list \in Seq(Elements), NEW n \in 0..N,
         n <= Len(list)
  PROVE  Filled(b, list, n) \in [Slots -> Elements]
  <1>. SUFFICES ASSUME NEW i \in Slots, i < n PROVE list[i + 1] \in Elements
    BY DEF Filled
  <1>1. i + 1 \in 1..Len(list)
    BY ContainerAssumption DEF Slots
  <1>. QED
    BY <1>1

\* A list's elements are Elements, and so are those of a container.
LEMMA ValueType ==
  ASSUME TypeOK, NEW c \in Containers
  PROVE  Value(c) \in Seq(Elements) /\ Len(Value(c)) = len[c] /\ len[c] \in 0..N
  <1>1. len[c] \in 0..N /\ len[c] \in Nat
    BY ContainerAssumption DEF TypeOK
  <1>2. \A i \in 1..len[c] : buf[c][i - 1] \in Elements
    <2>. SUFFICES ASSUME NEW i \in 1..len[c] PROVE buf[c][i - 1] \in Elements
      OBVIOUS
    <2>1. i - 1 \in Slots
      BY <1>1, ContainerAssumption DEF Slots
    <2>. QED
      BY <2>1 DEF TypeOK
  <1>. QED
    BY <1>1, <1>2 DEF Value

\* Resizing leaves elements in every slot.
LEMMA ResizedType ==
  ASSUME NEW b \in [Slots -> Elements], NEW old, NEW n
  PROVE  Resized(b, old, n) \in [Slots -> Elements]
  BY ContainerAssumption DEF Resized

\* A new field has elements in every slot, the declared ones first.
LEMMA FreshType == Fresh \in [Slots -> Elements] /\ Len(Declared) \in 0..N
  <1>1. [i \in Slots |-> Default] \in [Slots -> Elements] /\ Len(Declared) \in 0..N
    BY ContainerAssumption
  <1>. QED
    BY <1>1, FilledType, ContainerAssumption DEF Fresh

\* Every operation keeps the length within the capacity and the slots well-typed.
LEMMA NextType ==
  ASSUME TypeOK, [Next]_vars
  PROVE  TypeOK'
  <1>. USE ContainerAssumption
  <1>1. CASE UNCHANGED vars \/ Return
    BY <1>1 DEF TypeOK, vars, Return
  <1>2. ASSUME NEW c \in Containers, Clear(c) PROVE TypeOK'
    <2>1. buf[c] \in [Slots -> Elements] /\ 0 \in 0..N
      BY DEF TypeOK
    <2>. QED
      BY <1>2, <2>1, BecomesType DEF Clear, Calls
  <1>3. ASSUME NEW c \in Containers, EmplaceBack(c) PROVE TypeOK'
    <2>. DEFINE i == IF len[c] < N THEN len[c] ELSE N - 1
    <2>1. i \in Slots /\ i + 1 \in 0..N
      BY DEF TypeOK, Slots
    <2>2. [buf[c] EXCEPT ![i] = Default] \in [Slots -> Elements]
      BY DEF TypeOK
    <2>. QED
      BY <1>3, <2>1, <2>2, BecomesType DEF EmplaceBack, Calls
  <1>4. ASSUME NEW c \in Containers, NEW list \in Lists, Assign(c, list) PROVE TypeOK'
    <2>. DEFINE n == Min({Len(list), N})
    <2>1. list \in Seq(Elements) /\ n \in 0..N /\ n <= Len(list)
      BY MinOfTwo
    <2>2. Filled(buf[c], list, n) \in [Slots -> Elements]
      BY <2>1, FilledType DEF TypeOK
    <2>. QED
      BY <1>4, <2>1, <2>2, BecomesType DEF Assign, Calls
  <1>5. ASSUME NEW c \in Containers, NEW d \in Lists, ReadBytes(c, d) PROVE TypeOK'
    <2>1. d \in Seq(Elements) /\ Len(d) \in 0..N /\ Min({Len(d), N}) = Len(d)
      BY <1>5, MinOfTwo DEF ReadBytes
    <2>2. Filled(buf[c], d, Len(d)) \in [Slots -> Elements]
      BY <2>1, FilledType DEF TypeOK
    <2>. QED
      BY <1>5, <2>1, <2>2, BecomesType DEF ReadBytes, Calls
  <1>6. ASSUME NEW c \in Containers, NEW asked \in 0..(N + 1), Resize(c, asked) PROVE TypeOK'
    <2>. DEFINE n == Min({asked, N})
    <2>1. n \in 0..N
      BY MinOfTwo
    <2>2. Resized(buf[c], len[c], n) \in [Slots -> Elements]
      BY ResizedType DEF TypeOK
    <2>. QED
      BY <1>6, <2>1, <2>2, BecomesType DEF Resize, Calls
  <1>7. ASSUME NEW c \in Containers, NEW v \in Elements, PushBack(c, v) PROVE TypeOK'
    <2>1. CASE len[c] < N
      <3>1. len[c] \in Slots /\ len[c] + 1 \in 0..N
        BY <2>1 DEF TypeOK, Slots
      <3>2. [buf[c] EXCEPT ![len[c]] = v] \in [Slots -> Elements]
        BY DEF TypeOK
      <3>. QED
        BY <1>7, <2>1, <3>1, <3>2, BecomesType DEF PushBack, Calls
    <2>2. CASE ~(len[c] < N)
      BY <1>7, <2>2 DEF PushBack, TypeOK, Calls
    <2>. QED
      BY <2>1, <2>2
  <1>8. ASSUME NEW c \in Containers, NEW v \in Elements, NEW i \in Slots, Write(c, i, v)
        PROVE TypeOK'
    <2>1. [buf[c] EXCEPT ![i] = v] \in [Slots -> Elements] /\ len[c] \in 0..N
      BY DEF TypeOK
    <2>. QED
      BY <1>8, <2>1, BecomesType DEF Write, Calls
  <1>9. ASSUME NEW c \in Containers, NEW d \in Containers, Copy(c, d) PROVE TypeOK'
    <2>1. buf[d] \in [Slots -> Elements] /\ len[d] \in 0..N
      BY DEF TypeOK
    <2>. QED
      BY <1>9, <2>1, BecomesType DEF Copy, Calls
  <1>10. ASSUME NEW c \in Containers, NEW d \in Containers, Equals(c, d) \/ BitsEqual(c, d)
         PROVE  TypeOK'
    BY <1>10 DEF TypeOK, Equals, BitsEqual, Calls
  <1>11. ASSUME NEW c \in Containers, NEW d \in Containers, Transmit(c, d) PROVE TypeOK'
    <2>1. CASE Present(c)
      <3>1. Resized(Fresh, Len(Declared), len[c]) \in [Slots -> Elements]
        BY FreshType, ResizedType
      <3>2. len[c] \in 0..N /\ Value(c) \in Seq(Elements) /\ len[c] <= Len(Value(c))
        BY ValueType
      <3>3. Filled(Resized(Fresh, Len(Declared), len[c]), Value(c), len[c]) \in [Slots -> Elements]
        BY <3>1, <3>2, FilledType
      <3>. QED
        BY <1>11, <2>1, <3>2, <3>3, BecomesType DEF Transmit, Calls
    <2>2. CASE ~Present(c)
      BY <1>11, <2>2, FreshType, BecomesType DEF Transmit, Calls
    <2>. QED
      BY <2>1, <2>2
  <1>. QED
    BY <1>1, <1>2, <1>3, <1>4, <1>5, <1>6, <1>7, <1>8, <1>9, <1>10, <1>11 DEF Next

\* No length outgrows its buffer, and every slot holds an element.
THEOREM TypeCorrect == Spec => []TypeOK
  <1>1. Init => TypeOK
    BY ContainerAssumption DEF Init, TypeOK
  <1>2. TypeOK /\ [Next]_vars => TypeOK'
    BY NextType
  <1>. QED
    BY <1>1, <1>2, PTL DEF Spec

------------------------------------------------------------------------------
(* Comparisons. *)

\* bitsEqual of a container and of anything contiguous tells whether the elements are
\* the same sequence.
LEMMA SameBits ==
  ASSUME TypeOK, NEW c \in Containers, NEW list \in Seq(Elements), NEW data,
         \A i \in 0..(Len(list) - 1) : data[i] = list[i + 1]
  PROVE  bitsEqual(Span(c), [data |-> data, size |-> Len(list)]) <=> Value(c) = list
  <1>1. /\ len[c] \in Nat /\ Value(c) \in Seq(Elements) /\ Len(Value(c)) = len[c]
        /\ \A i \in 1..len[c] : Value(c)[i] = buf[c][i - 1]
    <2>1. \A i \in 1..len[c] : Value(c)[i] = buf[c][i - 1]
      BY DEF Value
    <2>. QED
      BY <2>1, ValueType, ContainerAssumption
  <1>2. bitsEqual(Span(c), [data |-> data, size |-> Len(list)]) <=>
          len[c] = Len(list) /\ \A i \in 0..(len[c] - 1) : buf[c][i] = data[i]
    BY DEF bitsEqual, Span
  <1>3. ASSUME len[c] = Len(list), \A i \in 0..(len[c] - 1) : buf[c][i] = data[i]
        PROVE  Value(c) = list
    <2>1. ASSUME NEW i \in 1..len[c] PROVE Value(c)[i] = list[i]
      <3>1. i - 1 \in 0..(len[c] - 1) /\ (i - 1) + 1 = i
        BY <1>1
      <3>. QED
        BY <1>1, <1>3, <3>1
    <2>. QED
      BY <1>1, <1>3, <2>1
  <1>4. ASSUME Value(c) = list
        PROVE  len[c] = Len(list) /\ \A i \in 0..(len[c] - 1) : buf[c][i] = data[i]
    <2>1. ASSUME NEW i \in 0..(len[c] - 1) PROVE buf[c][i] = data[i]
      <3>1. i + 1 \in 1..len[c] /\ (i + 1) - 1 = i
        BY <1>1
      <3>. QED
        BY <1>1, <1>4, <3>1
    <2>. QED
      BY <1>1, <1>4, <2>1
  <1>. QED
    BY <1>2, <1>3, <1>4

\* bitsEqual of two containers.
LEMMA SameContainers ==
  ASSUME TypeOK, NEW c \in Containers, NEW d \in Containers
  PROVE  bitsEqual(Span(c), Span(d)) <=> Value(c) = Value(d)
  <1>1. Value(d) \in Seq(Elements) /\ Len(Value(d)) = len[d] /\ len[d] \in Nat
    BY ValueType, ContainerAssumption
  <1>2. \A i \in 0..(Len(Value(d)) - 1) : buf[d][i] = Value(d)[i + 1]
    <2>. SUFFICES ASSUME NEW i \in 0..(len[d] - 1) PROVE buf[d][i] = Value(d)[i + 1]
      BY <1>1
    <2>1. i + 1 \in 1..len[d] /\ (i + 1) - 1 = i
      BY <1>1
    <2>. QED
      BY <2>1 DEF Value
  <1>3. Span(d) = [data |-> buf[d], size |-> Len(Value(d))]
    BY <1>1 DEF Span
  <1>. QED
    BY <1>1, <1>2, <1>3, SameBits

\* The test by which a field is left out of a message.
LEMMA PresentIs ==
  ASSUME TypeOK, NEW c \in Containers
  PROVE  Present(c) <=> Value(c) # Declared
  <1>. DEFINE data == [i \in 0..(Len(Declared) - 1) |-> Declared[i + 1]]
  <1>1. \A i \in 0..(Len(Declared) - 1) : data[i] = Declared[i + 1]
    OBVIOUS
  <1>2. bitsEqual(Span(c), [data |-> data, size |-> Len(Declared)]) <=> Value(c) = Declared
    <2>. HIDE DEF data
    <2>. QED
      BY <1>1, SameBits, ContainerAssumption
  <1>. QED
    BY <1>2 DEF Present, Braced

\* operator== looks at the elements of both, and at no slot behind them.
LEMMA EqualIs ==
  ASSUME TypeOK, NEW c \in Containers, NEW d \in Containers
  PROVE  Equal(c, d) <=> S!SameElements(Value(c), Value(d))
  <1>1. /\ len[c] \in Nat /\ len[d] \in Nat
        /\ Len(Value(c)) = len[c] /\ Len(Value(d)) = len[d] /\ DOMAIN Value(c) = 1..len[c]
    <2>1. DOMAIN Value(c) = 1..len[c]
      BY DEF Value
    <2>. QED
      BY <2>1, ValueType, ContainerAssumption
  <1>. SUFFICES ASSUME len[c] = len[d]
       PROVE  (\A i \in 0..(len[c] - 1) : Alike(buf[c][i], buf[d][i])) <=>
                (\A i \in 1..len[c] : Alike(Value(c)[i], Value(d)[i]))
    BY <1>1 DEF Equal, S!SameElements
  <1>2. \A i \in 1..len[c] : Value(c)[i] = buf[c][i - 1] /\ Value(d)[i] = buf[d][i - 1]
    BY DEF Value
  <1>3. ASSUME \A i \in 0..(len[c] - 1) : Alike(buf[c][i], buf[d][i]), NEW i \in 1..len[c]
        PROVE  Alike(Value(c)[i], Value(d)[i])
    <2>1. i - 1 \in 0..(len[c] - 1)
      BY <1>1
    <2>. QED
      BY <1>2, <1>3, <2>1
  <1>4. ASSUME \A i \in 1..len[c] : Alike(Value(c)[i], Value(d)[i]), NEW i \in 0..(len[c] - 1)
        PROVE  Alike(buf[c][i], buf[d][i])
    <2>1. i + 1 \in 1..len[c] /\ (i + 1) - 1 = i
      BY <1>1
    <2>2. Value(c)[i + 1] = buf[c][i] /\ Value(d)[i + 1] = buf[d][i]
      BY <1>2, <2>1
    <2>. QED
      BY <1>4, <2>1, <2>2
  <1>. QED
    BY <1>3, <1>4

------------------------------------------------------------------------------
(* InlineVector implements BoundedSequence. *)

\* What is there of the containers for the abstract machine.
Values == [c \in Containers |-> Value(c)]

\* The elements of a container's first n slots.
Elems(b, n) == [i \in 1..n |-> b[i - 1]]

\* What an operation makes of buffer and length is what the abstract one makes of
\* the elements.
LEMMA ValueBecomes ==
  ASSUME TypeOK, NEW c \in Containers, NEW b, NEW n \in 0..N, Becomes(c, b, n)
  PROVE  S!Becomes(c, Elems(b, n))
  <1>1. ASSUME NEW d \in Containers
        PROVE  Value(d)' = IF d = c THEN Elems(b, n) ELSE Value(d)
    BY <1>1 DEF TypeOK, Becomes, Value, Elems
  <1>. QED
    BY <1>1 DEF S!Becomes

\* The first n elements of a list, filled into any slots.
LEMMA ElemsFilled ==
  ASSUME NEW b, NEW list \in Seq(Elements), NEW n \in 0..N, n <= Len(list)
  PROVE  Elems(Filled(b, list, n), n) = SubSeq(list, 1, n)
  <1>1. ASSUME NEW i \in 1..n PROVE Filled(b, list, n)[i - 1] = list[i]
    <2>1. i - 1 \in Slots /\ i - 1 < n /\ (i - 1) + 1 = i
      BY ContainerAssumption DEF Slots
    <2>. QED
      BY <2>1 DEF Filled
  <1>2. SubSeq(list, 1, n) = [i \in 1..n |-> list[i]]
    BY ContainerAssumption
  <1>. QED
    BY <1>1, <1>2 DEF Elems

\* The elements after the length changed: those that stay, and T{}.
LEMMA ElemsResized ==
  ASSUME TypeOK, NEW c \in Containers, NEW n \in 0..N
  PROVE  Elems(Resized(buf[c], len[c], n), n) = [i \in 1..n |-> IF i <= Len(Value(c)) THEN Value(c)[i] ELSE Default]
  <1>1. len[c] \in 0..N /\ Len(Value(c)) = len[c]
    BY ContainerAssumption DEF TypeOK, Value
  <1>2. ASSUME NEW i \in 1..n
        PROVE  Resized(buf[c], len[c], n)[i - 1] = IF i <= len[c] THEN Value(c)[i] ELSE Default
    <2>1. i - 1 \in Slots /\ i - 1 < n
      BY ContainerAssumption DEF Slots
    <2>2. Resized(buf[c], len[c], n)[i - 1] = IF i - 1 >= len[c] THEN Default ELSE buf[c][i - 1]
      BY <1>1, <2>1, ContainerAssumption DEF Resized
    <2>3. i <= len[c] => Value(c)[i] = buf[c][i - 1]
      BY <1>1 DEF Value
    <2>. QED
      BY <1>1, <2>2, <2>3, ContainerAssumption
  <1>. QED
    BY <1>1, <1>2 DEF Elems

\* Min of the abstract module is that of this one.
LEMMA SameMin ==
  ASSUME NEW T
  PROVE  S!Min(T) = Min(T)
  BY DEF S!Min, Min

\* The elements when the slot behind them is written and counted.
LEMMA ElemsAppended ==
  ASSUME TypeOK, NEW c \in Containers, NEW v, len[c] < N
  PROVE  Elems([buf[c] EXCEPT ![len[c]] = v], len[c] + 1) = Append(Value(c), v)
  <1>. DEFINE n == len[c]
              b == [buf[c] EXCEPT ![n] = v]
  <1>1. n \in Nat /\ n \in Slots /\ buf[c] \in [Slots -> Elements] /\ Len(Value(c)) = n
    BY ContainerAssumption DEF TypeOK, Slots, Value
  <1>2. ASSUME NEW i \in 1..(n + 1)
        PROVE  b[i - 1] = IF i = n + 1 THEN v ELSE buf[c][i - 1]
    <2>1. i - 1 \in Slots /\ (i - 1 = n <=> i = n + 1)
      BY <1>1, ContainerAssumption DEF Slots
    <2>. QED
      BY <1>1, <2>1
  <1>3. Append(Value(c), v) = [i \in 1..(n + 1) |-> IF i = n + 1 THEN v ELSE buf[c][i - 1]]
    BY <1>1 DEF Value
  <1>4. Elems(b, n + 1) = [i \in 1..(n + 1) |-> IF i = n + 1 THEN v ELSE buf[c][i - 1]]
    BY <1>2 DEF Elems
  <1>. QED
    BY <1>3, <1>4

\* The elements when a slot is written and the length stays: a slot behind the
\* length is none of them.
LEMMA ElemsWritten ==
  ASSUME TypeOK, NEW c \in Containers, NEW i \in Slots, NEW v
  PROVE  Elems([buf[c] EXCEPT ![i] = v], len[c]) =
           IF i < len[c] THEN [Value(c) EXCEPT ![i + 1] = v] ELSE Value(c)
  <1>. DEFINE n == len[c]
              b == [buf[c] EXCEPT ![i] = v]
  <1>1. n \in 0..N /\ i \in Nat /\ buf[c] \in [Slots -> Elements]
    BY ContainerAssumption DEF TypeOK, Slots
  <1>2. ASSUME NEW k \in 1..n
        PROVE  b[k - 1] = IF k = i + 1 THEN v ELSE buf[c][k - 1]
    <2>1. k - 1 \in Slots /\ (k - 1 = i <=> k = i + 1)
      BY <1>1, ContainerAssumption DEF Slots
    <2>. QED
      BY <1>1, <2>1
  <1>3. Elems(b, n) = [k \in 1..n |-> IF k = i + 1 THEN v ELSE buf[c][k - 1]]
    BY <1>2 DEF Elems
  <1>4. CASE i < n
    <2>1. [Value(c) EXCEPT ![i + 1] = v] = [k \in 1..n |-> IF k = i + 1 THEN v ELSE buf[c][k - 1]]
      BY <1>1, <1>4 DEF Value
    <2>. QED
      BY <1>3, <1>4, <2>1
  <1>5. CASE ~(i < n)
    <2>1. Value(c) = [k \in 1..n |-> IF k = i + 1 THEN v ELSE buf[c][k - 1]]
      BY <1>1, <1>5 DEF Value
    <2>. QED
      BY <1>3, <1>5, <2>1
  <1>. QED
    BY <1>4, <1>5

\* Every call is that same call on the sequence: it does to the elements, and answers,
\* what the sequence does.
LEMMA StepIsAbstract ==
  ASSUME TypeOK, [Next]_vars
  PROVE  [S!Next]_<<Values, op>>
  <1>. SUFFICES S!Next \/ UNCHANGED <<Values, op>>
    OBVIOUS
  <1>. USE ContainerAssumption
  <1>1. \A c \in Containers : /\ buf[c] \in [Slots -> Elements] /\ len[c] \in 0..N
                              /\ Len(Value(c)) = len[c] /\ Value(c) = Elems(buf[c], len[c])
    BY DEF TypeOK, Value, Elems
  <1>2. CASE UNCHANGED vars
    BY <1>2 DEF vars, Values, Value
  <1>3. CASE Return
    <2>1. S!Return
      BY <1>3 DEF Return, S!Return, Value
    <2>. QED
      BY <2>1 DEF S!Next
  <1>4. ASSUME NEW c \in Containers, Clear(c) PROVE S!Next
    <2>1. S!Becomes(c, Elems(buf[c], 0))
      BY <1>1, <1>4, ValueBecomes DEF Clear
    <2>2. Elems(buf[c], 0) = <<>>
      BY DEF Elems
    <2>3. S!Clear(c)
      BY <1>4, <2>1, <2>2 DEF Clear, Calls, S!Clear, S!Calls
    <2>. QED
      BY <2>3 DEF S!Next
  <1>5. ASSUME NEW c \in Containers, EmplaceBack(c) PROVE S!Next
    <2>3. S!Calls(<<"emplace_back", c>>)
      BY <1>5 DEF EmplaceBack, Calls, S!Calls
    <2>1. CASE len[c] < N
      <3>1. S!Becomes(c, Elems([buf[c] EXCEPT ![len[c]] = Default], len[c] + 1))
        <4>1. len[c] + 1 \in 0..N
          BY <1>1, <2>1
        <4>. QED
          BY <1>5, <2>1, <4>1, ValueBecomes DEF EmplaceBack
      <3>2. Elems([buf[c] EXCEPT ![len[c]] = Default], len[c] + 1) = Append(Value(c), Default)
        BY <2>1, ElemsAppended
      <3>3. ~S!Full(Value(c))
        BY <1>1, <2>1 DEF S!Full
      <3>4. S!EmplaceBack(c)
        BY <2>3, <3>1, <3>2, <3>3 DEF S!EmplaceBack
      <3>. QED
        BY <3>4 DEF S!Next
    <2>2. CASE ~(len[c] < N)
      <3>1. len[c] = N /\ N - 1 \in Slots /\ (N - 1) + 1 = N /\ N \in 0..N
        BY <1>1, <2>2 DEF Slots
      <3>2. S!Becomes(c, Elems([buf[c] EXCEPT ![N - 1] = Default], N))
        BY <1>5, <2>2, <3>1, ValueBecomes DEF EmplaceBack
      <3>3. Elems([buf[c] EXCEPT ![N - 1] = Default], N) = [Value(c) EXCEPT ![N] = Default]
        <4>1. Elems([buf[c] EXCEPT ![N - 1] = Default], len[c]) =
                IF N - 1 < len[c] THEN [Value(c) EXCEPT ![(N - 1) + 1] = Default] ELSE Value(c)
          BY <3>1, ElemsWritten
        <4>2. N - 1 < len[c]
          BY <3>1
        <4>. QED
          BY <3>1, <4>1, <4>2
      <3>4. S!Full(Value(c))
        BY <1>1, <3>1 DEF S!Full
      <3>5. S!EmplaceBack(c)
        BY <2>3, <3>2, <3>3, <3>4 DEF S!EmplaceBack
      <3>. QED
        BY <3>5 DEF S!Next
    <2>. QED
      BY <2>1, <2>2
  <1>6. ASSUME NEW c \in Containers, NEW list \in Lists, Assign(c, list) PROVE S!Next
    <2>1. PICK n : n = Min({Len(list), N})
      OBVIOUS
    <2>2. list \in Seq(Elements) /\ n \in 0..N /\ n <= Len(list)
      BY <2>1, MinOfTwo
    <2>3. S!Becomes(c, Elems(Filled(buf[c], list, n), n))
      BY <1>6, <2>1, <2>2, ValueBecomes DEF Assign
    <2>4. Elems(Filled(buf[c], list, n), n) = S!First(list)
      BY <2>1, <2>2, ElemsFilled, SameMin DEF S!First
    <2>5. S!Assign(c, list)
      BY <1>6, <2>3, <2>4 DEF Assign, Calls, S!Assign, S!Calls
    <2>. QED
      BY <2>5 DEF S!Next
  <1>7. ASSUME NEW c \in Containers, NEW d \in Lists, ReadBytes(c, d) PROVE S!Next
    <2>1. PICK n : n = Len(d)
      OBVIOUS
    <2>2. d \in Seq(Elements) /\ n \in 0..N /\ n <= Len(d) /\ Min({Len(d), N}) = n
      BY <1>7, <2>1, MinOfTwo DEF ReadBytes
    <2>3. S!Becomes(c, Elems(Filled(buf[c], d, n), n))
      BY <1>7, <2>1, <2>2, ValueBecomes DEF ReadBytes
    <2>4. Elems(Filled(buf[c], d, n), n) = d
      BY <2>1, <2>2, ElemsFilled
    <2>5. S!ReadBytes(c, d)
      BY <1>7, <2>3, <2>4 DEF ReadBytes, Calls, S!ReadBytes, S!Calls
    <2>. QED
      BY <2>5 DEF S!Next
  <1>8. ASSUME NEW c \in Containers, NEW asked \in 0..(N + 1), Resize(c, asked) PROVE S!Next
    <2>1. PICK n : n = Min({asked, N})
      OBVIOUS
    <2>2. n \in 0..N
      BY <2>1, MinOfTwo
    <2>3. S!Becomes(c, Elems(Resized(buf[c], len[c], n), n))
      BY <1>8, <2>1, <2>2, ValueBecomes DEF Resize
    <2>4. Elems(Resized(buf[c], len[c], n), n) = S!Resized(Value(c), asked)
      BY <2>1, <2>2, ElemsResized, SameMin DEF S!Resized
    <2>5. S!Resize(c, asked)
      BY <1>8, <2>3, <2>4 DEF Resize, Calls, S!Resize, S!Calls
    <2>. QED
      BY <2>5 DEF S!Next
  <1>9. ASSUME NEW c \in Containers, NEW v \in Elements, PushBack(c, v) PROVE S!Next
    <2>3. S!Calls(<<"push_back", c, v>>)
      BY <1>9 DEF PushBack, Calls, S!Calls
    <2>1. CASE len[c] < N
      <3>1. S!Becomes(c, Elems([buf[c] EXCEPT ![len[c]] = v], len[c] + 1))
        <4>1. len[c] + 1 \in 0..N
          BY <1>1, <2>1
        <4>. QED
          BY <1>9, <2>1, <4>1, ValueBecomes DEF PushBack
      <3>2. Elems([buf[c] EXCEPT ![len[c]] = v], len[c] + 1) = Append(Value(c), v)
        BY <2>1, ElemsAppended
      <3>3. ~S!Full(Value(c))
        BY <1>1, <2>1 DEF S!Full
      <3>4. S!PushBack(c, v)
        BY <2>3, <3>1, <3>2, <3>3 DEF S!PushBack
      <3>. QED
        BY <3>4 DEF S!Next
    <2>2. CASE ~(len[c] < N)
      <3>1. S!Full(Value(c))
        BY <1>1, <2>2 DEF S!Full
      <3>2. S!Becomes(c, Value(c))
        BY <1>9, <2>2 DEF PushBack, S!Becomes, Value
      <3>3. S!PushBack(c, v)
        BY <2>3, <3>1, <3>2 DEF S!PushBack
      <3>. QED
        BY <3>3 DEF S!Next
    <2>. QED
      BY <2>1, <2>2
  <1>10. ASSUME NEW c \in Containers, NEW v \in Elements, NEW i \in Slots, Write(c, i, v)
         PROVE  S!Next
    <2>1. S!Becomes(c, Elems([buf[c] EXCEPT ![i] = v], len[c]))
      BY <1>1, <1>10, ValueBecomes DEF Write
    <2>2. Elems([buf[c] EXCEPT ![i] = v], len[c]) =
            IF i < Len(Value(c)) THEN [Value(c) EXCEPT ![i + 1] = v] ELSE Value(c)
      BY <1>1, ElemsWritten
    <2>3. S!Write(c, i, v)
      BY <1>10, <2>1, <2>2 DEF Write, Calls, S!Write, S!Calls
    <2>. QED
      BY <2>3 DEF S!Next, Slots
  <1>11. ASSUME NEW c \in Containers, NEW d \in Containers \ {c}, Copy(c, d) PROVE S!Next
    <2>1. S!Becomes(c, Value(d))
      BY <1>1, <1>11, ValueBecomes DEF Copy
    <2>2. S!Copy(c, d)
      BY <1>11, <2>1 DEF Copy, Calls, S!Copy, S!Calls
    <2>. QED
      BY <2>2 DEF S!Next
  <1>12. ASSUME NEW c \in Containers, NEW d \in Containers, Equals(c, d) PROVE S!Next
    <2>1. Equal(c, d) = S!SameElements(Value(c), Value(d))
      BY EqualIs DEF Equal, S!SameElements
    <2>2. UNCHANGED Values
      BY <1>12 DEF Equals, Values, Value
    <2>3. S!Equals(c, d)
      BY <1>12, <2>1, <2>2 DEF Equals, Calls, S!Equals, S!Calls, Values
    <2>. QED
      BY <2>3 DEF S!Next
  <1>13. ASSUME NEW c \in Containers, NEW d \in Containers, BitsEqual(c, d) PROVE S!Next
    <2>1. bitsEqual(Span(c), Span(d)) = (Value(c) = Value(d))
      BY SameContainers DEF bitsEqual
    <2>2. UNCHANGED Values
      BY <1>13 DEF BitsEqual, Values, Value
    <2>3. S!BitsEqual(c, d)
      BY <1>13, <2>1, <2>2 DEF BitsEqual, Calls, S!BitsEqual, S!Calls, Values
    <2>. QED
      BY <2>3 DEF S!Next
  <1>14. ASSUME NEW c \in Containers, NEW d \in Containers \ {c}, Transmit(c, d) PROVE S!Next
    <2>1. Present(c) = (Value(c) # Declared)
      BY PresentIs DEF Present
    <2>2. S!Becomes(d, Value(c))
      <3>1. CASE Present(c)
        <4>. DEFINE b == Resized(Fresh, Len(Declared), len[c])
        <4>1. Value(c) \in Seq(Elements) /\ len[c] \in 0..N /\ Len(Value(c)) = len[c]
          BY ValueType
        <4>2. S!Becomes(d, Elems(Filled(b, Value(c), len[c]), len[c]))
          BY <1>14, <3>1, <4>1, ValueBecomes DEF Transmit
        <4>. HIDE DEF b
        <4>3. Elems(Filled(b, Value(c), len[c]), len[c]) = SubSeq(Value(c), 1, len[c])
          BY <4>1, ElemsFilled
        <4>4. SubSeq(Value(c), 1, len[c]) = Value(c)
          BY <4>1
        <4>. QED
          BY <4>2, <4>3, <4>4
      <3>2. CASE ~Present(c)
        <4>1. S!Becomes(d, Elems(Fresh, Len(Declared)))
          BY <1>14, <3>2, FreshType, ValueBecomes DEF Transmit
        <4>2. Elems(Fresh, Len(Declared)) = SubSeq(Declared, 1, Len(Declared))
          BY FreshType, ElemsFilled DEF Fresh
        <4>3. SubSeq(Declared, 1, Len(Declared)) = Declared
          OBVIOUS
        <4>. QED
          BY <2>1, <3>2, <4>1, <4>2, <4>3
      <3>. QED
        BY <3>1, <3>2
    <2>3. S!Transmit(c, d)
      BY <1>14, <2>1, <2>2 DEF Transmit, Calls, S!Transmit, S!Calls
    <2>. QED
      BY <2>3 DEF S!Next
  <1>. QED
    BY <1>2, <1>3, <1>4, <1>5, <1>6, <1>7, <1>8, <1>9, <1>10, <1>11, <1>12, <1>13, <1>14 DEF Next

\* Whatever is called, and in whatever order, a container does and answers what a
\* sequence of at most N elements does: the elements a shorter value no longer covers do
\* not come back, a full container keeps what it was given, no comparison sees a slot
\* behind the length, and a field left out of a message is received to the bit.
THEOREM SequenceImplemented == Spec => ImplementsSequence
  <1>1. Init => S!Init
    BY DEF Init, S!Init, Value
  <1>2. TypeOK /\ [Next]_vars => [S!Next]_<<Values, op>>
    BY StepIsAbstract
  <1>. QED
    BY <1>1, <1>2, TypeCorrect, PTL DEF Spec, ImplementsSequence, S!Spec, S!vars, Values
=============================================================================
