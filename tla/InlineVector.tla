---------------------------- MODULE InlineVector ----------------------------
(* The containers without a heap of sofab.hpp: InlineVector (1158-1329) and    *)
(* FixedBytes (1004-1125).  Both are a buffer of N slots and a length; what    *)
(* the slots behind the length hold is left over from earlier values, and must *)
(* never be seen again.  Slots count from 0, as in the code.                   *)
EXTENDS Integers, SequencesExt

CONSTANTS
    Containers,     \* their names
    Elements,       \* the values of an element
    Default,        \* T{}
    Alike(_, _),    \* == of the elements, which for floats is not that of their bits
    N,              \* the capacity
    Lists,          \* what a program assigns, or a decode reads, at once
    Declared        \* the default the schema declares of a field

\* emplace_back needs a slot: InlineVector<T, 0> would write in front of its buffer.
ASSUME ContainerAssumption ==
    /\ N \in Nat \ {0} /\ Default \in Elements /\ Lists \subseteq Seq(Elements)
    /\ Declared \in Seq(Elements) /\ Len(Declared) <= N

VARIABLES
    class,          \* "InlineVector" or "FixedBytes", whose elements are bytes: its
                    \* own operations are told apart, not what its elements are
    buf,            \* container -> buf_
    len,            \* container -> len_
    op              \* what has been called, with its arguments and its answer, as in
                    \* BoundedSequence; <<>> between two calls

vars == <<class, buf, len, op>>

Slots == 0..(N - 1)
Value(c) == [i \in 1..len[c] |-> buf[c][i - 1]]

S == INSTANCE BoundedSequence WITH seq <- [c \in Containers |-> Value(c)]

------------------------------------------------------------------------------
Init ==
    /\ class \in {"InlineVector", "FixedBytes"}
    /\ buf = [c \in Containers |-> [i \in Slots |-> Default]]
    /\ len = [c \in Containers |-> 0]
    /\ op = <<>>

Calls(o) == op = <<>> /\ op' = o /\ UNCHANGED class
Becomes(c, b, n) == buf' = [buf EXCEPT ![c] = b] /\ len' = [len EXCEPT ![c] = n]

\* The caller takes the answer.
Return == op # <<>> /\ op' = <<>> /\ UNCHANGED <<class, buf, len>>

Filled(b, list, n) == [i \in Slots |-> IF i < n THEN list[i + 1] ELSE b[i]]

Assign(c, list) ==
    LET n == Min({Len(list), N})
    IN Calls(<<"assign", c, list>>) /\ Becomes(c, Filled(buf[c], list, n), n)

\* Only the slots that leave are put back to T{}.
ResizedLeaving(b, old, n) == [i \in Slots |-> IF i \in n..(old - 1) THEN Default ELSE b[i]]

\* The slots that leave and the slots that enter are T{}.
Resized(b, old, n) ==
    [i \in Slots |-> IF i \in n..(old - 1) \cup old..(n - 1) THEN Default ELSE b[i]]

Resize(c, asked) ==
    LET n == Min({asked, N})
    IN /\ class = "InlineVector" /\ Calls(<<"resize", c, asked>>)
       /\ Becomes(c, Resized(buf[c], len[c], n), n)

\* clear() of either, which leaves the slots as they are.
Clear(c) == Calls(<<"clear", c>>) /\ Becomes(c, buf[c], 0)

\* A slot that enters is bound as it is.
EmplaceBackBound(c) ==
    LET i == IF len[c] < N THEN len[c] ELSE N - 1
    IN /\ class = "InlineVector" /\ Calls(<<"emplace_back", c>>)
       /\ Becomes(c, buf[c], i + 1)

EmplaceBack(c) ==
    LET i == IF len[c] < N THEN len[c] ELSE N - 1
    IN /\ class = "InlineVector" /\ Calls(<<"emplace_back", c>>)
       /\ Becomes(c, [buf[c] EXCEPT ![i] = Default], i + 1)

\* The length grows past the capacity.
PushBackAnyway(c, v) ==
    /\ Calls(<<"push_back", c, v>>)
    /\ Becomes(c, [buf[c] EXCEPT ![Min({len[c], N - 1})] = v], len[c] + 1)

\* The last slot is reused, as emplace_back does.
PushBackLast(c, v) ==
    LET i == Min({len[c], N - 1})
    IN Calls(<<"push_back", c, v>>) /\ Becomes(c, [buf[c] EXCEPT ![i] = v], i + 1)

PushBack(c, v) ==
    /\ Calls(<<"push_back", c, v>>)
    /\ IF len[c] < N THEN Becomes(c, [buf[c] EXCEPT ![len[c]] = v], len[c] + 1)
       ELSE UNCHANGED <<buf, len>>

\* operator[], begin() and data(): any slot, also one behind the length.
Write(c, i, v) == Calls(<<"write", c, i, v>>) /\ Becomes(c, [buf[c] EXCEPT ![i] = v], len[c])

\* set_len, once the bytes of a payload that fits are copied (3574-3583).
ReadBytes(c, d) ==
    /\ class = "FixedBytes" /\ Len(d) <= N
    /\ Calls(<<"readBlob", c, d>>)
    /\ Becomes(c, Filled(buf[c], d, Len(d)), Min({Len(d), N}))

\* The copy the compiler writes takes buffer and length.
Copy(c, d) == Calls(<<"copy", c, d>>) /\ Becomes(c, buf[d], len[d])

------------------------------------------------------------------------------
\* A comparison of the whole buffers.
SameBuffer(c, d) == len[c] = len[d] /\ \A i \in Slots : Alike(buf[c][i], buf[d][i])

\* operator==
Equal(c, d) == len[c] = len[d] /\ \A i \in 0..(len[c] - 1) : Alike(buf[c][i], buf[d][i])

Equals(c, d) == Calls(<<"==", c, d, Equal(c, d)>>) /\ UNCHANGED <<buf, len>>

\* Contiguous elements, of a container or of a braced list.
Span(c) == [data |-> buf[c], size |-> len[c]]
Braced(list) == [data |-> [i \in 0..(Len(list) - 1) |-> list[i + 1]], size |-> Len(list)]

\* By the == of the elements.
ieeeEqual(a, b) == a.size = b.size /\ \A i \in 0..(a.size - 1) : Alike(a.data[i], b.data[i])

\* One comparison of the memory.
bitsEqual(a, b) == a.size = b.size /\ \A i \in 0..(a.size - 1) : a.data[i] = b.data[i]

BitsEqual(c, d) ==
    /\ class = "InlineVector" /\ Calls(<<"bitsEqual", c, d, bitsEqual(Span(c), Span(d))>>)
    /\ UNCHANGED <<buf, len>>

\* A generated encoder leaves a field out that is its declared default.
Present(c) == ~bitsEqual(Span(c), Braced(Declared))

\* A field of a new message object, which its initializer gives the declared default.
Fresh == Filled([i \in Slots |-> Default], Declared, Len(Declared))

\* The field c of a message is received as d: readArray sets the length and then fills
\* the elements, if it is called at all.
Transmit(c, d) ==
    /\ class = "InlineVector" /\ Calls(<<"transmit", c, d, Present(c)>>)
    /\ IF Present(c)
       THEN Becomes(d, Filled(Resized(Fresh, Len(Declared), len[c]), Value(c), len[c]), len[c])
       ELSE Becomes(d, Fresh, Len(Declared))

Next ==
    \/ Return
    \/ \E c \in Containers :
        \/ Clear(c) \/ EmplaceBack(c)
        \/ \E list \in Lists : Assign(c, list) \/ ReadBytes(c, list)
        \/ \E n \in 0..(N + 1) : Resize(c, n)
        \/ \E v \in Elements : PushBack(c, v) \/ \E i \in Slots : Write(c, i, v)
        \/ \E d \in Containers : Equals(c, d) \/ BitsEqual(c, d)
        \/ \E d \in Containers \ {c} : Copy(c, d) \/ Transmit(c, d)

Spec == Init /\ [][Next]_vars

------------------------------------------------------------------------------
(* Properties. *)

\* Every variable but op, which is only recorded, has its type, and no length outgrows
\* its buffer.
TypeOK ==
    /\ class \in {"InlineVector", "FixedBytes"}
    /\ buf \in [Containers -> [Slots -> Elements]] /\ len \in [Containers -> 0..N]

\* Every call does to the elements, and answers, what that same call does on a sequence
\* of at most N: "the elements a shorter value no longer covers cannot be observed
\* through a later grow" (sofab.hpp:1234-1236); push_back keeps the elements of a full
\* container and emplace_back binds the last one anew (1260-1281); a comparison sees
\* nothing behind the length (1107-1121, 1311-1325); and an array of floats that is left
\* out of a message because it is the declared default is received to the bit, -0.0 and
\* NaN included (README.md:431-436, bits_equal.hpp:5-14).
ImplementsSequence == S!Spec
=============================================================================
