-------------------------- MODULE BoundedSequence --------------------------
(* What the containers of sofab.hpp that a program keeps without a heap        *)
(* promise (977-1003, 1127-1157): a sequence of at most N elements, and what   *)
(* each operation makes of it and answers.                                     *)
(* InlineVector.tla implements it, and assumes of the constants what it needs. *)
EXTENDS Integers, SequencesExt

CONSTANTS
    Containers,     \* their names
    Elements,       \* the values of an element
    Default,        \* T{}
    Alike(_, _),    \* == of the elements
    N,              \* the capacity
    Lists,          \* what a program assigns, or a decode reads, at once
    Declared        \* the default the schema declares

VARIABLES
    seq,            \* the elements of each container
    op              \* what has been called, with its arguments and its answer;
                    \* <<>> between two calls

vars == <<seq, op>>

Full(s) == Len(s) = N
First(s) == SubSeq(s, 1, Min({Len(s), N}))
Resized(s, n) == [i \in 1..Min({n, N}) |-> IF i <= Len(s) THEN s[i] ELSE Default]
SameElements(s, t) == Len(s) = Len(t) /\ \A i \in DOMAIN s : Alike(s[i], t[i])

Calls(o) == op = <<>> /\ op' = o
Becomes(c, s) == seq' = [seq EXCEPT ![c] = s]

Init == seq = [c \in Containers |-> <<>>] /\ op = <<>>

Clear(c) == Calls(<<"clear", c>>) /\ Becomes(c, <<>>)

\* What does not fit is dropped.
Assign(c, list) == Calls(<<"assign", c, list>>) /\ Becomes(c, First(list))
PushBack(c, v) ==
    /\ Calls(<<"push_back", c, v>>)
    /\ Becomes(c, IF Full(seq[c]) THEN seq[c] ELSE Append(seq[c], v))

\* A payload that fits replaces what was there.
ReadBytes(c, d) == Len(d) <= N /\ Calls(<<"readBlob", c, d>>) /\ Becomes(c, d)

\* A shorter sequence keeps its first elements, a longer one is filled with T{}.
Resize(c, n) == Calls(<<"resize", c, n>>) /\ Becomes(c, Resized(seq[c], n))

\* A new last element, or when there is no room the last one anew.
EmplaceBack(c) ==
    /\ Calls(<<"emplace_back", c>>)
    /\ Becomes(c, IF Full(seq[c]) THEN [seq[c] EXCEPT ![N] = Default] ELSE Append(seq[c], Default))

\* An element, counted from 0, is written; where there is none, nothing is.
Write(c, i, v) ==
    /\ Calls(<<"write", c, i, v>>)
    /\ Becomes(c, IF i < Len(seq[c]) THEN [seq[c] EXCEPT ![i + 1] = v] ELSE seq[c])

Copy(c, d) == Calls(<<"copy", c, d>>) /\ Becomes(c, seq[d])

\* The two comparisons, by the == of the elements and by what they are.
Equals(c, d) == Calls(<<"==", c, d, SameElements(seq[c], seq[d])>>) /\ UNCHANGED seq
BitsEqual(c, d) == Calls(<<"bitsEqual", c, d, seq[c] = seq[d]>>) /\ UNCHANGED seq

\* The field c of a message arrives as it was sent, and is in the message when it is
\* not the default.
Transmit(c, d) ==
    Calls(<<"transmit", c, d, seq[c] # Declared>>) /\ Becomes(d, seq[c])

Return == op # <<>> /\ op' = <<>> /\ UNCHANGED seq

Next ==
    \/ Return
    \/ \E c \in Containers :
        \/ Clear(c) \/ EmplaceBack(c)
        \/ \E list \in Lists : Assign(c, list) \/ ReadBytes(c, list)
        \/ \E n \in 0..(N + 1) : Resize(c, n)
        \/ \E v \in Elements : PushBack(c, v) \/ \E i \in 0..(N - 1) : Write(c, i, v)
        \/ \E d \in Containers : Equals(c, d) \/ BitsEqual(c, d)
        \/ \E d \in Containers \ {c} : Copy(c, d) \/ Transmit(c, d)

Spec == Init /\ [][Next]_vars
=============================================================================
