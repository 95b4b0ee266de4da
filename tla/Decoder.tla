------------------------------ MODULE Decoder ------------------------------
(* What a decoder of sofab.hpp promises, with no chunk in sight: after each    *)
(* feed() its verdict and the values it has delivered are those of the bytes   *)
(* seen so far, however they were cut (README.md, section "Streaming", and the *)
(* comments at sofab.hpp:3170-3180, 4280-4330).  IStream.tla implements it.    *)
EXTENDS Naturals, Sequences

CONSTANTS
    Messages,               \* the messages a stream can be fed with
    Bytes(_),               \* how many bytes a message has
    Answer(_, _),           \* verdict on the first n bytes in one piece, faulty field
    Values(_, _, _)         \* what the fields 1..last then have delivered

VARIABLES
    msg,        \* the message being fed
    seen,       \* how many of its bytes were fed
    verdict,    \* the last Result
    values      \* the payload bytes delivered, in order

vars == <<msg, seen, verdict, values>>

Begins(s, t) == Len(s) <= Len(t) /\ s = SubSeq(t, 1, Len(s))

Init ==
    /\ msg \in Messages
    /\ seen = 0 /\ verdict = "None" /\ values = <<>>

\* A field that is refused may have delivered the first part of its payload.
Feed(n) ==
    /\ verdict \in {"None", "Incomplete"}
    /\ seen + n <= Bytes(msg)
    /\ seen' = seen + n
    /\ LET a == Answer(msg, seen') IN
        /\ verdict' = a.verdict
        /\ IF a.faulty = 0 THEN values' = Values(msg, seen', Len(msg.fields))
           ELSE /\ Begins(Values(msg, seen', a.faulty - 1), values')
                /\ Begins(values', Values(msg, seen', a.faulty))
    /\ UNCHANGED msg

Reset ==
    /\ seen' = 0 /\ verdict' = "None" /\ values' = <<>>
    /\ UNCHANGED msg

Next == Reset \/ \E n \in 1..Bytes(msg) : Feed(n)

Spec == Init /\ [][Next]_vars
==============================================================================
