----------------------------- MODULE MCVarint -----------------------------
(* A small instance of Varint: numbers on both sides of every length a varint *)
(* can have, sparse and dense ones, in a first buffer that just has a window   *)
(* for ten bytes or just has not.                                              *)
EXTENDS Varint

Widths == {1, 7, 8, 14, 15, 21, 28, 29, 35, 42, 49, 50, 56, 57, 63, 64}
MCValues ==
    {{}} \cup {0..(w - 1) : w \in Widths} \cup {{w - 1} : w \in Widths \ {1}}
         \cup {{b \in Bits : b % 3 = 0}}
MCFixed == {{}, {0, 63}, {b \in Bits : b % 3 = 0}}
MCOthers == {{7}, 0..63}

\* So many bytes without payload, or with all of it, before these.
Long(n, byte, last) == [i \in 1..n |-> byte] \o <<last>>
MCStrange ==
    {Long(n, {7}, {}) : n \in {1, 6, 7, 8, 9, 10}}
        \cup {Long(9, 0..7, last) : last \in {{1}, {6}, {0, 7}}}
        \cup {Long(7, 0..7, {}), Long(8, 0..7, {6})}
=============================================================================
