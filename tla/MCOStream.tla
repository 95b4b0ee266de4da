------------------------------ MODULE MCOStream ------------------------------
(* A small instance of the encoder: a scalar of two bytes, a blob whose header *)
(* and payload are pushed by two calls of pushBytes, sequence headers of two   *)
(* bytes, and buffers from one byte to five, some of them refused.             *)
EXTENDS OStream

CONSTANTS scalar, blob, seq      \* model values: two fields and the id of a sequence

MCFields == {scalar, blob}

\* The bytes of a field written by pushBytes calls of the given lengths.
Pieces(f, lengths) ==
    LET total == IF Len(lengths) = 1 THEN lengths[1] ELSE lengths[1] + lengths[2]
    IN [i \in 1..total |-> [kind |-> "field", of |-> f, n |-> i,
                            last |-> i \in {lengths[1], total}]]

MCWire == [f \in MCFields |->
             IF f = scalar THEN Pieces(f, <<2>>) ELSE Pieces(f, <<2, 1>>)]
MCIds == {seq}
MCInstalls == {<<1, 0>>, <<3, 1>>, <<5, 0>>, <<2, 2>>, <<0, 1>>, <<0, 0>>}
MCInstallsSmall == {<<3, 0>>, <<5, 1>>}
==============================================================================
