----------------------------- MODULE MessageWire -----------------------------
(* The bytes of an encoded message, as far as the encoder tells them apart:    *)
(* fields, sequence headers and sequence ends (sofab.hpp:1541-1764).  The      *)
(* value of a byte is left out; what it belongs to, its place there and        *)
(* whether it is the last one of a single pushBytes call are kept.             *)
EXTENDS Naturals, Sequences

CONSTANTS
    Fields,         \* the field writes an application asks for
    Wire,           \* Fields -> the bytes of that field, as its writer lays them down
    Ids,            \* ids it opens sequences with
    HeaderSize,     \* bytes of a sequence header, the same for every id of Ids
    MAX_DEPTH       \* deepest legal nesting of sequences

Byte == [kind : {"field", "start", "end"}, of : Fields \cup Ids \cup {0},
         n : Nat, last : BOOLEAN]

\* A header is the varint of a 34-bit word at most: one to five bytes.
ASSUME SizeAssumption == HeaderSize \in 1..5 /\ MAX_DEPTH \in Nat \ {0}

\* A field has at least one byte, its last byte ends a pushBytes call, and no byte of it
\* opens or closes a sequence.
ASSUME WireAssumption ==
    /\ Wire \in [Fields -> Seq(Byte)]
    /\ \A f \in Fields : Wire[f] # <<>> /\ Wire[f][Len(Wire[f])].last
    /\ \A f \in Fields : \A i \in 1..Len(Wire[f]) : Wire[f][i].kind = "field"

\* The headers of a run of sequences, outermost first, HeaderSize bytes each.
Headers(run) ==
    [i \in 1..(Len(run) * HeaderSize) |->
        [kind |-> "start", of |-> run[1 + ((i - 1) \div HeaderSize)],
         n |-> 1 + ((i - 1) % HeaderSize), last |-> i % HeaderSize = 0]]

\* The sequence-end marker: one byte, id 0, wire type 7.
EndMarker == << [kind |-> "end", of |-> 0, n |-> 1, last |-> TRUE] >>

\* The codes an encode ends with (enum class Error).
Errors == {"None", "BufferFull", "InvalidArgument"}
==============================================================================
