------------------------------ MODULE Varint ------------------------------
(* The numbers of the wire: base-128 varints, zig-zag and little-endian words *)
(* (sofab.hpp:298-433), as the encoder writes them (1535-1598) and the decoder *)
(* reads and skips them from bytes that are still arriving (3238-3424).        *)
(* A word is the set of its bits, bit 0 the lowest, and so is a byte; bytes    *)
(* are counted from 0, over all the buffers the encoder has filled.            *)
EXTENDS Integers, SequencesExt

CONSTANTS
    CAP,            \* bytes of every output buffer but the first
    FirstRooms,     \* bytes that may be left in the first
    Values, Fixed,  \* what is written first, as a varint and as eight bytes
    Strange,        \* varints of another writer's
    Others,         \* what may be written behind it
    MaxPieces       \* pieces of a message

Bits == 0..63
Word == SUBSET Bits
Byte == SUBSET (0..7)
VARINT_MAX_BYTES == 10

ASSUME VarintAssumption ==
    /\ CAP \in Nat /\ CAP >= VARINT_MAX_BYTES /\ FirstRooms \subseteq 1..CAP
    /\ Values \cup Fixed \cup Others \subseteq Word
    /\ \A s \in Strange : s \in Seq(Byte) /\ Len(s) \in 1..CAP
    /\ MaxPieces \in Nat

VARIABLES
    host,           \* std::endian::native
    out, cursor,    \* the bytes that were stored, and those that count
    limit,          \* where the buffer in hand ends
    pieces,         \* what was written, and where
    p, end,         \* the decoder's cursor, and the end of what arrived
    answer          \* of its last read or skip

vars == <<host, out, cursor, limit, pieces, p, end, answer>>

------------------------------------------------------------------------------
(* Words. *)

Shl(w, k) == {b + k : b \in w} \cap Bits
Shr(w, k) == {b - k : b \in w} \cap Bits
\* A bit is carried through the places where one of the two has a bit.
Carried(v, w) == {i \in Bits : \E j \in v \cap w : j < i /\ (j + 1)..(i - 1) \subseteq v \cup w}
Add(v, w) == SymDiff(SymDiff(v, w), Carried(v, w))

\* In masks, so many bits from each of these on.
From(starts, n) == UNION {s..(s + n - 1) : s \in starts}

spread7(v) ==
    LET w28 == (v \cap 0..27) \cup Shl(v \cap 28..55, 4)
        m14 == w28 \cap From({14, 46}, 14)
        w14 == Add(w28, Add(m14, Shl(m14, 1)))
    IN Add(w14, w14 \cap From({7, 23, 39, 55}, 7))

gather7(w) ==
    LET w14 == (w \cap From({0, 16, 32, 48}, 7)) \cup Shr(w \cap From({8, 24, 40, 56}, 7), 1)
        w28 == (w14 \cap From({0, 32}, 14)) \cup Shr(w14 \cap From({16, 48}, 14), 2)
    IN (w28 \cap From({0}, 28)) \cup Shr(w28 \cap From({32}, 28), 4)

\* The object representation of a word, its bytes in memory order.
Memory(w) == [i \in 1..8 |-> Shr(w, 8 * (IF host = "little" THEN i - 1 ELSE 8 - i)) \cap 0..7]
Object(bytes) ==
    UNION {Shl(bytes[i], 8 * (IF host = "little" THEN i - 1 ELSE 8 - i)) : i \in 1..8}
Reversed(w) == {56 - 8 * (b \div 8) + (b % 8) : b \in w}
Native(w) == IF host = "big" THEN Reversed(w) ELSE w

storeLittle64(w) == Memory(Native(w))
loadLittle64(bytes) == Native(Object(bytes))

storeLittleBits(w) ==
    IF host = "little" THEN Memory(w) ELSE [i \in 1..8 |-> Shr(w, 8 * (i - 1)) \cap 0..7]
loadLittleBits(bytes) ==
    IF host = "little" THEN Object(bytes) ELSE UNION {Shl(bytes[i], 8 * (i - 1)) : i \in 1..8}

\* The sign shifted in as a zero bit.
zigzagLogical(v) == SymDiff(Shl(v, 1), Shr(v, 63))
zigzagEncode(v) == SymDiff(Shl(v, 1), IF 63 \in v THEN Bits ELSE {})
zigzagDecode(u) == SymDiff(Shr(u, 1), Add(Bits \ (u \cap {0}), {0}))

------------------------------------------------------------------------------
(* The encoder. *)

encodeVarint[v \in Word] ==
    IF v \cap 7..63 = {} THEN <<v>> ELSE <<(v \cap 0..7) \cup {7}>> \o encodeVarint[Shr(v, 7)]

\* One byte more than a width of seven bits needs.
LengthRoundedUp(v) == (Max(v) + 1 + 7) \div 7
VarintLength(v) == ((Max(v) + 1) * 9 + 64) \div 64

\* All ten bytes are stored, and the first n count.
encodeVarintPadded(v) ==
    IF v \cap 7..63 = {} THEN [bytes |-> <<v>>, n |-> 1]
    ELSE LET n == VarintLength(v)
             all == storeLittle64(spread7(v) \cup From({8 * i + 7 : i \in 0..7}, 1))
                        \o <<(Shr(v, 56) \cap 0..6) \cup {7}, Shr(v, 63)>>
         IN [bytes |-> [all EXCEPT ![n] = @ \cap 0..6], n |-> n]

StoredAt(bytes) ==
    LET over == cursor..(cursor + Len(bytes) - 1)
    IN [i \in DOMAIN out \cup over |-> IF i \in over THEN bytes[i - cursor + 1] ELSE out[i]]

\* The bytes of one number stored, the first n of them part of the message.
Stored(bytes, n) == out' = StoredAt(bytes) /\ cursor' = cursor + n

\* Room for the bytes that count.
RoomForLength(v) == limit - cursor >= Len(encodeVarint[v])
FullWindow(v) == limit - cursor >= VARINT_MAX_BYTES

\* pushBytes: a full buffer is flushed and the next one begun.
PushBytes(bytes) ==
    /\ Stored(bytes, Len(bytes))
    /\ limit' = IF cursor' > limit THEN limit + CAP ELSE limit

PutVarint(v) ==
    IF FullWindow(v) THEN LET e == encodeVarintPadded(v) IN Stored(e.bytes, e.n) /\ limit' = limit
    ELSE PushBytes(encodeVarint[v])

Init ==
    /\ host \in {"little", "big"} /\ limit \in FirstRooms
    /\ out = << >> /\ cursor = 0 /\ pieces = <<>> /\ p = 0 /\ end = 0
    /\ answer = [of |-> "nothing"]

Put(kind, v) ==
    /\ end = 0 /\ Len(pieces) < MaxPieces
    /\ \/ kind = "unsigned" /\ PutVarint(v)
       \/ kind = "signed" /\ PutVarint(zigzagEncode(v))
       \/ kind = "fixed" /\ PushBytes(storeLittleBits(v))
    /\ pieces' = Append(pieces, [at |-> cursor, kind |-> kind, value |-> v])
    /\ UNCHANGED <<host, p, end, answer>>

\* A varint that no encoder of this library writes.
Inject(bytes) ==
    /\ end = 0
    /\ PushBytes(bytes)
    /\ pieces' = Append(pieces, [at |-> cursor, kind |-> "strange"])
    /\ UNCHANGED <<host, p, end, answer>>

------------------------------------------------------------------------------
(* The decoder. *)

Left == end - p
At(i) == out[p + i]
Window == [i \in 1..8 |-> At(i - 1)]
Finished(n, v) == [verdict |-> "value", next |-> p + n, value |-> v]
Overflow == [verdict |-> "overflow", next |-> p + 10]
Truncated == [verdict |-> "incomplete", next |-> p]

\* Only a continuation is refused.
Eleventh(b9) == 7 \in b9
TooWide(b9) == b9 \cap 1..7 # {}

getVarintWindowed ==
    LET w == loadLittle64(Window)
        term == (Bits \ w) \cap From({8 * i + 7 : i \in 0..7}, 1)
        len == (Min(term) \div 8) + 1
    IN IF 7 \notin w THEN Finished(1, w \cap 0..7)
       ELSE IF term # {} THEN Finished(len, gather7(w \cap 0..(8 * len - 1)))
       ELSE LET v8 == gather7(w) \cup Shl(At(8) \cap 0..6, 56) IN
            IF 7 \notin At(8) THEN Finished(9, v8)
            ELSE IF TooWide(At(9)) THEN Overflow
            ELSE Finished(10, v8 \cup Shl(At(9), 63))

skipVarintWindowed ==
    LET term == (Bits \ loadLittle64(Window)) \cap From({8 * i + 7 : i \in 0..7}, 1)
    IN IF term # {} THEN Finished((Min(term) \div 8) + 1, {})
       ELSE IF 7 \notin At(8) THEN Finished(9, {})
       ELSE IF TooWide(At(9)) THEN Overflow ELSE Finished(10, {})

\* Fewer than ten bytes are left, and they are taken one by one.
Terminators == {i \in 0..(Left - 1) : 7 \notin At(i)}
GetTail ==
    IF Terminators = {} THEN Truncated
    ELSE LET last == Min(Terminators)
         IN Finished(last + 1, UNION {Shl(At(i) \cap 0..6, 7 * i) : i \in 0..last})

OneByte == Left > 0 /\ 7 \notin At(0)
Wide == Left >= VARINT_MAX_BYTES

getVarint == IF OneByte THEN Finished(1, At(0)) ELSE IF Wide THEN getVarintWindowed ELSE GetTail
skipVarint ==
    IF OneByte THEN Finished(1, {})
    ELSE IF Wide THEN skipVarintWindowed
    ELSE IF Terminators = {} THEN Truncated ELSE Finished(Min(Terminators) + 1, {})

readFixed == IF Left < 8 THEN Truncated ELSE Finished(8, loadLittleBits(Window))

\* Bytes arrive, and an incomplete number waits for them: chunks of any size are so many steps.
Arrive ==
    /\ end < cursor
    /\ end' = end + 1
    /\ UNCHANGED <<host, out, cursor, limit, pieces, p, answer>>

\* The piece the decoder stands before, if a refusal has not ended the decode.
Standing == {i \in DOMAIN pieces : pieces[i].at = p /\ p < end}

Moves(what, a) ==
    /\ answer' = [of |-> what, from |-> p, seen |-> Left, is |-> a]
    /\ p' = a.next
    /\ UNCHANGED <<host, out, cursor, limit, pieces, end>>

readSigned ==
    IF getVarint.verdict # "value" THEN getVarint
    ELSE [getVarint EXCEPT !.value = zigzagDecode(@)]

Read(piece) ==
    Moves("read", IF piece.kind = "fixed" THEN readFixed
                  ELSE IF piece.kind = "signed" THEN readSigned ELSE getVarint)

Skip(piece) == piece.kind # "fixed" /\ Moves("skip", skipVarint)

Next ==
    \/ pieces = <<>> /\ (\/ \E kind \in {"unsigned", "signed"}, v \in Values : Put(kind, v)
                         \/ \E v \in Fixed : Put("fixed", v)
                         \/ \E bytes \in Strange : Inject(bytes))
    \/ pieces # <<>> /\ \E v \in Others : Put("unsigned", v)
    \/ Arrive
    \/ \E i \in Standing : Read(pieces[i]) \/ Skip(pieces[i])

Spec == Init /\ [][Next]_vars

------------------------------------------------------------------------------
(* What a varint is: groups of seven bits, the lowest first, every one but the *)
(* last marked; at most ten bytes and 64 bits, and not always the fewest.      *)

GroupsAt(at, n) == UNION {{7 * i + b : b \in out[at + i] \cap 0..6} : i \in 0..(n - 1)}
LastAt(at, seen) == {n \in 1..Min({seen, VARINT_MAX_BYTES}) : 7 \notin out[at + n - 1]}
Expected(at, seen) ==
    LET last == LastAt(at, seen) IN
    IF last # {} /\ GroupsAt(at, Min(last)) \subseteq Bits
    THEN [verdict |-> "value", next |-> at + Min(last)]
    ELSE IF last # {} \/ seen >= VARINT_MAX_BYTES
    THEN [verdict |-> "overflow", next |-> at + VARINT_MAX_BYTES]
    ELSE [verdict |-> "incomplete", next |-> at]

Ends(i) == IF i = Len(pieces) THEN cursor ELSE pieces[i + 1].at

------------------------------------------------------------------------------
(* Properties. *)

\* Every variable has its type; nothing is stored behind the end of the buffer in
\* hand (sofab.hpp:1559-1564), and the decoder stays within what arrived.
TypeOK ==
    /\ host \in {"little", "big"}
    /\ cursor <= limit /\ DOMAIN out \subseteq 0..(limit - 1) /\ 0..(cursor - 1) \subseteq DOMAIN out
    /\ \A i \in DOMAIN out : out[i] \in Byte
    /\ end \in 0..cursor /\ p \in 0..end
    /\ answer.of \in {"nothing", "read", "skip"}

\* However a number was written and however its bytes arrive, it is read as it was
\* once all of them are there, and not before (sofab.hpp:298-433, 3238-3424).
RoundTrip ==
    answer.of = "read" =>
        \A i \in DOMAIN pieces :
            LET piece == pieces[i] IN
            piece.at = answer.from /\ piece.kind # "strange" =>
                IF answer.seen < Ends(i) - piece.at
                THEN answer.is.verdict = "incomplete" /\ answer.is.next = piece.at
                ELSE answer.is.verdict = "value" /\ answer.is.next = Ends(i) /\ answer.is.value = piece.value

\* The fast path, the windowed reader and the byte loop, of a read and of a skip, are
\* one decoder: the bytes alone decide what a varint is, when it is too wide and where
\* the cursor stands (sofab.hpp:3294-3309, 3373-3396).
VerdictOfTheBytes ==
    answer.of # "nothing" =>
        \A i \in DOMAIN pieces :
            pieces[i].at = answer.from /\ pieces[i].kind # "fixed" =>
                LET e == Expected(answer.from, answer.seen) IN
                /\ answer.is.verdict = e.verdict /\ answer.is.next = e.next
                /\ answer.of = "read" /\ e.verdict = "value" /\ pieces[i].kind = "strange" =>
                       answer.is.value = GroupsAt(answer.from, e.next - answer.from)

\* Both encoders write a number in the fewest groups that hold it, on either host, and
\* a number keeps its bytes when others are stored behind it (sofab.hpp:1556-1573).
Canonical ==
    \A i \in DOMAIN pieces :
        LET piece == pieces[i]
            n == Ends(i) - piece.at
            v == IF piece.kind = "signed"
                 THEN {0 : b \in piece.value \cap {63}} \cup
                      {b + 1 : b \in IF 63 \in piece.value THEN Bits \ piece.value ELSE piece.value}
                 ELSE piece.value
        IN /\ piece.kind \in {"unsigned", "signed"} =>
                  /\ LastAt(piece.at, n) = {n} /\ GroupsAt(piece.at, n) = v
                  /\ n = 1 \/ v \cap (7 * (n - 1))..63 # {}
           /\ piece.kind = "fixed" =>
                  /\ n = 8
                  /\ v = UNION {{8 * i8 + b : b \in out[piece.at + i8]} : i8 \in 0..7}
=============================================================================
