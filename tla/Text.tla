------------------------------- MODULE Text -------------------------------
(* Strings: the UTF-8 validator of sofab.hpp (509-605), which a decoder runs   *)
(* over a payload at once or carries from piece to piece (3565-3667), and      *)
(* FixedString (799-976), the string a program keeps in a buffer of its own.   *)
(* A byte is a number.  Buffers count from 0, as in the code.                  *)
EXTENDS Integers, SequencesExt

CONSTANTS
    N,              \* FixedString's capacity
    WORD,           \* bytes of the word in which the validator skips ASCII
    Bytes,          \* the bytes payloads are made of
    Payloads,       \* lengths a payload is announced with
    Assignable,     \* what the program assigns
    Held            \* the texts, with their buffers, that are written into and read over

Byte == 0..255

ASSUME TextAssumption ==
    /\ N \in Nat /\ WORD \in Nat \ {0}
    /\ Bytes \subseteq Byte /\ Payloads \subseteq Nat
    /\ Assignable \subseteq Seq(Byte)

VARIABLES
    buf, len,       \* buf_, len_ of the FixedString
    announced,      \* fixLen_ of the string being read
    utf8State,      \* utf8State_
    payload,        \* the bytes of it that arrived
    outcome,        \* of the decode: "none", "reading", "read" or an error
    assigned        \* what the program last made of it, until a decode touches it

vars == <<buf, len, announced, utf8State, payload, outcome, assigned>>

------------------------------------------------------------------------------
(* The validator. *)

UTF8_ACCEPT == 0
UTF8_REJECT == 12
State == {0, 12, 24, 36, 48, 60, 72, 84, 96}

\* The table as the edges of the automaton: the bytes that lead from one state to another.
AnyAfterED == 128..191
AfterED == 128..159                     \* no surrogates
Edge(state, byte, next) ==
    LET edge(from, bytes, to) == state = from /\ byte \in bytes /\ next = to IN
    \/ edge(0, 0..127, 0)
    \/ edge(0, 194..223, 24) \/ edge(24, 128..191, 0)                   \* leads of two
    \/ edge(0, (225..239) \ {237}, 36) \/ edge(36, 128..191, 24)        \* of three
    \/ edge(0, {224}, 48) \/ edge(48, 160..191, 24)
    \/ edge(0, {237}, 60) \/ edge(60, AfterED, 24)
    \/ edge(0, {240}, 72) \/ edge(72, 144..191, 36)                     \* of four
    \/ edge(0, 241..243, 84) \/ edge(84, 128..191, 36)
    \/ edge(0, {244}, 96) \/ edge(96, 128..143, 36)
utf8Dfa ==
    [state \in State |-> [byte \in Byte |->
        IF \E next \in State : Edge(state, byte, next)
        THEN CHOOSE next \in State : Edge(state, byte, next)
        ELSE UTF8_REJECT]]
Step(state, byte) == utf8Dfa[state][byte]

\* Over the bytes of one piece.
After(state, d) ==
    LET after[i \in 0..Len(d)] == IF i = 0 THEN state ELSE Step(after[i - 1], d[i])
    IN after
utf8Advance(state, d) == After(state, d)[Len(d)]

\* A sequence that the input ends in is taken for one.
TruncatedTaken(d) == utf8Advance(UTF8_ACCEPT, d) # UTF8_REJECT

\* How far the ASCII run behind the first i bytes goes, in words and then in bytes.
Words(d, i) ==
    Max({j \in i..Len(d) : (j - i) % WORD = 0 /\ \A k \in (i + 1)..j : d[k] < 128})
Ascii(d, i) == Max({j \in i..Len(d) : \A k \in (i + 1)..j : d[k] < 128})

\* One turn of the loop: the run is skipped, and the sequence behind it stepped
\* through until the automaton accepts again.
Invalid == -1
Turn(d, i) ==
    LET begin == Ascii(d, Words(d, i))
        state(j) == utf8Advance(UTF8_ACCEPT, SubSeq(d, begin + 1, j))
        stops == {j \in (begin + 1)..Len(d) : state(j) \in {UTF8_ACCEPT, UTF8_REJECT}}
    IN IF begin = Len(d) THEN begin
       ELSE IF stops # {} /\ state(Min(stops)) = UTF8_ACCEPT THEN Min(stops)
       ELSE Invalid
Turns(d) ==
    LET at[n \in 0..Len(d)] ==
            IF n = 0 THEN 0
            ELSE IF at[n - 1] \in {Invalid, Len(d)} THEN at[n - 1] ELSE Turn(d, at[n - 1])
    IN at
utf8Valid(d) == Turns(d)[Len(d)] = Len(d)

------------------------------------------------------------------------------
(* FixedString. *)

Value == [i \in 1..len |-> buf[i - 1]]

\* A cut anywhere.
CutAnywhere(sv) == N

\* How much of a value that is too long is kept.
CutBack(sv) ==
    LET back[n \in 0..N] == IF n > 0 /\ sv[n + 1] \div 64 = 2 THEN back[n - 1] ELSE n
    IN back
utf8Prefix(sv) == CutBack(sv)[N]

\* The slot of the NUL taken for a character.
AssignedOneOver(b, sv) ==
    [len |-> Min({Len(sv), N}),
     buf |-> [i \in 0..N |-> IF i < Len(sv) THEN sv[i + 1] ELSE IF i = Len(sv) THEN 0 ELSE b[i]]]

Assigned(b, sv) ==
    LET n == IF Len(sv) <= N THEN Len(sv) ELSE utf8Prefix(sv)
    IN [len |-> n,
        buf |-> [i \in 0..N |-> IF i < n THEN sv[i + 1] ELSE IF i = n THEN 0 ELSE b[i]]]

Copied(b, at, d) == [i \in 0..N |-> IF i \in at..(at + Len(d) - 1) THEN d[i - at + 1] ELSE b[i]]

\* A length without the NUL behind it.
LengthOnly(b, n) == [len |-> Min({n, N}), buf |-> b]

set_len(b, n) == LET m == Min({n, N}) IN [len |-> m, buf |-> [b EXCEPT ![m] = 0]]

Becomes(text) == buf' = text.buf /\ len' = text.len

------------------------------------------------------------------------------
Blank == [i \in 0..N |-> 0]

Init ==
    /\ buf = Blank /\ len = 0 /\ announced = 0 /\ utf8State = UTF8_ACCEPT
    /\ payload = <<>> /\ outcome = "none" /\ assigned = << <<>> >>

\* The program uses the text between two decodes.
InUse ==
    /\ outcome \in {"none", "read"}
    /\ outcome' = "none" /\ announced' = 0 /\ utf8State' = utf8State /\ payload' = <<>>

Assign(sv) ==
    /\ InUse
    /\ Becomes(Assigned(buf, sv)) /\ assigned' = <<sv>>

Clear ==
    /\ InUse
    /\ len' = 0 /\ buf' = [buf EXCEPT ![0] = 0] /\ assigned' = << <<>> >>

\* A text that was assigned, cleared or read to its end.
Whole == outcome = "read" \/ assigned # <<>>

\* The texts the program writes into and a payload comes upon are bounded by Held.
HeldNow == [buf |-> buf, len |-> len] \in Held

\* operator[], begin() and data(), within the length.
Write(i, b) ==
    /\ InUse /\ i < len /\ HeldNow
    /\ buf' = [buf EXCEPT ![i] = b] /\ len' = len
    /\ assigned' = IF Whole THEN <<[Value EXCEPT ![i + 1] = b]>> ELSE <<>>

\* The header of a string field.
Announce(n) ==
    /\ outcome \in {"none", "read"}
    /\ HeldNow
    /\ announced' = n /\ utf8State' = UTF8_ACCEPT /\ payload' = <<>> /\ outcome' = "reading"
    /\ UNCHANGED <<buf, len, assigned>>

\* roomFor: the capacity is compared before any byte is looked at.
TooLong ==
    /\ outcome = "reading" /\ announced > N
    /\ outcome' = "InvalidArgument"
    /\ UNCHANGED <<buf, len, announced, utf8State, payload, assigned>>

\* The next bytes of a payload that fits.
Missing == IF outcome = "reading" /\ announced <= N THEN 0..(announced - Len(payload)) ELSE {}
Arrives(d) == payload' = payload \o d /\ assigned' = <<>> /\ UNCHANGED announced
InOnePiece(d) == payload = <<>> /\ Len(d) = announced

ReadWhole(d) ==
    /\ Arrives(d) /\ InOnePiece(d)
    /\ IF utf8Valid(d) THEN outcome' = "read" /\ Becomes(set_len(Copied(buf, 0, d), announced))
       ELSE outcome' = "InvalidMessage" /\ UNCHANGED <<buf, len>>
    /\ UNCHANGED utf8State

\* The bytes go where they belong at once, the verdict waits for the last of them.
ReadPiece(d) ==
    /\ Arrives(d) /\ ~InOnePiece(d)
    /\ LET state == utf8Advance(utf8State, d)
           copied == Copied(buf, Len(payload), d)
       IN IF Len(payload') < announced
          THEN utf8State' = state /\ buf' = copied /\ UNCHANGED <<len, outcome>>
          ELSE IF state # UTF8_ACCEPT
          THEN utf8State' = state /\ buf' = copied /\ outcome' = "InvalidMessage" /\ UNCHANGED len
          ELSE utf8State' = UTF8_ACCEPT /\ outcome' = "read" /\ Becomes(set_len(copied, announced))

\* reset() of the decoder; the text is left as it is.
Reset ==
    /\ announced' = 0 /\ utf8State' = UTF8_ACCEPT /\ payload' = <<>> /\ outcome' = "none"
    /\ UNCHANGED <<buf, len, assigned>>

Next ==
    \/ \E sv \in Assignable : Assign(sv)
    \/ \E i \in 0..(N - 1), b \in Bytes : Write(i, b)
    \/ Clear \/ TooLong \/ Reset
    \/ \E n \in Payloads : Announce(n)
    \/ \E n \in Missing : \E d \in [1..n -> Bytes] : ReadWhole(d) \/ ReadPiece(d)

Spec == Init /\ [][Next]_vars

------------------------------------------------------------------------------
(* What UTF-8 is: the shortest encodings of the scalar values.                 *)

Scalar(c) == c \in Nat /\ c <= 1114111 /\ ~(55296 <= c /\ c <= 57343)       \* no surrogate
Encodes(s, c) ==
    LET more(i, unit) == s[i] = 128 + ((c \div unit) % 64) IN
    \/ Len(s) = 1 /\ c <= 127 /\ s[1] = c
    \/ Len(s) = 2 /\ 128 <= c /\ c <= 2047 /\ s[1] = 192 + c \div 64 /\ more(2, 1)
    \/ /\ Len(s) = 3 /\ 2048 <= c /\ c <= 65535
       /\ s[1] = 224 + c \div 4096 /\ more(2, 64) /\ more(3, 1)
    \/ /\ Len(s) = 4 /\ c > 65535
       /\ s[1] = 240 + c \div 262144 /\ more(2, 4096) /\ more(3, 64) /\ more(4, 1)
CodePoint(s) ==
    LET low(i) == s[i] % 64 IN
    IF Len(s) = 1 THEN s[1]
    ELSE IF Len(s) = 2 THEN 64 * (s[1] % 32) + low(2)
    ELSE IF Len(s) = 3 THEN 4096 * (s[1] % 16) + 64 * low(2) + low(3)
    ELSE 262144 * (s[1] % 8) + 4096 * low(2) + 64 * low(3) + low(4)
Character(s) == Scalar(CodePoint(s)) /\ Encodes(s, CodePoint(s))

\* Cut at some places, a text is one character after another.
WellFormed(s) ==
    \E inner \in SUBSET (1..(Len(s) - 1)) :
        LET cuts == inner \cup {0, Len(s)} IN
        \A i \in cuts \ {Len(s)} : \E n \in 1..4 :
            i + n \in cuts /\ Character(SubSeq(s, i + 1, i + n))

------------------------------------------------------------------------------
(* Properties. *)

\* Every variable has its type; no text is longer than its buffer, and the NUL that
\* the last slot holds is never written over (sofab.hpp:779-783).
TypeOK ==
    /\ buf \in [0..N -> Byte] /\ len \in 0..N /\ buf[N] = 0
    /\ announced \in Payloads \cup {0} /\ utf8State \in State
    /\ payload \in Seq(Byte) /\ Len(payload) <= announced
    /\ outcome \in {"none", "reading", "read", "InvalidMessage", "InvalidArgument"}
    /\ assigned \in Seq(Seq(Byte)) /\ Len(assigned) <= 1

\* However a payload is cut, it is read when it is UTF-8 and refused when it is not,
\* neither before its last byte is there nor later (sofab.hpp:535-547, 3565-3667).
VerdictOfTheWhole ==
    /\ outcome = "read" => WellFormed(payload) /\ Len(payload) = announced /\ Value = payload
    /\ outcome = "InvalidMessage" => ~WellFormed(payload) /\ Len(payload) = announced
    /\ outcome = "reading" => payload = <<>> \/ Len(payload) < announced

\* Between two pieces the automaton accepts exactly the prefixes that are UTF-8, and
\* every byte that may come next takes it to where that prefix belongs (552-558).
StateOfThePrefix ==
    outcome = "reading" =>
        /\ utf8State = UTF8_ACCEPT <=> WellFormed(payload)
        /\ Len(payload) < 3 =>
            \A b \in Byte : Step(utf8State, b) = UTF8_ACCEPT <=> WellFormed(Append(payload, b))

\* "The cut never lands inside a UTF-8 character" (sofab.hpp:866-869): what is kept of
\* a text is its longest prefix that fits and is UTF-8, if the text is.
KeepsCharacters ==
    assigned # <<>> =>
        LET sv == assigned[1] IN
        /\ Value = SubSeq(sv, 1, len) /\ (Len(sv) <= N => Value = sv)
        /\ WellFormed(sv) => /\ WellFormed(Value)
                             /\ \A n \in (len + 1)..Min({N, Len(sv)}) : ~WellFormed(SubSeq(sv, 1, n))

\* A text that was assigned, cleared or read whole ends in a NUL (sofab.hpp:782-783).
Terminated == Whole => buf[len] = 0
=============================================================================
