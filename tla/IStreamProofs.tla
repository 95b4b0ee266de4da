--------------------------- MODULE IStreamProofs ---------------------------
(* What holds of the streaming decoder for every alphabet, every set of        *)
(* messages, every budget, nesting bound and carry buffer.                     *)
EXTENDS IStream, FieldStreamProofs

------------------------------------------------------------------------------
(* Arithmetic. *)

\* The lesser of two lengths.
LEMMA MinOfTwo ==
    ASSUME NEW a \in Int, NEW b \in Int
    PROVE  Min({a, b}) = IF a <= b THEN a ELSE b
BY DEF Min

\* Whole units of g within a: they fit, and what is left over is less than one.
LEMMA WholeUnits ==
    ASSUME NEW a \in Nat, NEW g \in Nat \ {0}
    PROVE  a \div g \in Nat /\ (a \div g) * g <= a /\ a - (a \div g) * g < g
OBVIOUS

\* So do fewer units than that.
LEMMA FewerUnits ==
    ASSUME NEW a \in Nat, NEW g \in Nat \ {0}, NEW t \in Nat, t <= a \div g
    PROVE  t * g \in Nat /\ t * g <= a
<1>1. PICK q : q = a \div g
    OBVIOUS
<1>2. q \in Nat /\ q * g <= a
    BY <1>1, WholeUnits
<1>3. t * g <= q * g
    BY <1>1, <1>2
<1>. QED  BY <1>2, <1>3

\* So many units have at least as many bytes.
LEMMA AtLeastUnits ==
    ASSUME NEW a \in Nat, NEW g \in Nat \ {0}
    PROVE  a <= a * g
OBVIOUS

------------------------------------------------------------------------------
(* Runs of consecutive bytes. *)

\* The n bytes behind the first a.
Run(a, n) == [i \in 1..n |-> a + i]

\* What a run is, element by element.
LEMMA RunIsSeq ==
    ASSUME NEW a \in Int, NEW n \in Nat
    PROVE  Run(a, n) \in Seq(Int) /\ Len(Run(a, n)) = n /\ \A i \in 1..n : Run(a, n)[i] = a + i
BY DEF Run

\* A run of no bytes is nothing.
LEMMA EmptyRun ==
    ASSUME NEW a \in Int
    PROVE  Run(a, 0) = <<>>
BY DEF Run

\* Nothing carried and nothing to come are the last 0 bytes of what was fed.
LEMMA NothingFollows ==
    ASSUME NEW n \in Nat
    PROVE  <<>> = Run(n - Len(<<>>), Len(<<>>)) /\ <<>> = Run(n - Len(<<>>) - 0, Len(<<>>))
<1>1. Len(<<>>) = 0 /\ n - 0 \in Int /\ n - 0 - 0 \in Int
    OBVIOUS
<1>. QED  BY <1>1, EmptyRun

\* What a concatenation is, element by element.
LEMMA Joined ==
    ASSUME NEW r \in Seq(Int), NEW s \in Seq(Int)
    PROVE  /\ r \o s \in Seq(Int) /\ Len(r \o s) = Len(r) + Len(s)
           /\ \A i \in 1..Len(r) : (r \o s)[i] = r[i]
           /\ \A i \in 1..Len(s) : (r \o s)[Len(r) + i] = s[i]
<1>1. Len(r \o s) = Len(r) + Len(s)
    OBVIOUS
<1>2. \A i \in 1..Len(r) : (r \o s)[i] = r[i]
    OBVIOUS
<1>3. ASSUME NEW i \in 1..Len(s) PROVE (r \o s)[Len(r) + i] = s[i]
    <2>1. /\ Len(r) + i \in 1..(Len(r) + Len(s)) /\ ~(Len(r) + i <= Len(r))
          /\ Len(r) + i - Len(r) = i
        OBVIOUS
    <2>. QED  BY <2>1
<1>. QED  BY <1>1, <1>2, <1>3

\* A run and the one that goes on behind it are one run.
LEMMA RunsJoin ==
    ASSUME NEW a \in Int, NEW m \in Nat, NEW n \in Nat
    PROVE  Run(a, m) \o Run(a + m, n) = Run(a, m + n)
<1>1. PICK r, s : r = [i \in 1..m |-> a + i] /\ s = [i \in 1..n |-> a + m + i]
    OBVIOUS
<1>2. r \in Seq(Int) /\ Len(r) = m /\ \A i \in 1..m : r[i] = a + i
    BY <1>1
<1>3. s \in Seq(Int) /\ Len(s) = n /\ \A i \in 1..n : s[i] = a + m + i
    BY <1>1
<1>4. PICK l \in Nat : l = m + n
    OBVIOUS
<1>5. PICK t : t = r \o s
    OBVIOUS
<1>6. t \in Seq(Int) /\ Len(t) = Len(r) + Len(s)
    BY <1>2, <1>3, <1>5, Joined
<1>7. Len(t) = l
    BY <1>4, <1>2, <1>3, <1>6
<1>8. ASSUME NEW i \in 1..l PROVE t[i] = a + i
    <2>1. CASE i <= m
        <3>1. i \in 1..Len(r) /\ t[i] = r[i]
            BY <1>2, <1>3, <1>5, <2>1, Joined
        <3>. QED  BY <1>2, <2>1, <3>1
    <2>2. CASE i > m
        <3>1. PICK j \in 1..n : j = i - m
            BY <1>4, <2>2
        <3>2. t[Len(r) + j] = s[j]
            BY <1>2, <1>3, <1>5, Joined
        <3>3. t[i] = s[j] /\ s[j] = a + i
            BY <1>2, <1>3, <3>1, <3>2
        <3>. QED  BY <3>3
    <2>. QED  BY <2>1, <2>2
<1>9. t = [i \in 1..l |-> a + i]
    BY <1>6, <1>7, <1>8
<1>. QED  BY <1>4, <1>1, <1>5, <1>9 DEF Run

\* A piece cut out of a run is a run.
LEMMA RunIsCut ==
    ASSUME NEW a \in Int, NEW n \in Nat, NEW b \in 0..n, NEW c \in b..n
    PROVE  SubSeq(Run(a, n), b + 1, c) = Run(a + b, c - b)
<1>1. PICK r, s : r = [i \in 1..n |-> a + i] /\ s = SubSeq(r, b + 1, c)
    OBVIOUS
<1>2. r \in Seq(Int) /\ Len(r) = n /\ \A i \in 1..n : r[i] = a + i
    BY <1>1
<1>3. s \in Seq(Int) /\ Len(s) = c - b
    BY <1>1, <1>2
<1>4. ASSUME NEW i \in 1..(c - b) PROVE s[i] = a + b + i
    <2>1. b + i \in 1..n /\ s[i] = r[b + i]
        BY <1>1, <1>2, <1>3
    <2>. QED  BY <1>2, <2>1
<1>5. s = [i \in 1..(c - b) |-> a + b + i]
    BY <1>3, <1>4
<1>. QED  BY <1>1, <1>5 DEF Run

\* In particular its first bytes.
LEMMA RunIsPrefix ==
    ASSUME NEW a \in Int, NEW n \in Nat, NEW c \in 0..n
    PROVE  SubSeq(Run(a, n), 1, c) = Run(a, c)
<1>1. PICK b \in 0..n : b = 0
    OBVIOUS
<1>2. c \in b..n /\ b + 1 = 1 /\ a + b = a /\ c - b = c
    BY <1>1
<1>3. SubSeq(Run(a, n), b + 1, c) = Run(a + b, c - b)
    BY <1>2, RunIsCut
<1>. QED  BY <1>2, <1>3

\* The numbers of a run lie between its ends.
LEMMA RunIsWithin ==
    ASSUME NEW a \in Nat, NEW n \in Nat, NEW z \in Nat, a + n <= z
    PROVE  Run(a, n) \in Seq(1..z)
BY DEF Run

------------------------------------------------------------------------------
(* The inductive invariant. *)

FlagsTyped ==
    incomplete \in BOOLEAN /\ replay \in BOOLEAN /\ spanSkip \in BOOLEAN /\ capInert \in BOOLEAN

InputTyped == msg \in Decodings /\ fed \in 0..Bytes(msg)

\* The last n bytes that were fed.
LastFed(n) == Run(fed - n, n)

\* The window is the bytes that follow what was parsed, first those that were carried
\* over, and what is carried over is the end of what was fed.
WindowFollows ==
    /\ Len(chunk) \in Nat /\ Len(window) \in Nat /\ held \in Nat
    /\ held + Len(chunk) <= fed
    /\ chunk = LastFed(Len(chunk))
    /\ window = Run(fed - Len(chunk) - held, Len(window))
    /\ held = 0 => Len(window) = Len(chunk)
    /\ held > 0 => held < CARRY_CAP /\ Len(window) = held + Min({CARRY_CAP - held, Len(chunk)})
CarryFollows ==
    /\ Len(carry) \in Nat /\ Len(carry) < CARRY_CAP /\ Len(carry) <= fed
    /\ carry = LastFed(Len(carry))
    /\ pc # "idle" => carry = <<>>

\* Of a window less than CARRY_CAP is left over when the parse gives up.
Consumed ==
    /\ p \in 0..Len(window)
    /\ pc = "idle" => chunk = <<>> /\ held = 0 /\ window = <<>> /\ p = 0
    /\ pc = "parsed" \/ incomplete => Avail < CARRY_CAP

WindowIsNext == WindowFollows /\ CarryFollows /\ Consumed

Frames == [k : 0..Len(msg.fields), skip : BOOLEAN, from : Int, span : BOOLEAN,
           elem : 0..Len(msg.fields)]

\* The calls nest within MAX_DEPTH, each begun no later than the byte the parse is at;
\* they are all gone when a window is done, and inside a window nothing is suspended
\* before the parse leaves it.
CallsNest ==
    /\ pc \in Stages /\ elem \in 0..Len(msg.fields)
    /\ cur \in [k : 0..Len(msg.fields), skip : BOOLEAN, from : Int]
    /\ stack \in Seq(Frames)
    /\ Len(stack) <= MAX_DEPTH
    /\ \A d \in 1..Len(stack) : stack[d].from <= p
    /\ pc = "deliver" => cur.k # 0 /\ cur.from <= p
    /\ pc = "idle" => cur = NoField
    /\ pc \in {"idle", "parsed"} => stack = <<>>
    /\ pc = "return" => stack # <<>>
    /\ pc \in {"enter", "loop", "deliver"} => ~incomplete

Entries == [k : 0..Len(msg.fields), skip : BOOLEAN]

\* Whether the sequence at depth d is, or is to be, entered to be skipped.
EnteredSkip(d) == IF d <= Len(stack) THEN stack[d].skip ELSE path[d - 1].skip

\* A half-delivered field has taken no more than its payload, counted in the grain in
\* which it will go on, because it goes on the way it was begun.
TotalIf(takes, f) ==
    (f.units * f.width) \div (IF takes \/ f.type \in Varints THEN f.width ELSE 1)
HalfDelivered ==
    /\ suspendDepth \in -1..MAX_DEPTH
    /\ path \in [0..(MAX_DEPTH - 1) -> [k : Nat, skip : BOOLEAN]]
    /\ pend \in Entries /\ pendDone \in Nat
    /\ replay <=> pc = "enter"
    /\ pc = "enter" => Len(stack) <= suspendDepth
    /\ pc \in {"loop", "deliver"} \/ (pc = "return" /\ ~incomplete) => suspendDepth = -1
    /\ pc = "deliver" => pendDone <= Total
    /\ suspendDepth >= 0 /\ pend # NoPend =>
        /\ pend.k # 0
        /\ pendDone <= TotalIf(~pend.skip, At(msg, pend.k))
        /\ ~pend.skip => /\ ~Declining(At(msg, pend.k))
                         /\ suspendDepth > 0 => ~EnteredSkip(suspendDepth)

\* A window in which the budget tests are off ends before the budget is used up.
SpansCount ==
    /\ spanBase \in 0..p
    /\ spanCarry \in Nat /\ spanSkipped \in Nat /\ skipped \in Nat
    /\ capInert => /\ pc # "idle"
                   /\ budget - (spanCarry + Len(window) - spanBase) >= CAP_NEED_MAX

VerdictTyped ==
    /\ terminal \in Verdicts \ {"Incomplete"} /\ answer.verdict \in Verdicts
    /\ answer = [seen |-> answer.seen, verdict |-> answer.verdict, values |-> answer.values]

IInv ==
    /\ FlagsTyped /\ InputTyped /\ WindowIsNext /\ CallsNest /\ HalfDelivered
    /\ SpansCount /\ VerdictTyped

\* The path is of fields of this message; after a reset() to another one, as much of it
\* as is entered again.
PathTyped == path \in [0..(MAX_DEPTH - 1) -> Entries]
PathKnown == pc = "enter" /\ replay /\ seqDepth < suspendDepth => path[seqDepth] \in Entries

\* A stream may go on with another message.
AnyReset == \E next \in Decodings : ResetTo(next)

------------------------------------------------------------------------------
(* What the invariant gives. *)

\* The types of what every proof below counts with.
LEMMA MessageFacts ==
    ASSUME IInv
    PROVE  /\ Laid(msg) /\ Len(msg.fields) \in Nat /\ budget \in Nat /\ Bytes(msg) \in Nat
           /\ MAX_DEPTH \in Nat \ {0} /\ CARRY_CAP \in Nat \ {0} /\ CAP_NEED_MAX \in Nat
           /\ fed \in Nat /\ p \in Nat /\ Len(window) \in Nat /\ Avail \in Nat
           /\ Len(stack) \in Nat
<1>1. Laid(msg)
    BY DecodingsAreLaid DEF IInv, InputTyped
<1>2. Len(msg.fields) \in Nat /\ budget \in Nat
    BY <1>1 DEF Laid, budget
<1>3. Bytes(msg) \in Nat
    BY <1>1, <1>2 DEF Laid, Bytes
<1>4. MAX_DEPTH \in Nat \ {0} /\ CARRY_CAP \in Nat \ {0} /\ CAP_NEED_MAX \in Nat
    BY FieldAssumption, CapAssumption
<1>5. Len(window) \in Nat /\ fed \in Nat /\ p \in Nat
    BY <1>3 DEF IInv, InputTyped, WindowIsNext, WindowFollows, CarryFollows, Consumed
<1>6. Avail \in Nat
    BY <1>5 DEF IInv, WindowIsNext, WindowFollows, CarryFollows, Consumed, Avail
<1>7. Len(stack) \in Nat
    BY DEF IInv, CallsNest
<1>. QED  BY <1>1, <1>2, <1>3, <1>4, <1>5, <1>6, <1>7

\* The field a number stands for.
LEMMA AtFacts ==
    ASSUME IInv, NEW k \in 1..Len(msg.fields)
    PROVE  LET f == At(msg, k) IN
           /\ f \in Field
           /\ f.tag \in Nat \ {0} /\ f.meta \in Nat /\ f.units \in Nat
           /\ f.width \in Nat \ {0} /\ f.width <= CARRY_CAP
           /\ Header(f) \in Nat \ {0} /\ Header(f) <= CARRY_CAP /\ f.tag <= Header(f)
           /\ Size(f) \in Nat \ {0}
           /\ f.units * f.width <= CAP_NEED_MAX
<1>1. msg.fields[k] \in DOMAIN Alphabet
    BY MessageFacts DEF Laid
<1>2. PICK f : f = At(msg, k)
    OBVIOUS
<1>3. f.units * f.width <= CAP_NEED_MAX
    BY <1>1, <1>2, CapAssumption DEF At, Known
<1>4. /\ f \in Field
      /\ f.tag \in Nat \ {0} /\ f.meta \in Nat /\ f.units \in Nat
      /\ f.width \in Nat \ {0} /\ f.width <= CARRY_CAP
      /\ Header(f) \in Nat \ {0} /\ Header(f) <= CARRY_CAP
      /\ Size(f) \in Nat \ {0}
    BY <1>1, <1>2, FieldFacts DEF At
<1>5. f.tag <= Header(f)
    BY <1>4 DEF Header
<1>. QED  BY <1>2, <1>3, <1>4, <1>5

\* The last bytes that were fed, as a sequence of their numbers.
LEMMA LastFedIsSeq ==
    ASSUME NEW n \in Nat, fed \in Nat, n <= fed
    PROVE  LastFed(n) \in Seq(1..fed) /\ Len(LastFed(n)) = n
BY DEF LastFed, Run

\* The chunk, the window and what is carried hold bytes that were fed.
LEMMA WindowIsSeq ==
    ASSUME IInv
    PROVE  chunk \in Seq(1..fed) /\ window \in Seq(1..fed) /\ carry \in Seq(1..fed)
<1>1. fed \in Nat
    BY MessageFacts
<1>2. chunk \in Seq(1..fed) /\ carry \in Seq(1..fed)
    BY <1>1, LastFedIsSeq DEF IInv, WindowIsNext, WindowFollows, CarryFollows, Consumed
<1>3. CARRY_CAP \in Nat /\ held \in Nat /\ Len(chunk) \in Nat
    BY MessageFacts DEF IInv, WindowIsNext, WindowFollows, CarryFollows, Consumed
<1>4. Len(window) <= held + Len(chunk)
    BY <1>3, MinOfTwo DEF IInv, WindowIsNext, WindowFollows, CarryFollows, Consumed
<1>5. window \in Seq(1..fed)
    <2>1. window = Run(fed - Len(chunk) - held, Len(window))
        BY DEF IInv, WindowIsNext, WindowFollows
    <2>2. fed - Len(chunk) - held \in Nat /\ fed - Len(chunk) - held + Len(window) <= fed
          /\ Len(window) \in Nat
        BY <1>1, <1>3, <1>4 DEF IInv, WindowIsNext, WindowFollows
    <2>. QED  BY <1>1, <2>1, <2>2, RunIsWithin
<1>. QED  BY <1>2, <1>5

\* The field at the next byte of the window.
LEMMA ThisFacts ==
    ASSUME IInv, Avail > 0
    PROVE  This \in 1..Len(msg.fields)
<1>1. p + 1 \in 1..Len(window) /\ window \in Seq(1..fed) /\ fed \in 0..Bytes(msg)
    BY MessageFacts, WindowIsSeq DEF IInv, InputTyped, WindowIsNext, WindowFollows, CarryFollows, Consumed, Avail
<1>2. window[p + 1] \in 1..Bytes(msg)
    BY <1>1, MessageFacts
<1>. QED  BY <1>2, MessageFacts DEF This, Laid, Fields

\* The invariant has the types in it.
LEMMA IInvIsTyped == IInv /\ PathTyped => TypeOK
<1>. SUFFICES ASSUME IInv, PathTyped PROVE TypeOK
    OBVIOUS
<1>1. chunk \in Seq(1..fed) /\ window \in Seq(1..fed) /\ carry \in Seq(1..fed)
    BY WindowIsSeq
<1>2. held \in 0..CARRY_CAP /\ p \in 0..Len(window)
    BY MessageFacts DEF IInv, WindowIsNext, WindowFollows, CarryFollows, Consumed
<1>3. spanBase \in 0..Len(window)
    <2>1. spanBase \in 0..p
        BY DEF IInv, SpansCount
    <2>. QED  BY <1>2, <2>1, MessageFacts
<1>. QED  BY <1>1, <1>2, <1>3 DEF IInv, TypeOK, FlagsTyped, InputTyped, CallsNest, HalfDelivered, SpansCount,
                            VerdictTyped, PathTyped, Entries

------------------------------------------------------------------------------
\* A decoder that has just been made.
LEMMA InitHolds == Init => IInv
<1>. SUFFICES ASSUME Init PROVE IInv
    OBVIOUS
<1>. msg \in Decodings /\ Laid(msg) /\ MAX_DEPTH \in Nat \ {0} /\ CARRY_CAP \in Nat \ {0}
    BY DecodingsAreLaid, FieldAssumption DEF Init
<1>. Len(msg.fields) \in Nat /\ Bytes(msg) \in Nat
    BY DEF Laid, Bytes
<1>1. FlagsTyped
    BY DEF Init, FlagsTyped
<1>2. InputTyped
    BY DEF Init, InputTyped
<1>3. CallsNest
    BY DEF Init, CallsNest, NoField, Nowhere, Stages
<1>4. WindowIsNext
    BY NothingFollows DEF Init, WindowIsNext, WindowFollows, CarryFollows, Consumed, LastFed, Avail
<1>5. HalfDelivered
    BY DEF Init, HalfDelivered, NoPend, Entries
<1>6. SpansCount
    BY DEF Init, SpansCount
<1>7. VerdictTyped
    BY DEF Init, VerdictTyped, Verdicts
<1>. QED  BY <1>1, <1>2, <1>3, <1>4, <1>5, <1>6, <1>7 DEF IInv

\* A refusal leaves nothing open.
LEMMA RefusedKeeps ==
    ASSUME IInv, NEW e \in Verdicts \ {"None", "Incomplete"}, Refused(e), skipped' \in Nat,
           pc \in {"loop", "deliver", "parsed"}
    PROVE  IInv'
<1>. /\ Len(msg.fields) \in Nat /\ budget \in Nat /\ Bytes(msg) \in Nat
     /\ MAX_DEPTH \in Nat \ {0} /\ CARRY_CAP \in Nat \ {0} /\ CAP_NEED_MAX \in Nat
     /\ fed \in Nat /\ p \in Nat /\ Len(window) \in Nat /\ Avail \in Nat /\ Len(stack) \in Nat
    BY MessageFacts
<1>1. FlagsTyped'
    BY DEF IInv, FlagsTyped, Refused, Return
<1>2. InputTyped' /\ VerdictTyped'
    BY DEF IInv, InputTyped, VerdictTyped, Refused, Return, input
<1>3. CallsNest'
    BY DEF IInv, CallsNest, Refused, Return, input, NoField, Nowhere, Stages
<1>4. WindowIsNext'
    <2>1. Len(carry') \in Nat /\ Len(carry') < CARRY_CAP /\ Len(carry') <= fed'
        BY DEF IInv, WindowIsNext, WindowFollows, CarryFollows, Consumed, Refused, input
    <2>2. carry' = LastFed(Len(carry))'
        BY DEF IInv, WindowIsNext, WindowFollows, CarryFollows, Consumed, Refused, input, LastFed
    <2>3. chunk' = <<>> /\ window' = <<>> /\ held' = 0 /\ p' = 0 /\ pc' = "idle"
        BY DEF Refused, Return
    <2>4. fed' \in Nat
        BY DEF Refused, input
    <2>5. chunk' = LastFed(Len(chunk))'
        BY <2>3, <2>4, NothingFollows DEF LastFed
    <2>6. window' = Run(fed' - Len(chunk') - held', Len(window'))
        BY <2>3, <2>4, NothingFollows
    <2>. QED  BY <2>1, <2>2, <2>3, <2>4, <2>5, <2>6 DEF WindowIsNext, WindowFollows, CarryFollows, Consumed, Avail
<1>5. HalfDelivered'
    <2>1. suspendDepth = -1 \/ stack = <<>>
        BY DEF IInv, CallsNest, HalfDelivered
    <2>2. Len(stack') = 0
        BY DEF Refused
    <2>3. /\ stack = <<>> => EnteredSkip(suspendDepth)' = EnteredSkip(suspendDepth)
        BY DEF Refused, EnteredSkip
    <2>. QED  BY <2>1, <2>3 DEF IInv, HalfDelivered, Refused, Return, input, Entries
<1>6. SpansCount'
    BY DEF IInv, SpansCount, Refused, Return
<1>. QED  BY <1>1, <1>2, <1>3, <1>4, <1>5, <1>6 DEF IInv

\* Within a window only p moves, forward, and what is left over when the parse gives up
\* is short.
LEMMA SameWindow ==
    ASSUME IInv, pc # "idle", pc' # "idle", UNCHANGED <<fed, chunk, held, window, carry>>,
           p' \in p..Len(window),
           (pc' = "parsed" \/ incomplete') => Len(window) - p' < CARRY_CAP
    PROVE  WindowIsNext'
<1>1. chunk' = LastFed(Len(chunk))' /\ carry' = LastFed(Len(carry))'
    BY DEF IInv, WindowIsNext, WindowFollows, CarryFollows, Consumed, LastFed
<1>2. p' \in 0..Len(window')
    BY MessageFacts
<1>. QED  BY <1>1, <1>2 DEF IInv, WindowIsNext, WindowFollows, CarryFollows, Consumed, Avail

\* A step within a window that adds to what was skipped and changes no other count.
LEMMA SameSpans ==
    ASSUME IInv, pc' # "idle", UNCHANGED <<msg, window, spanCarry, spanBase, capInert>>,
           p' \in p..Len(window), spanSkipped' \in Nat, skipped' \in Nat
    PROVE  SpansCount'
BY MessageFacts DEF IInv, SpansCount, budget

\* A step that changes nothing.
LEMMA StutterKeeps ==
    ASSUME IInv, UNCHANGED vars
    PROVE  IInv'
<1>. USE DEF vars, input, windowVars, resumeVars, spanVars, levelVars
<1>1. FlagsTyped'
    BY DEF IInv, FlagsTyped
<1>2. InputTyped' /\ VerdictTyped'
    BY DEF IInv, InputTyped, VerdictTyped
<1>3. CallsNest'
    BY DEF IInv, CallsNest, Frames
<1>4. WindowIsNext'
    BY DEF IInv, WindowIsNext, WindowFollows, CarryFollows, Consumed, LastFed, Avail
<1>5. HalfDelivered'
    <2>1. Total' = Total
        <3>1. Current' = Current
            BY DEF Current, At, Known
        <3>2. Takes' <=> Takes
            BY <3>1 DEF Takes, Asked, InSkip, seqDepth, Declining
        <3>. QED  BY <3>1, <3>2 DEF Total, Grain
    <2>2. \A d : EnteredSkip(d)' = EnteredSkip(d)
        BY DEF EnteredSkip
    <2>. QED  BY <2>1, <2>2 DEF IInv, HalfDelivered, Entries
<1>6. SpansCount'
    BY DEF IInv, SpansCount, budget
<1>. QED  BY <1>1, <1>2, <1>3, <1>4, <1>5, <1>6 DEF IInv

\* feed() of nothing (sofab.hpp:4331-4343).
LEMMA FeedNothingKeeps ==
    ASSUME IInv, FeedNothing
    PROVE  IInv'
<1>. USE DEF input, windowVars, resumeVars, spanVars, levelVars
<1>1. FlagsTyped' /\ InputTyped'
    BY DEF IInv, FlagsTyped, InputTyped, FeedNothing
<1>2. VerdictTyped'
    BY DEF IInv, VerdictTyped, FeedNothing, Verdicts
<1>3. CallsNest'
    BY DEF IInv, CallsNest, Frames, FeedNothing
<1>4. WindowIsNext'
    BY DEF IInv, WindowIsNext, WindowFollows, CarryFollows, Consumed, LastFed, Avail, FeedNothing
<1>5. HalfDelivered'
    <2>1. \A d : EnteredSkip(d)' = EnteredSkip(d)
        BY DEF EnteredSkip, FeedNothing
    <2>. QED  BY <2>1 DEF IInv, HalfDelivered, Entries, FeedNothing
<1>6. SpansCount'
    BY DEF IInv, SpansCount, budget, FeedNothing
<1>. QED  BY <1>1, <1>2, <1>3, <1>4, <1>5, <1>6 DEF IInv

\* reset() (sofab.hpp:4400-4457).
LEMMA ResetKeeps ==
    ASSUME IInv, NEW next \in Decodings, ResetTo(next)
    PROVE  IInv'
<1>. /\ Len(msg.fields) \in Nat /\ budget \in Nat /\ Bytes(msg) \in Nat
     /\ MAX_DEPTH \in Nat \ {0} /\ CARRY_CAP \in Nat \ {0} /\ CAP_NEED_MAX \in Nat
     /\ fed \in Nat /\ p \in Nat /\ Len(window) \in Nat /\ Avail \in Nat /\ Len(stack) \in Nat
    BY MessageFacts
<1>1. Laid(next) /\ Len(next.fields) \in Nat
    <2>1. Laid(next)
        BY DecodingsAreLaid
    <2>. QED  BY <2>1 DEF Laid
<1>. USE DEF ResetTo, windowVars
<1>2. FlagsTyped'
    BY DEF IInv, FlagsTyped
<1>3. InputTyped'
    <2>1. Bytes(next) \in Nat
        BY <1>1 DEF Laid, Bytes
    <2>. QED  BY <2>1 DEF InputTyped
<1>4. CallsNest'
    <2>1. cur' = NoField /\ pc' = "idle" /\ stack' = <<>> /\ elem' = 0 /\ msg' = next
        BY DEF IInv, CallsNest
    <2>. QED  BY <1>1, <2>1 DEF CallsNest, NoField, Nowhere, Stages
<1>5. WindowIsNext'
    <2>1. /\ chunk' = <<>> /\ window' = <<>> /\ carry' = <<>> /\ held' = 0 /\ p' = 0
          /\ fed' = 0 /\ pc' = "idle"
        BY DEF IInv, WindowIsNext, WindowFollows, CarryFollows, Consumed
    <2>2. chunk' = LastFed(Len(chunk))' /\ carry' = LastFed(Len(carry))'
        BY <2>1, NothingFollows DEF LastFed
    <2>3. window' = Run(fed' - Len(chunk') - held', Len(window'))
        BY <2>1, NothingFollows
    <2>. QED  BY <2>1, <2>2, <2>3 DEF WindowIsNext, WindowFollows, CarryFollows, Consumed, Avail
<1>6. HalfDelivered'
    BY DEF IInv, HalfDelivered, Entries, NoPend
<1>7. SpansCount'
    BY DEF IInv, SpansCount, WindowIsNext, WindowFollows, CarryFollows, Consumed
<1>8. VerdictTyped'
    BY DEF VerdictTyped, Verdicts
<1>. QED  BY <1>2, <1>3, <1>4, <1>5, <1>6, <1>7, <1>8 DEF IInv

\* The end of a window that suspends or completes the parse.
LEMMA CarryKeeps ==
    ASSUME IInv, NEW e \in {"None", "Incomplete"}, Carry(e), Parsed, skipped' \in Nat,
           Rest = LastFed(Len(Rest)), Len(Rest) = Avail, Avail <= fed
    PROVE  IInv'
<1>. /\ Len(msg.fields) \in Nat /\ budget \in Nat /\ Bytes(msg) \in Nat
     /\ MAX_DEPTH \in Nat \ {0} /\ CARRY_CAP \in Nat \ {0} /\ CAP_NEED_MAX \in Nat
     /\ fed \in Nat /\ p \in Nat /\ Len(window) \in Nat /\ Avail \in Nat /\ Len(stack) \in Nat
    BY MessageFacts
<1>1. FlagsTyped'
    BY DEF IInv, FlagsTyped, Carry, Return, levelVars
<1>2. InputTyped' /\ VerdictTyped'
    BY DEF IInv, InputTyped, VerdictTyped, Carry, Return, input, Verdicts
<1>3. CallsNest'
    BY DEF IInv, CallsNest, Parsed, Carry, Return, input, levelVars, NoField, Nowhere, Stages
<1>4. WindowIsNext'
    <2>1. Len(carry') \in Nat /\ Len(carry') < CARRY_CAP /\ Len(carry') <= fed'
        BY DEF IInv, WindowIsNext, WindowFollows, CarryFollows, Consumed, Parsed, Carry, input
    <2>2. carry' = LastFed(Len(carry))'
        BY DEF Carry, input, LastFed
    <2>3. chunk' = <<>> /\ window' = <<>> /\ held' = 0 /\ p' = 0 /\ pc' = "idle"
        BY DEF Carry, Return
    <2>4. fed' \in Nat
        BY DEF Carry, input
    <2>5. chunk' = LastFed(Len(chunk))'
        BY <2>3, <2>4, NothingFollows DEF LastFed
    <2>6. window' = Run(fed' - Len(chunk') - held', Len(window'))
        BY <2>3, <2>4, NothingFollows
    <2>. QED  BY <2>1, <2>2, <2>3, <2>4, <2>5, <2>6 DEF WindowIsNext, WindowFollows, CarryFollows, Consumed, Avail
<1>5. HalfDelivered'
    <2>1. \A d : EnteredSkip(d)' = EnteredSkip(d)
        BY DEF Carry, EnteredSkip, levelVars
    <2>. QED  BY <2>1 DEF IInv, HalfDelivered, Carry, Return, input, Entries
<1>6. SpansCount'
    <2>1. spanCarry' \in Nat
        BY DEF IInv, SpansCount, Carry, SpanSoFar
    <2>. QED  BY <2>1 DEF IInv, SpansCount, Carry, Return
<1>. QED  BY <1>1, <1>2, <1>3, <1>4, <1>5, <1>6 DEF IInv

\* The parse of a window begins at its first byte, with no budget used up in it.
WindowBegins ==
    /\ p' = 0 /\ spanBase' = 0 /\ incomplete' = FALSE /\ replay' = (suspendDepth >= 0)
    /\ capInert' = CapCannotFire(spanCarry', Len(window'))
    /\ pc' = IF replay' THEN "enter" ELSE "loop"
    /\ carry' = <<>> /\ spanCarry' \in Nat
    /\ UNCHANGED <<msg, cur, suspendDepth, path, pend, pendDone, spanSkipped, levelVars,
                   terminal, skipped, answer>>

\* A window is opened over bytes that follow each other.
LEMMA OpenWindowKeeps ==
    ASSUME IInv, stack = <<>>, fed' \in 0..Bytes(msg), WindowBegins, WindowFollows'
    PROVE  IInv'
<1>. /\ Len(msg.fields) \in Nat /\ budget \in Nat /\ Bytes(msg) \in Nat
     /\ MAX_DEPTH \in Nat \ {0} /\ CARRY_CAP \in Nat \ {0} /\ CAP_NEED_MAX \in Nat
     /\ fed \in Nat /\ p \in Nat /\ Len(window) \in Nat /\ Avail \in Nat /\ Len(stack) \in Nat
    BY MessageFacts
<1>1. suspendDepth' = suspendDepth /\ suspendDepth \in -1..MAX_DEPTH
    BY DEF IInv, HalfDelivered, WindowBegins
<1>2. /\ suspendDepth >= 0 => replay' /\ pc' = "enter"
      /\ suspendDepth < 0 => ~replay' /\ pc' = "loop"
    <2>1. replay' = (suspendDepth >= 0)
        BY DEF WindowBegins
    <2>2. replay' <=> suspendDepth >= 0
        BY <2>1
    <2>3. pc' = IF replay' THEN "enter" ELSE "loop"
        BY DEF WindowBegins
    <2>. QED  BY <1>1, <2>2, <2>3
<1>3. FlagsTyped'
    <2>1. capInert' \in BOOLEAN
        BY DEF CapCannotFire, WindowBegins
    <2>2. replay' \in BOOLEAN
        BY DEF WindowBegins
    <2>3. incomplete' \in BOOLEAN /\ spanSkip' \in BOOLEAN
        BY DEF IInv, FlagsTyped, WindowBegins, levelVars
    <2>. QED  BY <2>1, <2>2, <2>3 DEF FlagsTyped
<1>4. InputTyped' /\ VerdictTyped'
    BY DEF IInv, InputTyped, VerdictTyped, WindowBegins
<1>5. CallsNest'
    BY <1>1, <1>2 DEF IInv, CallsNest, Frames, levelVars, Stages, WindowBegins
<1>6. WindowIsNext'
    <2>1. carry' = <<>> /\ Len(carry') = 0 /\ fed' \in Nat
        BY DEF WindowBegins
    <2>2. carry' = LastFed(Len(carry))'
        BY <2>1, NothingFollows DEF LastFed
    <2>3. p' = 0 /\ pc' \in {"enter", "loop"} /\ incomplete' = FALSE /\ Len(window') \in Nat
        BY <1>1, <1>2 DEF WindowBegins, WindowFollows
    <2>4. Consumed'
        BY <2>3 DEF Consumed
    <2>. QED  BY <2>1, <2>2, <2>4 DEF WindowIsNext, CarryFollows
<1>7. HalfDelivered'
    <2>1. \A d : EnteredSkip(d)' = EnteredSkip(d)
        BY DEF EnteredSkip, levelVars, WindowBegins
    <2>2. Len(stack') = 0
        BY DEF levelVars, WindowBegins
    <2>3. replay' <=> pc' = "enter"
        BY <1>1, <1>2
    <2>4. /\ pc' \in {"enter", "loop"}
          /\ pc' = "loop" => suspendDepth' = -1
          /\ pc' = "enter" => Len(stack') <= suspendDepth'
        BY <1>1, <1>2, <2>2
    <2>. QED  BY <2>1, <2>3, <2>4 DEF IInv, HalfDelivered, Entries, WindowBegins
<1>8. SpansCount'
    <2>1. capInert' => budget' - (spanCarry' + Len(window') - 0) >= CAP_NEED_MAX
        <3>1. capInert' = CapCannotFire(spanCarry', Len(window'))
            BY DEF WindowBegins
        <3>2. capInert' <=> CapCannotFire(spanCarry', Len(window'))
            BY <3>1
        <3>3. budget' = budget /\ spanCarry' \in Nat /\ Len(window') \in Nat
            BY DEF budget, WindowBegins, WindowFollows
        <3>. QED  BY <3>2, <3>3 DEF CapCannotFire
    <2>2. pc' # "idle"
        BY <1>1, <1>2
    <2>. QED  BY <2>1, <2>2 DEF IInv, SpansCount, WindowBegins
<1>. QED  BY <1>3, <1>4, <1>5, <1>6, <1>7, <1>8 DEF IInv

\* feed(): the carried bytes are stitched to the first new ones, or the chunk is the
\* window (sofab.hpp:4280-4369).
LEMMA FeedKeeps ==
    ASSUME IInv, NEW n \in 1..Bytes(msg), Feed(n)
    PROVE  IInv'
<1>. /\ Len(msg.fields) \in Nat /\ budget \in Nat /\ Bytes(msg) \in Nat
     /\ MAX_DEPTH \in Nat \ {0} /\ CARRY_CAP \in Nat \ {0} /\ CAP_NEED_MAX \in Nat
     /\ fed \in Nat /\ p \in Nat /\ Len(window) \in Nat /\ Avail \in Nat /\ Len(stack) \in Nat
    BY MessageFacts
<1>1. PICK take : take = Min({CARRY_CAP - Len(carry), n})
    OBVIOUS
<1>2. PICK new : new = [i \in 1..n |-> fed + i]
    OBVIOUS
<1>3. OpenWindow(IF carry = <<>> THEN new ELSE carry \o SubSeq(new, 1, take),
                 Len(carry), new, spanCarry)
    BY <1>1, <1>2 DEF Feed
<1>4. PICK c \in Nat : c = Len(carry)
    BY DEF IInv, WindowIsNext, CarryFollows
<1>5. c < CARRY_CAP /\ c <= fed
    BY <1>4 DEF IInv, WindowIsNext, CarryFollows
<1>6. carry = Run(fed - c, c)
    BY <1>4 DEF IInv, WindowIsNext, CarryFollows, LastFed
<1>7. stack = <<>> /\ fed' = fed + n /\ fed + n <= Bytes(msg) /\ n \in Nat \ {0}
    BY DEF IInv, CallsNest, Feed
<1>8. take \in 1..n /\ take <= CARRY_CAP - c
    <2>1. CARRY_CAP - c \in Nat \ {0}
        BY <1>5
    <2>2. take = IF CARRY_CAP - c <= n THEN CARRY_CAP - c ELSE n
        BY <1>1, <1>4, <1>7, <2>1, MinOfTwo
    <2>. QED  BY <1>7, <2>1, <2>2
<1>9. new = Run(fed, n) /\ Len(new) = n
    BY <1>2, <1>7, RunIsSeq DEF Run
<1>10. chunk' = new /\ held' = c /\ Len(chunk') = n
    BY <1>3, <1>4, <1>9 DEF OpenWindow
<1>11. fed' - n = fed /\ fed' - n - c = fed - c
    BY <1>7
<1>12. chunk' = LastFed(Len(chunk))'
    BY <1>9, <1>10, <1>11 DEF LastFed
<1>13. WindowBegins
    BY <1>3 DEF IInv, SpansCount, Feed, OpenWindow, WindowBegins
<1>14. held' \in Nat /\ held' + Len(chunk') <= fed' /\ held' < CARRY_CAP /\ fed' \in 0..Bytes(msg)
    <2>1. c + n <= fed + n /\ fed + n \in 0..Bytes(msg)
        BY <1>5, <1>7
    <2>. QED  BY <1>5, <1>7, <1>10, <2>1
<1>15. CASE carry = <<>>
    <2>1. window' = new /\ c = 0
        BY <1>3, <1>4, <1>15 DEF OpenWindow
    <2>2. window' = Run(fed' - Len(chunk') - held', Len(window'))
        BY <1>9, <1>10, <1>11, <2>1
    <2>3. held' = 0 /\ Len(window') = Len(chunk') /\ Len(window') \in Nat
        BY <1>7, <1>9, <1>10, <2>1
    <2>4. WindowFollows'
        BY <1>10, <1>12, <1>14, <2>2, <2>3 DEF WindowFollows
    <2>. QED  BY <1>7, <1>13, <1>14, <2>4, OpenWindowKeeps
<1>16. CASE carry # <<>>
    <2>1. window' = carry \o SubSeq(new, 1, take)
        BY <1>3, <1>16 DEF OpenWindow
    <2>2. SubSeq(new, 1, take) = Run(fed, take)
        <3>1. fed \in Int /\ n \in Nat /\ take \in 0..n
            BY <1>7, <1>8
        <3>2. SubSeq(Run(fed, n), 1, take) = Run(fed, take)
            BY <3>1, RunIsPrefix
        <3>. QED  BY <1>9, <3>2
    <2>3. window' = Run(fed - c, c + take)
        <3>1. fed - c \in Int
            BY <1>8
        <3>2. PICK a \in Int : a = fed - c
            BY <3>1
        <3>3. a + c = fed
            BY <1>8, <3>2
        <3>4. c \in Nat /\ take \in Nat
            BY <1>8
        <3>5. Run(a, c) \o Run(a + c, take) = Run(a, c + take)
            BY <3>4, RunsJoin
        <3>. QED  BY <1>6, <2>1, <2>2, <3>2, <3>3, <3>5
    <2>4. Len(window') = c + take /\ c > 0
        <3>1. c # 0
            <4>1. ASSUME c = 0 PROVE carry = <<>>
                BY <1>6, <4>1, EmptyRun
            <4>. QED  BY <1>16, <4>1
        <3>2. fed - c \in Int /\ c + take \in Nat
            BY <1>8
        <3>. QED  BY <2>3, <3>1, <3>2, RunIsSeq
    <2>5. window' = Run(fed' - Len(chunk') - held', Len(window'))
        BY <1>10, <1>11, <2>3, <2>4
    <2>6. held' > 0 /\ Len(window') \in Nat
          /\ Len(window') = held' + Min({CARRY_CAP - held', Len(chunk')})
        <3>1. CARRY_CAP - held' = CARRY_CAP - Len(carry) /\ Len(chunk') = n
            BY <1>4, <1>10
        <3>2. c + take \in Nat
            BY <1>8
        <3>. QED  BY <1>1, <1>10, <2>4, <3>1, <3>2
    <2>7. WindowFollows'
        BY <1>10, <1>12, <1>14, <2>5, <2>6 DEF WindowFollows
    <2>. QED  BY <1>7, <1>13, <1>14, <2>7, OpenWindowKeeps
<1>. QED  BY <1>15, <1>16

\* What a stitched window leaves of the chunk is the end of it.
\* What the chunk holds behind the stitched window are the last bytes that were fed.
LEMMA ChunkGoesOn ==
    ASSUME IInv, ParseTheRest
    PROVE  /\ AfterHeld = LastFed(Len(AfterHeld)) /\ Len(AfterHeld) \in Nat
           /\ Len(AfterHeld) <= fed /\ Len(AfterHeld) = Len(chunk) - (p - held)
<1>. /\ Len(msg.fields) \in Nat /\ budget \in Nat /\ Bytes(msg) \in Nat
     /\ MAX_DEPTH \in Nat \ {0} /\ CARRY_CAP \in Nat \ {0} /\ CAP_NEED_MAX \in Nat
     /\ fed \in Nat /\ p \in Nat /\ Len(window) \in Nat /\ Avail \in Nat /\ Len(stack) \in Nat
    BY MessageFacts
<1>1. PICK l \in Nat : l = Len(chunk)
    BY DEF IInv, WindowIsNext, WindowFollows
<1>2. held \in Nat /\ held + l <= fed /\ p >= held /\ chunk = Run(fed - l, l)
    BY <1>1 DEF IInv, WindowIsNext, WindowFollows, LastFed, ParseTheRest
<1>3. PICK c \in Nat : c = p - held
    BY <1>2
<1>4. PICK rest : rest = AfterHeld
    OBVIOUS
<1>5. rest = SubSeq(chunk, c + 1, l) /\ rest # <<>>
    BY <1>1, <1>3, <1>4 DEF AfterHeld, ParseTheRest
<1>6. c < l
    <2>1. chunk \in Seq(Int)
        <3>1. fed - l \in Int
            OBVIOUS
        <3>. QED  BY <1>2, <3>1, RunIsSeq
    <2>2. c + 1 > l => SubSeq(chunk, c + 1, l) = <<>>
        BY <2>1
    <2>. QED  BY <1>5, <2>2
<1>7. PICK r \in Nat : r = l - c
    BY <1>6
<1>8. rest = Run(fed - r, r) /\ Len(rest) = r
    <2>1. c \in 0..l /\ l \in c..l /\ (fed - l) + c = fed - r /\ fed - l \in Int /\ fed - r \in Int
        BY <1>6, <1>7
    <2>2. SubSeq(Run(fed - l, l), c + 1, l) = Run((fed - l) + c, l - c)
        BY <2>1, RunIsCut
    <2>. QED  BY <1>2, <1>5, <1>7, <2>1, <2>2, RunIsSeq
<1>9. r <= fed
    BY <1>2, <1>7
<1>. QED  BY <1>1, <1>3, <1>4, <1>7, <1>8, <1>9 DEF LastFed

\* The rest of the chunk is parsed in place.
LEMMA ParseTheRestKeeps ==
    ASSUME IInv, ParseTheRest
    PROVE  IInv'
<1>. /\ Len(msg.fields) \in Nat /\ budget \in Nat /\ Bytes(msg) \in Nat
     /\ MAX_DEPTH \in Nat \ {0} /\ CARRY_CAP \in Nat \ {0} /\ CAP_NEED_MAX \in Nat
     /\ fed \in Nat /\ p \in Nat /\ Len(window) \in Nat /\ Avail \in Nat /\ Len(stack) \in Nat
    BY MessageFacts
<1>1. stack = <<>> /\ carry = <<>>
    BY DEF IInv, WindowIsNext, CarryFollows, CallsNest, ParseTheRest, Parsed
<1>2. PICK rest : rest = AfterHeld
    OBVIOUS
<1>3. PICK r \in Nat : r = Len(rest)
    BY <1>2, ChunkGoesOn
<1>4. rest = Run(fed - r, r) /\ r <= fed
    BY <1>2, <1>3, ChunkGoesOn DEF LastFed
<1>5. chunk' = rest /\ window' = rest /\ held' = 0 /\ fed' = fed
    BY <1>2 DEF ParseTheRest, OpenWindow, input
<1>6. WindowFollows'
    <2>1. fed - r - 0 = fed - r
        OBVIOUS
    <2>. QED  BY <1>3, <1>4, <1>5, <2>1 DEF WindowFollows, LastFed
<1>7. spanCarry' \in Nat
    BY DEF IInv, SpansCount, ParseTheRest, SpanSoFar
<1>8. WindowBegins
    BY <1>1, <1>2, <1>5, <1>7 DEF ParseTheRest, OpenWindow, WindowBegins, input
<1>9. fed' \in 0..Bytes(msg)
    BY DEF IInv, InputTyped, ParseTheRest, input
<1>. QED  BY <1>1, <1>6, <1>8, <1>9, OpenWindowKeeps

\* A window that holds all that was fed leaves the end of it.
LEMMA RestIsTail ==
    ASSUME IInv, Len(window) = held + Len(chunk)
    PROVE  Rest = LastFed(Len(Rest)) /\ Len(Rest) = Avail /\ Avail <= fed
<1>. /\ Len(msg.fields) \in Nat /\ budget \in Nat /\ Bytes(msg) \in Nat
     /\ MAX_DEPTH \in Nat \ {0} /\ CARRY_CAP \in Nat \ {0} /\ CAP_NEED_MAX \in Nat
     /\ fed \in Nat /\ p \in Nat /\ Len(window) \in Nat /\ Avail \in Nat /\ Len(stack) \in Nat
    BY MessageFacts
<1>1. PICK n \in Nat : n = Len(window)
    OBVIOUS
<1>2. n <= fed /\ window = Run(fed - n, n)
    <2>1. /\ held \in Nat /\ Len(chunk) \in Nat /\ held + Len(chunk) <= fed
          /\ window = Run(fed - Len(chunk) - held, Len(window))
        BY DEF IInv, WindowIsNext, WindowFollows
    <2>2. fed - Len(chunk) - held = fed - n
        BY <1>1, <2>1
    <2>. QED  BY <1>1, <2>1, <2>2
<1>3. PICK r \in Nat : r = Avail
    OBVIOUS
<1>4. p \in 0..n /\ n \in p..n /\ n - p = r /\ (fed - n) + p = fed - r /\ r <= fed
    <2>1. p \in 0..n
        BY <1>1 DEF IInv, WindowIsNext, Consumed
    <2>2. n - p = r
        BY <1>1, <1>3 DEF Avail
    <2>. QED  BY <1>2, <2>1, <2>2
<1>5. PICK a \in Int : a = fed - n
    OBVIOUS
<1>6. SubSeq(Run(a, n), p + 1, n) = Run(a + p, n - p)
    BY <1>4, <1>5, RunIsCut
<1>7. a + p = fed - r /\ n - p = r /\ window = Run(a, n)
    BY <1>2, <1>4, <1>5
<1>8. Rest = Run(fed - r, r)
    <2>1. Rest = SubSeq(window, p + 1, n)
        BY <1>1 DEF Rest
    <2>2. SubSeq(window, p + 1, n) = Run(a + p, n - p)
        BY <1>6, <1>7
    <2>. QED  BY <1>7, <2>1, <2>2
<1>9. Len(Rest) = r
    <2>1. fed - r \in Int
        OBVIOUS
    <2>. QED  BY <1>8, <2>1, RunIsSeq
<1>. QED  BY <1>3, <1>4, <1>8, <1>9 DEF LastFed

\* When the parse does not go on behind a window, that window held all that was fed.
LEMMA AllInWindow ==
    ASSUME IInv,
           \/ KeepCarrying /\ ~(Len(window) - held < Len(chunk))
           \/ Stash
    PROVE  Len(window) = held + Len(chunk)
<1>. /\ Len(msg.fields) \in Nat /\ budget \in Nat /\ Bytes(msg) \in Nat
     /\ MAX_DEPTH \in Nat \ {0} /\ CARRY_CAP \in Nat \ {0} /\ CAP_NEED_MAX \in Nat
     /\ fed \in Nat /\ p \in Nat /\ Len(window) \in Nat /\ Avail \in Nat /\ Len(stack) \in Nat
    BY MessageFacts
<1>1. PICK l \in Nat : l = Len(chunk)
    BY DEF IInv, WindowIsNext, WindowFollows
<1>2. held \in Nat /\ chunk = Run(fed - l, l) /\ fed - l \in Int
    BY <1>1 DEF IInv, WindowIsNext, WindowFollows, LastFed
<1>3. CASE held = 0
    BY <1>1, <1>2, <1>3 DEF IInv, WindowIsNext, WindowFollows
<1>4. CASE held > 0
    <2>1. PICK a \in Int : a = CARRY_CAP - held
        BY <1>2
    <2>2. Len(window) = held + Min({a, l}) /\ p <= Len(window)
        BY <1>1, <1>4, <2>1 DEF IInv, WindowIsNext, WindowFollows, Consumed
    <2>3. Min({a, l}) \in Int /\ Min({a, l}) <= l
        BY MinOfTwo
    <2>4. Len(window) <= held + l
        BY <1>2, <2>2, <2>3
    <2>5. CASE ~(Len(window) - held < l)
        BY <1>1, <1>2, <2>4, <2>5
    <2>6. CASE Stash
        <3>1. p >= held /\ AfterHeld = <<>>
            BY <1>2, <1>4, <2>6 DEF Stash, Unparsed
        <3>2. PICK c \in Nat : c = p - held
            BY <1>2, <3>1
        <3>3. SubSeq(chunk, c + 1, l) = <<>>
            BY <1>1, <3>1, <3>2 DEF AfterHeld
        <3>4. ASSUME c < l PROVE FALSE
            <4>1. c \in 0..l /\ l \in c..l /\ (fed - l) + c \in Int /\ l - c \in Nat \ {0}
                BY <1>2, <3>4
            <4>2. SubSeq(chunk, c + 1, l) = Run((fed - l) + c, l - c)
                BY <1>2, <4>1, RunIsCut
            <4>3. Len(Run((fed - l) + c, l - c)) = l - c
                BY <4>1, RunIsSeq
            <4>4. Len(<<>>) = l - c
                BY <3>3, <4>2, <4>3
            <4>. QED  BY <4>1, <4>4
        <3>. QED  BY <1>1, <1>2, <2>2, <2>4, <3>2, <3>4
    <2>. QED  BY <1>1, <2>5, <2>6
<1>. QED  BY <1>2, <1>3, <1>4

\* The stitched window still ends inside a header or an element.
LEMMA KeepCarryingKeeps ==
    ASSUME IInv, KeepCarrying
    PROVE  IInv'
<1>1. skipped' \in Nat /\ Parsed /\ pc = "parsed"
    BY DEF IInv, SpansCount, KeepCarrying, Parsed
<1>2. CASE Refused("InvalidMessage")
    BY <1>1, <1>2, RefusedKeeps DEF Verdicts
<1>3. CASE ~(Len(window) - held < Len(chunk)) /\ Carry("Incomplete")
    BY <1>1, <1>3, AllInWindow, RestIsTail, CarryKeeps
<1>. QED  BY <1>2, <1>3 DEF KeepCarrying

\* The window is parsed and what it ends in is carried.
LEMMA StashKeeps ==
    ASSUME IInv, Stash
    PROVE  IInv'
<1>1. skipped' \in Nat /\ Parsed /\ pc = "parsed"
    BY DEF IInv, SpansCount, Stash, Parsed
<1>2. CASE Refused("InvalidMessage")
    BY <1>1, <1>2, RefusedKeeps DEF Verdicts
<1>3. CASE Carry(IF incomplete \/ Rest # <<>> THEN "Incomplete" ELSE "None")
    BY <1>1, <1>3, AllInWindow, RestIsTail, CarryKeeps
<1>. QED  BY <1>2, <1>3 DEF Stash

\* A refusal by the top of the loop, of a header or at a delivery.
LEMMA IndexErrorIs ==
    ASSUME NEW c, NEW id
    PROVE  IndexError(c, id) \in Verdicts \ {"None", "Incomplete"}
BY DEF IndexError, Verdicts

\* A read refuses with an error.
LEMMA RefusalIs ==
    ASSUME NEW u, RefusalOf(u) # "None"
    PROVE  RefusalOf(u) \in Verdicts \ {"None", "Incomplete"}
BY DEF RefusalOf, Verdicts

\* A field starts behind the budget.
LEMMA RefuseSpanKeeps ==
    ASSUME IInv, RefuseSpan
    PROVE  IInv'
<1>1. pc = "loop" /\ skipped' \in Nat /\ Refused("LimitExceeded")
    BY DEF IInv, SpansCount, RefuseSpan
<1>2. "LimitExceeded" \in Verdicts \ {"None", "Incomplete"}
    BY DEF Verdicts
<1>. QED  BY <1>1, <1>2, RefusedKeeps

\* A header is malformed, or the element bound refuses its id.
LEMMA RefuseHeaderKeeps ==
    ASSUME IInv, RefuseHeader
    PROVE  IInv'
<1>1. pc = "loop" /\ skipped' \in Nat
    BY DEF IInv, SpansCount, RefuseHeader, AtField, SkipCount
<1>2. PICK e : Refused(e) /\ (e = "InvalidMessage" \/ \E c, id : e = IndexError(c, id))
    BY DEF RefuseHeader
<1>3. e \in Verdicts \ {"None", "Incomplete"}
    BY <1>2, IndexErrorIs DEF Verdicts
<1>. QED  BY <1>1, <1>2, <1>3, RefusedKeeps

\* A field is refused with its payload withheld.
LEMMA RefuseWithheldKeeps ==
    ASSUME IInv, RefuseWithheld
    PROVE  IInv'
<1>1. pc = "loop" /\ skipped' \in Nat
    BY DEF IInv, SpansCount, RefuseWithheld, AtField
<1>2. PICK e : Refused(e) /\ e \in {"InvalidMessage", "LimitExceeded"}
    BY DEF RefuseWithheld
<1>3. e \in Verdicts \ {"None", "Incomplete"}
    BY <1>2 DEF Verdicts
<1>. QED  BY <1>1, <1>2, <1>3, RefusedKeeps

\* The handler of a field refuses it.
LEMMA DeliverRefusedKeeps ==
    ASSUME IInv, DeliverRefused
    PROVE  IInv'
<1>1. pc = "deliver" /\ skipped' \in Nat
    BY DEF IInv, SpansCount, DeliverRefused, NewSkips
<1>2. PICK e : Refused(e) /\ (e = "InvalidMessage" \/ \E u : e = RefusalOf(u) /\ e # "None")
    BY DEF DeliverRefused
<1>3. e \in Verdicts \ {"None", "Incomplete"}
    BY <1>2, RefusalIs DEF Verdicts
<1>. QED  BY <1>1, <1>2, <1>3, RefusedKeeps

------------------------------------------------------------------------------
(* Within a window. *)

\* Total depends on whether the field is taken and on the field alone.
LEMMA TotalIs == Total = TotalIf(Takes, Current) /\ Total' = TotalIf(Takes', Current')
BY DEF Total, Grain, TotalIf

\* The payload of a field in units is a number.
LEMMA TotalIsNat ==
    ASSUME NEW f, f.units \in Nat, f.width \in Nat \ {0}, NEW b \in BOOLEAN
    PROVE  TotalIf(b, f) \in Nat
<1>1. PICK g \in Nat \ {0} : g = IF b \/ f.type \in Varints THEN f.width ELSE 1
    OBVIOUS
<1>2. f.units * f.width \in Nat
    OBVIOUS
<1>. QED  BY <1>1, <1>2, WholeUnits DEF TotalIf

\* The call for a nested level begins.
LEMMA OpenedNests ==
    ASSUME IInv, NEW k \in 0..Len(msg.fields), NEW skip \in BOOLEAN, NEW from \in Int,
           from <= p, pc \in {"enter", "deliver"}, Len(stack) < MAX_DEPTH,
           OpenLevel(k, skip, from), UNCHANGED <<msg, p, cur, incomplete>>
    PROVE  CallsNest' /\ Len(stack') = Len(stack) + 1 /\ stack'[Len(stack')].skip = skip
           /\ (\A d \in 1..Len(stack) : stack'[d] = stack[d])
<1>. /\ Len(msg.fields) \in Nat /\ budget \in Nat /\ Bytes(msg) \in Nat
     /\ MAX_DEPTH \in Nat \ {0} /\ CARRY_CAP \in Nat \ {0} /\ CAP_NEED_MAX \in Nat
     /\ fed \in Nat /\ p \in Nat /\ Len(window) \in Nat /\ Avail \in Nat /\ Len(stack) \in Nat
    BY MessageFacts
<1>1. PICK frame : frame = [k |-> k, skip |-> skip, from |-> from,
                          span |-> spanSkip, elem |-> elem]
    OBVIOUS
<1>2. frame \in Frames /\ frame.from <= p /\ frame.skip = skip
    BY <1>1 DEF IInv, FlagsTyped, CallsNest, Frames
<1>3. stack' = Append(stack, frame) /\ stack \in Seq(Frames)
    BY <1>1 DEF IInv, CallsNest, OpenLevel
<1>4. /\ Len(stack') = Len(stack) + 1 /\ stack'[Len(stack) + 1] = frame
      /\ \A d \in 1..Len(stack) : stack'[d] = stack[d]
    BY <1>3
<1>5. stack' \in Seq(Frames') /\ Frames' = Frames
    <2>1. Frames' = Frames
        BY DEF Frames
    <2>2. stack' \in Seq(Frames)
        BY <1>2, <1>3
    <2>. QED  BY <2>1, <2>2
<1>6. \A d \in 1..Len(stack') : stack'[d].from <= p'
    BY <1>2, <1>4 DEF IInv, CallsNest
<1>7. pc' \in {"enter", "loop"} /\ stack' # <<>>
    <2>1. Len(stack') # 0
        BY <1>4
    <2>. QED  BY <2>1 DEF OpenLevel
<1>8. ~incomplete'
    BY DEF IInv, CallsNest
<1>9. elem' \in 0..Len(msg'.fields) /\ cur' \in [k : 0..Len(msg'.fields), skip : BOOLEAN, from : Int]
    BY DEF IInv, CallsNest, OpenLevel
<1>10. CallsNest'
    BY <1>4, <1>5, <1>6, <1>7, <1>8, <1>9 DEF CallsNest, Stages
<1>. QED  BY <1>2, <1>4, <1>10

\* A noted level is entered again.
LEMMA DescendKeeps ==
    ASSUME IInv, PathKnown, Descend
    PROVE  IInv'
<1>. /\ Len(msg.fields) \in Nat /\ budget \in Nat /\ Bytes(msg) \in Nat
     /\ MAX_DEPTH \in Nat \ {0} /\ CARRY_CAP \in Nat \ {0} /\ CAP_NEED_MAX \in Nat
     /\ fed \in Nat /\ p \in Nat /\ Len(window) \in Nat /\ Avail \in Nat /\ Len(stack) \in Nat
    BY MessageFacts
<1>1. /\ Len(stack) \in 0..(MAX_DEPTH - 1) /\ Len(stack) < suspendDepth
      /\ suspendDepth \in 0..MAX_DEPTH /\ pc = "enter" /\ replay
    BY DEF IInv, HalfDelivered, Descend, seqDepth
<1>2. PICK at \in Entries : at = path[Len(stack)]
    BY <1>1 DEF PathKnown, seqDepth
<1>3. PICK from \in Int : from = (IF at.skip THEN p ELSE Nowhere) /\ from <= p
    BY DEF Nowhere
<1>4. OpenLevel(at.k, at.skip, from)
    BY <1>2, <1>3 DEF Descend, seqDepth
<1>5. at.k \in 0..Len(msg.fields) /\ at.skip \in BOOLEAN
    BY <1>2 DEF Entries
<1>6. UNCHANGED <<msg, fed, chunk, held, window, capInert, p, cur, incomplete, carry, suspendDepth,
                  replay, path, pend, pendDone, spanCarry, spanBase, spanSkipped, terminal,
                  skipped, answer>>
    BY DEF Descend, input, windowVars, resumeVars, spanVars
<1>7. /\ CallsNest' /\ Len(stack') = Len(stack) + 1 /\ stack'[Len(stack')].skip = at.skip
      /\ \A d \in 1..Len(stack) : stack'[d] = stack[d]
    BY <1>1, <1>3, <1>4, <1>5, <1>6, OpenedNests
<1>8. pc' = "enter"
    BY <1>1, <1>4 DEF OpenLevel
<1>9. FlagsTyped'
    BY <1>4, <1>5, <1>6 DEF IInv, FlagsTyped, OpenLevel
<1>10. InputTyped' /\ VerdictTyped'
    BY <1>6 DEF IInv, InputTyped, VerdictTyped
<1>11. WindowIsNext'
    <2>1. p' \in p..Len(window) /\ ~incomplete'
        BY <1>1, <1>6 DEF IInv, CallsNest, WindowIsNext, Consumed
    <2>. QED  BY <1>1, <1>6, <1>8, <2>1, SameWindow
<1>12. SpansCount'
    <2>1. p' \in p..Len(window) /\ spanSkipped' \in Nat /\ skipped' \in Nat
        BY <1>6 DEF IInv, SpansCount, WindowIsNext, Consumed
    <2>. QED  BY <1>6, <1>8, <2>1, SameSpans
<1>13. HalfDelivered'
    <2>1. EnteredSkip(suspendDepth)' = EnteredSkip(suspendDepth)
        <3>1. CASE suspendDepth = Len(stack')
            <4>1. suspendDepth - 1 = Len(stack) /\ ~(suspendDepth <= Len(stack))
                BY <1>7, <3>1
            <4>. QED  BY <1>2, <1>6, <1>7, <3>1, <4>1 DEF EnteredSkip
        <3>2. CASE suspendDepth > Len(stack')
            <4>1. ~(suspendDepth <= Len(stack)) /\ ~(suspendDepth' <= Len(stack'))
                BY <1>1, <1>6, <1>7, <3>2
            <4>. QED  BY <1>6, <4>1 DEF EnteredSkip
        <3>. QED  BY <1>1, <1>7, <3>1, <3>2
    <2>2. Len(stack') <= suspendDepth
        BY <1>1, <1>7
    <2>. QED  BY <1>1, <1>6, <1>8, <2>1, <2>2 DEF IInv, HalfDelivered, Entries
<1>. QED  BY <1>7, <1>9, <1>10, <1>11, <1>12, <1>13 DEF IInv

\* A sequence is entered, to be read or to be skipped.
LEMMA DeliverSequenceKeeps ==
    ASSUME IInv, DeliverSequence
    PROVE  IInv'
<1>. /\ Len(msg.fields) \in Nat /\ budget \in Nat /\ Bytes(msg) \in Nat
     /\ MAX_DEPTH \in Nat \ {0} /\ CARRY_CAP \in Nat \ {0} /\ CAP_NEED_MAX \in Nat
     /\ fed \in Nat /\ p \in Nat /\ Len(window) \in Nat /\ Avail \in Nat /\ Len(stack) \in Nat
    BY MessageFacts
<1>1. pc = "deliver" /\ Len(stack) < MAX_DEPTH
    BY DEF DeliverSequence, DepthLeft, seqDepth
<1>2. /\ ~replay /\ suspendDepth = -1
      /\ cur.k \in 0..Len(msg.fields) /\ cur.from \in Int /\ cur.from <= p
    BY <1>1 DEF IInv, HalfDelivered, CallsNest
<1>3. PICK skip \in BOOLEAN : skip = ~Takes
    BY DEF Takes
<1>4. PICK from \in Int : from = (IF Takes THEN Nowhere ELSE cur.from) /\ from <= p
    BY <1>2 DEF Nowhere
<1>5. OpenLevel(cur.k, skip, from)
    BY <1>3, <1>4 DEF DeliverSequence
<1>6. UNCHANGED <<msg, fed, chunk, held, window, capInert, p, cur, incomplete, carry, suspendDepth,
                  replay, path, pend, pendDone, spanCarry, spanBase, spanSkipped, terminal,
                  answer>>
    BY DEF DeliverSequence, input, windowVars, resumeVars, spanVars
<1>7. CallsNest'
    BY <1>1, <1>2, <1>4, <1>5, <1>6, OpenedNests
<1>8. pc' = "loop"
    BY <1>2, <1>5 DEF OpenLevel
<1>9. FlagsTyped'
    BY <1>5, <1>6 DEF IInv, FlagsTyped, OpenLevel
<1>10. InputTyped' /\ VerdictTyped'
    BY <1>6 DEF IInv, InputTyped, VerdictTyped
<1>11. WindowIsNext'
    <2>1. p' \in p..Len(window) /\ ~incomplete'
        BY <1>1, <1>6 DEF IInv, CallsNest, WindowIsNext, Consumed
    <2>. QED  BY <1>1, <1>6, <1>8, <2>1, SameWindow
<1>12. SpansCount'
    <2>1. p' \in p..Len(window) /\ spanSkipped' \in Nat /\ skipped' \in Nat
        BY <1>6 DEF IInv, SpansCount, WindowIsNext, Consumed, DeliverSequence, NewSkips
    <2>. QED  BY <1>6, <1>8, <2>1, SameSpans
<1>13. HalfDelivered'
    BY <1>2, <1>6, <1>8 DEF IInv, HalfDelivered, Entries
<1>. QED  BY <1>7, <1>9, <1>10, <1>11, <1>12, <1>13 DEF IInv

\* A half-delivered field goes on the way it was begun.
LEMMA ResumedTakes ==
    ASSUME IInv, Resume, pend # NoPend
    PROVE  Takes' <=> ~pend.skip
<1>. Len(stack) \in Nat
    BY MessageFacts
<1>1. pc = "enter" /\ suspendDepth = Len(stack) /\ pend.skip \in BOOLEAN
    BY DEF IInv, HalfDelivered, Resume, seqDepth, Entries
<1>2. cur' = [k |-> pend.k, skip |-> pend.skip, from |-> p] /\ msg' = msg /\ stack' = stack
    BY DEF Resume, input, levelVars
<1>3. Current' = At(msg, pend.k)
    BY <1>2 DEF Current
<1>4. ~pend.skip => ~Declining(At(msg, pend.k)) /\ (Len(stack) > 0 => ~stack[Len(stack)].skip)
    BY <1>1 DEF IInv, HalfDelivered, EnteredSkip
<1>5. cur'.skip = pend.skip
    BY <1>2
<1>6. InSkip' => Len(stack) > 0 /\ stack[Len(stack)].skip
    BY <1>2 DEF InSkip, seqDepth, IInv, CallsNest
<1>. QED  BY <1>1, <1>3, <1>4, <1>5, <1>6 DEF Takes, Asked

\* The half-delivered field is delivered on, or the loop goes on.
LEMMA ResumeKeeps ==
    ASSUME IInv, Resume
    PROVE  IInv'
<1>. /\ Len(msg.fields) \in Nat /\ budget \in Nat /\ Bytes(msg) \in Nat
     /\ MAX_DEPTH \in Nat \ {0} /\ CARRY_CAP \in Nat \ {0} /\ CAP_NEED_MAX \in Nat
     /\ fed \in Nat /\ p \in Nat /\ Len(window) \in Nat /\ Avail \in Nat /\ Len(stack) \in Nat
    BY MessageFacts
<1>1. /\ pc = "enter" /\ suspendDepth = Len(stack)
      /\ replay' = FALSE /\ suspendDepth' = -1 /\ ~incomplete
    BY DEF IInv, HalfDelivered, CallsNest, Resume, seqDepth
<1>2. UNCHANGED <<msg, fed, chunk, held, window, capInert, p, incomplete, carry, path, pend, pendDone,
                  spanCarry, spanBase, spanSkipped, stack, spanSkip, elem, terminal, skipped,
                  answer>>
    BY DEF Resume, input, windowVars, spanVars, levelVars
<1>3. pc' \in {"loop", "deliver"}
    BY DEF Resume
<1>4. FlagsTyped'
    BY <1>1, <1>2 DEF IInv, FlagsTyped
<1>5. InputTyped' /\ VerdictTyped'
    BY <1>2 DEF IInv, InputTyped, VerdictTyped
<1>6. CallsNest'
    <2>1. pend \in Entries /\ (pend # NoPend => pend.k # 0)
        BY <1>1 DEF IInv, HalfDelivered
    <2>2. /\ cur' \in [k : 0..Len(msg.fields), skip : BOOLEAN, from : Int]
          /\ pc' = "deliver" => cur'.k # 0 /\ cur'.from <= p
        BY <2>1 DEF IInv, CallsNest, Resume, Entries
    <2>. QED  BY <1>1, <1>2, <1>3, <2>2 DEF IInv, CallsNest, Frames, Stages
<1>7. WindowIsNext'
    <2>1. p' \in p..Len(window)
        BY <1>2 DEF IInv, WindowIsNext, Consumed
    <2>. QED  BY <1>1, <1>2, <1>3, <2>1, SameWindow
<1>8. SpansCount'
    <2>1. p' \in p..Len(window) /\ spanSkipped' \in Nat /\ skipped' \in Nat
        BY <1>2 DEF IInv, SpansCount, WindowIsNext, Consumed
    <2>. QED  BY <1>2, <1>3, <2>1, SameSpans
<1>9. HalfDelivered'
    <2>1. ASSUME pc' = "deliver" PROVE pendDone <= Total'
        <3>1. pend # NoPend /\ cur' = [k |-> pend.k, skip |-> pend.skip, from |-> p]
            BY <2>1 DEF Resume
        <3>2. Current' = At(msg, pend.k)
            BY <1>2, <3>1 DEF Current
        <3>3. pendDone <= TotalIf(~pend.skip, At(msg, pend.k)) /\ pend.skip \in BOOLEAN
            BY <1>1, <3>1 DEF IInv, HalfDelivered, Entries
        <3>4. Takes' <=> ~pend.skip
            BY <3>1, ResumedTakes
        <3>5. TotalIf(Takes', Current') = TotalIf(~pend.skip, At(msg, pend.k))
            BY <3>2, <3>4 DEF TotalIf
        <3>. QED  BY <3>3, <3>5, TotalIs
    <2>. QED  BY <1>1, <1>2, <1>3, <2>1 DEF IInv, HalfDelivered, Entries
<1>. QED  BY <1>4, <1>5, <1>6, <1>7, <1>8, <1>9 DEF IInv

\* The call for a level returns.
LEMMA LeaveLevelKeeps ==
    ASSUME IInv, LeaveLevel
    PROVE  IInv'
<1>. /\ Len(msg.fields) \in Nat /\ budget \in Nat /\ Bytes(msg) \in Nat
     /\ MAX_DEPTH \in Nat \ {0} /\ CARRY_CAP \in Nat \ {0} /\ CAP_NEED_MAX \in Nat
     /\ fed \in Nat /\ p \in Nat /\ Len(window) \in Nat /\ Avail \in Nat /\ Len(stack) \in Nat
    BY MessageFacts
<1>1. PICK n \in Nat \ {0} : n = Len(stack)
    <2>1. stack # <<>> /\ stack \in Seq(Frames)
        BY DEF IInv, CallsNest, LeaveLevel
    <2>. QED  BY <2>1
<1>2. PICK frame \in Frames : frame = stack[n]
    BY <1>1 DEF IInv, CallsNest
<1>3. /\ pc = "return" /\ ~replay /\ n <= MAX_DEPTH /\ frame.from <= p
      /\ ~incomplete => suspendDepth = -1
    <2>1. pc = "return"
        BY DEF LeaveLevel
    <2>2. ~replay /\ (~incomplete => suspendDepth = -1)
        BY <2>1 DEF IInv, HalfDelivered
    <2>3. n <= MAX_DEPTH
        BY <1>1 DEF IInv, CallsNest
    <2>4. n \in 1..Len(stack)
        BY <1>1
    <2>5. frame.from <= p
        BY <1>2, <2>4 DEF IInv, CallsNest
    <2>. QED  BY <2>1, <2>2, <2>3, <2>5
<1>4. UNCHANGED <<msg, fed, chunk, held, window, capInert, p, cur, incomplete, carry, suspendDepth,
                  replay, pend, pendDone, spanCarry, spanBase, terminal, skipped, answer>>
    BY DEF LeaveLevel, input, windowVars
<1>5. /\ stack' = SubSeq(stack, 1, n - 1)
      /\ spanSkip' = frame.span /\ elem' = frame.elem
      /\ spanSkipped' = IF frame.from = Nowhere THEN spanSkipped
                        ELSE spanSkipped + (p - frame.from)
      /\ path' = IF incomplete THEN [path EXCEPT ![n - 1] = EnterAgain(frame)] ELSE path
      /\ pc' = IF ~incomplete THEN "loop" ELSE IF n = 1 THEN "parsed" ELSE "return"
    BY <1>1, <1>2 DEF LeaveLevel, seqDepth
<1>6. /\ Len(stack') = n - 1 /\ stack' \in Seq(Frames)
      /\ \A d \in 1..(n - 1) : stack'[d] = stack[d]
    <2>1. stack \in Seq(Frames)
        BY DEF IInv, CallsNest
    <2>. QED  BY <1>1, <1>5, <2>1
<1>7. /\ pc' \in {"loop", "parsed", "return"}
      /\ pc' = "loop" <=> ~incomplete
      /\ pc' = "parsed" => n = 1
      /\ pc' = "return" => n # 1
    BY <1>5
<1>8. FlagsTyped'
    BY <1>2, <1>4, <1>5 DEF IInv, FlagsTyped, Frames
<1>9. InputTyped' /\ VerdictTyped'
    BY <1>4 DEF IInv, InputTyped, VerdictTyped
<1>10. CallsNest'
    <2>1. Frames' = Frames
        BY <1>4 DEF Frames
    <2>2. elem' \in 0..Len(msg.fields)
        BY <1>2, <1>5 DEF Frames
    <2>3. ASSUME NEW d \in 1..Len(stack') PROVE stack'[d].from <= p'
        <3>1. d \in 1..(n - 1) /\ d \in 1..Len(stack)
            BY <1>1, <1>6
        <3>2. stack'[d] = stack[d] /\ stack[d].from <= p
            BY <1>6, <3>1 DEF IInv, CallsNest
        <3>. QED  BY <1>4, <3>2
    <2>4. n = 1 => stack' = <<>>
        BY <1>6
    <2>5. n # 1 => stack' # <<>>
        <3>1. n # 1 => Len(stack') # 0
            BY <1>6
        <3>. QED  BY <3>1
    <2>6. cur' \in [k : 0..Len(msg'.fields), skip : BOOLEAN, from : Int]
        BY <1>4 DEF IInv, CallsNest
    <2>7. Len(stack') <= MAX_DEPTH
        BY <1>3, <1>6
    <2>. QED  BY <1>4, <1>6, <1>7, <2>1, <2>2, <2>3, <2>4, <2>5, <2>6, <2>7 DEF CallsNest, Stages
<1>11. WindowIsNext'
    <2>1. p' \in p..Len(window)
        BY <1>4 DEF IInv, WindowIsNext, Consumed
    <2>2. (pc' = "parsed" \/ incomplete') => Len(window) - p' < CARRY_CAP
        BY <1>4, <1>7 DEF IInv, WindowIsNext, Consumed, Avail
    <2>. QED  BY <1>3, <1>4, <1>7, <2>1, <2>2, SameWindow
<1>12. SpansCount'
    <2>1. frame.from \in Int
        BY DEF Frames
    <2>2. p' \in p..Len(window) /\ spanSkipped' \in Nat /\ skipped' \in Nat
        BY <1>3, <1>4, <1>5, <2>1 DEF IInv, SpansCount, WindowIsNext, Consumed
    <2>. QED  BY <1>4, <1>7, <2>2, SameSpans
<1>13. path' \in [0..(MAX_DEPTH - 1) -> [k : Nat, skip : BOOLEAN]]
    <2>1. EnterAgain(frame) \in [k : Nat, skip : BOOLEAN]
        BY DEF Frames, EnterAgain
    <2>2. path \in [0..(MAX_DEPTH - 1) -> [k : Nat, skip : BOOLEAN]]
        BY DEF IInv, HalfDelivered
    <2>. QED  BY <1>5, <2>1, <2>2
<1>14. suspendDepth > 0 => EnteredSkip(suspendDepth)' = EnteredSkip(suspendDepth)
    <2>. SUFFICES ASSUME suspendDepth > 0 PROVE EnteredSkip(suspendDepth)' = EnteredSkip(suspendDepth)
        OBVIOUS
    <2>1. incomplete /\ suspendDepth \in 1..MAX_DEPTH
        BY <1>3 DEF IInv, HalfDelivered
    <2>2. path' = [path EXCEPT ![n - 1] = EnterAgain(frame)]
        BY <1>5, <2>1
    <2>3. path \in [0..(MAX_DEPTH - 1) -> [k : Nat, skip : BOOLEAN]]
        BY DEF IInv, HalfDelivered
    <2>4. CASE suspendDepth < n
        BY <1>1, <1>4, <1>6, <2>1, <2>4 DEF EnteredSkip
    <2>5. CASE suspendDepth = n
        <3>1. path'[n - 1] = EnterAgain(frame)
            BY <1>3, <2>2, <2>3
        <3>. QED  BY <1>1, <1>2, <1>4, <1>6, <2>1, <2>5, <3>1 DEF EnteredSkip, EnterAgain
    <2>6. CASE suspendDepth > n
        <3>1. path'[suspendDepth - 1] = path[suspendDepth - 1]
            BY <2>1, <2>2, <2>3, <2>6
        <3>. QED  BY <1>1, <1>4, <1>6, <2>1, <2>6, <3>1 DEF EnteredSkip
    <2>. QED  BY <2>1, <2>4, <2>5, <2>6
<1>15. HalfDelivered'
    BY <1>3, <1>4, <1>7, <1>13, <1>14 DEF IInv, HalfDelivered, Entries
<1>. QED  BY <1>8, <1>9, <1>10, <1>11, <1>12, <1>15 DEF IInv

\* The parse gives up with nothing half-delivered.
LEMMA SuspendKeeps ==
    ASSUME IInv, pc = "loop", SuspendAtBoundary, Avail < CARRY_CAP,
           UNCHANGED <<input, windowVars, p, cur, carry, replay, path, pendDone, levelVars,
                       terminal, answer>>,
           SpansCount'
    PROVE  IInv'
<1>. /\ Len(msg.fields) \in Nat /\ budget \in Nat /\ Bytes(msg) \in Nat
     /\ MAX_DEPTH \in Nat \ {0} /\ CARRY_CAP \in Nat \ {0} /\ CAP_NEED_MAX \in Nat
     /\ fed \in Nat /\ p \in Nat /\ Len(window) \in Nat /\ Avail \in Nat /\ Len(stack) \in Nat
    BY MessageFacts
<1>. USE DEF input, windowVars, levelVars
<1>1. /\ ~incomplete /\ ~replay /\ incomplete' = TRUE /\ suspendDepth' = Len(stack) /\ pend' = NoPend
      /\ Len(stack) <= MAX_DEPTH
    BY DEF IInv, CallsNest, HalfDelivered, SuspendAtBoundary, seqDepth
<1>2. /\ pc' \in {"parsed", "return"}
      /\ pc' = "parsed" => stack = <<>>
      /\ pc' = "return" => stack # <<>>
    BY DEF SuspendAtBoundary, Leaving
<1>3. FlagsTyped'
    BY <1>1 DEF IInv, FlagsTyped
<1>4. InputTyped' /\ VerdictTyped'
    BY DEF IInv, InputTyped, VerdictTyped
<1>5. CallsNest'
    BY <1>1, <1>2 DEF IInv, CallsNest, Frames, Stages
<1>6. WindowIsNext'
    <2>1. p' \in p..Len(window) /\ Len(window) - p' < CARRY_CAP
        BY DEF IInv, WindowIsNext, Consumed, Avail
    <2>. QED  BY <1>2, <2>1, SameWindow
<1>7. HalfDelivered'
    BY <1>1, <1>2 DEF IInv, HalfDelivered, Entries, NoPend
<1>. QED  BY <1>3, <1>4, <1>5, <1>6, <1>7 DEF IInv

\* The window ends between two fields.
LEMMA WindowEndsKeeps ==
    ASSUME IInv, WindowEnds
    PROVE  IInv'
<1>. /\ Len(msg.fields) \in Nat /\ budget \in Nat /\ Bytes(msg) \in Nat
     /\ MAX_DEPTH \in Nat \ {0} /\ CARRY_CAP \in Nat \ {0} /\ CAP_NEED_MAX \in Nat
     /\ fed \in Nat /\ p \in Nat /\ Len(window) \in Nat /\ Avail \in Nat /\ Len(stack) \in Nat
    BY MessageFacts
<1>1. pc = "loop" /\ Avail = 0 /\ Avail < CARRY_CAP
    BY DEF WindowEnds
<1>2. UNCHANGED <<input, windowVars, p, cur, carry, replay, path, pendDone, spanVars,
                  levelVars, terminal, skipped, got, answer>>
    BY DEF WindowEnds
<1>3. p' \in p..Len(window) /\ spanSkipped' \in Nat /\ skipped' \in Nat
    BY <1>2 DEF IInv, SpansCount, WindowIsNext, Consumed, spanVars
<1>4. CASE stack # <<>>
    <2>1. SuspendAtBoundary
        BY <1>4 DEF WindowEnds
    <2>2. SpansCount'
        BY <1>2, <1>3, <2>1, SameSpans DEF SuspendAtBoundary, Leaving, input, windowVars, spanVars
    <2>. QED  BY <1>1, <1>2, <2>1, <2>2, SuspendKeeps
<1>5. CASE stack = <<>>
    <2>1. /\ pc' = "parsed" /\ UNCHANGED <<incomplete, suspendDepth, pend>>
          /\ ~incomplete /\ ~replay /\ suspendDepth = -1
        BY <1>1, <1>5 DEF IInv, CallsNest, HalfDelivered, WindowEnds
    <2>2. FlagsTyped'
        BY <1>2, <2>1 DEF IInv, FlagsTyped, windowVars, levelVars
    <2>3. InputTyped' /\ VerdictTyped'
        BY <1>2 DEF IInv, InputTyped, VerdictTyped, input
    <2>4. CallsNest'
        BY <1>2, <1>5, <2>1 DEF IInv, CallsNest, Frames, Stages, input, levelVars
    <2>5. WindowIsNext'
        <3>1. Len(window) - p' < CARRY_CAP
            BY <1>1, <1>2 DEF Avail
        <3>. QED  BY <1>1, <1>2, <1>3, <2>1, <3>1, SameWindow DEF input, windowVars
    <2>6. SpansCount'
        BY <1>2, <1>3, <2>1, SameSpans DEF input, windowVars, spanVars
    <2>7. HalfDelivered'
        BY <1>2, <2>1 DEF IInv, HalfDelivered, Entries, input
    <2>. QED  BY <2>2, <2>3, <2>4, <2>5, <2>6, <2>7 DEF IInv
<1>. QED  BY <1>4, <1>5

\* A field of the top level starts a new span, which uses up no more of the budget.
LEMMA StartsSpanKeeps ==
    ASSUME IInv, StartsSpan, p' \in p..Len(window), skipped' \in Nat, pc' # "idle",
           UNCHANGED <<input, windowVars>>
    PROVE  SpansCount'
<1>. /\ Len(msg.fields) \in Nat /\ budget \in Nat /\ Bytes(msg) \in Nat
     /\ MAX_DEPTH \in Nat \ {0} /\ CARRY_CAP \in Nat \ {0} /\ CAP_NEED_MAX \in Nat
     /\ fed \in Nat /\ p \in Nat /\ Len(window) \in Nat /\ Avail \in Nat /\ Len(stack) \in Nat
    BY MessageFacts
<1>. USE DEF input, windowVars
<1>1. CASE stack = <<>>
    <2>1. spanCarry' = 0 /\ spanBase' = p /\ spanSkipped' = 0
        BY <1>1 DEF StartsSpan
    <2>2. capInert => budget - (0 + Len(window) - p) >= CAP_NEED_MAX
        BY DEF IInv, SpansCount
    <2>3. spanBase' \in 0..p'
        BY <2>1
    <2>4. budget' = budget
        BY DEF budget
    <2>. QED  BY <2>1, <2>2, <2>3, <2>4 DEF SpansCount
<1>2. CASE stack # <<>>
    <2>1. UNCHANGED spanVars /\ spanSkipped \in Nat
        BY <1>2 DEF StartsSpan, IInv, SpansCount
    <2>. QED  BY <2>1, SameSpans DEF spanVars
<1>. QED  BY <1>1, <1>2

\* The window ends inside a header.
LEMMA HeaderCutKeeps ==
    ASSUME IInv, HeaderCut
    PROVE  IInv'
<1>. /\ Len(msg.fields) \in Nat /\ budget \in Nat /\ Bytes(msg) \in Nat
     /\ MAX_DEPTH \in Nat \ {0} /\ CARRY_CAP \in Nat \ {0} /\ CAP_NEED_MAX \in Nat
     /\ fed \in Nat /\ p \in Nat /\ Len(window) \in Nat /\ Avail \in Nat /\ Len(stack) \in Nat
    BY MessageFacts
<1>1. pc = "loop" /\ Avail > 0 /\ StartsSpan /\ SuspendAtBoundary
    BY DEF HeaderCut, AtField
<1>2. UNCHANGED <<input, windowVars, p, cur, carry, replay, path, pendDone, levelVars,
                  terminal, answer>>
    BY DEF HeaderCut
<1>3. PICK f : f = At(msg, This)
    OBVIOUS
<1>4. f.tag \in Nat /\ Header(f) \in Nat /\ Header(f) <= CARRY_CAP /\ f.tag <= Header(f)
    BY <1>1, <1>3, ThisFacts, AtFacts
<1>5. ~TagRead(f) \/ ~HeaderRead(f)
    BY <1>3 DEF HeaderCut
<1>6. Avail < CARRY_CAP
    BY <1>4, <1>5 DEF TagRead, HeaderRead
<1>7. skipped' \in Nat
    BY DEF IInv, SpansCount, HeaderCut, SkipCount
<1>8. SpansCount'
    <2>1. p' \in p..Len(window) /\ pc' # "idle"
        BY <1>1, <1>2 DEF IInv, WindowIsNext, Consumed, SuspendAtBoundary, Leaving
    <2>. QED  BY <1>1, <1>2, <1>7, <2>1, StartsSpanKeeps
<1>. QED  BY <1>1, <1>2, <1>6, <1>8, SuspendKeeps

\* No open call has begun behind a parse that only goes forward.
LEMMA FramesStay ==
    ASSUME IInv, stack' = stack, p' \in p..Len(window)
    PROVE  \A d \in 1..Len(stack') : stack'[d].from <= p'
<1>. SUFFICES ASSUME NEW d \in 1..Len(stack) PROVE stack[d].from <= p'
    OBVIOUS
<1>1. stack[d] \in Frames /\ stack[d].from <= p
    BY DEF IInv, CallsNest
<1>2. stack[d].from \in Int /\ p \in Nat
    BY <1>1, MessageFacts DEF Frames
<1>. QED  BY <1>1, <1>2

\* An end marker closes the level.
LEMMA SequenceOverKeeps ==
    ASSUME IInv, SequenceOver
    PROVE  IInv'
<1>. /\ Len(msg.fields) \in Nat /\ budget \in Nat /\ Bytes(msg) \in Nat
     /\ MAX_DEPTH \in Nat \ {0} /\ CARRY_CAP \in Nat \ {0} /\ CAP_NEED_MAX \in Nat
     /\ fed \in Nat /\ p \in Nat /\ Len(window) \in Nat /\ Avail \in Nat /\ Len(stack) \in Nat
    BY MessageFacts
<1>1. /\ pc = "loop" /\ Avail > 0 /\ stack # <<>> /\ pc' = "return"
      /\ ~incomplete /\ ~replay /\ suspendDepth = -1
    BY DEF IInv, CallsNest, HalfDelivered, SequenceOver, AtField
<1>2. UNCHANGED <<input, windowVars, cur, incomplete, resumeVars, pendDone, spanVars,
                  levelVars, terminal, skipped, answer>>
    BY DEF SequenceOver
<1>3. PICK f : f = At(msg, This)
    OBVIOUS
<1>4. f.tag \in Nat
    BY <1>1, <1>3, ThisFacts, AtFacts
<1>5. p' = p + f.tag /\ Avail >= f.tag
    BY <1>3 DEF SequenceOver, TagRead
<1>6. p' \in p..Len(window) /\ p' \in Nat
    BY <1>4, <1>5 DEF Avail
<1>. USE DEF input, windowVars, resumeVars, spanVars, levelVars
<1>7. FlagsTyped' /\ InputTyped' /\ VerdictTyped'
    BY <1>2 DEF IInv, FlagsTyped, InputTyped, VerdictTyped
<1>8. CallsNest'
    <2>1. \A d \in 1..Len(stack') : stack'[d].from <= p'
        BY <1>2, <1>6, FramesStay
    <2>. QED  BY <1>1, <1>2, <2>1 DEF IInv, CallsNest, Frames, Stages
<1>9. WindowIsNext'
    BY <1>1, <1>2, <1>6, SameWindow
<1>10. SpansCount'
    <2>1. spanSkipped' \in Nat /\ skipped' \in Nat
        BY <1>2 DEF IInv, SpansCount
    <2>. QED  BY <1>1, <1>2, <1>6, <2>1, SameSpans
<1>11. HalfDelivered'
    BY <1>1, <1>2 DEF IInv, HalfDelivered, Entries
<1>. QED  BY <1>7, <1>8, <1>9, <1>10, <1>11 DEF IInv

\* A header is complete, and its field is to be delivered.
LEMMA AcceptKeeps ==
    ASSUME IInv, Accept
    PROVE  IInv'
<1>. /\ Len(msg.fields) \in Nat /\ budget \in Nat /\ Bytes(msg) \in Nat
     /\ MAX_DEPTH \in Nat \ {0} /\ CARRY_CAP \in Nat \ {0} /\ CAP_NEED_MAX \in Nat
     /\ fed \in Nat /\ p \in Nat /\ Len(window) \in Nat /\ Avail \in Nat /\ Len(stack) \in Nat
    BY MessageFacts
<1>1. /\ pc = "loop" /\ Avail > 0 /\ pc' = "deliver" /\ pendDone' = 0 /\ StartsSpan
      /\ ~incomplete /\ ~replay /\ suspendDepth = -1
    BY DEF IInv, CallsNest, HalfDelivered, Accept, AtField
<1>2. UNCHANGED <<input, windowVars, incomplete, resumeVars, levelVars, terminal, answer>>
    BY DEF Accept
<1>3. PICK f : f = At(msg, This)
    OBVIOUS
<1>4. /\ This \in 1..Len(msg.fields) /\ Header(f) \in Nat
      /\ f.units \in Nat /\ f.width \in Nat \ {0}
    BY <1>1, <1>3, ThisFacts, AtFacts
<1>5. PICK skip \in BOOLEAN : skip = OtherType(f)
    BY DEF OtherType
<1>6. /\ p' = p + Header(f) /\ Avail >= Header(f)
      /\ cur' = [k |-> This, skip |-> skip, from |-> IF stack = <<>> THEN Nowhere ELSE p]
    BY <1>3, <1>5 DEF Accept, WellFormed, HeaderRead
<1>7. p' \in p..Len(window) /\ p' \in Nat
    BY <1>4, <1>6 DEF Avail
<1>. USE DEF input, windowVars, resumeVars, levelVars
<1>8. FlagsTyped' /\ InputTyped' /\ VerdictTyped'
    BY <1>2 DEF IInv, FlagsTyped, InputTyped, VerdictTyped
<1>9. CallsNest'
    <2>1. \A d \in 1..Len(stack') : stack'[d].from <= p'
        BY <1>2, <1>7, FramesStay
    <2>2. cur' \in [k : 0..Len(msg'.fields), skip : BOOLEAN, from : Int]
        BY <1>2, <1>4, <1>6 DEF Nowhere
    <2>3. cur'.k # 0 /\ cur'.from <= p'
        BY <1>4, <1>6, <1>7 DEF Nowhere
    <2>. QED  BY <1>1, <1>2, <2>1, <2>2, <2>3 DEF IInv, CallsNest, Frames, Stages
<1>10. WindowIsNext'
    BY <1>1, <1>2, <1>7, SameWindow
<1>11. SpansCount'
    <2>1. skipped' \in Nat
        BY DEF IInv, SpansCount, Accept
    <2>. QED  BY <1>1, <1>2, <1>7, <2>1, StartsSpanKeeps
<1>12. HalfDelivered'
    <2>1. Current' = f
        BY <1>2, <1>3, <1>6 DEF Current
    <2>2. Total' \in Nat
        <3>1. Takes' \in BOOLEAN
            BY DEF Takes, Asked
        <3>2. TotalIf(Takes', f) \in Nat
            BY <1>4, <3>1, TotalIsNat
        <3>. QED  BY <2>1, <3>2, TotalIs
    <2>3. pendDone' <= Total'
        BY <1>1, <2>2
    <2>. QED  BY <1>1, <1>2, <2>3 DEF IInv, HalfDelivered, Entries
<1>. QED  BY <1>8, <1>9, <1>10, <1>11, <1>12 DEF IInv

\* What is taken of a payload is there, and within it; when more is waited for, less
\* than one unit is left over.
LEMMA TakenFits ==
    ASSUME IInv, pc = "deliver"
    PROVE  /\ Taken \in Nat /\ Taken * Grain \in Nat /\ Taken * Grain <= Avail
           /\ pendDone + Taken \in Nat /\ pendDone + Taken <= Total /\ Total \in Nat
           /\ ~Over => Avail - Taken * Grain < CARRY_CAP
<1>. /\ Len(msg.fields) \in Nat /\ budget \in Nat /\ Bytes(msg) \in Nat
     /\ MAX_DEPTH \in Nat \ {0} /\ CARRY_CAP \in Nat \ {0} /\ CAP_NEED_MAX \in Nat
     /\ fed \in Nat /\ p \in Nat /\ Len(window) \in Nat /\ Avail \in Nat /\ Len(stack) \in Nat
    BY MessageFacts
<1>1. cur.k \in 1..Len(msg.fields) /\ pendDone \in Nat /\ pendDone <= Total
    BY DEF IInv, CallsNest, HalfDelivered
<1>2. /\ Current.units \in Nat /\ Current.width \in Nat \ {0} /\ Current.width <= CARRY_CAP
    BY <1>1, AtFacts DEF Current
<1>3. Takes \in BOOLEAN
    BY DEF Takes, Asked
<1>4. Total \in Nat
    BY <1>2, <1>3, TotalIs, TotalIsNat
<1>5. PICK g \in Nat \ {0} : g = Grain /\ g <= CARRY_CAP
    BY <1>2 DEF Grain
<1>6. PICK q \in Nat : q = Avail \div g /\ q * g <= Avail /\ Avail - q * g < g
    BY <1>5, WholeUnits
<1>7. PICK rest \in Nat : rest = Total - pendDone
    BY <1>1, <1>4
<1>8. Taken = Min({q, rest})
    BY <1>5, <1>6, <1>7 DEF Taken
<1>9. PICK t \in Nat : t = Taken /\ t = IF q <= rest THEN q ELSE rest
    BY <1>8, MinOfTwo
<1>10. t <= q /\ t <= rest
    BY <1>9
<1>11. t * g \in Nat /\ t * g <= Avail
    BY <1>6, <1>10, FewerUnits
<1>12. ASSUME ~Over PROVE Avail - Taken * Grain < CARRY_CAP
    <2>1. t # rest
        BY <1>1, <1>4, <1>7, <1>9, <1>12 DEF Over
    <2>2. t = q
        BY <1>9, <2>1
    <2>. QED  BY <1>5, <1>6, <1>9, <2>2
<1>13. pendDone + t <= Total
    BY <1>1, <1>4, <1>7, <1>10
<1>. QED  BY <1>1, <1>4, <1>5, <1>9, <1>11, <1>12, <1>13

\* A payload is read or skipped, as far as it has arrived.
LEMMA DeliverPayloadKeeps ==
    ASSUME IInv, DeliverPayload
    PROVE  IInv'
<1>. /\ Len(msg.fields) \in Nat /\ budget \in Nat /\ Bytes(msg) \in Nat
     /\ MAX_DEPTH \in Nat \ {0} /\ CARRY_CAP \in Nat \ {0} /\ CAP_NEED_MAX \in Nat
     /\ fed \in Nat /\ p \in Nat /\ Len(window) \in Nat /\ Avail \in Nat /\ Len(stack) \in Nat
    BY MessageFacts
<1>1. /\ pc = "deliver" /\ ~incomplete /\ ~replay /\ suspendDepth = -1
      /\ cur.k \in 1..Len(msg.fields) /\ cur.from \in Int /\ cur.from <= p
    BY DEF IInv, CallsNest, HalfDelivered, DeliverPayload
<1>2. skipped' \in Nat
    BY DEF IInv, SpansCount, DeliverPayload, NewSkips
<1>3. CASE Refused("InvalidMessage")
    BY <1>1, <1>2, <1>3, RefusedKeeps DEF Verdicts
<1>4. CASE ~Refused("InvalidMessage")
    <2>1. /\ p' = p + Taken * Grain
          /\ spanSkipped' = IF Takes \/ cur.from = Nowhere THEN spanSkipped
                            ELSE spanSkipped + (p' - cur.from)
          /\ incomplete' = ~Over
          /\ IF Over THEN /\ pend' = NoPend /\ pendDone' = 0 /\ pc' = "loop"
                          /\ suspendDepth' = suspendDepth
             ELSE /\ pend' = [k |-> cur.k, skip |-> ~Takes]
                  /\ pendDone' = pendDone + Taken
                  /\ suspendDepth' = seqDepth
                  /\ pc' = Leaving
          /\ UNCHANGED <<input, windowVars, cur, carry, replay, path, spanCarry, spanBase,
                         levelVars, terminal, answer>>
        BY <1>4 DEF DeliverPayload
    <2>. USE DEF input, windowVars, levelVars
    <2>2. p' \in p..Len(window) /\ p' \in Nat
        <3>1. PICK t \in Nat : t = Taken * Grain /\ t <= Avail
            BY <1>1, TakenFits
        <3>. QED  BY <2>1, <3>1 DEF Avail
    <2>3. incomplete' <=> ~Over
        BY <2>1
    <2>4. incomplete' => Len(window) - p' < CARRY_CAP
        <3>1. PICK t \in Nat : t = Taken * Grain /\ (~Over => Avail - t < CARRY_CAP)
            BY <1>1, TakenFits
        <3>. QED  BY <2>1, <2>3, <3>1 DEF Avail
    <2>5. /\ pc' \in {"loop", "parsed", "return"}
          /\ pc' = "loop" <=> ~incomplete'
          /\ pc' = "parsed" => stack = <<>>
          /\ pc' = "return" => stack # <<>>
        BY <2>1, <2>3 DEF Leaving
    <2>6. FlagsTyped'
        <3>1. incomplete' \in BOOLEAN
            BY <2>1 DEF Over
        <3>. QED  BY <2>1, <3>1 DEF IInv, FlagsTyped
    <2>7. InputTyped' /\ VerdictTyped'
        BY <2>1 DEF IInv, InputTyped, VerdictTyped
    <2>8. CallsNest'
        <3>1. \A d \in 1..Len(stack') : stack'[d].from <= p'
            BY <2>1, <2>2, FramesStay
        <3>. QED  BY <2>1, <2>5, <3>1 DEF IInv, CallsNest, Frames, Stages
    <2>9. WindowIsNext'
        BY <1>1, <2>1, <2>2, <2>4, <2>5, SameWindow
    <2>10. SpansCount'
        <3>1. spanSkipped' \in Nat
            BY <1>1, <2>1, <2>2 DEF IInv, SpansCount
        <3>. QED  BY <1>2, <2>1, <2>2, <2>5, <3>1, SameSpans
    <2>11. HalfDelivered'
        <3>1. CASE Over
            <4>1. pend' = NoPend /\ pendDone' = 0 /\ pc' = "loop" /\ suspendDepth' = -1
                BY <1>1, <2>1, <3>1
            <4>2. pend' \in Entries' /\ path' \in [0..(MAX_DEPTH - 1) -> [k : Nat, skip : BOOLEAN]] /\ ~replay'
                BY <1>1, <2>1, <4>1 DEF IInv, HalfDelivered, Entries, NoPend
            <4>. QED  BY <4>1, <4>2 DEF HalfDelivered
        <3>2. CASE ~Over
            <4>1. /\ pend' = [k |-> cur.k, skip |-> ~Takes] /\ pendDone' = pendDone + Taken
                  /\ suspendDepth' = Len(stack) /\ Len(stack) <= MAX_DEPTH /\ incomplete'
                BY <2>1, <2>3, <3>2 DEF seqDepth, IInv, CallsNest
            <4>2. Takes \in BOOLEAN
                BY DEF Takes, Asked
            <4>3. pend' \in Entries
                BY <1>1, <4>1 DEF Entries
            <4>4. pendDone' \in Nat /\ pendDone' <= TotalIf(Takes, Current)
                BY <1>1, <4>1, TakenFits, TotalIs
            <4>5. At(msg', pend'.k) = Current /\ pend'.k # 0
                BY <1>1, <2>1, <4>1 DEF Current
            <4>6. TotalIf(~pend'.skip, Current) = TotalIf(Takes, Current)
                <5>1. ~pend'.skip <=> Takes
                    BY <4>1
                <5>. QED  BY <5>1 DEF TotalIf
            <4>7. ~pend'.skip => /\ ~Declining(Current)
                                 /\ suspendDepth' > 0 => ~EnteredSkip(suspendDepth)'
                <5>1. ASSUME ~pend'.skip, Len(stack) > 0 PROVE ~stack[Len(stack)].skip
                    <6>1. Takes
                        BY <4>1, <5>1
                    <6>2. ~InSkip
                        BY <6>1 DEF Takes, Asked
                    <6>. QED  BY <5>1, <6>2 DEF InSkip, seqDepth
                <5>2. stack' = stack
                    BY <2>1
                <5>3. ~pend'.skip => ~Declining(Current)
                    BY <4>1 DEF Takes
                <5>. QED  BY <4>1, <5>1, <5>2, <5>3 DEF EnteredSkip
            <4>8. path' \in [0..(MAX_DEPTH - 1) -> [k : Nat, skip : BOOLEAN]] /\ Entries' = Entries
                BY <2>1 DEF IInv, HalfDelivered, Entries
            <4>9. suspendDepth' \in -1..MAX_DEPTH
                BY <4>1
            <4>10. /\ replay' <=> pc' = "enter"
                   /\ pc' # "enter" /\ pc' # "deliver" /\ pc' # "loop"
                BY <1>1, <2>1, <2>5, <4>1
            <4>11. pendDone' <= TotalIf(~pend'.skip, At(msg', pend'.k))
                BY <4>4, <4>5, <4>6
            <4>12. ~pend'.skip => ~Declining(At(msg', pend'.k))
                BY <4>5, <4>7
            <4>. QED  BY <4>1, <4>3, <4>4, <4>5, <4>7, <4>8, <4>9, <4>10, <4>11, <4>12 DEF HalfDelivered
        <3>. QED  BY <3>1, <3>2
    <2>. QED  BY <2>6, <2>7, <2>8, <2>9, <2>10, <2>11 DEF IInv
<1>. QED  BY <1>3, <1>4

------------------------------------------------------------------------------
(* Every step keeps the invariant. *)

\* Every step keeps the invariant.
LEMMA StepKeeps == IInv /\ PathKnown /\ [Next \/ AnyReset]_vars => IInv'
<1>. SUFFICES ASSUME IInv, PathKnown, [Next \/ AnyReset]_vars PROVE IInv'
    OBVIOUS
<1>1. CASE UNCHANGED vars
    BY <1>1, StutterKeeps
<1>2. CASE KeepCarrying \/ ParseTheRest \/ Stash
    BY <1>2, KeepCarryingKeeps, ParseTheRestKeeps, StashKeeps
<1>3. CASE Descend \/ Resume \/ LeaveLevel
    BY <1>3, DescendKeeps, ResumeKeeps, LeaveLevelKeeps
<1>4. CASE WindowEnds \/ RefuseSpan \/ HeaderCut \/ RefuseHeader \/ SequenceOver
    BY <1>4, WindowEndsKeeps, RefuseSpanKeeps, HeaderCutKeeps, RefuseHeaderKeeps, SequenceOverKeeps
<1>5. CASE RefuseWithheld \/ Accept
    BY <1>5, RefuseWithheldKeeps, AcceptKeeps
<1>6. CASE DeliverRefused \/ DeliverSequence \/ DeliverPayload
    BY <1>6, DeliverRefusedKeeps, DeliverSequenceKeeps, DeliverPayloadKeeps
<1>7. CASE FeedNothing \/ \E n \in 1..Bytes(msg) : Feed(n)
    BY <1>7, FeedNothingKeeps, FeedKeeps
<1>8. CASE Reset \/ AnyReset
    <2>1. msg \in Decodings
        BY DEF IInv, InputTyped
    <2>. QED  BY <1>8, <2>1, ResetKeeps DEF Reset, AnyReset
<1>. QED  BY <1>1, <1>2, <1>3, <1>4, <1>5, <1>6, <1>7, <1>8 DEF Next, ParseStep

\* Nor does a step leave anything in the path that is not a field of the message.
LEMMA StepKeepsPath == IInv /\ PathTyped /\ [Next]_vars => PathTyped'
<1>. SUFFICES ASSUME IInv, PathTyped, [Next]_vars PROVE PathTyped'
    OBVIOUS
<1>1. msg' = msg
    BY DEF Next, ParseStep, vars, input, KeepCarrying, Stash, ParseTheRest, Descend, Resume, LeaveLevel,
           WindowEnds, RefuseSpan, HeaderCut, RefuseHeader, SequenceOver, RefuseWithheld, Accept,
           DeliverRefused, DeliverSequence, DeliverPayload, FeedNothing, Reset, ResetTo, Feed, Carry,
           Refused
<1>2. CASE LeaveLevel
    <2>1. PICK n \in Nat \ {0} : n = Len(stack) /\ stack[n] \in Frames
        BY <1>2 DEF IInv, CallsNest, LeaveLevel
    <2>2. EnterAgain(stack[n]) \in Entries
        BY <2>1 DEF Frames, Entries, EnterAgain
    <2>3. path' = path \/ path' = [path EXCEPT ![n - 1] = EnterAgain(stack[n])]
        BY <1>2, <2>1 DEF LeaveLevel, seqDepth
    <2>. QED  BY <1>1, <2>2, <2>3 DEF PathTyped, Entries
<1>3. CASE ~LeaveLevel
    <2>1. path' = path
        BY <1>3 DEF Next, ParseStep, vars, resumeVars, KeepCarrying, Stash, ParseTheRest, Descend, Resume,
           WindowEnds, RefuseSpan, HeaderCut, RefuseHeader, SequenceOver, RefuseWithheld, Accept,
           DeliverRefused, DeliverSequence, DeliverPayload, FeedNothing, Reset, ResetTo, Feed, Carry,
           Refused
    <2>. QED  BY <1>1, <2>1 DEF PathTyped, Entries
<1>. QED  BY <1>2, <1>3

LEMMA TypedIsKnown == IInv /\ PathTyped => PathKnown
BY MessageFacts DEF IInv, HalfDelivered, PathTyped, PathKnown, seqDepth

LEMMA InitTyped == Init => PathTyped
BY FieldAssumption, DecodingsAreLaid DEF Init, PathTyped, Entries, NoPend, Laid

\* The windows, the carry buffer, the calls and the counters of the decoder belong
\* together in every state, whatever was fed, in whatever pieces, and after any reset().
THEOREM DecoderInvariant == Spec => []IInv /\ []PathTyped
<1>1. IInv /\ PathTyped /\ [Next]_vars => IInv' /\ PathTyped'
    BY StepKeeps, StepKeepsPath, TypedIsKnown
<1>. QED  BY <1>1, InitHolds, InitTyped, PTL DEF Spec

\* Every variable of the decoder keeps its type, and no step consumes more than the
\* window holds.
THEOREM TypeCorrect == Spec => []TypeOK
BY DecoderInvariant, IInvIsTyped, PTL

\* The recursion of dispatchLevel, read and skipSequence stays within MAX_DEPTH, also
\* where a suspended parse enters its path again (sofab.hpp:3055-3068).
THEOREM RecursionBounded == Spec => []DepthBounded
<1>1. IInv => DepthBounded
    BY DEF IInv, CallsNest, DepthBounded, seqDepth
<1>. QED  BY <1>1, DecoderInvariant, PTL

\* Between two feeds carry_ holds the last bytes that were fed, in their order, and has
\* room for one more: no byte is lost, repeated or moved, however the message is cut.
THEOREM CarryExact == Spec => []CarryIsTail
<1>1. IInv => CarryIsTail
    <2>. SUFFICES ASSUME IInv PROVE CarryIsTail
        OBVIOUS
    <2>1. Len(carry) < CARRY_CAP /\ carry = LastFed(Len(carry))
        BY DEF IInv, WindowIsNext, CarryFollows
    <2>. QED  BY <2>1 DEF CarryIsTail, LastFed, Run
<1>. QED  BY <1>1, DecoderInvariant, PTL

\* A window in which the budget tests are off holds nothing they would have refused.
LEMMA InertCapHolds == IInv => InertCapNeverFires
<1>. SUFFICES ASSUME IInv, capInert, pc = "loop", Avail > 0
              PROVE  /\ SpannedLive <= budget
                     /\ Avail >= Header(At(msg, This))
                          => ~Exceeds(Header(At(msg, This)), At(msg, This), budget)
    BY DEF InertCapNeverFires
<1>. /\ budget \in Nat /\ p \in Nat /\ Len(window) \in Nat /\ Avail \in Nat /\ CAP_NEED_MAX \in Nat
    BY MessageFacts
<1>1. /\ spanBase \in 0..p /\ spanCarry \in Nat /\ spanSkipped \in Nat /\ p <= Len(window)
      /\ budget - (spanCarry + Len(window) - spanBase) >= CAP_NEED_MAX
    BY DEF IInv, SpansCount, WindowIsNext, Consumed
<1>2. SpannedLive <= budget
    BY <1>1 DEF SpannedLive, Spans, Less
<1>3. ASSUME Avail >= Header(At(msg, This))
      PROVE  ~Exceeds(Header(At(msg, This)), At(msg, This), budget)
    <2>1. PICK f : f = At(msg, This)
        OBVIOUS
    <2>2. PICK h \in Nat : h = Header(f)
        BY <2>1, ThisFacts, AtFacts
    <2>3. f.units \in Nat /\ f.width \in Nat \ {0} /\ f.units * f.width <= CAP_NEED_MAX
        BY <2>1, ThisFacts, AtFacts
    <2>4. h <= Len(window) - p
        BY <1>3, <2>1, <2>2 DEF Avail
    <2>5. budget - h >= CAP_NEED_MAX /\ ~(h > budget)
        BY <1>1, <2>4
    <2>6. f.units <= f.units * f.width /\ f.units * f.width \in Nat
        BY <2>3, AtLeastUnits
    <2>7. ~Exceeds(h, f, budget)
        BY <2>3, <2>5, <2>6 DEF Exceeds
    <2>. QED  BY <2>1, <2>2, <2>7
<1>. QED  BY <1>2, <1>3

\* capCannotFire decides once for a window; none of the budget tests it switches off
\* would have refused the field the parse is at (sofab.hpp:3106-3122).
THEOREM InertCapSound == Spec => []InertCapNeverFires
BY InertCapHolds, DecoderInvariant, PTL

------------------------------------------------------------------------------
(* Where the decoder is in its message: in which field, behind which of its    *)
(* bytes, inside which sequences; and that the path it notes when it is        *)
(* suspended leads back there, however the message is cut.                     *)

\* The bytes that are parsed, and the field that the parse is in: while one is being
\* delivered that field, and else the one that goes on behind those bytes.
Pos == fed - Len(carry) - Len(chunk) - held + p
Site == IF pc = "deliver" THEN cur.k ELSE FieldAfter(msg, Pos)
OpenHere == msg.opens[Site]

\* The sequence that was, or is to be, entered at depth d.
EnteredId(d) == IF d <= Len(stack) THEN stack[d].k ELSE path[d - 1].k

\* The calls, and below them the noted path, are those of the sequences q, each entered
\* as one to be read or to be skipped according to whether it is delivered.
Follows(q) ==
    \A d \in 1..Len(q) :
        EnteredId(d) = q[d] /\ (EnteredSkip(d) <=> q[d] \notin msg.live)

\* The element bounds that are armed are those of the sequence that is being read, and
\* each call restores those that were armed around it.
Reader(d) == IF d = 0 THEN 0 ELSE IF stack[d].skip THEN 0 ELSE stack[d].k
Armed == elem = Reader(Len(stack)) /\ \A d \in 1..Len(stack) : stack[d].elem = Reader(d - 1)

\* A parse that is suspended, or on its way back to where it was.
Going == pc = "enter" \/ incomplete

Depths ==
    /\ pc \in {"loop", "deliver"} => Len(stack) = Len(OpenHere)
    /\ pc = "return" /\ ~incomplete => Len(stack) = Len(OpenHere) + 1
    /\ Going => suspendDepth = Len(OpenHere) /\ Len(stack) <= Len(OpenHere)
    /\ pc \in {"idle", "parsed"} /\ ~incomplete => suspendDepth = -1 /\ OpenHere = <<>>

\* The position behind n units of the payload of field k.
GrainIf(takes, f) == IF takes \/ f.type \in Varints THEN f.width ELSE 1
Behind(k, n) == msg.start[k] + Header(At(msg, k)) + n * GrainIf(k \in msg.live, At(msg, k))

Delivering ==
    pc = "deliver" =>
        /\ Pos = Behind(cur.k, pendDone)
        /\ Takes <=> cur.k \in msg.live
        /\ Current.type # "end"
        /\ pend # NoPend => pend.k = cur.k
Between ==
    pc # "deliver" =>
        IF pend = NoPend THEN Pos = msg.start[Site]
        ELSE /\ Going /\ pend.k = Site /\ (pend.skip <=> Site \notin msg.live)
             /\ Pos = Behind(Site, pendDone)
Pended == pend # NoPend => At(msg, pend.k).type \notin {"start", "end"}

Located == Follows(OpenHere) /\ Armed /\ Depths /\ Delivering /\ Between /\ Pended
PInv == terminal = "None" => Located

------------------------------------------------------------------------------
(* Arithmetic. *)

\* The bytes of so many units and of so many more.
LEMMA UnitsAdd ==
    ASSUME NEW a \in Int, NEW m \in Nat, NEW n \in Nat, NEW g \in Nat
    PROVE  a + (m + n) * g = (a + m * g) + n * g
<1>1. (m + n) * g = m * g + n * g
    OBVIOUS
<1>2. PICK x \in Int, y \in Int : x = m * g /\ y = n * g
    OBVIOUS
<1>. QED  BY <1>1, <1>2

\* A payload is whole units, of its width or of single bytes.
LEMMA PayloadIsWhole ==
    ASSUME NEW u \in Nat, NEW w \in Nat \ {0}, NEW g \in {w, 1}
    PROVE  ((u * w) \div g) * g = u * w
OBVIOUS

\* Fewer units have fewer bytes.
LEMMA PartIsLess ==
    ASSUME NEW n \in Nat, NEW t \in Nat, NEW g \in Nat \ {0}, n < t
    PROVE  n * g \in Nat /\ n * g < t * g
OBVIOUS

\* The grain of a field, the payload in that grain, and the position behind it.
LEMMA PlaceFacts ==
    ASSUME IInv, NEW k \in 1..Len(msg.fields), NEW n \in Nat,
           n <= TotalIf(k \in msg.live, At(msg, k))
    PROVE  /\ Behind(k, n) \in Nat /\ msg.start[k] \in Nat /\ msg.start[k] <= Behind(k, n)
           /\ k + 1 \in 1..(Len(msg.fields) + 1) /\ msg.start[k + 1] \in Nat
           /\ n = TotalIf(k \in msg.live, At(msg, k)) => Behind(k, n) = msg.start[k + 1]
           /\ n < TotalIf(k \in msg.live, At(msg, k)) => Behind(k, n) < msg.start[k + 1]
<1>1. PICK f : f = At(msg, k)
    OBVIOUS
<1>2. f.units \in Nat /\ f.width \in Nat \ {0} /\ Header(f) \in Nat
    BY <1>1, AtFacts
<1>3. PICK g \in {f.width, 1} : g = GrainIf(k \in msg.live, f)
    BY DEF GrainIf
<1>4. PICK t : t = TotalIf(k \in msg.live, f)
    OBVIOUS
<1>5. t = (f.units * f.width) \div g
    BY <1>3, <1>4 DEF TotalIf, GrainIf
<1>6. PICK z \in Nat : z = f.units * f.width
    BY <1>2
<1>7. g \in Nat \ {0} /\ t \in Nat /\ t * g = z
    <2>1. g \in Nat \ {0}
        BY <1>2
    <2>2. t \in Nat
        BY <1>5, <1>6, <2>1, WholeUnits
    <2>. QED  BY <1>2, <1>5, <1>6, <2>1, <2>2, PayloadIsWhole
<1>8. PICK x \in Nat : x = n * g
    BY <1>7
<1>9. (n = t => x = z) /\ (n < t => x < z)
    BY <1>7, <1>8, PartIsLess
<1>10. Laid(msg) /\ Len(msg.fields) \in Nat
    BY MessageFacts
<1>11. k \in 1..(Len(msg.fields) + 1) /\ k + 1 \in 1..(Len(msg.fields) + 1)
    BY <1>10
<1>12. msg.start[k] \in Nat /\ msg.start[k + 1] \in Nat
    BY <1>10, <1>11 DEF Laid
<1>13. msg.start[k + 1] = msg.start[k] + Size(f)
    BY <1>1, <1>10 DEF Laid, Fields
<1>14. PICK s \in Nat, h \in Nat : s = msg.start[k] /\ h = Header(f)
    BY <1>2, <1>12
<1>15. Behind(k, n) = s + h + x
    BY <1>1, <1>3, <1>8, <1>14 DEF Behind
<1>16. msg.start[k + 1] = s + h + z
    BY <1>6, <1>13, <1>14 DEF Size
<1>17. /\ s + h + x \in Nat /\ s <= s + h + x
       /\ (n = t => s + h + x = s + h + z) /\ (n < t => s + h + x < s + h + z)
    BY <1>9
<1>. QED  BY <1>1, <1>4, <1>11, <1>12, <1>14, <1>15, <1>16, <1>17

------------------------------------------------------------------------------
(* What the invariant gives. *)

\* The bytes that are parsed lie before those that were fed, and This is the field of the next.
LEMMA PosFacts ==
    ASSUME IInv
    PROVE  /\ Pos \in Nat /\ Len(chunk) \in Nat /\ held \in Nat /\ Len(carry) \in Nat
           /\ pc = "idle" => Pos = fed - Len(carry)
           /\ pc # "idle" => Len(carry) = 0 /\ Pos = fed - Len(chunk) - held + p
           /\ Avail > 0 => This = FieldAfter(msg, Pos) /\ This \in Fields(msg)
<1>. /\ Len(msg.fields) \in Nat /\ Bytes(msg) \in Nat /\ CARRY_CAP \in Nat \ {0}
     /\ fed \in Nat /\ p \in Nat /\ Len(window) \in Nat /\ Avail \in Nat
    BY MessageFacts
<1>1. Len(<<>>) = 0
    OBVIOUS
<1>2. Len(chunk) \in Nat /\ held \in Nat /\ Len(carry) \in Nat
    BY DEF IInv, WindowIsNext, WindowFollows, CarryFollows
<1>3. pc = "idle" => Pos = fed - Len(carry) /\ Len(carry) <= fed
    BY <1>1, <1>2 DEF Pos, IInv, WindowIsNext, CarryFollows, Consumed
<1>4. pc # "idle" => Len(carry) = 0 /\ Pos = fed - Len(chunk) - held + p
    BY <1>1, <1>2 DEF Pos, IInv, WindowIsNext, CarryFollows
<1>5. held + Len(chunk) <= fed
    BY DEF IInv, WindowIsNext, WindowFollows
<1>6. Pos \in Nat
    BY <1>2, <1>3, <1>4, <1>5
<1>7. ASSUME Avail > 0 PROVE This = FieldAfter(msg, Pos) /\ This \in Fields(msg)
    <2>1. p + 1 \in 1..Len(window) /\ pc # "idle"
        BY <1>1, <1>7 DEF Avail, IInv, WindowIsNext, Consumed
    <2>2. fed - Len(chunk) - held \in Int
        BY <1>2
    <2>3. PICK a \in Int : a = fed - Len(chunk) - held
        BY <2>2
    <2>4. window = Run(a, Len(window))
        BY <2>3 DEF IInv, WindowIsNext, WindowFollows
    <2>5. window[p + 1] = a + (p + 1)
        <3>1. Run(a, Len(window))[p + 1] = a + (p + 1)
            BY <2>1, RunIsSeq
        <3>. QED  BY <2>4, <3>1
    <2>6. window[p + 1] = Pos + 1
        BY <1>2, <1>4, <2>1, <2>3, <2>5
    <2>7. window[p + 1] \in 1..fed /\ fed \in 0..Bytes(msg)
        BY <2>1, WindowIsSeq DEF IInv, InputTyped
    <2>8. ~(Pos + 1 > Bytes(msg))
        BY <1>6, <2>6, <2>7
    <2>9. This \in Fields(msg)
        BY <1>7, ThisFacts DEF Fields
    <2>. QED  BY <2>6, <2>8, <2>9 DEF This, FieldAfter
<1>. QED  BY <1>2, <1>3, <1>4, <1>6, <1>7

\* The field the parse is in is one of the message or its end, and so are the sequences open there.
LEMMA SiteFacts ==
    ASSUME IInv
    PROVE  /\ Site \in 1..(Len(msg.fields) + 1) /\ OpenHere \in Seq(Nat)
           /\ pc = "deliver" => cur.k \in 1..Len(msg.fields)
           /\ msg.start[Site] \in Nat
<1>. Len(msg.fields) \in Nat /\ Bytes(msg) \in Nat /\ Laid(msg)
    BY MessageFacts
<1>1. FieldAfter(msg, Pos) \in 1..(Len(msg.fields) + 1)
    <2>1. CASE Pos + 1 > Bytes(msg)
        BY <2>1 DEF FieldAfter
    <2>2. CASE ~(Pos + 1 > Bytes(msg))
        <3>1. Pos + 1 \in 1..Bytes(msg)
            BY <2>2, PosFacts
        <3>2. msg.owner[Pos + 1] \in 1..Len(msg.fields)
            BY <3>1 DEF Laid, Fields
        <3>. QED  BY <2>2, <3>2 DEF FieldAfter
    <2>. QED  BY <2>1, <2>2
<1>2. pc = "deliver" => cur.k \in 1..Len(msg.fields)
    BY DEF IInv, CallsNest
<1>3. Site \in 1..(Len(msg.fields) + 1)
    BY <1>1, <1>2 DEF Site
<1>. QED  BY <1>2, <1>3 DEF OpenHere, Laid

\* The calls are those of the sequences around the field the parse is at.
LEMMA CallsAreHere ==
    ASSUME IInv, Located, pc \in {"loop", "deliver"}
    PROVE  /\ Len(stack) = Len(OpenHere)
           /\ \A d \in 1..Len(stack) :
                stack[d].k = OpenHere[d] /\ (stack[d].skip <=> OpenHere[d] \notin msg.live)
           /\ InSkip <=> Nested(msg, Site) /\ Outer(msg, Site) \notin msg.live
           /\ ~InSkip => elem = IF Nested(msg, Site) THEN Outer(msg, Site) ELSE 0
<1>. /\ Len(stack) \in Nat
    BY MessageFacts
<1>1. PICK n \in Nat : n = Len(stack) /\ n = Len(OpenHere)
    BY DEF Located, Depths
<1>2. \A d \in 1..n : stack[d].k = OpenHere[d] /\ (stack[d].skip <=> OpenHere[d] \notin msg.live)
    BY <1>1 DEF Located, Follows, EnteredId, EnteredSkip
<1>3. OpenHere \in Seq(Nat) /\ stack \in Seq(Frames)
    BY SiteFacts DEF IInv, CallsNest
<1>4. (n = 0 <=> stack = <<>>) /\ (n = 0 <=> OpenHere = <<>>)
    <2>1. ASSUME NEW T, NEW q \in Seq(T) PROVE Len(q) = 0 <=> q = <<>>
        OBVIOUS
    <2>2. (Len(stack) = 0 <=> stack = <<>>) /\ (Len(OpenHere) = 0 <=> OpenHere = <<>>)
        BY <1>3, <2>1
    <2>. QED  BY <1>1, <2>2
<1>5. Nested(msg, Site) <=> n # 0
    BY <1>4 DEF Nested, OpenHere
<1>6. Outer(msg, Site) = OpenHere[n]
    BY <1>1 DEF Outer, OpenHere
<1>7. InSkip <=> n # 0 /\ stack[n].skip
    BY <1>1, <1>4 DEF InSkip, seqDepth
<1>8. elem = Reader(n)
    BY <1>1 DEF Located, Armed
<1>9. n # 0 => n \in 1..n
    OBVIOUS
<1>10. InSkip <=> Nested(msg, Site) /\ Outer(msg, Site) \notin msg.live
    BY <1>2, <1>5, <1>6, <1>7, <1>9
<1>11. ~InSkip => elem = IF Nested(msg, Site) THEN Outer(msg, Site) ELSE 0
    BY <1>2, <1>5, <1>6, <1>7, <1>8, <1>9 DEF Reader
<1>. QED  BY <1>1, <1>2, <1>10, <1>11

------------------------------------------------------------------------------
(* Steps that stay where they are. *)

\* Neither the calls nor the sequences open here change.
LEMMA EntriesStay ==
    ASSUME Located, UNCHANGED <<msg, stack, path, elem>>, OpenHere' = OpenHere
    PROVE  Follows(OpenHere)' /\ Armed'
<1>1. \A d : EnteredId(d)' = EnteredId(d) /\ EnteredSkip(d)' = EnteredSkip(d) /\ Reader(d)' = Reader(d)
    BY DEF EnteredId, EnteredSkip, Reader
<1>2. Follows(OpenHere)'
    BY <1>1 DEF Located, Follows
<1>3. Armed'
    BY <1>1 DEF Located, Armed
<1>. QED  BY <1>2, <1>3

\* In addition nothing is half-delivered that was not.
LEMMA PathStays ==
    ASSUME Located, UNCHANGED <<msg, stack, path, elem, pend>>, OpenHere' = OpenHere
    PROVE  Follows(OpenHere)' /\ Armed' /\ Pended'
<1>1. Pended'
    BY DEF Located, Pended, At
<1>. QED  BY <1>1, EntriesStay

\* Nothing moves that says where the parse is.
LEMMA UnmovedKeeps ==
    ASSUME IInv, PInv, UNCHANGED <<msg, fed, chunk, held, p, carry, pc, stack, cur, incomplete,
                                   suspendDepth, path, pend, pendDone, elem, terminal>>
    PROVE  PInv'
<1>. SUFFICES ASSUME Located PROVE Located'
    BY DEF PInv
<1>1. Pos' = Pos
    BY DEF Pos
<1>2. Site' = Site
    BY <1>1 DEF Site, FieldAfter, Bytes
<1>3. OpenHere' = OpenHere
    BY <1>2 DEF OpenHere
<1>4. \A k, n : Behind(k, n)' = Behind(k, n)
    BY DEF Behind, At
<1>5. Current' = Current /\ (Takes' <=> Takes)
    BY DEF Takes, Asked, InSkip, seqDepth, Declining, Current, At
<1>6. Depths'
    BY <1>3 DEF Located, Depths, Going
<1>7. Delivering'
    BY <1>1, <1>4, <1>5 DEF Located, Delivering
<1>8. Between'
    BY <1>1, <1>2, <1>4 DEF Located, Between, Going
<1>. QED  BY <1>3, <1>6, <1>7, <1>8, PathStays DEF Located

\* A window begins or ends.
LEMMA WindowTurns ==
    ASSUME IInv, Located, UNCHANGED <<msg, stack, path, elem, pend, pendDone, suspendDepth>>,
           Pos' = Pos, stack = <<>>,
           \/ pc = "parsed" /\ pc' = "idle" /\ incomplete' = incomplete
           \/ /\ pc \in {"idle", "parsed"} /\ incomplete' = FALSE
              /\ pc' = IF suspendDepth >= 0 THEN "enter" ELSE "loop"
    PROVE  Located'
<1>. /\ Laid(msg) /\ Len(msg.fields) \in Nat /\ MAX_DEPTH \in Nat \ {0}
     /\ fed \in Nat /\ p \in Nat /\ Len(window) \in Nat /\ Avail \in Nat /\ Len(stack) \in Nat
    BY MessageFacts
<1>1. pc # "deliver" /\ pc' # "deliver" /\ Len(stack) = 0 /\ pc \in {"idle", "parsed"}
    OBVIOUS
<1>2. Site' = Site /\ OpenHere' = OpenHere /\ OpenHere \in Seq(Nat)
    BY <1>1, SiteFacts DEF Site, OpenHere, FieldAfter, Bytes
<1>3. \A k, n : Behind(k, n)' = Behind(k, n)
    BY DEF Behind, At
<1>4. /\ incomplete => suspendDepth = Len(OpenHere) /\ suspendDepth >= 0
      /\ ~incomplete => suspendDepth = -1 /\ OpenHere = <<>> /\ Len(OpenHere) = 0
    <2>1. Len(OpenHere) \in Nat
        BY <1>2
    <2>. QED  BY <1>1, <2>1 DEF Located, Depths, Going
<1>5. (Going' <=> incomplete) /\ (pc' = "loop" => ~incomplete)
    BY <1>4 DEF Going
<1>6. Len(OpenHere) \in Nat
    BY <1>2
<1>7. Depths'
    BY <1>1, <1>2, <1>4, <1>5, <1>6 DEF Depths
<1>8. Between'
    BY <1>1, <1>2, <1>3, <1>5 DEF Located, Between, Going
<1>9. Delivering'
    BY <1>1 DEF Delivering
<1>. QED  BY <1>2, <1>7, <1>8, <1>9, PathStays DEF Located

\* feed() of nothing.
LEMMA FeedNothingStays ==
    ASSUME IInv, PInv, FeedNothing
    PROVE  PInv'
BY UnmovedKeeps DEF FeedNothing, input, windowVars, resumeVars, levelVars

\* A refused message has no place any more.
LEMMA RefusedStays ==
    ASSUME NEW e, e # "None", Refused(e)
    PROVE  PInv'
BY DEF PInv, Refused

\* Nothing is open at the first byte of a message.
LEMMA FirstField ==
    ASSUME NEW m, Laid(m)
    PROVE  FieldAfter(m, 0) = 1 /\ m.start[1] = 0 /\ m.opens[1] = <<>>
<1>1. Len(m.fields) \in Nat /\ 1 \in 1..(Len(m.fields) + 1)
    BY DEF Laid
<1>2. m.start[1] = 0 /\ m.opens[1] = <<>>
    BY DEF Laid
<1>3. CASE 1 \in Fields(m)
    <2>1. 1 + 1 \in 1..(Len(m.fields) + 1)
        BY <1>1, <1>3 DEF Fields
    <2>2. m.start[1] < m.start[1 + 1]
        BY <1>1, <2>1 DEF Laid
    <2>3. 0 < m.start[1 + 1]
        BY <1>2, <2>2
    <2>. QED  BY <1>1, <1>2, <1>3, <2>3, FieldAfterIs
<1>4. CASE 1 \notin Fields(m)
    BY <1>1, <1>2, <1>4, FieldAfterIs
<1>. QED  BY <1>2, <1>3, <1>4

\* A message has not begun.
NotBegun ==
    /\ fed = 0 /\ carry = <<>> /\ chunk = <<>> /\ held = 0 /\ p = 0
    /\ pc = "idle" /\ stack = <<>> /\ elem = 0 /\ pend = NoPend /\ incomplete = FALSE
    /\ suspendDepth = -1

\* Then no byte is parsed.
LEMMA FirstPos ==
    ASSUME NotBegun
    PROVE  Pos = 0
<1>1. Pos = 0 - Len(<<>>) - Len(<<>>) - 0 + 0 /\ Len(<<>>) = 0
    BY DEF Pos, NotBegun
<1>2. 0 - 0 - 0 - 0 + 0 = 0
    OBVIOUS
<1>. QED  BY <1>1, <1>2

\* A decoder that has been fed nothing is at the first byte.
LEMMA FreshIsLocated ==
    ASSUME Laid(msg), NotBegun
    PROVE  PInv
<1>1. Pos = 0
    BY FirstPos
<1>2. Site = 1 /\ OpenHere = <<>> /\ msg.start[1] = 0
    BY <1>1, FirstField DEF Site, OpenHere, NotBegun
<1>3. Follows(OpenHere) /\ Armed
    BY <1>2 DEF Follows, Armed, Reader, NotBegun
<1>4. Depths /\ Delivering /\ Between /\ Pended
    BY <1>1, <1>2 DEF Depths, Delivering, Between, Pended, Going, NotBegun
<1>. QED  BY <1>3, <1>4 DEF PInv, Located

\* The same about the state behind a step.
LEMMA FreshStays == Laid(msg)' /\ NotBegun' => PInv'
<1>1. Laid(msg) /\ NotBegun => PInv
    BY FreshIsLocated
<1>. QED  BY <1>1, PTL

\* reset().
LEMMA ResetStays ==
    ASSUME IInv, NEW next \in Decodings, ResetTo(next)
    PROVE  PInv'
<1>1. NotBegun'
    BY DEF ResetTo, windowVars, IInv, WindowIsNext, Consumed, NotBegun
<1>2. Laid(msg)'
    BY DecodingsAreLaid DEF ResetTo
<1>. QED  BY <1>1, <1>2, FreshStays

\* The bytes that are carried and those that are new are the ones to parse: the position stays.
LEMMA FeedStaysHere ==
    ASSUME IInv, NEW n \in 1..Bytes(msg), Feed(n)
    PROVE  Pos' = Pos
<1>. fed \in Nat
    BY MessageFacts
<1>1. PICK new : new = [i \in 1..n |-> fed + i]
    OBVIOUS
<1>2. n \in Nat /\ Len(new) = n
    BY <1>1, MessageFacts
<1>3. PICK w : OpenWindow(w, Len(carry), new, spanCarry)
    BY <1>1 DEF Feed
<1>4. chunk' = new /\ held' = Len(carry) /\ p' = 0 /\ carry' = <<>> /\ fed' = fed + n
    BY <1>3 DEF OpenWindow, Feed
<1>5. Len(<<>>) = 0 /\ pc = "idle" /\ Len(carry) \in Nat
    BY PosFacts DEF Feed
<1>6. Pos' = (fed + n) - 0 - n - Len(carry) + 0
    BY <1>2, <1>4, <1>5 DEF Pos
<1>7. Pos = fed - Len(carry)
    BY <1>5, PosFacts
<1>. QED  BY <1>2, <1>5, <1>6, <1>7

\* A window begins with what was carried.
LEMMA FeedStays ==
    ASSUME IInv, PInv, NEW n \in 1..Bytes(msg), Feed(n)
    PROVE  PInv'
<1>. SUFFICES ASSUME Located PROVE Located'
    BY DEF PInv, Feed
<1>1. pc = "idle" /\ stack = <<>>
    BY DEF Feed, IInv, CallsNest
<1>2. incomplete' = FALSE /\ pc' = IF suspendDepth >= 0 THEN "enter" ELSE "loop"
    BY DEF Feed, OpenWindow
<1>3. UNCHANGED <<msg, stack, path, elem, pend, pendDone, suspendDepth>>
    BY DEF Feed, levelVars
<1>. QED  BY <1>1, <1>2, <1>3, FeedStaysHere, WindowTurns

\* What is carried is what is not parsed: the position stays.
LEMMA CarryStaysHere ==
    ASSUME IInv, NEW e, Carry(e), Parsed, Len(Rest) = Avail, Len(window) = held + Len(chunk)
    PROVE  Pos' = Pos
<1>. fed \in Nat /\ p \in Nat /\ Len(window) \in Nat /\ Avail \in Nat
    BY MessageFacts
<1>1. Len(<<>>) = 0 /\ pc = "parsed"
    BY DEF Parsed
<1>2. Pos' = fed - Avail - 0 - 0 + 0
    BY <1>1 DEF Pos, Carry, Return, input
<1>3. Pos = fed - Len(chunk) - held + p /\ Len(chunk) \in Nat /\ held \in Nat
    BY <1>1, PosFacts
<1>. QED  BY <1>2, <1>3 DEF Avail

\* The feed() ends.
LEMMA CarryStays ==
    ASSUME IInv, PInv, NEW e, Carry(e), Parsed, Len(Rest) = Avail, Len(window) = held + Len(chunk)
    PROVE  PInv'
<1>. SUFFICES ASSUME Located PROVE Located'
    BY DEF PInv, Carry
<1>1. pc = "parsed" /\ stack = <<>>
    BY DEF Parsed, IInv, CallsNest
<1>2. pc' = "idle" /\ UNCHANGED <<msg, stack, path, elem, pend, pendDone, suspendDepth, incomplete>>
    BY DEF Carry, Return, input, levelVars
<1>. QED  BY <1>1, <1>2, CarryStaysHere, WindowTurns

\* The rest of the chunk is parsed from where the stitched window ended.
LEMMA ParseTheRestStaysHere ==
    ASSUME IInv, ParseTheRest
    PROVE  Pos' = Pos
<1>. fed \in Nat /\ p \in Nat /\ Len(window) \in Nat /\ Avail \in Nat
    BY MessageFacts
<1>1. PICK rest : rest = AfterHeld
    OBVIOUS
<1>2. OpenWindow(rest, 0, rest, spanCarry')
    BY <1>1 DEF ParseTheRest
<1>3. chunk' = rest /\ held' = 0 /\ p' = 0 /\ fed' = fed /\ carry' = carry
    BY <1>2 DEF OpenWindow, ParseTheRest, input
<1>4. Len(rest) = Len(chunk) - (p - held) /\ pc = "parsed"
    BY <1>1, ChunkGoesOn DEF ParseTheRest, Parsed
<1>5. /\ Len(carry) = 0 /\ Len(chunk) \in Nat /\ held \in Nat
      /\ Pos = fed - Len(chunk) - held + p
    BY <1>4, PosFacts
<1>6. Pos' = fed - Len(carry) - Len(rest) - 0 + 0
    BY <1>3 DEF Pos
<1>. QED  BY <1>4, <1>5, <1>6

\* The second window of a feed() begins.
LEMMA ParseTheRestStays ==
    ASSUME IInv, PInv, ParseTheRest
    PROVE  PInv'
<1>. SUFFICES ASSUME Located PROVE Located'
    BY DEF PInv, ParseTheRest
<1>1. pc = "parsed" /\ stack = <<>>
    BY DEF ParseTheRest, Parsed, IInv, CallsNest
<1>2. incomplete' = FALSE /\ pc' = IF suspendDepth >= 0 THEN "enter" ELSE "loop"
    BY DEF ParseTheRest, OpenWindow
<1>3. UNCHANGED <<msg, stack, path, elem, pend, pendDone, suspendDepth>>
    BY DEF ParseTheRest, input, levelVars
<1>. QED  BY <1>1, <1>2, <1>3, ParseTheRestStaysHere, WindowTurns

\* The stitched window still ends inside a header or an element.
LEMMA KeepCarryingStays ==
    ASSUME IInv, PInv, KeepCarrying
    PROVE  PInv'
<1>1. CASE Refused("InvalidMessage")
    BY <1>1, RefusedStays
<1>2. CASE ~(Len(window) - held < Len(chunk)) /\ Carry("Incomplete")
    <2>1. Parsed
        BY DEF KeepCarrying
    <2>. QED  BY <1>2, <2>1, AllInWindow, RestIsTail, CarryStays
<1>. QED  BY <1>1, <1>2 DEF KeepCarrying

\* The window is parsed and what it ends in is carried.
LEMMA StashStays ==
    ASSUME IInv, PInv, Stash
    PROVE  PInv'
<1>1. CASE Refused("InvalidMessage")
    BY <1>1, RefusedStays
<1>2. CASE Carry(IF incomplete \/ Rest # <<>> THEN "Incomplete" ELSE "None")
    <2>1. Parsed
        BY DEF Stash
    <2>. QED  BY <1>2, <2>1, AllInWindow, RestIsTail, CarryStays
<1>. QED  BY <1>1, <1>2 DEF Stash

------------------------------------------------------------------------------
(* The calls follow the path down and up again. *)

\* The path is re-entered with the skip flag it was noted with, and the element bounds of the
\* sequence that is read are armed again.
LEMMA DescendStays ==
    ASSUME IInv, PInv, Descend
    PROVE  PInv'
<1>. /\ Laid(msg) /\ Len(msg.fields) \in Nat /\ MAX_DEPTH \in Nat \ {0}
     /\ fed \in Nat /\ p \in Nat /\ Len(window) \in Nat /\ Avail \in Nat /\ Len(stack) \in Nat
    BY MessageFacts
<1>. SUFFICES ASSUME Located PROVE Located'
    BY DEF PInv, Descend
<1>1. PICK n \in Nat : n = Len(stack)
    OBVIOUS
<1>2. pc = "enter" /\ replay /\ n < suspendDepth /\ suspendDepth = Len(OpenHere)
    BY <1>1 DEF Descend, seqDepth, Located, Depths, Going
<1>3. PICK from : OpenLevel(path[n].k, path[n].skip, from)
    BY <1>1 DEF Descend, seqDepth
<1>4. PICK frame : frame = [k |-> path[n].k, skip |-> path[n].skip, from |-> from,
                            span |-> spanSkip, elem |-> elem]
    OBVIOUS
<1>5. stack' = Append(stack, frame) /\ stack \in Seq(Frames)
    BY <1>3, <1>4 DEF OpenLevel, IInv, CallsNest
<1>6. /\ Len(stack') = n + 1 /\ stack'[n + 1] = frame
      /\ \A d \in 1..n : stack'[d] = stack[d]
    BY <1>1, <1>5
<1>7. UNCHANGED <<msg, fed, chunk, held, carry, p, cur, incomplete, suspendDepth, path, pend,
                  pendDone>>
    BY DEF Descend, input, windowVars, resumeVars
<1>8. pc' = "enter" /\ elem' = IF path[n].skip THEN 0 ELSE path[n].k
    BY <1>2, <1>3 DEF OpenLevel
<1>9. Pos' = Pos /\ Site' = Site /\ OpenHere' = OpenHere
    <2>1. Pos' = Pos
        BY <1>7 DEF Pos
    <2>2. Site' = Site
        BY <1>2, <1>7, <1>8, <2>1 DEF Site, FieldAfter, Bytes
    <2>. QED  BY <1>7, <2>1, <2>2 DEF OpenHere
<1>10. OpenHere \in Seq(Nat)
    BY SiteFacts
<1>11. ASSUME NEW d \in 1..Len(OpenHere)
       PROVE  EnteredId(d)' = EnteredId(d) /\ EnteredSkip(d)' = EnteredSkip(d)
    <2>1. CASE d <= n
        BY <1>1, <1>6, <2>1 DEF EnteredId, EnteredSkip
    <2>2. CASE d = n + 1
        <3>1. EnteredId(d) = path[n].k /\ EnteredSkip(d) = path[n].skip
            BY <1>1, <2>2 DEF EnteredId, EnteredSkip
        <3>2. EnteredId(d)' = frame.k /\ EnteredSkip(d)' = frame.skip
            BY <1>6, <2>2 DEF EnteredId, EnteredSkip
        <3>. QED  BY <1>4, <3>1, <3>2
    <2>3. CASE d > n + 1
        BY <1>1, <1>6, <1>7, <2>3 DEF EnteredId, EnteredSkip
    <2>. QED  BY <2>1, <2>2, <2>3
<1>12. Follows(OpenHere)'
    BY <1>7, <1>9, <1>11 DEF Located, Follows
<1>13. Armed'
    <2>1. \A d \in 0..n : Reader(d)' = Reader(d)
        BY <1>6 DEF Reader
    <2>2. Reader(n + 1)' = elem'
        BY <1>4, <1>6, <1>8 DEF Reader
    <2>3. elem = Reader(n) /\ \A d \in 1..n : stack[d].elem = Reader(d - 1)
        BY <1>1 DEF Located, Armed
    <2>4. ASSUME NEW d \in 1..(n + 1) PROVE stack'[d].elem = Reader(d - 1)'
        <3>1. CASE d = n + 1
            BY <1>4, <1>6, <2>1, <2>3, <3>1
        <3>2. CASE d # n + 1
            <4>1. d \in 1..n /\ d - 1 \in 0..n
                BY <3>2
            <4>. QED  BY <1>6, <2>1, <2>3, <4>1
        <3>. QED  BY <3>1, <3>2
    <2>. QED  BY <1>6, <2>2, <2>4 DEF Armed
<1>14. Depths'
    <2>1. Len(OpenHere) \in Nat
        BY <1>10
    <2>. QED  BY <1>2, <1>6, <1>7, <1>8, <1>9, <2>1 DEF Depths, Going
<1>15. Between' /\ Delivering'
    <2>1. \A k, m : Behind(k, m)' = Behind(k, m)
        BY <1>7 DEF Behind, At
    <2>. QED  BY <1>2, <1>7, <1>8, <1>9, <2>1 DEF Located, Between, Delivering, Going
<1>16. Pended'
    BY <1>7 DEF Located, Pended, At
<1>. QED  BY <1>12, <1>13, <1>14, <1>15, <1>16 DEF Located

\* At the noted depth the calls are those of the open sequences, and the parse goes on.
LEMMA ResumeStays ==
    ASSUME IInv, PInv, Resume
    PROVE  PInv'
<1>. /\ Laid(msg) /\ Len(msg.fields) \in Nat /\ MAX_DEPTH \in Nat \ {0}
     /\ fed \in Nat /\ p \in Nat /\ Len(window) \in Nat /\ Avail \in Nat /\ Len(stack) \in Nat
    BY MessageFacts
<1>. SUFFICES ASSUME Located PROVE Located'
    BY DEF PInv, Resume
<1>1. /\ pc = "enter" /\ ~incomplete /\ suspendDepth = Len(stack) /\ Len(stack) = Len(OpenHere)
      /\ incomplete' = incomplete
    BY DEF IInv, CallsNest, HalfDelivered, Resume, seqDepth, Located, Depths, Going
<1>2. UNCHANGED <<msg, fed, chunk, held, carry, p, path, pend, pendDone, stack, elem>>
    BY DEF Resume, input, windowVars, levelVars
<1>3. Pos' = Pos /\ Site = FieldAfter(msg, Pos)
    BY <1>1, <1>2 DEF Pos, Site
<1>4. \A k, n : Behind(k, n)' = Behind(k, n)
    BY <1>2 DEF Behind, At
<1>5. CASE pend = NoPend
    <2>1. pc' = "loop"
        BY <1>5 DEF Resume
    <2>2. Site' = Site /\ OpenHere' = OpenHere
        BY <1>2, <1>3, <2>1 DEF Site, OpenHere, FieldAfter, Bytes
    <2>3. Depths'
        BY <1>1, <1>2, <2>1, <2>2 DEF Depths, Going
    <2>4. Delivering' /\ Between'
        BY <1>1, <1>2, <1>3, <1>5, <2>1, <2>2 DEF Located, Delivering, Between
    <2>. QED  BY <1>2, <2>2, <2>3, <2>4, PathStays DEF Located
<1>6. CASE pend # NoPend
    <2>1. pc' = "deliver" /\ cur' = [k |-> pend.k, skip |-> pend.skip, from |-> p]
        BY <1>6 DEF Resume
    <2>2. pend.k = Site /\ (pend.skip <=> Site \notin msg.live) /\ Pos = Behind(Site, pendDone)
        BY <1>1, <1>6 DEF Located, Between
    <2>3. Site' = Site /\ OpenHere' = OpenHere
        BY <1>2, <2>1, <2>2 DEF Site, OpenHere
    <2>4. Depths'
        BY <1>1, <1>2, <2>1, <2>3 DEF Depths, Going
    <2>5. Takes' <=> ~pend.skip
        BY <1>6, ResumedTakes
    <2>6. Delivering'
        <3>1. Current' = At(msg, pend.k) /\ At(msg, pend.k).type # "end"
            BY <1>2, <1>6, <2>1 DEF Current, Located, Pended
        <3>. QED  BY <1>2, <1>3, <1>4, <2>1, <2>2, <2>5, <3>1 DEF Delivering
    <2>7. Between'
        BY <2>1 DEF Between
    <2>. QED  BY <1>2, <2>3, <2>4, <2>6, <2>7, PathStays DEF Located
<1>. QED  BY <1>5, <1>6

\* A level returns: because it is over, or, when the window has ended, noting itself in the path.
LEMMA LeaveLevelStays ==
    ASSUME IInv, PInv, LeaveLevel
    PROVE  PInv'
<1>. /\ Laid(msg) /\ Len(msg.fields) \in Nat /\ MAX_DEPTH \in Nat \ {0}
     /\ fed \in Nat /\ p \in Nat /\ Len(window) \in Nat /\ Avail \in Nat /\ Len(stack) \in Nat
    BY MessageFacts
<1>. SUFFICES ASSUME Located PROVE Located'
    BY DEF PInv, LeaveLevel
<1>1. stack \in Seq(Frames) /\ stack # <<>> /\ Len(stack) <= MAX_DEPTH
    BY DEF IInv, CallsNest, LeaveLevel
<1>2. PICK n \in Nat \ {0} : n = Len(stack)
    BY <1>1
<1>3. PICK frame : frame = stack[n]
    OBVIOUS
<1>4. UNCHANGED <<msg, fed, chunk, held, carry, p, cur, incomplete, suspendDepth, pend, pendDone>>
    BY DEF LeaveLevel, input, windowVars
<1>5. /\ stack' = SubSeq(stack, 1, n - 1) /\ elem' = frame.elem
      /\ path' = IF incomplete THEN [path EXCEPT ![n - 1] = EnterAgain(frame)] ELSE path
      /\ pc' = IF ~incomplete THEN "loop" ELSE IF n = 1 THEN "parsed" ELSE "return"
      /\ pc = "return"
    BY <1>2, <1>3 DEF LeaveLevel, seqDepth
<1>6. Len(stack') = n - 1 /\ \A d \in 1..(n - 1) : stack'[d] = stack[d]
    BY <1>1, <1>2, <1>5
<1>7. Pos' = Pos /\ Site' = Site /\ OpenHere' = OpenHere
    <2>1. Pos' = Pos
        BY <1>4 DEF Pos
    <2>2. pc' # "deliver"
        BY <1>5
    <2>3. Site' = Site
        BY <1>4, <1>5, <2>1, <2>2 DEF Site, FieldAfter, Bytes
    <2>. QED  BY <1>4, <2>1, <2>3 DEF OpenHere
<1>8. OpenHere \in Seq(Nat) /\ Len(OpenHere) \in Nat
    BY SiteFacts
<1>9. /\ ~incomplete => n = Len(OpenHere) + 1
      /\ incomplete => suspendDepth = Len(OpenHere) /\ n <= Len(OpenHere)
    BY <1>2, <1>5 DEF Located, Depths, Going
<1>10. ASSUME NEW d \in 1..Len(OpenHere)
       PROVE  EnteredId(d)' = EnteredId(d) /\ EnteredSkip(d)' = EnteredSkip(d)
    <2>1. CASE d <= n - 1
        <3>1. d \in 1..(n - 1) /\ d <= Len(stack) /\ d <= Len(stack')
            BY <1>2, <1>6, <2>1
        <3>. QED  BY <1>6, <3>1 DEF EnteredId, EnteredSkip
    <2>2. CASE d > n - 1
        <3>1. incomplete /\ ~(d <= Len(stack')) /\ d - 1 >= n - 1 /\ d \in Nat
            BY <1>6, <1>8, <1>9, <2>2
        <3>2. path' = [path EXCEPT ![n - 1] = EnterAgain(frame)]
            BY <1>5, <3>1
        <3>3. path \in [0..(MAX_DEPTH - 1) -> [k : Nat, skip : BOOLEAN]] /\ suspendDepth <= MAX_DEPTH
            BY DEF IInv, HalfDelivered
        <3>4. CASE d = n
            <4>1. path'[n - 1] = EnterAgain(frame)
                BY <1>1, <1>2, <3>2, <3>3
            <4>2. EnteredId(d)' = path'[n - 1].k /\ EnteredSkip(d)' = path'[n - 1].skip
                BY <3>1, <3>4 DEF EnteredId, EnteredSkip
            <4>3. EnteredId(d) = frame.k /\ EnteredSkip(d) = frame.skip
                BY <1>2, <1>3, <3>4 DEF EnteredId, EnteredSkip
            <4>. QED  BY <4>1, <4>2, <4>3 DEF EnterAgain
        <3>5. CASE d # n
            <4>1. d - 1 \in 0..(MAX_DEPTH - 1) /\ d - 1 # n - 1 /\ ~(d <= Len(stack))
                BY <1>2, <1>8, <1>9, <2>2, <3>1, <3>3, <3>5
            <4>2. path'[d - 1] = path[d - 1]
                BY <3>2, <3>3, <4>1
            <4>. QED  BY <3>1, <4>1, <4>2 DEF EnteredId, EnteredSkip
        <3>. QED  BY <3>4, <3>5
    <2>. QED  BY <2>1, <2>2
<1>11. Follows(OpenHere)'
    BY <1>4, <1>7, <1>10 DEF Located, Follows
<1>12. Armed'
    <2>1. \A d \in 1..n : stack[d].elem = Reader(d - 1)
        BY <1>2 DEF Located, Armed
    <2>2. \A d \in 0..(n - 1) : Reader(d)' = Reader(d)
        BY <1>6 DEF Reader
    <2>3. elem' = Reader(n - 1)'
        BY <1>3, <1>5, <2>1, <2>2
    <2>4. ASSUME NEW d \in 1..(n - 1) PROVE stack'[d].elem = Reader(d - 1)'
        <3>1. d \in 1..n /\ d - 1 \in 0..(n - 1)
            OBVIOUS
        <3>. QED  BY <1>6, <2>1, <2>2, <3>1
    <2>. QED  BY <1>6, <2>3, <2>4 DEF Armed
<1>13. Depths'
    <2>1. /\ pc' = "loop" => ~incomplete
          /\ pc' \in {"loop", "parsed", "return"}
          /\ pc' \in {"parsed", "return"} => incomplete
        BY <1>5
    <2>. QED  BY <1>4, <1>6, <1>7, <1>8, <1>9, <2>1 DEF Depths, Going
<1>14. Between' /\ Delivering'
    <2>1. \A k, m : Behind(k, m)' = Behind(k, m)
        BY <1>4 DEF Behind, At
    <2>2. pc' \in {"loop", "parsed", "return"}
        BY <1>5
    <2>. QED  BY <1>4, <1>5, <1>7, <2>1, <2>2 DEF Located, Between, Delivering, Going
<1>15. Pended'
    BY <1>4 DEF Located, Pended, At
<1>. QED  BY <1>11, <1>12, <1>13, <1>14, <1>15 DEF Located

------------------------------------------------------------------------------
(* The turns of the loop. *)

\* In the loop nothing is half-delivered, and the field of the next byte begins there.
LEMMA LoopFacts ==
    ASSUME IInv, Located, pc = "loop"
    PROVE  /\ ~incomplete /\ ~Going /\ pend = NoPend /\ suspendDepth = -1
           /\ Pos = msg.start[Site] /\ Site = FieldAfter(msg, Pos)
           /\ Avail > 0 => This = Site /\ This \in Fields(msg)
<1>1. ~incomplete /\ ~Going /\ suspendDepth = -1
    BY DEF IInv, CallsNest, HalfDelivered, Going
<1>2. pend = NoPend /\ Pos = msg.start[Site]
    BY <1>1 DEF Located, Between
<1>3. Site = FieldAfter(msg, Pos)
    BY DEF Site
<1>. QED  BY <1>1, <1>2, <1>3, PosFacts

\* The field behind field k.
LEMMA NextField1 ==
    ASSUME NEW m, Laid(m), NEW k \in Fields(m)
    PROVE  /\ k + 1 \in 1..(Len(m.fields) + 1) /\ m.start[k + 1] \in Nat
           /\ FieldAfter(m, m.start[k + 1]) = k + 1
           /\ m.opens[k + 1] = Inner(m.opens[k], k, At(m, k).type)
<1>1. PICK l \in Nat : l = Len(m.fields)
    BY DEF Laid
<1>2. k + 1 \in 1..(l + 1) /\ Fields(m) = 1..l
    BY <1>1 DEF Fields
<1>3. m.start[k + 1] \in Nat
    BY <1>1, <1>2 DEF Laid
<1>4. IF k + 1 \in Fields(m) THEN m.start[k + 1] < m.start[(k + 1) + 1] ELSE TRUE
    <2>1. k + 1 \in 1..l => (k + 1) + 1 \in 1..(l + 1)
        BY <1>1
    <2>. QED  BY <1>1, <1>2, <2>1 DEF Laid
<1>5. FieldAfter(m, m.start[k + 1]) = k + 1
    BY <1>1, <1>2, <1>3, <1>4, FieldAfterIs
<1>6. m.opens[k + 1] = Inner(m.opens[k], k, At(m, k).type)
    BY DEF Laid
<1>. QED  BY <1>1, <1>2, <1>3, <1>5, <1>6

\* A parse suspended between two fields is at the depth of the sequences open there.
LEMMA SuspendStays ==
    ASSUME IInv, PInv, pc = "loop", SuspendAtBoundary, p' = p,
           UNCHANGED <<msg, fed, chunk, held, carry, stack, path, elem, terminal>>
    PROVE  PInv'
<1>. /\ Laid(msg) /\ Len(msg.fields) \in Nat /\ MAX_DEPTH \in Nat \ {0}
     /\ fed \in Nat /\ p \in Nat /\ Len(window) \in Nat /\ Avail \in Nat /\ Len(stack) \in Nat
    BY MessageFacts
<1>. SUFFICES ASSUME Located PROVE Located'
    BY DEF PInv
<1>1. /\ incomplete' = TRUE /\ suspendDepth' = Len(stack) /\ pend' = NoPend
      /\ pc' \in {"parsed", "return"}
    BY DEF SuspendAtBoundary, seqDepth, Leaving
<1>2. Pos' = Pos
    BY DEF Pos
<1>3. Site' = Site /\ OpenHere' = OpenHere
    BY <1>1, <1>2 DEF Site, OpenHere, FieldAfter, Bytes
<1>4. pend = NoPend /\ Pos = msg.start[Site] /\ Len(stack) = Len(OpenHere)
    BY LoopFacts, CallsAreHere
<1>5. Follows(OpenHere)' /\ Armed' /\ Pended'
    BY <1>1, <1>3, <1>4, PathStays
<1>6. Depths'
    BY <1>1, <1>3, <1>4 DEF Depths, Going
<1>7. Delivering' /\ Between'
    BY <1>1, <1>2, <1>3, <1>4 DEF Delivering, Between
<1>. QED  BY <1>5, <1>6, <1>7 DEF Located

\* So is one that is suspended in front of a header that is cut.
LEMMA HeaderCutStays ==
    ASSUME IInv, PInv, HeaderCut
    PROVE  PInv'
BY SuspendStays DEF HeaderCut, AtField, input, windowVars, levelVars

\* The window ends between two fields, or with the message.
LEMMA WindowEndsStays ==
    ASSUME IInv, PInv, WindowEnds
    PROVE  PInv'
<1>. /\ Laid(msg) /\ Len(msg.fields) \in Nat /\ MAX_DEPTH \in Nat \ {0}
     /\ fed \in Nat /\ p \in Nat /\ Len(window) \in Nat /\ Avail \in Nat /\ Len(stack) \in Nat
    BY MessageFacts
<1>. SUFFICES ASSUME Located PROVE PInv'
    BY DEF PInv, WindowEnds
<1>1. pc = "loop" /\ UNCHANGED <<msg, fed, chunk, held, carry, p, stack, path, elem, terminal>>
    BY DEF WindowEnds, input, windowVars, levelVars
<1>2. CASE stack # <<>>
    <2>1. SuspendAtBoundary
        BY <1>2 DEF WindowEnds
    <2>. QED  BY <1>1, <2>1, SuspendStays
<1>3. CASE stack = <<>>
    <2>1. pc' = "parsed" /\ UNCHANGED <<incomplete, suspendDepth, pend>>
        BY <1>3 DEF WindowEnds
    <2>2. Pos' = Pos
        BY <1>1 DEF Pos
    <2>3. Site' = Site /\ OpenHere' = OpenHere
        BY <1>1, <2>1, <2>2 DEF Site, OpenHere, FieldAfter, Bytes
    <2>4. /\ ~incomplete /\ pend = NoPend /\ Pos = msg.start[Site] /\ suspendDepth = -1
          /\ Len(stack) = Len(OpenHere)
        BY <1>1, LoopFacts, CallsAreHere
    <2>5. OpenHere = <<>>
        <3>1. Len(OpenHere) = 0 /\ OpenHere \in Seq(Nat)
            BY <1>3, <2>4, SiteFacts
        <3>. QED  BY <3>1
    <2>6. Follows(OpenHere)' /\ Armed' /\ Pended'
        BY <1>1, <2>1, <2>3, PathStays
    <2>7. Depths'
        BY <1>3, <2>1, <2>3, <2>4, <2>5 DEF Depths, Going
    <2>8. Delivering' /\ Between'
        BY <1>1, <2>1, <2>2, <2>3, <2>4 DEF Delivering, Between
    <2>. QED  BY <2>6, <2>7, <2>8 DEF PInv, Located
<1>. QED  BY <1>2, <1>3

\* The end of a sequence is consumed whole.
LEMMA SequenceOverMoves ==
    ASSUME IInv, Located, SequenceOver
    PROVE  /\ Site \in Fields(msg) /\ At(msg, Site).type = "end"
           /\ Pos' = msg.start[Site + 1]
<1>. /\ Laid(msg) /\ Len(msg.fields) \in Nat /\ MAX_DEPTH \in Nat \ {0}
     /\ fed \in Nat /\ p \in Nat /\ Len(window) \in Nat /\ Avail \in Nat /\ Len(stack) \in Nat
    BY MessageFacts
<1>1. pc = "loop" /\ Avail > 0 /\ stack # <<>> /\ pc' = "return"
    BY DEF SequenceOver, AtField
<1>2. UNCHANGED <<msg, fed, chunk, held, carry, cur, incomplete, suspendDepth, path, pend, pendDone,
                  stack, elem>>
    BY DEF SequenceOver, input, windowVars, resumeVars, levelVars
<1>3. PICK k \in Fields(msg) : k = This /\ k = Site
    BY <1>1, LoopFacts
<1>4. At(msg, k).type = "end" /\ p' = p + At(msg, k).tag
    BY <1>3 DEF SequenceOver
<1>5. At(msg, k).tag \in Nat /\ Size(At(msg, k)) = At(msg, k).tag
    <2>1. msg.fields[k] \in DOMAIN Alphabet
        BY DEF Laid, Fields
    <2>. QED  BY <1>4, <2>1, FieldFacts DEF At
<1>6. Pos = msg.start[k] /\ msg.start[k] \in Nat /\ msg.start[k + 1] = msg.start[k] + At(msg, k).tag
    BY <1>1, <1>3, <1>5, LoopFacts, SiteFacts DEF Laid
<1>7. Pos' = msg.start[k + 1]
    <2>1. Len(carry) \in Nat /\ Len(chunk) \in Nat /\ held \in Nat
        BY PosFacts
    <2>2. Pos' = fed - Len(carry) - Len(chunk) - held + (p + At(msg, k).tag)
        BY <1>2, <1>4 DEF Pos
    <2>3. Pos' = Pos + At(msg, k).tag
        BY <1>5, <2>1, <2>2 DEF Pos
    <2>. QED  BY <1>6, <2>3
<1>. QED  BY <1>3, <1>4, <1>7

\* An end marker closes the innermost of the open sequences.
LEMMA SequenceOverStays ==
    ASSUME IInv, PInv, SequenceOver
    PROVE  PInv'
<1>. /\ Laid(msg) /\ Len(msg.fields) \in Nat /\ MAX_DEPTH \in Nat \ {0}
     /\ fed \in Nat /\ p \in Nat /\ Len(window) \in Nat /\ Avail \in Nat /\ Len(stack) \in Nat
    BY MessageFacts
<1>. SUFFICES ASSUME Located PROVE Located'
    BY DEF PInv, SequenceOver
<1>1. pc = "loop" /\ Avail > 0 /\ stack # <<>> /\ pc' = "return"
    BY DEF SequenceOver, AtField
<1>2. UNCHANGED <<msg, fed, chunk, held, carry, cur, incomplete, suspendDepth, path, pend, pendDone,
                  stack, elem>>
    BY DEF SequenceOver, input, windowVars, resumeVars, levelVars
<1>3. PICK k \in Fields(msg) : k = This /\ k = Site
    BY <1>1, LoopFacts
<1>4. At(msg, k).type = "end" /\ p' = p + At(msg, k).tag
    BY <1>3 DEF SequenceOver
<1>5. Pos' = msg.start[k + 1]
    BY <1>3, SequenceOverMoves
<1>6. Site' = k + 1
    BY <1>1, <1>2, <1>5, NextField1 DEF Site
<1>7. Len(stack) = Len(OpenHere) /\ OpenHere \in Seq(Nat) /\ OpenHere # <<>>
    <2>1. Len(stack) = Len(OpenHere) /\ OpenHere \in Seq(Nat) /\ stack \in Seq(Frames)
        BY <1>1, CallsAreHere, SiteFacts DEF IInv, CallsNest
    <2>2. Len(stack) # 0
        BY <1>1, <2>1
    <2>. QED  BY <2>1, <2>2
<1>8. PICK n \in Nat \ {0} : n = Len(OpenHere)
    BY <1>7
<1>9. OpenHere' = SubSeq(OpenHere, 1, n - 1)
    <2>1. OpenHere = msg.opens[k] /\ OpenHere' = msg.opens[k + 1]
        BY <1>2, <1>3, <1>6 DEF OpenHere
    <2>2. msg.opens[k + 1] = Inner(msg.opens[k], k, At(msg, k).type)
        BY NextField1
    <2>. QED  BY <1>4, <1>7, <1>8, <2>1, <2>2 DEF Inner
<1>10. Len(OpenHere') = n - 1 /\ \A d \in 1..(n - 1) : OpenHere'[d] = OpenHere[d]
    BY <1>7, <1>8, <1>9
<1>11. Follows(OpenHere)'
    <2>1. \A d : EnteredId(d)' = EnteredId(d) /\ EnteredSkip(d)' = EnteredSkip(d)
        BY <1>2 DEF EnteredId, EnteredSkip
    <2>2. \A d \in 1..n : EnteredId(d) = OpenHere[d] /\ (EnteredSkip(d) <=> OpenHere[d] \notin msg.live)
        BY <1>8 DEF Located, Follows
    <2>3. \A d \in 1..(n - 1) : d \in 1..n
        OBVIOUS
    <2>. QED  BY <1>2, <1>10, <2>1, <2>2, <2>3 DEF Follows
<1>12. Armed'
    <2>1. \A d : Reader(d)' = Reader(d)
        BY <1>2 DEF Reader
    <2>. QED  BY <1>2, <2>1 DEF Located, Armed
<1>13. Depths'
    <2>1. ~incomplete /\ Len(stack) = (n - 1) + 1
        BY <1>1, <1>7, <1>8, LoopFacts
    <2>. QED  BY <1>1, <1>2, <1>10, <2>1 DEF Depths, Going
<1>14. Delivering' /\ Between' /\ Pended'
    <2>1. pend = NoPend
        BY <1>1, LoopFacts
    <2>. QED  BY <1>1, <1>2, <1>5, <1>6, <2>1 DEF Delivering, Between, Pended
<1>. QED  BY <1>11, <1>12, <1>13, <1>14 DEF Located

\* A header is consumed whole.
LEMMA AcceptMoves ==
    ASSUME IInv, Located, Accept
    PROVE  Site \in Fields(msg) /\ Pos' = Behind(Site, 0)
<1>. /\ Laid(msg) /\ Len(msg.fields) \in Nat /\ MAX_DEPTH \in Nat \ {0}
     /\ fed \in Nat /\ p \in Nat /\ Len(window) \in Nat /\ Avail \in Nat /\ Len(stack) \in Nat
    BY MessageFacts
<1>1. pc = "loop" /\ Avail > 0 /\ pc' = "deliver" /\ pendDone' = 0
    BY DEF Accept, AtField
<1>2. UNCHANGED <<msg, fed, chunk, held, carry, incomplete, suspendDepth, path, pend, stack, elem>>
    BY DEF Accept, input, windowVars, resumeVars, levelVars
<1>3. PICK k \in Fields(msg) : k = This /\ k = Site
    BY <1>1, LoopFacts
<1>4. PICK f : f = At(msg, k)
    OBVIOUS
<1>5. /\ cur'.k = k /\ cur'.skip = OtherType(f) /\ p' = p + Header(f) /\ f.type # "end"
    BY <1>3, <1>4 DEF Accept, WellFormed
<1>6. k \in 1..Len(msg.fields) /\ Header(f) \in Nat
    BY <1>4, AtFacts DEF Fields
<1>7. Pos' = Behind(k, 0)
    <2>1. GrainIf(k \in msg.live, f) \in Nat
        BY <1>4, <1>6, AtFacts DEF GrainIf
    <2>2. PICK g \in Nat : g = GrainIf(k \in msg.live, f)
        BY <2>1
    <2>3. 0 * g = 0
        OBVIOUS
    <2>4. Behind(k, 0) = msg.start[k] + Header(f) + 0
        BY <1>4, <2>2, <2>3 DEF Behind
    <2>5. Pos = msg.start[k] /\ msg.start[k] \in Nat
        BY <1>1, <1>3, LoopFacts, SiteFacts
    <2>6. Pos' = Pos + Header(f)
        <3>1. Len(carry) \in Nat /\ Len(chunk) \in Nat /\ held \in Nat
            BY PosFacts
        <3>2. Pos' = fed - Len(carry) - Len(chunk) - held + (p + Header(f))
            BY <1>2, <1>5 DEF Pos
        <3>. QED  BY <1>6, <3>1, <3>2 DEF Pos
    <2>. QED  BY <1>6, <2>4, <2>5, <2>6
<1>. QED  BY <1>3, <1>7

\* What makes beginField skip an element is that it is declined.
LEMMA AcceptStays ==
    ASSUME IInv, PInv, Accept
    PROVE  PInv'
<1>. /\ Laid(msg) /\ Len(msg.fields) \in Nat /\ MAX_DEPTH \in Nat \ {0}
     /\ fed \in Nat /\ p \in Nat /\ Len(window) \in Nat /\ Avail \in Nat /\ Len(stack) \in Nat
    BY MessageFacts
<1>. SUFFICES ASSUME Located PROVE Located'
    BY DEF PInv, Accept
<1>1. pc = "loop" /\ Avail > 0 /\ pc' = "deliver" /\ pendDone' = 0
    BY DEF Accept, AtField
<1>2. UNCHANGED <<msg, fed, chunk, held, carry, incomplete, suspendDepth, path, pend, stack, elem>>
    BY DEF Accept, input, windowVars, resumeVars, levelVars
<1>3. PICK k \in Fields(msg) : k = This /\ k = Site
    BY <1>1, LoopFacts
<1>4. PICK f : f = At(msg, k)
    OBVIOUS
<1>5. /\ cur'.k = k /\ cur'.skip = OtherType(f) /\ p' = p + Header(f) /\ f.type # "end"
    BY <1>3, <1>4 DEF Accept, WellFormed
<1>6. Site' = k /\ OpenHere' = OpenHere
    BY <1>1, <1>2, <1>3, <1>5 DEF Site, OpenHere
<1>7. k \in 1..Len(msg.fields) /\ Header(f) \in Nat
    BY <1>4, AtFacts DEF Fields
<1>8. Pos' = Behind(k, 0)
    BY <1>3, AcceptMoves
<1>9. (\A i, n : Behind(i, n)' = Behind(i, n)) /\ Current' = f
    BY <1>2, <1>4, <1>5 DEF Behind, At, Current
<1>10. Takes' <=> k \in msg.live
    <2>1. k \in msg.live <=> (Nested(msg, k) => Outer(msg, k) \in msg.live) /\ ~Declined(msg, k)
        BY LiveInside
    <2>2. Takes' <=> ~OtherType(f) /\ ~InSkip /\ ~Declining(f)
        <3>1. InSkip' <=> InSkip
            BY <1>2 DEF InSkip, seqDepth
        <3>2. cur'.skip <=> OtherType(f)
            BY <1>5
        <3>. QED  BY <1>9, <3>1, <3>2 DEF Takes, Asked
    <2>3. Declined(msg, k) <=> Declining(f) \/ NotElement(msg, k)
        BY <1>4 DEF Declined, Declining
    <2>4. /\ InSkip <=> Nested(msg, k) /\ Outer(msg, k) \notin msg.live
          /\ ~InSkip => elem = IF Nested(msg, k) THEN Outer(msg, k) ELSE 0
        BY <1>1, <1>3, CallsAreHere
    <2>5. Nested(msg, k) => Outer(msg, k) # 0
        <3>1. msg.opens[k] \in Seq(Nat)
            BY <1>3, SiteFacts DEF OpenHere
        <3>2. ASSUME Nested(msg, k) PROVE Outer(msg, k) # 0
            <4>1. Len(msg.opens[k]) \in 1..Len(msg.opens[k])
                BY <3>1, <3>2 DEF Nested
            <4>2. Nesting(msg, k) /\ k \in Nat
                BY <1>7, SequencesNest
            <4>3. Outer(msg, k) \in 1..(k - 1)
                BY <4>1, <4>2 DEF Nesting, Outer
            <4>. QED  BY <4>2, <4>3
        <3>. QED  BY <3>2
    <2>6. ~InSkip => (OtherType(f) <=> NotElement(msg, k))
        BY <1>4, <1>5, <2>4, <2>5 DEF OtherType, IndexOver, NotElement, PastBound
    <2>. QED  BY <2>1, <2>2, <2>3, <2>4, <2>6
<1>11. pend = NoPend /\ ~Going /\ ~incomplete /\ Len(stack) = Len(OpenHere)
    BY <1>1, LoopFacts, CallsAreHere
<1>12. Depths'
    BY <1>1, <1>2, <1>6, <1>11 DEF Depths, Going
<1>13. Delivering'
    BY <1>1, <1>2, <1>5, <1>8, <1>9, <1>10, <1>11 DEF Delivering
<1>14. Between'
    BY <1>1 DEF Between
<1>. QED  BY <1>2, <1>6, <1>12, <1>13, <1>14, PathStays DEF Located

------------------------------------------------------------------------------
(* Delivering. *)

\* What is delivered is the field the parse is in, taken if and only if it is live.
LEMMA DeliverFacts ==
    ASSUME IInv, Located, pc = "deliver"
    PROVE  /\ cur.k \in Fields(msg) /\ cur.k \in 1..Len(msg.fields) /\ Site = cur.k
           /\ Pos = Behind(cur.k, pendDone) /\ (Takes <=> cur.k \in msg.live)
           /\ ~incomplete /\ ~replay
           /\ pendDone \in Nat /\ pendDone <= Total
           /\ Total = TotalIf(cur.k \in msg.live, Current)
           /\ Grain = GrainIf(cur.k \in msg.live, Current)
<1>1. cur.k \in 1..Len(msg.fields) /\ ~incomplete /\ ~replay /\ pendDone \in Nat /\ pendDone <= Total
    BY DEF IInv, CallsNest, HalfDelivered
<1>2. Pos = Behind(cur.k, pendDone) /\ (Takes <=> cur.k \in msg.live)
    BY DEF Located, Delivering
<1>3. Total = TotalIf(cur.k \in msg.live, Current) /\ Grain = GrainIf(cur.k \in msg.live, Current)
    BY <1>2 DEF Total, Grain, TotalIf, GrainIf
<1>. QED  BY <1>1, <1>2, <1>3 DEF Fields, Site

\* The sequence that is entered is the next one that is open.
LEMMA DeliverSequenceStays ==
    ASSUME IInv, PInv, DeliverSequence
    PROVE  PInv'
<1>. /\ Laid(msg) /\ Len(msg.fields) \in Nat /\ MAX_DEPTH \in Nat \ {0}
     /\ fed \in Nat /\ p \in Nat /\ Len(window) \in Nat /\ Avail \in Nat /\ Len(stack) \in Nat
    BY MessageFacts
<1>. SUFFICES ASSUME Located PROVE Located'
    BY DEF PInv, DeliverSequence
<1>1. pc = "deliver" /\ Current.type = "start"
    BY DEF DeliverSequence
<1>2. PICK k \in Fields(msg) : k = cur.k /\ k = Site /\ k \in 1..Len(msg.fields)
    BY <1>1, DeliverFacts
<1>3. PICK f : f = At(msg, k) /\ f = Current
    BY <1>2 DEF Current
<1>4. PICK skip \in BOOLEAN : skip = ~Takes
    BY DEF Takes
<1>5. PICK from : OpenLevel(k, skip, from)
    BY <1>2, <1>4 DEF DeliverSequence
<1>6. skip <=> k \notin msg.live
    BY <1>1, <1>2, <1>4, DeliverFacts
<1>7. UNCHANGED <<msg, fed, chunk, held, carry, p, incomplete, suspendDepth, path, pend>>
    BY DEF DeliverSequence, input, windowVars, resumeVars
<1>8. Pos = msg.start[k + 1]
    <2>1. Size(f) = f.tag /\ f.units = 0 /\ f.width \in Nat \ {0} /\ Header(f) = f.tag /\ f.tag \in Nat
        <3>1. msg.fields[k] \in DOMAIN Alphabet
            BY DEF Laid, Fields
        <3>2. f.units = 0 /\ f.meta = 0
            BY <1>1, <1>3, <3>1, FieldAssumption DEF At, Known
        <3>3. Size(f) = f.tag /\ f.width \in Nat \ {0} /\ f.tag \in Nat
            BY <1>1, <1>3, <3>1, FieldFacts DEF At
        <3>. QED  BY <3>2, <3>3 DEF Header
    <2>2. TotalIf(k \in msg.live, f) = 0
        <3>1. PICK g \in Nat \ {0} : g = IF k \in msg.live \/ f.type \in Varints THEN f.width ELSE 1
            BY <2>1
        <3>2. f.units * f.width = 0
            BY <2>1
        <3>3. 0 \div g = 0
            OBVIOUS
        <3>. QED  BY <3>1, <3>2, <3>3 DEF TotalIf
    <2>3. pendDone = 0
        BY <1>1, <1>2, <1>3, <2>2, DeliverFacts
    <2>4. Pos = Behind(k, pendDone)
        BY <1>1, <1>2, DeliverFacts
    <2>5. pendDone \in Nat /\ pendDone = TotalIf(k \in msg.live, At(msg, k))
        BY <1>3, <2>2, <2>3
    <2>6. pendDone <= TotalIf(k \in msg.live, At(msg, k))
        BY <1>3, <2>2, <2>3
    <2>7. Behind(k, pendDone) = msg.start[k + 1]
        BY <1>2, <2>5, <2>6, PlaceFacts
    <2>. QED  BY <2>4, <2>7
<1>9. pc' = "loop" /\ elem' = IF skip THEN 0 ELSE k
    BY <1>1, <1>5, DeliverFacts DEF OpenLevel
<1>10. Pos' = msg.start[k + 1]
    BY <1>7, <1>8 DEF Pos
<1>11. Site' = k + 1
    BY <1>7, <1>9, <1>10, NextField1 DEF Site
<1>12. PICK n \in Nat : n = Len(stack)
    OBVIOUS
<1>13. n = Len(OpenHere) /\ OpenHere \in Seq(Nat)
    BY <1>1, <1>12, CallsAreHere, SiteFacts
<1>14. OpenHere' = Append(OpenHere, k)
    <2>1. OpenHere = msg.opens[k] /\ OpenHere' = msg.opens[k + 1]
        BY <1>2, <1>7, <1>11 DEF OpenHere
    <2>2. msg.opens[k + 1] = Inner(msg.opens[k], k, f.type)
        BY <1>3, NextField1
    <2>. QED  BY <1>1, <1>3, <2>1, <2>2 DEF Inner
<1>15. /\ Len(OpenHere') = n + 1 /\ OpenHere'[n + 1] = k
       /\ \A d \in 1..n : OpenHere'[d] = OpenHere[d]
    BY <1>13, <1>14
<1>16. PICK frame : frame = [k |-> k, skip |-> skip, from |-> from, span |-> spanSkip, elem |-> elem]
    OBVIOUS
<1>17. stack' = Append(stack, frame) /\ stack \in Seq(Frames)
    BY <1>5, <1>16 DEF OpenLevel, IInv, CallsNest
<1>18. Len(stack') = n + 1 /\ stack'[n + 1] = frame /\ \A d \in 1..n : stack'[d] = stack[d]
    BY <1>12, <1>17
<1>19. Follows(OpenHere)'
    <2>1. ASSUME NEW d \in 1..(n + 1)
          PROVE  EnteredId(d)' = OpenHere'[d] /\ (EnteredSkip(d)' <=> OpenHere'[d] \notin msg.live)
        <3>1. CASE d = n + 1
            <4>1. EnteredId(d)' = frame.k /\ EnteredSkip(d)' = frame.skip
                BY <1>18, <3>1 DEF EnteredId, EnteredSkip
            <4>. QED  BY <1>6, <1>15, <1>16, <3>1, <4>1
        <3>2. CASE d # n + 1
            <4>1. d \in 1..n
                BY <3>2
            <4>2. EnteredId(d)' = stack[d].k /\ EnteredSkip(d)' = stack[d].skip
                BY <1>18, <4>1 DEF EnteredId, EnteredSkip
            <4>3. stack[d].k = OpenHere[d] /\ (stack[d].skip <=> OpenHere[d] \notin msg.live)
                BY <1>1, <1>12, <4>1, CallsAreHere
            <4>. QED  BY <1>15, <4>1, <4>2, <4>3
        <3>. QED  BY <3>1, <3>2
    <2>. QED  BY <1>7, <1>15, <2>1 DEF Follows
<1>20. Armed'
    <2>1. \A d \in 0..n : Reader(d)' = Reader(d)
        BY <1>18 DEF Reader
    <2>2. Reader(n + 1)' = elem'
        <3>1. n + 1 # 0
            OBVIOUS
        <3>2. Reader(n + 1)' = IF stack'[n + 1].skip THEN 0 ELSE stack'[n + 1].k
            BY <3>1 DEF Reader
        <3>3. stack'[n + 1].skip = skip /\ stack'[n + 1].k = k
            BY <1>16, <1>18
        <3>. QED  BY <1>9, <3>2, <3>3
    <2>3. elem = Reader(n) /\ \A d \in 1..n : stack[d].elem = Reader(d - 1)
        BY <1>12 DEF Located, Armed
    <2>4. ASSUME NEW d \in 1..(n + 1) PROVE stack'[d].elem = Reader(d - 1)'
        <3>1. CASE d = n + 1
            BY <1>16, <1>18, <2>1, <2>3, <3>1
        <3>2. CASE d # n + 1
            <4>1. d \in 1..n /\ d - 1 \in 0..n
                BY <3>2
            <4>. QED  BY <1>18, <2>1, <2>3, <4>1
        <3>. QED  BY <3>1, <3>2
    <2>. QED  BY <1>18, <2>2, <2>4 DEF Armed
<1>21. Depths'
    <2>1. ~incomplete
        BY <1>1, DeliverFacts
    <2>. QED  BY <1>7, <1>9, <1>15, <1>18, <2>1 DEF Depths, Going
<1>22. Delivering' /\ Between' /\ Pended'
    <2>1. pend = NoPend
        BY <1>1, <1>2, <1>3 DEF Located, Delivering, Pended
    <2>. QED  BY <1>7, <1>9, <1>10, <1>11, <2>1 DEF Delivering, Between, Pended
<1>. QED  BY <1>19, <1>20, <1>21, <1>22 DEF Located

\* Of a payload whole units are consumed.
LEMMA PayloadMoves ==
    ASSUME IInv, Located, DeliverPayload, ~Refused("InvalidMessage")
    PROVE  Pos' = Behind(cur.k, pendDone + Taken)
<1>. /\ Laid(msg) /\ Len(msg.fields) \in Nat /\ MAX_DEPTH \in Nat \ {0}
     /\ fed \in Nat /\ p \in Nat /\ Len(window) \in Nat /\ Avail \in Nat /\ Len(stack) \in Nat
    BY MessageFacts
<1>1. pc = "deliver"
    BY DEF DeliverPayload
<1>2. p' = p + Taken * Grain /\ UNCHANGED <<fed, chunk, held, carry>>
    BY DEF DeliverPayload, input, windowVars
<1>3. PICK k \in Fields(msg) : k = cur.k /\ k = Site /\ k \in 1..Len(msg.fields)
    BY <1>1, DeliverFacts
<1>4. PICK f : f = At(msg, k) /\ f = Current
    BY <1>3 DEF Current
<1>5. PICK t \in Nat, g \in Nat : t = Taken /\ g = Grain
    <2>1. Taken \in Nat
        BY <1>1, TakenFits
    <2>2. Grain \in Nat
        BY <1>3, <1>4, AtFacts DEF Grain
    <2>. QED  BY <2>1, <2>2
<1>6. g = GrainIf(k \in msg.live, f) /\ pendDone \in Nat
    BY <1>1, <1>3, <1>4, <1>5, DeliverFacts
<1>7. Pos' = Behind(k, pendDone + t)
    <2>1. Len(carry) \in Nat /\ Len(chunk) \in Nat /\ held \in Nat
        BY PosFacts
    <2>2. PICK x \in Nat : x = t * g
        BY <1>5
    <2>3. Pos' = fed - Len(carry) - Len(chunk) - held + (p + x)
        BY <1>2, <1>5, <2>2 DEF Pos
    <2>4. Pos' = Pos + x
        BY <2>1, <2>3 DEF Pos
    <2>5. PICK a \in Int : a = msg.start[k] + Header(f)
        <3>1. msg.start[k] \in Nat
            BY <1>3, SiteFacts
        <3>2. Header(f) \in Nat
            BY <1>3, <1>4, AtFacts
        <3>. QED  BY <3>1, <3>2
    <2>6. Pos = a + pendDone * g /\ Behind(k, pendDone + t) = a + (pendDone + t) * g
        BY <1>1, <1>3, <1>4, <1>6, <2>5, DeliverFacts DEF Behind
    <2>7. a + (pendDone + t) * g = (a + pendDone * g) + t * g
        BY <1>6, UnitsAdd
    <2>. QED  BY <2>2, <2>4, <2>6, <2>7
<1>. QED  BY <1>3, <1>5, <1>7

\* The position is behind the units that are delivered: at the next field, or inside this one.
LEMMA DeliverPayloadStays ==
    ASSUME IInv, PInv, DeliverPayload
    PROVE  PInv'
<1>. /\ Laid(msg) /\ Len(msg.fields) \in Nat /\ MAX_DEPTH \in Nat \ {0}
     /\ fed \in Nat /\ p \in Nat /\ Len(window) \in Nat /\ Avail \in Nat /\ Len(stack) \in Nat
    BY MessageFacts
<1>. SUFFICES ASSUME ~Refused("InvalidMessage") PROVE PInv'
    BY RefusedStays
<1>. SUFFICES ASSUME Located PROVE Located'
    BY DEF PInv, DeliverPayload
<1>1. pc = "deliver" /\ Current.type # "start"
    BY DEF DeliverPayload
<1>2. /\ p' = p + Taken * Grain /\ incomplete' = ~Over
      /\ IF Over THEN /\ pend' = NoPend /\ pendDone' = 0 /\ pc' = "loop"
                      /\ suspendDepth' = suspendDepth
         ELSE /\ pend' = [k |-> cur.k, skip |-> ~Takes]
              /\ pendDone' = pendDone + Taken
              /\ suspendDepth' = Len(stack)
              /\ pc' = Leaving
      /\ UNCHANGED <<msg, fed, chunk, held, carry, path, stack, elem>>
    BY DEF DeliverPayload, input, windowVars, levelVars, seqDepth
<1>3. PICK k \in Fields(msg) : k = cur.k /\ k = Site /\ k \in 1..Len(msg.fields)
    BY <1>1, DeliverFacts
<1>4. PICK f : f = At(msg, k) /\ f = Current
    BY <1>3 DEF Current
<1>5. f.type \notin {"start", "end"}
    BY <1>1, <1>4 DEF Located, Delivering
<1>6. PICK t \in Nat, g \in Nat : t = Taken /\ g = Grain
    <2>1. Taken \in Nat
        BY <1>1, TakenFits
    <2>2. Grain \in Nat
        BY <1>3, <1>4, AtFacts DEF Grain
    <2>. QED  BY <2>1, <2>2
<1>7. PICK total : total = TotalIf(k \in msg.live, f)
    OBVIOUS
<1>8. /\ total = Total /\ g = GrainIf(k \in msg.live, f) /\ pendDone \in Nat
      /\ pendDone + t \in Nat /\ pendDone + t <= total /\ total \in Nat
      /\ Over <=> pendDone + t = total
    BY <1>1, <1>3, <1>4, <1>6, <1>7, DeliverFacts, TakenFits DEF Over
<1>9. Pos' = Behind(k, pendDone + t)
    BY <1>3, <1>6, PayloadMoves
<1>10. \A i, n : Behind(i, n)' = Behind(i, n)
    BY <1>2 DEF Behind, At
<1>11. Len(stack) = Len(OpenHere) /\ OpenHere \in Seq(Nat) /\ Len(OpenHere) \in Nat
    BY <1>1, CallsAreHere, SiteFacts
<1>12. CASE Over
    <2>1. pend' = NoPend /\ pc' = "loop" /\ ~incomplete'
        BY <1>2, <1>12
    <2>2. Pos' = msg.start[k + 1]
        BY <1>3, <1>4, <1>7, <1>8, <1>9, <1>12, PlaceFacts
    <2>3. Site' = k + 1
        BY <1>2, <2>1, <2>2, NextField1 DEF Site
    <2>4. OpenHere' = OpenHere
        <3>1. OpenHere = msg.opens[k] /\ OpenHere' = msg.opens[k + 1]
            BY <1>2, <1>3, <2>3 DEF OpenHere
        <3>2. msg.opens[k + 1] = Inner(msg.opens[k], k, f.type)
            BY <1>4, NextField1
        <3>. QED  BY <1>5, <3>1, <3>2 DEF Inner
    <2>5. Follows(OpenHere)' /\ Armed'
        BY <1>2, <2>4, EntriesStay
    <2>6. Depths'
        BY <1>2, <1>11, <2>1, <2>4 DEF Depths, Going
    <2>7. Delivering' /\ Between' /\ Pended'
        BY <1>2, <2>1, <2>2, <2>3 DEF Delivering, Between, Pended
    <2>. QED  BY <2>5, <2>6, <2>7 DEF Located
<1>13. CASE ~Over
    <2>1. /\ pend' = [k |-> k, skip |-> ~Takes] /\ pendDone' = pendDone + t
          /\ suspendDepth' = Len(stack) /\ incomplete' /\ pc' \in {"parsed", "return"}
        BY <1>2, <1>3, <1>6, <1>13 DEF Leaving
    <2>2. /\ msg.start[k] <= Behind(k, pendDone + t) /\ Behind(k, pendDone + t) < msg.start[k + 1]
          /\ Behind(k, pendDone + t) \in Nat
        <3>1. pendDone + t < total
            BY <1>8, <1>13
        <3>. QED  BY <1>3, <1>4, <1>7, <1>8, <3>1, PlaceFacts
    <2>3. FieldAfter(msg, Behind(k, pendDone + t)) = k
        <3>1. k \in 1..(Len(msg.fields) + 1)
            BY <1>3
        <3>. QED  BY <2>2, <3>1, FieldAfterIs
    <2>4. Site' = k /\ OpenHere' = OpenHere
        BY <1>2, <1>3, <1>9, <2>1, <2>3 DEF Site, OpenHere
    <2>5. Follows(OpenHere)' /\ Armed'
        BY <1>2, <2>4, EntriesStay
    <2>6. Depths'
        BY <1>11, <1>2, <2>1, <2>4 DEF Depths, Going
    <2>7. Delivering'
        BY <2>1 DEF Delivering
    <2>8. Between'
        <3>1. pend'.k = k /\ (pend'.skip <=> k \notin msg.live)
            BY <1>1, <1>3, <2>1, DeliverFacts
        <3>2. pend' # NoPend
            BY <1>3, <3>1 DEF NoPend
        <3>3. PICK m : m = pendDone + t
            OBVIOUS
        <3>4. Pos' = Behind(k, m)' /\ pendDone' = m /\ Site' = k
            BY <1>9, <1>10, <2>1, <2>4, <3>3
        <3>5. Pos' = Behind(Site, pendDone)'
            BY <3>4 DEF Behind
        <3>. QED  BY <1>2, <2>1, <2>4, <3>1, <3>2, <3>5 DEF Between, Going
    <2>9. Pended'
        BY <1>2, <1>4, <1>5, <2>1 DEF Pended, At
    <2>. QED  BY <2>5, <2>6, <2>7, <2>8, <2>9 DEF Located
<1>. QED  BY <1>12, <1>13

------------------------------------------------------------------------------
(* Every step keeps the invariant. *)

\* Nor does a refused field have one.
LEMMA RefusalsStay ==
    ASSUME RefuseSpan \/ RefuseHeader \/ RefuseWithheld \/ DeliverRefused
    PROVE  PInv'
<1>1. ASSUME NEW c, NEW id PROVE IndexError(c, id) # "None"
    BY DEF IndexError
<1>2. PICK e : Refused(e) /\ (\/ e \in {"InvalidMessage", "LimitExceeded"}
                              \/ \E c, id : e = IndexError(c, id)
                              \/ \E u : e = RefusalOf(u) /\ e # "None")
    BY DEF RefuseSpan, RefuseHeader, RefuseWithheld, DeliverRefused
<1>3. e # "None"
    BY <1>1, <1>2
<1>. QED  BY <1>2, <1>3, RefusedStays

\* Every step keeps the invariant.
LEMMA StepStays == IInv /\ PInv /\ [Next \/ AnyReset]_vars => PInv'
<1>. SUFFICES ASSUME IInv, PInv, [Next \/ AnyReset]_vars PROVE PInv'
    OBVIOUS
<1>1. CASE UNCHANGED vars
    BY <1>1, UnmovedKeeps DEF vars, input, windowVars, resumeVars, levelVars
<1>2. CASE KeepCarrying \/ ParseTheRest \/ Stash
    BY <1>2, KeepCarryingStays, ParseTheRestStays, StashStays
<1>3. CASE Descend \/ Resume \/ LeaveLevel
    BY <1>3, DescendStays, ResumeStays, LeaveLevelStays
<1>4. CASE WindowEnds \/ HeaderCut \/ SequenceOver \/ Accept
    BY <1>4, WindowEndsStays, HeaderCutStays, SequenceOverStays, AcceptStays
<1>5. CASE RefuseSpan \/ RefuseHeader \/ RefuseWithheld \/ DeliverRefused
    BY <1>5, RefusalsStay
<1>6. CASE DeliverSequence \/ DeliverPayload
    BY <1>6, DeliverSequenceStays, DeliverPayloadStays
<1>7. CASE FeedNothing \/ \E n \in 1..Bytes(msg) : Feed(n)
    BY <1>7, FeedNothingStays, FeedStays
<1>8. CASE Reset \/ AnyReset
    <2>1. msg \in Decodings
        BY DEF IInv, InputTyped
    <2>. QED  BY <1>8, <2>1, ResetStays DEF Reset, AnyReset
<1>. QED  BY <1>1, <1>2, <1>3, <1>4, <1>5, <1>6, <1>7, <1>8 DEF Next, ParseStep

\* A decoder that has just been made is at the first byte.
LEMMA InitIsLocated == Init => PInv
<1>1. Init => Laid(msg) /\ NotBegun
    BY DecodingsAreLaid DEF Init, NotBegun
<1>. QED  BY <1>1, FreshIsLocated

\* The path leads back to the next byte.
LEMMA LocatedIsOpen == IInv /\ PInv => PathIsOpen
<1>. SUFFICES ASSUME IInv, Located, Suspended PROVE PathIsOpen
    BY DEF PathIsOpen, PInv, Suspended
<1>1. pc = "idle" /\ stack = <<>> /\ Len(stack) = 0
    BY DEF Suspended, IInv, CallsNest
<1>2. Unread = Pos + 1
    BY <1>1, PosFacts DEF Unread
<1>3. NextField = Site
    BY <1>1, <1>2 DEF NextField, Site, FieldAfter
<1>4. PICK open \in Seq(Nat) : open = OpenHere
    BY SiteFacts
<1>5. \A d \in 1..Len(open) :
         path[d - 1].k = open[d] /\ (path[d - 1].skip <=> open[d] \notin msg.live)
    BY <1>1, <1>4 DEF Located, Follows, EnteredId, EnteredSkip
<1>6. open = [d \in 1..Len(open) |-> path[d - 1].k]
    BY <1>4, <1>5
<1>7. suspendDepth = (IF open = <<>> /\ ~incomplete THEN -1 ELSE Len(open))
    BY <1>1, <1>4 DEF Located, Depths, Going
<1>8. pend # NoPend => pend.k = Site /\ (pend.skip <=> pend.k \notin msg.live)
    BY <1>1 DEF Located, Between
<1>9. pend = NoPend => Unread = msg.start[Site] + 1
    BY <1>1, <1>2 DEF Located, Between
<1>10. open = msg.opens[NextField]
    BY <1>3, <1>4 DEF OpenHere
<1>. QED  BY <1>3, <1>5, <1>6, <1>7, <1>8, <1>9, <1>10 DEF PathIsOpen

\* Between two feeds the path is that of the sequences open at the next byte, each with
\* the way it was entered, and what is half-delivered is the field that byte belongs to:
\* a decoder that is fed again enters and delivers what it was in the middle of
\* (the state of 3042-3088, entered again by sofab.hpp:4041-4135).
THEOREM ResumesWhereItWas == Spec => []PathIsOpen
<1>1. Spec => []PInv
    <2>1. IInv /\ PInv /\ [Next]_vars => PInv'
        BY StepStays
    <2>. QED  BY <2>1, InitIsLocated, DecoderInvariant, PTL DEF Spec
<1>. QED  BY <1>1, LocatedIsOpen, DecoderInvariant, PTL

------------------------------------------------------------------------------
(* The span of a top-level field, and what is discounted from it, do not       *)
(* depend on where the chunks were cut.                                        *)

\* Inside a top-level sequence, or at the header of one.
InSpan == OpenHere # <<>> \/ (pc = "deliver" /\ Current.type = "start")
Top == IF OpenHere = <<>> THEN Site ELSE OpenHere[1]

\* The counters that outlive a window give the bytes since the start of that sequence.
Counted == InSpan => spanCarry + p - spanBase = Pos - msg.start[Top]

\* What a call discounts when it returns for having walked over the bytes up to q.
OwesOf(from, q) == IF from = Nowhere THEN 0 ELSE q - from
OwedOf(s, q) == SumOf([d \in 1..Len(s) |-> OwesOf(s[d].from, q)])
Owed == OwedOf(stack, p)
Owing == IF pc = "deliver" /\ cur.k \notin msg.live THEN OwesOf(cur.from, p) ELSE 0

\* What is to be discounted for the bytes before q, which is in field k or behind it.
DiscountsAt(k, q) == Discounts(msg)[k] + TimesDeclined(msg, k) * (q - msg.start[k])
DiscountedHere ==
    IF ~Nested(msg, Site) THEN 0
    ELSE IF Site \in Fields(msg) THEN DiscountsAt(Site, Pos) ELSE Discounts(msg)[Site]

\* What was discounted and what the calls are about to discount is what is to be.
Discounting == InSpan /\ Top \in msg.live => spanSkipped + Owed + Owing = DiscountedHere

\* Who skips has noted where it began, inside a span that is not measured.
Skippers ==
    /\ \A d \in 1..Len(stack) :
        /\ ~stack[d].skip => stack[d].from = Nowhere
        /\ d > 1 /\ stack[d].skip => stack[d].from # Nowhere
        /\ d > 1 /\ stack[d - 1].skip => stack[d].span
    /\ InSkip => spanSkip
    /\ pc = "deliver" /\ stack # <<>> => cur.from # Nowhere

SpanExact == Counted /\ Discounting /\ Skippers
SInv == IF terminal = "None" THEN SpanExact ELSE pc = "idle"

------------------------------------------------------------------------------
(* Sums. *)

\* What each call owes is a number.
LEMMA OwesAreNumbers ==
    ASSUME NEW s, NEW n \in Nat, n = Len(s), \A d \in 1..n : s[d].from \in Int, NEW q \in Int
    PROVE  /\ Numbers([d \in 1..Len(s) |-> OwesOf(s[d].from, q)], n)
           /\ OwedOf(s, q) \in Int
<1>1. PICK v : v = [d \in 1..Len(s) |-> OwesOf(s[d].from, q)]
    OBVIOUS
<1>2. Len(v) = n
    BY <1>1
<1>3. \A d \in 1..n : v[d] \in Int
    BY <1>1 DEF OwesOf
<1>4. Numbers(v, n)
    BY <1>2, <1>3 DEF Numbers
<1>5. PICK g \in [0..n -> Int] : AddsUp(g, v, n)
    BY <1>4, SumExists
<1>6. SumOf(v) \in Int
    BY <1>4, <1>5, SumIs
<1>. QED  BY <1>1, <1>4, <1>6 DEF OwedOf

\* One call more.
Pushed(s, t, n) ==
    /\ n = Len(s) /\ Len(t) = n + 1
    /\ \A d \in 1..n : t[d] = s[d]
    /\ \A d \in 1..(n + 1) : t[d].from \in Int

\* Then what it owes comes to what the others owe.
LEMMA OwedPush ==
    ASSUME NEW s, NEW t, NEW n \in Nat, Pushed(s, t, n), NEW q \in Int
    PROVE  OwedOf(t, q) = OwedOf(s, q) + OwesOf(t[n + 1].from, q)
<1>. /\ n = Len(s) /\ Len(t) = n + 1 /\ \A d \in 1..n : t[d] = s[d]
     /\ \A d \in 1..(n + 1) : t[d].from \in Int
    BY DEF Pushed
<1>1. PICK k \in Nat : k = n + 1
    OBVIOUS
<1>2. PICK v : v = [d \in 1..Len(s) |-> OwesOf(s[d].from, q)]
    OBVIOUS
<1>3. PICK w : w = [d \in 1..Len(t) |-> OwesOf(t[d].from, q)]
    OBVIOUS
<1>4. \A d \in 1..n : d \in 1..(n + 1) /\ s[d].from \in Int
    OBVIOUS
<1>5. Numbers(v, n)
    BY <1>2, <1>4, OwesAreNumbers
<1>6. Numbers(w, n + 1)
    BY <1>1, <1>3, OwesAreNumbers
<1>7. \A d \in 1..n : w[d] = v[d]
    BY <1>2, <1>3, <1>4
<1>8. SumOf(w) = SumOf(v) + w[n + 1]
    BY <1>5, <1>6, <1>7, SumPush
<1>9. w[n + 1] = OwesOf(t[n + 1].from, q)
    BY <1>3
<1>. QED  BY <1>2, <1>3, <1>8, <1>9 DEF OwedOf

\* The parse goes on: each call that skips owes as much more.
LEMMA OwedGrows ==
    ASSUME NEW s, NEW n \in Nat, n = Len(s), \A d \in 1..n : s[d].from \in Int,
           NEW q \in Int, NEW x \in Int, NEW B, \A d \in 1..n : d \in B <=> s[d].from # Nowhere
    PROVE  OwedOf(s, q + x) = OwedOf(s, q) + x * CountIn(n, B)
<1>1. PICK r \in Int : r = q + x
    OBVIOUS
<1>2. PICK v : v = [d \in 1..Len(s) |-> OwesOf(s[d].from, q)]
    OBVIOUS
<1>3. PICK w : w = [d \in 1..Len(s) |-> OwesOf(s[d].from, r)]
    OBVIOUS
<1>4. Numbers(v, n)
    BY <1>2, OwesAreNumbers
<1>5. Len(w) = n
    BY <1>3
<1>6. \A d \in 1..n : w[d] = v[d] + (IF d \in B THEN x ELSE 0)
    <2>. SUFFICES ASSUME NEW d \in 1..n PROVE w[d] = v[d] + (IF d \in B THEN x ELSE 0)
        OBVIOUS
    <2>1. PICK a \in Int : a = s[d].from
        OBVIOUS
    <2>2. w[d] = OwesOf(a, r) /\ v[d] = OwesOf(a, q) /\ (d \in B <=> a # Nowhere)
        BY <1>2, <1>3, <2>1
    <2>. QED  BY <1>1, <2>2 DEF OwesOf
<1>7. SumOf(w) = SumOf(v) + x * CountIn(n, B)
    BY <1>4, <1>5, <1>6, SumShift DEF Raised
<1>. QED  BY <1>1, <1>2, <1>3, <1>7 DEF OwedOf

\* Where no call skips nothing is owed.
LEMMA NothingOwed ==
    ASSUME NEW s, NEW n \in Nat, n = Len(s), \A d \in 1..n : s[d].from = Nowhere, NEW q
    PROVE  OwedOf(s, q) = 0
<1>1. PICK v : v = [d \in 1..Len(s) |-> OwesOf(s[d].from, q)]
    OBVIOUS
<1>2. Len(v) = n /\ \A d \in 1..n : v[d] = 0
    BY <1>1 DEF OwesOf
<1>. QED  BY <1>1, <1>2, SumOfZeros DEF OwedOf

------------------------------------------------------------------------------
(* Where the parse is. *)

\* The types of what is counted with.
LEMMA SpanFacts ==
    ASSUME IInv
    PROVE  /\ Laid(msg) /\ Len(msg.fields) \in Nat /\ p \in Nat /\ Pos \in Nat
           /\ spanCarry \in Nat /\ spanBase \in Nat /\ spanSkipped \in Nat
           /\ Len(stack) \in Nat /\ stack \in Seq(Frames)
           /\ \A d \in 1..Len(stack) : stack[d].from \in Int
           /\ Owed \in Int
           /\ Len(OpenHere) \in Nat /\ OpenHere \in Seq(Nat) /\ OpenHere = msg.opens[Site]
           /\ Nested(msg, Site) <=> OpenHere # <<>>
           /\ OpenHere # <<>> <=> Len(OpenHere) # 0
           /\ stack # <<>> <=> Len(stack) # 0
<1>1. /\ Laid(msg) /\ Len(msg.fields) \in Nat /\ p \in Nat /\ Pos \in Nat
      /\ spanCarry \in Nat /\ spanBase \in Nat /\ spanSkipped \in Nat
      /\ Len(stack) \in Nat /\ stack \in Seq(Frames)
    BY MessageFacts, PosFacts DEF IInv, SpansCount, CallsNest
<1>2. PICK n \in Nat : n = Len(stack)
    BY <1>1
<1>3. \A d \in 1..n : stack[d] \in Frames
    BY <1>1, <1>2
<1>4. \A d \in 1..n : stack[d].from \in Int
    BY <1>3 DEF Frames
<1>5. OwedOf(stack, p) \in Int
    <2>1. PICK s : s = stack
        OBVIOUS
    <2>2. PICK q \in Int : q = p
        BY <1>1
    <2>3. n = Len(s) /\ \A d \in 1..n : s[d].from \in Int
        BY <1>2, <1>4, <2>1
    <2>4. OwedOf(s, q) \in Int
        BY <2>3, OwesAreNumbers
    <2>. QED  BY <2>1, <2>2, <2>4
<1>6. OpenHere \in Seq(Nat) /\ OpenHere = msg.opens[Site]
    BY SiteFacts DEF OpenHere
<1>7. ASSUME NEW T, NEW q \in Seq(T) PROVE q # <<>> <=> Len(q) # 0
    OBVIOUS
<1>8. (OpenHere # <<>> <=> Len(OpenHere) # 0) /\ (stack # <<>> <=> Len(stack) # 0)
    BY <1>1, <1>6, <1>7
<1>9. Len(OpenHere) \in Nat
    BY <1>6
<1>. QED  BY <1>1, <1>2, <1>4, <1>5, <1>6, <1>8, <1>9 DEF Owed, Nested

\* A start is a number.
LEMMA StartIsNat ==
    ASSUME NEW m, Laid(m), NEW k \in Fields(m)
    PROVE  /\ m.start[k] \in Nat /\ m.start[k + 1] \in Nat
           /\ m.start[k + 1] = m.start[k] + Size(At(m, k)) /\ Size(At(m, k)) \in Nat
           /\ Header(At(m, k)) \in Nat
<1>1. PICK l \in Nat : l = Len(m.fields)
    BY DEF Laid
<1>2. k \in 1..l /\ k \in 1..(l + 1) /\ k + 1 \in 1..(l + 1)
    BY <1>1 DEF Fields
<1>3. m.fields[k] \in DOMAIN Alphabet
    BY <1>1, <1>2 DEF Laid
<1>4. Size(At(m, k)) \in Nat /\ Header(At(m, k)) \in Nat
    BY <1>3, FieldFacts DEF At
<1>. QED  BY <1>1, <1>2, <1>4 DEF Laid

\* As many bytes as are consumed, so far does the position move.
LEMMA PosMoves ==
    ASSUME IInv, NEW x \in Int, p' = p + x, UNCHANGED <<fed, chunk, held, carry>>
    PROVE  Pos' = Pos + x
<1>1. fed \in Nat /\ p \in Nat /\ Len(carry) \in Nat /\ Len(chunk) \in Nat /\ held \in Nat
    BY MessageFacts, PosFacts
<1>2. Pos' = fed - Len(carry) - Len(chunk) - held + (p + x)
    BY DEF Pos
<1>. QED  BY <1>1, <1>2 DEF Pos

\* How many declined sequences are open at a field, and how often its own bytes are discounted.
DeclinedAround(m, k) == {d \in 1..Len(m.opens[k]) : m.opens[k][d] \notin m.live}
Itself(m, k) == IF k \in m.live \/ At(m, k).type = "end" THEN 0 ELSE 1

\* The two together are how often they are.
LEMMA TimesIs ==
    ASSUME NEW m, Laid(m), NEW k \in Fields(m), NEW n \in Nat, n = Len(m.opens[k])
    PROVE  /\ TimesDeclined(m, k) = CountIn(n, DeclinedAround(m, k)) + Itself(m, k)
           /\ CountIn(n, DeclinedAround(m, k)) \in Nat /\ Itself(m, k) \in {0, 1}
           /\ TimesDeclined(m, k) \in Nat
<1>1. k \in 1..(Len(m.fields) + 1)
    BY DEF Laid, Fields
<1>2. m.opens[k] \in Seq(Nat)
    BY <1>1 DEF Laid
<1>3. PICK B : B = DeclinedAround(m, k)
    OBVIOUS
<1>4. {d \in DOMAIN m.opens[k] : m.opens[k][d] \notin m.live} = {d \in 1..n : d \in B}
    BY <1>2, <1>3 DEF DeclinedAround
<1>5. TimesDeclined(m, k) = CountIn(n, B) + Itself(m, k)
    BY <1>4 DEF TimesDeclined, CountIn, Itself
<1>6. CountIn(n, B) \in Nat
    BY OneMore
<1>7. Itself(m, k) \in {0, 1}
    BY DEF Itself
<1>. QED  BY <1>3, <1>5, <1>6, <1>7

GrowsBy(k, q, x, n) ==
    /\ DiscountsAt(k, q) \in Int
    /\ DiscountsAt(k, q + x) = DiscountsAt(k, q)
            + x * CountIn(n, DeclinedAround(msg, k)) + (IF Itself(msg, k) = 1 THEN x ELSE 0)

\* What is to be discounted grows by these with every byte, and with the last byte of a field
\* it is what is to be discounted at the next one.
LEMMA DiscountsGrow ==
    ASSUME IInv, NEW k \in Fields(msg), Nested(msg, k), NEW q \in Int, NEW x \in Int,
           NEW n \in Nat, n = Len(msg.opens[k])
    PROVE  /\ GrowsBy(k, q, x, n)
           /\ DiscountsAt(k, msg.start[k]) = Discounts(msg)[k]
           /\ DiscountsAt(k, msg.start[k + 1]) = Discounts(msg)[k + 1]
<1>1. Laid(msg)
    BY MessageFacts
<1>2. PICK a \in Nat, b \in Nat, z \in Nat :
        a = msg.start[k] /\ b = msg.start[k + 1] /\ z = Size(At(msg, k)) /\ b = a + z
    BY <1>1, StartIsNat
<1>3. PICK t \in Nat, c \in Nat, o \in {0, 1} :
        /\ t = TimesDeclined(msg, k) /\ c = CountIn(n, DeclinedAround(msg, k))
        /\ o = Itself(msg, k) /\ t = c + o
    BY <1>1, TimesIs
<1>4. PICK s \in Nat : s = Discounts(msg)[k] /\ Discounts(msg)[k + 1] = s + z * t
    <2>1. k \in 1..(Len(msg.fields) + 1)
        BY <1>1 DEF Laid, Fields
    <2>. QED  BY <1>1, <1>2, <1>3, <2>1, DiscountsAddUp
<1>5. \A r : DiscountsAt(k, r) = s + t * (r - a)
    BY <1>2, <1>3, <1>4 DEF DiscountsAt
<1>6. DiscountsAt(k, q) \in Int
    BY <1>5
<1>7. DiscountsAt(k, a) = s
    <2>1. t * (a - a) = 0
        OBVIOUS
    <2>. QED  BY <1>5, <2>1
<1>8. DiscountsAt(k, b) = s + z * t
    <2>1. b - a = z
        BY <1>2
    <2>2. t * z = z * t
        OBVIOUS
    <2>. QED  BY <1>5, <2>1, <2>2
<1>9. DiscountsAt(k, q + x) = DiscountsAt(k, q) + x * c + (IF o = 1 THEN x ELSE 0)
    <2>1. PICK y \in Int : y = q - a /\ (q + x) - a = y + x
        OBVIOUS
    <2>2. t * (y + x) = t * y + t * x
        OBVIOUS
    <2>3. t * x = x * c + (IF o = 1 THEN x ELSE 0)
        <3>1. (c + o) * x = c * x + o * x /\ c * x = x * c
            OBVIOUS
        <3>2. o * x = IF o = 1 THEN x ELSE 0
            OBVIOUS
        <3>. QED  BY <1>3, <3>1, <3>2
    <2>4. PICK u \in Int, w \in Int : u = t * y /\ w = x * c
        OBVIOUS
    <2>. QED  BY <1>5, <2>1, <2>2, <2>3, <2>4
<1>10. GrowsBy(k, q, x, n)
    BY <1>3, <1>6, <1>9 DEF GrowsBy
<1>. QED  BY <1>2, <1>4, <1>7, <1>8, <1>10

------------------------------------------------------------------------------
(* Steps that stay where they are. *)

\* Outside any call nothing is owed.
LEMMA NoCallOwes == \A q : OwedOf(<<>>, q) = 0
<1>1. Len(<<>>) = 0 /\ \A d \in 1..0 : <<>>[d].from = Nowhere
    OBVIOUS
<1>. QED  BY <1>1, NothingOwed

\* The counters have the same sums, and the position is the same.
LEMMA SpansStay ==
    ASSUME IInv, SpanExact, UNCHANGED msg, pc # "deliver", pc' # "deliver", Pos' = Pos,
           OpenHere # <<>> => spanCarry' + p' - spanBase' = spanCarry + p - spanBase,
           OpenHere # <<>> /\ OpenHere[1] \in msg.live =>
                spanSkipped' + Owed' = spanSkipped + Owed,
           Skippers'
    PROVE  SpanExact'
<1>1. Site' = Site
    BY DEF Site, FieldAfter, Bytes
<1>2. OpenHere' = OpenHere
    BY <1>1 DEF OpenHere
<1>3. DiscountedHere' = DiscountedHere
    BY <1>1 DEF DiscountedHere, DiscountsAt, Nested, Fields
<1>4. (InSpan <=> OpenHere # <<>>) /\ (InSpan' <=> OpenHere # <<>>) /\ Top' = Top
    BY <1>1, <1>2 DEF InSpan, Top
<1>5. OpenHere # <<>> => Top = OpenHere[1]
    BY DEF Top
<1>6. Counted'
    <2>. SUFFICES ASSUME OpenHere # <<>> PROVE spanCarry' + p' - spanBase' = Pos' - msg'.start[Top']
        BY <1>4 DEF Counted
    <2>1. spanCarry + p - spanBase = Pos - msg.start[Top]
        BY <1>4 DEF SpanExact, Counted
    <2>. QED  BY <1>4, <2>1
<1>7. Discounting'
    <2>. SUFFICES ASSUME OpenHere # <<>>, Top' \in msg'.live
                  PROVE  spanSkipped' + Owed' + Owing' = DiscountedHere'
        BY <1>4 DEF Discounting
    <2>1. Owing = 0 /\ Owing' = 0
        BY DEF Owing
    <2>2. spanSkipped + Owed + Owing = DiscountedHere
        BY <1>4 DEF SpanExact, Discounting
    <2>3. spanSkipped' + Owed' = spanSkipped + Owed
        BY <1>4, <1>5
    <2>. QED  BY <1>3, <2>1, <2>2, <2>3
<1>. QED  BY <1>6, <1>7 DEF SpanExact

\* A window begins or ends, outside any call.
LEMMA WindowSpans ==
    ASSUME IInv, SpanExact, UNCHANGED <<msg, stack, spanSkipped>>, stack = <<>>,
           pc # "deliver", pc' # "deliver", Pos' = Pos,
           OpenHere # <<>> => spanCarry' + p' - spanBase' = spanCarry + p - spanBase
    PROVE  SpanExact'
<1>1. Owed = 0 /\ Owed' = 0
    BY NoCallOwes DEF Owed
<1>2. Len(stack') = 0
    OBVIOUS
<1>3. Skippers'
    BY <1>2 DEF Skippers, InSkip
<1>. QED  BY <1>1, <1>3, SpansStay

\* What is carried begins the next window.
LEMMA FeedSpans ==
    ASSUME IInv, SpanExact, NEW n \in 1..Bytes(msg), Feed(n)
    PROVE  SpanExact'
<1>1. pc = "idle" /\ stack = <<>> /\ p = 0
    BY DEF Feed, IInv, CallsNest, WindowIsNext, Consumed
<1>2. spanBase = 0
    BY <1>1 DEF IInv, SpansCount
<1>3. /\ UNCHANGED <<msg, stack, spanSkipped, spanCarry>> /\ p' = 0 /\ spanBase' = 0
      /\ pc' # "deliver"
    BY DEF Feed, levelVars, OpenWindow
<1>. QED  BY <1>1, <1>2, <1>3, FeedStaysHere, WindowSpans

\* Inside a sequence the span so far is kept when the window ends.
LEMMA ParsedSpans ==
    ASSUME IInv, Located, Parsed, OpenHere # <<>>
    PROVE  SpanSoFar = spanCarry + p - spanBase
<1>1. incomplete
    BY DEF Located, Depths, Parsed
<1>. QED  BY <1>1 DEF SpanSoFar

\* The feed() ends.
LEMMA CarrySpans ==
    ASSUME IInv, Located, SpanExact, NEW e, Carry(e), Parsed, Len(Rest) = Avail,
           Len(window) = held + Len(chunk)
    PROVE  SpanExact'
<1>1. pc = "parsed" /\ stack = <<>>
    BY DEF Parsed, IInv, CallsNest
<1>2. /\ UNCHANGED <<msg, stack, spanSkipped>> /\ p' = 0 /\ spanBase' = 0 /\ spanCarry' = SpanSoFar
      /\ pc' = "idle"
    BY DEF Carry, Return, input, levelVars
<1>3. OpenHere # <<>> => spanCarry' + p' - spanBase' = spanCarry + p - spanBase
    <2>1. OpenHere # <<>> => SpanSoFar = spanCarry + p - spanBase
        BY ParsedSpans
    <2>2. spanCarry + p - spanBase \in Int
        BY SpanFacts
    <2>. QED  BY <1>2, <2>1, <2>2
<1>. QED  BY <1>1, <1>2, <1>3, CarryStaysHere, WindowSpans

\* The second window of a feed() begins.
LEMMA ParseTheRestSpans ==
    ASSUME IInv, Located, SpanExact, ParseTheRest
    PROVE  SpanExact'
<1>1. pc = "parsed" /\ stack = <<>> /\ Parsed
    BY DEF ParseTheRest, Parsed, IInv, CallsNest
<1>2. /\ UNCHANGED <<msg, stack, spanSkipped>> /\ p' = 0 /\ spanBase' = 0 /\ spanCarry' = SpanSoFar
      /\ pc' # "deliver"
    BY DEF ParseTheRest, OpenWindow, input, levelVars
<1>3. OpenHere # <<>> => spanCarry' + p' - spanBase' = spanCarry + p - spanBase
    <2>1. OpenHere # <<>> => SpanSoFar = spanCarry + p - spanBase
        BY <1>1, ParsedSpans
    <2>2. spanCarry + p - spanBase \in Int
        BY SpanFacts
    <2>. QED  BY <1>2, <2>1, <2>2
<1>. QED  BY <1>1, <1>2, <1>3, ParseTheRestStaysHere, WindowSpans

\* The calls and the counters stay; nothing is being delivered.
LEMMA CallsStay ==
    ASSUME IInv, SpanExact, UNCHANGED <<msg, stack, spanSkip, spanSkipped, p>>,
           pc # "deliver", pc' # "deliver", Pos' = Pos,
           OpenHere # <<>> => UNCHANGED <<spanCarry, spanBase>>
    PROVE  SpanExact'
<1>1. Owed' = Owed
    BY DEF Owed
<1>2. Skippers'
    BY DEF SpanExact, Skippers, InSkip, seqDepth
<1>. QED  BY <1>1, <1>2, SpansStay

------------------------------------------------------------------------------
(* Suspending and resuming. *)

\* The window ends between two fields.
LEMMA WindowEndsSpans ==
    ASSUME IInv, SpanExact, WindowEnds
    PROVE  SpanExact'
<1>1. pc = "loop" /\ pc' # "deliver"
    BY DEF WindowEnds, SuspendAtBoundary, Leaving
<1>2. UNCHANGED <<msg, stack, spanSkip, spanSkipped, p, spanCarry, spanBase>>
    BY DEF WindowEnds, input, spanVars, levelVars
<1>3. Pos' = Pos
    BY DEF WindowEnds, input, windowVars, Pos
<1>. QED  BY <1>1, <1>2, <1>3, CallsStay

\* A header is cut; one at the top level starts its span anew.
LEMMA HeaderCutSpans ==
    ASSUME IInv, Located, SpanExact, HeaderCut
    PROVE  SpanExact'
<1>1. pc = "loop" /\ pc' # "deliver"
    BY DEF HeaderCut, AtField, SuspendAtBoundary, Leaving
<1>2. UNCHANGED <<msg, stack, spanSkip, p>>
    BY DEF HeaderCut, input, levelVars
<1>3. Pos' = Pos
    BY DEF HeaderCut, input, windowVars, Pos
<1>4. CASE stack # <<>>
    <2>1. UNCHANGED <<spanSkipped, spanCarry, spanBase>>
        BY <1>4 DEF HeaderCut, StartsSpan, spanVars
    <2>. QED  BY <1>1, <1>2, <1>3, <2>1, CallsStay
<1>5. CASE stack = <<>>
    <2>1. OpenHere = <<>>
        BY <1>1, <1>5, CallsAreHere, SpanFacts
    <2>2. Skippers'
        BY <1>1, <1>2 DEF SpanExact, Skippers, InSkip, seqDepth
    <2>. QED  BY <1>1, <1>2, <1>3, <2>1, <2>2, SpansStay
<1>. QED  BY <1>4, <1>5

\* A sequence that is entered again owes nothing yet.
LEMMA DescendSpans ==
    ASSUME IInv, SpanExact, Descend
    PROVE  SpanExact'
<1>1. PICK n \in Nat : n = Len(stack)
    BY SpanFacts
<1>2. PICK skip, from : OpenLevel(path[n].k, skip, from) /\ from = IF skip THEN p ELSE Nowhere
    BY <1>1 DEF Descend, seqDepth
<1>3. PICK frame : frame = [k |-> path[n].k, skip |-> skip, from |-> from,
                            span |-> spanSkip, elem |-> elem]
    OBVIOUS
<1>4. stack' = Append(stack, frame) /\ spanSkip' = (spanSkip \/ skip)
    BY <1>2, <1>3 DEF OpenLevel
<1>5. stack \in Seq(Frames) /\ p \in Nat /\ \A d \in 1..n : stack[d].from \in Int
    BY <1>1, SpanFacts
<1>6. Len(stack') = n + 1 /\ stack'[n + 1] = frame /\ \A d \in 1..n : stack'[d] = stack[d]
    BY <1>1, <1>4, <1>5
<1>7. UNCHANGED <<msg, p, spanCarry, spanBase, spanSkipped>> /\ pc = "enter" /\ pc' # "deliver"
    BY <1>2 DEF Descend, input, spanVars, OpenLevel
<1>8. Pos' = Pos
    BY DEF Descend, input, windowVars, resumeVars, Pos
<1>9. frame.from = from /\ from \in Int /\ OwesOf(from, p) = 0
    BY <1>2, <1>3, <1>5 DEF OwesOf, Nowhere
<1>10. Owed' = Owed
    <2>1. \A d \in 1..(n + 1) : stack'[d].from \in Int
        <3>. SUFFICES ASSUME NEW d \in 1..(n + 1) PROVE stack'[d].from \in Int
            OBVIOUS
        <3>1. d \in 1..n \/ d = n + 1
            OBVIOUS
        <3>. QED  BY <1>5, <1>6, <1>9, <3>1
    <2>2. PICK t : t = stack'
        OBVIOUS
    <2>3. PICK q \in Int : q = p
        BY <1>5
    <2>4. OwedOf(t, q) = OwedOf(stack, q) + OwesOf(t[n + 1].from, q)
        <3>1. Pushed(stack, t, n)
            BY <1>1, <1>6, <2>1, <2>2 DEF Pushed
        <3>. QED  BY <2>3, <3>1, OwedPush
    <2>5. OwedOf(stack, q) \in Int
        BY <2>3, SpanFacts DEF Owed
    <2>. QED  BY <1>6, <1>7, <1>9, <2>2, <2>3, <2>4, <2>5 DEF Owed
<1>11. Skippers'
    <2>1. InSkip <=> n # 0 /\ stack[n].skip
        BY <1>1, SpanFacts DEF InSkip, seqDepth
    <2>2. frame.skip = skip /\ frame.span = spanSkip /\ (skip => from # Nowhere) /\ (~skip => from = Nowhere)
        BY <1>2, <1>3, <1>5 DEF Nowhere
    <2>3. ASSUME NEW d \in 1..(n + 1)
          PROVE  /\ ~stack'[d].skip => stack'[d].from = Nowhere
                 /\ d > 1 /\ stack'[d].skip => stack'[d].from # Nowhere
                 /\ d > 1 /\ stack'[d - 1].skip => stack'[d].span
        <3>1. CASE d = n + 1
            <4>1. d > 1 => n \in 1..n /\ d - 1 = n /\ n # 0
                BY <3>1
            <4>2. d > 1 /\ stack'[d - 1].skip => spanSkip
                BY <1>6, <2>1, <4>1 DEF SpanExact, Skippers
            <4>. QED  BY <1>6, <1>9, <2>2, <3>1, <4>2
        <3>2. CASE d \in 1..n
            <4>1. d > 1 => d - 1 \in 1..n
                BY <3>2
            <4>. QED  BY <1>1, <1>6, <3>2, <4>1 DEF SpanExact, Skippers
        <3>. QED  BY <3>1, <3>2
    <2>4. InSkip' <=> skip
        <3>1. Len(stack') # 0 => stack' # <<>>
            OBVIOUS
        <3>. QED  BY <1>6, <2>2, <3>1 DEF InSkip, seqDepth
    <2>. QED  BY <1>4, <1>6, <1>7, <2>3, <2>4 DEF Skippers
<1>. QED  BY <1>7, <1>8, <1>10, <1>11, SpansStay

\* What is skipped on is counted from here; what was skipped before is discounted already.
LEMMA ResumeSpans ==
    ASSUME IInv, Located, SpanExact, Resume
    PROVE  SpanExact'
<1>1. UNCHANGED <<msg, stack, spanSkip, spanSkipped, p, spanCarry, spanBase>> /\ pc = "enter"
    BY DEF Resume, input, levelVars, spanVars
<1>2. Pos' = Pos
    BY DEF Resume, input, windowVars, Pos
<1>3. CASE pend = NoPend
    <2>1. pc' = "loop"
        BY <1>3 DEF Resume
    <2>. QED  BY <1>1, <1>2, <2>1, CallsStay
<1>4. CASE pend # NoPend
    <2>1. pc' = "deliver" /\ cur' = [k |-> pend.k, skip |-> pend.skip, from |-> p]
        BY <1>4 DEF Resume
    <2>2. pend.k = Site
        BY <1>1, <1>4 DEF Located, Between
    <2>3. Site' = Site /\ OpenHere' = OpenHere
        BY <1>1, <2>1, <2>2 DEF Site, OpenHere
    <2>4. Current'.type # "start"
        BY <1>1, <1>4, <2>1 DEF Located, Pended, Current, At
    <2>5. (InSpan <=> OpenHere # <<>>) /\ (InSpan' <=> OpenHere # <<>>) /\ Top' = Top
        BY <1>1, <2>3, <2>4 DEF InSpan, Top
    <2>6. DiscountedHere' = DiscountedHere
        BY <1>1, <1>2, <2>3 DEF DiscountedHere, DiscountsAt, Nested, Fields
    <2>7. Owed' = Owed /\ Owing' = 0 /\ Owing = 0
        <3>1. p \in Nat /\ OwesOf(p, p) = 0
            BY SpanFacts DEF OwesOf
        <3>. QED  BY <1>1, <2>1, <3>1 DEF Owed, Owing
    <2>8. Counted' /\ Discounting'
        BY <1>1, <1>2, <2>5, <2>6, <2>7 DEF SpanExact, Counted, Discounting
    <2>9. p # Nowhere
        BY SpanFacts DEF Nowhere
    <2>10. Skippers'
        BY <1>1, <2>1, <2>9 DEF SpanExact, Skippers, InSkip, seqDepth
    <2>. QED  BY <2>8, <2>10 DEF SpanExact
<1>. QED  BY <1>3, <1>4

\* A call that returns discounts what it owes.
LEMMA LeaveLevelSpans ==
    ASSUME IInv, SpanExact, LeaveLevel
    PROVE  SpanExact'
<1>1. stack # <<>> /\ pc = "return" /\ stack \in Seq(Frames) /\ p \in Nat /\ spanSkipped \in Nat
    BY SpanFacts DEF IInv, CallsNest, LeaveLevel
<1>2. PICK n \in Nat \ {0} : n = Len(stack)
    BY <1>1, SpanFacts
<1>3. PICK frame : frame = stack[n]
    OBVIOUS
<1>4. /\ stack' = SubSeq(stack, 1, n - 1) /\ spanSkip' = frame.span
      /\ spanSkipped' = IF frame.from = Nowhere THEN spanSkipped ELSE spanSkipped + (p - frame.from)
      /\ pc' # "deliver"
      /\ UNCHANGED <<msg, p, spanCarry, spanBase>>
    BY <1>2, <1>3 DEF LeaveLevel, seqDepth, input
<1>5. Pos' = Pos
    BY DEF LeaveLevel, input, windowVars, Pos
<1>6. PICK m \in Nat : m = n - 1 /\ n = m + 1
    OBVIOUS
<1>7. Len(stack') = m /\ \A d \in 1..m : stack'[d] = stack[d]
    BY <1>1, <1>2, <1>4, <1>6
<1>8. \A d \in 1..n : stack[d].from \in Int
    BY <1>2, SpanFacts
<1>9. spanSkipped' + Owed' = spanSkipped + Owed
    <2>1. PICK t : t = stack'
        OBVIOUS
    <2>2. PICK q \in Int : q = p
        BY <1>1
    <2>3. OwedOf(stack, q) = OwedOf(t, q) + OwesOf(frame.from, q)
        <3>1. Len(stack) = m + 1 /\ m = Len(t) /\ \A d \in 1..m : stack[d] = t[d]
            BY <1>2, <1>6, <1>7, <2>1
        <3>2. \A d \in 1..(m + 1) : stack[d].from \in Int
            BY <1>6, <1>8
        <3>3. Pushed(t, stack, m)
            BY <3>1, <3>2 DEF Pushed
        <3>4. OwedOf(stack, q) = OwedOf(t, q) + OwesOf(stack[m + 1].from, q)
            BY <2>2, <3>3, OwedPush
        <3>. QED  BY <1>3, <1>6, <3>4
    <2>4. OwedOf(t, q) \in Int
        <3>1. m = Len(t) /\ \A d \in 1..m : t[d].from \in Int
            <4>1. \A d \in 1..m : d \in 1..n
                BY <1>6
            <4>. QED  BY <1>7, <1>8, <2>1, <4>1
        <3>. QED  BY <3>1, OwesAreNumbers
    <2>5. frame.from \in Int
        BY <1>3, <1>8
    <2>6. spanSkipped' = spanSkipped + OwesOf(frame.from, q)
        BY <1>1, <1>4, <2>2 DEF OwesOf
    <2>7. OwesOf(frame.from, q) \in Int
        BY <2>5 DEF OwesOf
    <2>. QED  BY <1>1, <1>4, <2>1, <2>2, <2>3, <2>4, <2>6, <2>7 DEF Owed
<1>10. Skippers'
    <2>1. ASSUME NEW d \in 1..m
          PROVE  /\ ~stack'[d].skip => stack'[d].from = Nowhere
                 /\ d > 1 /\ stack'[d].skip => stack'[d].from # Nowhere
                 /\ d > 1 /\ stack'[d - 1].skip => stack'[d].span
        <3>1. d \in 1..n /\ (d > 1 => d - 1 \in 1..m)
            BY <1>6
        <3>. QED  BY <1>2, <1>7, <3>1 DEF SpanExact, Skippers
    <2>2. InSkip' => m \in 1..m /\ stack[m].skip
        <3>1. Len(stack') = 0 => ~InSkip'
            <4>1. stack' \in Seq(Frames)
                BY <1>1, <1>2, <1>4, <1>6
            <4>. QED  BY <4>1 DEF InSkip
        <3>2. m = 0 \/ m \in 1..m
            OBVIOUS
        <3>. QED  BY <1>7, <3>1, <3>2 DEF InSkip, seqDepth
    <2>3. m \in 1..m /\ stack[m].skip => frame.span
        <3>1. m \in 1..m => n > 1 /\ n \in 1..n /\ n - 1 = m
            BY <1>6
        <3>. QED  BY <1>2, <1>3, <3>1 DEF SpanExact, Skippers
    <2>. QED  BY <1>4, <1>7, <2>1, <2>2, <2>3 DEF Skippers
<1>. QED  BY <1>1, <1>4, <1>5, <1>9, <1>10, SpansStay

------------------------------------------------------------------------------
(* Steps that consume. *)

\* What the calls owe, here or further on, is a number.
LEMMA OwedIsInt ==
    ASSUME IInv, NEW q \in Int
    PROVE  OwedOf(stack, q) \in Int
<1>1. PICK n \in Nat : n = Len(stack) /\ \A d \in 1..n : stack[d].from \in Int
    BY SpanFacts
<1>. QED  BY <1>1, OwesAreNumbers

\* With the parse, what the calls of a live top-level sequence owe grows by as much for each
\* declined sequence around it.
LEMMA CallsOwe ==
    ASSUME IInv, Located, SpanExact, pc \in {"loop", "deliver"},
           OpenHere # <<>> => OpenHere[1] \in msg.live,
           NEW x \in Int, NEW n \in Nat, n = Len(OpenHere)
    PROVE  OwedOf(stack, p + x) = Owed + x * CountIn(n, DeclinedAround(msg, Site))
<1>1. n = Len(stack) /\ p \in Nat /\ \A d \in 1..n : stack[d].from \in Int
    BY CallsAreHere, SpanFacts
<1>2. \A d \in 1..n : stack[d].skip <=> OpenHere[d] \notin msg.live
    BY <1>1, CallsAreHere
<1>3. PICK B : B = DeclinedAround(msg, Site)
    OBVIOUS
<1>4. \A d \in 1..n : d \in B <=> OpenHere[d] \notin msg.live
    BY <1>3 DEF DeclinedAround, OpenHere
<1>5. \A d \in 1..n : d \in B <=> stack[d].from # Nowhere
    <2>. SUFFICES ASSUME NEW d \in 1..n PROVE d \in B <=> stack[d].from # Nowhere
        OBVIOUS
    <2>1. d = 1 => ~stack[d].skip
        <3>1. OpenHere # <<>>
            BY SpanFacts
        <3>. QED  BY <1>2, <3>1
    <2>2. d = 1 \/ d > 1
        OBVIOUS
    <2>3. /\ ~stack[d].skip => stack[d].from = Nowhere
          /\ d > 1 /\ stack[d].skip => stack[d].from # Nowhere
        BY <1>1 DEF SpanExact, Skippers
    <2>. QED  BY <1>2, <1>4, <2>1, <2>2, <2>3
<1>6. PICK s : s = stack
    OBVIOUS
<1>7. PICK q \in Int : q = p
    BY <1>1
<1>8. n = Len(s)
    BY <1>1, <1>6
<1>9. \A d \in 1..n : s[d].from \in Int
    BY <1>1, <1>6
<1>10. \A d \in 1..n : d \in B <=> s[d].from # Nowhere
    BY <1>5, <1>6
<1>11. OwedOf(s, q + x) = OwedOf(s, q) + x * CountIn(n, B)
    BY <1>8, <1>9, <1>10, OwedGrows
<1>. QED  BY <1>3, <1>6, <1>7, <1>11 DEF Owed

\* The top-level sequence around a field is one of the message.
LEMMA TopFacts ==
    ASSUME IInv, OpenHere # <<>>
    PROVE  /\ OpenHere[1] \in Fields(msg) /\ msg.start[OpenHere[1]] \in Nat
           /\ OpenHere[1] < Site
<1>1. PICK l \in Nat : l = Len(msg.fields)
    BY SpanFacts
<1>2. PICK k \in 1..(l + 1) : k = Site
    BY <1>1, SiteFacts
<1>3. 1 \in 1..Len(msg.opens[k])
    BY <1>2, SpanFacts
<1>4. Nesting(msg, k)
    BY <1>1, <1>2, SequencesNest, SpanFacts
<1>5. OpenHere[1] \in 1..(k - 1)
    BY <1>2, <1>3, <1>4 DEF Nesting, OpenHere
<1>6. PICK t \in Nat : t = OpenHere[1] /\ t \in 1..l /\ t < k
    BY <1>5
<1>7. msg.start[t] \in Nat
    <2>1. t \in Fields(msg)
        BY <1>1, <1>6 DEF Fields
    <2>. QED  BY <2>1, StartIsNat, SpanFacts
<1>. QED  BY <1>1, <1>2, <1>6, <1>7 DEF Fields

\* Inside a live top-level sequence: what has been discounted, what the calls owe x bytes on, and
\* what the field itself costs are what is to be discounted there.
LEMMA GoingOn ==
    ASSUME IInv, Located, SpanExact, pc \in {"loop", "deliver"},
           OpenHere # <<>>, OpenHere[1] \in msg.live, Site \in Fields(msg), NEW x \in Int
    PROVE  spanSkipped + OwedOf(stack, p + x) + Owing + (IF Itself(msg, Site) = 1 THEN x ELSE 0)
                = DiscountsAt(Site, Pos + x)
<1>1. PICK k \in Fields(msg) : k = Site
    OBVIOUS
<1>2. PICK n \in Nat : n = Len(OpenHere) /\ n = Len(msg.opens[k])
    BY <1>1, SpanFacts
<1>3. PICK c \in Nat, o \in {0, 1} :
        c = CountIn(n, DeclinedAround(msg, k)) /\ o = Itself(msg, k)
    BY <1>2, TimesIs, SpanFacts
<1>4. PICK y \in Int : y = x * c
    OBVIOUS
<1>5. OwedOf(stack, p + x) = Owed + y
    BY <1>1, <1>2, <1>3, <1>4, CallsOwe
<1>6. Nested(msg, k) /\ InSpan /\ Top = OpenHere[1]
    BY <1>1, SpanFacts DEF InSpan, Top
<1>7. PICK q \in Int : q = Pos
    BY SpanFacts
<1>8. spanSkipped + Owed + Owing = DiscountsAt(k, q)
    BY <1>1, <1>6, <1>7 DEF SpanExact, Discounting, DiscountedHere
<1>9. GrowsBy(k, q, x, n)
    <2>1. x \in Int /\ n = Len(msg.opens[k])
        BY <1>2
    <2>2. Nested(msg, k)
        BY <1>6
    <2>. QED  BY <2>1, <2>2, DiscountsGrow
<1>10. PICK z \in Int : z = IF o = 1 THEN x ELSE 0
    OBVIOUS
<1>11. DiscountsAt(k, q + x) = DiscountsAt(k, q) + y + z
    BY <1>3, <1>4, <1>9, <1>10 DEF GrowsBy
<1>12. Owed \in Int /\ spanSkipped \in Nat /\ Owing \in Int
    <2>1. Owed \in Int /\ spanSkipped \in Nat /\ p \in Nat
        BY SpanFacts
    <2>2. pc = "deliver" => cur.from \in Int
        BY DEF IInv, CallsNest
    <2>. QED  BY <2>1, <2>2 DEF Owing, OwesOf
<1>13. spanSkipped + OwedOf(stack, p + x) + Owing + z = DiscountsAt(k, q + x)
    BY <1>5, <1>8, <1>9, <1>11, <1>12 DEF GrowsBy
<1>. QED  BY <1>1, <1>3, <1>7, <1>10, <1>13

\* Behind a field the next one begins.
LEMMA NextDiscounted ==
    ASSUME IInv, NEW k \in Fields(msg), Nested(msg, k), Nested(msg, k + 1), UNCHANGED msg,
           Site' = k + 1, Pos' = msg.start[k + 1]
    PROVE  DiscountedHere' = DiscountsAt(k, msg.start[k + 1])
<1>1. PICK m \in Nat : m = k + 1
    BY SpanFacts DEF Fields
<1>2. PICK q \in Int : q = msg.start[m]
    BY <1>1, StartIsNat, SpanFacts
<1>3. DiscountsAt(k, q) = Discounts(msg)[m]
    <2>1. PICK n \in Nat : n = Len(msg.opens[k])
        <3>1. k \in 1..(Len(msg.fields) + 1) /\ Laid(msg)
            BY SpanFacts DEF Fields
        <3>2. msg.opens[k] \in Seq(Nat)
            BY <3>1 DEF Laid
        <3>. QED  BY <3>2
    <2>2. 0 \in Int
        OBVIOUS
    <2>. QED  BY <1>1, <1>2, <2>1, <2>2, DiscountsGrow
<1>4. m \in Fields(msg) => DiscountsAt(m, q) = Discounts(msg)[m]
    <2>. SUFFICES ASSUME m \in Fields(msg) PROVE DiscountsAt(m, q) = Discounts(msg)[m]
        OBVIOUS
    <2>1. PICK n \in Nat : n = Len(msg.opens[m])
        <3>1. m \in 1..(Len(msg.fields) + 1) /\ Laid(msg)
            BY SpanFacts DEF Fields
        <3>2. msg.opens[m] \in Seq(Nat)
            BY <3>1 DEF Laid
        <3>. QED  BY <3>2
    <2>2. 0 \in Int
        OBVIOUS
    <2>. QED  BY <1>1, <1>2, <2>1, <2>2, DiscountsGrow
<1>5. DiscountedHere' = IF m \in Fields(msg) THEN DiscountsAt(m, q) ELSE Discounts(msg)[m]
    BY <1>1, <1>2 DEF DiscountedHere, DiscountsAt, Nested, Fields
<1>. QED  BY <1>1, <1>2, <1>3, <1>4, <1>5

\* A header is consumed; at the top level a span begins with it.
LEMMA AcceptSpans ==
    ASSUME IInv, Located, SpanExact, Accept
    PROVE  SpanExact'
<1>1. pc = "loop" /\ Avail > 0 /\ pc' = "deliver"
    BY DEF Accept, AtField
<1>2. UNCHANGED <<msg, fed, chunk, held, carry, stack, spanSkip>>
    BY DEF Accept, input, windowVars, resumeVars, levelVars
<1>3. PICK k \in Fields(msg) : k = This /\ k = Site
    BY <1>1, LoopFacts
<1>4. PICK f : f = At(msg, k)
    OBVIOUS
<1>5. /\ cur'.k = k /\ cur'.from = (IF stack = <<>> THEN Nowhere ELSE p) /\ p' = p + Header(f)
      /\ f.type # "end"
    BY <1>3, <1>4 DEF Accept, WellFormed
<1>6. Site' = k /\ OpenHere' = OpenHere /\ Current' = f
    BY <1>1, <1>2, <1>3, <1>4, <1>5 DEF Site, OpenHere, Current, At
<1>7. p \in Nat /\ Laid(msg)
    BY SpanFacts
<1>8. PICK x \in Nat : x = Header(f)
    BY <1>4, <1>7, StartIsNat
<1>9. Pos' = Pos + x /\ Pos = msg.start[k] /\ Pos \in Nat
    BY <1>1, <1>2, <1>3, <1>5, <1>8, PosMoves, LoopFacts, SpanFacts
<1>10. Len(stack) = Len(OpenHere) /\ (stack = <<>> <=> OpenHere = <<>>)
    BY <1>1, CallsAreHere, SpanFacts
<1>11. Skippers'
    <2>1. p # Nowhere
        BY <1>7 DEF Nowhere
    <2>. QED  BY <1>2, <1>5, <2>1 DEF SpanExact, Skippers, InSkip, seqDepth
<1>12. CASE stack = <<>>
    <2>1. spanCarry' = 0 /\ spanBase' = p /\ spanSkipped' = 0
        BY <1>12 DEF Accept, StartsSpan
    <2>2. Top' = k /\ Owed' = 0 /\ DiscountedHere' = 0
        BY <1>2, <1>3, <1>6, <1>10, <1>12, NoCallOwes DEF Top, Owed, DiscountedHere, Nested, OpenHere
    <2>3. Counted'
        <3>1. 0 + (p + x) - p = (msg.start[k] + x) - msg.start[k]
            BY <1>7, <1>9
        <3>. QED  BY <1>2, <1>5, <1>8, <1>9, <2>1, <2>2, <3>1 DEF Counted
    <2>4. Discounting'
        BY <1>2, <1>5, <2>1, <2>2 DEF Discounting, Owing
    <2>. QED  BY <1>11, <2>3, <2>4 DEF SpanExact
<1>13. CASE stack # <<>>
    <2>1. UNCHANGED <<spanCarry, spanBase, spanSkipped>>
        BY <1>13 DEF Accept, StartsSpan, spanVars
    <2>2. InSpan /\ Top' = Top /\ Top = OpenHere[1]
        BY <1>6, <1>10, <1>13 DEF InSpan, Top
    <2>3. Counted'
        <3>1. spanCarry + p - spanBase = Pos - msg.start[Top]
            BY <2>2 DEF SpanExact, Counted
        <3>2. spanCarry \in Nat /\ spanBase \in Nat
            BY SpanFacts
        <3>3. msg.start[Top] \in Nat
            BY <1>10, <1>13, <2>2, TopFacts
        <3>4. spanCarry + (p + x) - spanBase = (Pos + x) - msg.start[Top]
            BY <1>7, <1>9, <3>1, <3>2, <3>3
        <3>. QED  BY <1>2, <1>5, <1>8, <1>9, <2>1, <2>2, <3>4 DEF Counted
    <2>4. ASSUME Top \in msg.live PROVE spanSkipped' + Owed' + Owing' = DiscountedHere'
        <3>1. spanSkipped + OwedOf(stack, p + x) + Owing + (IF Itself(msg, k) = 1 THEN x ELSE 0)
                = DiscountsAt(k, Pos + x)
            BY <1>1, <1>3, <1>10, <1>13, <2>2, <2>4, GoingOn
        <3>2. Owed' = OwedOf(stack, p + x)
            BY <1>2, <1>5, <1>8 DEF Owed
        <3>3. DiscountedHere' = DiscountsAt(k, Pos + x)
            <4>1. Nested(msg, k)
                BY <1>3, <1>10, <1>13 DEF Nested, OpenHere
            <4>. QED  BY <1>2, <1>6, <1>9, <4>1 DEF DiscountedHere, DiscountsAt, Nested, Fields
        <3>4. Owing = 0
            BY <1>1 DEF Owing
        <3>5. Owing' = IF Itself(msg, k) = 1 THEN x ELSE 0
            <4>1. Itself(msg, k) = 1 <=> k \notin msg.live
                BY <1>4, <1>5 DEF Itself
            <4>2. OwesOf(p, p + x) = x
                BY <1>7 DEF OwesOf, Nowhere
            <4>. QED  BY <1>1, <1>2, <1>5, <1>8, <1>13, <4>1, <4>2 DEF Owing
        <3>6. OwedOf(stack, p + x) \in Int /\ spanSkipped \in Nat
            <4>1. PICK q \in Int : q = p + x
                BY <1>7
            <4>. QED  BY <4>1, OwedIsInt, SpanFacts
        <3>. QED  BY <2>1, <3>1, <3>2, <3>3, <3>4, <3>5, <3>6
    <2>5. Discounting'
        BY <1>2, <2>2, <2>4 DEF Discounting
    <2>. QED  BY <1>11, <2>3, <2>5 DEF SpanExact
<1>. QED  BY <1>12, <1>13

\* An end marker is consumed: it is discounted for the sequences it ends and is inside of.
LEMMA SequenceOverSpans ==
    ASSUME IInv, Located, SpanExact, SequenceOver
    PROVE  SpanExact'
<1>1. pc = "loop" /\ Avail > 0 /\ stack # <<>> /\ pc' = "return"
    BY DEF SequenceOver, AtField
<1>2. UNCHANGED <<msg, fed, chunk, held, carry, stack, spanSkip, spanSkipped, spanCarry, spanBase>>
    BY DEF SequenceOver, input, windowVars, resumeVars, levelVars, spanVars
<1>3. PICK k \in Fields(msg) : k = This /\ k = Site
    BY <1>1, LoopFacts
<1>4. At(msg, k).type = "end" /\ p' = p + At(msg, k).tag
    BY <1>3 DEF SequenceOver
<1>5. p \in Nat /\ Laid(msg) /\ Pos \in Nat
    BY SpanFacts
<1>6. PICK x \in Nat : x = At(msg, k).tag
    <2>1. msg.fields[k] \in DOMAIN Alphabet
        BY <1>5 DEF Laid, Fields
    <2>. QED  BY <1>4, <2>1, FieldFacts DEF At
<1>7. Pos' = msg.start[k + 1] /\ Pos' = Pos + x
    BY <1>2, <1>3, <1>4, <1>6, SequenceOverMoves, PosMoves
<1>8. Site' = k + 1
    BY <1>1, <1>2, <1>5, <1>7, NextField1 DEF Site
<1>9. OpenHere \in Seq(Nat) /\ OpenHere # <<>> /\ Len(OpenHere) # 0
    <2>1. Len(stack) = Len(OpenHere)
        BY <1>1, CallsAreHere
    <2>. QED  BY <1>1, <2>1, SpanFacts
<1>10. PICK n \in Nat \ {0} : n = Len(OpenHere)
    BY <1>9
<1>11. OpenHere' = SubSeq(OpenHere, 1, n - 1)
    <2>1. OpenHere = msg.opens[k] /\ OpenHere' = msg.opens[k + 1]
        BY <1>2, <1>3, <1>8 DEF OpenHere
    <2>2. msg.opens[k + 1] = Inner(msg.opens[k], k, At(msg, k).type)
        BY <1>5, NextField1
    <2>. QED  BY <1>4, <1>9, <1>10, <2>1, <2>2 DEF Inner
<1>12. Skippers'
    BY <1>1, <1>2 DEF SpanExact, Skippers, InSkip, seqDepth
<1>13. CASE OpenHere' = <<>>
    <2>1. ~InSpan'
        BY <1>1, <1>13 DEF InSpan
    <2>. QED  BY <1>12, <2>1 DEF SpanExact, Counted, Discounting
<1>14. CASE OpenHere' # <<>>
    <2>1. n > 1
        <3>1. n = 1 => OpenHere' = <<>>
            BY <1>9, <1>11
        <3>. QED  BY <1>14, <3>1
    <2>2. OpenHere'[1] = OpenHere[1]
        BY <1>9, <1>10, <1>11, <2>1
    <2>3. InSpan /\ Top = OpenHere[1] /\ Top' = Top
        BY <1>9, <1>14, <2>2 DEF InSpan, Top
    <2>4. Counted'
        <3>1. spanCarry + p - spanBase = Pos - msg.start[Top]
            BY <2>3 DEF SpanExact, Counted
        <3>2. spanCarry \in Nat /\ spanBase \in Nat /\ msg.start[Top] \in Nat
            BY <1>9, <2>3, SpanFacts, TopFacts
        <3>3. spanCarry + (p + x) - spanBase = (Pos + x) - msg.start[Top]
            BY <1>5, <3>1, <3>2
        <3>. QED  BY <1>2, <1>4, <1>6, <1>7, <2>3, <3>3 DEF Counted
    <2>5. ASSUME Top \in msg.live PROVE spanSkipped' + Owed' + Owing' = DiscountedHere'
        <3>1. spanSkipped + OwedOf(stack, p + x) + Owing + (IF Itself(msg, k) = 1 THEN x ELSE 0)
                = DiscountsAt(k, Pos + x)
            BY <1>1, <1>3, <1>9, <2>3, <2>5, GoingOn
        <3>2. Owed' = OwedOf(stack, p + x)
            BY <1>2, <1>4, <1>6 DEF Owed
        <3>3. DiscountedHere' = DiscountsAt(k, Pos + x)
            <4>1. Nested(msg, k) /\ Nested(msg, k + 1)
                BY <1>2, <1>3, <1>8, <1>9, <1>14 DEF Nested, OpenHere
            <4>2. DiscountedHere' = DiscountsAt(k, msg.start[k + 1])
                BY <1>2, <1>7, <1>8, <4>1, NextDiscounted
            <4>. QED  BY <1>7, <4>2
        <3>4. Owing = 0 /\ Owing' = 0 /\ Itself(msg, k) = 0
            BY <1>1, <1>4 DEF Owing, Itself
        <3>5. OwedOf(stack, p + x) \in Int /\ spanSkipped \in Nat
            <4>1. PICK q \in Int : q = p + x
                BY <1>5
            <4>. QED  BY <4>1, OwedIsInt, SpanFacts
        <3>. QED  BY <1>2, <3>1, <3>2, <3>3, <3>4, <3>5
    <2>6. Discounting'
        BY <1>2, <2>3, <2>5 DEF Discounting
    <2>. QED  BY <1>12, <2>4, <2>6 DEF SpanExact
<1>. QED  BY <1>13, <1>14

\* At the first field of a top-level sequence nothing is to be discounted yet.
LEMMA FirstDiscounted ==
    ASSUME IInv, NEW k \in Fields(msg), ~Nested(msg, k), UNCHANGED msg,
           Site' = k + 1, Pos' = msg.start[k + 1]
    PROVE  DiscountedHere' = 0
<1>1. PICK m \in Nat : m = k + 1
    BY SpanFacts DEF Fields
<1>2. PICK q \in Int : q = msg.start[m]
    BY <1>1, StartIsNat, SpanFacts
<1>3. Discounts(msg)[m] = 0
    <2>1. k \in 1..(Len(msg.fields) + 1) /\ Laid(msg)
        BY SpanFacts DEF Fields
    <2>. QED  BY <1>1, <2>1, DiscountsAddUp
<1>4. m \in Fields(msg) => DiscountsAt(m, q) = 0
    <2>. SUFFICES ASSUME m \in Fields(msg) PROVE DiscountsAt(m, q) = 0
        OBVIOUS
    <2>1. PICK t \in Nat : t = TimesDeclined(msg, m)
        <3>1. m \in 1..(Len(msg.fields) + 1) /\ Laid(msg)
            BY SpanFacts DEF Fields
        <3>2. msg.opens[m] \in Seq(Nat)
            BY <3>1 DEF Laid
        <3>3. PICK n \in Nat : n = Len(msg.opens[m])
            BY <3>2
        <3>. QED  BY <3>1, <3>3, TimesIs
    <2>2. t * (q - q) = 0
        OBVIOUS
    <2>. QED  BY <1>2, <1>3, <2>1, <2>2 DEF DiscountsAt
<1>5. DiscountedHere' = 0 \/ DiscountedHere' =
        IF m \in Fields(msg) THEN DiscountsAt(m, q) ELSE Discounts(msg)[m]
    BY <1>1, <1>2 DEF DiscountedHere, DiscountsAt, Nested, Fields
<1>. QED  BY <1>3, <1>4, <1>5

\* The start of a sequence is its header.
LEMMA SequenceStarts ==
    ASSUME IInv, Located, pc = "deliver", Current.type = "start"
    PROVE  Pos = msg.start[cur.k + 1]
<1>. Laid(msg) /\ Len(msg.fields) \in Nat
    BY MessageFacts
<1>1. PICK k \in Fields(msg) : k = cur.k /\ k = Site /\ k \in 1..Len(msg.fields)
    BY DeliverFacts
<1>2. PICK f : f = At(msg, k) /\ f = Current
    BY <1>1 DEF Current
<1>3. Pos = msg.start[k + 1]
    <2>1. Size(f) = f.tag /\ f.units = 0 /\ f.width \in Nat \ {0} /\ Header(f) = f.tag /\ f.tag \in Nat
        <3>1. msg.fields[k] \in DOMAIN Alphabet
            BY DEF Laid, Fields
        <3>2. f.units = 0 /\ f.meta = 0
            BY <1>2, <3>1, FieldAssumption DEF At, Known
        <3>3. Size(f) = f.tag /\ f.width \in Nat \ {0} /\ f.tag \in Nat
            BY <1>2, <3>1, FieldFacts DEF At
        <3>. QED  BY <3>2, <3>3 DEF Header
    <2>2. TotalIf(k \in msg.live, f) = 0
        <3>1. PICK g \in Nat \ {0} : g = IF k \in msg.live \/ f.type \in Varints THEN f.width ELSE 1
            BY <2>1
        <3>2. f.units * f.width = 0
            BY <2>1
        <3>3. 0 \div g = 0
            OBVIOUS
        <3>. QED  BY <3>1, <3>2, <3>3 DEF TotalIf
    <2>3. pendDone = 0
        BY <1>1, <1>2, <2>2, DeliverFacts
    <2>4. Pos = Behind(k, pendDone)
        BY <1>1, DeliverFacts
    <2>5. pendDone \in Nat /\ pendDone = TotalIf(k \in msg.live, At(msg, k))
        BY <1>2, <2>2, <2>3
    <2>6. pendDone <= TotalIf(k \in msg.live, At(msg, k))
        BY <1>2, <2>2, <2>3
    <2>7. Behind(k, pendDone) = msg.start[k + 1]
        BY <1>1, <2>5, <2>6, PlaceFacts
    <2>. QED  BY <2>4, <2>7
<1>. QED  BY <1>1, <1>3

\* A sequence that is entered owes what its header owed.
LEMMA DeliverSequenceSpans ==
    ASSUME IInv, Located, SpanExact, DeliverSequence
    PROVE  SpanExact'
<1>1. pc = "deliver" /\ Current.type = "start" /\ pc' = "loop"
    BY DeliverFacts DEF DeliverSequence, OpenLevel
<1>2. PICK k \in Fields(msg) : k = cur.k /\ k = Site
    BY <1>1, DeliverFacts
<1>3. PICK skip \in BOOLEAN, from \in Int :
        /\ OpenLevel(k, skip, from) /\ from = (IF skip THEN cur.from ELSE Nowhere)
        /\ (skip <=> k \notin msg.live)
    <2>1. PICK skip \in BOOLEAN : skip = ~Takes
        BY DEF Takes
    <2>2. PICK from \in Int : from = IF skip THEN cur.from ELSE Nowhere
        BY DEF IInv, CallsNest, Nowhere
    <2>3. OpenLevel(k, skip, from)
        BY <1>2, <2>1, <2>2 DEF DeliverSequence
    <2>. QED  BY <1>1, <1>2, <2>1, <2>2, <2>3, DeliverFacts
<1>4. UNCHANGED <<msg, fed, chunk, held, carry, p, spanCarry, spanBase, spanSkipped>>
    BY DEF DeliverSequence, input, windowVars, resumeVars, spanVars
<1>5. p \in Nat /\ Laid(msg) /\ Pos \in Nat /\ stack \in Seq(Frames) /\ cur.from \in Int
    BY SpanFacts DEF IInv, CallsNest
<1>6. Pos' = Pos /\ Pos = msg.start[k + 1]
    BY <1>1, <1>2, <1>4, SequenceStarts DEF Pos
<1>7. Site' = k + 1
    BY <1>1, <1>4, <1>5, <1>6, NextField1 DEF Site
<1>8. PICK n \in Nat : n = Len(stack) /\ n = Len(OpenHere)
    BY <1>1, CallsAreHere, SpanFacts
<1>9. OpenHere' = Append(OpenHere, k) /\ OpenHere \in Seq(Nat)
    <2>1. OpenHere = msg.opens[k] /\ OpenHere' = msg.opens[k + 1]
        BY <1>2, <1>4, <1>7 DEF OpenHere
    <2>2. msg.opens[k + 1] = Inner(msg.opens[k], k, At(msg, k).type)
        BY <1>5, NextField1
    <2>. QED  BY <1>1, <1>2, <2>1, <2>2, SpanFacts DEF Inner, Current
<1>10. InSpan /\ InSpan' /\ Top' = Top
    <2>1. OpenHere' # <<>>
        BY <1>9
    <2>2. OpenHere = <<>> => OpenHere'[1] = k /\ Top = k
        BY <1>2, <1>9 DEF Top
    <2>3. OpenHere # <<>> => OpenHere'[1] = OpenHere[1] /\ Top = OpenHere[1]
        BY <1>9 DEF Top
    <2>. QED  BY <1>1, <2>1, <2>2, <2>3 DEF InSpan, Top
<1>11. Counted'
    BY <1>4, <1>6, <1>10 DEF SpanExact, Counted
<1>12. PICK frame : frame = [k |-> k, skip |-> skip, from |-> from, span |-> spanSkip, elem |-> elem]
    OBVIOUS
<1>13. /\ Len(stack') = n + 1 /\ stack'[n + 1] = frame
       /\ \A d \in 1..n : stack'[d] = stack[d]
       /\ spanSkip' = (spanSkip \/ skip)
    <2>1. stack' = Append(stack, frame) /\ spanSkip' = (spanSkip \/ skip)
        BY <1>3, <1>12 DEF OpenLevel
    <2>2. stack' = Append(stack, frame)
        BY <2>1
    <2>3. Len(stack') = n + 1 /\ stack'[n + 1] = frame /\ \A d \in 1..n : stack'[d] = stack[d]
        <3>1. PICK s \in Seq(Frames) : s = stack /\ Len(s) = n
            BY <1>5, <1>8
        <3>2. PICK t : t = stack' /\ t = Append(s, frame)
            BY <2>2, <3>1
        <3>3. Len(t) = n + 1 /\ t[n + 1] = frame /\ \A d \in 1..n : t[d] = s[d]
            BY <3>1, <3>2
        <3>. QED  BY <3>1, <3>2, <3>3
    <2>. QED  BY <2>1, <2>3
<1>14. frame.from = from /\ from \in Int /\ frame.skip = skip /\ frame.span = spanSkip
    BY <1>3, <1>5, <1>12 DEF Nowhere
<1>15. Owed' = Owed + OwesOf(from, p)
    <2>1. \A d \in 1..(n + 1) : stack'[d].from \in Int
        <3>. SUFFICES ASSUME NEW d \in 1..(n + 1) PROVE stack'[d].from \in Int
            OBVIOUS
        <3>1. d \in 1..n \/ d = n + 1
            OBVIOUS
        <3>. QED  BY <1>8, <1>13, <1>14, <3>1, SpanFacts
    <2>2. PICK t : t = stack'
        OBVIOUS
    <2>3. PICK q \in Int : q = p
        BY <1>5
    <2>4. OwedOf(t, q) = OwedOf(stack, q) + OwesOf(t[n + 1].from, q)
        <3>1. Pushed(stack, t, n)
            BY <1>8, <1>13, <2>1, <2>2 DEF Pushed
        <3>. QED  BY <2>3, <3>1, OwedPush
    <2>. QED  BY <1>4, <1>13, <1>14, <2>2, <2>3, <2>4 DEF Owed
<1>16. OwesOf(from, p) = Owing /\ Owing' = 0
    BY <1>1, <1>2, <1>3 DEF Owing, OwesOf
<1>17. Discounting'
    <2>. SUFFICES ASSUME Top \in msg.live PROVE spanSkipped + Owed' + 0 = DiscountedHere'
        BY <1>4, <1>10, <1>16 DEF Discounting
    <2>1. spanSkipped + Owed + Owing = DiscountedHere
        BY <1>10 DEF SpanExact, Discounting
    <2>2. DiscountedHere' = DiscountedHere
        <3>1. Nested(msg, k + 1) /\ Nested(msg', Site')
            BY <1>4, <1>7, <1>9 DEF Nested, OpenHere
        <3>2. CASE Nested(msg, k)
            <4>1. DiscountedHere = DiscountsAt(k, Pos)
                BY <1>2, <3>2 DEF DiscountedHere
            <4>. QED  BY <1>4, <1>6, <1>7, <3>1, <3>2, <4>1, NextDiscounted
        <3>3. CASE ~Nested(msg, k)
            <4>1. DiscountedHere = 0
                BY <1>2, <3>3 DEF DiscountedHere
            <4>. QED  BY <1>4, <1>6, <1>7, <3>1, <3>3, <4>1, FirstDiscounted
        <3>. QED  BY <3>2, <3>3
    <2>3. Owed \in Int /\ spanSkipped \in Nat /\ Owing \in Int
        BY <1>2, <1>5, SpanFacts DEF Owing, OwesOf
    <2>. QED  BY <1>15, <1>16, <2>1, <2>2, <2>3
<1>18. Skippers'
    <2>1. InSkip <=> n # 0 /\ stack[n].skip
        BY <1>8, SpanFacts DEF InSkip, seqDepth
    <2>2. (n # 0 /\ skip => from # Nowhere) /\ (~skip => from = Nowhere)
        BY <1>1, <1>3, <1>8, SpanFacts DEF SpanExact, Skippers
    <2>3. ASSUME NEW d \in 1..(n + 1)
          PROVE  /\ ~stack'[d].skip => stack'[d].from = Nowhere
                 /\ d > 1 /\ stack'[d].skip => stack'[d].from # Nowhere
                 /\ d > 1 /\ stack'[d - 1].skip => stack'[d].span
        <3>1. CASE d = n + 1
            <4>1. d > 1 => n \in 1..n /\ d - 1 = n /\ n # 0
                BY <3>1
            <4>2. d > 1 /\ stack'[d - 1].skip => spanSkip
                BY <1>13, <2>1, <4>1 DEF SpanExact, Skippers
            <4>. QED  BY <1>13, <1>14, <2>2, <3>1, <4>1, <4>2
        <3>2. CASE d \in 1..n
            <4>1. d > 1 => d - 1 \in 1..n
                BY <3>2
            <4>. QED  BY <1>8, <1>13, <3>2, <4>1 DEF SpanExact, Skippers
        <3>. QED  BY <3>1, <3>2
    <2>4. InSkip' <=> skip
        <3>1. Len(stack') # 0 => stack' # <<>>
            OBVIOUS
        <3>. QED  BY <1>13, <1>14, <3>1 DEF InSkip, seqDepth
    <2>. QED  BY <1>1, <1>13, <2>3, <2>4 DEF Skippers
<1>. QED  BY <1>11, <1>17, <1>18 DEF SpanExact

\* Behind a payload, or inside it, the open sequences are the same.
LEMMA PayloadPlace ==
    ASSUME IInv, Located, DeliverPayload, ~Refused("InvalidMessage"),
           NEW k \in Fields(msg), k = Site, Current.type \notin {"start", "end"},
           NEW r \in Int, Pos' = r
    PROVE  /\ OpenHere' = OpenHere
           /\ Nested(msg, k) => DiscountedHere' = DiscountsAt(k, r)
<1>. Laid(msg) /\ Len(msg.fields) \in Nat
    BY MessageFacts
<1>1. pc = "deliver" /\ k = cur.k /\ k \in 1..Len(msg.fields)
    BY DeliverFacts DEF DeliverPayload
<1>2. PICK f : f = At(msg, k) /\ f = Current
    BY <1>1 DEF Current
<1>3. PICK t \in Nat : t = Taken
    BY <1>1, TakenFits
<1>4. PICK total \in Nat : total = TotalIf(k \in msg.live, f)
    BY <1>1, <1>2, DeliverFacts, TakenFits
<1>5. /\ pendDone + t \in Nat /\ pendDone + t <= total
      /\ Over <=> pendDone + t = total
    BY <1>1, <1>2, <1>3, <1>4, DeliverFacts, TakenFits DEF Over
<1>6. r = Behind(k, pendDone + t)
    BY <1>1, <1>3, PayloadMoves
<1>7. UNCHANGED msg /\ pc' # "deliver"
    BY DEF DeliverPayload, Leaving, input
<1>8. CASE Over
    <2>1. r = msg.start[k + 1]
        BY <1>1, <1>2, <1>4, <1>5, <1>6, <1>8, PlaceFacts
    <2>2. Site' = k + 1
        BY <1>7, <2>1, NextField1 DEF Site
    <2>3. OpenHere = msg.opens[k] /\ OpenHere' = msg.opens[k + 1]
        BY <1>1, <1>7, <2>2 DEF OpenHere
    <2>4. msg.opens[k + 1] = Inner(msg.opens[k], k, f.type)
        BY <1>2, NextField1
    <2>5. OpenHere' = OpenHere /\ msg.opens[k + 1] = msg.opens[k]
        BY <1>2, <2>3, <2>4 DEF Inner
    <2>6. Nested(msg, k) => Nested(msg, k + 1)
        BY <2>5 DEF Nested
    <2>. QED  BY <1>7, <2>1, <2>2, <2>5, <2>6, NextDiscounted
<1>9. CASE ~Over
    <2>1. /\ msg.start[k] <= r /\ r < msg.start[k + 1]
        <3>1. pendDone + t < total
            BY <1>5, <1>9
        <3>. QED  BY <1>1, <1>2, <1>4, <1>5, <1>6, <3>1, PlaceFacts
    <2>2. r \in Nat
        BY <1>1, <1>2, <1>4, <1>5, <1>6, PlaceFacts
    <2>3. FieldAfter(msg, r) = k
        <3>1. k \in 1..(Len(msg.fields) + 1)
            BY <1>1
        <3>. QED  BY <2>1, <2>2, <3>1, FieldAfterIs
    <2>4. Site' = k
        BY <1>7, <2>3 DEF Site
    <2>. QED  BY <1>1, <1>7, <2>4 DEF OpenHere, DiscountedHere, DiscountsAt, Nested, Fields
<1>. QED  BY <1>8, <1>9

\* What is walked over of a payload is discounted.
LEMMA DeliverPayloadSpans ==
    ASSUME IInv, Located, SpanExact, DeliverPayload, ~Refused("InvalidMessage")
    PROVE  SpanExact'
<1>1. pc = "deliver" /\ Current.type \notin {"start", "end"}
    BY DEF DeliverPayload, Located, Delivering
<1>2. /\ p' = p + Taken * Grain
      /\ spanSkipped' = IF Takes \/ cur.from = Nowhere THEN spanSkipped
                        ELSE spanSkipped + (p' - cur.from)
      /\ pc' = (IF Over THEN "loop" ELSE Leaving) /\ pc' # "deliver"
      /\ UNCHANGED <<msg, fed, chunk, held, carry, stack, spanSkip, spanCarry, spanBase>>
    BY DEF DeliverPayload, Leaving, input, windowVars, levelVars
<1>3. PICK k \in Fields(msg) : k = cur.k /\ k = Site /\ k \in 1..Len(msg.fields)
    BY <1>1, DeliverFacts
<1>4. Taken \in Nat /\ Grain \in Nat
    <2>1. Taken \in Nat
        BY <1>1, TakenFits
    <2>2. Current.width \in Nat
        BY <1>3, AtFacts DEF Current
    <2>. QED  BY <2>1, <2>2 DEF Grain
<1>5. PICK x \in Nat : x = Taken * Grain
    <2>1. PICK t \in Nat, g \in Nat : t = Taken /\ g = Grain
        BY <1>4
    <2>2. t * g \in Nat
        OBVIOUS
    <2>. QED  BY <2>1, <2>2
<1>6. p \in Nat /\ Laid(msg) /\ Pos \in Nat /\ cur.from \in Int /\ spanSkipped \in Nat
    BY SpanFacts DEF IInv, CallsNest
<1>7. Pos' = Pos + x
    BY <1>2, <1>5, PosMoves
<1>8. OpenHere' = OpenHere /\ (Nested(msg, k) => DiscountedHere' = DiscountsAt(k, Pos + x))
    BY <1>1, <1>2, <1>3, <1>7, PayloadPlace
<1>9. Skippers'
    BY <1>2 DEF SpanExact, Skippers, InSkip, seqDepth
<1>10. CASE OpenHere = <<>>
    <2>1. ~InSpan'
        BY <1>2, <1>8, <1>10 DEF InSpan
    <2>. QED  BY <1>9, <2>1 DEF SpanExact, Counted, Discounting
<1>11. CASE OpenHere # <<>>
    <2>1. InSpan /\ Top = OpenHere[1] /\ Top' = Top /\ Nested(msg, k) /\ stack # <<>>
        <3>1. Len(stack) = Len(OpenHere)
            BY <1>1, CallsAreHere
        <3>. QED  BY <1>3, <1>8, <1>11, <3>1, SpanFacts DEF InSpan, Top, Nested, OpenHere
    <2>2. Counted'
        <3>1. spanCarry + p - spanBase = Pos - msg.start[Top]
            BY <2>1 DEF SpanExact, Counted
        <3>2. spanCarry \in Nat /\ spanBase \in Nat /\ msg.start[Top] \in Nat
            BY <1>11, <2>1, SpanFacts, TopFacts
        <3>3. spanCarry + (p + x) - spanBase = (Pos + x) - msg.start[Top]
            BY <1>6, <3>1, <3>2
        <3>. QED  BY <1>2, <1>5, <1>7, <2>1, <3>3 DEF Counted
    <2>3. ASSUME Top \in msg.live PROVE spanSkipped' + Owed' + Owing' = DiscountedHere'
        <3>1. spanSkipped + OwedOf(stack, p + x) + Owing + (IF Itself(msg, k) = 1 THEN x ELSE 0)
                = DiscountsAt(k, Pos + x)
            BY <1>1, <1>3, <1>11, <2>1, <2>3, GoingOn
        <3>2. Owed' = OwedOf(stack, p + x)
            BY <1>2, <1>5 DEF Owed
        <3>3. OwedOf(stack, p + x) \in Int
            <4>1. PICK q \in Int : q = p + x
                BY <1>6
            <4>. QED  BY <4>1, OwedIsInt
        <3>4. Owing' = 0
            BY <1>2 DEF Owing
        <3>5. (Takes <=> k \in msg.live) /\ (Itself(msg, k) = 1 <=> k \notin msg.live)
            BY <1>1, <1>3, DeliverFacts DEF Itself, Current
        <3>6. CASE Takes
            <4>1. spanSkipped' = spanSkipped /\ Owing = 0
                BY <1>2, <1>3, <3>5, <3>6 DEF Owing
            <4>. QED  BY <1>6, <1>8, <2>1, <3>1, <3>2, <3>3, <3>4, <3>5, <3>6, <4>1
        <3>7. CASE ~Takes
            <4>1. cur.from # Nowhere
                BY <1>1, <2>1 DEF SpanExact, Skippers
            <4>2. PICK c \in Int : c = cur.from
                BY <1>6
            <4>3. Owing = p - c
                BY <1>1, <1>3, <3>5, <3>7, <4>1, <4>2 DEF Owing, OwesOf
            <4>4. spanSkipped' = spanSkipped + (p + x - c)
                <5>1. spanSkipped' = spanSkipped + (p' - c)
                    BY <1>2, <3>7, <4>1, <4>2
                <5>2. p' = p + x
                    BY <1>2, <1>5
                <5>. QED  BY <1>6, <5>1, <5>2
            <4>5. Itself(msg, k) = 1
                BY <3>5, <3>7
            <4>6. OwedOf(stack, p + x) + spanSkipped + (p - c) + x = DiscountsAt(k, Pos + x)
                BY <1>6, <3>1, <3>3, <4>3, <4>5
            <4>7. DiscountedHere' = DiscountsAt(k, Pos + x)
                BY <1>8, <2>1
            <4>8. spanSkipped' + Owed' + Owing' =
                    OwedOf(stack, p + x) + spanSkipped + (p - c) + x
                <5>1. PICK a \in Int : a = OwedOf(stack, p + x)
                    BY <3>3
                <5>. QED  BY <1>6, <3>2, <3>4, <4>3, <4>4, <5>1
            <4>. QED  BY <4>6, <4>7, <4>8
        <3>. QED  BY <3>6, <3>7
    <2>4. Discounting'
        BY <1>2, <2>1, <2>3 DEF Discounting
    <2>. QED  BY <1>9, <2>2, <2>4 DEF SpanExact
<1>. QED  BY <1>10, <1>11

------------------------------------------------------------------------------
(* Every step keeps the invariant. *)

\* A step that leaves the place and the counters alone.
LEMMA UnmovedSpans ==
    ASSUME SInv, UNCHANGED <<msg, fed, chunk, held, carry, p, pc, stack, cur, spanSkip,
                             spanCarry, spanBase, spanSkipped, terminal>>
    PROVE  SInv'
<1>1. Pos' = Pos
    BY DEF Pos
<1>2. Site' = Site /\ OpenHere' = OpenHere /\ Current' = Current
    BY <1>1 DEF Site, OpenHere, FieldAfter, Bytes, Current, At
<1>3. (InSpan' <=> InSpan) /\ Top' = Top
    BY <1>2 DEF InSpan, Top
<1>4. Owed' = Owed /\ Owing' = Owing
    BY DEF Owed, Owing
<1>5. DiscountedHere' = DiscountedHere
    BY <1>1, <1>2 DEF DiscountedHere, DiscountsAt, Nested, Fields
<1>6. Counted => Counted'
    BY <1>1, <1>3 DEF Counted
<1>7. Discounting => Discounting'
    BY <1>3, <1>4, <1>5 DEF Discounting
<1>8. Skippers => Skippers'
    BY DEF Skippers, InSkip, seqDepth
<1>. QED  BY <1>6, <1>7, <1>8 DEF SInv, SpanExact

\* In a decoder that has been fed nothing no span has begun.
LEMMA FreshSpans ==
    ASSUME Laid(msg), NotBegun, ~spanSkip
    PROVE  SpanExact
<1>1. Site = 1 /\ OpenHere = <<>>
    BY FirstPos, FirstField DEF Site, OpenHere, NotBegun
<1>2. ~InSpan
    BY <1>1 DEF InSpan, NotBegun
<1>3. Len(stack) = 0 /\ ~InSkip
    <2>1. Len(<<>>) = 0
        OBVIOUS
    <2>. QED  BY <2>1 DEF NotBegun, InSkip
<1>4. Skippers
    BY <1>3 DEF Skippers, NotBegun
<1>. QED  BY <1>2, <1>4 DEF SpanExact, Counted, Discounting

\* The same about the state behind a step.
LEMMA FreshSpansStay == Laid(msg)' /\ NotBegun' /\ ~spanSkip' => SpanExact'
<1>1. Laid(msg) /\ NotBegun /\ ~spanSkip => SpanExact
    BY FreshSpans
<1>. QED  BY <1>1, PTL

\* No span begins with a message.
LEMMA ResetSpans ==
    ASSUME IInv, NEW next \in Decodings, ResetTo(next)
    PROVE  SInv'
<1>1. NotBegun'
    BY DEF ResetTo, windowVars, IInv, WindowIsNext, Consumed, NotBegun
<1>2. Laid(msg)' /\ ~spanSkip'
    BY DecodingsAreLaid DEF ResetTo
<1>3. SpanExact'
    BY <1>1, <1>2, FreshSpansStay
<1>. QED  BY <1>3 DEF SInv, ResetTo

\* A refusal measures nothing any more.
LEMMA RefusedSpans ==
    ASSUME NEW e, e # "None", Refused(e)
    PROVE  SInv'
BY DEF SInv, Refused, Return

\* Nor does a refused field.
LEMMA RefusalsSpans ==
    ASSUME RefuseSpan \/ RefuseHeader \/ RefuseWithheld \/ DeliverRefused
    PROVE  SInv'
<1>1. ASSUME NEW c, NEW id PROVE IndexError(c, id) # "None"
    BY DEF IndexError
<1>2. PICK e : Refused(e) /\ (\/ e \in {"InvalidMessage", "LimitExceeded"}
                              \/ \E c, id : e = IndexError(c, id)
                              \/ \E u : e = RefusalOf(u) /\ e # "None")
    BY DEF RefuseSpan, RefuseHeader, RefuseWithheld, DeliverRefused
<1>3. e # "None"
    BY <1>1, <1>2
<1>. QED  BY <1>2, <1>3, RefusedSpans

\* The feed() ends, or is refused.
LEMMA FeedEndsSpans ==
    ASSUME IInv, Located, SpanExact, terminal = "None", KeepCarrying \/ Stash
    PROVE  SInv'
<1>1. CASE Refused("InvalidMessage")
    BY <1>1, RefusedSpans
<1>2. CASE ~Refused("InvalidMessage")
    <2>1. PICK e : Carry(e)
        BY <1>2 DEF KeepCarrying, Stash
    <2>2. Parsed
        BY DEF KeepCarrying, Stash
    <2>3. KeepCarrying => ~(Len(window) - held < Len(chunk))
        BY <1>2 DEF KeepCarrying
    <2>4. SpanExact'
        BY <2>1, <2>2, <2>3, AllInWindow, RestIsTail, CarrySpans
    <2>. QED  BY <2>1, <2>4 DEF SInv, Carry
<1>. QED  BY <1>1, <1>2

\* Every step keeps it.
LEMMA StepSpans == IInv /\ PInv /\ SInv /\ [Next \/ AnyReset]_vars => SInv'
<1>. SUFFICES ASSUME IInv, PInv, SInv, [Next \/ AnyReset]_vars PROVE SInv'
    OBVIOUS
<1>1. CASE UNCHANGED vars
    BY <1>1, UnmovedSpans DEF vars, input, windowVars, resumeVars, levelVars, spanVars
<1>2. CASE FeedNothing
    BY <1>2, UnmovedSpans DEF FeedNothing, input, windowVars, resumeVars, levelVars, spanVars
<1>3. CASE Reset \/ AnyReset
    <2>1. msg \in Decodings
        BY DEF IInv, InputTyped
    <2>. QED  BY <1>3, <2>1, ResetSpans DEF Reset, AnyReset
<1>4. CASE RefuseSpan \/ RefuseHeader \/ RefuseWithheld \/ DeliverRefused
    BY <1>4, RefusalsSpans
<1>5. CASE KeepCarrying \/ Stash \/ ParseTheRest \/ Descend \/ Resume \/ LeaveLevel
            \/ WindowEnds \/ HeaderCut \/ SequenceOver \/ Accept
            \/ DeliverSequence \/ DeliverPayload \/ \E n \in 1..Bytes(msg) : Feed(n)
    <2>1. terminal = "None"
        <3>1. pc # "idle" \/ terminal = "None"
            BY <1>5 DEF KeepCarrying, Stash, ParseTheRest, Parsed, Descend, Resume, LeaveLevel,
                        WindowEnds, HeaderCut, SequenceOver, Accept, AtField, DeliverSequence,
                        DeliverPayload, Feed
        <3>. QED  BY <3>1 DEF SInv
    <2>2. Located /\ SpanExact
        BY <2>1 DEF PInv, SInv
    <2>3. CASE KeepCarrying \/ Stash
        BY <2>1, <2>2, <2>3, FeedEndsSpans
    <2>4. CASE DeliverPayload /\ Refused("InvalidMessage")
        BY <2>4, RefusedSpans
    <2>5. CASE DeliverPayload /\ ~Refused("InvalidMessage")
        <3>1. terminal' = terminal
            BY <2>5 DEF DeliverPayload
        <3>. QED  BY <2>1, <2>2, <2>5, <3>1, DeliverPayloadSpans DEF SInv
    <2>6. CASE ParseTheRest \/ WindowEnds \/ HeaderCut \/ \E n \in 1..Bytes(msg) : Feed(n)
        <3>1. terminal' = terminal
            BY <2>6 DEF ParseTheRest, WindowEnds, HeaderCut, Feed
        <3>2. SpanExact'
            BY <2>2, <2>6, ParseTheRestSpans, WindowEndsSpans, HeaderCutSpans, FeedSpans
        <3>. QED  BY <2>1, <3>1, <3>2 DEF SInv
    <2>7. CASE Descend \/ Resume \/ LeaveLevel
        <3>1. terminal' = terminal
            BY <2>7 DEF Descend, Resume, LeaveLevel
        <3>2. SpanExact'
            BY <2>2, <2>7, DescendSpans, ResumeSpans, LeaveLevelSpans
        <3>. QED  BY <2>1, <3>1, <3>2 DEF SInv
    <2>8. CASE SequenceOver \/ Accept \/ DeliverSequence
        <3>1. terminal' = terminal
            BY <2>8 DEF SequenceOver, Accept, DeliverSequence
        <3>2. SpanExact'
            BY <2>2, <2>8, SequenceOverSpans, AcceptSpans, DeliverSequenceSpans
        <3>. QED  BY <2>1, <3>1, <3>2 DEF SInv
    <2>. QED  BY <1>5, <2>3, <2>4, <2>5, <2>6, <2>7, <2>8
<1>. QED  BY <1>1, <1>2, <1>3, <1>4, <1>5 DEF Next, ParseStep

\* A decoder that has just been made has begun no span.
LEMMA InitSpans == Init => SInv
<1>1. Init => Laid(msg) /\ NotBegun /\ ~spanSkip /\ terminal = "None"
    BY DecodingsAreLaid DEF Init, NotBegun
<1>. QED  BY <1>1, FreshSpans DEF SInv

\* Where a field is measured no open call skips, so that what was discounted is all there is
\* to be discounted before it.
LEMMA SpansAreExact == IInv /\ PInv /\ SInv => SpanIgnoresCuts
<1>. SUFFICES ASSUME IInv, PInv, SInv, Measuring
              PROVE  SpannedLive = Less(Spanned(msg, This), Discounted(msg, This))
    BY DEF SpanIgnoresCuts
<1>1. pc = "loop" /\ Avail > 0 /\ stack # <<>> /\ ~spanSkip
    BY DEF Measuring
<1>2. Located /\ SpanExact
    BY <1>1 DEF PInv, SInv
<1>3. PICK k \in Fields(msg) : k = This /\ k = Site
    BY <1>1, <1>2, LoopFacts
<1>4. PICK n \in Nat \ {0} : n = Len(stack) /\ n = Len(OpenHere)
    BY <1>1, <1>2, CallsAreHere, SpanFacts
<1>5. OpenHere # <<>> /\ Nested(msg, k) /\ OpenHere = msg.opens[k]
    BY <1>3, <1>4, SpanFacts
<1>6. ~InSkip
    BY <1>1, <1>2 DEF SpanExact, Skippers
<1>7. Outer(msg, k) \in msg.live
    BY <1>1, <1>2, <1>3, <1>5, <1>6, CallsAreHere
<1>8. \A d \in 1..n : OpenHere[d] \in msg.live
    BY <1>3, <1>4, <1>5, <1>7, LiveAround, SpanFacts
<1>9. \A d \in 1..n : stack[d].from = Nowhere
    <2>1. \A d \in 1..n : ~stack[d].skip
        BY <1>1, <1>2, <1>4, <1>8, CallsAreHere
    <2>. QED  BY <1>2, <1>4, <2>1 DEF SpanExact, Skippers
<1>10. Owed = 0 /\ Owing = 0
    <2>1. PICK s : s = stack
        OBVIOUS
    <2>2. n = Len(s)
        BY <1>4, <2>1
    <2>3. \A d \in 1..n : s[d].from = Nowhere
        BY <1>9, <2>1
    <2>4. OwedOf(s, p) = 0
        BY <2>2, <2>3, NothingOwed
    <2>. QED  BY <1>1, <2>1, <2>4 DEF Owed, Owing
<1>11. InSpan /\ Top = OpenHere[1] /\ Top \in msg.live
    <2>1. 1 \in 1..n
        BY <1>4
    <2>. QED  BY <1>5, <1>8, <2>1 DEF InSpan, Top
<1>12. Pos = msg.start[k]
    BY <1>1, <1>2, <1>3, LoopFacts
<1>13. Spans = Spanned(msg, k)
    BY <1>2, <1>5, <1>11, <1>12 DEF SpanExact, Counted, Spans, Spanned
<1>14. spanSkipped = Discounted(msg, k)
    <2>1. spanSkipped + 0 + 0 = DiscountsAt(k, Pos)
        BY <1>2, <1>3, <1>5, <1>10, <1>11 DEF SpanExact, Discounting, DiscountedHere
    <2>2. DiscountsAt(k, msg.start[k]) = Discounts(msg)[k]
        <3>1. PICK m \in Nat : m = Len(msg.opens[k])
            BY <1>4, <1>5
        <3>2. 0 \in Int
            OBVIOUS
        <3>. QED  BY <1>5, <3>1, <3>2, DiscountsGrow
    <2>3. spanSkipped \in Nat
        BY SpanFacts
    <2>. QED  BY <1>12, <2>1, <2>2, <2>3 DEF Discounted
<1>. QED  BY <1>3, <1>13, <1>14 DEF SpannedLive

\* The span a budget is compared with does not depend on where the chunks were cut: the bytes
\* a chunk ended in are kept, what a skip had walked over when it was suspended is
\* discounted once, and a skip that goes on counts from where it goes on
\* (sofab.hpp:4571-4579, spanCarry_ and spanSkipped_ over every feed()).
THEOREM SpanUncut == Spec => []SpanIgnoresCuts
<1>1. Spec => []PInv
    <2>1. IInv /\ PInv /\ [Next]_vars => PInv'
        BY StepStays
    <2>. QED  BY <2>1, InitIsLocated, DecoderInvariant, PTL DEF Spec
<1>2. Spec => []SInv
    <2>1. IInv /\ PInv /\ SInv /\ [Next]_vars => SInv'
        BY StepSpans
    <2>. QED  BY <1>1, <2>1, InitSpans, DecoderInvariant, PTL DEF Spec
<1>. QED  BY <1>1, <1>2, SpansAreExact, DecoderInvariant, PTL

------------------------------------------------------------------------------
(* What the open calls skip. *)

\* Inside a skipped sequence is inside an open call that skips, and so was each call.
SkipsNoted ==
    /\ spanSkip => \E d \in 1..Len(stack) : stack[d].skip
    /\ \A d \in 1..Len(stack) : stack[d].span => \E i \in 1..(d - 1) : stack[i].skip

\* A call is opened.
LEMMA OpenedNotes ==
    ASSUME IInv, SkipsNoted, NEW k, NEW skip \in BOOLEAN, NEW from, OpenLevel(k, skip, from)
    PROVE  SkipsNoted'
<1>1. PICK n \in Nat : n = Len(stack)
    BY MessageFacts
<1>2. PICK frame : /\ stack' = Append(stack, frame) /\ frame.skip = skip
                   /\ frame.span = spanSkip /\ spanSkip' = (spanSkip \/ skip)
    BY DEF OpenLevel
<1>3. stack \in Seq(Frames)
    BY DEF IInv, CallsNest
<1>4. Len(stack') = n + 1 /\ stack'[n + 1] = frame /\ \A d \in 1..n : stack'[d] = stack[d]
    BY <1>1, <1>2, <1>3
<1>5. spanSkip' => \E d \in 1..(n + 1) : stack'[d].skip
    BY <1>1, <1>2, <1>4 DEF SkipsNoted
<1>6. ASSUME NEW d \in 1..(n + 1), stack'[d].span PROVE \E i \in 1..(d - 1) : stack'[i].skip
    <2>1. CASE d = n + 1
        BY <1>1, <1>2, <1>4, <1>6, <2>1 DEF SkipsNoted
    <2>2. CASE d # n + 1
        <3>1. d \in 1..n
            BY <2>2
        <3>2. PICK i \in 1..(d - 1) : stack[i].skip
            BY <1>1, <1>4, <1>6, <3>1 DEF SkipsNoted
        <3>. QED  BY <1>4, <3>1, <3>2
    <2>. QED  BY <2>1, <2>2
<1>. QED  BY <1>4, <1>5, <1>6 DEF SkipsNoted

\* Every step keeps note of what is skipped.
LEMMA StepNotes == IInv /\ SkipsNoted /\ [Next \/ AnyReset]_vars => SkipsNoted'
<1>. SUFFICES ASSUME IInv, SkipsNoted, [Next \/ AnyReset]_vars PROVE SkipsNoted'
    OBVIOUS
<1>1. ASSUME UNCHANGED <<stack, spanSkip>> PROVE SkipsNoted'
    BY <1>1 DEF SkipsNoted
<1>2. ASSUME stack' = <<>>, ~spanSkip' PROVE SkipsNoted'
    <2>1. Len(<<>>) = 0
        OBVIOUS
    <2>. QED  BY <1>2, <2>1 DEF SkipsNoted
<1>3. ASSUME NEW e, Refused(e) PROVE SkipsNoted'
    BY <1>2, <1>3 DEF Refused
<1>4. CASE UNCHANGED vars \/ FeedNothing \/ \E n \in 1..Bytes(msg) : Feed(n)
    BY <1>1, <1>4 DEF vars, FeedNothing, Feed, levelVars
<1>5. CASE Reset \/ AnyReset
    BY <1>2, <1>5 DEF Reset, AnyReset, ResetTo
<1>6. CASE KeepCarrying \/ Stash
    BY <1>1, <1>3, <1>6 DEF KeepCarrying, Stash, Carry, levelVars
<1>7. CASE ParseTheRest \/ Resume \/ WindowEnds \/ HeaderCut \/ SequenceOver \/ Accept
    BY <1>1, <1>7 DEF ParseTheRest, Resume, WindowEnds, HeaderCut, SequenceOver, Accept, levelVars
<1>8. CASE RefuseSpan \/ RefuseHeader \/ RefuseWithheld \/ DeliverRefused
    BY <1>3, <1>8 DEF RefuseSpan, RefuseHeader, RefuseWithheld, DeliverRefused
<1>9. CASE DeliverPayload
    BY <1>1, <1>3, <1>9 DEF DeliverPayload, levelVars
<1>10. CASE DeliverSequence
    <2>1. (~Takes) \in BOOLEAN
        BY DEF Takes
    <2>. QED  BY <1>10, <2>1, OpenedNotes DEF DeliverSequence
<1>11. CASE Descend
    <2>1. PICK at : at = path[seqDepth] /\ OpenLevel(at.k, at.skip, IF at.skip THEN p ELSE Nowhere)
        BY <1>11 DEF Descend
    <2>2. at.skip \in BOOLEAN
        <3>1. Len(stack) \in Nat /\ MAX_DEPTH \in Nat
            BY MessageFacts
        <3>2. seqDepth \in 0..(MAX_DEPTH - 1)
            BY <1>11, <3>1 DEF Descend, seqDepth, IInv, HalfDelivered
        <3>. QED  BY <2>1, <3>2 DEF IInv, HalfDelivered
    <2>. QED  BY <2>1, <2>2, OpenedNotes
<1>12. CASE LeaveLevel
    <2>1. PICK n \in Nat : n = Len(stack) /\ n # 0
        BY <1>12 DEF LeaveLevel, IInv, CallsNest
    <2>2. stack' = SubSeq(stack, 1, n - 1) /\ spanSkip' = stack[n].span
        BY <1>12, <2>1 DEF LeaveLevel, seqDepth
    <2>3. Len(stack') = n - 1 /\ \A d \in 1..(n - 1) : stack'[d] = stack[d]
        BY <2>1, <2>2 DEF IInv, CallsNest
    <2>4. \A d \in 1..n : stack[d].span => \E i \in 1..(d - 1) : stack[i].skip
        BY <2>1 DEF SkipsNoted
    <2>5. ASSUME spanSkip' PROVE \E d \in 1..(n - 1) : stack'[d].skip
        <3>1. PICK i \in 1..(n - 1) : stack[i].skip
            <4>1. n \in 1..n /\ stack[n].span
                BY <2>1, <2>2, <2>5
            <4>. QED  BY <2>4, <4>1
        <3>. QED  BY <2>3, <3>1
    <2>6. ASSUME NEW d \in 1..(n - 1), stack'[d].span PROVE \E i \in 1..(d - 1) : stack'[i].skip
        <3>1. d \in 1..n /\ stack[d].span
            BY <2>1, <2>3, <2>6
        <3>2. PICK i \in 1..(d - 1) : stack[i].skip
            BY <2>4, <3>1
        <3>3. i \in 1..(n - 1)
            BY <3>2
        <3>. QED  BY <2>3, <3>2, <3>3
    <2>. QED  BY <2>3, <2>5, <2>6 DEF SkipsNoted
<1>. QED  BY <1>4, <1>5, <1>6, <1>7, <1>8, <1>9, <1>10, <1>11, <1>12 DEF Next, ParseStep

\* Where a field is offered to a handler nothing is being skipped.
LEMMA NotSkipping ==
    ASSUME IInv, Located, SkipsNoted, pc \in {"loop", "deliver"}, Site \in Fields(msg),
           Offered(msg, Site)
    PROVE  ~spanSkip
<1>. SUFFICES ASSUME NEW d \in 1..Len(stack), stack[d].skip PROVE FALSE
    BY DEF SkipsNoted
<1>1. OpenHere[d] \notin msg.live /\ Len(stack) = Len(OpenHere)
    BY CallsAreHere
<1>2. OpenHere = msg.opens[Site] /\ Nested(msg, Site)
    BY <1>1, SpanFacts
<1>3. OpenHere[d] \in msg.live
    BY <1>1, <1>2, LiveAround, MessageFacts DEF Offered
<1>. QED  BY <1>1, <1>3

------------------------------------------------------------------------------
(* The tests of the parser and the rules of the answer. *)

\* The bounds that are armed are those of the sequence a field is offered to.
LEMMA ArmedHere ==
    ASSUME IInv, Located, pc = "loop", Avail > 0
    PROVE  /\ This = Site /\ Site \in Fields(msg)
           /\ stack = <<>> <=> ~Nested(msg, Site)
           /\ IndexOver(At(msg, Site)) <=> Offered(msg, Site) /\ PastBound(msg, Site)
           /\ IndexOver(At(msg, Site)) => elem = Outer(msg, Site) /\ Nested(msg, Site)
           /\ At(msg, Site).type \in {"varint", "start", "end"} \cup Sized
<1>1. PICK k \in Fields(msg) : k = Site /\ This = k
    BY LoopFacts
<1>2. PICK n \in Nat : n = Len(stack) /\ n = Len(OpenHere)
    BY CallsAreHere, SpanFacts
<1>3. (n = 0 <=> stack = <<>>) /\ (Nested(msg, k) <=> n # 0) /\ OpenHere = msg.opens[k]
    BY <1>1, <1>2, SpanFacts
<1>4. 0 \notin msg.live /\ Laid(msg)
    <2>1. Laid(msg) /\ Len(msg.fields) \in Nat
        BY MessageFacts
    <2>. QED  BY <2>1 DEF Laid, Fields
<1>5. elem = IF Nested(msg, k) /\ Outer(msg, k) \in msg.live THEN Outer(msg, k) ELSE 0
    <2>1. CASE ~InSkip
        BY <1>1, <2>1, CallsAreHere
    <2>2. CASE InSkip
        <3>1. elem = Reader(n) /\ n # 0 /\ stack[n].skip
            BY <1>2, <1>3, <2>2 DEF Located, Armed, InSkip, seqDepth
        <3>. QED  BY <1>1, <2>2, <3>1, CallsAreHere DEF Reader
    <2>. QED  BY <2>1, <2>2
<1>6. PICK f : f = At(msg, k)
    OBVIOUS
<1>7. IndexOver(f) <=> /\ Nested(msg, k) /\ Outer(msg, k) \in msg.live /\ f.type # "end"
                       /\ \E b \in IndexBounds(At(msg, Outer(msg, k))) : f.id >= b
    BY <1>4, <1>5 DEF IndexOver
<1>8. f.type \in {"varint", "start", "end"} \cup Sized
    BY <1>1, <1>6, AtFacts DEF Field, Fields
<1>. QED  BY <1>1, <1>3, <1>5, <1>6, <1>7, <1>8 DEF PastBound, Offered

\* A span over the budget is the first rule.
LEMMA SpanRule ==
    ASSUME IInv, PInv, SInv, SkipsNoted, terminal = "None", pc = "loop", Avail > 0
    PROVE  OverBudget <=> Applies(msg, Site, 1)
<1>1. Located /\ SpanExact
    BY DEF PInv, SInv
<1>2. PICK k \in Fields(msg) : k = Site /\ This = k /\ (stack = <<>> <=> ~Nested(msg, k))
    BY <1>1, ArmedHere
<1>3. budget \in Nat /\ budget = msg.budget
    BY MessageFacts DEF budget
<1>4. /\ Measuring => SpannedLive = Less(Spanned(msg, k), Discounted(msg, k))
      /\ capInert /\ Measuring => SpannedLive <= budget
    BY <1>2, SpansAreExact, InertCapHolds DEF SpanIgnoresCuts, InertCapNeverFires
<1>5. Applies(msg, k, 1) <=> /\ Nested(msg, k) /\ Offered(msg, k)
                            /\ Less(Spanned(msg, k), Discounted(msg, k)) > budget
    BY <1>3 DEF Applies, Rules
<1>6. ASSUME OverBudget PROVE Nested(msg, k) /\ Offered(msg, k) /\ Measuring
    <2>1. Measuring /\ ~spanSkip /\ stack # <<>>
        BY <1>6 DEF OverBudget, Measuring
    <2>2. ~InSkip
        BY <1>1, <2>1 DEF SpanExact, Skippers
    <2>. QED  BY <1>1, <1>2, <2>1, <2>2, CallsAreHere DEF Offered
<1>7. ASSUME Nested(msg, k), Offered(msg, k) PROVE Measuring
    BY <1>1, <1>2, <1>7, NotSkipping DEF Measuring
<1>8. SpannedLive \in Int
    BY SpanFacts DEF SpannedLive, Spans, Less
<1>9. CASE OverBudget
    BY <1>2, <1>4, <1>5, <1>6, <1>9 DEF OverBudget
<1>10. CASE Applies(msg, k, 1)
    <2>1. Measuring /\ SpannedLive > budget
        BY <1>4, <1>5, <1>7, <1>10
    <2>2. ~capInert
        BY <1>3, <1>4, <1>8, <2>1
    <2>. QED  BY <1>2, <1>10, <2>1, <2>2 DEF OverBudget, Measuring
<1>. QED  BY <1>2, <1>9, <1>10

\* What is refused at the tag.
LEMMA TagRules ==
    ASSUME IInv, Located, pc = "loop", Avail > 0
    PROVE  RefusedAtTag(At(msg, Site)) <=> \E i \in 2..4 : Applies(msg, Site, i)
<1>1. PICK k : k = Site
    OBVIOUS
<1>2. PICK f : f = At(msg, k)
    OBVIOUS
<1>3. /\ stack = <<>> <=> ~Nested(msg, k)
      /\ IndexOver(f) <=> Offered(msg, k) /\ PastBound(msg, k)
      /\ IndexOver(f) => elem = Outer(msg, k) /\ Nested(msg, k)
      /\ f.type \in {"varint", "start", "end"} \cup Sized
    BY <1>1, <1>2, ArmedHere
<1>4. ASSUME f.type \notin Fixlen, NEW t
      PROVE  WireOf(f.type) # WireOf(t) <=> f.type # t
    BY <1>3, <1>4 DEF WireOf, Fixlen, Sized
<1>5. Applies(msg, k, 2) <=> f.fault = "tag"
    BY <1>2 DEF Applies, Rules
<1>6. Applies(msg, k, 3) <=> f.type = "end" /\ ~Nested(msg, k)
    BY <1>2 DEF Applies, Rules
<1>7. Applies(msg, k, 4) <=> /\ Offered(msg, k) /\ PastBound(msg, k)
                            /\ f.type = At(msg, Outer(msg, k)).elem /\ f.type \notin Fixlen
    BY <1>2 DEF Applies, Rules
<1>8. (IndexOver(f) /\ ~OtherWire(f) /\ f.type \notin Fixlen) <=> Applies(msg, k, 4)
    BY <1>3, <1>4, <1>7 DEF OtherWire
<1>9. (\E i \in 2..4 : Applies(msg, k, i)) <=>
        Applies(msg, k, 2) \/ Applies(msg, k, 3) \/ Applies(msg, k, 4)
    <2>1. \A i \in 2..4 : i = 2 \/ i = 3 \/ i = 4
        OBVIOUS
    <2>2. 2 \in 2..4 /\ 3 \in 2..4 /\ 4 \in 2..4
        OBVIOUS
    <2>. QED  BY <2>1, <2>2
<1>. QED  BY <1>1, <1>2, <1>3, <1>5, <1>6, <1>8, <1>9 DEF RefusedAtTag

\* What is refused behind the length word.
LEMMA MetaRules ==
    ASSUME IInv, Located, pc = "loop", Avail > 0, ~RefusedAtTag(At(msg, Site))
    PROVE  /\ RefusedBehindIt(At(msg, Site)) <=> Applies(msg, Site, 5) \/ Applies(msg, Site, 6)
           /\ Applies(msg, Site, 5) <=> At(msg, Site).fault = "meta"
<1>1. PICK k : k = Site
    OBVIOUS
<1>2. PICK f : f = At(msg, k)
    OBVIOUS
<1>3. /\ IndexOver(f) <=> Offered(msg, k) /\ PastBound(msg, k)
      /\ IndexOver(f) => elem = Outer(msg, k)
    BY <1>1, <1>2, ArmedHere
<1>4. Applies(msg, k, 5) <=> f.fault = "meta"
    BY <1>2 DEF Applies, Rules
<1>5. Applies(msg, k, 6) <=> /\ Offered(msg, k) /\ PastBound(msg, k)
                            /\ f.type = At(msg, Outer(msg, k)).elem
    BY <1>2 DEF Applies, Rules
<1>. QED  BY <1>1, <1>2, <1>3, <1>4, <1>5 DEF RefusedBehindIt, OtherType

\* At the top level every field that is read is live.
LEMMA TopIsLive ==
    ASSUME IInv, Located, pc = "loop", Avail > 0, stack = <<>>
    PROVE  Site \in msg.live <=> ~Declining(At(msg, Site))
<1>1. Site \in Fields(msg) /\ ~Nested(msg, Site) /\ Laid(msg)
    BY ArmedHere, MessageFacts
<1>2. Site \in msg.live <=> ~Declined(msg, Site)
    BY <1>1, LiveInside
<1>. QED  BY <1>1, <1>2 DEF Declined, NotElement, PastBound, Declining

\* A header or an announced payload over the budget.
LEMMA BudgetRule ==
    ASSUME IInv, Located, pc = "loop", Avail > 0, HeaderRead(At(msg, Site))
    PROVE  LET f == At(msg, Site) IN
           Withheld(f) /\ ~(f.type \in Sized /\ Declining(f)) <=> Applies(msg, Site, 7)
<1>1. PICK k : k = Site /\ This = k
    BY ArmedHere
<1>2. PICK f : f = At(msg, k)
    OBVIOUS
<1>3. stack = <<>> <=> ~Nested(msg, k)
    BY <1>1, ArmedHere
<1>4. stack = <<>> => (k \in msg.live <=> ~Declining(f))
    BY <1>1, <1>2, TopIsLive
<1>5. Applies(msg, k, 7) <=> /\ ~Nested(msg, k) /\ Exceeds(Header(f), f, budget)
                            /\ ~(f.type \in Sized /\ k \notin msg.live)
    BY <1>2 DEF Applies, Rules, budget
<1>6. capInert /\ stack = <<>> => ~Exceeds(Header(f), f, budget)
    BY <1>1, <1>2, InertCapHolds DEF InertCapNeverFires, HeaderRead
<1>. QED  BY <1>1, <1>2, <1>3, <1>4, <1>5, <1>6 DEF Withheld

\* A field whose header is refused is refused by a rule that its bytes show, with its error.
LEMMA HeaderRules ==
    ASSUME IInv, PInv, SInv, SkipsNoted, terminal = "None", RefuseHeader
    PROVE  \E i \in 2..6 :
            /\ Applies(msg, Site, i) /\ Passes(msg, Site, i - 1)
            /\ ShownBy(At(msg, Site), i) <= Avail
            /\ terminal' = Rules(msg, Site, msg.budget)[i].error
<1>1. pc = "loop" /\ Avail > 0 /\ ~OverBudget /\ Located
    BY DEF RefuseHeader, AtField, PInv
<1>2. PICK k : k = Site /\ This = k
    BY <1>1, ArmedHere
<1>3. PICK f : f = At(msg, k)
    OBVIOUS
<1>4. /\ IndexOver(f) => elem = Outer(msg, k) /\ Nested(msg, k) /\ f.type # "end"
      /\ IndexOver(f) <=> Offered(msg, k) /\ PastBound(msg, k)
    BY <1>1, <1>2, <1>3, ArmedHere DEF IndexOver
<1>5. ~Applies(msg, k, 1)
    BY <1>1, <1>2, SpanRule
<1>6. PICK e : /\ terminal' = e
               /\ e = IF /\ IndexOver(f) /\ f.fault # "tag"
                         /\ f.fault = "meta" => RefusedAtTag(f)
                      THEN IndexError(At(msg, elem), f.id) ELSE "InvalidMessage"
    BY <1>2, <1>3 DEF RefuseHeader, Refused
<1>7. PICK r : r = Rules(msg, k, msg.budget)
    OBVIOUS
<1>8. /\ r[2].error = "InvalidMessage" /\ r[3].error = "InvalidMessage"
      /\ r[5].error = "InvalidMessage"
      /\ Nested(msg, k) => r[4].error = IndexError(At(msg, Outer(msg, k)), f.id)
      /\ Nested(msg, k) => r[6].error = IndexError(At(msg, Outer(msg, k)), f.id)
    BY <1>3, <1>7 DEF Rules
<1>9. /\ Applies(msg, k, 2) <=> f.fault = "tag"
      /\ Applies(msg, k, 3) => f.type = "end"
      /\ Applies(msg, k, 4) => Offered(msg, k) /\ PastBound(msg, k)
      /\ Applies(msg, k, 6) => Offered(msg, k) /\ PastBound(msg, k)
    BY <1>3 DEF Applies, Rules
<1>. DEFINE Goal(i) == /\ Applies(msg, k, i) /\ Passes(msg, k, i - 1)
                       /\ ShownBy(f, i) <= Avail /\ e = r[i].error
<1>10. \A i \in {2, 3, 4} : ShownBy(f, i) = f.tag
    BY DEF ShownBy
<1>11. \A i \in {5, 6} : ShownBy(f, i) = Header(f)
    BY DEF ShownBy
<1>12. ASSUME TagRead(f), RefusedAtTag(f) PROVE \E i \in 2..6 : Goal(i)
    <2>1. f.tag <= Avail
        <3>1. f.tag \in Nat /\ Avail \in Nat
            BY <1>1, <1>2, <1>3, ArmedHere, AtFacts, MessageFacts DEF Fields
        <3>. QED  BY <1>12, <3>1 DEF TagRead
    <2>2. \E i \in 2..4 : Applies(msg, k, i)
        BY <1>1, <1>2, <1>3, <1>12, TagRules
    <2>3. CASE Applies(msg, k, 2)
        <3>1. Passes(msg, k, 1)
            BY <1>5 DEF Passes
        <3>2. Goal(2)
            BY <1>6, <1>8, <1>9, <1>10, <2>1, <2>3, <3>1
        <3>. QED  BY <3>2
    <2>4. CASE ~Applies(msg, k, 2) /\ Applies(msg, k, 3)
        <3>1. Passes(msg, k, 2)
            BY <1>5, <2>4 DEF Passes
        <3>2. Goal(3)
            BY <1>4, <1>6, <1>8, <1>9, <1>10, <2>1, <2>4, <3>1
        <3>. QED  BY <3>2
    <2>5. CASE ~Applies(msg, k, 2) /\ ~Applies(msg, k, 3) /\ Applies(msg, k, 4)
        <3>1. Passes(msg, k, 3)
            BY <1>5, <2>5 DEF Passes
        <3>2. Goal(4)
            BY <1>4, <1>6, <1>8, <1>9, <1>10, <1>12, <2>1, <2>5, <3>1
        <3>. QED  BY <3>2
    <2>. QED  BY <2>2, <2>3, <2>4, <2>5
<1>13. ASSUME HeaderRead(f), ~RefusedAtTag(f), RefusedBehindIt(f) PROVE \E i \in 2..6 : Goal(i)
    <2>1. Header(f) <= Avail
        <3>1. Header(f) \in Nat /\ Avail \in Nat
            BY <1>1, <1>2, <1>3, ArmedHere, AtFacts, MessageFacts DEF Fields
        <3>. QED  BY <1>13, <3>1 DEF HeaderRead
    <2>2. /\ Applies(msg, k, 5) \/ Applies(msg, k, 6)
          /\ Applies(msg, k, 5) <=> f.fault = "meta"
          /\ \A i \in 2..4 : ~Applies(msg, k, i)
        BY <1>1, <1>2, <1>3, <1>13, TagRules, MetaRules
    <2>3. Passes(msg, k, 4)
        BY <1>5, <2>2 DEF Passes
    <2>4. CASE Applies(msg, k, 5)
        <3>1. Goal(5)
            BY <1>6, <1>8, <1>11, <1>13, <2>1, <2>2, <2>3, <2>4
        <3>. QED  BY <3>1
    <2>5. CASE ~Applies(msg, k, 5) /\ Applies(msg, k, 6)
        <3>1. Passes(msg, k, 5)
            BY <2>3, <2>5 DEF Passes
        <3>2. f.fault # "tag"
            BY <1>9, <2>2
        <3>3. Goal(6)
            BY <1>4, <1>6, <1>8, <1>9, <1>11, <2>1, <2>2, <2>5, <3>1, <3>2
        <3>. QED  BY <3>3
    <2>. QED  BY <2>2, <2>4, <2>5
<1>14. \/ TagRead(f) /\ RefusedAtTag(f)
       \/ HeaderRead(f) /\ ~RefusedAtTag(f) /\ RefusedBehindIt(f)
    BY <1>2, <1>3 DEF RefuseHeader
<1>15. PICK i \in 2..6 : Goal(i)
    BY <1>12, <1>13, <1>14
<1>. QED  BY <1>2, <1>3, <1>6, <1>7, <1>15

------------------------------------------------------------------------------
(* A parse that goes on has found nothing wrong so far, and what it leaves over *)
(* is less than the item it waits for.                                         *)

\* The item that the next bytes begin or go on with: a header, or a unit of a payload.
ItemLeft ==
    IF pend = NoPend THEN Header(At(msg, Site))
    ELSE GrainIf(Site \in msg.live, At(msg, Site))
Short(n) == n > 0 => Site \in Fields(msg) /\ n < ItemLeft

Cut ==
    /\ pc = "parsed" \/ incomplete => Short(Avail)
    /\ Short(Len(carry))
    /\ p < held => p = 0 /\ Short(held) /\ (pc = "deliver" => pend # NoPend)
    /\ pend # NoPend => pendDone < TotalIf(pend.k \in msg.live, At(msg, pend.k))
    /\ pc = "parsed" /\ ~incomplete => Avail = 0
    /\ pc # "idle" /\ incomplete /\ pend = NoPend /\ OpenHere = <<>> => Avail > 0

Passed ==
    /\ \A k \in 1..(Site - 1) : Passes(msg, k, 11)
    /\ pc = "deliver" \/ pend # NoPend => Passes(msg, Site, 7)
    /\ pend # NoPend => Passes(msg, Site, 9)
    /\ incomplete /\ pend = NoPend /\ Avail > 0 =>
            Passes(msg, Site, IF Avail >= At(msg, Site).tag THEN 4 ELSE 1)

VInv == terminal = "None" => Cut /\ Passed /\ SkipsNoted

\* The parser is at the same field as long as it stands at the same byte.
LEMMA SiteStays ==
    ASSUME UNCHANGED msg, Pos' = Pos, pc # "deliver", pc' # "deliver"
    PROVE  Site' = Site
BY DEF Site, FieldAfter, Bytes

\* There it waits for the same item.
LEMMA SameItem ==
    ASSUME UNCHANGED <<msg, pend>>, Site' = Site
    PROVE  \A n : Short(n)' <=> Short(n)
BY DEF Short, ItemLeft, Fields, At, Header, GrainIf, NoPend

\* What was passed stays passed, where the parse does not move on.
LEMMA StillPassed ==
    ASSUME Passed, UNCHANGED <<msg, pend>>, Site' = Site, pc' = "deliver" => pend # NoPend,
           incomplete' => incomplete /\ (Avail' > 0 => Avail' = Avail)
    PROVE  Passed'
<1>1. \A k, n : Passes(msg, k, n)' <=> Passes(msg, k, n)
    BY DEF Passes, Applies
<1>2. At(msg, Site)' = At(msg, Site)
    BY DEF At
<1>3. NoPend' = NoPend
    BY DEF NoPend
<1>. QED  BY <1>1, <1>2, <1>3 DEF Passed

\* A window begins with what was carried over, or with nothing of it.
LEMMA WindowCuts ==
    ASSUME Cut, UNCHANGED <<msg, pend, pendDone>>, Site' = Site, incomplete' = FALSE,
           pc' \in {"enter", "loop"}, p' = 0, carry' = <<>>,
           held' = 0 \/ held' = Len(carry), Len(carry) \in Nat
    PROVE  Cut'
<1>1. \A n : Short(n)' <=> Short(n)
    BY SameItem
<1>2. Short(0) /\ Len(carry') = 0
    BY DEF Short
<1>3. Short(Len(carry))
    BY DEF Cut
<1>4. pend # NoPend => pendDone < TotalIf(pend.k \in msg.live, At(msg, pend.k))
    BY DEF Cut
<1>5. (pend # NoPend => pendDone < TotalIf(pend.k \in msg.live, At(msg, pend.k)))'
    BY <1>4 DEF NoPend, TotalIf, At
<1>6. (Short(Len(carry)))' /\ (Short(held))'
    BY <1>1, <1>2, <1>3
<1>. QED  BY <1>5, <1>6 DEF Cut

\* The parse stays where it is.
LEMMA UnmovedCuts ==
    ASSUME Cut, UNCHANGED <<msg, carry, held, window, p, pend, pendDone, incomplete>>, Site' = Site,
           pc' = "deliver" => pend # NoPend,
           pc' = "parsed" => pc = "parsed" \/ incomplete,
           pc' # "idle" => pc # "idle"
    PROVE  Cut'
<1>1. \A n : Short(n)' <=> Short(n)
    BY SameItem
<1>2. (pend # NoPend => pendDone < TotalIf(pend.k \in msg.live, At(msg, pend.k)))'
    BY DEF Cut, NoPend, TotalIf, At
<1>3. Avail' = Avail /\ OpenHere' = OpenHere /\ NoPend' = NoPend
    BY DEF Avail, OpenHere, NoPend
<1>4. (pc = "parsed" \/ incomplete => Short(Avail))'
    <2>1. SUFFICES ASSUME pc' = "parsed" \/ incomplete' PROVE Short(Avail)'
        OBVIOUS
    <2>2. Short(Avail)
        BY <2>1 DEF Cut
    <2>. QED  BY <1>1, <1>3, <2>2
<1>5. Short(Len(carry))'
    BY <1>1 DEF Cut
<1>6. (p < held => p = 0 /\ Short(held) /\ (pc = "deliver" => pend # NoPend))'
    BY <1>1, <1>3 DEF Cut
<1>7. (pc = "parsed" /\ ~incomplete => Avail = 0)'
    BY <1>3 DEF Cut
<1>8. (pc # "idle" /\ incomplete /\ pend = NoPend /\ OpenHere = <<>> => Avail > 0)'
    BY <1>3 DEF Cut
<1>. QED  BY <1>2, <1>4, <1>5, <1>6, <1>7, <1>8 DEF Cut

\* A new window begins with the part of an item that was carried.
LEMMA FeedFlawless ==
    ASSUME IInv, Located, Cut, Passed, NEW n \in 1..Bytes(msg), Feed(n)
    PROVE  Cut' /\ Passed'
<1>1. /\ UNCHANGED <<msg, pend, pendDone>> /\ incomplete' = FALSE /\ p' = 0 /\ carry' = <<>>
      /\ held' = Len(carry) /\ pc' \in {"enter", "loop"} /\ pc = "idle"
    BY DEF Feed, OpenWindow
<1>2. Site' = Site
    BY <1>1, FeedStaysHere, SiteStays
<1>3. Len(carry) \in Nat
    BY DEF IInv, WindowIsNext, CarryFollows
<1>4. Cut'
    BY <1>1, <1>2, <1>3, WindowCuts
<1>5. Passed'
    BY <1>1, <1>2, StillPassed
<1>. QED  BY <1>4, <1>5

\* The rest of a chunk begins with an item.
LEMMA ParseTheRestFlawless ==
    ASSUME IInv, Located, Cut, Passed, ParseTheRest
    PROVE  Cut' /\ Passed'
<1>1. /\ UNCHANGED <<msg, pend, pendDone>> /\ incomplete' = FALSE /\ p' = 0 /\ carry' = carry
      /\ held' = 0 /\ pc' \in {"enter", "loop"} /\ pc = "parsed"
    BY DEF ParseTheRest, OpenWindow, input, Parsed
<1>2. Site' = Site
    BY <1>1, ParseTheRestStaysHere, SiteStays
<1>3. Len(carry) \in Nat /\ carry = <<>>
    BY <1>1 DEF IInv, WindowIsNext, CarryFollows
<1>4. Cut'
    BY <1>1, <1>2, <1>3, WindowCuts
<1>5. Passed'
    BY <1>1, <1>2, StillPassed
<1>. QED  BY <1>4, <1>5

\* What is left over for the next feed is less than an item.
LEMMA CarryFlawless ==
    ASSUME IInv, Located, Cut, Passed, NEW e, Carry(e), Parsed, Len(Rest) = Avail,
           Len(window) = held + Len(chunk)
    PROVE  Cut' /\ Passed'
<1>1. /\ UNCHANGED <<msg, pend, pendDone, incomplete>> /\ p' = 0 /\ carry' = Rest
      /\ held' = 0 /\ window' = <<>> /\ pc' = "idle" /\ pc = "parsed"
    BY DEF Carry, Return, input, Parsed
<1>2. Site' = Site
    BY <1>1, CarryStaysHere, SiteStays
<1>3. \A n : Short(n)' <=> Short(n)
    BY <1>1, <1>2, SameItem
<1>4. Avail' = 0
    BY <1>1 DEF Avail
<1>5. Short(Avail) /\ Short(0)
    BY <1>1 DEF Cut, Short
<1>6. Short(Avail)' /\ Short(Len(carry))'
    BY <1>1, <1>3, <1>4, <1>5
<1>7. (pend # NoPend => pendDone < TotalIf(pend.k \in msg.live, At(msg, pend.k)))'
    BY <1>1 DEF Cut, NoPend, TotalIf, At
<1>8. Cut'
    BY <1>1, <1>6, <1>7 DEF Cut
<1>9. Passed'
    BY <1>1, <1>2, <1>4, StillPassed
<1>. QED  BY <1>8, <1>9

\* Entering a sequence again moves over nothing.
LEMMA DescendFlawless ==
    ASSUME IInv, Located, Cut, Passed, Descend
    PROVE  Cut' /\ Passed'
<1>1. /\ UNCHANGED <<msg, fed, chunk, window, carry, held, p, pend, pendDone, incomplete>>
      /\ pc' \in {"enter", "loop"} /\ pc = "enter"
    BY DEF Descend, OpenLevel, input, windowVars, resumeVars
<1>2. Site' = Site /\ Avail' = Avail
    BY <1>1, SiteStays DEF Pos, Avail
<1>. QED  BY <1>1, <1>2, UnmovedCuts, StillPassed

\* Neither does leaving one.
LEMMA LeaveLevelFlawless ==
    ASSUME IInv, Located, Cut, Passed, LeaveLevel
    PROVE  Cut' /\ Passed'
<1>1. /\ UNCHANGED <<msg, fed, chunk, window, carry, held, p, pend, pendDone, incomplete>>
      /\ pc' \in {"loop", "parsed", "return"} /\ pc = "return"
      /\ pc' = "parsed" => incomplete
    BY DEF LeaveLevel, input, windowVars
<1>2. Site' = Site /\ Avail' = Avail
    BY <1>1, SiteStays DEF Pos, Avail
<1>. QED  BY <1>1, <1>2, UnmovedCuts, StillPassed

\* A field that goes on has passed the tests of its header.
LEMMA ResumeFlawless ==
    ASSUME IInv, Located, Cut, Passed, Resume
    PROVE  Cut' /\ Passed'
<1>1. /\ UNCHANGED <<msg, fed, chunk, window, carry, held, p, pend, pendDone, incomplete>>
      /\ pc' \in {"loop", "deliver"} /\ pc = "enter"
      /\ pc' = "deliver" => pend # NoPend /\ cur'.k = pend.k
    BY DEF Resume, input, windowVars
<1>2. Pos' = Pos /\ Avail' = Avail
    BY <1>1 DEF Pos, Avail
<1>3. Site' = Site
    <2>1. pend # NoPend => pend.k = Site
        BY <1>1 DEF Located, Between
    <2>2. pc' # "deliver" => Site' = Site
        BY <1>1, <1>2, SiteStays
    <2>. QED  BY <1>1, <2>1, <2>2 DEF Site
<1>. QED  BY <1>1, <1>2, <1>3, UnmovedCuts, StillPassed

\* A window that is used up leaves nothing over.
LEMMA WindowEndsFlawless ==
    ASSUME IInv, Located, Cut, Passed, WindowEnds
    PROVE  Cut' /\ Passed'
<1>1. /\ UNCHANGED <<msg, fed, chunk, window, carry, held, p, pendDone>>
      /\ pc' \in {"return", "parsed"} /\ pc = "loop" /\ Avail = 0
      /\ IF stack # <<>> THEN SuspendAtBoundary ELSE UNCHANGED <<incomplete, pend>>
    BY DEF WindowEnds, SuspendAtBoundary, Leaving, input, windowVars
<1>2. Pos' = Pos /\ Avail' = 0 /\ Site' = Site
    BY <1>1, SiteStays DEF Pos, Avail
<1>3. pend = NoPend /\ ~incomplete /\ Len(stack) = Len(OpenHere) /\ pend' = pend
    BY <1>1, LoopFacts DEF Located, Depths, SuspendAtBoundary, NoPend
<1>4. \A n : Short(n)' <=> Short(n)
    BY <1>1, <1>2, <1>3, SameItem
<1>5. p >= held
    <2>1. p < held => p = 0 /\ p \in Nat /\ Len(window) \in Nat /\ held \in Nat /\ Len(window) >= held
        <3>1. held > 0 /\ CARRY_CAP \in Nat /\ Len(chunk) \in Nat /\ Len(window) \in Nat /\ held \in Nat /\ held < CARRY_CAP
                => Len(window) >= held
            BY MinOfTwo DEF IInv, WindowIsNext, WindowFollows
        <3>. QED  BY <3>1, MessageFacts DEF Cut, IInv, WindowIsNext, WindowFollows
    <2>. QED  BY <1>1, <2>1, MessageFacts, PosFacts DEF Avail
<1>6. Short(0)
    BY DEF Short
<1>7. (Short(Avail) /\ Short(Len(carry)))'
    BY <1>1, <1>2, <1>4, <1>6 DEF Cut
<1>8. ~(p' < held')
    BY <1>1, <1>5, MessageFacts, PosFacts
<1>9. OpenHere' = <<>> => stack = <<>>
    BY <1>1, <1>2, <1>3, SpanFacts DEF OpenHere
<1>10. Cut'
    BY <1>1, <1>2, <1>3, <1>7, <1>8, <1>9 DEF Cut, NoPend
<1>11. Passed'
    <2>1. \A k, n : Passes(msg, k, n)' <=> Passes(msg, k, n)
        BY <1>1 DEF Passes, Applies
    <2>2. pend' = NoPend /\ NoPend' = NoPend
        BY <1>3 DEF NoPend
    <2>. QED  BY <1>1, <1>2, <1>3, <2>1, <2>2 DEF Passed
<1>. QED  BY <1>10, <1>11

\* A header is cut only when less of it is there than it has.
LEMMA HeaderCutFlawless ==
    ASSUME IInv, PInv, SInv, VInv, terminal = "None", HeaderCut
    PROVE  Cut' /\ Passed'
<1>1. /\ UNCHANGED <<msg, fed, chunk, window, carry, held, p, pendDone>>
      /\ pc' \in {"return", "parsed"} /\ pc = "loop" /\ Avail > 0 /\ ~OverBudget
      /\ incomplete' = TRUE /\ pend' = NoPend
    BY DEF HeaderCut, AtField, SuspendAtBoundary, Leaving, input, windowVars
<1>2. Located /\ Cut /\ Passed /\ SkipsNoted
    BY DEF PInv, VInv
<1>3. Pos' = Pos /\ Avail' = Avail /\ Site' = Site
    BY <1>1, SiteStays DEF Pos, Avail
<1>4. pend = NoPend /\ pend' = pend /\ NoPend' = NoPend
    BY <1>1, <1>2, LoopFacts DEF NoPend
<1>5. \A n : Short(n)' <=> Short(n)
    BY <1>1, <1>3, <1>4, SameItem
<1>6. PICK k : k = Site /\ This = k /\ k \in Fields(msg)
    BY <1>1, <1>2, ArmedHere
<1>7. PICK f : f = At(msg, k)
    OBVIOUS
<1>8. f.tag \in Nat /\ Header(f) \in Nat /\ f.tag <= Header(f) /\ Avail \in Nat
    BY <1>6, <1>7, AtFacts, MessageFacts DEF Fields
<1>9. IF Avail >= f.tag THEN ~RefusedAtTag(f) /\ ~(Avail >= Header(f)) ELSE TRUE
    BY <1>6, <1>7 DEF HeaderCut, TagRead, HeaderRead
<1>10. Short(Avail)
    BY <1>4, <1>6, <1>7, <1>8, <1>9 DEF Short, ItemLeft
<1>11. Cut'
    BY <1>1, <1>2, <1>3, <1>4, <1>5, <1>10 DEF Cut
<1>12. Passes(msg, k, IF Avail >= f.tag THEN 4 ELSE 1)
    <2>1. ~Applies(msg, k, 1)
        BY <1>1, <1>2, <1>6, SpanRule
    <2>2. CASE Avail >= f.tag
        <3>1. \A i \in 2..4 : ~Applies(msg, k, i)
            BY <1>1, <1>2, <1>6, <1>7, <1>9, <2>2, TagRules
        <3>. QED  BY <2>1, <2>2, <3>1 DEF Passes
    <2>3. CASE ~(Avail >= f.tag)
        BY <2>1, <2>3 DEF Passes
    <2>. QED  BY <2>2, <2>3
<1>13. Passed'
    <2>1. \A j, n : Passes(msg, j, n)' <=> Passes(msg, j, n)
        BY <1>1 DEF Passes, Applies
    <2>2. At(msg, Site)' = f
        BY <1>1, <1>3, <1>6, <1>7 DEF At
    <2>. QED  BY <1>1, <1>2, <1>3, <1>4, <1>6, <1>12, <2>1, <2>2 DEF Passed
<1>. QED  BY <1>11, <1>13

\* Behind the header of a field that was begun with bytes carried over, all of these are
\* consumed.
LEMMA PastHeld ==
    ASSUME IInv, Located, Cut, pc = "loop", Avail > 0, p' = p + Header(At(msg, Site)),
           UNCHANGED held
    PROVE  ~(p' < held')
<1>1. pend = NoPend /\ Site \in Fields(msg)
    BY LoopFacts
<1>2. Header(At(msg, Site)) \in Nat /\ p \in Nat /\ held \in Nat
    BY <1>1, AtFacts, MessageFacts, PosFacts DEF Fields
<1>3. p < held => p = 0 /\ held < Header(At(msg, Site))
    BY <1>1, <1>2 DEF Cut, Short, ItemLeft
<1>. QED  BY <1>2, <1>3

\* The end of a sequence has passed all rules when the sequence is left.
LEMMA SequenceOverFlawless ==
    ASSUME IInv, PInv, SInv, VInv, terminal = "None", SequenceOver
    PROVE  Cut' /\ Passed'
<1>1. /\ UNCHANGED <<msg, fed, chunk, window, carry, held, pend, pendDone, incomplete>>
      /\ pc' = "return" /\ pc = "loop" /\ Avail > 0 /\ ~OverBudget /\ stack # <<>>
    BY DEF SequenceOver, AtField, input, windowVars, resumeVars
<1>2. Located /\ Cut /\ Passed /\ SkipsNoted
    BY DEF PInv, VInv
<1>3. PICK k : k = Site /\ This = k /\ k \in Fields(msg)
    BY <1>1, <1>2, ArmedHere
<1>4. PICK f : f = At(msg, k)
    OBVIOUS
<1>5. f.type = "end" /\ ~RefusedAtTag(f) /\ p' = p + f.tag
    BY <1>3, <1>4 DEF SequenceOver
<1>6. pend = NoPend /\ ~incomplete /\ carry = <<>>
    BY <1>1, <1>2, LoopFacts DEF IInv, WindowIsNext, CarryFollows
<1>7. f.meta = 0 /\ f.fault \notin {"meta", "payload"} /\ RefusalOf(f.use) = "None" /\ ~Judged(f)
    <2>1. k \in 1..Len(msg.fields) /\ msg.fields[k] \in DOMAIN Alphabet /\ f = Alphabet[msg.fields[k]]
        BY <1>3, <1>4, MessageFacts DEF Fields, Laid, At, Known
    <2>. QED  BY <1>5, <2>1, FieldAssumption DEF Judged, Sized, Fixlen, Varints
<1>8. Header(f) = f.tag
    <2>1. f.tag \in Nat
        BY <1>3, <1>4, AtFacts DEF Fields
    <2>. QED  BY <1>7, <2>1 DEF Header
<1>9. ~(p' < held')
    BY <1>1, <1>2, <1>3, <1>4, <1>5, <1>8, PastHeld
<1>10. Len(carry') = 0
    BY <1>1, <1>6
<1>11. Cut'
    BY <1>1, <1>6, <1>9, <1>10 DEF Cut, Short, NoPend
<1>12. Site' = k + 1
    <2>1. Pos' = msg.start[k + 1]
        BY <1>2, <1>3, SequenceOverMoves
    <2>2. Laid(msg)
        BY MessageFacts
    <2>3. FieldAfter(msg, msg.start[k + 1]) = k + 1
        BY <1>3, <2>2, NextField1
    <2>. QED  BY <1>1, <2>1, <2>3 DEF Site, FieldAfter, Bytes
<1>13. Passes(msg, k, 11)
    <2>1. ~Applies(msg, k, 1)
        BY <1>1, <1>2, <1>3, SpanRule
    <2>2. \A i \in 2..4 : ~Applies(msg, k, i)
        BY <1>1, <1>2, <1>3, <1>4, <1>5, TagRules
    <2>3. Nested(msg, k)
        BY <1>1, <1>2, <1>3, ArmedHere
    <2>4. ~PastBound(msg, k)
        BY <1>4, <1>5 DEF PastBound
    <2>5. ~Applies(msg, k, 5)
        BY <1>4, <1>7 DEF Applies, Rules
    <2>6. ~Applies(msg, k, 6)
        BY <2>4 DEF Applies, Rules
    <2>7. ~Applies(msg, k, 7)
        BY <2>3 DEF Applies, Rules
    <2>8. ~Applies(msg, k, 8)
        BY <1>4, <1>7 DEF Applies, Rules
    <2>9. ~Applies(msg, k, 9)
        BY <1>4, <1>5 DEF Applies, Rules
    <2>10. ~Applies(msg, k, 10)
        BY <1>4, <1>7 DEF Applies, Rules
    <2>11. ~Applies(msg, k, 11)
        BY <1>4, <1>7 DEF Applies, Rules
    <2>12. \A i \in 1..11 : i = 1 \/ i \in 2..4 \/ i = 5 \/ i = 6 \/ i = 7 \/ i = 8 \/ i = 9 \/ i = 10 \/ i = 11
        OBVIOUS
    <2>. QED  BY <2>1, <2>2, <2>5, <2>6, <2>7, <2>8, <2>9, <2>10, <2>11, <2>12 DEF Passes
<1>14. Passed'
    <2>1. \A j, n : Passes(msg, j, n)' <=> Passes(msg, j, n)
        BY <1>1 DEF Passes, Applies
    <2>2. \A j \in 1..k : j = k \/ j \in 1..(k - 1)
        BY <1>3 DEF Fields
    <2>3. \A j \in 1..(Site' - 1) : Passes(msg, j, 11)
        <3>1. Site' - 1 = k
            BY <1>3, <1>12, MessageFacts DEF Fields
        <3>. QED  BY <1>2, <1>3, <1>13, <2>2, <3>1 DEF Passed
    <2>. QED  BY <1>1, <1>6, <2>1, <2>3 DEF Passed, NoPend
<1>. QED  BY <1>11, <1>14

\* A field that is accepted has passed the rules of its header.
LEMMA AcceptFlawless ==
    ASSUME IInv, PInv, SInv, VInv, terminal = "None", Accept
    PROVE  Cut' /\ Passed'
<1>1. /\ UNCHANGED <<msg, fed, chunk, window, carry, held, pend, incomplete>>
      /\ pc' = "deliver" /\ pc = "loop" /\ Avail > 0 /\ ~OverBudget
    BY DEF Accept, AtField, input, windowVars, resumeVars
<1>2. Located /\ Cut /\ Passed /\ SkipsNoted
    BY DEF PInv, VInv
<1>3. PICK k : k = Site /\ This = k /\ k \in Fields(msg)
    BY <1>1, <1>2, ArmedHere
<1>4. PICK f : f = At(msg, k)
    OBVIOUS
<1>5. /\ HeaderRead(f) /\ ~RefusedAtTag(f) /\ ~RefusedBehindIt(f)
      /\ ~(Withheld(f) /\ ~(f.type \in Sized /\ Declining(f)))
      /\ p' = p + Header(f) /\ cur'.k = k
    BY <1>3, <1>4 DEF Accept, WellFormed
<1>6. pend = NoPend /\ ~incomplete /\ carry = <<>>
    BY <1>1, <1>2, LoopFacts DEF IInv, WindowIsNext, CarryFollows
<1>7. ~(p' < held')
    BY <1>1, <1>2, <1>3, <1>4, <1>5, PastHeld
<1>8. Len(carry') = 0
    BY <1>1, <1>6
<1>9. Cut'
    BY <1>1, <1>6, <1>7, <1>8 DEF Cut, Short, NoPend
<1>10. Site' = k
    BY <1>1, <1>5 DEF Site
<1>11. Passes(msg, k, 7)
    <2>1. ~Applies(msg, k, 1)
        BY <1>1, <1>2, <1>3, SpanRule
    <2>2. \A i \in 2..4 : ~Applies(msg, k, i)
        BY <1>1, <1>2, <1>3, <1>4, <1>5, TagRules
    <2>3. ~Applies(msg, k, 5) /\ ~Applies(msg, k, 6)
        BY <1>1, <1>2, <1>3, <1>4, <1>5, MetaRules
    <2>4. ~Applies(msg, k, 7)
        BY <1>1, <1>2, <1>3, <1>4, <1>5, BudgetRule
    <2>5. \A i \in 1..7 : i = 1 \/ i \in 2..4 \/ i = 5 \/ i = 6 \/ i = 7
        OBVIOUS
    <2>. QED  BY <2>1, <2>2, <2>3, <2>4, <2>5 DEF Passes
<1>12. Passed'
    <2>1. \A j, n : Passes(msg, j, n)' <=> Passes(msg, j, n)
        BY <1>1 DEF Passes, Applies
    <2>. QED  BY <1>1, <1>2, <1>3, <1>6, <1>10, <1>11, <2>1 DEF Passed, NoPend
<1>. QED  BY <1>9, <1>12

\* The parse is behind a field that no rule ends.
LEMMA FieldPassed ==
    ASSUME IInv, Passed, NEW k \in Fields(msg), k = Site, Passes(msg, k, 11), UNCHANGED msg,
           Site' = k + 1, pc' # "deliver", pend' = NoPend, ~incomplete'
    PROVE  Passed'
<1>1. \A j, n : Passes(msg, j, n)' <=> Passes(msg, j, n)
    BY DEF Passes, Applies
<1>2. \A j \in 1..k : j = k \/ j \in 1..(k - 1)
    BY MessageFacts DEF Fields
<1>3. \A j \in 1..(Site' - 1) : Passes(msg, j, 11)
    <2>1. Site' - 1 = k
        BY MessageFacts DEF Fields
    <2>. QED  BY <1>2, <2>1 DEF Passed
<1>. QED  BY <1>1, <1>3 DEF Passed, NoPend

\* A sequence that is opened has passed all rules.
LEMMA DeliverSequenceFlawless ==
    ASSUME IInv, Located, Cut, Passed, DeliverSequence
    PROVE  Cut' /\ Passed'
<1>1. /\ UNCHANGED <<msg, fed, chunk, window, carry, held, p, pend, pendDone, incomplete>>
      /\ pc' \in {"loop", "enter"} /\ pc = "deliver" /\ seqDepth < MAX_DEPTH
    BY DEF DeliverSequence, OpenLevel, DepthLeft, input, windowVars, resumeVars
<1>2. PICK k \in Fields(msg) : k = cur.k /\ k = Site
    BY <1>1, DeliverFacts
<1>3. PICK f : f = At(msg, k)
    OBVIOUS
<1>4. f.type = "start" /\ f = Current
    BY <1>2, <1>3 DEF DeliverSequence, Current
<1>5. pend = NoPend /\ ~incomplete /\ carry = <<>>
    <2>1. pend # NoPend => pend.k = k
        BY <1>1, <1>2 DEF Located, Delivering
    <2>2. pend # NoPend => At(msg, pend.k).type # "start"
        BY DEF Located, Pended
    <2>. QED  BY <1>1, <1>3, <1>4, <2>1, <2>2, DeliverFacts DEF IInv, WindowIsNext, CarryFollows
<1>6. ~(p' < held') /\ Len(carry') = 0
    BY <1>1, <1>5 DEF Cut
<1>7. Cut'
    BY <1>1, <1>5, <1>6 DEF Cut, Short, NoPend
<1>8. Site' = k + 1
    <2>1. Pos = msg.start[k + 1] /\ Laid(msg)
        BY <1>1, <1>2, <1>4, SequenceStarts, MessageFacts
    <2>2. Pos' = Pos
        BY <1>1 DEF Pos
    <2>3. FieldAfter(msg, msg.start[k + 1]) = k + 1
        BY <1>2, <2>1, NextField1
    <2>. QED  BY <1>1, <2>1, <2>2, <2>3 DEF Site, FieldAfter, Bytes
<1>9. f.fault # "payload" /\ RefusalOf(f.use) = "None" /\ ~Judged(f)
    <2>1. k \in 1..Len(msg.fields) /\ msg.fields[k] \in DOMAIN Alphabet /\ f = Alphabet[msg.fields[k]]
        BY <1>2, <1>3, MessageFacts DEF Fields, Laid, At, Known
    <2>. QED  BY <1>4, <2>1, FieldAssumption DEF Judged, Sized, Fixlen, Varints
<1>10. Passes(msg, k, 11)
    <2>1. Passes(msg, k, 7)
        BY <1>1, <1>2 DEF Passed
    <2>2. ~Applies(msg, k, 8)
        BY <1>3, <1>9 DEF Applies, Rules
    <2>3. ~Applies(msg, k, 9)
        <3>1. Len(msg.opens[k]) = Len(stack)
            BY <1>1, <1>2, CallsAreHere DEF OpenHere
        <3>2. ~(Len(msg.opens[k]) >= MAX_DEPTH)
            BY <1>1, <3>1, MessageFacts DEF seqDepth
        <3>. QED  BY <3>2 DEF Applies, Rules
    <2>4. ~Applies(msg, k, 10)
        BY <1>3, <1>9 DEF Applies, Rules
    <2>5. ~Applies(msg, k, 11)
        BY <1>3, <1>9 DEF Applies, Rules
    <2>6. \A i \in 1..11 : i \in 1..7 \/ i = 8 \/ i = 9 \/ i = 10 \/ i = 11
        OBVIOUS
    <2>. QED  BY <2>1, <2>2, <2>3, <2>4, <2>5, <2>6 DEF Passes
<1>11. Passed'
    BY <1>1, <1>2, <1>5, <1>8, <1>10, FieldPassed
<1>. QED  BY <1>7, <1>11

\* Behind a payload all of which is taken comes the next field, and else the field goes on.
LEMMA PayloadSite ==
    ASSUME IInv, Located, DeliverPayload, ~Refused("InvalidMessage")
    PROVE  Site' = IF Over THEN cur.k + 1 ELSE cur.k
<1>1. pc = "deliver" /\ pc' # "deliver" /\ UNCHANGED msg
    BY DEF DeliverPayload, Leaving, input
<1>2. PICK k \in Fields(msg) : k = cur.k /\ k = Site
    BY <1>1, DeliverFacts
<1>3. Pos' = Behind(k, pendDone + Taken)
    BY <1>2, PayloadMoves
<1>4. PICK n \in Nat : n = pendDone + Taken /\ n <= Total /\ Total \in Nat
    BY <1>1, TakenFits
<1>5. Total = TotalIf(k \in msg.live, At(msg, k)) /\ k \in 1..Len(msg.fields)
    BY <1>1, <1>2, DeliverFacts DEF Current
<1>6. Laid(msg) /\ Behind(k, n) \in Nat /\ msg.start[k] <= Behind(k, n)
      /\ (n = Total => Behind(k, n) = msg.start[k + 1])
      /\ (n < Total => Behind(k, n) < msg.start[k + 1])
    BY <1>4, <1>5, PlaceFacts, MessageFacts
<1>7. Site' = FieldAfter(msg, Behind(k, n))
    BY <1>1, <1>3, <1>4 DEF Site, FieldAfter, Bytes
<1>8. CASE Over
    <2>1. Behind(k, n) = msg.start[k + 1]
        BY <1>4, <1>6, <1>8 DEF Over
    <2>. QED  BY <1>2, <1>6, <1>7, <1>8, <2>1, NextField1
<1>9. CASE ~Over
    <2>1. Behind(k, n) < msg.start[k + 1]
        BY <1>4, <1>6, <1>9 DEF Over
    <2>2. k \in 1..(Len(msg.fields) + 1)
        BY <1>5, MessageFacts
    <2>3. FieldAfter(msg, Behind(k, n)) = k
        BY <1>6, <2>1, <2>2, FieldAfterIs
    <2>. QED  BY <1>2, <1>7, <1>9, <2>3
<1>. QED  BY <1>8, <1>9

\* A payload that is complete has passed all rules; of another less than a unit is left.
LEMMA DeliverPayloadFlawless ==
    ASSUME IInv, Located, Cut, Passed, DeliverPayload, ~Refused("InvalidMessage")
    PROVE  Cut' /\ Passed'
<1>1. /\ ~(Over /\ (Faulty \/ Invalidated))
      /\ pc = "deliver" /\ Current.type # "start" /\ (Takes => RefusalOf(Current.use) = "None")
    BY DEF DeliverPayload
<1>2. /\ UNCHANGED <<msg, fed, chunk, window, carry, held>>
      /\ p' = p + Taken * Grain /\ incomplete' = ~Over
      /\ IF Over THEN pend' = NoPend /\ pendDone' = 0 /\ pc' = "loop"
         ELSE /\ pend' = [k |-> cur.k, skip |-> ~Takes] /\ pendDone' = pendDone + Taken
              /\ pc' \in {"parsed", "return"}
    BY <1>1 DEF DeliverPayload, input, windowVars, Leaving
<1>3. PICK k \in Fields(msg) : k = cur.k /\ k = Site /\ k \in 1..Len(msg.fields)
    BY <1>1, DeliverFacts
<1>4. PICK f : f = At(msg, k) /\ f = Current
    BY <1>3 DEF Current
<1>5. PICK g \in Nat \ {0} : g = Grain /\ g = GrainIf(k \in msg.live, f)
    <2>1. Grain = GrainIf(k \in msg.live, f)
        BY <1>1, <1>3, <1>4, DeliverFacts
    <2>2. f.width \in Nat \ {0}
        BY <1>3, <1>4, AtFacts
    <2>. QED  BY <2>1, <2>2 DEF GrainIf
<1>6. PICK t \in Nat : /\ t = Taken /\ t * g \in Nat /\ t * g <= Avail /\ pendDone + t \in Nat
                       /\ pendDone + t <= Total /\ Total \in Nat
    BY <1>1, <1>5, TakenFits
<1>7. Total = TotalIf(k \in msg.live, f) /\ pendDone \in Nat /\ carry = <<>>
    BY <1>1, <1>3, <1>4, DeliverFacts DEF IInv, WindowIsNext, CarryFollows
<1>8. Site' = IF Over THEN k + 1 ELSE k
    BY <1>3, PayloadSite
<1>9. Avail \in Nat /\ Avail' = Avail - t * g /\ p \in Nat /\ held \in Nat
    <2>1. p' = p + t * g /\ Len(window') = Len(window)
        BY <1>2, <1>5, <1>6
    <2>2. Avail \in Nat /\ p \in Nat /\ Len(window) \in Nat /\ held \in Nat
        BY MessageFacts, PosFacts
    <2>. QED  BY <1>6, <2>1, <2>2 DEF Avail
<1>10. ASSUME ~Over PROVE t = Avail \div g /\ Avail' < g /\ pendDone + t < Total
    <2>1. pendDone + t < Total
        BY <1>6, <1>10 DEF Over
    <2>2. Avail \div g \in Nat /\ Avail - (Avail \div g) * g < g
        BY <1>5, <1>9, WholeUnits
    <2>3. t = IF Avail \div g <= Total - pendDone THEN Avail \div g ELSE Total - pendDone
        <3>1. PICK a \in Nat : a = Avail \div g
            BY <2>2
        <3>2. PICK b \in Nat : b = Total - pendDone
            BY <1>6, <1>7
        <3>3. t = Min({a, b})
            BY <1>5, <1>6, <3>1, <3>2 DEF Taken
        <3>4. Min({a, b}) = IF a <= b THEN a ELSE b
            BY MinOfTwo
        <3>. QED  BY <3>1, <3>2, <3>3, <3>4
    <2>4. t = Avail \div g
        BY <1>6, <1>7, <2>1, <2>2, <2>3
    <2>. QED  BY <1>9, <2>1, <2>2, <2>4
<1>11. ASSUME ~Over, NEW n \in Nat, n < g PROVE Short(n)'
    <2>1. Site' \in Fields(msg') /\ pend' # NoPend'
        <3>1. pend'.k = k /\ k # 0
            BY <1>2, <1>3, <1>11
        <3>2. NoPend'.k = 0
            BY DEF NoPend
        <3>. QED  BY <1>2, <1>3, <1>8, <1>11, <3>1, <3>2 DEF Fields
    <2>2. ItemLeft' = GrainIf(k \in msg.live, f)
        BY <1>2, <1>4, <1>8, <1>11, <2>1 DEF ItemLeft, At, GrainIf
    <2>. QED  BY <1>5, <1>11, <2>1, <2>2 DEF Short
<1>12. p < held => pend # NoPend /\ p = 0 /\ held < g /\ pendDone < Total
    <2>1. ASSUME p < held PROVE pend # NoPend /\ p = 0 /\ held < g /\ pendDone < Total
        <3>1. p = 0 /\ Short(held) /\ pend # NoPend
            BY <1>1, <2>1 DEF Cut
        <3>2. held < g
            BY <1>3, <1>4, <1>5, <1>9, <2>1, <3>1 DEF Short, ItemLeft
        <3>3. pend.k = k
            BY <1>1, <1>3, <3>1 DEF Located, Delivering
        <3>4. pendDone < Total
            BY <1>4, <1>7, <3>1, <3>3 DEF Cut
        <3>. QED  BY <3>1, <3>2, <3>4
    <2>. QED  BY <2>1
<1>13. (p < held => p = 0 /\ Short(held) /\ (pc = "deliver" => pend # NoPend))'
    <2>. SUFFICES ASSUME p' < held' PROVE p' = 0 /\ Short(held)' /\ pc' # "deliver"
        OBVIOUS
    <2>1. p' = p + t * g /\ held' = held
        BY <1>2, <1>5, <1>6
    <2>2. p < held
        BY <1>6, <1>9, <2>1
    <2>3. t = 0
        <3>1. t * g < g
            BY <1>6, <1>9, <1>12, <2>1, <2>2, <1>5
        <3>2. t # 0 => t * g >= g
            BY <1>5, <1>6, AtLeastUnits
        <3>. QED  BY <1>5, <1>6, <3>1, <3>2
    <2>4. ~Over /\ p' = 0
        <3>1. pendDone + t = pendDone /\ t * g = 0
            BY <1>5, <1>7, <2>3
        <3>. QED  BY <1>6, <1>9, <1>12, <2>1, <2>2, <3>1 DEF Over
    <2>5. Short(held)'
        BY <1>9, <1>11, <1>12, <2>1, <2>2, <2>4
    <2>. QED  BY <1>2, <2>4, <2>5
<1>14. (pc = "parsed" \/ incomplete => Short(Avail))'
    <2>1. ASSUME pc' = "parsed" \/ incomplete' PROVE Short(Avail)'
        <3>1. ~Over
            BY <1>2, <2>1
        <3>2. Avail' \in Nat
            BY <1>6, <1>9
        <3>. QED  BY <1>10, <1>11, <3>1, <3>2
    <2>. QED  BY <2>1
<1>15. Short(Len(carry))'
    <2>1. Len(carry') = 0
        BY <1>2, <1>7
    <2>. QED  BY <2>1 DEF Short
<1>16. (pend # NoPend => pendDone < TotalIf(pend.k \in msg.live, At(msg, pend.k)))'
    <2>1. ASSUME pend' # NoPend' PROVE ~Over
        BY <1>2, <2>1 DEF NoPend
    <2>2. ASSUME ~Over PROVE pendDone' < Total /\ pend'.k = k
        BY <1>2, <1>3, <1>6, <1>10, <2>2
    <2>3. TotalIf(k \in msg.live, At(msg, k))' = Total
        BY <1>2, <1>4, <1>7 DEF TotalIf, At
    <2>. QED  BY <2>1, <2>2, <2>3
<1>17. Cut'
    <2>1. ~(pc' = "parsed" /\ ~incomplete')
        BY <1>2
    <2>2. incomplete' => pend' # NoPend'
        <3>1. ~Over => pend'.k = k /\ k # 0
            BY <1>2, <1>3
        <3>2. NoPend'.k = 0
            BY DEF NoPend
        <3>. QED  BY <1>2, <3>1, <3>2
    <2>. QED  BY <1>13, <1>14, <1>15, <1>16, <2>1, <2>2 DEF Cut
<1>18. Passes(msg, k, 9)
    <2>1. Passes(msg, k, 7)
        BY <1>1, <1>3 DEF Passed
    <2>2. ~Applies(msg, k, 8)
        <3>1. k \in msg.live => RefusalOf(f.use) = "None"
            BY <1>1, <1>3, <1>4, DeliverFacts
        <3>. QED  BY <1>4, <3>1 DEF Applies, Rules
    <2>3. ~Applies(msg, k, 9)
        BY <1>1, <1>4 DEF Applies, Rules
    <2>4. \A i \in 1..9 : i \in 1..7 \/ i = 8 \/ i = 9
        OBVIOUS
    <2>. QED  BY <2>1, <2>2, <2>3, <2>4 DEF Passes
<1>19. CASE Over
    <2>1. k \in msg.live <=> Takes
        BY <1>1, <1>3, DeliverFacts
    <2>2. ~Applies(msg, k, 10)
        <3>1. ~(f.fault = "payload" /\ (k \in msg.live \/ f.type \in Varints))
            BY <1>1, <1>4, <1>19, <2>1 DEF Faulty
        <3>. QED  BY <1>4, <3>1 DEF Applies, Rules
    <2>3. ~Applies(msg, k, 11)
        <3>1. ~(k \in msg.live /\ Judged(f))
            BY <1>1, <1>4, <1>19, <2>1 DEF Invalidated
        <3>. QED  BY <1>4, <3>1 DEF Applies, Rules
    <2>4. \A i \in 1..11 : i \in 1..9 \/ i = 10 \/ i = 11
        OBVIOUS
    <2>5. Passes(msg, k, 11)
        BY <1>18, <2>2, <2>3, <2>4 DEF Passes
    <2>6. Passed'
        BY <1>2, <1>3, <1>8, <1>19, <2>5, FieldPassed
    <2>. QED  BY <1>17, <2>6
<1>20. CASE ~Over
    <2>1. \A j, n : Passes(msg, j, n)' <=> Passes(msg, j, n)
        BY <1>2 DEF Passes, Applies
    <2>2. pend' # NoPend'
        <3>1. pend'.k = k /\ k # 0
            BY <1>2, <1>3, <1>20
        <3>2. NoPend'.k = 0
            BY DEF NoPend
        <3>. QED  BY <3>1, <3>2
    <2>3. Passes(msg, k, 7)
        BY <1>1, <1>3 DEF Passed
    <2>. QED  BY <1>2, <1>3, <1>8, <1>17, <1>18, <1>20, <2>1, <2>2, <2>3 DEF Passed
<1>. QED  BY <1>19, <1>20

\* A fresh stream has found nothing wrong.
LEMMA FreshFlawless ==
    ASSUME IInv, NEW next \in Decodings, ResetTo(next)
    PROVE  Cut' /\ Passed'
<1>1. NotBegun' /\ UNCHANGED <<window, p, pc>> /\ pc = "idle"
    BY DEF ResetTo, NotBegun, windowVars, IInv, CallsNest, WindowIsNext, Consumed
<1>2. window' = <<>> /\ p' = 0 /\ held' = 0 /\ Len(carry') = 0 /\ Avail' = 0
    BY <1>1 DEF NotBegun, IInv, WindowIsNext, Consumed, Avail
<1>3. pend' = NoPend' /\ ~incomplete' /\ pc' = "idle"
    BY <1>1 DEF NotBegun
<1>4. Cut'
    BY <1>2, <1>3 DEF Cut, Short
<1>5. Site' = 1
    <2>1. Laid(msg')
        BY DecodingsAreLaid DEF ResetTo
    <2>2. Pos' = 0
        <3>1. Len(chunk') = 0 /\ Len(carry') = 0
            BY <1>1 DEF NotBegun
        <3>2. fed' = 0
            BY <1>1 DEF NotBegun
        <3>. QED  BY <1>2, <3>1, <3>2 DEF Pos
    <2>3. FieldAfter(msg', 0) = 1
        BY <2>1, FirstField
    <2>. QED  BY <1>3, <2>2, <2>3 DEF Site
<1>6. Passed'
    <2>1. \A k \in 1..(Site' - 1) : FALSE
        BY <1>5
    <2>. QED  BY <1>3, <2>1 DEF Passed
<1>. QED  BY <1>4, <1>6

\* At the end of a window nothing but less than an item is left, so that it always fits.
LEMMA KeepsCarrying ==
    ASSUME IInv, Cut, KeepCarrying
    PROVE  ~(Len(window) - held < Len(chunk)) /\ Carry("Incomplete")
<1>1. Parsed /\ p < held /\ p = 0
    BY DEF KeepCarrying, Unparsed, Cut
<1>2. held > 0 /\ Len(window) = held + Min({CARRY_CAP - held, Len(chunk)})
    BY <1>1, PosFacts, MessageFacts DEF IInv, WindowIsNext, WindowFollows
<1>3. Len(window) < CARRY_CAP
    BY <1>1, MessageFacts DEF IInv, WindowIsNext, Consumed, Avail, Parsed
<1>4. CARRY_CAP - held \in Int /\ Len(chunk) \in Int /\ held \in Nat /\ CARRY_CAP \in Nat
    BY PosFacts, MessageFacts
<1>5. Min({CARRY_CAP - held, Len(chunk)}) =
        IF CARRY_CAP - held <= Len(chunk) THEN CARRY_CAP - held ELSE Len(chunk)
    BY <1>4, MinOfTwo
<1>6. Len(window) = held + Len(chunk)
    BY <1>2, <1>3, <1>4, <1>5
<1>7. ~(Len(window) - held < Len(chunk))
    BY <1>4, <1>6
<1>. QED  BY <1>7 DEF KeepCarrying

\* So does what is left of the last window.
LEMMA Stashes ==
    ASSUME IInv, Stash
    PROVE  /\ Len(window) = held + Len(chunk) /\ Len(Rest) = Avail
           /\ Carry(IF incomplete \/ Rest # <<>> THEN "Incomplete" ELSE "None")
<1>1. Len(window) = held + Len(chunk) /\ Parsed
    BY AllInWindow DEF Stash
<1>2. Len(Rest) = Avail /\ Avail < CARRY_CAP
    BY <1>1, RestIsTail DEF IInv, WindowIsNext, Consumed, Parsed
<1>3. ~(Len(Rest) > CARRY_CAP)
    BY <1>2, MessageFacts
<1>. QED  BY <1>1, <1>2, <1>3 DEF Stash

\* A refusal ends the parse.
LEMMA RefusedFlawless ==
    ASSUME NEW e, e # "None", Refused(e)
    PROVE  VInv'
BY DEF VInv, Refused

\* A step that leaves the parser alone finds nothing.
LEMMA UnmovedFlawless ==
    ASSUME Cut, Passed, UNCHANGED <<msg, fed, chunk, window, held, p, pc, cur, incomplete,
                                    carry, pend, pendDone>>
    PROVE  Cut' /\ Passed'
<1>1. Site' = Site /\ Avail' = Avail
    BY DEF Site, Pos, FieldAfter, Bytes, Avail
<1>2. pc' = "deliver" => pend # NoPend \/ pc = "deliver"
    OBVIOUS
<1>3. \A n : Short(n)' <=> Short(n)
    BY <1>1, SameItem
<1>4. \A k, n : Passes(msg, k, n)' <=> Passes(msg, k, n)
    BY DEF Passes, Applies
<1>5. At(msg, Site)' = At(msg, Site) /\ OpenHere' = OpenHere /\ NoPend' = NoPend
    BY <1>1 DEF At, OpenHere, NoPend
<1>6. (pend # NoPend => pendDone < TotalIf(pend.k \in msg.live, At(msg, pend.k)))'
    BY DEF Cut, NoPend, TotalIf, At
<1>7. Cut'
    BY <1>1, <1>3, <1>5, <1>6 DEF Cut
<1>8. Passed'
    BY <1>1, <1>4, <1>5 DEF Passed
<1>. QED  BY <1>7, <1>8

\* Every step keeps the parse flawless until it refuses.
LEMMA StepFlawless == IInv /\ PInv /\ SInv /\ VInv /\ [Next \/ AnyReset]_vars => VInv'
<1>. SUFFICES ASSUME IInv, PInv, SInv, VInv, [Next \/ AnyReset]_vars PROVE VInv'
    OBVIOUS
<1>1. CASE terminal # "None"
    <2>1. pc = "idle"
        BY <1>1 DEF SInv
    <2>2. UNCHANGED terminal \/ Reset \/ AnyReset
        BY <1>1, <2>1 DEF Next, ParseStep, KeepCarrying, ParseTheRest, Stash, Descend, Resume,
                LeaveLevel, WindowEnds, RefuseSpan, HeaderCut, RefuseHeader, SequenceOver,
                RefuseWithheld, Accept, DeliverRefused, DeliverSequence, DeliverPayload,
                Feed, FeedNothing, AtField, Parsed, vars
    <2>3. CASE Reset \/ AnyReset
        <3>1. PICK next \in Decodings : ResetTo(next)
            BY <2>3 DEF Reset, AnyReset, IInv, InputTyped
        <3>2. SkipsNoted'
            <4>1. Len(<<>>) = 0
                OBVIOUS
            <4>. QED  BY <3>1, <4>1 DEF ResetTo, SkipsNoted
        <3>. QED  BY <3>1, <3>2, FreshFlawless DEF VInv
    <2>. QED  BY <1>1, <2>2, <2>3 DEF VInv
<1>2. CASE terminal = "None"
    <2>1. Located /\ Cut /\ Passed /\ SkipsNoted /\ SkipsNoted'
        BY <1>2, StepNotes DEF PInv, VInv
    <2>2. SUFFICES VInv' \/ (Cut' /\ Passed')
        BY <2>1 DEF VInv
    <2>3. CASE UNCHANGED vars
        BY <2>1, <2>3, UnmovedFlawless DEF vars, windowVars, input, resumeVars
    <2>4. CASE FeedNothing
        BY <2>1, <2>4, UnmovedFlawless DEF FeedNothing, windowVars, input, resumeVars
    <2>5. CASE Reset \/ AnyReset
        <3>1. PICK next \in Decodings : ResetTo(next)
            BY <2>5 DEF Reset, AnyReset, IInv, InputTyped
        <3>. QED  BY <3>1, FreshFlawless
    <2>6. CASE \E n \in 1..Bytes(msg) : Feed(n)
        BY <2>1, <2>6, FeedFlawless
    <2>7. CASE KeepCarrying
        <3>1. Carry("Incomplete") /\ Parsed /\ Len(window) = held + Len(chunk)
            BY <2>1, <2>7, KeepsCarrying, AllInWindow DEF KeepCarrying
        <3>. QED  BY <2>1, <3>1, RestIsTail, CarryFlawless
    <2>8. CASE Stash
        <3>1. Parsed
            BY <2>8 DEF Stash
        <3>. QED  BY <2>1, <2>8, <3>1, Stashes, CarryFlawless
    <2>9. CASE ParseTheRest
        BY <2>1, <2>9, ParseTheRestFlawless
    <2>10. CASE Descend
        BY <2>1, <2>10, DescendFlawless
    <2>11. CASE Resume
        BY <2>1, <2>11, ResumeFlawless
    <2>12. CASE LeaveLevel
        BY <2>1, <2>12, LeaveLevelFlawless
    <2>13. CASE WindowEnds
        BY <2>1, <2>13, WindowEndsFlawless
    <2>14. CASE HeaderCut
        BY <1>2, <2>14, HeaderCutFlawless
    <2>15. CASE SequenceOver
        BY <1>2, <2>15, SequenceOverFlawless
    <2>16. CASE Accept
        BY <1>2, <2>16, AcceptFlawless
    <2>17. CASE DeliverSequence
        BY <2>1, <2>17, DeliverSequenceFlawless
    <2>18. CASE DeliverPayload
        <3>1. CASE Refused("InvalidMessage")
            BY <3>1, RefusedFlawless
        <3>. QED  BY <2>1, <2>18, <3>1, DeliverPayloadFlawless
    <2>19. CASE RefuseSpan \/ RefuseHeader \/ RefuseWithheld \/ DeliverRefused
        <3>1. PICK e : e # "None" /\ Refused(e)
            <4>1. CASE RefuseSpan
                BY <4>1 DEF RefuseSpan
            <4>2. CASE RefuseHeader
                <5>1. PICK e : Refused(e) /\ (e = "InvalidMessage" \/ \E c, id : e = IndexError(c, id))
                    BY <4>2 DEF RefuseHeader
                <5>. QED  BY <5>1, IndexErrorIs
            <4>3. CASE RefuseWithheld
                BY <4>3 DEF RefuseWithheld
            <4>4. CASE DeliverRefused
                BY <4>4 DEF DeliverRefused
            <4>. QED  BY <2>19, <4>1, <4>2, <4>3, <4>4
        <3>. QED  BY <3>1, RefusedFlawless
    <2>. QED  BY <2>3, <2>4, <2>5, <2>6, <2>7, <2>8, <2>9, <2>10, <2>11, <2>12, <2>13, <2>14, <2>15,
                <2>16, <2>17, <2>18, <2>19 DEF Next, ParseStep
<1>. QED  BY <1>1, <1>2

\* The parse begins flawless.
LEMMA InitFlawless == Init => VInv
<1>. SUFFICES ASSUME Init PROVE Cut /\ Passed /\ SkipsNoted
    BY DEF VInv
<1>1. Len(carry) = 0 /\ Len(stack) = 0 /\ Avail = 0 /\ Pos = 0
    <2>1. Len(<<>>) = 0
        OBVIOUS
    <2>2. Len(carry) = 0 /\ Len(stack) = 0 /\ Len(chunk) = 0 /\ Len(window) = 0
        BY <2>1 DEF Init
    <2>3. fed = 0 /\ held = 0 /\ p = 0
        BY DEF Init
    <2>. QED  BY <2>2, <2>3 DEF Avail, Pos
<1>2. Site = 1
    BY <1>1, DecodingsAreLaid, FirstField DEF Init, Site
<1>3. Cut
    BY <1>1 DEF Init, Cut, Short
<1>4. Passed
    <2>1. \A k \in 1..(Site - 1) : FALSE
        BY <1>2
    <2>. QED  BY <2>1 DEF Passed, Init
<1>5. SkipsNoted
    BY <1>1 DEF Init, SkipsNoted
<1>. QED  BY <1>3, <1>4, <1>5

------------------------------------------------------------------------------
(* What the decoder answers is what the bytes fed so far are worth. *)

\* The window ends with the bytes that were fed, or before them.
LEMMA FedSoFar ==
    ASSUME IInv, pc # "idle"
    PROVE  /\ Pos + Avail <= fed
           /\ Len(window) = held + Len(chunk) => Pos + Avail = fed
<1>1. /\ Len(chunk) \in Nat /\ held \in Nat /\ p \in Nat /\ Len(window) \in Nat /\ fed \in Nat
      /\ Pos = fed - Len(chunk) - held + p /\ CARRY_CAP \in Nat
    BY PosFacts, MessageFacts
<1>2. /\ held = 0 => Len(window) = Len(chunk)
      /\ held > 0 => held < CARRY_CAP /\ Len(window) = held + Min({CARRY_CAP - held, Len(chunk)})
    BY DEF IInv, WindowIsNext, WindowFollows
<1>3. CARRY_CAP - held \in Int
    BY <1>1
<1>4. Min({CARRY_CAP - held, Len(chunk)}) =
        IF CARRY_CAP - held <= Len(chunk) THEN CARRY_CAP - held ELSE Len(chunk)
    BY <1>1, <1>3, MinOfTwo
<1>5. Len(window) <= held + Len(chunk)
    BY <1>1, <1>2, <1>4
<1>. QED  BY <1>1, <1>5 DEF Avail

\* Where a window is done, the bytes fed so far end inside the field it waits for.
LEMMA EndsInside ==
    ASSUME IInv, Located, Cut, Parsed, Len(window) = held + Len(chunk)
    PROVE  /\ fed = Pos + Avail /\ Site \in 1..(Len(msg.fields) + 1) /\ msg.start[Site] \in Nat
           /\ Site \in Fields(msg) => fed < msg.start[Site + 1]
           /\ Site \notin Fields(msg) => fed = msg.start[Site]
           /\ pend = NoPend => Pos = msg.start[Site]
           /\ pend # NoPend => Site \in Fields(msg) /\ Pos > msg.start[Site]
                               /\ Pos = Behind(Site, pendDone)
           /\ Pos >= msg.start[Site]
<1>1. pc = "parsed" /\ pc # "idle" /\ pc # "deliver"
    BY DEF Parsed
<1>2. fed = Pos + Avail /\ Pos \in Nat /\ Avail \in Nat
    BY <1>1, FedSoFar, PosFacts, MessageFacts
<1>3. PICK k : k = Site /\ k \in 1..(Len(msg.fields) + 1) /\ msg.start[k] \in Nat
    BY SiteFacts
<1>4. Laid(msg) /\ Len(msg.fields) \in Nat
    BY MessageFacts
<1>5. Short(Avail)
    BY <1>1 DEF Cut
<1>6. CASE pend = NoPend
    <2>1. Pos = msg.start[k]
        BY <1>1, <1>3, <1>6 DEF Located, Between
    <2>2. ASSUME k \in Fields(msg) PROVE fed < msg.start[k + 1]
        <3>1. /\ msg.start[k + 1] = msg.start[k] + Size(At(msg, k))
              /\ Header(At(msg, k)) \in Nat \ {0} /\ Size(At(msg, k)) \in Nat
              /\ Header(At(msg, k)) <= Size(At(msg, k))
            <4>1. msg.fields[k] \in DOMAIN Alphabet
                BY <1>4, <2>2 DEF Laid, Fields
            <4>. QED  BY <1>4, <2>2, <4>1, FieldFacts DEF At, Laid
        <3>2. Avail < Header(At(msg, k))
            BY <1>2, <1>3, <1>5, <1>6, <3>1 DEF Short, ItemLeft
        <3>. QED  BY <1>2, <1>3, <2>1, <3>1, <3>2
    <2>3. k \notin Fields(msg) => fed = msg.start[k]
        BY <1>2, <1>3, <1>5, <2>1 DEF Short
    <2>. QED  BY <1>2, <1>3, <1>6, <2>1, <2>2, <2>3
<1>7. CASE pend # NoPend
    <2>1. pend.k = k /\ Pos = Behind(k, pendDone)
        BY <1>1, <1>3, <1>7 DEF Located, Between
    <2>2. k \in Fields(msg) /\ k \in 1..Len(msg.fields) /\ pendDone \in Nat
        BY <1>3, <1>4, <2>1 DEF IInv, HalfDelivered, Entries, Fields
    <2>3. PICK t \in Nat : t = TotalIf(k \in msg.live, At(msg, k))
        <3>1. (k \in msg.live) \in BOOLEAN
            OBVIOUS
        <3>2. At(msg, k).units \in Nat /\ At(msg, k).width \in Nat \ {0}
            BY <2>2, AtFacts
        <3>. QED  BY <3>1, <3>2, TotalIsNat
    <2>4. pendDone < t
        BY <1>7, <2>1, <2>3 DEF Cut
    <2>5. PICK g \in Nat \ {0} : g = GrainIf(k \in msg.live, At(msg, k))
        BY <2>2, AtFacts DEF GrainIf
    <2>6. PICK h \in Nat \ {0} : h = Header(At(msg, k))
        BY <2>2, AtFacts
    <2>7. Avail < g
        BY <1>2, <1>3, <1>5, <1>7, <2>5 DEF Short, ItemLeft
    <2>8. PICK n \in Nat : n = pendDone
        BY <2>2
    <2>9. Behind(k, n) = msg.start[k] + h + n * g /\ Behind(k, n + 1) = msg.start[k] + h + (n + 1) * g
        BY <2>5, <2>6 DEF Behind
    <2>10. n * g \in Nat /\ (n + 1) * g = n * g + g
        BY <2>5, <2>8
    <2>11. Behind(k, n + 1) <= msg.start[k + 1] /\ msg.start[k + 1] \in Nat /\ Behind(k, n + 1) \in Nat
        <3>1. n + 1 \in Nat /\ n + 1 <= TotalIf(k \in msg.live, At(msg, k))
            BY <2>3, <2>4, <2>8
        <3>2. n + 1 = t \/ n + 1 < t
            BY <2>3, <2>4, <2>8
        <3>. QED  BY <2>2, <2>3, <3>1, <3>2, PlaceFacts
    <2>12. Pos > msg.start[k]
        BY <1>3, <2>1, <2>6, <2>8, <2>9, <2>10
    <2>13. fed < msg.start[k + 1]
        <3>1. PICK z \in Nat : z = n * g
            BY <2>10
        <3>2. Pos = msg.start[k] + h + z /\ Behind(k, n + 1) = msg.start[k] + h + (z + g)
            <4>1. Behind(k, n) = msg.start[k] + h + z
                BY <2>9, <3>1
            <4>2. Pos = msg.start[k] + h + z
                BY <2>1, <2>8, <4>1
            <4>3. (n + 1) * g = z + g
                BY <2>10, <3>1
            <4>4. Behind(k, n + 1) = msg.start[k] + h + (z + g)
                BY <2>9, <4>3
            <4>. QED  BY <4>2, <4>4
        <3>3. fed < Behind(k, n + 1)
            <4>1. PICK b \in Nat, e \in Nat :
                    /\ b = msg.start[k] /\ e = Behind(k, n + 1)
                    /\ Pos = b + h + z /\ e = b + h + (z + g)
                BY <1>3, <2>11, <3>2
            <4>2. g \in Nat /\ h \in Nat /\ z \in Nat
                BY <2>5, <2>6, <3>1
            <4>3. fed = Pos + Avail /\ Avail \in Nat /\ Avail < g
                BY <1>2, <2>7
            <4>4. fed < e
                <5>1. ASSUME NEW q \in Nat, NEW a \in Nat, a < g, q = b + h + z, e = b + h + (z + g)
                      PROVE  q + a < e
                    BY <4>2, <5>1
                <5>2. Pos \in Nat
                    BY <1>2
                <5>. QED  BY <4>1, <4>3, <5>1, <5>2
            <4>. QED  BY <4>1, <4>4
        <3>4. PICK e \in Nat, c \in Nat :
                e = Behind(k, n + 1) /\ c = msg.start[k + 1] /\ e <= c /\ fed < e
            BY <2>11, <3>3
        <3>5. fed < c
            BY <1>2, <3>4
        <3>. QED  BY <3>4, <3>5
    <2>. QED  BY <1>2, <1>3, <1>7, <2>1, <2>2, <2>12, <2>13
<1>. QED  BY <1>6, <1>7

\* A fault that shows takes a byte of its field.
LEMMA FaultInside ==
    ASSUME NEW m \in Decodings, NEW k \in Fields(m)
    PROVE  m.fault[k].at \in Nat /\ m.fault[k].at > m.start[k] /\ m.start[k] \in Nat
<1>1. Laid(m)
    BY DecodingsAreLaid
<1>2. Passes(m, k, 0)
    BY DEF Passes
<1>3. m.fault[k].at \in Nat /\ m.fault[k].at >= m.start[k] + ShownBy(At(m, k), 0 + 1)
    BY <1>2, FaultLater
<1>4. ShownBy(At(m, k), 0 + 1) = 1
    BY DEF ShownBy
<1>5. m.start[k] \in Nat
    BY <1>1, StartIsNat
<1>. QED  BY <1>3, <1>4, <1>5

\* A field that no rule ends shows no fault.
LEMMA NeverShows ==
    ASSUME IInv, NEW k \in Fields(msg), Passes(msg, k, 11)
    PROVE  ~(msg.fault[k].at <= fed)
<1>1. msg \in Decodings /\ fed <= Bytes(msg) /\ fed \in Nat /\ Bytes(msg) \in Nat
    BY MessageFacts DEF IInv, InputTyped
<1>2. msg.fault[k] = Never(msg)
    BY <1>1, FaultOf
<1>3. msg.fault[k].at = Bytes(msg) + 1
    BY <1>2 DEF Never
<1>. QED  BY <1>1, <1>3

\* What was fed shows no fault in any field.
LEMMA NothingShows ==
    ASSUME IInv, Located, Cut, Passed, Parsed, Len(window) = held + Len(chunk),
           NEW k \in Fields(msg)
    PROVE  ~(msg.fault[k].at <= fed)
<1>1. PICK s : s = Site
    OBVIOUS
<1>2. /\ fed = Pos + Avail /\ s \in 1..(Len(msg.fields) + 1) /\ msg.start[s] \in Nat
      /\ s \in Fields(msg) => fed < msg.start[s + 1]
      /\ s \notin Fields(msg) => fed = msg.start[s]
      /\ pend = NoPend => Pos = msg.start[s]
    BY <1>1, EndsInside
<1>3. /\ Laid(msg) /\ Len(msg.fields) \in Nat /\ fed \in Nat /\ Avail \in Nat /\ Pos \in Nat
      /\ msg \in Decodings /\ k \in 1..Len(msg.fields)
    BY MessageFacts, PosFacts DEF IInv, InputTyped, Fields
<1>4. CASE k < s
    <2>1. k \in 1..(s - 1)
        BY <1>2, <1>3, <1>4
    <2>. QED  BY <1>1, <2>1, NeverShows DEF Passed
<1>5. CASE k > s
    <2>1. s \in Fields(msg) /\ s + 1 \in 1..(Len(msg.fields) + 1) /\ k \in 1..(Len(msg.fields) + 1)
        BY <1>2, <1>3, <1>5 DEF Fields
    <2>2. msg.start[s + 1] <= msg.start[k] /\ msg.start[k] \in Nat /\ msg.start[s + 1] \in Nat
        <3>1. s + 1 = k \/ s + 1 < k
            BY <1>2, <1>3, <1>5
        <3>2. msg.start[k] \in Nat /\ msg.start[s + 1] \in Nat
            BY <1>3, <2>1 DEF Laid
        <3>3. s + 1 < k => msg.start[s + 1] < msg.start[k]
            BY <1>3, <2>1 DEF Laid
        <3>. QED  BY <3>1, <3>2, <3>3
    <2>3. msg.fault[k].at \in Nat /\ msg.fault[k].at > msg.start[k]
        BY <1>3, FaultInside
    <2>4. PICK a \in Nat, b \in Nat : a = msg.fault[k].at /\ b = msg.start[k] /\ a > b /\ fed < b
        <3>1. fed < msg.start[k]
            BY <1>2, <1>3, <2>1, <2>2
        <3>. QED  BY <2>2, <2>3, <3>1
    <2>. QED  BY <1>3, <2>4
<1>6. CASE k = s
    <2>1. PICK f : f = At(msg, k)
        OBVIOUS
    <2>2. f.tag \in Nat /\ Header(f) \in Nat /\ Size(f) \in Nat
        BY <1>3, <2>1, AtFacts
    <2>3. CASE pend # NoPend
        <3>1. Passes(msg, k, 9)
            BY <1>1, <1>6, <2>3 DEF Passed
        <3>2. msg.fault[k].at \in Nat /\ msg.fault[k].at >= msg.start[k] + ShownBy(f, 9 + 1)
            BY <1>3, <2>1, <3>1, FaultLater
        <3>3. ShownBy(f, 9 + 1) = Size(f)
            BY DEF ShownBy
        <3>4. msg.start[k + 1] = msg.start[k] + Size(f)
            BY <1>3, <2>1, StartIsNat
        <3>5. fed < msg.start[k + 1]
            BY <1>2, <1>6
        <3>6. PICK a \in Nat, b \in Nat, z \in Nat :
                a = msg.fault[k].at /\ b = msg.start[k] /\ z = Size(f)
                /\ a >= b + z /\ fed < b + z
            BY <1>2, <1>6, <2>2, <3>2, <3>3, <3>4, <3>5
        <3>. QED  BY <1>3, <3>6
    <2>4. CASE pend = NoPend /\ Avail = 0
        BY <1>2, <1>3, <1>6, <2>4, FaultInside
    <2>5. CASE pend = NoPend /\ Avail > 0
        <3>1. incomplete
            BY <2>5 DEF Cut, Parsed
        <3>2. PICK n \in {4, 1} : n = IF Avail >= f.tag THEN 4 ELSE 1
            OBVIOUS
        <3>3. Passes(msg, k, n) /\ n \in 0..10
            BY <1>1, <1>6, <2>1, <2>5, <3>1, <3>2 DEF Passed
        <3>4. msg.fault[k].at \in Nat /\ msg.fault[k].at >= msg.start[k] + ShownBy(f, n + 1)
            BY <1>3, <2>1, <3>3, FaultLater
        <3>5. ShownBy(f, n + 1) = IF Avail >= f.tag THEN Header(f) ELSE f.tag
            BY <3>2 DEF ShownBy
        <3>6. Avail < Header(f)
            BY <1>1, <1>6, <2>1, <2>5 DEF Cut, Short, ItemLeft, Parsed
        <3>7. PICK a \in Nat, b \in Nat :
                a = msg.fault[k].at /\ b = msg.start[k] /\ fed = b + Avail
                /\ a >= b + (IF Avail >= f.tag THEN Header(f) ELSE f.tag)
            BY <1>2, <1>6, <2>5, <3>4, <3>5
        <3>. QED  BY <1>3, <2>2, <3>6, <3>7
    <2>. QED  BY <1>3, <2>3, <2>4, <2>5
<1>. QED  BY <1>2, <1>3, <1>4, <1>5, <1>6

\* The bytes fed so far are whole messages exactly where nothing waits to go on.
LEMMA WholeIs ==
    ASSUME IInv, Located, Cut, Parsed, Len(window) = held + Len(chunk)
    PROVE  (\E k \in 1..(Len(msg.fields) + 1) : msg.start[k] = fed /\ msg.opens[k] = <<>>)
                <=> ~(incomplete \/ Avail > 0)
<1>1. PICK s : s = Site
    OBVIOUS
<1>2. /\ fed = Pos + Avail /\ s \in 1..(Len(msg.fields) + 1) /\ msg.start[s] \in Nat
      /\ s \in Fields(msg) => fed < msg.start[s + 1]
      /\ s \notin Fields(msg) => fed = msg.start[s]
      /\ pend = NoPend => Pos = msg.start[s]
      /\ pend # NoPend => s \in Fields(msg) /\ Pos > msg.start[s]
      /\ Pos >= msg.start[s]
    BY <1>1, EndsInside
<1>3. /\ Laid(msg) /\ Len(msg.fields) \in Nat /\ fed \in Nat /\ Avail \in Nat /\ Pos \in Nat
    BY MessageFacts, PosFacts
<1>4. ASSUME NEW k \in 1..(Len(msg.fields) + 1), msg.start[k] = fed PROVE k = s
    <2>1. k < s => msg.start[k] < msg.start[s]
        BY <1>2, <1>3 DEF Laid
    <2>2. ASSUME k > s PROVE FALSE
        <3>1. s \in Fields(msg) /\ s + 1 \in 1..(Len(msg.fields) + 1)
            BY <1>2, <1>3, <2>2 DEF Fields
        <3>2. msg.start[s + 1] \in Nat /\ msg.start[k] \in Nat
            BY <1>3, <3>1 DEF Laid
        <3>3. msg.start[s + 1] <= msg.start[k]
            <4>1. s + 1 = k \/ s + 1 < k
                BY <1>2, <1>3, <2>2
            <4>. QED  BY <1>3, <3>1, <3>2, <4>1 DEF Laid
        <3>. QED  BY <1>2, <1>3, <1>4, <3>1, <3>2, <3>3
    <2>. QED  BY <1>2, <1>3, <1>4, <2>1, <2>2
<1>5. CASE ~(incomplete \/ Avail > 0)
    <2>1. OpenHere = <<>> /\ pend = NoPend
        BY <1>5 DEF Located, Depths, Between, Going, Parsed
    <2>. QED  BY <1>1, <1>2, <1>3, <1>5, <2>1 DEF OpenHere
<1>6. CASE incomplete \/ Avail > 0
    <2>1. incomplete
        BY <1>6 DEF Cut, Parsed
    <2>2. ~(msg.start[s] = fed /\ msg.opens[s] = <<>>)
        BY <1>1, <1>2, <1>3, <2>1 DEF Cut, Parsed, OpenHere
    <2>. QED  BY <1>4, <1>6, <2>2
<1>. QED  BY <1>5, <1>6

\* So a feed() that goes well answers what a decode of these bytes in one piece answers.
LEMMA GoodAnswer ==
    ASSUME IInv, Located, Cut, Passed, NEW e,
           \/ KeepCarrying /\ e = "Incomplete"
           \/ Stash /\ e = IF incomplete \/ Rest # <<>> THEN "Incomplete" ELSE "None"
    PROVE  /\ Answer(msg, fed) = [verdict |-> e, faulty |-> 0]
           /\ Carry(e) /\ Len(window) = held + Len(chunk) /\ Len(Rest) = Avail /\ Parsed
<1>1. Carry(e) /\ Len(window) = held + Len(chunk) /\ Len(Rest) = Avail /\ Parsed
    BY KeepsCarrying, Stashes, AllInWindow, RestIsTail DEF KeepCarrying, Stash
<1>2. PICK l \in Nat : l = Len(msg.fields) /\ Fields(msg) = 1..l
    BY MessageFacts DEF Fields
<1>3. \A k \in 1..l : ~(msg.fault[k].at <= fed)
    BY <1>1, <1>2, NothingShows
<1>4. Answer(msg, fed) =
        [verdict |-> IF \E k \in 1..(Len(msg.fields) + 1) : msg.start[k] = fed /\ msg.opens[k] = <<>>
                     THEN "None" ELSE "Incomplete",
         faulty |-> 0]
    BY <1>2, <1>3, AnswerIs
<1>5. e = IF incomplete \/ Avail > 0 THEN "Incomplete" ELSE "None"
    <2>1. CASE KeepCarrying /\ e = "Incomplete"
        <3>1. p = 0 /\ held > 0
            BY <2>1, PosFacts, MessageFacts DEF KeepCarrying, Unparsed, Cut
        <3>2. Avail > 0
            BY <1>1, <3>1, PosFacts DEF Avail
        <3>. QED  BY <2>1, <3>2
    <2>2. CASE Stash /\ e = IF incomplete \/ Rest # <<>> THEN "Incomplete" ELSE "None"
        <3>1. Rest # <<>> <=> Len(Rest) > 0
            <4>1. Rest = LastFed(Avail) /\ Avail \in Nat /\ Avail <= fed /\ fed \in Nat
                BY <1>1, RestIsTail, MessageFacts
            <4>2. Rest \in Seq(1..fed)
                BY <4>1, LastFedIsSeq
            <4>. QED  BY <4>2
        <3>. QED  BY <1>1, <2>2, <3>1
    <2>. QED  BY <2>1, <2>2
<1>. QED  BY <1>1, <1>4, <1>5, WholeIs

\* A rule that applies, behind others that do not, and whose bytes were fed is the answer.
LEMMA BadAnswer ==
    ASSUME IInv, Passed, NEW k \in Fields(msg), k = Site, NEW i \in 1..11,
           Applies(msg, k, i), Passes(msg, k, i - 1),
           msg.start[k] + ShownBy(At(msg, k), i) <= fed
    PROVE  Answer(msg, fed) = [verdict |-> Rules(msg, k, msg.budget)[i].error, faulty |-> k]
<1>1. PICK l \in Nat : l = Len(msg.fields) /\ Fields(msg) = 1..l
    BY MessageFacts DEF Fields
<1>2. msg \in Decodings
    BY DEF IInv, InputTyped
<1>3. msg.fault[k] = Rules(msg, k, msg.budget)[i]
    BY <1>2, FaultOf
<1>4. msg.fault[k].at <= fed
    BY <1>3, RulesAre
<1>5. \A j \in 1..(k - 1) : ~(msg.fault[j].at <= fed)
    <2>1. \A j \in 1..(k - 1) : j \in Fields(msg)
        BY <1>1
    <2>. QED  BY <2>1, NeverShows DEF Passed
<1>6. Answer(msg, fed) = [verdict |-> msg.fault[k].error, faulty |-> k]
    BY <1>1, <1>4, <1>5, AnswerIs
<1>. QED  BY <1>3, <1>6

\* The bytes of a header that the window holds were fed.
LEMMA HeaderFed ==
    ASSUME IInv, Located, pc = "loop", Avail > 0, NEW n \in Nat, n <= Avail
    PROVE  msg.start[Site] + n <= fed
<1>1. Pos = msg.start[Site] /\ Pos \in Nat /\ Avail \in Nat /\ fed \in Nat /\ Pos + Avail <= fed
    BY LoopFacts, PosFacts, MessageFacts, FedSoFar
<1>. QED  BY <1>1

\* So were those of a field that is being delivered.
LEMMA DeliveredFed ==
    ASSUME IInv, Located, pc = "deliver", NEW k, k = cur.k
    PROVE  /\ msg.start[k] + Header(At(msg, k)) <= fed
           /\ Over => msg.start[k] + Size(At(msg, k)) <= fed
<1>1. /\ k \in Fields(msg) /\ k \in 1..Len(msg.fields) /\ Pos = Behind(k, pendDone)
      /\ Total = TotalIf(k \in msg.live, At(msg, k)) /\ Grain = GrainIf(k \in msg.live, At(msg, k))
    BY DeliverFacts DEF Current
<1>2. /\ Pos \in Nat /\ Avail \in Nat /\ fed \in Nat /\ Pos + Avail <= fed
    BY PosFacts, MessageFacts, FedSoFar
<1>3. PICK g \in Nat \ {0} : g = Grain
    <2>1. At(msg, k).width \in Nat \ {0}
        BY <1>1, AtFacts
    <2>. QED  BY <1>1, <2>1 DEF GrainIf
<1>4. PICK n \in Nat, t \in Nat : /\ n = pendDone /\ t = Taken /\ t * g \in Nat /\ t * g <= Avail
                                  /\ n + t <= Total /\ n * g \in Nat /\ (n + t) * g = n * g + t * g
    <2>1. PICK n \in Nat : n = pendDone
        BY DeliverFacts
    <2>2. PICK t \in Nat : t = Taken /\ t * g \in Nat /\ t * g <= Avail /\ n + t <= Total
        BY <1>3, <2>1, TakenFits
    <2>3. n * g \in Nat /\ (n + t) * g = n * g + t * g
        BY <1>3
    <2>. QED  BY <2>1, <2>2, <2>3
<1>5. PICK s \in Nat, h \in Nat : s = msg.start[k] /\ h = Header(At(msg, k))
    BY <1>1, AtFacts, SiteFacts, DeliverFacts
<1>6. PICK x \in Nat, y \in Nat : x = n * g /\ y = t * g
    BY <1>4
<1>7. Pos = s + h + x
    BY <1>1, <1>3, <1>4, <1>5, <1>6 DEF Behind
<1>8. s + h <= fed
    BY <1>2, <1>5, <1>6, <1>7
<1>9. ASSUME Over PROVE s + Size(At(msg, k)) <= fed
    <2>1. n + t = Total
        BY <1>4, <1>9 DEF Over
    <2>2. Behind(k, n + t) = msg.start[k + 1]
        BY <1>1, <1>4, <2>1, PlaceFacts
    <2>3. Behind(k, n + t) = s + h + (x + y)
        BY <1>1, <1>3, <1>4, <1>5, <1>6 DEF Behind
    <2>4. msg.start[k + 1] = s + Size(At(msg, k))
        BY <1>1, <1>5, StartIsNat, MessageFacts
    <2>5. s + h + (x + y) <= fed
        BY <1>2, <1>4, <1>5, <1>6, <1>7
    <2>. QED  BY <2>2, <2>3, <2>4, <2>5
<1>. QED  BY <1>5, <1>8, <1>9

\* No rule up to the last that a header shows ends a field whose payload is delivered.
LEMMA PayloadPassed ==
    ASSUME IInv, Located, Passed, DeliverPayload
    PROVE  Passes(msg, cur.k, 9)
<1>1. /\ pc = "deliver" /\ Current.type # "start" /\ (Takes => RefusalOf(Current.use) = "None")
    BY DEF DeliverPayload
<1>2. PICK k \in Fields(msg) : k = cur.k /\ k = Site /\ (Takes <=> k \in msg.live)
    BY <1>1, DeliverFacts
<1>3. PICK f : f = At(msg, k) /\ f = Current
    BY <1>2 DEF Current
<1>4. Passes(msg, k, 7)
    BY <1>1, <1>2 DEF Passed
<1>5. ~Applies(msg, k, 8)
    BY <1>1, <1>2, <1>3 DEF Applies, Rules
<1>6. ~Applies(msg, k, 9)
    BY <1>1, <1>3 DEF Applies, Rules
<1>7. \A i \in 1..9 : i \in 1..7 \/ i = 8 \/ i = 9
    OBVIOUS
<1>. QED  BY <1>2, <1>4, <1>5, <1>6, <1>7 DEF Passes

RefusedPayload == DeliverPayload /\ Over /\ (Faulty \/ Invalidated)

\* A refusal is by the first rule that applies.
LEMMA RefusalRule ==
    ASSUME IInv, PInv, SInv, VInv, terminal = "None",
           RefuseSpan \/ RefuseHeader \/ RefuseWithheld \/ DeliverRefused \/ RefusedPayload
    PROVE  \E e : \E i \in 1..11 :
            /\ Refused(e) /\ e = Rules(msg, Site, msg.budget)[i].error
            /\ Site \in Fields(msg) /\ Applies(msg, Site, i) /\ Passes(msg, Site, i - 1)
            /\ msg.start[Site] + ShownBy(At(msg, Site), i) <= fed
<1>1. Located /\ Cut /\ Passed /\ SkipsNoted
    BY DEF PInv, VInv
<1>2. PICK k : k = Site
    OBVIOUS
<1>3. PICK f : f = At(msg, k)
    OBVIOUS
<1>4. PICK r : r = Rules(msg, k, msg.budget)
    OBVIOUS
<1>. DEFINE Goal(e, i) == /\ Refused(e) /\ e = r[i].error /\ k \in Fields(msg)
                          /\ Applies(msg, k, i) /\ Passes(msg, k, i - 1)
                          /\ msg.start[k] + ShownBy(f, i) <= fed
<1>. SUFFICES \E e : \E i \in 1..11 : Goal(e, i)
    BY <1>2, <1>3, <1>4
<1>5. CASE RefuseSpan
    <2>1. pc = "loop" /\ Avail > 0 /\ OverBudget /\ Refused("LimitExceeded")
        BY <1>5 DEF RefuseSpan
    <2>2. k \in Fields(msg) /\ Applies(msg, k, 1)
        BY <1>1, <1>2, <2>1, ArmedHere, SpanRule
    <2>3. Passes(msg, k, 1 - 1)
        BY DEF Passes
    <2>4. ShownBy(f, 1) = 1
        BY DEF ShownBy
    <2>5. msg.start[k] + ShownBy(f, 1) <= fed
        BY <1>1, <1>2, <2>1, <2>4, HeaderFed, MessageFacts
    <2>6. r[1].error = "LimitExceeded"
        BY <1>4 DEF Rules
    <2>7. Goal("LimitExceeded", 1)
        BY <2>1, <2>2, <2>3, <2>5, <2>6
    <2>8. 1 \in 1..11
        OBVIOUS
    <2>. QED  BY <2>7, <2>8
<1>6. CASE RefuseHeader
    <2>1. pc = "loop" /\ Avail > 0
        BY <1>6 DEF RefuseHeader, AtField
    <2>2. PICK i \in 2..6 : /\ Applies(msg, k, i) /\ Passes(msg, k, i - 1)
                            /\ ShownBy(f, i) <= Avail /\ terminal' = r[i].error
        BY <1>1, <1>2, <1>3, <1>4, <1>6, HeaderRules
    <2>3. Refused(terminal')
        BY <1>6 DEF RefuseHeader, Refused
    <2>4. k \in Fields(msg)
        BY <1>1, <1>2, <2>1, ArmedHere
    <2>5. i \in 1..11 /\ ShownBy(f, i) \in Nat
        <3>1. f.tag \in Nat \ {0} /\ f.meta \in Nat /\ f.units \in Nat /\ f.width \in Nat
            BY <1>3, <2>4, AtFacts DEF Fields
        <3>. QED  BY <3>1, ShownInOrder
    <2>6. msg.start[k] + ShownBy(f, i) <= fed
        BY <1>1, <1>2, <2>1, <2>2, <2>5, HeaderFed
    <2>7. Goal(terminal', i)
        BY <2>2, <2>3, <2>4, <2>6
    <2>. QED  BY <2>5, <2>7
<1>7. CASE RefuseWithheld
    <2>1. pc = "loop" /\ Avail > 0 /\ ~OverBudget
        BY <1>7 DEF RefuseWithheld, AtField
    <2>2. k \in Fields(msg) /\ This = k
        BY <1>1, <1>2, <2>1, ArmedHere
    <2>3. PICK e : /\ Refused(e) /\ WellFormed(f) /\ Withheld(f) /\ ~(f.type \in Sized /\ Declining(f))
                   /\ e = IF f.use = "overSchema" THEN "InvalidMessage" ELSE "LimitExceeded"
        BY <1>3, <1>7, <2>2 DEF RefuseWithheld
    <2>4. HeaderRead(f) /\ ~RefusedAtTag(f) /\ ~RefusedBehindIt(f)
        BY <2>3 DEF WellFormed
    <2>5. Passes(msg, k, 7 - 1)
        <3>1. ~Applies(msg, k, 1)
            BY <1>1, <1>2, <2>1, SpanRule
        <3>2. \A i \in 2..4 : ~Applies(msg, k, i)
            BY <1>1, <1>2, <1>3, <2>1, <2>4, TagRules
        <3>3. ~Applies(msg, k, 5) /\ ~Applies(msg, k, 6)
            BY <1>1, <1>2, <1>3, <2>1, <2>4, MetaRules
        <3>4. \A i \in 1..6 : i = 1 \/ i \in 2..4 \/ i = 5 \/ i = 6
            OBVIOUS
        <3>. QED  BY <3>1, <3>2, <3>3, <3>4 DEF Passes
    <2>6. Applies(msg, k, 7)
        BY <1>1, <1>2, <1>3, <2>1, <2>3, <2>4, BudgetRule
    <2>7. e = r[7].error
        <3>1. r[7].error = IF f.use = "overSchema" THEN "InvalidMessage" ELSE "LimitExceeded"
            BY <1>3, <1>4 DEF Rules
        <3>. QED  BY <2>3, <3>1
    <2>8. msg.start[k] + ShownBy(f, 7) <= fed
        <3>1. ShownBy(f, 7) = Header(f) /\ Header(f) \in Nat /\ Header(f) <= Avail
            BY <1>3, <2>2, <2>4, AtFacts, MessageFacts DEF ShownBy, Fields, HeaderRead
        <3>. QED  BY <1>1, <1>2, <2>1, <3>1, HeaderFed
    <2>9. Goal(e, 7)
        BY <2>2, <2>3, <2>5, <2>6, <2>7, <2>8
    <2>10. 7 \in 1..11
        OBVIOUS
    <2>. QED  BY <2>9, <2>10
<1>8. CASE DeliverRefused
    <2>1. pc = "deliver"
        BY <1>8 DEF DeliverRefused
    <2>2. k \in Fields(msg) /\ k = cur.k /\ (Takes <=> k \in msg.live) /\ f = Current
        BY <1>1, <1>2, <1>3, <2>1, DeliverFacts DEF Current
    <2>3. PICK e : Refused(e) /\ e = IF f.type = "start" THEN "InvalidMessage" ELSE RefusalOf(f.use)
        BY <1>8, <2>2 DEF DeliverRefused
    <2>4. Passes(msg, k, 7)
        BY <1>1, <1>2, <2>1 DEF Passed
    <2>5. f.type = "start" => RefusalOf(f.use) = "None"
        <3>1. k \in 1..Len(msg.fields) /\ msg.fields[k] \in DOMAIN Alphabet /\ f = Alphabet[msg.fields[k]]
            BY <1>3, <2>2, MessageFacts DEF Fields, Laid, At, Known
        <3>. QED  BY <3>1, FieldAssumption DEF Sized, Fixlen
    <2>6. Applies(msg, k, 8) <=> k \in msg.live /\ RefusalOf(f.use) # "None"
        BY <1>3 DEF Applies, Rules
    <2>7. Applies(msg, k, 9) <=> f.type = "start" /\ Len(msg.opens[k]) >= MAX_DEPTH
        BY <1>3 DEF Applies, Rules
    <2>8. r[8].error = RefusalOf(f.use) /\ r[9].error = "InvalidMessage"
        BY <1>3, <1>4 DEF Rules
    <2>9. ShownBy(f, 8) = Header(f) /\ ShownBy(f, 9) = Header(f)
        BY DEF ShownBy
    <2>10. msg.start[k] + Header(f) <= fed
        BY <1>1, <1>3, <2>1, <2>2, DeliveredFed
    <2>11. CASE Takes /\ RefusalOf(f.use) # "None"
        <3>1. Passes(msg, k, 8 - 1)
            BY <2>4
        <3>2. Goal(e, 8)
            BY <2>2, <2>3, <2>5, <2>6, <2>8, <2>9, <2>10, <2>11, <3>1
        <3>3. 8 \in 1..11
            OBVIOUS
        <3>. QED  BY <3>2, <3>3
    <2>12. CASE f.type = "start" /\ ~DepthLeft
        <3>1. Len(msg.opens[k]) >= MAX_DEPTH
            <4>1. Len(msg.opens[k]) = Len(stack)
                BY <1>1, <1>2, <2>1, CallsAreHere DEF OpenHere
            <4>. QED  BY <2>12, <4>1, MessageFacts DEF DepthLeft, seqDepth
        <3>2. Passes(msg, k, 9 - 1)
            <4>1. \A i \in 1..8 : i \in 1..7 \/ i = 8
                OBVIOUS
            <4>2. ~Applies(msg, k, 8)
                BY <2>5, <2>6, <2>12
            <4>3. Passes(msg, k, 8)
                BY <2>4, <4>1, <4>2 DEF Passes
            <4>. QED  BY <4>3
        <3>3. Goal(e, 9)
            BY <2>2, <2>3, <2>7, <2>8, <2>9, <2>10, <2>12, <3>1, <3>2
        <3>4. 9 \in 1..11
            OBVIOUS
        <3>. QED  BY <3>3, <3>4
    <2>13. (Takes /\ RefusalOf(f.use) # "None") \/ (f.type = "start" /\ ~DepthLeft)
        BY <1>8, <2>2 DEF DeliverRefused
    <2>. QED  BY <2>11, <2>12, <2>13
<1>9. CASE RefusedPayload
    <2>1. pc = "deliver" /\ Refused("InvalidMessage") /\ Over
        BY <1>9 DEF RefusedPayload, DeliverPayload
    <2>2. k \in Fields(msg) /\ k = cur.k /\ (Takes <=> k \in msg.live) /\ f = Current
        BY <1>1, <1>2, <1>3, <2>1, DeliverFacts DEF Current
    <2>3. Passes(msg, k, 9)
        BY <1>1, <1>9, <2>2, PayloadPassed DEF RefusedPayload
    <2>4. Applies(msg, k, 10) <=> f.fault = "payload" /\ (k \in msg.live \/ f.type \in Varints)
        BY <1>3 DEF Applies, Rules
    <2>5. Applies(msg, k, 11) <=> k \in msg.live /\ Judged(f)
        BY <1>3 DEF Applies, Rules
    <2>6. r[10].error = "InvalidMessage" /\ r[11].error = "InvalidMessage"
        BY <1>3, <1>4 DEF Rules
    <2>7. ShownBy(f, 10) = Size(f) /\ ShownBy(f, 11) = Size(f)
        BY DEF ShownBy
    <2>8. msg.start[k] + Size(f) <= fed
        BY <1>1, <1>3, <2>1, <2>2, DeliveredFed
    <2>9. Applies(msg, k, 10) \/ Applies(msg, k, 11)
        BY <1>9, <2>2, <2>4, <2>5 DEF RefusedPayload, Faulty, Invalidated
    <2>10. CASE Applies(msg, k, 10)
        <3>1. Passes(msg, k, 10 - 1)
            BY <2>3
        <3>2. Goal("InvalidMessage", 10)
            BY <2>1, <2>2, <2>6, <2>7, <2>8, <2>10, <3>1
        <3>3. 10 \in 1..11
            OBVIOUS
        <3>. QED  BY <3>2, <3>3
    <2>11. CASE ~Applies(msg, k, 10) /\ Applies(msg, k, 11)
        <3>1. Passes(msg, k, 11 - 1)
            <4>1. \A i \in 1..10 : i \in 1..9 \/ i = 10
                OBVIOUS
            <4>2. Passes(msg, k, 10)
                BY <2>3, <2>11, <4>1 DEF Passes
            <4>. QED  BY <4>2
        <3>2. Goal("InvalidMessage", 11)
            BY <2>1, <2>2, <2>6, <2>7, <2>8, <2>11, <3>1
        <3>3. 11 \in 1..11
            OBVIOUS
        <3>. QED  BY <3>2, <3>3
    <2>. QED  BY <2>9, <2>10, <2>11
<1>. QED  BY <1>5, <1>6, <1>7, <1>8, <1>9

------------------------------------------------------------------------------
(* What has been delivered is the payload up to where the parser stands. *)

\* Over a stretch with no byte of a payload it stays the same.
LEMMA PayloadStays ==
    ASSUME NEW m, Laid(m), NEW q \in Nat, NEW r \in Nat, q <= r, r <= Bytes(m),
           \A b \in (q + 1)..r : ~InPayload(m, b)
    PROVE  PayloadTo(m)[r] = PayloadTo(m)[q]
<1>1. PICK n, c, B, v :
        /\ n \in Nat /\ n = Bytes(m) /\ c = PayloadTo(m) /\ B = PayloadOf(m) /\ v = ItemsOf(m, n)
        /\ Collects(c, n, B, v)
    BY PayloadCollects
<1>2. Misses(q, r, B)
    BY <1>1 DEF Misses, PayloadOf
<1>. QED  BY <1>1, <1>2, CollectsNothing

\* A field ends within the message.
LEMMA LastInside ==
    ASSUME NEW m, Laid(m), NEW k \in Fields(m)
    PROVE  m.start[k + 1] <= Bytes(m) /\ Bytes(m) \in Nat
<1>1. PICK l \in Nat : l = Len(m.fields) /\ Fields(m) = 1..l /\ Bytes(m) = m.start[l + 1]
    BY DEF Laid, Fields, Bytes
<1>2. k + 1 = l + 1 \/ k + 1 < l + 1
    BY <1>1
<1>3. k + 1 \in 1..(l + 1) /\ l + 1 \in 1..(l + 1) /\ m.start \in [1..(l + 1) -> Nat]
    BY <1>1 DEF Laid
<1>4. k + 1 < l + 1 => m.start[k + 1] < m.start[l + 1]
    BY <1>1, <1>3 DEF Laid
<1>. QED  BY <1>1, <1>2, <1>3, <1>4

\* So it does over a header, or over a field that is not delivered.
LEMMA HeaderStays ==
    ASSUME NEW m, Laid(m), NEW k \in Fields(m), NEW q \in Nat, NEW r \in Nat,
           m.start[k] <= q, q <= r, r <= m.start[k + 1],
           r <= PayloadAt(m, k) \/ k \notin m.live
    PROVE  PayloadTo(m)[r] = PayloadTo(m)[q]
<1>1. m.start[k + 1] \in Nat /\ m.start[k + 1] <= Bytes(m) /\ Bytes(m) \in Nat /\ m.start[k] \in Nat
      /\ PayloadAt(m, k) \in Nat
    <2>1. m.start[k] \in Nat /\ PayloadAt(m, k) \in Nat
        BY PayloadAtFacts
    <2>2. m.start[k + 1] \in Nat
        BY StartIsNat
    <2>3. m.start[k + 1] <= Bytes(m) /\ Bytes(m) \in Nat
        BY LastInside
    <2>. QED  BY <2>1, <2>2, <2>3
<1>2. ASSUME NEW b \in (q + 1)..r, InPayload(m, b) PROVE FALSE
    <2>1. b \in 1..Bytes(m) /\ b > m.start[k] /\ b <= m.start[k + 1] /\ b <= r /\ b \in Nat
        BY <1>1
    <2>2. m.owner[b] = k
        <3>1. m.owner[b] <= k /\ m.owner[b] >= k /\ m.owner[b] \in Nat /\ k \in Nat
            BY <2>1, OwnerIs
        <3>. QED  BY <3>1
    <2>3. k \in m.live /\ b > PayloadAt(m, k)
        BY <1>2, <2>2 DEF InPayload, PayloadAt
    <2>. QED  BY <1>1, <2>1, <2>3
<1>. QED  BY <1>1, <1>2, PayloadStays

\* A piece of a delivered payload adds its bytes, with the sequences around the field.
Piece(m, k, q, x) == [i \in 1..x |-> <<m.opens[k], q + i>>]

\* So the payload up to its end is that up to its beginning and the piece.
LEMMA PayloadGrows ==
    ASSUME NEW m, Laid(m), NEW k \in Fields(m), k \in m.live, NEW q \in Nat, NEW x \in Nat,
           PayloadAt(m, k) <= q, q + x <= m.start[k + 1]
    PROVE  PayloadTo(m)[q + x] = PayloadTo(m)[q] \o Piece(m, k, q, x)
<1>0. PICK s : s = Piece(m, k, q, x)
    OBVIOUS
<1>1. PICK n, c, B, v, T :
        /\ n \in Nat /\ n = Bytes(m) /\ c = PayloadTo(m) /\ B = PayloadOf(m) /\ v = ItemsOf(m, n) /\ T = Item
        /\ Collects(c, n, B, v) /\ c \in [0..n -> Seq(T)]
    BY PayloadCollects
<1>2. v \in [1..n -> T]
    <2>1. n \in 0..Bytes(m)
        BY <1>1
    <2>. QED  BY <1>1, <2>1, ItemsAre
<1>3. CollectsInto(c, n, B, v, T)
    BY <1>1, <1>2 DEF CollectsInto
<1>4. m.start[k] \in Nat /\ m.start[k + 1] \in Nat /\ PayloadAt(m, k) \in Nat /\ m.start[k] < PayloadAt(m, k)
    BY PayloadAtFacts, StartIsNat
<1>5. CASE x = 0
    <2>1. s = <<>> /\ q + x = q
        BY <1>0, <1>5 DEF Piece
    <2>2. c[q] \in Seq(T)
        <3>1. q \in 0..n
            <4>1. q <= m.start[k + 1]
                BY <1>4, <1>5
            <4>2. m.start[k + 1] <= Bytes(m)
                BY LastInside
            <4>. QED  BY <1>1, <1>4, <4>1, <4>2
        <3>. QED  BY <1>1, <3>1
    <2>3. c[q] \o <<>> = c[q]
        BY <2>2
    <2>. QED  BY <1>0, <1>1, <2>1, <2>3
<1>6. CASE x # 0
    <2>1. m.start[k + 1] <= n
        BY <1>1, LastInside
    <2>2. ASSUME NEW i \in 1..x PROVE q + i \in B /\ v[q + i] = <<m.opens[k], q + i>>
        <3>1. q + i \in 1..n /\ q + i \in 1..Bytes(m) /\ q + i > m.start[k] /\ q + i <= m.start[k + 1]
              /\ q + i > PayloadAt(m, k)
            BY <1>1, <1>4, <2>1
        <3>2. m.owner[q + i] = k
            <4>1. m.owner[q + i] <= k /\ m.owner[q + i] >= k /\ m.owner[q + i] \in Nat /\ k \in Nat
                BY <3>1, OwnerIs
            <4>. QED  BY <4>1
        <3>3. InPayload(m, q + i)
            BY <3>1, <3>2 DEF InPayload, PayloadAt
        <3>4. v[q + i] = <<m.opens[m.owner[q + i]], q + i>>
            BY <1>1, <3>1 DEF ItemsOf
        <3>. QED  BY <1>1, <3>1, <3>2, <3>3, <3>4 DEF PayloadOf
    <2>3. q + x <= n
        BY <1>1, <1>4, <2>1
    <2>5. s \in Seq(T) /\ Len(s) = x /\ \A i \in 1..x : s[i] = v[q + i]
        <3>2. PICK e : e = [i \in 1..x |-> v[q + i]]
            OBVIOUS
        <3>3. \A i \in 1..x : v[q + i] = <<m.opens[k], q + i>>
            BY <2>2
        <3>4. s = e
            BY <1>0, <3>2, <3>3, Zenon DEF Piece
        <3>5. \A i \in 1..x : v[q + i] \in T
            <4>1. \A i \in 1..x : q + i \in 1..n
                BY <1>1, <1>4, <2>1
            <4>. QED  BY <1>2, <4>1
        <3>6. e \in [1..x -> T]
            BY <3>2, <3>5
        <3>7. e \in Seq(T) /\ Len(e) = x
            BY <3>6
        <3>8. \A i \in 1..x : e[i] = v[q + i]
            BY <3>2
        <3>9. e \in Seq(T) /\ Len(e) = x /\ \A i \in 1..x : e[i] = v[q + i]
            BY <3>7, <3>8
        <3>. QED  BY <3>4, <3>9
    <2>6. Stretch(s, x, q, B, v)
        <3>1. \A i \in 1..x : q + i \in B
            BY <2>2
        <3>2. \A i \in 1..x : s[i] = v[q + i]
            BY <2>5
        <3>. QED  BY <2>5, <3>1, <3>2 DEF Stretch
    <2>7. c[q + x] = c[q] \o s
        <3>1. n \in Nat /\ s \in Seq(T)
            BY <1>1, <2>5
        <3>. QED  BY <1>3, <2>3, <2>6, <3>1, CollectsRun
    <2>. QED  BY <1>0, <1>1, <2>7
<1>. QED  BY <1>5, <1>6

\* The bytes that are stored are the next ones, under the sequences that are open.
LEMMA PieceIs ==
    ASSUME IInv, Located, pc = "deliver", NEW x \in Nat, x <= Avail
    PROVE  [i \in 1..x |-> <<[d \in 1..seqDepth |-> stack[d].k], window[p + i]>>]
                = Piece(msg, cur.k, Pos, x)
<1>1. /\ Len(carry) = 0 /\ Len(chunk) \in Nat /\ held \in Nat /\ Pos = fed - Len(chunk) - held + p
      /\ fed \in Nat /\ p \in Nat /\ Len(window) \in Nat /\ Avail \in Nat
    BY PosFacts, MessageFacts
<1>2. ASSUME NEW i \in 1..x PROVE window[p + i] = Pos + i
    <2>1. window = Run(fed - Len(chunk) - held, Len(window))
        BY DEF IInv, WindowIsNext, WindowFollows
    <2>2. p + i \in 1..Len(window)
        BY <1>1 DEF Avail
    <2>3. window[p + i] = (fed - Len(chunk) - held) + (p + i)
        <3>0. fed - Len(chunk) - held \in Int /\ Len(window) \in Nat
            BY <1>1
        <3>1. PICK a, n : a = fed - Len(chunk) - held /\ n = Len(window) /\ a \in Int /\ n \in Nat
            BY <3>0, Zenon
        <3>2. window = Run(a, n) /\ p + i \in 1..n
            BY <2>1, <2>2, <3>1
        <3>3. Run(a, n)[p + i] = a + (p + i)
            BY <3>1, <3>2, RunIsSeq
        <3>. QED  BY <3>1, <3>2, <3>3
    <2>. QED  BY <1>1, <2>3
<1>3. [d \in 1..seqDepth |-> stack[d].k] = msg.opens[cur.k]
    <2>1. PICK o \in Seq(Nat), n \in Nat : o = OpenHere /\ n = Len(o)
        BY SiteFacts
    <2>2. o = msg.opens[cur.k]
        BY <2>1 DEF OpenHere, Site
    <2>3. Len(stack) = n /\ \A d \in 1..n : stack[d].k = o[d]
        BY <2>1, CallsAreHere
    <2>4. [d \in 1..n |-> stack[d].k] = [d \in 1..n |-> o[d]]
        BY <2>3
    <2>5. o = [d \in 1..n |-> o[d]]
        BY <2>1
    <2>. QED  BY <2>2, <2>3, <2>4, <2>5 DEF seqDepth
<1>4. PICK s : s = [d \in 1..seqDepth |-> stack[d].k]
    OBVIOUS
<1>5. [i \in 1..x |-> <<s, window[p + i]>>] = [i \in 1..x |-> <<s, Pos + i>>]
    BY <1>2
<1>. QED  BY <1>3, <1>4, <1>5 DEF Piece

\* Where a field is cut behind n of its units.
LEMMA BehindUnit ==
    ASSUME IInv, NEW k \in Fields(msg), NEW n \in Nat, n <= TotalIf(k \in msg.live, At(msg, k))
    PROVE  OnUnit(msg, k, Behind(k, n)) /\ PayloadAt(msg, k) <= Behind(k, n)
<1>1. k \in 1..Len(msg.fields) /\ Laid(msg)
    BY MessageFacts DEF Fields
<1>2. /\ Behind(k, n) \in Nat /\ msg.start[k] \in Nat /\ msg.start[k] <= Behind(k, n)
      /\ msg.start[k + 1] \in Nat /\ Behind(k, n) <= msg.start[k + 1]
    <2>1. TotalIf(k \in msg.live, At(msg, k)) \in Nat
        <3>1. (k \in msg.live) \in BOOLEAN
            OBVIOUS
        <3>2. At(msg, k).units \in Nat /\ At(msg, k).width \in Nat \ {0}
            BY <1>1, AtFacts
        <3>. QED  BY <3>1, <3>2, TotalIsNat
    <2>2. n = TotalIf(k \in msg.live, At(msg, k)) \/ n < TotalIf(k \in msg.live, At(msg, k))
        BY <2>1
    <2>. QED  BY <1>1, <2>2, PlaceFacts
<1>3. Behind(k, n) = PayloadAt(msg, k) + n * GrainIf(k \in msg.live, At(msg, k))
    BY DEF Behind, PayloadAt
<1>4. k \in msg.live => GrainIf(k \in msg.live, At(msg, k)) = At(msg, k).width
    BY DEF GrainIf
<1>5. k \in msg.live => \E j \in Nat : Behind(k, n) = PayloadAt(msg, k) + j * At(msg, k).width
    BY <1>3, <1>4
<1>6. PayloadAt(msg, k) <= Behind(k, n)
    <2>1. PICK g \in Nat : g = GrainIf(k \in msg.live, At(msg, k))
        BY <1>1, AtFacts DEF GrainIf
    <2>2. PICK z \in Nat : z = n * g
        BY <2>1
    <2>3. PayloadAt(msg, k) \in Nat
        BY <1>1, PayloadAtFacts
    <2>. QED  BY <1>3, <2>1, <2>2, <2>3
<1>. QED  BY <1>2, <1>5, <1>6 DEF OnUnit

\* What some units of the payload add to what is delivered.
LEMMA UnitsAdded ==
    ASSUME IInv, Located, pc = "deliver", got = PayloadTo(msg)[Pos], NEW n \in Nat, n <= Taken
    PROVE  /\ cur.k \notin msg.live => PayloadTo(msg)[Behind(cur.k, pendDone + n)] = got
           /\ cur.k \in msg.live => PayloadTo(msg)[Behind(cur.k, pendDone + n)] =
                got \o [i \in 1..(n * Grain) |-> <<[d \in 1..seqDepth |-> stack[d].k], window[p + i]>>]
<1>1. PICK k \in Fields(msg) :
        /\ k = cur.k /\ Pos = Behind(k, pendDone)
        /\ Total = TotalIf(k \in msg.live, At(msg, k)) /\ Grain = GrainIf(k \in msg.live, At(msg, k))
    BY DeliverFacts DEF Current
<1>2. PICK a \in Nat, t \in Nat : /\ a = pendDone /\ t = Taken /\ a + t <= Total /\ Total \in Nat
                                  /\ t * Grain \in Nat /\ t * Grain <= Avail
    BY DeliverFacts, TakenFits
<1>3. PICK g \in Nat \ {0} : g = Grain
    <2>1. At(msg, k).width \in Nat \ {0}
        BY <1>1, AtFacts, MessageFacts DEF Fields
    <2>. QED  BY <1>1, <2>1 DEF GrainIf
<1>4. a <= Total /\ a + n <= Total /\ a + n \in Nat /\ Avail \in Nat
    BY <1>2, MessageFacts
<1>5. n * g \in Nat /\ n * g <= Avail
    <2>1. t * g \in Nat /\ t * g <= Avail
        BY <1>2, <1>3
    <2>2. t = n \/ n < t
        BY <1>2
    <2>3. n * g \in Nat /\ (n < t => n * g < t * g)
        BY <1>2, <1>3, PartIsLess
    <2>. QED  BY <1>4, <2>1, <2>2, <2>3
<1>6. OnUnit(msg, k, Behind(k, a)) /\ OnUnit(msg, k, Behind(k, a + n))
      /\ PayloadAt(msg, k) <= Behind(k, a)
    BY <1>1, <1>2, <1>4, BehindUnit
<1>7. /\ Behind(k, a) \in Nat /\ Behind(k, a + n) \in Nat
      /\ msg.start[k] <= Behind(k, a) /\ Behind(k, a + n) <= msg.start[k + 1]
    BY <1>6 DEF OnUnit
<1>8. Behind(k, a + n) = Behind(k, a) + n * g
    <2>1. PICK z \in Int : z = msg.start[k] + Header(At(msg, k))
        <3>1. msg.start[k] \in Nat
            BY PayloadAtFacts, MessageFacts
        <3>2. Header(At(msg, k)) \in Nat
            BY <1>1, AtFacts, MessageFacts DEF Fields
        <3>. QED  BY <3>1, <3>2
    <2>2. Behind(k, a + n) = z + (a + n) * g /\ Behind(k, a) = z + a * g
        BY <1>1, <1>3, <2>1 DEF Behind
    <2>. QED  BY <1>2, <1>3, <2>1, <2>2, UnitsAdd
<1>9. PICK x \in Nat : x = n * g
    BY <1>5
<1>10. Laid(msg) /\ Pos = Behind(k, a) /\ got = PayloadTo(msg)[Behind(k, a)]
    BY <1>1, <1>2, MessageFacts
<1>11. ASSUME k \notin msg.live PROVE PayloadTo(msg)[Behind(k, a + n)] = got
    BY <1>7, <1>8, <1>9, <1>10, <1>11, HeaderStays
<1>12. ASSUME k \in msg.live
       PROVE  PayloadTo(msg)[Behind(k, a + n)] =
                got \o [i \in 1..(n * g) |-> <<[d \in 1..seqDepth |-> stack[d].k], window[p + i]>>]
    <2>1. PayloadTo(msg)[Behind(k, a) + x] = PayloadTo(msg)[Behind(k, a)] \o Piece(msg, k, Behind(k, a), x)
        <3>1. Behind(k, a) + x <= msg.start[k + 1]
            BY <1>7, <1>8, <1>9
        <3>. QED  BY <1>6, <1>7, <1>9, <1>10, <1>12, <3>1, PayloadGrows
    <2>2. [i \in 1..x |-> <<[d \in 1..seqDepth |-> stack[d].k], window[p + i]>>]
            = Piece(msg, k, Behind(k, a), x)
        BY <1>1, <1>5, <1>9, <1>10, PieceIs
    <2>. QED  BY <1>8, <1>9, <1>10, <2>1, <2>2
<1>. QED  BY <1>1, <1>2, <1>3, <1>11, <1>12

\* The parser stands within the message, and what was fed ends there too.
LEMMA PosWithin ==
    ASSUME IInv
    PROVE  /\ Pos \in 0..Bytes(msg) /\ Pos <= fed /\ fed \in 0..Bytes(msg)
           /\ PayloadTo(msg)[Pos] \in Seq(Item)
<1>1. Pos \in Nat /\ fed \in 0..Bytes(msg) /\ Avail \in Nat /\ Bytes(msg) \in Nat /\ Len(carry) \in Nat
    BY PosFacts, MessageFacts DEF IInv, InputTyped
<1>2. Pos <= fed
    <2>1. CASE pc = "idle"  BY <1>1, <2>1, PosFacts
    <2>2. CASE pc # "idle"
        <3>1. Pos + Avail <= fed
            BY <2>2, FedSoFar
        <3>. QED  BY <1>1, <3>1
    <2>. QED  BY <2>1, <2>2
<1>3. PayloadTo(msg) \in [0..Bytes(msg) -> Seq(Item)]
    BY PayloadCollects, MessageFacts
<1>4. Pos \in 0..Bytes(msg)
    BY <1>1, <1>2
<1>. QED  BY <1>1, <1>2, <1>3, <1>4

\* The first n units that are there, as they are stored; how many are.
UnitsHere(n) == [i \in 1..(n * Grain) |-> <<[d \in 1..seqDepth |-> stack[d].k], window[p + i]>>]
HowMany ==
    IF ~Takes THEN 0
    ELSE IF ~(Faulty /\ Over) THEN Taken
    ELSE IF Current.type \in Varints THEN Taken - 1
    ELSE IF pendDone = 0 THEN 0 ELSE Taken

\* What is stored is some of the units that are there: all of them, of a field that is
\* delivered and not found bad; none of one that is skipped.
LEMMA StoredIs ==
    ASSUME NEW g \in Nat \ {0}, g = Grain, Taken \in Nat
    PROVE  \E n \in 0..Taken : /\ Stored = UnitsHere(n)
                               /\ Takes /\ ~(Faulty /\ Over) => n = Taken
                               /\ ~Takes => n = 0
<1>1. Stored = UnitsHere(HowMany)
    BY DEF Stored, UnitsHere, HowMany
<1>2. HowMany \in 0..Taken \/ HowMany = 0 - 1
    BY DEF HowMany
<1>3. CASE HowMany \in 0..Taken
    <2>1. (Takes /\ ~(Faulty /\ Over) => HowMany = Taken) /\ (~Takes => HowMany = 0)
        BY DEF HowMany
    <2>. QED  BY <1>1, <1>3, <2>1
<1>4. CASE HowMany = 0 - 1
    <2>1. 1..((0 - 1) * g) = {} /\ 1..(0 * g) = {}
        OBVIOUS
    <2>2. UnitsHere(0 - 1) = UnitsHere(0)
        BY <2>1 DEF UnitsHere
    <2>3. ~(Takes /\ ~(Faulty /\ Over)) /\ Takes
        BY <1>4 DEF HowMany
    <2>. QED  BY <1>1, <1>4, <2>2, <2>3
<1>. QED  BY <1>2, <1>3, <1>4

\* What is delivered of a payload is the payload up to the unit it stops behind.
LEMMA DeliverGot ==
    ASSUME IInv, Located, DeliverPayload, got = PayloadTo(msg)[Pos]
    PROVE  \E n \in 0..Taken :
            /\ got' = PayloadTo(msg)[Behind(cur.k, pendDone + n)]
            /\ ~(Over /\ (Faulty \/ Invalidated)) => n = Taken
<1>1. /\ pc = "deliver" /\ got' = got \o Stored /\ Taken \in Nat
      /\ (Takes <=> cur.k \in msg.live)
    BY TakenFits, DeliverFacts DEF DeliverPayload
<1>2. got \in Seq(Item)
    BY PosWithin
<1>3. PICK g \in Nat \ {0} : g = Grain
    <2>1. Current.width \in Nat \ {0}
        BY <1>1, DeliverFacts, AtFacts DEF Current
    <2>. QED  BY <2>1 DEF Grain
<1>4. PICK n \in 0..Taken : /\ Stored = UnitsHere(n)
                            /\ Takes /\ ~(Faulty /\ Over) => n = Taken
                            /\ ~Takes => n = 0
    BY <1>1, <1>3, StoredIs
<1>5. CASE Takes
    <2>1. got' = PayloadTo(msg)[Behind(cur.k, pendDone + n)]
        <3>1. n \in Nat /\ n <= Taken
            BY <1>1
        <3>. QED  BY <1>1, <1>4, <1>5, <3>1, UnitsAdded DEF UnitsHere
    <2>. QED  BY <1>4, <1>5, <2>1
<1>6. CASE ~Takes
    <2>1. Stored = <<>>
        <3>1. 1..(0 * g) = {}
            OBVIOUS
        <3>. QED  BY <1>3, <1>4, <1>6, <3>1 DEF UnitsHere
    <2>2. got' = got
        BY <1>1, <1>2, <2>1
    <2>3. PayloadTo(msg)[Behind(cur.k, pendDone + Taken)] = got
        BY <1>1, <1>6, UnitsAdded
    <2>. QED  BY <1>1, <2>2, <2>3
<1>. QED  BY <1>5, <1>6

------------------------------------------------------------------------------
(* What has been delivered at any point of a parse. *)

\* All payload in front of where the parser stands.
GotSoFar == terminal = "None" => got = PayloadTo(msg)[Pos]

\* The end of a sequence has no payload.
LEMMA SequenceOverGot ==
    ASSUME IInv, Located, SequenceOver
    PROVE  PayloadTo(msg)[Pos'] = PayloadTo(msg)[Pos]
<1>1. PICK k \in Fields(msg) : k = Site /\ At(msg, k).type = "end"
    BY SequenceOverMoves
<1>2. Pos' = msg.start[k + 1] /\ Pos = msg.start[k] /\ Laid(msg)
    BY <1>1, SequenceOverMoves, LoopFacts, MessageFacts DEF SequenceOver, AtField
<1>3. /\ msg.start[k] \in Nat /\ msg.start[k + 1] \in Nat
      /\ msg.start[k + 1] = PayloadAt(msg, k) + At(msg, k).units * At(msg, k).width
      /\ PayloadAt(msg, k) \in Nat /\ msg.start[k] < PayloadAt(msg, k) /\ At(msg, k).width \in Nat \ {0}
    BY <1>2, PayloadAtFacts, StartIsNat
<1>4. At(msg, k).units = 0
    <2>1. msg.fields[k] \in DOMAIN Alphabet
        BY <1>2 DEF Laid, Fields
    <2>. QED  BY <1>1, <2>1, FieldAssumption DEF At, Known
<1>5. msg.start[k + 1] = PayloadAt(msg, k)
    BY <1>3, <1>4
<1>. QED  BY <1>2, <1>3, <1>5, HeaderStays

\* Neither has a header.
LEMMA AcceptGot ==
    ASSUME IInv, Located, Accept
    PROVE  PayloadTo(msg)[Pos'] = PayloadTo(msg)[Pos]
<1>1. PICK k \in Fields(msg) : k = Site /\ Pos' = Behind(k, 0)
    BY AcceptMoves
<1>2. Pos = msg.start[k] /\ Laid(msg)
    BY <1>1, LoopFacts, MessageFacts DEF Accept, AtField
<1>3. /\ msg.start[k] \in Nat /\ msg.start[k + 1] \in Nat
      /\ msg.start[k + 1] = PayloadAt(msg, k) + At(msg, k).units * At(msg, k).width
      /\ PayloadAt(msg, k) \in Nat /\ msg.start[k] < PayloadAt(msg, k) /\ At(msg, k).width \in Nat \ {0}
      /\ At(msg, k).units \in Nat
    BY <1>2, PayloadAtFacts, StartIsNat
<1>4. Behind(k, 0) = PayloadAt(msg, k)
    <2>1. GrainIf(k \in msg.live, At(msg, k)) \in Nat
        BY <1>3 DEF GrainIf
    <2>2. 0 * GrainIf(k \in msg.live, At(msg, k)) = 0
        BY <2>1
    <2>. QED  BY <1>3, <2>2 DEF Behind, PayloadAt
<1>5. PayloadAt(msg, k) <= msg.start[k + 1]
    <2>1. PICK u \in Nat, w \in Nat : u = At(msg, k).units /\ w = At(msg, k).width
        BY <1>3
    <2>2. PICK x \in Nat : x = u * w
        BY <2>1
    <2>. QED  BY <1>3, <2>1, <2>2
<1>. QED  BY <1>1, <1>2, <1>3, <1>4, <1>5, HeaderStays

\* A step that moves over no payload delivers none.
LEMMA UnmovedGot ==
    ASSUME GotSoFar, terminal = "None", UNCHANGED <<msg, got>>,
           PayloadTo(msg)[Pos'] = PayloadTo(msg)[Pos]
    PROVE  GotSoFar'
BY DEF GotSoFar

\* After a refusal nothing is said of what was delivered.
LEMMA RefusedGot ==
    ASSUME NEW e, e # "None", Refused(e)
    PROVE  GotSoFar'
BY DEF Refused, GotSoFar

\* These four steps refuse.
LEMMA RefusalsLatch ==
    ASSUME RefuseSpan \/ RefuseHeader \/ RefuseWithheld \/ DeliverRefused
    PROVE  \E e : e # "None" /\ Refused(e)
<1>1. CASE RefuseSpan
    BY <1>1 DEF RefuseSpan
<1>2. CASE RefuseHeader
    <2>1. PICK e : Refused(e) /\ (e = "InvalidMessage" \/ \E c, id : e = IndexError(c, id))
        BY <1>2 DEF RefuseHeader
    <2>. QED  BY <2>1, IndexErrorIs
<1>3. CASE RefuseWithheld
    BY <1>3 DEF RefuseWithheld
<1>4. CASE DeliverRefused
    BY <1>4 DEF DeliverRefused
<1>. QED  BY <1>1, <1>2, <1>3, <1>4

\* Nothing is in front of the first byte.
LEMMA FreshGot ==
    ASSUME Laid(msg), NotBegun, got = <<>>
    PROVE  GotSoFar
<1>1. Pos = 0
    BY FirstPos
<1>2. PayloadTo(msg)[0] = <<>>
    BY PayloadCollects DEF Collects
<1>. QED  BY <1>1, <1>2 DEF GotSoFar

\* The same of the state after a step.
LEMMA FreshGotStays == Laid(msg)' /\ NotBegun' /\ (got = <<>>)' => GotSoFar'
<1>1. Laid(msg) /\ NotBegun /\ got = <<>> => GotSoFar
    BY FreshGot
<1>. QED  BY <1>1, PTL

\* reset() forgets what was delivered.
LEMMA ResetGot ==
    ASSUME IInv, NEW next \in Decodings, ResetTo(next)
    PROVE  GotSoFar'
<1>1. NotBegun' /\ got' = <<>>
    BY DEF ResetTo, NotBegun, windowVars, IInv, CallsNest, WindowIsNext, Consumed
<1>2. Laid(msg')
    BY DecodingsAreLaid DEF ResetTo
<1>. QED  BY <1>1, <1>2, FreshGotStays

\* A payload adds the units the parser moves over.
LEMMA DeliverPayloadGot ==
    ASSUME IInv, PInv, GotSoFar, terminal = "None", DeliverPayload
    PROVE  GotSoFar'
<1>1. Located /\ got = PayloadTo(msg)[Pos] /\ pc = "deliver"
    BY DEF PInv, GotSoFar, DeliverPayload
<1>2. CASE Over /\ (Faulty \/ Invalidated)
    <2>1. Refused("InvalidMessage")
        BY <1>2 DEF DeliverPayload
    <2>. QED  BY <2>1, RefusedGot
<1>3. CASE ~(Over /\ (Faulty \/ Invalidated))
    <2>1. ~Refused("InvalidMessage") /\ UNCHANGED msg
        BY <1>3 DEF DeliverPayload, Refused, Return, Leaving, input
    <2>2. got' = PayloadTo(msg)[Behind(cur.k, pendDone + Taken)]
        BY <1>1, <1>3, DeliverGot
    <2>3. Pos' = Behind(cur.k, pendDone + Taken)
        BY <1>1, <2>1, PayloadMoves
    <2>. QED  BY <2>1, <2>2, <2>3 DEF GotSoFar
<1>. QED  BY <1>2, <1>3

\* Each step keeps got to the payload the parser has gone over.
LEMMA StepGot == IInv /\ PInv /\ SInv /\ GotSoFar /\ [Next \/ AnyReset]_vars => GotSoFar'
<1>. SUFFICES ASSUME IInv, PInv, SInv, GotSoFar, [Next \/ AnyReset]_vars PROVE GotSoFar'
    OBVIOUS
<1>1. CASE Reset \/ AnyReset
    <2>1. PICK next \in Decodings : ResetTo(next)
        BY <1>1 DEF Reset, AnyReset, IInv, InputTyped
    <2>. QED  BY <2>1, ResetGot
<1>2. CASE terminal # "None" /\ ~(Reset \/ AnyReset)
    <2>1. pc = "idle"
        BY <1>2 DEF SInv
    <2>2. UNCHANGED terminal
        BY <1>2, <2>1 DEF Next, ParseStep, KeepCarrying, ParseTheRest, Stash, Descend, Resume,
                LeaveLevel, WindowEnds, RefuseSpan, HeaderCut, RefuseHeader, SequenceOver,
                RefuseWithheld, Accept, DeliverRefused, DeliverSequence, DeliverPayload,
                Feed, FeedNothing, AtField, Parsed, vars
    <2>. QED  BY <1>2, <2>2 DEF GotSoFar
<1>3. CASE terminal = "None" /\ ~(Reset \/ AnyReset)
    <2>1. Located /\ fed \in Nat
        BY <1>3, MessageFacts DEF PInv
    <2>2. ASSUME UNCHANGED <<msg, got>>, Pos' = Pos PROVE GotSoFar'
        BY <1>3, <2>2, UnmovedGot
    <2>3. CASE UNCHANGED vars \/ FeedNothing \/ Descend \/ Resume \/ WindowEnds \/ HeaderCut
                \/ LeaveLevel \/ DeliverSequence
        <3>1. UNCHANGED <<msg, fed, chunk, held, carry, p, got>>
            BY <2>3 DEF vars, FeedNothing, Descend, Resume, WindowEnds, HeaderCut, LeaveLevel,
                        DeliverSequence, input, windowVars, resumeVars
        <3>2. Pos' = Pos
            BY <3>1 DEF Pos
        <3>. QED  BY <2>2, <3>1, <3>2
    <2>4. CASE \E n \in 1..Bytes(msg) : Feed(n)
        <3>1. UNCHANGED <<msg, got>>
            BY <2>4 DEF Feed
        <3>. QED  BY <2>2, <2>4, <3>1, FeedStaysHere
    <2>5. CASE KeepCarrying \/ Stash
        <3>1. CASE ~(\E e : e # "None" /\ Refused(e))
            <4>1. PICK e : Carry(e) /\ Parsed
                BY <2>5, <3>1 DEF KeepCarrying, Stash
            <4>2. Len(window) = held + Len(chunk)
                <5>1. KeepCarrying => ~(Len(window) - held < Len(chunk))
                    BY <3>1 DEF KeepCarrying
                <5>. QED  BY <2>5, <5>1, AllInWindow
            <4>3. Pos' = Pos
                BY <4>1, <4>2, RestIsTail, CarryStaysHere
            <4>4. UNCHANGED <<msg, got>>
                BY <2>5, <4>1 DEF Carry, KeepCarrying, Stash, input
            <4>. QED  BY <2>2, <4>3, <4>4
        <3>. QED  BY <3>1, RefusedGot
    <2>6. CASE ParseTheRest
        <3>1. UNCHANGED <<msg, got>>
            BY <2>6 DEF ParseTheRest, input
        <3>. QED  BY <2>2, <2>6, <3>1, ParseTheRestStaysHere
    <2>7. CASE SequenceOver
        <3>1. UNCHANGED <<msg, got>>
            BY <2>7 DEF SequenceOver, input
        <3>. QED  BY <1>3, <2>1, <2>7, <3>1, SequenceOverGot, UnmovedGot
    <2>8. CASE Accept
        <3>1. UNCHANGED <<msg, got>>
            BY <2>8 DEF Accept, input
        <3>. QED  BY <1>3, <2>1, <2>8, <3>1, AcceptGot, UnmovedGot
    <2>9. CASE DeliverPayload
        BY <1>3, <2>9, DeliverPayloadGot
    <2>10. CASE RefuseSpan \/ RefuseHeader \/ RefuseWithheld \/ DeliverRefused
        BY <2>10, RefusalsLatch, RefusedGot
    <2>. QED  BY <1>3, <2>3, <2>4, <2>5, <2>6, <2>7, <2>8, <2>9, <2>10 DEF Next, ParseStep
<1>. QED  BY <1>1, <1>2, <1>3

\* Nothing was delivered in the beginning.
LEMMA InitGot == Init => GotSoFar
<1>. SUFFICES ASSUME Init PROVE GotSoFar
    OBVIOUS
<1>1. Laid(msg) /\ NotBegun /\ got = <<>>
    BY DecodingsAreLaid DEF Init, NotBegun
<1>. QED  BY <1>1, FreshGot

\* When a window is used up, the units that began are complete, and no other unit is.
LEMMA GoodValues ==
    ASSUME IInv, Located, Cut, Parsed, Len(window) = held + Len(chunk)
    PROVE  Values(msg, fed, Len(msg.fields)) = PayloadTo(msg)[Pos]
<1>1. PICK k : k = Site /\ k \in 1..(Len(msg.fields) + 1) /\ msg.start[k] \in Nat
    BY SiteFacts
<1>2. PICK l \in Nat : l = Len(msg.fields) /\ Fields(msg) = 1..l
    BY MessageFacts DEF Fields
<1>3. /\ fed \in 0..Bytes(msg) /\ Pos \in 0..fed /\ Pos \in Nat /\ Avail \in Nat /\ fed \in Nat
      /\ fed = Pos + Avail /\ Laid(msg)
    BY PosWithin, PosFacts, MessageFacts, EndsInside
<1>4. /\ k \in Fields(msg) => fed < msg.start[k + 1]
      /\ k \notin Fields(msg) => fed = msg.start[k]
      /\ pend = NoPend => Pos = msg.start[k]
      /\ pend # NoPend => k \in Fields(msg) /\ Pos = Behind(k, pendDone)
      /\ Pos >= msg.start[k]
    BY <1>1, EndsInside
<1>5. Short(Avail) /\ pc = "parsed"
    BY DEF Cut, Parsed
<1>6. ASSUME pend # NoPend
      PROVE  /\ k \in Fields(msg) /\ pendDone \in Nat
             /\ pendDone <= TotalIf(k \in msg.live, At(msg, k))
    <2>1. pend.k = k
        BY <1>1, <1>5, <1>6 DEF Located, Between
    <2>2. pendDone < TotalIf(k \in msg.live, At(msg, k)) /\ pendDone \in Nat
        BY <1>6, <2>1 DEF Cut, IInv, HalfDelivered
    <2>3. TotalIf(k \in msg.live, At(msg, k)) \in Nat
        <3>1. (k \in msg.live) \in BOOLEAN
            OBVIOUS
        <3>2. k \in 1..Len(msg.fields)
            BY <1>2, <1>4, <1>6
        <3>. QED  BY <3>1, <3>2, AtFacts, TotalIsNat
    <2>. QED  BY <1>4, <1>6, <2>2, <2>3
<1>7. HeldUpTo(msg, fed, l, Pos)
    <2>1. CASE pend = NoPend
        <3>1. k - 1 <= l
            BY <1>1, <1>2
        <3>. QED  BY <1>1, <1>3, <1>4, <2>1, <3>1, HeldToStart
    <2>2. CASE pend # NoPend
        <3>1. OnUnit(msg, k, Pos)
            BY <1>4, <1>6, <2>2, BehindUnit
        <3>2. k <= l
            BY <1>2, <1>6, <2>2
        <3>. QED  BY <1>3, <3>1, <3>2, HeldTo
    <2>. QED  BY <2>1, <2>2
<1>8. HeldNoMore(msg, fed, l, Pos)
    <2>1. CASE k \notin Fields(msg)
        <3>1. Pos = fed
            BY <1>1, <1>3, <1>4, <2>1
        <3>2. (Pos + 1)..fed = {}
            BY <1>3, <3>1
        <3>. QED  BY <3>2 DEF HeldNoMore
    <2>2. CASE k \in Fields(msg)
        <3>1. /\ At(msg, k).width \in Nat \ {0} /\ PayloadAt(msg, k) \in Nat
              /\ PayloadAt(msg, k) = msg.start[k] + Header(At(msg, k)) /\ Header(At(msg, k)) \in Nat
            <4>1. Header(At(msg, k)) \in Nat
                BY <1>3, <2>2, StartIsNat
            <4>. QED  BY <1>3, <2>2, <4>1, PayloadAtFacts DEF PayloadAt
        <3>2. CASE pend = NoPend
            <4>1. Avail = 0 \/ Avail < Header(At(msg, k))
                BY <1>1, <1>3, <1>5, <3>2 DEF Short, ItemLeft
            <4>2. fed <= PayloadAt(msg, k)
                BY <1>1, <1>3, <1>4, <3>1, <3>2, <4>1
            <4>. QED  BY <1>3, <1>4, <2>2, <4>2, StopsInside
        <3>3. CASE pend # NoPend /\ k \in msg.live
            <4>1. PICK w \in Nat \ {0} : w = At(msg, k).width /\ GrainIf(k \in msg.live, At(msg, k)) = w
                BY <3>1, <3>3 DEF GrainIf
            <4>2. PICK j \in Nat : j = pendDone
                BY <1>6, <3>3
            <4>3. Avail < w
                BY <1>1, <1>3, <1>5, <3>3, <4>1 DEF Short, ItemLeft
            <4>4. PICK z \in Nat : z = j * w /\ (j + 1) * w = z + w
                BY <4>1, <4>2
            <4>5. Pos = PayloadAt(msg, k) + z
                <5>1. Pos = Behind(k, j)
                    BY <1>4, <3>3, <4>2
                <5>2. Behind(k, j) = msg.start[k] + Header(At(msg, k)) + j * w
                    BY <4>1 DEF Behind
                <5>. QED  BY <3>1, <4>4, <5>1, <5>2
            <4>6. Pos >= PayloadAt(msg, k) + j * w /\ fed < PayloadAt(msg, k) + (j + 1) * w
                <5>1. PICK a \in Nat : a = PayloadAt(msg, k)
                    BY <3>1
                <5>2. Pos >= a + z /\ fed < a + (z + w)
                    <6>1. ASSUME NEW q \in Nat, NEW x \in Nat, x < w, q = a + z
                          PROVE  q >= a + z /\ q + x < a + (z + w)
                        BY <6>1
                    <6>2. Pos \in Nat /\ Avail \in Nat /\ fed = Pos + Avail /\ Avail < w /\ Pos = a + z
                        BY <1>3, <4>3, <4>5, <5>1
                    <6>. QED  BY <6>1, <6>2
                <5>. QED  BY <4>4, <5>1, <5>2
            <4>. QED  BY <1>3, <1>4, <2>2, <4>1, <4>6, StopsInside
        <3>4. CASE k \notin msg.live
            BY <1>3, <1>4, <2>2, <3>4, StopsInside
        <3>. QED  BY <3>2, <3>3, <3>4
    <2>. QED  BY <2>1, <2>2
<1>. QED  BY <1>2, <1>3, <1>7, <1>8, ValuesAre

\* What n of the units that are there take the parser to.
LEMMA UnitsWithin ==
    ASSUME IInv, Located, pc = "deliver", NEW n \in Nat, n <= Taken
    PROVE  /\ OnUnit(msg, cur.k, Behind(cur.k, pendDone + n))
           /\ Behind(cur.k, pendDone + n) \in Nat /\ Behind(cur.k, pendDone + n) <= fed
<1>1. PICK k \in Fields(msg) :
        /\ k = cur.k /\ Pos = Behind(k, pendDone)
        /\ Total = TotalIf(k \in msg.live, At(msg, k)) /\ Grain = GrainIf(k \in msg.live, At(msg, k))
    BY DeliverFacts DEF Current
<1>2. PICK a \in Nat, t \in Nat : /\ a = pendDone /\ t = Taken /\ a + t <= Total /\ Total \in Nat
                                  /\ t * Grain \in Nat /\ t * Grain <= Avail
    BY DeliverFacts, TakenFits
<1>3. PICK g \in Nat \ {0} : g = Grain
    <2>1. At(msg, k).width \in Nat \ {0}
        BY <1>1, AtFacts, MessageFacts DEF Fields
    <2>. QED  BY <1>1, <2>1 DEF GrainIf
<1>4. a + n <= Total /\ a + n \in Nat /\ Avail \in Nat /\ Pos \in Nat /\ fed \in Nat
    BY <1>2, MessageFacts, PosFacts
<1>5. PICK x \in Nat : x = n * g /\ x <= Avail
    <2>1. t * g \in Nat /\ t * g <= Avail
        BY <1>2, <1>3
    <2>2. t = n \/ n < t
        BY <1>2
    <2>3. n * g \in Nat /\ (n < t => n * g < t * g)
        BY <1>2, <1>3, PartIsLess
    <2>. QED  BY <1>4, <2>1, <2>2, <2>3
<1>6. OnUnit(msg, k, Behind(k, a + n))
    BY <1>1, <1>4, BehindUnit
<1>7. Behind(k, a + n) = Pos + x
    <2>1. PICK z \in Int : z = msg.start[k] + Header(At(msg, k))
        <3>1. msg.start[k] \in Nat
            BY PayloadAtFacts, MessageFacts
        <3>2. Header(At(msg, k)) \in Nat
            BY <1>1, AtFacts, MessageFacts DEF Fields
        <3>. QED  BY <3>1, <3>2
    <2>2. Behind(k, a + n) = z + (a + n) * g /\ Behind(k, a) = z + a * g
        BY <1>1, <1>3, <2>1 DEF Behind
    <2>3. z + (a + n) * g = (z + a * g) + n * g
        BY <1>2, <1>3, <2>1, UnitsAdd
    <2>. QED  BY <1>1, <1>2, <1>5, <2>2, <2>3
<1>8. Pos + Avail <= fed
    BY FedSoFar
<1>9. Behind(k, a + n) \in Nat /\ Behind(k, a + n) <= fed
    BY <1>4, <1>5, <1>7, <1>8
<1>. QED  BY <1>1, <1>2, <1>6, <1>9

\* The payload up to one byte begins the payload up to a later one.
LEMMA PayloadBegins ==
    ASSUME NEW m, Laid(m), NEW q \in Nat, NEW r \in Nat, q <= r, r <= Bytes(m)
    PROVE  D!Begins(PayloadTo(m)[q], PayloadTo(m)[r])
<1>1. PICK n, c, B, v, T :
        /\ n \in Nat /\ n = Bytes(m) /\ c = PayloadTo(m) /\ B = PayloadOf(m) /\ v = ItemsOf(m, n) /\ T = Item
        /\ Collects(c, n, B, v) /\ c \in [0..n -> Seq(T)]
    BY PayloadCollects
<1>2. v \in [1..n -> T]
    <2>1. n \in 0..Bytes(m)
        BY <1>1
    <2>. QED  BY <1>1, <2>1, ItemsAre
<1>3. CollectsInto(c, n, B, v, T)
    BY <1>1, <1>2 DEF CollectsInto
<1>4. n \in Nat /\ r <= n
    BY <1>1
<1>5. Len(c[q]) <= Len(c[r]) /\ c[q] = SubSeq(c[r], 1, Len(c[q]))
    BY <1>3, <1>4, CollectsMore
<1>. QED  BY <1>1, <1>5 DEF D!Begins

\* What a refused field has delivered lies between what was there before it and what
\* there is of it.
LEMMA PartDelivered ==
    ASSUME IInv, NEW k \in Fields(msg), NEW q \in Nat, OnUnit(msg, k, q), q <= fed
    PROVE  /\ D!Begins(Values(msg, fed, k - 1), PayloadTo(msg)[q])
           /\ D!Begins(PayloadTo(msg)[q], Values(msg, fed, k))
<1>1. Laid(msg) /\ fed \in 0..Bytes(msg) /\ fed \in Nat /\ Bytes(msg) \in Nat
    BY MessageFacts, PosWithin
<1>2. PICK l \in Nat : l = Len(msg.fields) /\ k \in 1..l
    BY MessageFacts DEF Fields
<1>3. PICK a \in Nat : a = msg.start[k] /\ a <= q
    BY <1>1, PayloadAtFacts DEF OnUnit
<1>4. Values(msg, fed, k - 1) = PayloadTo(msg)[a]
    <2>1. a \in 0..fed /\ k \in 1..(Len(msg.fields) + 1) /\ k - 1 \in Nat /\ k - 1 <= k - 1
        BY <1>1, <1>2, <1>3
    <2>2. HeldUpTo(msg, fed, k - 1, a)
        BY <1>1, <1>3, <2>1, HeldToStart
    <2>3. HeldNoMore(msg, fed, k - 1, a)
        BY <1>1, <1>3, <2>1, StopsBefore
    <2>. QED  BY <1>1, <2>1, <2>2, <2>3, ValuesAre
<1>5. D!Begins(PayloadTo(msg)[a], PayloadTo(msg)[q])
    <2>1. q <= Bytes(msg)
        BY <1>1
    <2>. QED  BY <1>1, <1>3, <2>1, PayloadBegins
<1>6. D!Begins(PayloadTo(msg)[q], Values(msg, fed, k))
    <2>1. q \in 0..fed /\ k \in Nat /\ k <= k
        BY <1>1, <1>2
    <2>2. HeldUpTo(msg, fed, k, q)
        BY <1>1, <2>1, HeldTo
    <2>. QED  BY <1>1, <2>1, <2>2, ValuesBegin DEF D!Begins
<1>. QED  BY <1>4, <1>5, <1>6

\* A refusal leaves in the destinations what came before the field, and maybe a part of it.
LEMMA BadValues ==
    ASSUME IInv, Located, got = PayloadTo(msg)[Pos], Site \in Fields(msg),
           RefuseSpan \/ RefuseHeader \/ RefuseWithheld \/ DeliverRefused \/ RefusedPayload
    PROVE  /\ D!Begins(Values(msg, fed, Site - 1), got')
           /\ D!Begins(got', Values(msg, fed, Site))
<1>1. PICK k \in Fields(msg) : k = Site
    OBVIOUS
<1>2. Laid(msg) /\ Pos \in Nat /\ Pos <= fed
    BY MessageFacts, PosFacts, PosWithin
<1>. SUFFICES \E q \in Nat : OnUnit(msg, k, q) /\ q <= fed /\ got' = PayloadTo(msg)[q]
    BY <1>1, PartDelivered
<1>3. CASE RefuseSpan \/ RefuseHeader \/ RefuseWithheld
    <2>1. pc = "loop" /\ got' = got
        BY <1>3 DEF RefuseSpan, RefuseHeader, RefuseWithheld, AtField
    <2>2. Pos = msg.start[k]
        BY <1>1, <2>1, LoopFacts
    <2>3. OnUnit(msg, k, Pos)
        <3>1. msg.start[k] \in Nat /\ msg.start[k + 1] \in Nat /\ PayloadAt(msg, k) \in Nat
              /\ msg.start[k] < PayloadAt(msg, k) /\ msg.start[k] < msg.start[k + 1]
            <4>1. k \in 1..Len(msg.fields) /\ Len(msg.fields) \in Nat
                BY MessageFacts DEF Fields
            <4>2. Size(At(msg, k)) \in Nat \ {0}
                BY <4>1, AtFacts
            <4>. QED  BY <1>2, <4>2, PayloadAtFacts, StartIsNat
        <3>. QED  BY <1>2, <2>2, <3>1 DEF OnUnit
    <2>. QED  BY <1>2, <2>1, <2>3
<1>4. CASE DeliverRefused
    <2>1. pc = "deliver" /\ got' = got
        BY <1>4 DEF DeliverRefused
    <2>2. cur.k = k /\ Pos = Behind(k, pendDone) /\ pendDone \in Nat
        BY <1>1, <2>1, DeliverFacts
    <2>3. OnUnit(msg, k, Pos)
        <3>1. pendDone <= TotalIf(k \in msg.live, At(msg, k))
            BY <2>1, <2>2, DeliverFacts DEF Current
        <3>. QED  BY <2>2, <3>1, BehindUnit
    <2>. QED  BY <1>2, <2>1, <2>3
<1>5. CASE RefusedPayload
    <2>1. DeliverPayload /\ pc = "deliver"
        BY <1>5 DEF RefusedPayload, DeliverPayload
    <2>2. cur.k = k /\ Taken \in Nat
        BY <1>1, <2>1, DeliverFacts, TakenFits
    <2>3. PICK n \in 0..Taken : got' = PayloadTo(msg)[Behind(k, pendDone + n)]
        BY <2>1, <2>2, DeliverGot
    <2>4. n \in Nat /\ n <= Taken
        BY <2>2, <2>3
    <2>5. OnUnit(msg, k, Behind(k, pendDone + n)) /\ Behind(k, pendDone + n) \in Nat
          /\ Behind(k, pendDone + n) <= fed
        BY <2>1, <2>2, <2>4, UnitsWithin
    <2>. QED  BY <2>3, <2>5
<1>. QED  BY <1>3, <1>4, <1>5

------------------------------------------------------------------------------
(* What has been answered. *)

\* Between two feeds the answer is about all that was fed; during one it is an older
\* one, and it was no refusal.
Answered ==
    /\ answer.seen \in Nat
    /\ IF pc = "idle"
       THEN /\ answer.seen = fed
            /\ answer.verdict = IF terminal # "None" THEN terminal
                                ELSE IF AtBoundary THEN "None" ELSE "Incomplete"
       ELSE answer.seen < fed /\ answer.verdict \in {"None", "Incomplete"} /\ terminal = "None"

\* A feed that ends well says whether it ends at a boundary.
LEMMA CarryAnswers ==
    ASSUME IInv, Located, Cut, NEW e,
           \/ KeepCarrying /\ e = "Incomplete"
           \/ Stash /\ e = IF incomplete \/ Rest # <<>> THEN "Incomplete" ELSE "None",
           Carry(e), Len(window) = held + Len(chunk)
    PROVE  e = IF AtBoundary' THEN "None" ELSE "Incomplete"
<1>1. AtBoundary' <=> Rest = <<>> /\ suspendDepth < 0
    BY DEF AtBoundary, Carry
<1>2. pc = "parsed"
    BY DEF KeepCarrying, Stash, Parsed
<1>3. suspendDepth < 0 <=> ~incomplete
    <2>1. Len(OpenHere) \in Nat
        <3>1. OpenHere \in Seq(Nat)
            BY SiteFacts
        <3>. QED  BY <3>1
    <2>. QED  BY <1>2, <2>1 DEF Located, Depths, Going
<1>4. CASE KeepCarrying /\ e = "Incomplete"
    <2>1. p = 0 /\ held > 0
        BY <1>4, PosFacts, MessageFacts DEF KeepCarrying, Unparsed, Cut
    <2>2. Rest # <<>>
        <3>1. Rest = LastFed(Avail) /\ Avail \in Nat /\ Avail <= fed /\ fed \in Nat /\ Len(Rest) = Avail
            BY RestIsTail, MessageFacts
        <3>2. Avail > 0
            BY <2>1, PosFacts DEF Avail
        <3>3. Len(<<>>) = 0
            OBVIOUS
        <3>. QED  BY <3>1, <3>2, <3>3
    <2>. QED  BY <1>1, <1>4, <2>2
<1>5. CASE Stash /\ e = IF incomplete \/ Rest # <<>> THEN "Incomplete" ELSE "None"
    BY <1>1, <1>3, <1>5
<1>. QED  BY <1>4, <1>5

\* A refusal answers for all bytes fed.
LEMMA RefusedAnswers ==
    ASSUME IInv, NEW e, e # "None", Refused(e)
    PROVE  Answered'
<1>1. pc' = "idle" /\ answer' = [seen |-> fed, verdict |-> e, values |-> got'] /\ terminal' = e /\ fed' = fed
    BY DEF Refused, Return, input
<1>2. fed \in Nat
    BY MessageFacts
<1>. QED  BY <1>1, <1>2 DEF Answered

\* Every step keeps the answer to what it is about.
LEMMA StepAnswers == IInv /\ PInv /\ SInv /\ VInv /\ Answered /\ [Next \/ AnyReset]_vars => Answered'
<1>. SUFFICES ASSUME IInv, PInv, SInv, VInv, Answered, [Next \/ AnyReset]_vars PROVE Answered'
    OBVIOUS
<1>1. fed \in Nat /\ Bytes(msg) \in Nat
    BY MessageFacts
<1>2. CASE Reset \/ AnyReset
    <2>1. PICK next \in Decodings : ResetTo(next)
        BY <1>2 DEF Reset, AnyReset, IInv, InputTyped
    <2>2. /\ pc' = "idle" /\ fed' = 0 /\ terminal' = "None" /\ carry' = <<>> /\ suspendDepth' = -1
          /\ answer' = [seen |-> 0, verdict |-> "None", values |-> <<>>]
        BY <2>1 DEF ResetTo
    <2>3. AtBoundary'
        BY <2>2 DEF AtBoundary
    <2>. QED  BY <2>2, <2>3 DEF Answered
<1>3. CASE UNCHANGED vars
    <2>1. UNCHANGED <<answer, pc, fed, terminal, carry, suspendDepth>>
        BY <1>3 DEF vars, input, resumeVars
    <2>. QED  BY <2>1 DEF Answered, AtBoundary
<1>4. CASE FeedNothing
    <2>1. UNCHANGED <<pc, fed, terminal, carry, suspendDepth>> /\ pc = "idle"
        BY <1>4 DEF FeedNothing, input, resumeVars
    <2>2. PICK v : /\ v = IF terminal # "None" THEN terminal ELSE IF AtBoundary THEN "None" ELSE "Incomplete"
                   /\ answer' = [answer EXCEPT !.verdict = v]
        BY <1>4 DEF FeedNothing
    <2>3. PICK s, b, c : answer = [seen |-> s, verdict |-> b, values |-> c]
        BY DEF IInv, VerdictTyped
    <2>4. answer' = [seen |-> s, verdict |-> v, values |-> c]
        BY <2>2, <2>3
    <2>5. answer'.seen = answer.seen /\ answer'.verdict = v
        BY <2>3, <2>4
    <2>. QED  BY <2>1, <2>2, <2>5 DEF Answered, AtBoundary
<1>5. CASE \E n \in 1..Bytes(msg) : Feed(n)
    <2>1. PICK n \in Nat \ {0} : Feed(n)
        BY <1>1, <1>5
    <2>2. /\ pc = "idle" /\ terminal = "None" /\ UNCHANGED <<answer, terminal>> /\ fed' = fed + n
          /\ pc' # "idle"
        BY <2>1 DEF Feed, OpenWindow
    <2>. QED  BY <1>1, <2>1, <2>2 DEF Answered
<1>6. CASE KeepCarrying \/ Stash
    <2>1. terminal = "None" /\ Located /\ Cut
        BY <1>6 DEF SInv, PInv, VInv, KeepCarrying, Stash, Parsed
    <2>2. PICK e : /\ \/ KeepCarrying /\ e = "Incomplete"
                      \/ Stash /\ e = IF incomplete \/ Rest # <<>> THEN "Incomplete" ELSE "None"
                   /\ Carry(e) /\ Len(window) = held + Len(chunk)
        BY <1>6, <2>1, KeepsCarrying, Stashes, AllInWindow
    <2>3. e = IF AtBoundary' THEN "None" ELSE "Incomplete"
        BY <2>1, <2>2, CarryAnswers
    <2>4. /\ pc' = "idle" /\ fed' = fed /\ terminal' = "None"
          /\ answer' = [seen |-> fed, verdict |-> e, values |-> got']
        BY <2>1, <2>2 DEF Carry, Return, input
    <2>. QED  BY <1>1, <2>3, <2>4 DEF Answered
<1>7. CASE ParseTheRest \/ Descend \/ Resume \/ LeaveLevel \/ WindowEnds \/ HeaderCut \/ SequenceOver
            \/ Accept \/ DeliverSequence
            \/ (DeliverPayload /\ ~(Over /\ (Faulty \/ Invalidated)))
    <2>1. UNCHANGED <<answer, fed, terminal>> /\ pc # "idle" /\ pc' # "idle"
        BY <1>7 DEF ParseTheRest, Parsed, OpenWindow, Descend, OpenLevel, Resume, LeaveLevel,
                    WindowEnds, SuspendAtBoundary, Leaving, HeaderCut, AtField, SequenceOver,
                    Accept, DeliverSequence, DeliverPayload, input
    <2>. QED  BY <2>1 DEF Answered
<1>8. CASE RefuseSpan \/ RefuseHeader \/ RefuseWithheld \/ DeliverRefused
    BY <1>8, RefusalsLatch, RefusedAnswers
<1>9. CASE DeliverPayload /\ Over /\ (Faulty \/ Invalidated)
    <2>1. Refused("InvalidMessage")
        BY <1>9 DEF DeliverPayload
    <2>. QED  BY <2>1, RefusedAnswers
<1>. QED  BY <1>2, <1>3, <1>4, <1>5, <1>6, <1>7, <1>8, <1>9 DEF Next, ParseStep

\* The first answer is about no byte.
LEMMA InitAnswers == Init => Answered
BY DEF Init, Answered, AtBoundary

------------------------------------------------------------------------------
(* Every step of the decoder is one of what it promises, or none. *)

\* A feed that ends well.
LEMMA GoodFeed ==
    ASSUME IInv, PInv, VInv, GotSoFar, Answered, terminal = "None", KeepCarrying \/ Stash
    PROVE  D!Feed(fed - answer.seen)
<1>1. /\ Located /\ Cut /\ Passed /\ got = PayloadTo(msg)[Pos] /\ pc # "idle"
      /\ UNCHANGED <<skipped, got>> /\ fed \in Nat /\ fed <= Bytes(msg) /\ Bytes(msg) \in Nat
    BY MessageFacts, PosWithin DEF PInv, VInv, GotSoFar, KeepCarrying, Stash, Parsed
<1>2. PICK e : \/ KeepCarrying /\ e = "Incomplete"
               \/ Stash /\ e = IF incomplete \/ Rest # <<>> THEN "Incomplete" ELSE "None"
    OBVIOUS
<1>3. /\ Answer(msg, fed) = [verdict |-> e, faulty |-> 0]
      /\ Carry(e) /\ Len(window) = held + Len(chunk) /\ Parsed
    BY <1>1, <1>2, GoodAnswer
<1>4. Values(msg, fed, Len(msg.fields)) = got'
    BY <1>1, <1>3, GoodValues
<1>5. answer' = [seen |-> fed, verdict |-> e, values |-> got'] /\ msg' = msg
    BY <1>3 DEF Carry, Return, input
<1>6. answer'.seen = fed /\ answer'.verdict = e /\ answer'.values = got'
    BY <1>5
<1>7. answer.verdict \in {"None", "Incomplete"} /\ answer.seen \in Nat /\ answer.seen < fed
    BY <1>1 DEF Answered
<1>8. answer.seen + (fed - answer.seen) = fed
    BY <1>1, <1>7
<1>9. Answer(msg, fed).verdict = e /\ Answer(msg, fed).faulty = 0
    BY <1>3
<1>. QED  BY <1>1, <1>4, <1>5, <1>6, <1>7, <1>8, <1>9 DEF D!Feed

\* One that ends in a refusal.
LEMMA BadFeed ==
    ASSUME IInv, PInv, SInv, VInv, GotSoFar, Answered, terminal = "None",
           RefuseSpan \/ RefuseHeader \/ RefuseWithheld \/ DeliverRefused \/ RefusedPayload
    PROVE  D!Feed(fed - answer.seen)
<1>1. /\ Located /\ Passed /\ got = PayloadTo(msg)[Pos] /\ pc # "idle"
      /\ fed \in Nat /\ fed <= Bytes(msg) /\ Bytes(msg) \in Nat
    BY MessageFacts, PosWithin DEF PInv, VInv, GotSoFar, RefuseSpan, RefuseHeader, RefuseWithheld,
            AtField, DeliverRefused, RefusedPayload, DeliverPayload
<1>2. PICK e : \E i \in 1..11 :
            /\ Refused(e) /\ e = Rules(msg, Site, msg.budget)[i].error
            /\ Site \in Fields(msg) /\ Applies(msg, Site, i) /\ Passes(msg, Site, i - 1)
            /\ msg.start[Site] + ShownBy(At(msg, Site), i) <= fed
    BY RefusalRule
<1>3. Answer(msg, fed) = [verdict |-> e, faulty |-> Site] /\ Site \in Fields(msg) /\ Refused(e)
    BY <1>1, <1>2, BadAnswer
<1>4. /\ D!Begins(Values(msg, fed, Site - 1), got')
      /\ D!Begins(got', Values(msg, fed, Site))
    BY <1>1, <1>3, BadValues
<1>5. answer' = [seen |-> fed, verdict |-> e, values |-> got'] /\ msg' = msg
    BY <1>3 DEF Refused, Return, input
<1>6. answer'.seen = fed /\ answer'.verdict = e /\ answer'.values = got'
    BY <1>5
<1>7. answer.verdict \in {"None", "Incomplete"} /\ answer.seen \in Nat /\ answer.seen < fed
    BY <1>1 DEF Answered
<1>8. answer.seen + (fed - answer.seen) = fed
    BY <1>1, <1>7
<1>9. Answer(msg, fed).verdict = e /\ Answer(msg, fed).faulty = Site /\ Site # 0
    BY <1>3 DEF Fields
<1>. QED  BY <1>1, <1>4, <1>5, <1>6, <1>7, <1>8, <1>9 DEF D!Feed

\* Every step of the decoder is one of the promise or leaves what it is about alone.
LEMMA StepDecodes ==
    IInv /\ PInv /\ SInv /\ VInv /\ GotSoFar /\ Answered /\ [Next]_vars => [D!Next]_(D!vars)
<1>. SUFFICES ASSUME IInv, PInv, SInv, VInv, GotSoFar, Answered, [Next]_vars
              PROVE  D!Next \/ UNCHANGED D!vars
    OBVIOUS
<1>1. ASSUME UNCHANGED <<msg, answer>> PROVE UNCHANGED D!vars
    BY <1>1 DEF D!vars
<1>2. ASSUME D!Feed(fed - answer.seen), pc # "idle" PROVE D!Next
    <2>1. answer.seen \in Nat /\ answer.seen < fed /\ fed \in Nat /\ fed <= Bytes(msg)
          /\ Bytes(msg) \in Nat
        BY <1>2, MessageFacts, PosWithin DEF Answered
    <2>2. fed - answer.seen \in 1..Bytes(msg)
        BY <2>1
    <2>. QED  BY <1>2, <2>2 DEF D!Next
<1>3. CASE UNCHANGED vars
    BY <1>1, <1>3 DEF vars, input
<1>4. CASE Reset
    <2>1. answer' = [seen |-> 0, verdict |-> "None", values |-> <<>>] /\ msg' = msg
        BY <1>4 DEF Reset, ResetTo
    <2>2. answer'.seen = 0 /\ answer'.verdict = "None" /\ answer'.values = <<>>
        BY <2>1
    <2>. QED  BY <2>1, <2>2 DEF D!Next, D!Reset
<1>5. CASE FeedNothing
    <2>1. UNCHANGED msg /\ pc = "idle"
        BY <1>5 DEF FeedNothing, input
    <2>2. answer' = [answer EXCEPT !.verdict = answer.verdict]
        BY <1>5, <2>1 DEF FeedNothing, Answered
    <2>3. PICK s, b, c : answer = [seen |-> s, verdict |-> b, values |-> c]
        BY DEF IInv, VerdictTyped
    <2>4. answer' = answer
        BY <2>2, <2>3
    <2>. QED  BY <1>1, <2>1, <2>4
<1>6. CASE \E n \in 1..Bytes(msg) : Feed(n)
    BY <1>1, <1>6 DEF Feed
<1>7. CASE KeepCarrying \/ Stash
    <2>1. terminal = "None" /\ pc # "idle"
        BY <1>7 DEF SInv, KeepCarrying, Stash, Parsed
    <2>. QED  BY <1>2, <1>7, <2>1, GoodFeed
<1>8. CASE ParseTheRest \/ Descend \/ Resume \/ LeaveLevel \/ WindowEnds \/ HeaderCut \/ SequenceOver
            \/ Accept \/ DeliverSequence
            \/ (DeliverPayload /\ ~RefusedPayload)
    <2>1. UNCHANGED <<msg, answer>>
        BY <1>8 DEF ParseTheRest, Descend, Resume, LeaveLevel, WindowEnds, HeaderCut, SequenceOver,
                    Accept, DeliverSequence, DeliverPayload, RefusedPayload, input
    <2>. QED  BY <1>1, <2>1
<1>9. CASE RefuseSpan \/ RefuseHeader \/ RefuseWithheld \/ DeliverRefused \/ RefusedPayload
    <2>1. pc # "idle"
        BY <1>9 DEF RefuseSpan, RefuseHeader, RefuseWithheld, AtField, DeliverRefused,
                    RefusedPayload, DeliverPayload
    <2>2. terminal = "None"
        BY <2>1 DEF SInv
    <2>. QED  BY <1>2, <1>9, <2>1, <2>2, BadFeed
<1>. QED  BY <1>3, <1>4, <1>5, <1>6, <1>7, <1>8, <1>9 DEF Next, ParseStep

\* However a message is cut, each feed() answers for the bytes so far what a decode of
\* just these bytes in one piece answers, with the same values, for every alphabet of
\* fields, every message and every bound (IStreamImpl::feed and reset).
THEOREM DecodesAsOneBlock == Spec => ImplementsDecoder
<1>1. Init => D!Init
    BY DEF Init, D!Init
<1>2. IInv /\ PInv /\ SInv /\ VInv /\ GotSoFar /\ Answered /\ [Next]_vars
        => PInv' /\ SInv' /\ VInv' /\ GotSoFar' /\ Answered'
    BY StepStays, StepSpans, StepFlawless, StepGot, StepAnswers
<1>3. Init => PInv /\ SInv /\ VInv /\ GotSoFar /\ Answered
    BY InitIsLocated, InitSpans, InitFlawless, InitGot, InitAnswers
<1>. QED  BY <1>1, <1>2, <1>3, StepDecodes, DecoderInvariant, PTL DEF Spec, D!Spec, ImplementsDecoder
=============================================================================
