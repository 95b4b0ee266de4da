------------------------------ MODULE IStream ------------------------------
(* The streaming decoder of include/sofab/sofab.hpp: class IStreamImpl (lines  *)
(* 2918-6118), fed a message in chunks cut anywhere.                           *)
(*                                                                             *)
(* feed() parses one or two windows: what it carried over stitched to the next *)
(* bytes, then the rest of the chunk.  Within a window the C++ calls nest as   *)
(* the sequences do (dispatchLevel, read, skipSequence), and returning from    *)
(* feed() unwinds them; stack holds the locals of the open calls.  What must   *)
(* survive from one feed() to the next is in the variables below it.  A byte   *)
(* is its number in the message, so that a byte lost, repeated or moved shows. *)
(*                                                                             *)
(* A refusal stops every loop of the parser and latches the verdict, and only  *)
(* reset() leaves that state: what the unwinding calls still store then is     *)
(* never read, and Refused unwinds in one step.                                *)
EXTENDS FieldStream

CONSTANT CAP_NEED_MAX     \* no payload announces more than that

ASSUME CapAssumption ==
    /\ CAP_NEED_MAX \in Nat
    /\ \A x \in DOMAIN Alphabet : Alphabet[x].units * Alphabet[x].width <= CAP_NEED_MAX

VARIABLES
    msg,            \* the message and, of the decoder, maxBufferedField_
    fed,            \* bytes handed to feed() so far
    chunk,          \* the bytes of the running feed() from cur on
    held,           \* how many bytes of the window were carried over
    window, p,      \* the bytes being parsed, and how many of them are consumed
    pc,             \* where the parser stands
    stack,          \* the open calls: one frame per open sequence
    cur,            \* the field being delivered
    incomplete,     \* incomplete_
    carry,          \* carry_, carryLen_
    suspendDepth,   \* suspendDepth_, -1 when nothing is suspended
    replay,         \* replay_
    path,           \* pathId_ and pathSkip_ by depth
    pend,           \* pend_, pendId_ ... pendSkip_: the half-delivered field
    pendDone,       \* pendDone_: payload already taken
    spanCarry, spanBase, spanSkipped,   \* the span of the current top-level field
    spanSkip,       \* inside a skipped sequence
    capInert,       \* capInert_
    elem,           \* the collector whose element bounds are armed, or 0
    terminal,       \* terminal_
    skipped,        \* skipped_
    got,            \* payload bytes in the destinations, in order of arrival
    answer          \* what the last feed() returned, for which bytes, with what values

input == <<msg, fed>>
budget == msg.budget
windowVars == <<chunk, held, window, capInert>>
resumeVars == <<carry, suspendDepth, replay, path, pend>>
spanVars == <<spanCarry, spanBase, spanSkipped>>
levelVars == <<stack, spanSkip, elem>>
vars == <<input, windowVars, p, pc, cur, incomplete, resumeVars, pendDone, spanVars,
          levelVars, terminal, skipped, got, answer>>

Nowhere == -1
NoField == [k |-> 0, skip |-> FALSE, from |-> Nowhere]
NoPend == [k |-> 0, skip |-> FALSE]

\* seqDepth_ counts the frames: read() and skipSequence() restore it on return.
seqDepth == Len(stack)
Rest == SubSeq(window, p + 1, Len(window))
Avail == Len(window) - p
AtBoundary == carry = <<>> /\ suspendDepth < 0

D == INSTANCE Decoder WITH Messages <- Decodings, seen <- answer.seen, verdict <- answer.verdict,
                           values <- answer.values

------------------------------------------------------------------------------
(* feed *)

Init ==
    /\ msg \in Decodings /\ fed = 0
    /\ chunk = <<>> /\ held = 0 /\ window = <<>> /\ p = 0 /\ capInert = FALSE
    /\ pc = "idle" /\ stack = <<>> /\ cur = NoField /\ incomplete = FALSE
    /\ carry = <<>> /\ suspendDepth = -1 /\ replay = FALSE
    /\ path = [d \in 0..(MAX_DEPTH - 1) |-> NoPend]
    /\ pend = NoPend /\ pendDone = 0
    /\ spanCarry = 0 /\ spanBase = 0 /\ spanSkipped = 0 /\ spanSkip = FALSE
    /\ elem = 0 /\ terminal = "None" /\ skipped = 0
    /\ got = <<>> /\ answer = [seen |-> 0, verdict |-> "None", values |-> <<>>]

Return(e) ==
    /\ pc' = "idle"
    /\ answer' = [seen |-> fed, verdict |-> e, values |-> got']
    /\ chunk' = <<>> /\ held' = 0 /\ window' = <<>> /\ p' = 0 /\ cur' = NoField
    /\ spanBase' = 0 /\ capInert' = FALSE

\* A refusal, of the category that latchTerminal picks.
Refused(e) ==
    /\ terminal' = e
    /\ stack' = <<>> /\ spanSkip' = FALSE /\ elem' = 0 /\ replay' = FALSE
    /\ Return(e)
    /\ UNCHANGED <<input, incomplete, carry, suspendDepth, path, pend, pendDone, spanCarry,
                   spanSkipped>>

\* The budget tests cannot fire in a window of n bytes, or so capCannotFire finds.
UncarriedCap(carried, n) == budget - n >= CAP_NEED_MAX
CapCannotFire(carried, n) == budget - (carried + n) >= CAP_NEED_MAX

\* parseWindow up to its call of parseTopLevel.
OpenWindow(w, h, c, carried) ==
    /\ window' = w /\ held' = h /\ chunk' = c
    /\ p' = 0 /\ spanBase' = 0 /\ incomplete' = FALSE
    /\ replay' = (suspendDepth >= 0)
    /\ capInert' = CapCannotFire(carried, Len(w))
    /\ pc' = IF replay' THEN "enter" ELSE "loop"

Feed(n) ==
    /\ pc = "idle" /\ terminal = "None" /\ fed + n <= Bytes(msg)
    /\ fed' = fed + n
    /\ LET new == [i \in 1..n |-> fed + i]
           take == Min({CARRY_CAP - Len(carry), n})
       IN OpenWindow(IF carry = <<>> THEN new ELSE carry \o SubSeq(new, 1, take),
                     Len(carry), new, spanCarry)
    /\ carry' = <<>>
    /\ UNCHANGED <<msg, cur, suspendDepth, path, pend, pendDone, spanCarry,
                   spanSkipped, levelVars, terminal, skipped, got, answer>>

\* A feed() of nothing, or one that comes after a refusal, only answers.
FeedNothing ==
    /\ pc = "idle"
    /\ answer' = [answer EXCEPT !.verdict =
                    IF terminal # "None" THEN terminal
                    ELSE IF AtBoundary THEN "None" ELSE "Incomplete"]
    /\ UNCHANGED <<input, windowVars, p, pc, cur, incomplete, resumeVars, pendDone,
                   spanVars, levelVars, terminal, skipped, got>>

\* reset() starts the next message; of all that a decode leaves behind only pathId_
\* and pathSkip_ keep what they had.
ResetTo(next) ==
    /\ pc = "idle" /\ msg' = next
    /\ fed' = 0 /\ carry' = <<>> /\ suspendDepth' = -1 /\ replay' = FALSE
    /\ pend' = NoPend /\ pendDone' = 0
    /\ spanCarry' = 0 /\ spanBase' = 0 /\ spanSkipped' = 0 /\ spanSkip' = FALSE
    /\ elem' = 0 /\ stack' = <<>> /\ incomplete' = FALSE
    /\ terminal' = "None" /\ skipped' = 0
    /\ got' = <<>> /\ answer' = [seen |-> 0, verdict |-> "None", values |-> <<>>]
    /\ UNCHANGED <<windowVars, p, pc, cur, path>>
Reset == ResetTo(msg)

\* The end of parseWindow, and what feed() does with the bytes it left: a stitched
\* window is followed by the rest of the chunk, and the last leftover is stashed.
Parsed == pc = "parsed"
ForgetfulSpan == IF incomplete THEN p - spanBase ELSE spanCarry
SpanSoFar == IF incomplete THEN spanCarry + p - spanBase ELSE spanCarry
AfterAll == SubSeq(chunk, p + 1, Len(chunk))
AfterHeld == SubSeq(chunk, p - held + 1, Len(chunk))
Unparsed == held > 0 /\ p < held

Carry(e) ==
    /\ carry' = Rest /\ spanCarry' = SpanSoFar /\ replay' = FALSE
    /\ Return(e)
    /\ UNCHANGED <<input, incomplete, suspendDepth, path, pend, pendDone, spanSkipped,
                   levelVars, terminal>>

\* The stitched window did not even hold the item it was stitched for.
KeepCarrying ==
    /\ Parsed /\ Unparsed
    /\ UNCHANGED <<skipped, got>>
    /\ IF Len(window) - held < Len(chunk) THEN Refused("InvalidMessage")
       ELSE Carry("Incomplete")

ParseTheRest ==
    /\ Parsed /\ held > 0 /\ p >= held
    /\ AfterHeld # <<>>
    /\ spanCarry' = SpanSoFar
    /\ OpenWindow(AfterHeld, 0, AfterHeld, spanCarry')
    /\ UNCHANGED <<input, cur, carry, suspendDepth, path, pend, pendDone, spanSkipped,
                   levelVars, terminal, skipped, got, answer>>

Stash ==
    /\ Parsed /\ ~Unparsed
    /\ held > 0 => AfterHeld = <<>>
    /\ UNCHANGED <<skipped, got>>
    /\ IF Len(Rest) > CARRY_CAP THEN Refused("InvalidMessage")
       ELSE Carry(IF incomplete \/ Rest # <<>> THEN "Incomplete" ELSE "None")

------------------------------------------------------------------------------
(* Suspending and resuming. *)

InSkip == stack # <<>> /\ stack[seqDepth].skip

\* Where a level that is left suspended returns to.
LoopAgain == IF stack = <<>> THEN "loop" ELSE "return"
Leaving == IF stack = <<>> THEN "parsed" ELSE "return"

\* The next bytes are not here yet and no field is half-delivered.
SuspendAtBoundary ==
    /\ incomplete' = TRUE
    /\ suspendDepth' = seqDepth /\ pend' = NoPend
    /\ pc' = Leaving

\* read() of a nested message or skipSequence up to the loop of dispatchLevel;
\* levelEntry lets a level that nothing is suspended in go straight there.
OpenLevel(k, skip, from) ==
    /\ stack' = Append(stack, [k |-> k, skip |-> skip, from |-> from,
                               span |-> spanSkip, elem |-> elem])
    /\ spanSkip' = (spanSkip \/ skip)
    /\ elem' = IF skip THEN 0 ELSE k
    /\ pc' = IF replay THEN "enter" ELSE "loop"

\* levelEntry above the suspended level: the next id of the path is entered again.
Descend ==
    /\ pc = "enter" /\ replay /\ seqDepth < suspendDepth
    /\ LET at == path[seqDepth] IN OpenLevel(at.k, at.skip, IF at.skip THEN p ELSE Nowhere)
    /\ UNCHANGED <<input, windowVars, p, cur, incomplete, resumeVars, pendDone, spanVars,
                   terminal, skipped, got, answer>>

\* levelEntry on the suspended level: its half-delivered field goes on.
Resume ==
    /\ pc = "enter" /\ replay /\ seqDepth >= suspendDepth
    /\ replay' = FALSE /\ suspendDepth' = -1
    /\ IF pend # NoPend
       THEN pc' = "deliver" /\ cur' = [k |-> pend.k, skip |-> pend.skip, from |-> p]
       ELSE pc' = "loop" /\ cur' = cur
    /\ UNCHANGED <<input, windowVars, p, incomplete, carry, path, pend, pendDone, spanVars,
                   levelVars, terminal, skipped, got, answer>>

\* What suspendHere notes of a level that a deeper one is suspended in.
ReadAgain(frame) == [k |-> frame.k, skip |-> FALSE]
EnterAgain(frame) == [k |-> frame.k, skip |-> frame.skip]

\* The call for a level returns: the sequence is over, or the parse is suspended in
\* it and the level around it notes what to enter again.
LeaveLevel ==
    /\ pc = "return"
    /\ LET frame == stack[seqDepth] IN
        /\ stack' = SubSeq(stack, 1, seqDepth - 1)
        /\ spanSkip' = frame.span /\ elem' = frame.elem
        /\ spanSkipped' = IF frame.from = Nowhere THEN spanSkipped
                          ELSE spanSkipped + (p - frame.from)
        /\ path' = IF incomplete THEN [path EXCEPT ![seqDepth - 1] = EnterAgain(frame)]
                   ELSE path
        /\ pc' = IF ~incomplete THEN "loop" ELSE IF seqDepth = 1 THEN "parsed" ELSE "return"
    /\ UNCHANGED <<input, windowVars, p, cur, incomplete, carry, suspendDepth, replay, pend,
                   pendDone, spanCarry, spanBase, terminal, skipped, got, answer>>

------------------------------------------------------------------------------
(* One turn of the loop of dispatchLevel or parseTopLevel. *)

Spans == spanCarry + p - spanBase
SpannedLive == Less(Spans, spanSkipped)

\* The window is used up: a level is suspended, the top one is done.
WindowEnds ==
    /\ pc = "loop" /\ Avail = 0
    /\ IF stack # <<>> THEN SuspendAtBoundary
       ELSE pc' = "parsed" /\ UNCHANGED <<incomplete, suspendDepth, pend>>
    /\ UNCHANGED <<input, windowVars, p, cur, carry, replay, path, pendDone, spanVars,
                   levelVars, terminal, skipped, got, answer>>

\* A nested field is measured against the budget before its header is read.
OverBudget == stack # <<>> /\ ~capInert /\ ~spanSkip /\ SpannedLive > budget
AtField == pc = "loop" /\ Avail > 0 /\ ~OverBudget

RefuseSpan ==
    /\ pc = "loop" /\ Avail > 0 /\ OverBudget
    /\ UNCHANGED <<skipped, got>>
    /\ Refused("LimitExceeded")

This == msg.owner[window[p + 1]]
TagRead(f) == Avail >= f.tag
AnyHeader(f) == TRUE
OneByteMore(f) == Avail > Header(f)
HeaderRead(f) == Avail >= Header(f)
WireOf(type) == IF type \in Fixlen THEN "fixlen" ELSE type

\* A bound that is the last index instead of the length.
IndexFarOver(f) ==
    elem # 0 /\ f.type # "end" /\ \E b \in IndexBounds(At(msg, elem)) : f.id > b

\* beginField's test of the element index, and of the wire type that comes first.
IndexOver(f) ==
    elem # 0 /\ f.type # "end" /\ \E b \in IndexBounds(At(msg, elem)) : f.id >= b
OtherWire(f) == IndexOver(f) /\ WireOf(f.type) # WireOf(At(msg, elem).elem)
OtherType(f) == IndexOver(f) /\ f.type # At(msg, elem).elem
SkipCount(f) == IF OtherWire(f) THEN 1 ELSE 0

RefusedAtTag(f) ==
    \/ f.fault = "tag"
    \/ f.type = "end" /\ stack = <<>>
    \/ IndexOver(f) /\ ~OtherWire(f) /\ f.type \notin Fixlen
RefusedBehindIt(f) ==
    \/ f.fault = "meta"
    \/ IndexOver(f) /\ ~OtherType(f)

\* The top level starts a new span with each field; its budget test comes after the
\* header and, where the header announces a size, after the handler was asked.
StartsSpan ==
    IF stack = <<>> THEN spanCarry' = 0 /\ spanBase' = p /\ spanSkipped' = 0
    ELSE UNCHANGED spanVars

\* The header is cut: the parse backs up to its start.
HeaderCut ==
    /\ AtField
    /\ LET f == At(msg, This) IN
        /\ IF TagRead(f) THEN ~RefusedAtTag(f) /\ ~HeaderRead(f) ELSE TRUE
        /\ skipped' = skipped + IF TagRead(f) THEN SkipCount(f) ELSE 0
    /\ StartsSpan
    /\ SuspendAtBoundary
    /\ UNCHANGED <<input, windowVars, p, cur, carry, replay, path, pendDone, levelVars,
                   terminal, got, answer>>

RefuseHeader ==
    /\ AtField
    /\ LET f == At(msg, This) IN
        /\ \/ TagRead(f) /\ RefusedAtTag(f)
           \/ HeaderRead(f) /\ ~RefusedAtTag(f) /\ RefusedBehindIt(f)
        /\ skipped' = skipped + IF f.fault = "tag" THEN 0 ELSE SkipCount(f)
        /\ got' = got
        /\ Refused(IF /\ IndexOver(f) /\ f.fault # "tag"
                      /\ f.fault = "meta" => RefusedAtTag(f)
                   THEN IndexError(At(msg, elem), f.id) ELSE "InvalidMessage")

SequenceOver ==
    /\ AtField /\ stack # <<>>
    /\ LET f == At(msg, This) IN
        /\ f.type = "end" /\ TagRead(f) /\ ~RefusedAtTag(f)
        /\ p' = p + f.tag
    /\ pc' = "return"
    /\ UNCHANGED <<input, windowVars, cur, incomplete, resumeVars, pendDone, spanVars,
                   levelVars, terminal, skipped, got, answer>>

WellFormed(f) ==
    HeaderRead(f) /\ ~RefusedAtTag(f) /\ ~RefusedBehindIt(f) /\ f.type # "end"
Declining(f) == f.use \in {"unknown", "mismatch"}
Withheld(f) == stack = <<>> /\ ~capInert /\ Exceeds(Header(f), f, budget)

\* The announced size exceeds the budget.  The handler is asked with the payload
\* withheld: a schema bound of its own comes first, a capacity does not.
RefuseWithheld ==
    /\ AtField
    /\ LET f == At(msg, This) IN
        /\ WellFormed(f) /\ Withheld(f)
        /\ ~(f.type \in Sized /\ Declining(f))
        /\ UNCHANGED <<skipped, got>>
        /\ Refused(IF f.use = "overSchema" THEN "InvalidMessage" ELSE "LimitExceeded")

Accept ==
    /\ AtField
    /\ LET f == At(msg, This) IN
        /\ WellFormed(f)
        /\ Withheld(f) => f.type \in Sized /\ Declining(f)
        /\ cur' = [k |-> This, skip |-> OtherType(f),
                   from |-> IF stack = <<>> THEN Nowhere ELSE p]
        /\ skipped' = skipped + IF OtherType(f) THEN 1 ELSE 0
        /\ p' = p + Header(f)
    /\ pendDone' = 0
    /\ StartsSpan
    /\ pc' = "deliver"
    /\ UNCHANGED <<input, windowVars, incomplete, resumeVars, levelVars, terminal, got,
                   answer>>

------------------------------------------------------------------------------
(* Delivering a field to the handler of its level, or skipping it. *)

Current == At(msg, cur.k)
Asked == ~cur.skip /\ ~InSkip              \* the handler is called
DeeperStill == seqDepth <= MAX_DEPTH
DepthLeft == seqDepth < MAX_DEPTH
Takes == Asked /\ ~Declining(Current)
NewSkips == IF Asked /\ Current.use = "mismatch" THEN 1 ELSE 0

DeliverRefused ==
    /\ pc = "deliver"
    /\ \/ Takes /\ RefusalOf(Current.use) # "None"
       \/ Current.type = "start" /\ ~DepthLeft
    /\ skipped' = skipped + NewSkips /\ got' = got
    /\ Refused(IF Current.type = "start" THEN "InvalidMessage" ELSE RefusalOf(Current.use))

DeliverSequence ==
    /\ pc = "deliver" /\ Current.type = "start" /\ DepthLeft
    /\ OpenLevel(cur.k, ~Takes, IF Takes THEN Nowhere ELSE cur.from)
    /\ skipped' = skipped + NewSkips
    /\ UNCHANGED <<input, windowVars, p, cur, incomplete, resumeVars, pendDone, spanVars,
                   terminal, got, answer>>

\* A payload goes by whole units to a reader, and a skipped one of fixed length by
\* bytes; only what is not yet there is waited for.
Grain == IF Takes \/ Current.type \in Varints THEN Current.width ELSE 1
Total == (Current.units * Current.width) \div Grain
Taken == Min({Avail \div Grain, Total - pendDone})
Over == pendDone + Taken = Total

\* invalidate(), called by the handler about what it has just read, or by the read about
\* an element that its ElemBound does not admit.
Invalidated == Takes /\ Judged(Current)
Faulty ==
    \/ Current.fault = "payload" /\ (Takes \/ Current.type \in Varints)
    \/ Invalidated /\ Current.type = "ints"

\* The bytes the destination receives: of a string found bad all or, when it came in
\* one piece, nothing; of an array the elements before the bad one.
Stored ==
    LET n == IF ~Takes THEN 0
             ELSE IF ~(Faulty /\ Over) THEN Taken
             ELSE IF Current.type \in Varints THEN Taken - 1
             ELSE IF pendDone = 0 THEN 0 ELSE Taken
    IN [i \in 1..(n * Grain) |-> << [d \in 1..seqDepth |-> stack[d].k], window[p + i] >>]

DeliverPayload ==
    /\ pc = "deliver" /\ Current.type # "start"
    /\ Takes => RefusalOf(Current.use) = "None"
    /\ got' = got \o Stored
    /\ skipped' = skipped + NewSkips
    /\ IF Over /\ (Faulty \/ Invalidated) THEN Refused("InvalidMessage")
       ELSE /\ p' = p + Taken * Grain
            /\ spanSkipped' = IF Takes \/ cur.from = Nowhere THEN spanSkipped
                              ELSE spanSkipped + (p' - cur.from)
            /\ incomplete' = ~Over
            /\ IF Over THEN /\ pend' = NoPend /\ pendDone' = 0 /\ pc' = "loop"
                            /\ suspendDepth' = suspendDepth
               ELSE /\ pend' = [k |-> cur.k, skip |-> ~Takes]
                    /\ pendDone' = pendDone + Taken
                    /\ suspendDepth' = seqDepth
                    /\ pc' = Leaving
            /\ UNCHANGED <<input, windowVars, cur, carry, replay, path, spanCarry, spanBase,
                           levelVars, terminal, answer>>

------------------------------------------------------------------------------
ParseStep ==
    \/ KeepCarrying \/ ParseTheRest \/ Stash
    \/ Descend \/ Resume \/ LeaveLevel
    \/ WindowEnds \/ RefuseSpan \/ HeaderCut \/ RefuseHeader \/ SequenceOver
    \/ RefuseWithheld \/ Accept
    \/ DeliverRefused \/ DeliverSequence \/ DeliverPayload

Next == ParseStep \/ FeedNothing \/ Reset \/ \E n \in 1..Bytes(msg) : Feed(n)

Spec == Init /\ [][Next]_vars

\* feed() runs to its end.
FairSpec == Spec /\ WF_vars(ParseStep)

------------------------------------------------------------------------------
(* Properties. *)

Stages == {"idle", "enter", "loop", "deliver", "return", "parsed"}
Verdicts == {"None", "Incomplete", "InvalidMessage", "LimitExceeded", "InvalidArgument"}

\* Every variable has its type, and no more is consumed than the window holds.
TypeOK ==
    /\ msg \in Decodings /\ fed \in 0..Bytes(msg)
    /\ chunk \in Seq(1..fed) /\ window \in Seq(1..fed) /\ carry \in Seq(1..fed)
    /\ held \in 0..CARRY_CAP /\ p \in 0..Len(window) /\ spanBase \in 0..Len(window)
    /\ pc \in Stages /\ incomplete \in BOOLEAN /\ replay \in BOOLEAN
    /\ spanSkip \in BOOLEAN /\ capInert \in BOOLEAN
    /\ suspendDepth \in -1..MAX_DEPTH
    /\ path \in [0..(MAX_DEPTH - 1) -> [k : 0..Len(msg.fields), skip : BOOLEAN]]
    /\ pend \in [k : 0..Len(msg.fields), skip : BOOLEAN] /\ pendDone \in Nat
    /\ spanCarry \in Nat /\ spanSkipped \in Nat /\ skipped \in Nat
    /\ elem \in 0..Len(msg.fields)
    /\ terminal \in Verdicts \ {"Incomplete"} /\ answer.verdict \in Verdicts

\* The C++ recursion stays within MAX_DEPTH, for messages that are read, skipped and
\* re-entered alike: pathId_ is not outrun (sofab.hpp:3055-3068).
DepthBounded == seqDepth <= MAX_DEPTH

Unread == fed - Len(carry) + 1
NextField ==
    IF Unread > Bytes(msg) THEN Len(msg.fields) + 1 ELSE msg.owner[Unread]
Suspended == pc = "idle" /\ terminal = "None"

\* What is carried to the next feed() is the tail of what was fed, and it leaves room
\* for at least the byte that is missing (sofab.hpp:3004-3041, 4622-4628).
CarryIsTail ==
    Suspended => /\ Len(carry) < CARRY_CAP
                 /\ carry = [i \in 1..Len(carry) |-> fed - Len(carry) + i]

\* Between two feeds the path is that of the sequences open at the next byte, each
\* with the way it was entered, and what is half-delivered is the field that byte
\* belongs to (sofab.hpp:3042-3088).
PathIsOpen ==
    Suspended =>
        LET open == msg.opens[NextField] IN
        /\ open = [d \in 1..Len(open) |-> path[d - 1].k]
        /\ \A d \in 1..Len(open) : path[d - 1].skip <=> open[d] \notin msg.live
        /\ suspendDepth = (IF open = <<>> /\ ~incomplete THEN -1 ELSE Len(open))
        /\ pend # NoPend => pend.k = NextField /\ (pend.skip <=> pend.k \notin msg.live)
        /\ pend = NoPend => Unread = msg.start[NextField] + 1

Measuring == pc = "loop" /\ Avail > 0 /\ stack # <<>> /\ ~spanSkip

\* The span a budget is compared with does not depend on where the chunks were cut
\* (sofab.hpp:4571-4579), counted the way the code discounts what it skips.
SpanIgnoresCuts ==
    Measuring => SpannedLive = Less(Spanned(msg, This), Discounted(msg, This))

\* Where the budget tests are switched off for a whole window, none of them would
\* have fired (sofab.hpp:3106-3122).
InertCapNeverFires ==
    capInert /\ pc = "loop" /\ Avail > 0 =>
        /\ Measuring => SpannedLive <= budget
        /\ stack = <<>> /\ Avail >= Header(At(msg, This))
              => ~Exceeds(Header(At(msg, This)), At(msg, This), budget)

\* However a message is cut, each feed() answers for the bytes so far what a decode
\* of just these bytes in one piece answers, and delivers the same values in the
\* same order through the same sequences; reset() makes a fresh stream.
ImplementsDecoder == D!Spec

\* Every feed() returns.
FeedReturns == pc # "idle" ~> pc = "idle"

\* README.md:322-332: what is not read is discounted from the span, so that a live
\* field is measured against the live bytes before it.
LiveSpanExact ==
    Measuring => SpannedLive = Less(Spanned(msg, This), OnceDiscounted(msg, This))

\* sofab.hpp:3503-3506: "a refusal counts exactly one skip, never one per
\* candidate", and 5164-5167: a message dribbled in chunk by chunk reports the same.
SkippedOnce == Suspended /\ answer.verdict = "None" => skipped = Skips(msg, fed)
==============================================================================
