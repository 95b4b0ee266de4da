------------------------------- MODULE OStream -------------------------------
(* The streaming encoder of include/sofab/sofab.hpp: class OStreamImpl and its *)
(* flavours OStream, OStreamView and OStreamInline (lines 1348-2671).          *)
(*                                                                             *)
(* A call of the application (write, sequenceBeginLazy, sequenceEnd,           *)
(* sequenceEndKeep, ...) is one action when it pushes no byte.  A call that    *)
(* pushes bytes starts by leaving them in todo, and the pushBytes/pushByte     *)
(* steps below carry them into the buffer; between two of them the flush       *)
(* callback may run, and it decides whether it copied the buffer, took it and  *)
(* installed another, or installed one that is rejected.                       *)
(*                                                                             *)
(* A field is a sequence of byte tokens; the byte that ends a pushBytes call   *)
(* is marked, because pushBytes tests the room for its whole run at once and   *)
(* its fast path looks at neither the verdict nor the sink.                    *)
EXTENDS MessageWire, FiniteSets

CONSTANTS
    Installs,       \* the <<buflen, offset>> pairs buffers are installed with
    Sinks,          \* whether a flush callback is set: a subset of BOOLEAN
    SoleOwner,      \* the stream alone owns its storage (OStream, no other handle)
    CallBound       \* bound on the number of calls of the application

ASSUME EncoderAssumption ==
    /\ Installs \subseteq Nat \X Nat
    /\ Sinks \subseteq BOOLEAN
    /\ SoleOwner \in BOOLEAN
    /\ CallBound \in Nat

MIN_OUTPUT_BUFFER == 1

VARIABLES
    buf,        \* the bytes from buffer_ to cursor_, reserved head included
    cap,        \* end_ - buffer_
    off,        \* offset_
    sink,       \* flushCallback_ is set
    pend,       \* pending_: ids held back, outermost first
    seqDepth,   \* seqDepth_
    failure,    \* failure_
    todo,       \* what the running call has still to push; <<>> when none runs
    result,     \* the Result of the last call
    owed,       \* sequence closers the application still owes
    sent,       \* message bytes the sink (or the caller) has received so far
    handed,     \* how many message bytes the packets handed to the sink held
    reopened,   \* a buffer was installed after the stream was condemned
    alive,      \* the destructor has not run
    calls       \* calls made, for the bound

streamVars == <<buf, cap, off, sink, pend, seqDepth, failure>>
ghostVars == <<sent, handed, reopened>>
vars == <<streamVars, todo, result, owed, ghostVars, alive, calls>>

HeadByte == [kind |-> "head", of |-> 0, n |-> 0, last |-> FALSE]
JunkByte == [kind |-> "junk", of |-> 0, n |-> 0, last |-> FALSE]
Stored == Byte \cup {HeadByte, JunkByte}

Room == cap - Len(buf)
\* The message bytes in the buffer: what lies past the reserved head.
Message == SubSeq(buf, off + 1, Len(buf))
\* Every message byte that left the write path so far.
Out == sent \o Message
Idle == alive /\ todo = <<>>

\* The message of a healthy stream includes what the running call will still push;
\* a condemned stream promises only what it has written.
E == INSTANCE Encoder WITH msg <- IF failure = "None" THEN Out \o todo ELSE Out,
                           held <- pend, depth <- seqDepth, verdict <- failure

------------------------------------------------------------------------------
(* The verdict and the buffer. *)

LastFailure(f, e) == e                          \* mutation: the last failure wins
Unlatched(f, e) == f                            \* mutation: a failure is not recorded
\* latch: the first failure wins.
Latch(f, e) == IF f = "None" THEN e ELSE f

NoMinimum(n, o) == o > n                        \* mutation: no room is needed
NoOffsetTest(n, o) == sink /\ n < MIN_OUTPUT_BUFFER     \* mutation: offset unchecked
\* What initBuffer refuses: an offset past the end and, behind a sink, a buffer
\* with no room for a single byte.
Rejects(n, o) == o > n \/ (sink /\ n - o < MIN_OUTPUT_BUFFER)

\* initBuffer.  A rejected buffer leaves the stream inert: nothing fits in it.
InitBuffer(n, o) ==
    IF Rejects(n, o)
    THEN /\ buf' = <<>> /\ cap' = 0 /\ off' = 0
         /\ failure' = Latch(failure, "InvalidArgument")
    ELSE /\ buf' = [i \in 1..o |-> HeadByte] /\ cap' = n /\ off' = o
         /\ failure' = failure

ReplacedOffset ==                               \* mutation: a taking sink's offset is lost
    \/ buf' = <<>> /\ off' = 0 /\ UNCHANGED <<cap, failure>>
    \/ \E i \in Installs : IF Rejects(i[1], i[2]) THEN InitBuffer(i[1], i[2])
                           ELSE /\ buf' = <<>> /\ cap' = i[1] /\ off' = i[2]
                                /\ failure' = failure
NoRewind ==                                     \* mutation: the cursor is not reset
    \/ UNCHANGED <<buf, cap, off, failure>>
    \/ \E i \in Installs : InitBuffer(i[1], i[2])
\* What the flush callback leaves behind: it copied, and the buffer is reused from
\* offset 0; or it installed one, whose own offset is where the cursor stands.
SinkReturns ==
    \/ buf' = <<>> /\ off' = 0 /\ UNCHANGED <<cap, failure>>
    \/ \E i \in Installs : InitBuffer(i[1], i[2])

\* The sink receives the whole buffer; past the head it reserved are message bytes.
HandOver ==
    /\ sent' = Out
    /\ handed' = handed \cup {Len(buf) - off}
    /\ SinkReturns

Init ==
    /\ sink \in Sinks
    /\ \E i \in Installs :
        IF Rejects(i[1], i[2])
        THEN buf = <<>> /\ cap = 0 /\ off = 0 /\ failure = "InvalidArgument"
        ELSE buf = [k \in 1..i[2] |-> HeadByte] /\ cap = i[1] /\ off = i[2]
             /\ failure = "None"
    /\ pend = <<>> /\ seqDepth = 0
    /\ todo = <<>> /\ result = "None" /\ owed = 0
    /\ sent = <<>> /\ handed = {} /\ reopened = FALSE
    /\ alive = TRUE /\ calls = 0

------------------------------------------------------------------------------
(* Calls of the application. *)

Called ==
    /\ Idle /\ calls < CallBound
    /\ calls' = calls + 1
    /\ alive' = alive

DroppedHeaders(content) ==                      \* mutation: the run is not committed
    /\ todo' = content
    /\ pend' = pend
    /\ result' = "None"
    /\ UNCHANGED <<buf, cap, off, sink, failure, ghostVars>>

\* A call that pushes content leaves its bytes in todo, the headers held back so
\* far in front of them: beforeContent and commitPending, which empties the run
\* whether or not the headers can be written.
Push(content) ==
    /\ todo' = Headers(pend) \o content
    /\ pend' = <<>>
    /\ result' = "None"
    /\ UNCHANGED <<buf, cap, off, sink, failure, ghostVars>>

\* A write that passes its checks: writeScalar, writeFixlen, writeFloatScalar,
\* writeIntArray and writeFloatArray differ in the bytes only.
Write(f) ==
    /\ Called
    /\ Push(Wire[f])
    /\ UNCHANGED <<seqDepth, owed>>

\* A write refused before a byte moves (id, length or count past the format's
\* ceiling, a string that is not UTF-8, a negative length) and rejectArgument.
Refuse ==
    /\ Called
    /\ failure' = Latch(failure, "InvalidArgument")
    /\ result' = "InvalidArgument"
    /\ UNCHANGED <<buf, cap, off, sink, pend, seqDepth, todo, owed, ghostVars>>

DeepDepth == seqDepth > MAX_DEPTH               \* mutation: off by one
TooDeep == seqDepth >= MAX_DEPTH

SequenceBeginLazy(id) ==
    /\ Called
    /\ ~TooDeep
    /\ pend' = Append(pend, id)
    /\ seqDepth' = seqDepth + 1
    /\ owed' = owed + 1
    /\ result' = "None"
    /\ UNCHANGED <<buf, cap, off, sink, failure, todo, ghostVars>>

\* An open past MAX_DEPTH, or with an id past ID_MAX, is refused.  Code that
\* discards the Result goes on to close what it believes it opened; chained code
\* does not.
RefuseSequence ==
    /\ Called
    /\ \E idTooLarge \in BOOLEAN : TooDeep \/ idTooLarge
    /\ failure' = Latch(failure, "InvalidArgument")
    /\ result' = "InvalidArgument"
    /\ owed' \in {owed, owed + 1}
    /\ UNCHANGED <<buf, cap, off, sink, pend, seqDepth, todo, ghostVars>>

LeaveLevel == seqDepth' = IF seqDepth > 0 THEN seqDepth - 1 ELSE 0

KeepsHeld ==                                    \* mutation: the frame is not dropped
    /\ pend' = pend
    /\ result' = "None"
    /\ UNCHANGED <<buf, cap, off, sink, failure, todo, ghostVars>>
\* sequenceEnd on a sequence that received nothing: its header is forgotten.
DropHeld ==
    /\ pend' = SubSeq(pend, 1, Len(pend) - 1)
    /\ result' = "None"
    /\ UNCHANGED <<buf, cap, off, sink, failure, todo, ghostVars>>

SequenceEnd ==
    /\ Called
    /\ owed > 0 /\ owed' = owed - 1
    /\ LeaveLevel
    /\ IF pend # <<>> THEN DropHeld ELSE Push(EndMarker)

SequenceEndKeep ==
    /\ Called
    /\ owed > 0 /\ owed' = owed - 1
    /\ LeaveLevel
    /\ Push(EndMarker)

\* write(id, message) and writeLazy return without closing the sequence when the
\* nested serialize() reports an error.
Abandon ==
    /\ Idle
    /\ owed > 0 /\ result # "None"
    /\ owed' = owed - 1
    /\ UNCHANGED <<streamVars, todo, result, ghostVars, alive, calls>>

HeadIsContent == sink                           \* mutation: the head counts as content
\* flush drains message bytes only, and only when there is a sink.
HasContent == sink /\ Len(buf) > off

Flush ==
    /\ Called
    /\ HasContent
    /\ HandOver
    /\ UNCHANGED <<sink, pend, seqDepth, todo, result, owed, reopened>>

\* setBuffer outside a callback: the caller has read data()/bytesUsed() first.
SetBuffer(n, o) ==
    /\ Called
    /\ sent' = Out
    /\ InitBuffer(n, o)
    /\ reopened' = (reopened \/ failure # "None")
    /\ UNCHANGED <<sink, pend, seqDepth, todo, result, owed, handed>>

\* The destructor flushes, and the members of OStream are gone by then: storage
\* that the stream alone owned has been freed, and the sink reads whatever is left.
Destroy ==
    /\ Idle
    /\ alive' = FALSE
    /\ IF HasContent
       THEN /\ \/ sent' = Out
               \/ SoleOwner /\ sent' = sent \o [i \in 1..Len(Message) |-> JunkByte]
            /\ handed' = handed \cup {Len(buf) - off}
            /\ buf' = <<>> /\ off' = 0
       ELSE UNCHANGED <<buf, off, sent, handed>>
    /\ UNCHANGED <<cap, sink, pend, seqDepth, failure, todo, result, owed, reopened, calls>>

------------------------------------------------------------------------------
(* pushBytes and pushByte. *)

\* The first n bytes of todo are what the current pushBytes call still has to place.
IsRun(n) == todo[n].last /\ \A m \in 1..(n - 1) : ~todo[m].last
\* The room test of pushBytes: its whole run fits in the buffer.
RunFits == \E n \in 1..Len(todo) : n <= Room /\ todo[n].last

UnchangedByPush == <<sink, pend, seqDepth, owed, reopened, alive, calls>>

Store(n) ==
    /\ buf' = buf \o SubSeq(todo, 1, n)
    /\ todo' = SubSeq(todo, n + 1, Len(todo))
    /\ UNCHANGED <<cap, off, failure, result, sent, handed, UnchangedByPush>>

Fail(e) ==
    /\ todo' = <<>>
    /\ result' = e

\* The fast path: the whole run fits, and neither the verdict nor the sink matters.
PushRun ==
    /\ todo # <<>>
    /\ \E n \in 1..Len(todo) : n <= Room /\ IsRun(n) /\ Store(n)

\* The byte loop up to the end of the buffer.
PushSome ==
    /\ todo # <<>>
    /\ ~RunFits /\ Room > 0
    /\ failure = "None"
    /\ Store(Room)

\* pushByte on a condemned stream, which the fast path does not stop.
PushCondemned ==
    /\ todo # <<>>
    /\ ~RunFits
    /\ failure # "None"
    /\ Fail(failure)
    /\ UNCHANGED <<buf, cap, off, failure, sent, handed, UnchangedByPush>>

NoPartialWrite == todo # <<>> /\ ~RunFits /\ failure = "None"   \* mutation: all or nothing
\* The byte loop has filled the buffer and has a byte left.
AtEnd == todo # <<>> /\ Room = 0 /\ failure = "None"

\* A full buffer and no sink.
PushFull ==
    /\ AtEnd
    /\ ~sink
    /\ failure' = Latch(failure, "BufferFull")
    /\ Fail("BufferFull")
    /\ UNCHANGED <<buf, cap, off, sent, handed, UnchangedByPush>>

\* A full buffer and a sink: the call goes on unless the sink condemned the stream.
PushFlush ==
    /\ AtEnd
    /\ sink
    /\ HandOver
    /\ IF failure' # "None" THEN Fail(failure') ELSE UNCHANGED <<todo, result>>
    /\ UNCHANGED UnchangedByPush

PushStep == PushRun \/ PushSome \/ PushCondemned \/ PushFull \/ PushFlush

\* A stream that has been destroyed does nothing more.
Gone == ~alive /\ UNCHANGED vars

Next ==
    \/ \E f \in Fields : Write(f)
    \/ \E id \in Ids : SequenceBeginLazy(id)
    \/ \E i \in Installs : SetBuffer(i[1], i[2])
    \/ Refuse \/ RefuseSequence \/ SequenceEnd \/ SequenceEndKeep \/ Abandon
    \/ Flush \/ Destroy \/ Gone
    \/ PushRun \/ PushSome \/ PushCondemned \/ PushFull \/ PushFlush

Spec == Init /\ [][Next]_vars

\* A call that has begun runs on: the code is sequential and the sink returns.
FairSpec == Spec /\ WF_vars(PushStep)

------------------------------------------------------------------------------
(* Properties. *)

\* Every variable has its type; the cursor stands between the head and the end.
TypeOK ==
    /\ buf \in Seq(Stored) /\ cap \in Nat /\ off \in Nat
    /\ off <= Len(buf) /\ Len(buf) <= cap
    /\ sink \in BOOLEAN /\ alive \in BOOLEAN /\ reopened \in BOOLEAN
    /\ pend \in Seq(Ids) /\ seqDepth \in Nat
    /\ failure \in Errors /\ result \in Errors
    /\ todo \in Seq(Byte) /\ sent \in Seq(Stored)
    /\ owed \in Nat /\ calls \in Nat /\ handed \subseteq Nat

\* The run of held-back ids is part of the open sequences, and those stay within
\* MAX_DEPTH, whatever the application does after a refusal: the fixed array of
\* PendingRun is never outrun (sofab.hpp:1383-1391).
PendingWithinDepth == Len(pend) <= seqDepth /\ seqDepth <= MAX_DEPTH

\* The head an installation reserved is the first offset_ bytes of the buffer and
\* nothing else: a message byte never lands in it, and a head never in a packet
\* where the sink did not reserve one (README.md:676-685, sofab.hpp:1363-1376).
HeadIntact == \A i \in 1..Len(buf) : buf[i] = HeadByte <=> i <= off

\* While ok() holds, the frames in the output are properly nested and the open
\* ones are exactly those the application has to close and that are not held back.
Opened(s, n) == Cardinality({i \in 1..n : s[i].kind = "start" /\ s[i].last})
Closed(s, n) == Cardinality({i \in 1..n : s[i].kind = "end"})
WellFramed ==
    failure = "None" =>
        LET s == Out \o todo IN
        /\ Opened(s, Len(s)) - Closed(s, Len(s)) = owed - Len(pend)
        /\ \A n \in 1..Len(s) : Closed(s, n) <= Opened(s, n)

\* Every error a call returns has reached the verdict: code that discards each
\* Result and asks ok() once at the end misses nothing (sofab.hpp:1455-1458).
VerdictCovers == result # "None" => failure # "None"

\* A packet handed to the sink carries at least one message byte: a fresh
\* reservation alone is never pushed at it (sofab.hpp:1363-1371).
NoHollowPacket == 0 \notin handed

\* After an overflow the cursor stays at the end of the buffer, so that what was
\* cut off is never followed by something else (sofab.hpp:1698-1706).
OverflowParked == failure = "BufferFull" /\ ~reopened => Room = 0

\* The verdict is the reason the stream was condemned for, whatever fails later
\* (sofab.hpp:1488-1490).
FirstFailureWins == [][failure # "None" => failure' = failure]_vars

\* However the buffers are cut and whatever the sink does, the message is the one
\* the accepted calls define, and a condemned stream loses a tail at most.
ImplementsEncoder == E!Spec

\* Every call returns, whatever room the buffers leave.
CallReturns == todo # <<>> ~> todo = <<>>

\* README.md:661, "The stream keeps working after a rejection: the next write
\* encodes normally", here behind a sink with an accepted buffer.
NextWriteEncodes ==
    [][todo # <<>> /\ todo' = <<>> /\ sink /\ cap > 0 /\ failure' = failure
        => result' = "None"]_vars

\* sofab.hpp:1698-1703: when a held-back header cannot be written the cursor is
\* parked at the buffer end, "so every later push fails too".
CommitFailureIsFinal ==
    [][todo # <<>> /\ todo[1].kind = "start" /\ todo' = <<>> /\ result' # "None"
        => cap' - Len(buf') = 0]_vars

\* sofab.hpp:2124: "Flushes any buffered bytes through the callback before
\* destruction."
DestructorDrains == [][alive /\ ~alive' /\ sink => sent' = Out]_vars
==============================================================================
