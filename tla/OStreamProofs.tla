---------------------------- MODULE OStreamProofs ----------------------------
(* Theorems about OStream.tla for every choice of fields, buffers, nesting     *)
(* limit and sink.                                                             *)
EXTENDS OStream, SequenceTheorems, FiniteSetTheorems, TLAPS

------------------------------------------------------------------------------
(* The bytes of headers, markers and runs. *)

\* The i-th byte of n headers lies in one of them.
LEMMA HeaderPlace ==
  ASSUME NEW n \in Nat, NEW i \in 1..(n * HeaderSize)
  PROVE  /\ 1 + ((i - 1) \div HeaderSize) \in 1..n
         /\ 1 + ((i - 1) % HeaderSize) \in Nat
         /\ (i % HeaderSize = 0) \in BOOLEAN
  <1>1. HeaderSize \in {1, 2, 3, 4, 5}
    BY SizeAssumption
  <1>. QED
    BY <1>1

\* The headers of a run of ids are message bytes.
LEMMA HeadersType ==
  ASSUME NEW p \in Seq(Ids)
  PROVE  Headers(p) \in Seq(Byte)
  <1>. DEFINE n == Len(p)
              b(i) == [kind |-> "start", of |-> p[1 + ((i - 1) \div HeaderSize)],
                       n |-> 1 + ((i - 1) % HeaderSize), last |-> i % HeaderSize = 0]
  <1>1. n \in Nat /\ HeaderSize \in {1, 2, 3, 4, 5} /\ n * HeaderSize \in Nat
    BY SizeAssumption, LenProperties
  <1>2. \A i \in 1..(n * HeaderSize) : b(i) \in Byte
    <2>. SUFFICES ASSUME NEW i \in 1..(n * HeaderSize) PROVE b(i) \in Byte
      OBVIOUS
    <2>1. p[1 + ((i - 1) \div HeaderSize)] \in Ids
      BY <1>1, HeaderPlace, ElementOfSeq
    <2>. QED
      BY <1>1, <2>1, HeaderPlace DEF Byte
  <1>3. Headers(p) = [i \in 1..(n * HeaderSize) |-> b(i)]
    BY DEF Headers
  <1>. HIDE DEF n, b
  <1>4. [i \in 1..(n * HeaderSize) |-> b(i)] \in Seq(Byte)
    BY <1>1, <1>2
  <1>. QED
    BY <1>3, <1>4

\* The end marker is a message byte that ends a run.
LEMMA EndMarkerType ==
  EndMarker \in Seq(Byte) /\ EndMarker # <<>> /\ EndMarker[Len(EndMarker)].last
  <1>1. [kind |-> "end", of |-> 0, n |-> 1, last |-> TRUE] \in Byte
    BY DEF Byte
  <1>. QED
    BY <1>1 DEF EndMarker

\* The bytes of a field are message bytes and end with the last byte of a run.
LEMMA WireType ==
  ASSUME NEW f \in Fields
  PROVE  Wire[f] \in Seq(Byte) /\ Wire[f] # <<>> /\ Wire[f][Len(Wire[f])].last
  BY WireAssumption

\* What is left to push ends with the last byte of a run.
EndsARun(s) == s # <<>> => s[Len(s)].last

\* Something that ends a run still does behind some headers.
LEMMA ConcatEndsARun ==
  ASSUME NEW s \in Seq(Byte), NEW t \in Seq(Byte), t # <<>>, EndsARun(t)
  PROVE  s \o t \in Seq(Byte) /\ s \o t # <<>> /\ EndsARun(s \o t)
  <1>1. /\ Len(s) \in Nat /\ Len(t) \in Nat /\ Len(t) > 0
        /\ Len(s \o t) = Len(s) + Len(t)
        /\ (s \o t)[Len(s) + Len(t)] = t[Len(t)]
    BY ConcatProperties, LenProperties, EmptySeq
  <1>. QED
    BY <1>1, ConcatProperties DEF EndsARun

\* Cutting bytes off the front leaves the end where it was.
LEMMA CutEndsARun ==
  ASSUME NEW s \in Seq(Byte), EndsARun(s), NEW n \in 0..Len(s)
  PROVE  /\ SubSeq(s, 1, n) \in Seq(Byte) /\ Len(SubSeq(s, 1, n)) = n
         /\ SubSeq(s, n + 1, Len(s)) \in Seq(Byte)
         /\ EndsARun(SubSeq(s, n + 1, Len(s)))
  <1>1. Len(s) \in Nat
    BY LenProperties
  <1>2. \A i \in 1..Len(s) : s[i] \in Byte
    BY ElementOfSeq
  <1>3. SubSeq(s, 1, n) \in Seq(Byte) /\ Len(SubSeq(s, 1, n)) = n
    BY <1>1, <1>2, SubSeqProperties
  <1>. DEFINE t == SubSeq(s, n + 1, Len(s))
  <1>4. /\ t \in Seq(Byte)
        /\ Len(t) = Len(s) - n
        /\ \A i \in 1..(Len(s) - n) : t[i] = s[n + i]
    BY <1>1, <1>2, SubSeqProperties
  <1>. HIDE DEF t
  <1>5. ASSUME t # <<>> PROVE s # <<>> /\ t[Len(t)] = s[Len(s)]
    <2>1. Len(t) > 0 /\ Len(t) = Len(s) - n /\ n \in Nat
      BY <1>1, <1>4, <1>5, EmptySeq
    <2>2. Len(s) - n \in 1..(Len(s) - n) /\ n + (Len(s) - n) = Len(s) /\ Len(s) > 0
      BY <1>1, <2>1
    <2>. QED
      BY <1>4, <2>1, <2>2, EmptySeq
  <1>. QED
    BY <1>3, <1>4, <1>5 DEF EndsARun, t

\* Forgetting the innermost held-back id.
LEMMA DropLast ==
  ASSUME NEW p \in Seq(Ids), Len(p) > 0
  PROVE  /\ SubSeq(p, 1, Len(p) - 1) \in Seq(Ids)
         /\ Len(SubSeq(p, 1, Len(p) - 1)) = Len(p) - 1
  <1>. DEFINE m == Len(p) - 1
  <1>1. m \in Nat /\ m + 1 = Len(p)
    BY LenProperties
  <1>2. \A k \in 1..m : p[k] \in Ids
    BY <1>1, ElementOfSeq
  <1>. HIDE DEF m
  <1>3. /\ SubSeq(p, 1, m) \in Seq(Ids)
        /\ Len(SubSeq(p, 1, m)) = IF 1 <= m THEN m - 1 + 1 ELSE 0
    BY <1>1, <1>2, SubSeqProperties
  <1>4. SubSeq(p, 1, m) \in Seq(Ids) /\ Len(SubSeq(p, 1, m)) = m
    BY <1>1, <1>3
  <1>. QED
    BY <1>4 DEF m

\* A byte of the message is never taken for a byte of a reserved head.
LEMMA HeadIsNoByte == HeadByte \notin Byte /\ Byte \subseteq Stored /\ HeadByte \in Stored
  BY DEF HeadByte, Byte, Stored

------------------------------------------------------------------------------
(* The inductive invariant: types, the cursor between the head and the end of  *)
(* the buffer, and bytes left to push that always end a pushBytes call (without*)
(* which a full buffer could not be told from a finished run).                 *)
Bounded == TypeOK /\ EndsARun(todo) /\ HeadIntact

\* initBuffer leaves the cursor right behind an untouched head.
LEMMA InitBufferBounded ==
  ASSUME NEW i \in Installs, InitBuffer(i[1], i[2]), failure \in Errors
  PROVE  /\ buf' \in Seq(Stored) /\ cap' \in Nat /\ off' \in Nat
         /\ off' <= Len(buf') /\ Len(buf') <= cap'
         /\ failure' \in Errors /\ HeadIntact'
  <1>1. i[1] \in Nat /\ i[2] \in Nat
    BY EncoderAssumption
  <1>2. CASE Rejects(i[1], i[2])
    BY <1>1, <1>2 DEF InitBuffer, HeadIntact, Latch, Errors
  <1>3. CASE ~Rejects(i[1], i[2])
    <2>1. buf' = [k \in 1..i[2] |-> HeadByte] /\ cap' = i[1] /\ off' = i[2] /\ failure' = failure
      BY <1>3 DEF InitBuffer
    <2>2. buf' \in Seq(Stored) /\ Len(buf') = i[2]
      BY <1>1, <2>1, HeadIsNoByte
    <2>3. i[2] <= i[1]
      BY <1>1, <1>3 DEF Rejects
    <2>. QED
      BY <1>1, <2>1, <2>2, <2>3 DEF HeadIntact
  <1>. QED
    BY <1>2, <1>3

\* So does the sink, whatever it does with the buffer it was handed.
LEMMA SinkReturnsBounded ==
  ASSUME TypeOK, SinkReturns
  PROVE  /\ buf' \in Seq(Stored) /\ cap' \in Nat /\ off' \in Nat
         /\ off' <= Len(buf') /\ Len(buf') <= cap'
         /\ failure' \in Errors /\ HeadIntact'
  <1>1. CASE buf' = <<>> /\ off' = 0 /\ UNCHANGED <<cap, failure>>
    BY <1>1 DEF TypeOK, HeadIntact
  <1>2. CASE \E i \in Installs : InitBuffer(i[1], i[2])
    BY <1>2, InitBufferBounded DEF TypeOK
  <1>. QED
    BY <1>1, <1>2 DEF SinkReturns

\* What has left the write path is a sequence of stored bytes.
LEMMA OutType ==
  ASSUME TypeOK
  PROVE  /\ Message \in Seq(Stored) /\ Len(Message) = Len(buf) - off
         /\ Out \in Seq(Stored)
  <1>1. Len(buf) \in Nat /\ \A i \in (off + 1)..Len(buf) : buf[i] \in Stored
    BY LenProperties, ElementOfSeq DEF TypeOK
  <1>2. Message \in Seq(Stored) /\ Len(Message) = Len(buf) - off
    BY <1>1, SubSeqProperties DEF TypeOK, Message
  <1>. QED
    BY <1>2, ConcatProperties DEF TypeOK, Out

\* A packet holds a number of message bytes.
LEMMA PacketType ==
  ASSUME TypeOK
  PROVE  Len(buf) - off \in Nat /\ handed \cup {Len(buf) - off} \subseteq Nat
  <1>1. Len(buf) \in Nat /\ off \in Nat /\ off <= Len(buf)
    BY LenProperties DEF TypeOK
  <1>2. Len(buf) - off \in Nat
    BY <1>1
  <1>. QED
    BY <1>2 DEF TypeOK

\* Content, behind the headers held back, is something a call can push.
LEMMA PushBounded ==
  ASSUME Bounded, NEW content \in Seq(Byte), content # <<>>, EndsARun(content),
         Push(content)
  PROVE  /\ todo' \in Seq(Byte) /\ EndsARun(todo') /\ pend' \in Seq(Ids)
         /\ todo' # <<>>
         /\ result' \in Errors
  <1>1. Headers(pend) \in Seq(Byte)
    BY HeadersType DEF Bounded, TypeOK
  <1>. QED
    BY <1>1, ConcatEndsARun DEF Push, Errors

\* Storing bytes that fit moves the cursor and nothing of the head.
LEMMA StoreBounded ==
  ASSUME Bounded, NEW n \in 1..Len(todo), n <= Room, Store(n)
  PROVE  Bounded'
  <1>1. /\ SubSeq(todo, 1, n) \in Seq(Byte) /\ Len(SubSeq(todo, 1, n)) = n
        /\ todo' \in Seq(Byte) /\ EndsARun(todo')
    BY CutEndsARun, LenProperties DEF Bounded, TypeOK, Store
  <1>2. SubSeq(todo, 1, n) \in Seq(Stored)
    BY <1>1, SeqMonotonic, HeadIsNoByte
  <1>3. /\ buf' \in Seq(Stored) /\ Len(buf') = Len(buf) + n
        /\ \A i \in 1..(Len(buf) + n) :
              buf'[i] = IF i <= Len(buf) THEN buf[i] ELSE SubSeq(todo, 1, n)[i - Len(buf)]
    BY <1>1, <1>2, ConcatProperties DEF Bounded, TypeOK, Store
  <1>4. Len(buf) \in Nat /\ Len(todo) \in Nat
    BY LenProperties DEF Bounded, TypeOK
  <1>5. \A i \in (Len(buf) + 1)..(Len(buf) + n) : buf'[i] # HeadByte
    <2>. SUFFICES ASSUME NEW i \in (Len(buf) + 1)..(Len(buf) + n) PROVE buf'[i] # HeadByte
      OBVIOUS
    <2>1. i - Len(buf) \in 1..n /\ i \in 1..(Len(buf) + n) /\ ~(i <= Len(buf))
      BY <1>4
    <2>2. buf'[i] = SubSeq(todo, 1, n)[i - Len(buf)]
      BY <1>3, <2>1
    <2>. QED
      BY <1>1, <2>1, <2>2, ElementOfSeq, HeadIsNoByte
  <1>6. HeadIntact'
    <2>. SUFFICES ASSUME NEW i \in 1..(Len(buf) + n)
                  PROVE  buf'[i] = HeadByte <=> i <= off
      BY <1>3 DEF HeadIntact, Store
    <2>1. off \in Nat /\ off <= Len(buf)
      BY DEF Bounded, TypeOK
    <2>2. CASE i <= Len(buf)
      BY <1>3, <1>4, <2>2 DEF Bounded, HeadIntact
    <2>3. CASE ~(i <= Len(buf))
      BY <1>4, <1>5, <2>1, <2>3
    <2>. QED
      BY <2>2, <2>3
  <1>7. off' <= Len(buf') /\ Len(buf') <= cap'
    BY <1>3, <1>4 DEF Bounded, TypeOK, Store, Room
  <1>8. /\ UNCHANGED <<cap, off, failure, result, sent, handed>>
        /\ UNCHANGED <<sink, pend, seqDepth, owed, reopened, alive, calls>>
    BY DEF Store, UnchangedByPush
  <1>9. TypeOK
    BY DEF Bounded
  <1>10. TypeOK'
    BY <1>1, <1>3, <1>7, <1>8, <1>9 DEF TypeOK
  <1>. QED
    BY <1>1, <1>6, <1>10 DEF Bounded

\* A stream starts with the cursor behind the head its first buffer reserves.
LEMMA InitBounded == Init => Bounded
  <1>. SUFFICES ASSUME Init PROVE Bounded
    OBVIOUS
  <1>1. PICK i \in Installs :
          IF Rejects(i[1], i[2])
          THEN buf = <<>> /\ cap = 0 /\ off = 0 /\ failure = "InvalidArgument"
          ELSE buf = [k \in 1..i[2] |-> HeadByte] /\ cap = i[1] /\ off = i[2]
               /\ failure = "None"
    BY DEF Init
  <1>2. i[1] \in Nat /\ i[2] \in Nat
    BY EncoderAssumption
  <1>3. /\ buf \in Seq(Stored) /\ cap \in Nat /\ off \in Nat
        /\ off <= Len(buf) /\ Len(buf) <= cap
        /\ failure \in Errors /\ HeadIntact
    <2>1. CASE Rejects(i[1], i[2])
      BY <1>1, <2>1 DEF HeadIntact, Errors
    <2>2. CASE ~Rejects(i[1], i[2])
      <3>1. buf = [k \in 1..i[2] |-> HeadByte] /\ cap = i[1] /\ off = i[2] /\ failure = "None"
        BY <1>1, <2>2
      <3>2. buf \in Seq(Stored) /\ Len(buf) = i[2]
        BY <1>2, <3>1, HeadIsNoByte
      <3>3. i[2] <= i[1]
        BY <1>2, <2>2 DEF Rejects
      <3>. QED
        BY <1>2, <3>1, <3>2, <3>3 DEF HeadIntact, Errors
    <2>. QED
      BY <2>1, <2>2
  <1>4. pend \in Seq(Ids) /\ todo \in Seq(Byte) /\ sent \in Seq(Stored)
    BY EmptySeq DEF Init
  <1>5. EndsARun(todo)
    BY DEF Init, EndsARun
  <1>6. /\ sink \in BOOLEAN /\ alive \in BOOLEAN /\ reopened \in BOOLEAN
        /\ seqDepth \in Nat /\ result \in Errors
        /\ owed \in Nat /\ calls \in Nat /\ handed \subseteq Nat
    BY EncoderAssumption DEF Init, Errors
  <1>. QED
    BY <1>3, <1>4, <1>5, <1>6 DEF Bounded, TypeOK

\* Every step keeps the cursor in the buffer and the head in front of the message.
LEMMA StepBounded == Bounded /\ [Next]_vars => Bounded'
  <1>. SUFFICES ASSUME Bounded, [Next]_vars PROVE Bounded'
    OBVIOUS
  <1>. USE DEF ghostVars
  <1>0. TypeOK /\ EndsARun(todo) /\ HeadIntact
    BY DEF Bounded
  <1>1. ASSUME NEW f \in Fields, Write(f) PROVE Bounded'
    <2>1. Push(Wire[f]) /\ calls' \in Nat /\ alive' = alive /\ UNCHANGED <<seqDepth, owed>>
      BY <1>0, <1>1 DEF Write, Called, TypeOK
    <2>2. /\ todo' \in Seq(Byte) /\ EndsARun(todo') /\ pend' \in Seq(Ids) /\ result' \in Errors
      BY <2>1, PushBounded, WireType DEF EndsARun
    <2>. QED
      BY <1>0, <2>1, <2>2 DEF Push, Bounded, TypeOK, HeadIntact, EndsARun
  <1>2. ASSUME NEW id \in Ids, SequenceBeginLazy(id) PROVE Bounded'
    BY <1>0, <1>2, AppendProperties
       DEF SequenceBeginLazy, Called, Bounded, TypeOK, HeadIntact, EndsARun, Errors
  <1>3. ASSUME NEW i \in Installs, SetBuffer(i[1], i[2]) PROVE Bounded'
    <2>1. InitBuffer(i[1], i[2]) /\ failure \in Errors
      BY <1>0, <1>3 DEF SetBuffer, TypeOK
    <2>2. /\ buf' \in Seq(Stored) /\ cap' \in Nat /\ off' \in Nat
          /\ off' <= Len(buf') /\ Len(buf') <= cap'
          /\ failure' \in Errors /\ HeadIntact'
      BY <2>1, InitBufferBounded
    <2>3. reopened' \in BOOLEAN
      BY <1>0, <1>3 DEF SetBuffer, TypeOK
    <2>. QED
      BY <1>0, <1>3, <2>2, <2>3, OutType DEF SetBuffer, Called, Bounded, TypeOK, EndsARun
  <1>4. CASE Refuse
    BY <1>0, <1>4 DEF Refuse, Called, Bounded, TypeOK, HeadIntact, EndsARun, Latch, Errors
  <1>5. CASE RefuseSequence
    BY <1>0, <1>5
       DEF RefuseSequence, Called, Bounded, TypeOK, HeadIntact, EndsARun, Latch, Errors
  <1>6. CASE SequenceEnd
    <2>1. seqDepth' \in Nat /\ owed' \in Nat /\ calls' \in Nat /\ alive' = alive
      BY <1>0, <1>6 DEF SequenceEnd, Called, LeaveLevel, TypeOK
    <2>2. CASE pend # <<>>
      <3>1. SubSeq(pend, 1, Len(pend) - 1) \in Seq(Ids)
        BY <1>0, <2>2, DropLast, EmptySeq DEF TypeOK
      <3>. QED
        BY <1>0, <1>6, <2>1, <2>2, <3>1
           DEF SequenceEnd, DropHeld, Bounded, TypeOK, HeadIntact, EndsARun, Errors
    <2>3. CASE pend = <<>>
      <3>1. Push(EndMarker)
        BY <1>6, <2>3 DEF SequenceEnd
      <3>2. /\ todo' \in Seq(Byte) /\ EndsARun(todo') /\ pend' \in Seq(Ids) /\ result' \in Errors
        BY <3>1, PushBounded, EndMarkerType DEF EndsARun
      <3>. QED
        BY <1>0, <1>6, <2>1, <3>1, <3>2 DEF Push, Bounded, TypeOK, HeadIntact, EndsARun
    <2>. QED
      BY <2>2, <2>3
  <1>7. CASE SequenceEndKeep
    <2>1. seqDepth' \in Nat /\ owed' \in Nat /\ calls' \in Nat /\ alive' = alive
      BY <1>0, <1>7 DEF SequenceEndKeep, Called, LeaveLevel, TypeOK
    <2>2. Push(EndMarker)
      BY <1>7 DEF SequenceEndKeep
    <2>3. /\ todo' \in Seq(Byte) /\ EndsARun(todo') /\ pend' \in Seq(Ids) /\ result' \in Errors
      BY <2>2, PushBounded, EndMarkerType DEF EndsARun
    <2>. QED
      BY <1>0, <1>7, <2>1, <2>2, <2>3 DEF Push, Bounded, TypeOK, HeadIntact, EndsARun
  <1>8. CASE Abandon
    BY <1>0, <1>8 DEF Abandon, Bounded, TypeOK, HeadIntact, EndsARun, streamVars
  <1>9. CASE Flush
    <2>1. /\ buf' \in Seq(Stored) /\ cap' \in Nat /\ off' \in Nat
          /\ off' <= Len(buf') /\ Len(buf') <= cap'
          /\ failure' \in Errors /\ HeadIntact'
      BY <1>0, <1>9, SinkReturnsBounded DEF Flush, HandOver
    <2>2. handed' \subseteq Nat
      BY <1>0, <1>9, PacketType DEF Flush, HandOver
    <2>. QED
      BY <1>0, <1>9, <2>1, <2>2, OutType
         DEF Flush, HandOver, Called, Bounded, TypeOK, EndsARun
  <1>10. CASE Destroy
    <2>1. buf' \in Seq(Stored) /\ off' \in Nat /\ off' <= Len(buf') /\ Len(buf') <= cap'
      <3>1. cap' = cap
        BY <1>10 DEF Destroy
      <3>2. CASE HasContent
        BY <1>0, <1>10, <3>1, <3>2, EmptySeq DEF Destroy, TypeOK
      <3>3. CASE ~HasContent
        BY <1>0, <1>10, <3>1, <3>3 DEF Destroy, TypeOK
      <3>. QED
        BY <3>2, <3>3
    <2>2. HeadIntact'
      BY <1>0, <1>10 DEF Destroy, HeadIntact
    <2>3. handed' \subseteq Nat
      BY <1>0, <1>10, PacketType DEF Destroy, TypeOK
    <2>4. sent' \in Seq(Stored)
      <3>1. JunkByte \in Stored /\ Len(Message) \in Nat
        BY <1>0, OutType, LenProperties DEF Stored
      <3>2. [i \in 1..Len(Message) |-> JunkByte] \in Seq(Stored)
        BY <3>1
      <3>3. sent \o [i \in 1..Len(Message) |-> JunkByte] \in Seq(Stored)
        BY <1>0, <3>2, ConcatProperties DEF TypeOK
      <3>4. sent' \in {Out, sent \o [i \in 1..Len(Message) |-> JunkByte], sent}
        BY <1>10 DEF Destroy
      <3>. QED
        BY <1>0, <3>3, <3>4, OutType DEF TypeOK
    <2>. QED
      BY <1>0, <1>10, <2>1, <2>2, <2>3, <2>4 DEF Destroy, Bounded, TypeOK, EndsARun
  <1>11. CASE PushRun
    BY <1>11, StoreBounded DEF PushRun
  <1>12. CASE PushSome
    <2>1. Room \in Nat \ {0} /\ Len(todo) \in Nat \ {0} /\ todo # <<>>
      BY <1>0, <1>12, LenProperties, EmptySeq DEF PushSome, Room, TypeOK
    <2>2. todo[Len(todo)].last /\ ~RunFits
      BY <1>0, <1>12 DEF PushSome, EndsARun
    <2>3. Room \in 1..Len(todo)
      BY <2>1, <2>2 DEF RunFits
    <2>. QED
      BY <1>12, <2>3, StoreBounded DEF PushSome
  <1>13. CASE PushCondemned
    BY <1>0, <1>13
       DEF PushCondemned, Fail, Bounded, TypeOK, HeadIntact, EndsARun, UnchangedByPush
  <1>14. CASE PushFull
    BY <1>0, <1>14
       DEF PushFull, Fail, Latch, Bounded, TypeOK, HeadIntact, EndsARun, UnchangedByPush, Errors
  <1>15. CASE PushFlush
    <2>1. /\ buf' \in Seq(Stored) /\ cap' \in Nat /\ off' \in Nat
          /\ off' <= Len(buf') /\ Len(buf') <= cap'
          /\ failure' \in Errors /\ HeadIntact'
      BY <1>0, <1>15, SinkReturnsBounded DEF PushFlush, HandOver
    <2>2. handed' \subseteq Nat
      BY <1>0, <1>15, PacketType DEF PushFlush, HandOver
    <2>. QED
      BY <1>0, <1>15, <2>1, <2>2, OutType, EmptySeq
         DEF PushFlush, HandOver, Fail, Bounded, TypeOK, EndsARun, UnchangedByPush
  <1>16. CASE UNCHANGED vars
    BY <1>0, <1>16 DEF vars, streamVars, Bounded, TypeOK, HeadIntact, EndsARun
  <1>. QED
    BY <1>1, <1>2, <1>3, <1>4, <1>5, <1>6, <1>7, <1>8, <1>9, <1>10, <1>11, <1>12,
       <1>13, <1>14, <1>15, <1>16 DEF Next, Gone

------------------------------------------------------------------------------
(* The bookkeeping around the bytes: nesting, verdict and handed-over packets. *)

\* Code that follows the verdict owes exactly the closers of the open sequences.
NestingAgrees == failure = "None" => owed = seqDepth
\* Behind a sink a buffer in use has room for a byte past its head.
RoomBehindHead == sink /\ failure = "None" => off < cap
\* An overflow is latched only on a stream without a sink.
OverflowNeedsNoSink == failure = "BufferFull" => ~sink

Safe ==
    /\ Bounded
    /\ PendingWithinDepth /\ NestingAgrees /\ VerdictCovers
    /\ RoomBehindHead /\ NoHollowPacket /\ OverflowParked /\ OverflowNeedsNoSink

\* A buffer that initBuffer takes, behind a sink, has room past its head.
LEMMA InitBufferSafe ==
  ASSUME NEW i \in Installs, InitBuffer(i[1], i[2]), failure \in Errors, sink' = sink
  PROVE  /\ Len(buf') = off'
         /\ RoomBehindHead'
         /\ failure' \in {failure, "InvalidArgument"}
         /\ failure # "None" => failure' = failure
  <1>1. i[1] \in Nat /\ i[2] \in Nat
    BY EncoderAssumption
  <1>2. CASE Rejects(i[1], i[2])
    BY <1>1, <1>2 DEF InitBuffer, Latch, Errors, RoomBehindHead
  <1>3. CASE ~Rejects(i[1], i[2])
    <2>1. buf' = [k \in 1..i[2] |-> HeadByte] /\ cap' = i[1] /\ off' = i[2] /\ failure' = failure
      BY <1>3 DEF InitBuffer
    <2>2. Len(buf') = i[2]
      BY <1>1, <2>1
    <2>3. sink => i[2] < i[1]
      BY <1>1, <1>3 DEF Rejects, MIN_OUTPUT_BUFFER
    <2>. QED
      BY <2>1, <2>2, <2>3 DEF RoomBehindHead
  <1>. QED
    BY <1>2, <1>3

\* So does the buffer the sink leaves, unless the stream is condemned.
LEMMA SinkReturnsSafe ==
  ASSUME Safe, SinkReturns, sink' = sink
  PROVE  /\ Len(buf') = off'
         /\ RoomBehindHead'
         /\ failure' \in {failure, "InvalidArgument"}
         /\ failure # "None" => failure' = failure
  <1>1. CASE buf' = <<>> /\ off' = 0 /\ UNCHANGED <<cap, failure>>
    BY <1>1 DEF Safe, Bounded, TypeOK, RoomBehindHead
  <1>2. CASE \E i \in Installs : InitBuffer(i[1], i[2])
    BY <1>2, InitBufferSafe DEF Safe, Bounded, TypeOK
  <1>. QED
    BY <1>1, <1>2 DEF SinkReturns

\* A stream starts with nothing open, nothing handed over and its verdict known.
LEMMA InitSafe == Init => Safe
  <1>. SUFFICES ASSUME Init PROVE Safe
    OBVIOUS
  <1>1. PICK i \in Installs :
          IF Rejects(i[1], i[2])
          THEN buf = <<>> /\ cap = 0 /\ off = 0 /\ failure = "InvalidArgument"
          ELSE buf = [k \in 1..i[2] |-> HeadByte] /\ cap = i[1] /\ off = i[2]
               /\ failure = "None"
    BY DEF Init
  <1>2. i[1] \in Nat /\ i[2] \in Nat
    BY EncoderAssumption
  <1>3. RoomBehindHead
    BY <1>1, <1>2 DEF RoomBehindHead, Rejects, MIN_OUTPUT_BUFFER
  <1>4. OverflowParked /\ OverflowNeedsNoSink
    BY <1>1 DEF OverflowParked, OverflowNeedsNoSink
  <1>5. PendingWithinDepth
    BY SizeAssumption DEF Init, PendingWithinDepth
  <1>. QED
    BY <1>3, <1>4, <1>5, InitBounded DEF Init, Safe, NestingAgrees, VerdictCovers, NoHollowPacket

\* A call that pushes starts with a clean Result and an empty run.
LEMMA PushSafe ==
  ASSUME Safe, NEW content, Push(content), seqDepth' \in 0..MAX_DEPTH,
         failure = "None" => owed' = seqDepth'
  PROVE  /\ PendingWithinDepth' /\ NestingAgrees' /\ VerdictCovers'
         /\ RoomBehindHead' /\ NoHollowPacket' /\ OverflowParked'
         /\ OverflowNeedsNoSink'
  <1>1. MAX_DEPTH \in Nat
    BY SizeAssumption
  <1>2. PendingWithinDepth'
    BY <1>1 DEF Push, PendingWithinDepth
  <1>. QED
    BY <1>2 DEF Push, ghostVars, Safe, NestingAgrees, VerdictCovers, RoomBehindHead, NoHollowPacket,
                OverflowParked, OverflowNeedsNoSink, Room

\* Every step keeps what Safe says of the nesting, the verdict and the buffer.
LEMMA StepSafe == Safe /\ [Next]_vars => Safe'
  <1>. SUFFICES ASSUME Safe, [Next]_vars PROVE Safe'
    OBVIOUS
  <1>. USE DEF ghostVars
  <1>0. /\ Bounded /\ TypeOK /\ Bounded'
        /\ PendingWithinDepth /\ NestingAgrees /\ VerdictCovers
        /\ RoomBehindHead /\ NoHollowPacket /\ OverflowParked /\ OverflowNeedsNoSink
        /\ MAX_DEPTH \in Nat /\ Len(pend) \in Nat
    BY StepBounded, SizeAssumption, LenProperties DEF Safe, Bounded, TypeOK
  <1>. DEFINE Rest == /\ PendingWithinDepth /\ NestingAgrees /\ VerdictCovers
                      /\ RoomBehindHead /\ NoHollowPacket /\ OverflowParked /\ OverflowNeedsNoSink
  <1>. SUFFICES Rest'
    BY <1>0 DEF Safe
  <1>1. ASSUME NEW f \in Fields, Write(f) PROVE Rest'
    <2>1. seqDepth' \in 0..MAX_DEPTH /\ (failure = "None" => owed' = seqDepth') /\ Push(Wire[f])
      BY <1>0, <1>1 DEF Write, PendingWithinDepth, NestingAgrees, TypeOK
    <2>. QED
      BY <2>1, PushSafe
  <1>2. ASSUME NEW id \in Ids, SequenceBeginLazy(id) PROVE Rest'
    <2>1. Len(pend') = Len(pend) + 1 /\ seqDepth' = seqDepth + 1 /\ owed' = owed + 1
          /\ seqDepth < MAX_DEPTH
      BY <1>0, <1>2, AppendProperties DEF SequenceBeginLazy, TooDeep, TypeOK
    <2>. QED
      BY <1>0, <1>2, <2>1
         DEF SequenceBeginLazy, TypeOK, PendingWithinDepth, NestingAgrees, VerdictCovers,
             RoomBehindHead, NoHollowPacket, OverflowParked, OverflowNeedsNoSink, Room
  <1>3. ASSUME NEW i \in Installs, SetBuffer(i[1], i[2]) PROVE Rest'
    <2>1. /\ Len(buf') = off'
          /\ RoomBehindHead'
          /\ failure' \in {failure, "InvalidArgument"}
          /\ failure # "None" => failure' = failure
      BY <1>0, <1>3, InitBufferSafe DEF SetBuffer, TypeOK
    <2>. QED
      BY <1>0, <1>3, <2>1
         DEF SetBuffer, PendingWithinDepth, NestingAgrees, VerdictCovers, NoHollowPacket,
             OverflowParked, OverflowNeedsNoSink
  <1>4. CASE Refuse
    BY <1>0, <1>4
       DEF Refuse, Latch, PendingWithinDepth, NestingAgrees, VerdictCovers, RoomBehindHead,
           NoHollowPacket, OverflowParked, OverflowNeedsNoSink, Room, TypeOK, Errors
  <1>5. CASE RefuseSequence
    BY <1>0, <1>5
       DEF RefuseSequence, Latch, PendingWithinDepth, NestingAgrees, VerdictCovers,
           RoomBehindHead, NoHollowPacket, OverflowParked, OverflowNeedsNoSink, Room, TypeOK, Errors
  <1>6. CASE SequenceEnd
    <2>1. /\ owed \in Nat /\ seqDepth \in 0..MAX_DEPTH /\ owed > 0 /\ owed' = owed - 1
          /\ seqDepth' = IF seqDepth > 0 THEN seqDepth - 1 ELSE 0
      BY <1>0, <1>6 DEF SequenceEnd, LeaveLevel, TypeOK, PendingWithinDepth
    <2>2. seqDepth' \in 0..MAX_DEPTH /\ (failure = "None" => owed' = seqDepth')
      BY <1>0, <2>1 DEF NestingAgrees
    <2>3. CASE pend # <<>>
      <3>1. DropHeld /\ Len(pend) > 0
        BY <1>0, <1>6, <2>3, EmptySeq DEF SequenceEnd, TypeOK
      <3>2. Len(pend') = Len(pend) - 1
        BY <1>0, <3>1, DropLast DEF DropHeld, TypeOK
      <3>3. PendingWithinDepth'
        BY <1>0, <2>1, <2>2, <3>1, <3>2 DEF PendingWithinDepth
      <3>. QED
        BY <1>0, <2>2, <3>1, <3>3
           DEF DropHeld, NestingAgrees, VerdictCovers, RoomBehindHead, NoHollowPacket,
               OverflowParked, OverflowNeedsNoSink, Room
    <2>4. CASE pend = <<>>
      BY <1>6, <2>2, <2>4, PushSafe DEF SequenceEnd
    <2>. QED
      BY <2>3, <2>4
  <1>7. CASE SequenceEndKeep
    <2>1. /\ owed \in Nat /\ seqDepth \in 0..MAX_DEPTH /\ owed > 0 /\ owed' = owed - 1
          /\ seqDepth' = IF seqDepth > 0 THEN seqDepth - 1 ELSE 0
      BY <1>0, <1>7 DEF SequenceEndKeep, LeaveLevel, TypeOK, PendingWithinDepth
    <2>2. seqDepth' \in 0..MAX_DEPTH /\ (failure = "None" => owed' = seqDepth')
      BY <1>0, <2>1 DEF NestingAgrees
    <2>. QED
      BY <1>7, <2>2, PushSafe DEF SequenceEndKeep
  <1>8. CASE Abandon
    BY <1>0, <1>8
       DEF Abandon, streamVars, PendingWithinDepth, NestingAgrees, VerdictCovers, RoomBehindHead,
           NoHollowPacket, OverflowParked, OverflowNeedsNoSink, Room
  <1>9. CASE Flush
    <2>1. /\ RoomBehindHead'
          /\ failure' \in {failure, "InvalidArgument"}
          /\ failure # "None" => failure' = failure
      BY <1>9, SinkReturnsSafe DEF Flush, HandOver
    <2>2. Len(buf) - off # 0
      BY <1>0, <1>9, LenProperties DEF Flush, HasContent, TypeOK
    <2>3. failure' # "BufferFull"
      BY <1>0, <1>9, <2>1 DEF OverflowNeedsNoSink, Flush, HasContent
    <2>. QED
      BY <1>0, <1>9, <2>1, <2>2, <2>3
         DEF Flush, HandOver, PendingWithinDepth, NestingAgrees, VerdictCovers, NoHollowPacket,
             OverflowParked, OverflowNeedsNoSink
  <1>10. CASE Destroy
    <2>1. UNCHANGED <<cap, sink, pend, seqDepth, failure, result, owed, reopened>>
      BY <1>10 DEF Destroy
    <2>2. CASE HasContent
      <3>1. /\ off' = 0 /\ handed' = handed \cup {Len(buf) - off} /\ sink
            /\ Len(buf) - off # 0 /\ off < cap /\ off \in Nat /\ cap \in Nat
        BY <1>0, <1>10, <2>2, LenProperties DEF Destroy, HasContent, TypeOK
      <3>. QED
        BY <1>0, <2>1, <3>1
           DEF PendingWithinDepth, NestingAgrees, VerdictCovers, RoomBehindHead,
               NoHollowPacket, OverflowParked, OverflowNeedsNoSink
    <2>3. CASE ~HasContent
      <3>1. UNCHANGED <<buf, off, handed>>
        BY <1>10, <2>3 DEF Destroy
      <3>. QED
        BY <1>0, <2>1, <3>1
           DEF PendingWithinDepth, NestingAgrees, VerdictCovers, RoomBehindHead,
               NoHollowPacket, OverflowParked, OverflowNeedsNoSink, Room
    <2>. QED
      BY <2>2, <2>3
  <1>11. CASE PushRun
    <2>1. PICK n \in 1..Len(todo) : n <= Room /\ Store(n)
      BY <1>11 DEF PushRun
    <2>2. Room # 0
      BY <1>0, <2>1, LenProperties DEF TypeOK, Room
    <2>. QED
      BY <1>0, <2>1, <2>2
         DEF Store, UnchangedByPush, PendingWithinDepth, NestingAgrees, VerdictCovers,
             RoomBehindHead, NoHollowPacket, OverflowParked, OverflowNeedsNoSink, Room
  <1>12. CASE PushSome
    BY <1>0, <1>12
       DEF PushSome, Store, UnchangedByPush, PendingWithinDepth, NestingAgrees, VerdictCovers,
           RoomBehindHead, NoHollowPacket, OverflowParked, OverflowNeedsNoSink, Room
  <1>13. CASE PushCondemned
    BY <1>0, <1>13
       DEF PushCondemned, Fail, UnchangedByPush, PendingWithinDepth, NestingAgrees,
           VerdictCovers, RoomBehindHead, NoHollowPacket, OverflowParked, OverflowNeedsNoSink,
           Room
  <1>14. CASE PushFull
    BY <1>0, <1>14
       DEF PushFull, AtEnd, Fail, Latch, UnchangedByPush, PendingWithinDepth, NestingAgrees,
           VerdictCovers, RoomBehindHead, NoHollowPacket, OverflowParked, OverflowNeedsNoSink,
           Room
  <1>15. CASE PushFlush
    <2>1. sink' = sink /\ sink /\ failure = "None"
      BY <1>15 DEF PushFlush, UnchangedByPush, AtEnd
    <2>2. /\ RoomBehindHead'
          /\ failure' \in {failure, "InvalidArgument"}
          /\ failure # "None" => failure' = failure
      BY <1>15, <2>1, SinkReturnsSafe DEF PushFlush, HandOver
    <2>3. Len(buf) - off # 0
      <3>1. Len(buf) \in Nat /\ off \in Nat /\ cap \in Nat /\ cap - Len(buf) = 0 /\ off < cap
        BY <1>0, <1>15, <2>1, LenProperties DEF PushFlush, AtEnd, Room, TypeOK, RoomBehindHead
      <3>. QED
        BY <3>1
    <2>4. failure' # "BufferFull"
      BY <2>1, <2>2
    <2>. QED
      BY <1>0, <1>15, <2>1, <2>2, <2>3, <2>4
         DEF PushFlush, HandOver, Fail, UnchangedByPush, PendingWithinDepth, NestingAgrees,
             VerdictCovers, NoHollowPacket, OverflowParked, OverflowNeedsNoSink
  <1>16. CASE UNCHANGED vars
    BY <1>0, <1>16
       DEF vars, streamVars, PendingWithinDepth, NestingAgrees, VerdictCovers, RoomBehindHead,
           NoHollowPacket, OverflowParked, OverflowNeedsNoSink, Room
  <1>. QED
    BY <1>1, <1>2, <1>3, <1>4, <1>5, <1>6, <1>7, <1>8, <1>9, <1>10, <1>11, <1>12,
       <1>13, <1>14, <1>15, <1>16 DEF Next, Gone

------------------------------------------------------------------------------
(* The safety properties of OStream.tla, for every instance. *)

\* The inductive invariant holds in every state of every run of the encoder.
THEOREM SafeAlways == Spec => []Safe
  <1>1. Init => Safe
    BY InitSafe
  <1>2. Safe /\ [Next]_vars => Safe'
    BY StepSafe
  <1>. QED
    BY <1>1, <1>2, PTL DEF Spec

\* The cursor never leaves the buffer and every variable keeps its type: pushByte's
\* store (sofab.hpp:1631) is in bounds whatever is installed and whatever fails.
THEOREM TypeCorrect == Spec => []TypeOK
  <1>1. Safe => TypeOK
    BY DEF Safe, Bounded
  <1>. QED
    BY <1>1, SafeAlways, PTL

\* The fixed array of PendingRun is never outrun (sofab.hpp:1383-1391, 2410-2427).
THEOREM DepthBounded == Spec => []PendingWithinDepth
  <1>1. Safe => PendingWithinDepth
    BY DEF Safe
  <1>. QED
    BY <1>1, SafeAlways, PTL

\* No message byte is ever stored in the reserved head of an installation.
THEOREM HeadPreserved == Spec => []HeadIntact
  <1>1. Safe => HeadIntact
    BY DEF Safe, Bounded
  <1>. QED
    BY <1>1, SafeAlways, PTL

\* An error a call returned has always reached ok() / error().
THEOREM VerdictComplete == Spec => []VerdictCovers
  <1>1. Safe => VerdictCovers
    BY DEF Safe
  <1>. QED
    BY <1>1, SafeAlways, PTL

\* The sink is never handed a packet without a message byte.
THEOREM PacketsCarryContent == Spec => []NoHollowPacket
  <1>1. Safe => NoHollowPacket
    BY DEF Safe
  <1>. QED
    BY <1>1, SafeAlways, PTL

\* After an overflow nothing more is written into that buffer.
THEOREM OverflowIsFinal == Spec => []OverflowParked
  <1>1. Safe => OverflowParked
    BY DEF Safe
  <1>. QED
    BY <1>1, SafeAlways, PTL

------------------------------------------------------------------------------
(* OStream.tla implements Encoder.tla, for every instance in which the storage *)
(* of the stream outlives it (SoleOwner is FALSE: with it the destructor hands *)
(* over freed memory, see DestructorDrains).                                   *)

------------------------------------------------------------------------------
(* Where the bytes go. *)

\* A sequence is an initial part of itself with something behind it.
LEMMA BeginsConcat ==
  ASSUME NEW S, NEW s \in Seq(S), NEW t \in Seq(S)
  PROVE  E!Begins(s, s \o t)
  <1>1. Len(s) \in Nat /\ Len(t) \in Nat /\ Len(s \o t) = Len(s) + Len(t)
    BY LenProperties, ConcatProperties
  <1>2. CASE Len(s) = 0
    <2>1. s = <<>> /\ SubSeq(s \o t, 1, 0) = <<>>
      BY <1>2, EmptySeq, SubSeqEmpty
    <2>. QED
      BY <1>1, <1>2, <2>1 DEF E!Begins
  <1>3. CASE Len(s) > 0
    <2>1. SubSeq(s \o t, 1, Len(s)) = SubSeq(s, 1, Len(s))
      BY <1>1, <1>3, SubSeqOfConcat1
    <2>2. SubSeq(s, 1, Len(s)) = s
      BY SubSeqFull
    <2>. QED
      BY <1>1, <2>1, <2>2 DEF E!Begins
  <1>. QED
    BY <1>1, <1>2, <1>3

\* ... and of itself.
LEMMA BeginsItself ==
  ASSUME NEW S, NEW s \in Seq(S)
  PROVE  E!Begins(s, s)
  <1>1. Len(s) \in Nat /\ SubSeq(s, 1, Len(s)) = s
    BY LenProperties, SubSeqFull
  <1>. QED
    BY <1>1 DEF E!Begins

\* A message byte is a stored byte.
LEMMA TodoType ==
  ASSUME TypeOK
  PROVE  todo \in Seq(Stored)
  BY HeadIsNoByte, SeqMonotonic DEF TypeOK

\* Behind the end of a sequence there is nothing.
LEMMA NothingBehind ==
  ASSUME NEW s, NEW n \in Nat, Len(s) = n
  PROVE  SubSeq(s, n + 1, Len(s)) = <<>>
  <1>1. n + 1 \in Int /\ n \in Int /\ n < n + 1
    OBVIOUS
  <1>2. SubSeq(s, n + 1, n) = <<>>
    BY <1>1, SubSeqEmpty
  <1>. QED
    BY <1>2

\* Nothing is lost when the sink, or the caller, has taken what the buffer held.
LEMMA OutTaken ==
  ASSUME TypeOK, TypeOK', Len(buf') = off', sent' = Out
  PROVE  Out' = Out
  <1>1. off' \in Nat
    BY DEF TypeOK
  <1>2. Message' = <<>>
    BY <1>1, NothingBehind DEF Message
  <1>. QED
    BY <1>2, OutType, ConcatEmptySeq DEF Out

\* The end of a buffer that grows is its old end and what was added.
LEMMA GrownEnd ==
  ASSUME NEW S, NEW b \in Seq(S), NEW h \in Seq(S), NEW o \in 0..Len(b)
  PROVE  SubSeq(b \o h, o + 1, Len(b \o h)) = SubSeq(b, o + 1, Len(b)) \o h
  <1>. DEFINE l == SubSeq(b \o h, o + 1, Len(b \o h))
              e == SubSeq(b, o + 1, Len(b))
  <1>1. /\ Len(b) \in Nat /\ Len(h) \in Nat /\ o \in Nat
        /\ b \o h \in Seq(S) /\ Len(b \o h) = Len(b) + Len(h)
        /\ \A i \in 1..(Len(b) + Len(h)) :
              (b \o h)[i] = IF i <= Len(b) THEN b[i] ELSE h[i - Len(b)]
    BY LenProperties, ConcatProperties
  <1>2. /\ l \in Seq(S) /\ Len(l) = Len(b) + Len(h) - o
        /\ \A i \in 1..(Len(b) + Len(h) - o) : l[i] = (b \o h)[o + i]
    <2>1. \A i \in (o + 1)..Len(b \o h) : (b \o h)[i] \in S
      BY <1>1, ElementOfSeq
    <2>2. /\ l \in Seq(S)
          /\ Len(l) = IF o + 1 <= Len(b \o h) THEN Len(b \o h) - (o + 1) + 1 ELSE 0
          /\ \A i \in 1..(Len(b \o h) - (o + 1) + 1) : l[i] = (b \o h)[o + 1 + i - 1]
      BY <1>1, <2>1, SubSeqProperties
    <2>. HIDE DEF l, e
    <2>3. Len(l) = Len(b) + Len(h) - o
      BY <1>1, <2>2
    <2>4. ASSUME NEW i \in 1..(Len(b) + Len(h) - o) PROVE l[i] = (b \o h)[o + i]
      <3>1. i \in 1..(Len(b \o h) - (o + 1) + 1) /\ o + 1 + i - 1 = o + i
        BY <1>1
      <3>. QED
        BY <2>2, <3>1
    <2>. QED
      BY <2>2, <2>3, <2>4
  <1>3. /\ e \in Seq(S) /\ Len(e) = Len(b) - o
        /\ \A i \in 1..(Len(b) - o) : e[i] = b[o + i]
    <2>1. \A i \in (o + 1)..Len(b) : b[i] \in S
      BY <1>1, ElementOfSeq
    <2>2. /\ e \in Seq(S)
          /\ Len(e) = IF o + 1 <= Len(b) THEN Len(b) - (o + 1) + 1 ELSE 0
          /\ \A i \in 1..(Len(b) - (o + 1) + 1) : e[i] = b[o + 1 + i - 1]
      BY <1>1, <2>1, SubSeqProperties
    <2>. HIDE DEF e
    <2>. QED
      BY <1>1, <2>2
  <1>. HIDE DEF l, e
  <1>4. /\ e \o h \in Seq(S) /\ Len(e \o h) = Len(e) + Len(h)
        /\ \A i \in 1..(Len(e) + Len(h)) :
              (e \o h)[i] = IF i <= Len(e) THEN e[i] ELSE h[i - Len(e)]
    BY <1>3, ConcatProperties
  <1>5. \A i \in 1..Len(l) : l[i] = (e \o h)[i]
    <2>. SUFFICES ASSUME NEW i \in 1..Len(l) PROVE l[i] = (e \o h)[i]
      OBVIOUS
    <2>1. i \in 1..(Len(b) + Len(h) - o) /\ o + i \in 1..(Len(b) + Len(h))
      BY <1>1, <1>2
    <2>2. l[i] = IF o + i <= Len(b) THEN b[o + i] ELSE h[o + i - Len(b)]
      BY <1>1, <1>2, <2>1
    <2>3. (e \o h)[i] = IF i <= Len(b) - o THEN e[i] ELSE h[i - (Len(b) - o)]
      <3>1. Len(e) = Len(b) - o
        BY <1>3
      <3>2. i \in 1..(Len(e) + Len(h))
        BY <1>1, <2>1, <3>1
      <3>3. (e \o h)[i] = IF i <= Len(e) THEN e[i] ELSE h[i - Len(e)]
        BY <1>4, <3>2
      <3>. QED
        BY <3>1, <3>3
    <2>4. CASE o + i <= Len(b)
      BY <1>1, <1>3, <2>1, <2>2, <2>3, <2>4
    <2>5. CASE o + i > Len(b)
      <3>1. i - (Len(b) - o) = o + i - Len(b) /\ ~(i <= Len(b) - o) /\ ~(o + i <= Len(b))
        BY <1>1, <2>1, <2>5
      <3>. QED
        BY <2>2, <2>3, <3>1
    <2>6. o + i <= Len(b) \/ o + i > Len(b)
      BY <1>1, <2>1
    <2>. QED
      BY <2>4, <2>5, <2>6
  <1>6. Len(l) = Len(e \o h)
    BY <1>1, <1>2, <1>3, <1>4
  <1>7. l = e \o h
    BY <1>2, <1>4, <1>5, <1>6, SeqEqual
  <1>. QED
    BY <1>7 DEF l, e

\* Storing bytes moves them from what is to be pushed to what has been.
LEMMA StoreMoves ==
  ASSUME TypeOK, NEW n \in 1..Len(todo), Store(n)
  PROVE  /\ SubSeq(todo, 1, n) \in Seq(Stored)
         /\ Out' = Out \o SubSeq(todo, 1, n)
         /\ Out' \o todo' = Out \o todo
  <1>. DEFINE h == SubSeq(todo, 1, n)
              rest == SubSeq(todo, n + 1, Len(todo))
  <1>1. /\ todo \in Seq(Stored) /\ Len(todo) \in Nat /\ n \in Nat
        /\ \A i \in 1..Len(todo) : todo[i] \in Stored
    BY TodoType, LenProperties, ElementOfSeq
  <1>2. h \in Seq(Stored) /\ rest \in Seq(Stored)
    BY <1>1, SubSeqProperties
  <1>3. h \o rest = todo
    BY <1>1, ConcatAdjacentSubSeq, SubSeqFull
  <1>4. buf' = buf \o h /\ todo' = rest /\ off' = off /\ sent' = sent
    BY DEF Store
  <1>. HIDE DEF h, rest
  <1>5. Message' = Message \o h
    <2>1. buf \in Seq(Stored) /\ off \in 0..Len(buf)
      BY LenProperties DEF TypeOK
    <2>2. Message' = SubSeq(buf \o h, off + 1, Len(buf \o h))
      BY <1>4 DEF Message
    <2>3. SubSeq(buf \o h, off + 1, Len(buf \o h)) = SubSeq(buf, off + 1, Len(buf)) \o h
      BY <1>2, <2>1, GrownEnd
    <2>. QED
      BY <2>2, <2>3 DEF Message
  <1>6. Out' = Out \o h
    <2>1. Message \in Seq(Stored) /\ sent \in Seq(Stored)
      BY OutType DEF TypeOK
    <2>2. (sent \o Message) \o h = sent \o (Message \o h)
      BY <1>2, <2>1, ConcatAssociative
    <2>. QED
      BY <1>4, <1>5, <2>2 DEF Out
  <1>7. Out' \o todo' = Out \o (h \o rest)
    <2>1. Out \in Seq(Stored)
      BY OutType
    <2>2. (Out \o h) \o rest = Out \o (h \o rest)
      BY <1>2, <2>1, ConcatAssociative
    <2>. QED
      BY <1>4, <1>6, <2>2
  <1>. QED
    BY <1>2, <1>3, <1>6, <1>7 DEF h

------------------------------------------------------------------------------
(* The steps of the encoder as steps of its promise. *)

\* Encoder.tla and OStream.tla speak of the same bytes and the same codes.
LEMMA SameWire ==
  E!Errors = Errors /\ E!EndMarker = EndMarker /\ \A p : E!Headers(p) = Headers(p)
  BY DEF E!Errors, Errors, E!EndMarker, EndMarker, E!Headers, Headers

\* Whatever a condemned stream does that keeps its verdict and what it has written.
LEMMA CondemnedStep ==
  ASSUME failure # "None", failure' = failure, reopened => reopened',
         E!Begins(Out, Out'), failure = "BufferFull" /\ ~reopened => Out' = Out
  PROVE  E!Next
  <1>1. E!Condemned
    BY DEF E!Condemned, E!Healthy
  <1>. QED
    BY <1>1 DEF E!Next

\* A failure cuts off at most what the running call has still to push.
LEMMA CondemnStep ==
  ASSUME TypeOK, failure = "None", failure' \in Errors \ {"None"}, Out' = Out,
         pend' \in {pend, <<>>}, seqDepth' = seqDepth, reopened' = reopened
  PROVE  E!Next
  <1>1. E!Begins(Out, Out \o todo)
    BY OutType, TodoType, BeginsConcat
  <1>2. E!Condemn
    BY <1>1, SameWire DEF E!Condemn, E!Healthy
  <1>. QED
    BY <1>2 DEF E!Next

\* A step that leaves the message alone, or condemns the stream, is allowed.
LEMMA QuietStep ==
  ASSUME TypeOK, failure' \in Errors, failure # "None" => failure' = failure,
         Out' = Out, todo = <<>>, todo' = <<>>, pend' = pend, seqDepth' = seqDepth,
         reopened => reopened', failure = "None" => reopened' = reopened
  PROVE  [E!Next]_(E!vars)
  <1>1. CASE failure # "None"
    <2>1. E!Begins(Out, Out')
      BY OutType, BeginsItself
    <2>. QED
      BY <1>1, <2>1, CondemnedStep
  <1>2. CASE failure = "None" /\ failure' # "None"
    BY <1>2, CondemnStep
  <1>3. CASE failure = "None" /\ failure' = "None"
    BY <1>3 DEF E!vars
  <1>. QED
    BY <1>1, <1>2, <1>3

\* The content of a call, behind the headers held back, joins the message at once.
LEMMA PushAdds ==
  ASSUME TypeOK, NEW content \in Seq(Byte), Push(content), todo = <<>>, failure = "None"
  PROVE  /\ Out \o todo = Out
         /\ Out' \o todo' = ((Out \o todo) \o Headers(pend)) \o content
         /\ failure' = "None" /\ pend' = <<>> /\ reopened' = reopened
  <1>1. Headers(pend) \in Seq(Stored) /\ content \in Seq(Stored) /\ Out \in Seq(Stored)
    BY HeadersType, OutType, HeadIsNoByte, SeqMonotonic DEF TypeOK
  <1>2. Out \o <<>> = Out
    BY <1>1, ConcatEmptySeq
  <1>3. Out' = Out /\ todo' = Headers(pend) \o content
    BY DEF Push, Out, Message, ghostVars
  <1>4. (Out \o Headers(pend)) \o content = Out \o (Headers(pend) \o content)
    BY <1>1, ConcatAssociative
  <1>. QED
    BY <1>2, <1>3, <1>4 DEF Push, ghostVars

\* A condemned stream that goes on pushing adds nothing before it stores a byte.
LEMMA PushCondemnedStep ==
  ASSUME TypeOK, NEW content, Push(content), failure # "None"
  PROVE  E!Next
  <1>1. Out' = Out /\ failure' = failure /\ reopened' = reopened
    BY DEF Push, Out, Message, ghostVars
  <1>2. E!Begins(Out, Out')
    BY <1>1, OutType, BeginsItself
  <1>. QED
    BY <1>1, <1>2, CondemnedStep

\* Every step keeps the first failure.
LEMMA VerdictKept ==
  ASSUME Safe, [Next]_vars, failure # "None"
  PROVE  failure' = failure
  <1>. USE DEF ghostVars
  <1>1. ASSUME NEW f \in Fields, Write(f) PROVE failure' = failure
    BY <1>1 DEF Write, Push
  <1>2. ASSUME NEW id \in Ids, SequenceBeginLazy(id) PROVE failure' = failure
    BY <1>2 DEF SequenceBeginLazy
  <1>3. ASSUME NEW i \in Installs, SetBuffer(i[1], i[2]) PROVE failure' = failure
    BY <1>3 DEF SetBuffer, InitBuffer, Latch
  <1>4. CASE Refuse \/ RefuseSequence
    BY <1>4 DEF Refuse, RefuseSequence, Latch
  <1>5. CASE SequenceEnd \/ SequenceEndKeep
    BY <1>5 DEF SequenceEnd, SequenceEndKeep, DropHeld, Push
  <1>6. CASE Abandon \/ Destroy \/ UNCHANGED vars
    BY <1>6 DEF Abandon, Destroy, vars, streamVars
  <1>7. CASE Flush \/ PushFlush
    <2>1. SinkReturns /\ sink' = sink
      BY <1>7 DEF Flush, PushFlush, HandOver, UnchangedByPush
    <2>. QED
      BY <2>1, SinkReturnsSafe
  <1>8. CASE PushRun \/ PushSome
    BY <1>8 DEF PushRun, PushSome, Store
  <1>9. CASE PushCondemned \/ PushFull
    BY <1>9 DEF PushCondemned, PushFull, Latch
  <1>. QED
    BY <1>1, <1>2, <1>3, <1>4, <1>5, <1>6, <1>7, <1>8, <1>9 DEF Next, Gone

\* Every step of a stream that outlives no storage is a step of its promise.
LEMMA StepRefines ==
  ASSUME Safe, Safe', [Next]_vars, ~SoleOwner
  PROVE  [E!Next]_(E!vars)
  <1>. USE DEF ghostVars
  <1>1. /\ TypeOK /\ TypeOK' /\ PendingWithinDepth /\ NestingAgrees /\ OverflowParked
        /\ failure' \in Errors /\ (failure # "None" => failure' = failure)
        /\ Out \in Seq(Stored) /\ Out \o <<>> = Out
    <2>1. TypeOK /\ TypeOK'
      BY DEF Safe, Bounded
    <2>2. failure' \in Errors
      BY <2>1 DEF TypeOK
    <2>3. Out \in Seq(Stored)
      BY <2>1, OutType
    <2>4. Out \o <<>> = Out
      BY <2>3, ConcatEmptySeq
    <2>. QED
      BY <2>1, <2>2, <2>3, <2>4, VerdictKept DEF Safe
  <1>2. ASSUME NEW f \in Fields, Write(f) PROVE [E!Next]_(E!vars)
    <2>1. Push(Wire[f]) /\ todo = <<>> /\ Wire[f] \in Seq(Byte) /\ seqDepth' = seqDepth
      BY <1>2, WireType DEF Write, Called, Idle
    <2>2. CASE failure = "None"
      <3>1. E!Write(f)
        BY <1>1, <2>1, <2>2, PushAdds, SameWire DEF E!Write, E!Healthy
      <3>. QED
        BY <3>1 DEF E!Next
    <2>3. CASE failure # "None"
      BY <1>1, <2>1, <2>3, PushCondemnedStep
    <2>. QED
      BY <2>2, <2>3
  <1>3. ASSUME NEW id \in Ids, SequenceBeginLazy(id) PROVE [E!Next]_(E!vars)
    <2>1. /\ Out' = Out /\ todo' = todo /\ todo = <<>> /\ failure' = failure
          /\ reopened' = reopened /\ pend' = Append(pend, id) /\ seqDepth' = seqDepth + 1
          /\ seqDepth < MAX_DEPTH
      BY <1>1, <1>3, SizeAssumption
         DEF SequenceBeginLazy, Called, Idle, TooDeep, Out, Message, TypeOK
    <2>2. CASE failure = "None"
      <3>1. E!Begin(id)
        BY <2>1, <2>2 DEF E!Begin, E!Healthy
      <3>. QED
        BY <3>1 DEF E!Next
    <2>3. CASE failure # "None"
      <3>1. E!Begins(Out, Out')
        BY <1>1, <2>1, BeginsItself
      <3>. QED
        BY <2>1, <2>3, <3>1, CondemnedStep
    <2>. QED
      BY <2>2, <2>3
  <1>4. ASSUME NEW i \in Installs, SetBuffer(i[1], i[2]) PROVE [E!Next]_(E!vars)
    <2>1. /\ InitBuffer(i[1], i[2]) /\ sink' = sink /\ sent' = Out /\ failure \in Errors
          /\ todo = <<>> /\ todo' = <<>> /\ pend' = pend /\ seqDepth' = seqDepth
          /\ reopened' = (reopened \/ failure # "None") /\ reopened \in BOOLEAN
      BY <1>1, <1>4 DEF SetBuffer, Called, Idle, TypeOK
    <2>2. Out' = Out
      BY <1>1, <2>1, InitBufferSafe, OutTaken
    <2>. QED
      BY <1>1, <2>1, <2>2, QuietStep
  <1>5. CASE Refuse \/ RefuseSequence \/ Abandon
    <2>1. /\ Out' = Out /\ todo = <<>> /\ todo' = <<>> /\ pend' = pend
          /\ seqDepth' = seqDepth /\ reopened' = reopened
      BY <1>5 DEF Refuse, RefuseSequence, Abandon, Called, Idle, streamVars, Out, Message
    <2>. QED
      BY <1>1, <2>1, QuietStep
  <1>6. CASE SequenceEnd
    <2>1. /\ todo = <<>> /\ owed > 0 /\ LeaveLevel
          /\ IF pend # <<>> THEN DropHeld ELSE Push(EndMarker)
      BY <1>6 DEF SequenceEnd, Called, Idle
    <2>2. CASE failure # "None"
      <3>1. Out' = Out /\ failure' = failure /\ reopened' = reopened
        BY <2>1 DEF DropHeld, Push, Out, Message
      <3>2. E!Begins(Out, Out')
        BY <1>1, <3>1, BeginsItself
      <3>. QED
        BY <2>2, <3>1, <3>2, CondemnedStep
    <2>3. CASE failure = "None"
      <3>1. seqDepth > 0 /\ seqDepth' = seqDepth - 1
        BY <1>1, <2>1, <2>3 DEF NestingAgrees, LeaveLevel, TypeOK
      <3>2. CASE pend # <<>>
        <4>1. /\ Out' = Out /\ todo' = todo /\ failure' = failure /\ reopened' = reopened
              /\ pend' = SubSeq(pend, 1, Len(pend) - 1)
          BY <2>1, <3>2 DEF DropHeld, Out, Message
        <4>2. E!EndDrop
          BY <2>3, <3>1, <3>2, <4>1 DEF E!EndDrop, E!Healthy
        <4>. QED
          BY <4>2 DEF E!Next
      <3>3. CASE pend = <<>>
        <4>1. Headers(pend) = <<>>
          BY <3>3, SizeAssumption DEF Headers
        <4>2. Push(EndMarker) /\ EndMarker \in Seq(Byte)
          BY <2>1, <3>3, EndMarkerType
        <4>3. /\ Out' \o todo' = (Out \o todo) \o EndMarker
              /\ failure' = "None" /\ pend' = <<>> /\ reopened' = reopened
          BY <1>1, <2>1, <2>3, <4>1, <4>2, PushAdds
        <4>4. E!EndDrop
          BY <2>3, <3>1, <3>3, <4>3, SameWire DEF E!EndDrop, E!Healthy
        <4>. QED
          BY <4>4 DEF E!Next
      <3>. QED
        BY <3>2, <3>3
    <2>. QED
      BY <2>2, <2>3
  <1>7. CASE SequenceEndKeep
    <2>1. /\ todo = <<>> /\ owed > 0 /\ LeaveLevel
          /\ Push(EndMarker) /\ EndMarker \in Seq(Byte)
      BY <1>7, EndMarkerType DEF SequenceEndKeep, Called, Idle
    <2>2. CASE failure = "None"
      <3>1. seqDepth > 0 /\ seqDepth' = seqDepth - 1
        BY <1>1, <2>1, <2>2 DEF NestingAgrees, LeaveLevel, TypeOK
      <3>2. E!EndKeep
        BY <1>1, <2>1, <2>2, <3>1, PushAdds, SameWire DEF E!EndKeep, E!Healthy
      <3>. QED
        BY <3>2 DEF E!Next
    <2>3. CASE failure # "None"
      BY <1>1, <2>1, <2>3, PushCondemnedStep
    <2>. QED
      BY <2>2, <2>3
  <1>8. CASE Flush
    <2>1. /\ SinkReturns /\ sink' = sink /\ sent' = Out
          /\ todo = <<>> /\ todo' = <<>> /\ pend' = pend /\ seqDepth' = seqDepth
          /\ reopened' = reopened
      BY <1>8 DEF Flush, HandOver, Called, Idle
    <2>2. Out' = Out
      BY <1>1, <2>1, SinkReturnsSafe, OutTaken
    <2>. QED
      BY <1>1, <2>1, <2>2, QuietStep
  <1>9. CASE Destroy
    <2>1. /\ todo = <<>> /\ todo' = <<>> /\ pend' = pend /\ seqDepth' = seqDepth
          /\ reopened' = reopened
      BY <1>9 DEF Destroy, Idle
    <2>2. Out' = Out
      <3>1. CASE HasContent
        BY <1>1, <1>9, <3>1, EmptySeq, OutTaken DEF Destroy
      <3>2. CASE ~HasContent
        BY <1>9, <3>2 DEF Destroy, Out, Message
      <3>. QED
        BY <3>1, <3>2
    <2>. QED
      BY <1>1, <2>1, <2>2, QuietStep
  <1>10. CASE PushRun \/ PushSome
    <2>1. PICK n \in 1..Len(todo) : n <= Room /\ Store(n)
      <3>1. CASE PushRun
        BY <3>1 DEF PushRun
      <3>2. CASE PushSome
        <4>1. Room \in Nat /\ Len(todo) \in Nat /\ todo # <<>> /\ todo[Len(todo)].last
          BY <1>1, <3>2, LenProperties DEF PushSome, TypeOK, Room, Safe, Bounded, EndsARun
        <4>2. Room < Len(todo)
          BY <3>2, <4>1, EmptySeq DEF PushSome, RunFits
        <4>. QED
          BY <3>2, <4>1, <4>2 DEF PushSome
      <3>. QED
        BY <1>10, <3>1, <3>2
    <2>2. failure' = failure /\ pend' = pend /\ seqDepth' = seqDepth /\ reopened' = reopened
      BY <2>1 DEF Store, UnchangedByPush
    <2>3. /\ SubSeq(todo, 1, n) \in Seq(Stored)
          /\ Out' = Out \o SubSeq(todo, 1, n) /\ Out' \o todo' = Out \o todo
      BY <1>1, <2>1, StoreMoves
    <2>4. CASE failure = "None"
      BY <2>2, <2>3, <2>4 DEF E!vars
    <2>5. CASE failure # "None"
      <3>1. E!Begins(Out, Out')
        BY <1>1, <2>3, BeginsConcat
      <3>2. Room # 0
        BY <1>1, <2>1 DEF TypeOK, Room
      <3>. QED
        BY <1>1, <2>2, <2>5, <3>1, <3>2, CondemnedStep DEF OverflowParked
    <2>. QED
      BY <2>4, <2>5
  <1>11. CASE PushCondemned
    <2>1. failure # "None" /\ failure' = failure /\ reopened' = reopened /\ Out' = Out
      BY <1>11 DEF PushCondemned, UnchangedByPush, Out, Message
    <2>2. E!Begins(Out, Out')
      BY <1>1, <2>1, BeginsItself
    <2>. QED
      BY <2>1, <2>2, CondemnedStep
  <1>12. CASE PushFull
    <2>1. /\ failure = "None" /\ failure' = "BufferFull" /\ Out' = Out /\ pend' = pend
          /\ seqDepth' = seqDepth /\ reopened' = reopened
      BY <1>12 DEF PushFull, AtEnd, Latch, UnchangedByPush, Out, Message
    <2>. QED
      BY <1>1, <2>1, CondemnStep
  <1>13. CASE PushFlush
    <2>1. /\ failure = "None" /\ SinkReturns /\ sink' = sink /\ sent' = Out /\ pend' = pend
          /\ seqDepth' = seqDepth /\ reopened' = reopened
          /\ failure' = "None" => todo' = todo
      BY <1>13 DEF PushFlush, AtEnd, HandOver, UnchangedByPush
    <2>2. Out' = Out
      BY <1>1, <2>1, SinkReturnsSafe, OutTaken
    <2>3. CASE failure' = "None"
      BY <2>1, <2>2, <2>3 DEF E!vars
    <2>4. CASE failure' # "None"
      BY <1>1, <2>1, <2>2, <2>4, CondemnStep
    <2>. QED
      BY <2>3, <2>4
  <1>14. CASE UNCHANGED vars
    BY <1>14 DEF vars, streamVars, E!vars, Out, Message
  <1>. QED
    BY <1>2, <1>3, <1>4, <1>5, <1>6, <1>7, <1>8, <1>9, <1>10, <1>11, <1>12, <1>13, <1>14
       DEF Next, Gone

\* A stream starts with an empty message.
LEMMA InitRefines ==
  ASSUME Init
  PROVE  E!Init
  <1>1. TypeOK /\ Len(buf) = off
    <2>1. TypeOK
      BY InitSafe DEF Safe, Bounded
    <2>2. PICK i \in Installs :
            IF Rejects(i[1], i[2])
            THEN buf = <<>> /\ cap = 0 /\ off = 0 /\ failure = "InvalidArgument"
            ELSE buf = [k \in 1..i[2] |-> HeadByte] /\ cap = i[1] /\ off = i[2]
                 /\ failure = "None"
      BY DEF Init
    <2>3. i[2] \in Nat
      BY EncoderAssumption
    <2>. QED
      BY <2>1, <2>2, <2>3
  <1>2. Message = <<>>
    <2>1. off \in Nat
      BY <1>1 DEF TypeOK
    <2>. QED
      BY <1>1, <2>1, NothingBehind DEF Message
  <1>3. <<>> \o <<>> = <<>>
    BY EmptySeq, ConcatEmptySeq
  <1>4. Out = <<>> /\ Out \o todo = <<>> /\ pend = <<>> /\ seqDepth = 0 /\ reopened = FALSE
    BY <1>2, <1>3 DEF Init, Out
  <1>5. failure \in {"None", "InvalidArgument"}
    BY DEF Init
  <1>. QED
    BY <1>4, <1>5 DEF E!Init

------------------------------------------------------------------------------
(* Counting the bytes of a message that open and that close a sequence. *)

\* The places among the first n where s has one of P, and how many they are.
Places(s, n, P) == {i \in 1..n : s[i] \in P}
Count(s, n, P) == Cardinality(Places(s, n, P))

\* The last bytes of sequence headers, and the end markers.
Starts == {b \in Stored : b.kind = "start" /\ b.last}
Stops == {b \in Stored : b.kind = "end"}

\* Counting is what WellFramed does.
LEMMA CountsAreFrames ==
  ASSUME NEW s \in Seq(Stored), NEW n \in 0..Len(s)
  PROVE  Opened(s, n) = Count(s, n, Starts) /\ Closed(s, n) = Count(s, n, Stops)
  <1>1. \A i \in 1..n : s[i] \in Stored
    BY LenProperties, ElementOfSeq
  <1>2. Places(s, n, Starts) = {i \in 1..n : s[i].kind = "start" /\ s[i].last}
    BY <1>1 DEF Places, Starts
  <1>3. Places(s, n, Stops) = {i \in 1..n : s[i].kind = "end"}
    BY <1>1 DEF Places, Stops
  <1>. QED
    BY <1>2, <1>3 DEF Opened, Closed, Count

\* A count is a number, and no larger for a shorter part.
LEMMA CountType ==
  ASSUME NEW s, NEW n \in Nat, NEW P
  PROVE  /\ IsFiniteSet(Places(s, n, P)) /\ Count(s, n, P) \in Nat
         /\ \A m \in 0..n : Count(s, m, P) <= Count(s, n, P)
  <1>1. ASSUME NEW k \in Nat PROVE IsFiniteSet(Places(s, k, P))
    <2>1. IsFiniteSet(1..k) /\ Places(s, k, P) \in SUBSET (1..k)
      BY FS_Interval DEF Places
    <2>. QED
      BY <2>1, FS_Subset
  <1>2. ASSUME NEW m \in 0..n PROVE Count(s, m, P) <= Count(s, n, P)
    <2>1. Places(s, m, P) \in SUBSET Places(s, n, P)
      BY DEF Places
    <2>. QED
      BY <1>1, <2>1, FS_Subset DEF Count
  <1>. QED
    BY <1>1, <1>2, FS_CardinalityType DEF Count

\* Where there are none, none are counted.
LEMMA NoneCounted ==
  ASSUME NEW s, NEW n, NEW P, \A i \in 1..n : s[i] \notin P
  PROVE  Count(s, n, P) = 0
  <1>1. Places(s, n, P) = {}
    BY DEF Places
  <1>. QED
    BY <1>1, FS_EmptySet DEF Count

\* What follows changes no count in front of it.
LEMMA CountInFront ==
  ASSUME NEW S, NEW s \in Seq(S), NEW t \in Seq(S), NEW n \in 0..Len(s), NEW P
  PROVE  Count(s \o t, n, P) = Count(s, n, P)
  <1>1. Len(s) \in Nat /\ Len(t) \in Nat
    BY LenProperties
  <1>2. \A i \in 1..n : (s \o t)[i] = s[i]
    <2>. SUFFICES ASSUME NEW i \in 1..n PROVE (s \o t)[i] = s[i]
      OBVIOUS
    <2>1. i \in 1..(Len(s) + Len(t)) /\ i <= Len(s)
      BY <1>1
    <2>. QED
      BY <2>1, ConcatProperties
  <1>3. Places(s \o t, n, P) = Places(s, n, P)
    BY <1>2 DEF Places
  <1>. QED
    BY <1>3 DEF Count

\* A function that gives each member of T once pairs S with T.
LEMMA OneToOne ==
  ASSUME NEW S, NEW T, NEW f \in [S -> T],
         \A i, j \in S : f[i] = f[j] => i = j,
         \A d \in T : \E j \in S : f[j] = d
  PROVE  ExistsBijection(S, T)
  <1>1. DOMAIN f = S
    OBVIOUS
  <1>2. IsInjective(f)
    BY <1>1 DEF IsInjective
  <1>3. f \in Injection(S, T)
    BY <1>2 DEF Injection
  <1>4. f \in Surjection(S, T)
    BY DEF Surjection
  <1>. QED
    BY <1>3, <1>4 DEF ExistsBijection, Bijection

\* Behind a sequence the counts of the two parts add up.
LEMMA CountBehind ==
  ASSUME NEW S, NEW s \in Seq(S), NEW t \in Seq(S), NEW m \in 0..Len(t), NEW P
  PROVE  Count(s \o t, Len(s) + m, P) = Count(s, Len(s), P) + Count(t, m, P)
  <1>1. PICK l \in Nat : l = Len(s)
    BY LenProperties
  <1>2. m \in Nat /\ Len(t) \in Nat /\ m <= Len(t) /\ l + m \in Nat
    BY <1>1, LenProperties
  <1>3. PICK A, B, C, D : /\ A = Places(s, l, P) /\ B = Places(t, m, P)
                          /\ C = Places(s \o t, l + m, P) /\ D = C \ A
    OBVIOUS
  <1>4. /\ \A i \in 1..l : (s \o t)[i] = s[i]
        /\ \A i \in 1..m : (s \o t)[l + i] = t[i]
    <2>1. \A i \in 1..(l + Len(t)) : (s \o t)[i] = IF i <= l THEN s[i] ELSE t[i - l]
      BY <1>1, ConcatProperties
    <2>2. ASSUME NEW i \in 1..m PROVE (s \o t)[l + i] = t[i]
      <3>1. l + i \in 1..(l + Len(t)) /\ ~(l + i <= l) /\ (l + i) - l = i
        BY <1>1, <1>2
      <3>. QED
        BY <2>1, <3>1
    <2>3. ASSUME NEW i \in 1..l PROVE (s \o t)[i] = s[i]
      <3>1. i \in 1..(l + Len(t)) /\ i <= l
        BY <1>1, <1>2
      <3>. QED
        BY <2>1, <3>1
    <2>. QED
      BY <2>2, <2>3
  <1>5. A \subseteq C /\ A \subseteq 1..l
    BY <1>1, <1>2, <1>3, <1>4 DEF Places
  <1>6. \A i \in D : i - l \in B /\ i = l + (i - l) /\ i - l \in Int
    <2>. SUFFICES ASSUME NEW i \in D PROVE i - l \in B /\ i = l + (i - l) /\ i - l \in Int
      OBVIOUS
    <2>1. i \in 1..(l + m) /\ (s \o t)[i] \in P /\ i \notin A
      BY <1>3 DEF Places
    <2>2. i \notin 1..l
      BY <1>3, <1>4, <2>1 DEF Places
    <2>3. i - l \in 1..m /\ i = l + (i - l) /\ i - l \in Int
      BY <1>1, <1>2, <2>1, <2>2
    <2>4. t[i - l] \in P
      BY <1>4, <2>1, <2>3
    <2>. QED
      BY <1>3, <2>3, <2>4 DEF Places
  <1>7. \A j \in B : l + j \in D /\ j \in Int
    <2>. SUFFICES ASSUME NEW j \in B PROVE l + j \in D /\ j \in Int
      OBVIOUS
    <2>1. j \in 1..m /\ t[j] \in P
      BY <1>3 DEF Places
    <2>2. l + j \in 1..(l + m) /\ l + j \notin 1..l
      BY <1>1, <1>2, <2>1
    <2>3. (s \o t)[l + j] \in P
      BY <1>4, <2>1
    <2>4. l + j \in C
      BY <1>3, <2>2, <2>3 DEF Places
    <2>5. l + j \notin A
      BY <1>5, <2>2
    <2>6. l + j \in D
      BY <1>3, <2>4, <2>5
    <2>. QED
      BY <2>1, <2>6
  <1>8. Cardinality(D) = Cardinality(B) /\ IsFiniteSet(D) /\ IsFiniteSet(B) /\ IsFiniteSet(A)
    <2>1. IsFiniteSet(A) /\ IsFiniteSet(B)
      BY <1>2, <1>3, CountType
    <2>2. PICK f : f = [j \in B |-> l + j]
      OBVIOUS
    <2>3. f \in [B -> D]
      BY <1>7, <2>2
    <2>4. \A i, j \in B : f[i] = f[j] => i = j
      BY <1>1, <1>7, <2>2
    <2>5. \A d \in D : \E j \in B : f[j] = d
      BY <1>6, <2>2
    <2>6. ExistsBijection(B, D)
      BY <2>3, <2>4, <2>5, OneToOne
    <2>. QED
      BY <2>1, <2>6, FS_Bijection
  <1>9. C = A \cup D /\ A \cap D = {}
    BY <1>3, <1>5
  <1>10. Cardinality(C) = Cardinality(A) + Cardinality(D) - Cardinality({})
    BY <1>8, <1>9, FS_Union
  <1>11. Cardinality(A) \in Nat /\ Cardinality(B) \in Nat /\ Cardinality({}) = 0
    BY <1>8, FS_CardinalityType, FS_EmptySet
  <1>12. Cardinality(C) = Cardinality(A) + Cardinality(B)
    BY <1>8, <1>10, <1>11
  <1>. QED
    BY <1>1, <1>3, <1>12 DEF Count

\* A run of headers opens each of its sequences once, and closes none.
LEMMA CountHeaders ==
  ASSUME NEW p \in Seq(Ids)
  PROVE  /\ Count(Headers(p), Len(Headers(p)), Starts) = Len(p)
         /\ \A i \in 1..Len(Headers(p)) : Headers(p)[i] \notin Stops
  <1>1. PICK l \in Nat : l = Len(p)
    BY LenProperties
  <1>2. HeaderSize \in {1, 2, 3, 4, 5} /\ l * HeaderSize \in Nat
    BY SizeAssumption
  <1>3. PICK h : h = Headers(p)
    OBVIOUS
  <1>4. /\ h \in Seq(Stored) /\ Len(h) = l * HeaderSize
        /\ \A i \in 1..(l * HeaderSize) :
              h[i].kind = "start" /\ (h[i].last <=> i % HeaderSize = 0)
    <2>1. h \in Seq(Stored)
      BY <1>3, HeadersType, HeadIsNoByte, SeqMonotonic
    <2>2. h = [i \in 1..(l * HeaderSize) |->
                [kind |-> "start", of |-> p[1 + ((i - 1) \div HeaderSize)],
                 n |-> 1 + ((i - 1) % HeaderSize), last |-> i % HeaderSize = 0]]
      BY <1>1, <1>3 DEF Headers
    <2>3. Len(h) = l * HeaderSize
      BY <1>2, <2>1, <2>2, LenProperties
    <2>4. \A i \in 1..(l * HeaderSize) :
              h[i].kind = "start" /\ (h[i].last <=> i % HeaderSize = 0)
      BY <2>2
    <2>. QED
      BY <2>1, <2>3, <2>4
  <1>5. \A i \in 1..(l * HeaderSize) : h[i] \in Stored
    BY <1>4, ElementOfSeq
  <1>6. \A i \in 1..Len(h) : h[i] \notin Stops
    BY <1>4 DEF Stops
  <1>7. PICK A : A = Places(h, l * HeaderSize, Starts)
    OBVIOUS
  <1>8. A = {i \in 1..(l * HeaderSize) : i % HeaderSize = 0}
    <2>1. \A i \in 1..(l * HeaderSize) : h[i] \in Starts <=> i % HeaderSize = 0
      BY <1>4, <1>5 DEF Starts
    <2>. QED
      BY <1>7, <2>1 DEF Places
  <1>9. PICK f : f = [j \in 1..l |-> j * HeaderSize]
    OBVIOUS
  <1>10. f \in [1..l -> A]
    <2>. SUFFICES ASSUME NEW j \in 1..l
                  PROVE  j * HeaderSize \in 1..(l * HeaderSize) /\ (j * HeaderSize) % HeaderSize = 0
      BY <1>8, <1>9
    <2>. QED
      BY <1>2
  <1>11. \A i, j \in 1..l : f[i] = f[j] => i = j
    BY <1>2, <1>9
  <1>12. \A a \in A : \E j \in 1..l : f[j] = a
    <2>. SUFFICES ASSUME NEW a \in A PROVE \E j \in 1..l : f[j] = a
      OBVIOUS
    <2>1. a \in 1..(l * HeaderSize) /\ a % HeaderSize = 0
      BY <1>8
    <2>2. a \div HeaderSize \in 1..l /\ (a \div HeaderSize) * HeaderSize = a
      BY <1>2, <2>1
    <2>. QED
      BY <1>9, <2>2
  <1>13. ExistsBijection(1..l, A)
    BY <1>10, <1>11, <1>12, OneToOne
  <1>14. Cardinality(A) = l
    BY <1>13, FS_CountingElements
  <1>. QED
    BY <1>1, <1>3, <1>4, <1>6, <1>7, <1>14 DEF Count

\* The frames of s nest, and n of them are open behind it.
Nests(s, n) ==
  /\ Count(s, Len(s), Starts) - Count(s, Len(s), Stops) = n
  /\ \A i \in 1..Len(s) : Count(s, i, Stops) <= Count(s, i, Starts)

\* Bytes that close nothing open as many more as there are headers in them.
LEMMA NestsOn ==
  ASSUME NEW s \in Seq(Stored), NEW n \in Int, Nests(s, n), NEW t \in Seq(Stored),
         \A i \in 1..Len(t) : t[i] \notin Stops
  PROVE  Nests(s \o t, n + Count(t, Len(t), Starts))
  <1>1. PICK l \in Nat, m \in Nat : l = Len(s) /\ m = Len(t)
    BY LenProperties
  <1>2. Len(s \o t) = l + m
    BY <1>1, ConcatProperties
  <1>3. \A P : Count(s, l, P) \in Nat
    BY CountType
  <1>4. ASSUME NEW j \in 0..m
        PROVE  /\ Count(s \o t, l + j, Stops) = Count(s, l, Stops)
               /\ Count(s \o t, l + j, Starts) = Count(s, l, Starts) + Count(t, j, Starts)
               /\ Count(t, j, Starts) \in Nat
    <2>1. Count(t, j, Stops) = 0
      <3>1. \A i \in 1..j : t[i] \notin Stops
        BY <1>1
      <3>. QED
        BY <3>1, NoneCounted
    <2>2. \A P : Count(s \o t, l + j, P) = Count(s, l, P) + Count(t, j, P)
      BY <1>1, CountBehind
    <2>. QED
      BY <1>3, <2>1, <2>2, CountType
  <1>5. Count(s \o t, l + m, Starts) - Count(s \o t, l + m, Stops) = n + Count(t, m, Starts)
    <2>1. m \in 0..m
      BY <1>1
    <2>2. Count(s, l, Starts) - Count(s, l, Stops) = n
      BY <1>1 DEF Nests
    <2>. QED
      BY <1>3, <1>4, <2>1, <2>2
  <1>6. Count(s, l, Stops) <= Count(s, l, Starts)
    <2>1. CASE l = 0
      BY <2>1, NoneCounted
    <2>2. CASE l # 0
      <3>1. l \in 1..Len(s)
        BY <1>1, <2>2
      <3>. QED
        BY <3>1 DEF Nests
    <2>. QED
      BY <2>1, <2>2
  <1>7. ASSUME NEW i \in 1..(l + m) PROVE Count(s \o t, i, Stops) <= Count(s \o t, i, Starts)
    <2>1. CASE i <= l
      <3>1. i \in 1..l /\ i \in 0..l
        BY <1>1, <2>1
      <3>2. /\ Count(s \o t, i, Starts) = Count(s, i, Starts)
            /\ Count(s \o t, i, Stops) = Count(s, i, Stops)
        BY <1>1, <3>1, CountInFront
      <3>3. Count(s, i, Stops) <= Count(s, i, Starts)
        BY <1>1, <3>1 DEF Nests
      <3>. QED
        BY <3>2, <3>3
    <2>2. CASE i > l
      <3>1. PICK j \in 0..m : i = l + j
        <4>1. i - l \in 0..m /\ i = l + (i - l)
          BY <1>1, <2>2
        <4>. QED
          BY <4>1
      <3>2. /\ Count(s \o t, i, Stops) = Count(s, l, Stops)
            /\ Count(s \o t, i, Starts) = Count(s, l, Starts) + Count(t, j, Starts)
            /\ Count(t, j, Starts) \in Nat
        BY <1>4, <3>1
      <3>3. Count(s, l, Starts) \in Nat /\ Count(s, l, Stops) \in Nat
        BY <1>3
      <3>. QED
        BY <1>6, <3>2, <3>3
    <2>. QED
      BY <1>1, <2>1, <2>2
  <1>. QED
    BY <1>1, <1>2, <1>5, <1>7 DEF Nests

\* An end marker closes one of the sequences that are open.
LEMMA NestsBack ==
  ASSUME NEW s \in Seq(Stored), NEW n \in Nat \ {0}, Nests(s, n)
  PROVE  Nests(s \o EndMarker, n - 1)
  <1>1. PICK l \in Nat : l = Len(s)
    BY LenProperties
  <1>2. PICK t : t = EndMarker
    OBVIOUS
  <1>3. t \in Seq(Stored) /\ Len(t) = 1 /\ t[1] \in Stops /\ t[1] \notin Starts
    <2>1. t \in Seq(Stored)
      BY <1>2, EndMarkerType, HeadIsNoByte, SeqMonotonic
    <2>2. Len(t) = 1 /\ t[1].kind = "end"
      BY <1>2 DEF EndMarker
    <2>3. 1 \in 1..Len(t)
      BY <2>2
    <2>4. t[1] \in Stored
      BY <2>1, <2>3, ElementOfSeq
    <2>. QED
      BY <2>1, <2>2, <2>4 DEF Stops, Starts
  <1>4. Count(t, 1, Stops) = 1 /\ Count(t, 1, Starts) = 0
    <2>1. Places(t, 1, Stops) = {1}
      BY <1>3 DEF Places
    <2>2. \A i \in 1..1 : t[i] \notin Starts
      BY <1>3
    <2>. QED
      BY <2>1, <2>2, NoneCounted, FS_Singleton DEF Count
  <1>5. Len(s \o t) = l + 1
    BY <1>1, <1>3, ConcatProperties
  <1>6. \A P : Count(s, l, P) \in Nat
    BY CountType
  <1>7. \A P : Count(s \o t, l + 1, P) = Count(s, l, P) + Count(t, 1, P)
    <2>1. 1 \in 0..Len(t)
      BY <1>3
    <2>2. t \in Seq(Stored)
      BY <1>3
    <2>3. \A P : \A k \in 0..Len(t) :
              Count(s \o t, Len(s) + k, P) = Count(s, Len(s), P) + Count(t, k, P)
      BY <2>2, CountBehind
    <2>. QED
      BY <1>1, <2>1, <2>3
  <1>8. Count(s, l, Starts) - Count(s, l, Stops) = n
    BY <1>1 DEF Nests
  <1>9. /\ Count(s \o t, l + 1, Starts) - Count(s \o t, l + 1, Stops) = n - 1
        /\ Count(s \o t, l + 1, Stops) <= Count(s \o t, l + 1, Starts)
    <2>1. /\ Count(s \o t, l + 1, Starts) = Count(s, l, Starts) + 0
          /\ Count(s \o t, l + 1, Stops) = Count(s, l, Stops) + 1
      BY <1>4, <1>7
    <2>2. Count(s, l, Starts) \in Nat /\ Count(s, l, Stops) \in Nat
      BY <1>6
    <2>. QED
      BY <1>8, <2>1, <2>2
  <1>10. ASSUME NEW i \in 1..(l + 1) PROVE Count(s \o t, i, Stops) <= Count(s \o t, i, Starts)
    <2>1. CASE i = l + 1
      BY <1>9, <2>1
    <2>2. CASE i # l + 1
      <3>1. i \in 1..l /\ i \in 0..l
        BY <1>1, <2>2
      <3>2. /\ Count(s \o t, i, Starts) = Count(s, i, Starts)
            /\ Count(s \o t, i, Stops) = Count(s, i, Stops)
        BY <1>1, <1>3, <3>1, CountInFront
      <3>3. Count(s, i, Stops) <= Count(s, i, Starts)
        BY <1>1, <3>1 DEF Nests
      <3>. QED
        BY <3>2, <3>3
    <2>. QED
      BY <2>1, <2>2
  <1>. QED
    BY <1>2, <1>5, <1>9, <1>10 DEF Nests

------------------------------------------------------------------------------
(* The frames of a healthy message. *)

\* The message of a healthy stream nests, and what is open in it are the open sequences
\* that are not held back.
Framed == failure = "None" => Nests(Out \o todo, seqDepth - Len(pend))

\* Every step of the promise keeps the frames.
LEMMA StepFramed ==
  ASSUME TypeOK, TypeOK', PendingWithinDepth, Framed, [E!Next]_(E!vars)
  PROVE  Framed'
  <1>. SUFFICES ASSUME failure' = "None"
                PROVE  Nests((Out \o todo)', seqDepth' - Len(pend'))
    BY DEF Framed
  <1>1. PICK s : s = Out \o todo
    OBVIOUS
  <1>2. s \in Seq(Stored) /\ pend \in Seq(Ids) /\ seqDepth \in Nat
    <2>1. Out \in Seq(Stored) /\ todo \in Seq(Stored)
      BY OutType, TodoType
    <2>2. Out \o todo \in Seq(Stored)
      BY <2>1, ConcatProperties
    <2>. QED
      BY <1>1, <2>2 DEF TypeOK
  <1>3. PICK l \in Nat : l = Len(pend)
    BY <1>2, LenProperties
  <1>4. PICK n \in Nat : n = seqDepth - l /\ l <= seqDepth
    <2>1. seqDepth - l \in Nat /\ l <= seqDepth
      BY <1>2, <1>3 DEF PendingWithinDepth
    <2>. QED
      BY <2>1
  <1>5. Len(<<>>) = 0
    BY EmptySeq
  <1>6. failure = "None" => Nests(s, n)
    BY <1>1, <1>3, <1>4 DEF Framed
  <1>7. PICK h : h = Headers(pend)
    OBVIOUS
  <1>8. h \in Seq(Stored) /\ s \o h \in Seq(Stored)
    <2>1. h \in Seq(Stored)
      BY <1>2, <1>7, HeadersType, HeadIsNoByte, SeqMonotonic
    <2>. QED
      BY <1>2, <2>1, ConcatProperties
  <1>9. failure = "None" => Nests(s \o h, seqDepth)
    <2>. SUFFICES ASSUME failure = "None" PROVE Nests(s \o h, seqDepth)
      OBVIOUS
    <2>1. Count(h, Len(h), Starts) = l /\ \A i \in 1..Len(h) : h[i] \notin Stops
      BY <1>2, <1>3, <1>7, CountHeaders
    <2>2. Nests(s \o h, n + l)
      BY <1>2, <1>6, <1>8, <2>1, NestsOn
    <2>3. n + l = seqDepth
      BY <1>2, <1>4
    <2>. QED
      BY <2>2, <2>3
  <1>10. ASSUME NEW f \in Fields, E!Write(f)
         PROVE  Nests((Out \o todo)', seqDepth' - Len(pend'))
    <2>1. /\ failure = "None" /\ (Out \o todo)' = (s \o h) \o Wire[f]
          /\ pend' = <<>> /\ seqDepth' = seqDepth
      BY <1>1, <1>7, <1>10, SameWire DEF E!Write, E!Healthy
    <2>2. PICK w : w = Wire[f]
      OBVIOUS
    <2>3. w \in Seq(Stored) /\ \A i \in 1..Len(w) : w[i].kind = "field"
      BY <2>2, WireAssumption, WireType, HeadIsNoByte, SeqMonotonic
    <2>4. \A i \in 1..Len(w) : w[i] \notin Stops /\ w[i] \notin Starts
      BY <2>3 DEF Stops, Starts
    <2>5. Count(w, Len(w), Starts) = 0
      BY <2>4, NoneCounted
    <2>6. Nests((s \o h) \o w, seqDepth + 0)
      <3>1. seqDepth \in Int
        BY <1>2
      <3>. QED
        BY <1>8, <1>9, <2>1, <2>3, <2>4, <2>5, <3>1, NestsOn
    <2>7. seqDepth + 0 = seqDepth' - Len(pend')
      BY <1>2, <1>5, <2>1
    <2>. QED
      BY <2>1, <2>2, <2>6, <2>7
  <1>11. ASSUME NEW id \in Ids, E!Begin(id)
         PROVE  Nests((Out \o todo)', seqDepth' - Len(pend'))
    <2>1. /\ failure = "None" /\ (Out \o todo)' = s
          /\ pend' = Append(pend, id) /\ seqDepth' = seqDepth + 1
      BY <1>1, <1>11 DEF E!Begin, E!Healthy
    <2>2. Len(pend') = l + 1
      BY <1>2, <1>3, <2>1, AppendProperties
    <2>3. seqDepth' - Len(pend') = n
      BY <1>2, <1>4, <2>1, <2>2
    <2>. QED
      BY <1>6, <2>1, <2>3
  <1>12. CASE E!EndDrop
    <2>1. failure = "None" /\ seqDepth > 0 /\ seqDepth' = seqDepth - 1
      BY <1>12 DEF E!EndDrop, E!Healthy
    <2>2. CASE pend # <<>> /\ pend' = SubSeq(pend, 1, Len(pend) - 1) /\ (Out \o todo)' = s
      <3>1. Len(pend) > 0
        BY <1>2, <2>2, EmptySeq, LenProperties
      <3>2. Len(pend') = l - 1
        BY <1>2, <1>3, <2>2, <3>1, DropLast
      <3>3. seqDepth' - Len(pend') = n
        BY <1>2, <1>4, <2>1, <3>2
      <3>. QED
        BY <1>6, <2>1, <2>2, <3>3
    <2>3. CASE pend = <<>> /\ pend' = pend /\ (Out \o todo)' = s \o EndMarker
      <3>1. l = 0 /\ n = seqDepth /\ n \in Nat \ {0}
        BY <1>2, <1>3, <1>4, <1>5, <2>1, <2>3
      <3>2. Nests(s \o EndMarker, n - 1)
        BY <1>2, <1>6, <2>1, <3>1, NestsBack
      <3>3. seqDepth' - Len(pend') = n - 1
        BY <1>3, <2>1, <2>3, <3>1
      <3>. QED
        BY <2>3, <3>2, <3>3
    <2>. QED
      BY <1>1, <1>12, <2>1, <2>2, <2>3, SameWire DEF E!EndDrop
  <1>13. CASE E!EndKeep
    <2>1. /\ failure = "None" /\ seqDepth > 0 /\ seqDepth' = seqDepth - 1
          /\ (Out \o todo)' = (s \o h) \o EndMarker /\ pend' = <<>>
      BY <1>1, <1>7, <1>13, SameWire DEF E!EndKeep, E!Healthy
    <2>2. Nests((s \o h) \o EndMarker, seqDepth - 1)
      <3>1. seqDepth \in Nat \ {0}
        BY <1>2, <2>1
      <3>. QED
        BY <1>8, <1>9, <2>1, <3>1, NestsBack
    <2>3. seqDepth' - Len(pend') = seqDepth - 1
      BY <1>2, <1>5, <2>1
    <2>. QED
      BY <2>1, <2>2, <2>3
  <1>14. CASE E!Condemn \/ E!Condemned
    BY <1>14 DEF E!Condemn, E!Condemned, E!Healthy, E!Errors
  <1>15. CASE UNCHANGED (E!vars)
    <2>1. failure = "None" /\ (Out \o todo)' = s /\ pend' = pend /\ seqDepth' = seqDepth
      BY <1>1, <1>15 DEF E!vars
    <2>2. seqDepth' - Len(pend') = n
      BY <1>3, <1>4, <2>1
    <2>. QED
      BY <1>6, <2>1, <2>2
  <1>. QED
    BY <1>10, <1>11, <1>12, <1>13, <1>14, <1>15 DEF E!Next

\* An empty message has no frames.
LEMMA InitFramed ==
  ASSUME Init
  PROVE  Framed
  <1>1. E!Init
    BY InitRefines
  <1>2. failure = "None" => Out \o todo = <<>> /\ pend = <<>> /\ seqDepth = 0
    BY <1>1 DEF E!Init
  <1>3. Len(<<>>) = 0 /\ Count(<<>>, 0, Starts) = 0 /\ Count(<<>>, 0, Stops) = 0
    BY EmptySeq, NoneCounted
  <1>4. Nests(<<>>, 0)
    <2>1. 0 - 0 = 0 /\ 1..0 = {}
      OBVIOUS
    <2>. QED
      BY <1>3, <2>1 DEF Nests
  <1>5. 0 - Len(<<>>) = 0
    <2>1. 0 - 0 = 0
      OBVIOUS
    <2>. QED
      BY <1>3, <2>1
  <1>. QED
    BY <1>2, <1>4, <1>5 DEF Framed

\* In a safe state the frames are those that WellFramed counts.
LEMMA FramedIsWell ==
  ASSUME Safe, Framed
  PROVE  WellFramed
  <1>. SUFFICES ASSUME failure = "None"
                PROVE  LET s == Out \o todo IN
                       /\ Opened(s, Len(s)) - Closed(s, Len(s)) = owed - Len(pend)
                       /\ \A n \in 1..Len(s) : Closed(s, n) <= Opened(s, n)
    BY DEF WellFramed
  <1>1. PICK s : s = Out \o todo
    OBVIOUS
  <1>2. s \in Seq(Stored) /\ Len(s) \in Nat
    <2>1. Out \in Seq(Stored) /\ todo \in Seq(Stored)
      BY OutType, TodoType DEF Safe, Bounded
    <2>. QED
      BY <1>1, <2>1, ConcatProperties, LenProperties
  <1>3. \A n \in 0..Len(s) : Opened(s, n) = Count(s, n, Starts) /\ Closed(s, n) = Count(s, n, Stops)
    BY <1>2, CountsAreFrames
  <1>4. Nests(s, owed - Len(pend))
    BY <1>1 DEF Framed, Safe, NestingAgrees
  <1>5. /\ Opened(s, Len(s)) - Closed(s, Len(s)) = owed - Len(pend)
        /\ \A n \in 1..Len(s) : Closed(s, n) <= Opened(s, n)
    <2>1. Len(s) \in 0..Len(s) /\ 1..Len(s) \subseteq 0..Len(s)
      BY <1>2
    <2>. QED
      BY <1>3, <1>4, <2>1 DEF Nests
  <1>. QED
    BY <1>1, <1>5

------------------------------------------------------------------------------
(* The theorems. *)

\* The verdict ok() and error() report is the first failure (sofab.hpp:1488-1499),
\* on every stream, destroyed with its storage or not.
THEOREM FirstFailureStays == Spec => FirstFailureWins
  <1>1. Safe /\ [Next]_vars => [failure # "None" => failure' = failure]_vars
    BY VerdictKept
  <1>. QED
    BY <1>1, SafeAlways, PTL DEF Spec, FirstFailureWins

\* The encoder keeps its promise whatever buffers it gets and whatever its sink does:
\* the message is the one the accepted calls define, and a condemned stream loses a
\* tail at most.
THEOREM EncoderImplemented ==
  ASSUME ~SoleOwner
  PROVE  Spec => ImplementsEncoder
  <1>1. Init => E!Init
    BY InitRefines
  <1>2. Safe /\ Safe' /\ [Next]_vars => [E!Next]_(E!vars)
    BY StepRefines
  <1>. QED
    BY <1>1, <1>2, SafeAlways, PTL DEF Spec, ImplementsEncoder, E!Spec

\* As long as ok() holds, the sequences in the message nest, and those open in it are the
\* ones the application has yet to close and that are not held back: what a decoder reads
\* is framed as it was written, whatever the buffers (sofab.hpp:1680-1764).
THEOREM MessageFramed ==
  ASSUME ~SoleOwner
  PROVE  Spec => []WellFramed
  <1>1. Init => Framed
    BY InitFramed
  <1>2. Safe /\ Safe' /\ Framed /\ [Next]_vars => Framed'
    BY StepRefines, StepFramed DEF Safe, Bounded
  <1>3. Safe /\ Framed => WellFramed
    BY FramedIsWell
  <1>. QED
    BY <1>1, <1>2, <1>3, SafeAlways, PTL DEF Spec
=============================================================================
