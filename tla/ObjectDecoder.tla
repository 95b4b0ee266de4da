--------------------------- MODULE ObjectDecoder ---------------------------
(* What a decode leaves in the message it is decoded into: IStreamObject and   *)
(* IStreamInto (sofab.hpp:6219-6321) over the streaming decoder, the typed     *)
(* reads with their kinds of storage (3560-3667, 5513-5885) and the collectors *)
(* of wrapper arrays (6635-7230).                                              *)
(*                                                                             *)
(* A place of the message is named by the ids on the way to it; an element of  *)
(* a collector by its index, which is its id.  Each step of the parser is      *)
(* joined with what it does to the places.  A unit of a value (a character, a  *)
(* byte, an element) is the byte of the message it was read from, tagged with  *)
(* the message's number, so that a unit lost, moved or left over shows.        *)
EXTENDS IStream

CONSTANTS
    Storage,        \* alphabet name -> what its value is kept in
    Clip,           \* units that fit what the handler reads a prefix into
    Later,          \* the messages that follow the first one
    MESSAGES        \* how many messages one stream decodes

\* FitDest grows a std::string or std::vector ("resizable") as the bytes arrive;
\* FixedString, FixedBytes and InlineVector have a "capacity" and a length; a
\* std::array has an "extent", and its elements past the last one read are T{}; a
\* span, or the buffer of read(void *, size_t), is "clipped": a handler of its own
\* takes what fits and is refused nothing.
ASSUME StorageAssumption ==
    /\ Later \subseteq Messages /\ Clip \in Nat /\ MESSAGES \in Nat \ {0}
    /\ Storage \in [DOMAIN Alphabet -> {"scalar", "resizable", "capacity", "extent", "clipped"}]
    /\ \A x \in DOMAIN Alphabet :
        /\ Alphabet[x].type \in {"ints", "floats"} => Storage[x] # "scalar"
        /\ Alphabet[x].type = "string" => Storage[x] \in {"resizable", "capacity"}
        /\ Alphabet[x].type = "blob" => Storage[x] \in {"resizable", "capacity", "clipped"}
        /\ Alphabet[x].type \in {"varint", "fp"} => Storage[x] = "scalar" /\ Alphabet[x].units = 1

VARIABLES
    holder,         \* "object": IStreamObject owns the message; "into": the caller does
    number,         \* of the message being decoded
    dst,            \* place -> what is there
    earlier         \* what was there when the message began

objectVars == <<holder, number, dst, earlier>>

Collector(f) == f.type = "start" /\ f.elem # "none"

\* The place of field k inside the sequences open.
Place(m, open, k) == Append([i \in 1..Len(open) |-> At(m, open[i]).id], At(m, k).id)
PlaceOf(m, k) == Place(m, m.opens[k], k)
LiveFields(m) == {k \in m.live : At(m, k).type # "end"}

\* All messages are of one schema: what is read at a place has the same storage in each,
\* and what collects there has the same bounds.
Declared(m, k) ==
    [storage |-> Storage[m.fields[k]], collects |-> Collector(At(m, k)),
     bounds |-> IndexBounds(At(m, k))]
ASSUME SchemaAssumption ==
    /\ \A x \in DOMAIN Alphabet : IndexBounds(Alphabet[x]) \subseteq Nat
    /\ \A m, n \in Decodings : \A j \in LiveFields(m), k \in LiveFields(n) :
            PlaceOf(m, j) = PlaceOf(n, k) => Declared(m, j) = Declared(n, k)

\* A leaf has a buffer, of which the first len units are its value; a collector has
\* size elements.  A message has the places that were written, the rest is Empty.
Empty == [buf |-> <<>>, len |-> 0, size |-> 0]
Blank == [of |-> 0, byte |-> 0]
Fresh == <<>>
There(d, q) == IF q \in DOMAIN d THEN d[q] ELSE Empty
Put(d, q, leaf) == [r \in DOMAIN d \cup {q} |-> IF r = q THEN leaf ELSE d[r]]
Value(d, q) == SubSeq(There(d, q).buf, 1, There(d, q).len)
Under(q, c) == Len(q) > Len(c) /\ IsPrefix(c, q)

------------------------------------------------------------------------------
(* Containers. *)

\* prepare(): out.clear().
Cleared(d, c) == Put([q \in {r \in DOMAIN d : ~Under(r, c)} |-> d[q]], c, Empty)

\* A container that is replaced to grow.
GrownAnew(d, c, id) ==
    IF id < There(d, c).size THEN d ELSE Put(Cleared(d, c), c, [Empty EXCEPT !.size = id + 1])

\* while (out.size() <= id) out.emplace_back();
Grown(d, c, id) ==
    LET added == {r \in DOMAIN d : Under(r, c) /\ r[Len(c) + 1] \in There(d, c).size..id}
        anew == [q \in DOMAIN d |-> IF q \in added THEN Empty ELSE d[q]]
    IN IF id < There(d, c).size THEN d ELSE Put(anew, c, [Empty EXCEPT !.size = id + 1])

Resized(buf, n) == [i \in 1..n |-> IF i <= Len(buf) THEN buf[i] ELSE Blank]

\* The units are written behind the first done ones.
Overlaid(buf, done, units) ==
    [i \in 1..Max({Len(buf), done + Len(units)}) |->
        IF i \in (done + 1)..(done + Len(units)) THEN units[i - done]
        ELSE IF i <= Len(buf) THEN buf[i] ELSE Blank]

------------------------------------------------------------------------------
(* One delivery to the handler: deserialize() of the level is called for field k. *)

Around(k) == [i \in 1..seqDepth |-> stack[i].k]
Here(k) == Place(msg, Around(k), k)
IsElement == stack # <<>> /\ Collector(At(msg, stack[seqDepth].k))

\* A collector of strings or blobs tests their length before it places the element;
\* the count of a row, and the room of any element, are tested by the read behind it.
TestedFirst(f) == f.type \in {"string", "blob"} /\ f.use \in {"overSchema", "overCap"}
Placed(k) ==
    IF IsElement /\ ~TestedFirst(At(msg, k)) THEN Grown(dst, Front(Here(k)), At(msg, k).id)
    ELSE dst

\* prepare() at every visit.
EnteredAnew(k) ==
    IF Collector(At(msg, k)) THEN Cleared(Placed(k), Here(k)) ELSE Placed(k)

\* read() of a nested message or collector; one that is resumed keeps what it has.
Entered(k) ==
    IF Collector(At(msg, k)) /\ ~replay THEN Cleared(Placed(k), Here(k)) ELSE Placed(k)

\* Room is made for n more bytes of the payload to come; an array is put into its
\* initial state by the first delivery.
Reach(f, n) ==
    LET units == IF f.type = "ints" THEN n ELSE n \div f.width
    IN Min({f.units, pendDone + units})
Readied(leaf, f, storage, n) ==
    CASE storage = "resizable" ->
            LET buf == Resized(leaf.buf, Max({Len(leaf.buf), Reach(f, n)}))
            IN [leaf EXCEPT !.buf = buf, !.len = Len(buf)]
      [] storage = "capacity" /\ f.type \in {"ints", "floats"} /\ pendDone = 0 ->
            [leaf EXCEPT !.buf = Resized(SubSeq(leaf.buf, 1, leaf.len), f.units),
                         !.len = f.units]
      [] storage = "extent" /\ pendDone = 0 -> Empty
      [] OTHER -> leaf

\* The elements that arrived are stored; those that do not fit a vector are parsed only.
Filled(leaf, storage, units) ==
    LET buf == Overlaid(leaf.buf, pendDone, units)
    IN CASE storage = "resizable" -> [leaf EXCEPT !.buf = SubSeq(buf, 1, Len(leaf.buf))]
         [] storage = "extent" -> [leaf EXCEPT !.buf = buf, !.len = Len(buf)]
         [] storage = "clipped" -> [leaf EXCEPT !.buf = SubSeq(buf, 1, Min({Clip, Len(buf)}))]
         [] OTHER -> [leaf EXCEPT !.buf = buf]

\* A length that counts the NUL behind the value.
NulCounted(leaf, f, storage) ==
    IF storage = "capacity" THEN [leaf EXCEPT !.buf = Resized(@, f.units), !.len = f.units + 1]
    ELSE leaf

\* destSetLen, once the payload is whole and found good.
Published(leaf, f, storage) ==
    CASE storage \in {"resizable", "capacity"} ->
            [leaf EXCEPT !.buf = Resized(@, f.units), !.len = f.units]
      [] storage = "clipped" -> [leaf EXCEPT !.len = Min({Clip, f.units})]
      [] OTHER -> leaf

\* A scalar is stored when its bytes are there.
Assigned(leaf, units) ==
    IF units = <<>> THEN leaf ELSE [leaf EXCEPT !.buf = units, !.len = Len(units)]

UnitsStored ==
    [i \in 1..(Len(Stored) \div Grain) |->
        [of |-> number, byte |-> Stored[(i - 1) * Grain + 1][2]]]
Read(leaf, f, storage) ==
    LET filled == Filled(Readied(leaf, f, storage, Avail), storage, UnitsStored)
    IN IF storage = "scalar" THEN Assigned(leaf, UnitsStored)
       ELSE IF Over /\ ~Faulty THEN Published(filled, f, storage) ELSE filled

StorageOf(k) == Storage[msg.fields[k]]

------------------------------------------------------------------------------
(* The steps of the parser with what the handler does. *)

Silent ==
    /\ \/ KeepCarrying \/ ParseTheRest \/ Stash \/ Resume \/ LeaveLevel \/ WindowEnds
       \/ RefuseSpan \/ HeaderCut \/ RefuseHeader \/ SequenceOver \/ Accept \/ FeedNothing
       \/ \E n \in 1..Bytes(msg) : Feed(n)
    /\ UNCHANGED objectVars

ObjectDescend ==
    /\ Descend
    /\ dst' = LET at == path[seqDepth] IN IF at.skip THEN dst ELSE Entered(at.k)
    /\ UNCHANGED <<holder, number, earlier>>

ObjectSequence ==
    /\ DeliverSequence
    /\ dst' = IF Takes THEN Entered(cur.k) ELSE dst
    /\ UNCHANGED <<holder, number, earlier>>

\* A sequence too deep is refused behind prepare(), any other field before its
\* destination is written.
ObjectRefused ==
    /\ DeliverRefused
    /\ dst' = IF ~Takes THEN dst
              ELSE IF Current.type = "start" THEN Entered(cur.k) ELSE Placed(cur.k)
    /\ UNCHANGED <<holder, number, earlier>>

ObjectPayload ==
    /\ DeliverPayload
    /\ dst' = IF ~Takes THEN dst
              ELSE LET placed == Placed(cur.k)
                       q == Here(cur.k)
                   IN Put(placed, q, Read(There(placed, q), Current, StorageOf(cur.k)))
    /\ UNCHANGED <<holder, number, earlier>>

\* The handler is asked with the payload withheld: an array is made ready, and an
\* empty value is read.
Withhold(leaf, f, storage) ==
    IF RefusalOf(f.use) # "None" THEN leaf
    ELSE LET ready == Readied(leaf, f, storage, 0)
         IN IF f.units = 0 THEN Published(ready, f, storage) ELSE ready
ObjectWithheld ==
    /\ RefuseWithheld
    /\ dst' = LET f == At(msg, This) IN
              IF f.type \notin Sized \ {"fp"} THEN dst
              ELSE LET q == Place(msg, <<>>, This)
                   IN Put(dst, q, Withhold(There(dst, q), f, StorageOf(This)))
    /\ UNCHANGED <<holder, number, earlier>>

\* A reset() of the decoder alone.
DecoderReset(next) ==
    /\ number < MESSAGES /\ ResetTo(next)
    /\ number' = number + 1 /\ earlier' = dst
    /\ UNCHANGED <<holder, dst>>

\* reset() of an IStreamObject puts its message back; that of an IStreamInto leaves
\* it to the caller, who may or may not.
ObjectReset(next) ==
    /\ number < MESSAGES
    /\ ResetTo(next)
    /\ number' = number + 1
    /\ dst' \in IF holder = "object" THEN {Fresh} ELSE {Fresh, dst}
    /\ earlier' = dst'
    /\ UNCHANGED holder

ObjectInit ==
    /\ Init
    /\ holder \in {"object", "into"} /\ number = 1 /\ dst = Fresh /\ earlier = Fresh

LaterDecodings == {m \in Decodings : m.fields \in Later}

ObjectNext ==
    \/ Silent \/ ObjectDescend \/ ObjectSequence \/ ObjectRefused \/ ObjectPayload
    \/ ObjectWithheld
    \/ \E next \in LaterDecodings : ObjectReset(next)

ObjectSpec == ObjectInit /\ [][ObjectNext]_<<vars, objectVars>>

------------------------------------------------------------------------------
(* What a message means: its fields applied whole, one after the other. *)

\* The units of field k that are kept.
Kept(m, k) ==
    IF Storage[m.fields[k]] = "clipped" THEN Min({Clip, At(m, k).units}) ELSE At(m, k).units
Units(m, k) ==
    [i \in 1..Kept(m, k) |->
        [of |-> number, byte |-> m.start[k] + Header(At(m, k)) + (i - 1) * At(m, k).width + 1]]

Element(m, k) == Nested(m, k) /\ Collector(At(m, Outer(m, k)))
Begun(d, m, k) ==
    LET c == PlaceOf(m, Outer(m, k))
        most == Max({There(d, c).size, At(m, k).id + 1})
    IN IF Element(m, k) THEN Put(d, c, [Empty EXCEPT !.size = most]) ELSE d
Applied(d, m, k) ==
    LET q == PlaceOf(m, k)
        begun == Begun(d, m, k)
    IN IF k \notin LiveFields(m) THEN d
       ELSE IF At(m, k).type # "start"
            THEN Put(begun, q, [buf |-> Units(m, k), len |-> Kept(m, k), size |-> 0])
       ELSE IF Collector(At(m, k)) THEN Cleared(begun, q) ELSE begun

\* What n steps make of base, and the message of its destination by its first n fields.
Steps(step(_, _), base, n) ==
    LET after[k \in 0..n] == IF k = 0 THEN base ELSE step(after[k - 1], k) IN after[n]
Meaning(n) == Steps(LAMBDA d, k : Applied(d, msg, k), earlier, n)

Same(d, e, q) == Value(d, q) = Value(e, q) /\ There(d, q).size = There(e, q).size
InProgress == pend # NoPend /\ ~pend.skip

------------------------------------------------------------------------------
(* Properties. *)

\* Every variable has its type, and no value is longer than what it is kept in.
ObjectTypeOK ==
    /\ holder \in {"object", "into"} /\ number \in 1..MESSAGES
    /\ \A q \in DOMAIN dst :
        /\ \A i \in DOMAIN dst[q].buf :
            dst[q].buf[i].of \in 0..number /\ dst[q].buf[i].byte \in Nat
        /\ dst[q].len \in 0..Len(dst[q].buf) /\ dst[q].size \in Nat

\* Between two feeds every place holds what the whole fields so far make of it, however
\* the bytes were cut and whatever was there before; the one field that is under way
\* has its element in place and loses nothing of what arrived
\* (sofab.hpp:5298, 5860, 6791-6830, 7043-7119).
ObjectExact ==
    Suspended =>
        LET k == NextField
            whole == Meaning(k - 1)
            want == IF InProgress THEN Begun(whole, msg, k) ELSE whole
        IN /\ \A q \in DOMAIN dst \cup DOMAIN want :
                ~(InProgress /\ q = PlaceOf(msg, k)) => Same(dst, want, q)
           /\ InProgress =>
                LET kept == Min({pendDone, Kept(msg, k)})
                IN SubSeq(There(dst, PlaceOf(msg, k)).buf, 1, kept) = SubSeq(Units(msg, k), 1, kept)

\* "A rejected input likewise leaves the fields decoded before the error in it"
\* (sofab.hpp:6285-6286): the refused field can have touched its own place, what is
\* below that, and the length of the collector it is an element of.
RefusalKeepsFields ==
    pc = "idle" /\ terminal # "None" =>
        LET k == Answer(msg, fed).faulty
            want == Meaning(k - 1)
            own == PlaceOf(msg, k)
        IN \A q \in DOMAIN dst \cup DOMAIN want :
            \/ Same(dst, want, q)
            \/ q = own \/ Under(q, own)
            \/ Element(msg, k) /\ Same(dst, Begun(want, msg, k), q)

\* A collector never has more elements than its bounds allow, so that emplace_back is
\* never called on a full InlineVector, where it would give the last element twice
\* (sofab.hpp:1258-1275, 6826, 7076).
CollectorsWithinBounds ==
    \A m \in {msg} : \A k \in LiveFields(m) :
        Collector(At(m, k)) =>
            \A b \in IndexBounds(At(m, k)) : There(dst, PlaceOf(m, k)).size <= b

\* An IStreamObject shows nothing of an earlier message (sofab.hpp:6250).
NothingLeftOver ==
    holder = "object" =>
        \A q \in DOMAIN dst : \A i \in DOMAIN dst[q].buf : dst[q].buf[i].of \in {0, number}

\* sofab.hpp:3629-3631, of the reads of strings and blobs: "only the length is
\* published, once, at the end -- no caller ever sees a half-written value".
NeverHalfWritten ==
    Suspended /\ InProgress /\ At(msg, pend.k).type \in {"string", "blob"} =>
        LET q == PlaceOf(msg, pend.k) IN Value(dst, q) = Value(Meaning(pend.k - 1), q)
=============================================================================
