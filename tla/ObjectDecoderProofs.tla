------------------------ MODULE ObjectDecoderProofs ------------------------
(* What holds of the message that is decoded into, for every alphabet, every   *)
(* set of messages, every storage, and every sequence of messages on a stream. *)
EXTENDS ObjectDecoder, IStreamProofs

------------------------------------------------------------------------------
(* What is at the places. *)

\* A leaf holds units of the messages in marks, and no more of them count than it has.
UnitsOf(marks) == [of : marks, byte : Nat]
Leaves(marks) ==
    {leaf \in [buf : Seq(UnitsOf(marks)), len : Nat, size : Nat] : leaf.len <= Len(leaf.buf)}
Made(d, marks) == \A q \in DOMAIN d : d[q] \in Leaves(marks)

\* What may be at a place without any message having to say so: a value is not longer than
\* the buffer it was cut to, and a collector not larger than any of its bounds.
FitsAt(leaf, m, k) ==
    /\ Storage[m.fields[k]] = "clipped" => leaf.len <= Clip
    /\ Collector(At(m, k)) => \A b \in IndexBounds(At(m, k)) : leaf.size <= b
Fits(d) == \A m \in Decodings : \A k \in LiveFields(m) : FitsAt(There(d, PlaceOf(m, k)), m, k)

------------------------------------------------------------------------------
(* The operations on a leaf. *)

\* The greater of two numbers.
LEMMA MaxOfTwo ==
    ASSUME NEW a \in Int, NEW b \in Int
    PROVE  Max({a, b}) = IF a <= b THEN b ELSE a
BY DEF Max

\* A leaf, part by part.
LEMMA LeafIs ==
    ASSUME NEW marks, NEW leaf
    PROVE  leaf \in Leaves(marks) <=>
            /\ leaf = [buf |-> leaf.buf, len |-> leaf.len, size |-> leaf.size]
            /\ leaf.buf \in Seq(UnitsOf(marks)) /\ leaf.len \in Nat /\ leaf.size \in Nat
            /\ leaf.len <= Len(leaf.buf)
BY DEF Leaves

\* A leaf is made of a buffer and a length within it.
LEMMA LeafOf ==
    ASSUME NEW marks, NEW buf \in Seq(UnitsOf(marks)), NEW len \in Nat, NEW size \in Nat,
           len <= Len(buf)
    PROVE  [buf |-> buf, len |-> len, size |-> size] \in Leaves(marks)
BY DEF Leaves

\* What is not written.
LEMMA EmptyIsLeaf ==
    ASSUME NEW marks, NEW n \in Nat
    PROVE  Empty \in Leaves(marks) /\ [Empty EXCEPT !.size = n] \in Leaves(marks)
<1>1. ASSUME NEW m \in Nat PROVE [buf |-> <<>>, len |-> 0, size |-> m] \in Leaves(marks)
    <2>1. PICK none : none = <<>>
        OBVIOUS
    <2>2. none \in Seq(UnitsOf(marks)) /\ Len(none) = 0
        BY <2>1
    <2>3. 0 \in Nat /\ 0 <= Len(none)
        BY <2>2
    <2>4. [buf |-> none, len |-> 0, size |-> m] \in Leaves(marks)
        BY <2>2, <2>3, LeafOf
    <2>. QED  BY <2>1, <2>4
<1>2. [Empty EXCEPT !.size = n] = [buf |-> <<>>, len |-> 0, size |-> n]
    BY DEF Empty
<1>3. Empty = [buf |-> <<>>, len |-> 0, size |-> 0]
    BY DEF Empty
<1>. QED  BY <1>1, <1>2, <1>3

\* A buffer that grows or shrinks is filled up with blanks.
LEMMA ResizedIs ==
    ASSUME NEW marks, 0 \in marks, NEW buf \in Seq(UnitsOf(marks)), NEW n \in Nat
    PROVE  Resized(buf, n) \in Seq(UnitsOf(marks)) /\ Len(Resized(buf, n)) = n
<1>1. Blank \in UnitsOf(marks)
    BY DEF Blank, UnitsOf
<1>2. \A i \in 1..n : (IF i <= Len(buf) THEN buf[i] ELSE Blank) \in UnitsOf(marks)
    BY <1>1
<1>. QED  BY <1>2 DEF Resized

\* Units that are written behind others make a buffer at least as long as both.
LEMMA OverlaidIs ==
    ASSUME NEW marks, 0 \in marks, NEW buf \in Seq(UnitsOf(marks)), NEW done \in Nat,
           NEW units \in Seq(UnitsOf(marks))
    PROVE  /\ Overlaid(buf, done, units) \in Seq(UnitsOf(marks))
           /\ Len(Overlaid(buf, done, units)) >= Len(buf)
           /\ Len(Overlaid(buf, done, units)) >= done + Len(units)
<1>1. PICK l \in Nat, m \in Nat : l = Len(buf) /\ m = Len(units)
    OBVIOUS
<1>2. PICK n \in Nat : n = Max({l, done + m}) /\ n >= l /\ n >= done + m
    BY MaxOfTwo
<1>3. Blank \in UnitsOf(marks)
    BY DEF Blank, UnitsOf
<1>4. ASSUME NEW i \in 1..n
      PROVE  (IF i \in (done + 1)..(done + m) THEN units[i - done]
              ELSE IF i <= l THEN buf[i] ELSE Blank) \in UnitsOf(marks)
    <2>1. CASE i \in (done + 1)..(done + m)
        <3>1. i - done \in 1..m
            BY <2>1
        <3>. QED  BY <1>1, <2>1, <3>1
    <2>2. CASE i \notin (done + 1)..(done + m)
        BY <1>1, <1>3, <2>2
    <2>. QED  BY <2>1, <2>2
<1>5. Overlaid(buf, done, units) =
        [i \in 1..n |-> IF i \in (done + 1)..(done + m) THEN units[i - done]
                        ELSE IF i <= l THEN buf[i] ELSE Blank]
    BY <1>1, <1>2 DEF Overlaid
<1>. HIDE DEF Overlaid
<1>6. Overlaid(buf, done, units) \in Seq(UnitsOf(marks)) /\ Len(Overlaid(buf, done, units)) = n
    BY <1>4, <1>5
<1>. QED  BY <1>1, <1>2, <1>6

\* The first n units of a buffer.
LEMMA FirstAre ==
    ASSUME NEW marks, NEW buf \in Seq(UnitsOf(marks)), NEW n \in 0..Len(buf)
    PROVE  SubSeq(buf, 1, n) \in Seq(UnitsOf(marks)) /\ Len(SubSeq(buf, 1, n)) = n
OBVIOUS

------------------------------------------------------------------------------
(* Reads. *)

\* A field that is read into a storage, as far as its sizes go.
Readable(f, storage) ==
    /\ f.units \in Nat /\ f.width \in Nat \ {0}
    /\ storage \in {"scalar", "resizable", "capacity", "extent", "clipped"}

\* Room is made for units within the payload.
LEMMA ReachIs ==
    ASSUME NEW f, NEW storage, Readable(f, storage), pendDone \in Nat, NEW n \in Nat
    PROVE  Reach(f, n) \in Nat
<1>1. PICK u \in Nat : u = (IF f.type = "ints" THEN n ELSE n \div f.width)
    <2>1. n \div f.width \in Nat
        BY WholeUnits DEF Readable
    <2>. QED  BY <2>1
<1>2. Reach(f, n) = Min({f.units, pendDone + u})
    BY <1>1 DEF Reach
<1>3. f.units \in Int /\ pendDone + u \in Int
    BY <1>1 DEF Readable
<1>. QED  BY <1>1, <1>2, <1>3, MinOfTwo DEF Readable

\* An array is put into its initial state; a span or a raw buffer is left alone.
LEMMA ReadiedIs ==
    ASSUME NEW marks, 0 \in marks, NEW leaf \in Leaves(marks), NEW f, NEW storage,
           Readable(f, storage), pendDone \in Nat, NEW n \in Nat
    PROVE  LET new == Readied(leaf, f, storage, n) IN
           /\ new \in Leaves(marks) /\ new.size \in {leaf.size, 0}
           /\ storage = "clipped" => new = leaf
<1>1. /\ leaf.buf \in Seq(UnitsOf(marks)) /\ Len(leaf.buf) \in Nat /\ leaf.len \in Nat
      /\ leaf.size \in Nat /\ leaf.len <= Len(leaf.buf)
      /\ leaf = [buf |-> leaf.buf, len |-> leaf.len, size |-> leaf.size]
    BY LeafIs
<1>2. CASE storage = "resizable"
    <2>1. PICK m \in Nat : m = Max({Len(leaf.buf), Reach(f, n)})
        <3>1. PICK r \in Nat : r = Reach(f, n)
            BY ReachIs
        <3>2. PICK l \in Nat : l = Len(leaf.buf)
            BY <1>1
        <3>3. Max({l, r}) \in Nat
            BY MaxOfTwo
        <3>. QED  BY <3>1, <3>2, <3>3
    <2>2. PICK buf \in Seq(UnitsOf(marks)) : buf = Resized(leaf.buf, m) /\ Len(buf) \in Nat
        BY <1>1, ResizedIs
    <2>3. Readied(leaf, f, storage, n) = [buf |-> buf, len |-> Len(buf), size |-> leaf.size]
        BY <1>1, <1>2, <2>1, <2>2 DEF Readied
    <2>. QED  BY <1>1, <1>2, <2>2, <2>3, LeafIs
<1>3. CASE storage = "capacity" /\ f.type \in {"ints", "floats"} /\ pendDone = 0
    <2>1. PICK old \in Seq(UnitsOf(marks)) : old = SubSeq(leaf.buf, 1, leaf.len)
        <3>1. leaf.len \in 0..Len(leaf.buf)
            BY <1>1
        <3>. QED  BY <1>1, <3>1, FirstAre
    <2>2. PICK buf \in Seq(UnitsOf(marks)) : buf = Resized(old, f.units) /\ Len(buf) = f.units
        <3>1. f.units \in Nat
            BY DEF Readable
        <3>. QED  BY <3>1, ResizedIs
    <2>3. Readied(leaf, f, storage, n) = [buf |-> buf, len |-> f.units, size |-> leaf.size]
        BY <1>1, <1>3, <2>1, <2>2 DEF Readied
    <2>. QED  BY <1>1, <1>3, <2>2, <2>3, LeafIs DEF Readable
<1>4. CASE storage = "extent" /\ pendDone = 0
    <2>1. Readied(leaf, f, storage, n) = Empty
        BY <1>4 DEF Readied
    <2>. QED  BY <1>4, <2>1, EmptyIsLeaf DEF Empty
<1>5. CASE ~(\/ storage = "resizable"
             \/ storage = "capacity" /\ f.type \in {"ints", "floats"} /\ pendDone = 0
             \/ storage = "extent" /\ pendDone = 0)
    <2>1. Readied(leaf, f, storage, n) = leaf
        BY <1>5 DEF Readied
    <2>. QED  BY <2>1
<1>. QED  BY <1>2, <1>3, <1>4, <1>5

\* The units that arrived are written.
LEMMA FilledIs ==
    ASSUME NEW marks, 0 \in marks, NEW leaf \in Leaves(marks), NEW storage,
           storage \in {"scalar", "resizable", "capacity", "extent", "clipped"},
           pendDone \in Nat, NEW units \in Seq(UnitsOf(marks)),
           storage = "clipped" => leaf.len <= Clip
    PROVE  LET new == Filled(leaf, storage, units) IN
           /\ new \in Leaves(marks) /\ new.size = leaf.size
           /\ storage = "clipped" =>
                /\ new.len = leaf.len
                /\ Clip <= pendDone + Len(units) => Len(new.buf) = Clip
                /\ pendDone + Len(units) < Clip => Len(new.buf) >= pendDone + Len(units)
<1>1. /\ leaf.buf \in Seq(UnitsOf(marks)) /\ Len(leaf.buf) \in Nat /\ leaf.len \in Nat
      /\ leaf.size \in Nat /\ leaf.len <= Len(leaf.buf)
      /\ leaf = [buf |-> leaf.buf, len |-> leaf.len, size |-> leaf.size]
    BY LeafIs
<1>2. PICK buf \in Seq(UnitsOf(marks)) :
        /\ buf = Overlaid(leaf.buf, pendDone, units)
        /\ Len(buf) \in Nat /\ Len(buf) >= Len(leaf.buf) /\ Len(buf) >= pendDone + Len(units)
    BY <1>1, OverlaidIs
<1>3. CASE storage = "resizable"
    <2>1. PICK cut \in Seq(UnitsOf(marks)) :
            cut = SubSeq(buf, 1, Len(leaf.buf)) /\ Len(cut) = Len(leaf.buf)
        <3>1. Len(leaf.buf) \in 0..Len(buf)
            BY <1>1, <1>2
        <3>. QED  BY <3>1, FirstAre
    <2>2. Filled(leaf, storage, units) = [buf |-> cut, len |-> leaf.len, size |-> leaf.size]
        BY <1>1, <1>2, <1>3, <2>1 DEF Filled
    <2>. QED  BY <1>1, <1>3, <2>1, <2>2, LeafIs
<1>4. CASE storage = "extent"
    <2>1. Filled(leaf, storage, units) = [buf |-> buf, len |-> Len(buf), size |-> leaf.size]
        BY <1>1, <1>2, <1>4 DEF Filled
    <2>. QED  BY <1>1, <1>2, <1>4, <2>1, LeafIs
<1>5. CASE storage = "clipped"
    <2>1. Clip \in Nat /\ Len(units) \in Nat
        BY StorageAssumption
    <2>2. PICK n \in 0..Len(buf) : n = Min({Clip, Len(buf)}) /\ n = (IF Clip <= Len(buf) THEN Clip ELSE Len(buf))
        <3>1. Min({Clip, Len(buf)}) = (IF Clip <= Len(buf) THEN Clip ELSE Len(buf))
            BY <1>2, <2>1, MinOfTwo
        <3>. QED  BY <1>2, <2>1, <3>1
    <2>3. PICK cut \in Seq(UnitsOf(marks)) : cut = SubSeq(buf, 1, n) /\ Len(cut) = n
        BY FirstAre
    <2>4. Filled(leaf, storage, units) = [buf |-> cut, len |-> leaf.len, size |-> leaf.size]
        BY <1>1, <1>2, <1>5, <2>2, <2>3 DEF Filled
    <2>5. leaf.len <= n
        BY <1>1, <1>2, <1>5, <2>1, <2>2
    <2>6. Filled(leaf, storage, units) \in Leaves(marks)
        BY <1>1, <2>3, <2>4, <2>5, LeafIs
    <2>. QED  BY <1>1, <1>2, <2>1, <2>2, <2>3, <2>4, <2>6
<1>6. CASE storage \in {"scalar", "capacity"}
    <2>1. Filled(leaf, storage, units) = [buf |-> buf, len |-> leaf.len, size |-> leaf.size]
        BY <1>1, <1>2, <1>6 DEF Filled
    <2>2. leaf.len <= Len(buf)
        BY <1>1, <1>2
    <2>. QED  BY <1>1, <1>2, <1>6, <2>1, <2>2, LeafIs
<1>. QED  BY <1>3, <1>4, <1>5, <1>6

\* The length is published when the buffer holds that much.
LEMMA PublishedIs ==
    ASSUME NEW marks, 0 \in marks, NEW leaf \in Leaves(marks), NEW f, NEW storage,
           Readable(f, storage), storage = "clipped" => Min({Clip, f.units}) <= Len(leaf.buf)
    PROVE  LET new == Published(leaf, f, storage) IN
           /\ new \in Leaves(marks) /\ new.size = leaf.size
           /\ storage = "clipped" => new.len <= Clip
<1>1. /\ leaf.buf \in Seq(UnitsOf(marks)) /\ Len(leaf.buf) \in Nat /\ leaf.len \in Nat
      /\ leaf.size \in Nat /\ leaf.len <= Len(leaf.buf)
      /\ leaf = [buf |-> leaf.buf, len |-> leaf.len, size |-> leaf.size]
    BY LeafIs
<1>2. CASE storage \in {"resizable", "capacity"}
    <2>1. PICK buf \in Seq(UnitsOf(marks)) : buf = Resized(leaf.buf, f.units) /\ Len(buf) = f.units
        BY <1>1, ResizedIs DEF Readable
    <2>2. Published(leaf, f, storage) = [buf |-> buf, len |-> f.units, size |-> leaf.size]
        BY <1>1, <1>2, <2>1 DEF Published
    <2>. QED  BY <1>1, <1>2, <2>1, <2>2, LeafIs DEF Readable
<1>3. CASE storage = "clipped"
    <2>1. PICK n \in Nat : n = Min({Clip, f.units}) /\ n <= Clip
        <3>1. Clip \in Nat /\ f.units \in Nat
            BY StorageAssumption DEF Readable
        <3>2. Min({Clip, f.units}) = (IF Clip <= f.units THEN Clip ELSE f.units)
            BY <3>1, MinOfTwo
        <3>. QED  BY <3>1, <3>2
    <2>2. Published(leaf, f, storage) = [buf |-> leaf.buf, len |-> n, size |-> leaf.size]
        BY <1>1, <1>3, <2>1 DEF Published
    <2>. QED  BY <1>1, <1>3, <2>1, <2>2, LeafIs
<1>4. CASE storage \notin {"resizable", "capacity", "clipped"}
    <2>1. Published(leaf, f, storage) = leaf
        BY <1>4 DEF Published
    <2>. QED  BY <1>4, <2>1
<1>. QED  BY <1>2, <1>3, <1>4

------------------------------------------------------------------------------
(* The operations on the message. *)

Good(d, marks) == Made(d, marks) /\ Fits(d)

\* What is read at one place, in whatever message, is kept in the same way.
LEMMA SameSchema ==
    ASSUME NEW m \in Decodings, NEW j \in LiveFields(m),
           NEW n \in Decodings, NEW k \in LiveFields(n), PlaceOf(m, j) = PlaceOf(n, k),
           NEW leaf, FitsAt(leaf, m, j)
    PROVE  FitsAt(leaf, n, k)
<1>1. Declared(m, j) = Declared(n, k)
    BY SchemaAssumption
<1>2. /\ Storage[m.fields[j]] = Storage[n.fields[k]]
      /\ Collector(At(m, j)) = Collector(At(n, k))
      /\ IndexBounds(At(m, j)) = IndexBounds(At(n, k))
    BY <1>1 DEF Declared
<1>. QED  BY <1>2 DEF FitsAt

\* The bounds of an index are numbers.
LEMMA BoundsAre ==
    ASSUME NEW m \in Decodings, NEW k \in Fields(m)
    PROVE  IndexBounds(At(m, k)) \subseteq Nat
<1>1. m.fields[k] \in DOMAIN Alphabet
    BY DecodingsAreLaid DEF Laid, Fields
<1>. QED  BY <1>1, SchemaAssumption DEF At, Known

\* What is nowhere fits everywhere.
LEMMA EmptyFits ==
    ASSUME NEW m \in Decodings, NEW k \in LiveFields(m)
    PROVE  FitsAt(Empty, m, k)
<1>1. k \in Fields(m)
    BY DecodingsAreLaid DEF Laid, LiveFields
<1>2. IndexBounds(At(m, k)) \subseteq Nat /\ Clip \in Nat
    BY <1>1, BoundsAre, StorageAssumption
<1>. QED  BY <1>2 DEF FitsAt, Empty

\* What is at a place is a leaf.
LEMMA ThereIs ==
    ASSUME NEW d, NEW marks, Made(d, marks), NEW q
    PROVE  There(d, q) \in Leaves(marks)
<1>1. Empty \in Leaves(marks)
    <2>1. PICK n \in Nat : n = 0
        OBVIOUS
    <2>. QED  BY EmptyIsLeaf
<1>. QED  BY <1>1 DEF Made, There

\* A message that has nothing.
LEMMA FreshIsGood ==
    ASSUME NEW marks
    PROVE  Good(Fresh, marks)
<1>1. DOMAIN Fresh = {}
    BY DEF Fresh
<1>2. Fits(Fresh)
    BY <1>1, EmptyFits DEF Fits, There
<1>. QED  BY <1>1, <1>2 DEF Good, Made

\* One leaf is put in its place.
LEMMA PutKeeps ==
    ASSUME NEW d, NEW marks, Good(d, marks), NEW m \in Decodings, NEW k \in LiveFields(m),
           NEW leaf \in Leaves(marks), FitsAt(leaf, m, k)
    PROVE  Good(Put(d, PlaceOf(m, k), leaf), marks)
<1>1. PICK q : q = PlaceOf(m, k)
    OBVIOUS
<1>2. PICK e : e = Put(d, q, leaf)
    OBVIOUS
<1>3. DOMAIN e = DOMAIN d \cup {q} /\ \A r \in DOMAIN e : e[r] = IF r = q THEN leaf ELSE d[r]
    BY <1>2 DEF Put
<1>4. Made(e, marks)
    BY <1>3 DEF Good, Made
<1>5. \A r : There(e, r) = IF r = q THEN leaf ELSE There(d, r)
    BY <1>3 DEF There
<1>6. ASSUME NEW n \in Decodings, NEW j \in LiveFields(n) PROVE FitsAt(There(e, PlaceOf(n, j)), n, j)
    <2>1. CASE PlaceOf(n, j) = q
        <3>1. FitsAt(leaf, n, j)
            BY <1>1, <2>1, SameSchema
        <3>. QED  BY <1>5, <2>1, <3>1
    <2>2. CASE PlaceOf(n, j) # q
        <3>1. There(e, PlaceOf(n, j)) = There(d, PlaceOf(n, j))
            BY <1>5, <2>2
        <3>. QED  BY <3>1 DEF Good, Fits
    <2>. QED  BY <2>1, <2>2
<1>7. Fits(e)
    BY <1>6 DEF Fits
<1>. QED  BY <1>1, <1>2, <1>4, <1>7 DEF Good

\* Some leaves are emptied or taken away.
LEMMA EmptiedKeeps ==
    ASSUME NEW d, NEW marks, Good(d, marks), NEW e,
           \A q \in DOMAIN e : e[q] = Empty \/ (q \in DOMAIN d /\ e[q] = d[q])
    PROVE  Good(e, marks)
<1>1. Made(e, marks)
    <2>1. Empty \in Leaves(marks)
        <3>1. PICK n \in Nat : n = 0
            OBVIOUS
        <3>. QED  BY EmptyIsLeaf
    <2>. QED  BY <2>1 DEF Good, Made
<1>2. \A q : There(e, q) = Empty \/ There(e, q) = There(d, q)
    BY DEF There
<1>3. ASSUME NEW n \in Decodings, NEW j \in LiveFields(n) PROVE FitsAt(There(e, PlaceOf(n, j)), n, j)
    <2>1. CASE There(e, PlaceOf(n, j)) = Empty
        BY <2>1, EmptyFits
    <2>2. CASE There(e, PlaceOf(n, j)) = There(d, PlaceOf(n, j))
        BY <2>2 DEF Good, Fits
    <2>. QED  BY <1>2, <2>1, <2>2
<1>. QED  BY <1>1, <1>3 DEF Good, Fits

\* prepare() leaves nothing of a collector.
LEMMA ClearedKeeps ==
    ASSUME NEW d, NEW marks, Good(d, marks), NEW c
    PROVE  Good(Cleared(d, c), marks)
<1>1. PICK S : S = {r \in DOMAIN d : ~Under(r, c)}
    OBVIOUS
<1>2. PICK e : e = [q \in S |-> d[q]]
    OBVIOUS
<1>3. PICK g : g = Put(e, c, Empty)
    OBVIOUS
<1>4. DOMAIN g = S \cup {c} /\ \A q \in DOMAIN g : g[q] = IF q = c THEN Empty ELSE d[q]
    BY <1>2, <1>3 DEF Put
<1>5. \A q \in DOMAIN g : g[q] = Empty \/ (q \in DOMAIN d /\ g[q] = d[q])
    BY <1>1, <1>4
<1>6. Cleared(d, c) = g
    BY <1>1, <1>2, <1>3 DEF Cleared
<1>. QED  BY <1>5, <1>6, EmptiedKeeps

\* A collector grows up to an element whose index is below its bounds.
LEMMA GrownKeeps ==
    ASSUME NEW d, NEW marks, Good(d, marks), NEW m \in Decodings, NEW c \in LiveFields(m),
           NEW id \in Nat, Collector(At(m, c)) => \A b \in IndexBounds(At(m, c)) : ~(id >= b)
    PROVE  Good(Grown(d, PlaceOf(m, c), id), marks)
<1>1. PICK q : q = PlaceOf(m, c)
    OBVIOUS
<1>2. CASE id < There(d, q).size
    BY <1>1, <1>2 DEF Grown
<1>3. CASE ~(id < There(d, q).size)
    <2>1. PICK added : added = {r \in DOMAIN d : Under(r, q) /\ r[Len(q) + 1] \in There(d, q).size..id}
        OBVIOUS
    <2>2. PICK anew : anew = [r \in DOMAIN d |-> IF r \in added THEN Empty ELSE d[r]]
        OBVIOUS
    <2>3. Good(anew, marks)
        <3>1. \A r \in DOMAIN anew : anew[r] = Empty \/ (r \in DOMAIN d /\ anew[r] = d[r])
            BY <2>2
        <3>. QED  BY <3>1, EmptiedKeeps
    <2>4. PICK n \in Nat : n = id + 1
        OBVIOUS
    <2>5. PICK leaf \in Leaves(marks) : leaf = [Empty EXCEPT !.size = n]
        BY EmptyIsLeaf
    <2>6. FitsAt(leaf, m, c)
        <3>1. c \in Fields(m)
            BY DecodingsAreLaid DEF Laid, LiveFields
        <3>2. IndexBounds(At(m, c)) \subseteq Nat /\ Clip \in Nat
            BY <3>1, BoundsAre, StorageAssumption
        <3>3. leaf.len = 0 /\ leaf.size = n
            BY <2>5 DEF Empty
        <3>4. Collector(At(m, c)) => \A b \in IndexBounds(At(m, c)) : n <= b
            BY <2>4, <3>2
        <3>. QED  BY <3>2, <3>3, <3>4 DEF FitsAt
    <2>7. Grown(d, q, id) = Put(anew, q, leaf)
        BY <1>3, <2>1, <2>2, <2>4, <2>5 DEF Grown
    <2>. QED  BY <1>1, <2>3, <2>6, <2>7, PutKeeps
<1>. QED  BY <1>1, <1>2, <1>3

\* What is left of earlier messages may be more of them.
LEMMA MoreMarks ==
    ASSUME NEW d, NEW marks, NEW more, Good(d, marks), marks \subseteq more
    PROVE  Good(d, more)
<1>1. ASSUME NEW leaf \in Leaves(marks) PROVE leaf \in Leaves(more)
    <2>1. /\ leaf = [buf |-> leaf.buf, len |-> leaf.len, size |-> leaf.size]
          /\ leaf.buf \in Seq(UnitsOf(marks)) /\ leaf.len \in Nat /\ leaf.size \in Nat
          /\ leaf.len <= Len(leaf.buf)
        BY LeafIs
    <2>2. UnitsOf(marks) \subseteq UnitsOf(more)
        BY DEF UnitsOf
    <2>3. leaf.buf \in Seq(UnitsOf(more))
        BY <2>1, <2>2
    <2>. QED  BY <2>1, <2>3, LeafIs
<1>. QED  BY <1>1 DEF Good, Made

------------------------------------------------------------------------------
(* What one delivery reads. *)

\* So many whole units are so many.
LEMMA UnitsOfGrain ==
    ASSUME NEW t \in Nat, NEW g \in Nat \ {0}
    PROVE  t * g \in Nat /\ (t * g) \div g = t
OBVIOUS

\* Each whole unit begins within the bytes.
LEMMA UnitBegins ==
    ASSUME NEW a \in Nat, NEW g \in Nat \ {0}, NEW i \in 1..(a \div g)
    PROVE  (i - 1) * g + 1 \in 1..a
<1>1. a \div g \in Nat
    BY WholeUnits
<1>2. i \in Nat /\ i <= a \div g /\ i - 1 \in Nat
    BY <1>1
<1>3. i * g \in Nat /\ i * g <= a
    BY <1>2, FewerUnits
<1>4. PICK x \in Nat : x = (i - 1) * g
    BY <1>2
<1>5. i * g = x + g
    BY <1>2, <1>4
<1>. QED  BY <1>3, <1>4, <1>5

\* The units that are stored are of this message, and those that arrived when none is faulty.
LEMMA UnitsStoredAre ==
    ASSUME IInv, pc = "deliver", NEW marks, number \in marks
    PROVE  /\ UnitsStored \in Seq(UnitsOf(marks))
           /\ Takes /\ ~Faulty => Len(UnitsStored) = Taken
<1>. /\ fed \in Nat /\ p \in Nat /\ Len(window) \in Nat /\ Avail \in Nat
    BY MessageFacts
<1>1. PICK t \in Nat : t = Taken
    BY TakenFits
<1>2. PICK g \in Nat \ {0} : g = Grain
    <2>1. cur.k \in 1..Len(msg.fields)
        BY DEF IInv, CallsNest
    <2>. QED  BY <2>1, AtFacts DEF Grain, Current
<1>3. t * g \in Nat /\ t * g <= Avail
    BY <1>1, <1>2, TakenFits
<1>4. PICK n \in {t, t - 1, 0} :
        /\ Stored = [i \in 1..(n * g) |-> << [d \in 1..seqDepth |-> stack[d].k], window[p + i] >>]
        /\ Takes /\ ~Faulty => n = t
    <2>. DEFINE n == IF ~Takes THEN 0
             ELSE IF ~(Faulty /\ Over) THEN Taken
             ELSE IF Current.type \in Varints THEN Taken - 1
             ELSE IF pendDone = 0 THEN 0 ELSE Taken
    <2>1. Stored = [i \in 1..(n * g) |-> << [d \in 1..seqDepth |-> stack[d].k], window[p + i] >>]
        BY <1>2 DEF Stored
    <2>2. n \in {t, t - 1, 0} /\ (Takes /\ ~Faulty => n = t)
        BY <1>1
    <2>. HIDE DEF n
    <2>. QED  BY <2>1, <2>2
<1>5. PICK l \in Nat : 1..(n * g) = 1..l /\ l <= t * g /\ (n = t => l = t * g) /\ (n * g) \div g \in Int
    <2>1. CASE n \in Nat
        <3>1. n <= t
            BY <2>1
        <3>2. PICK x \in Nat : x = n * g
            BY <2>1
        <3>3. x <= t * g
            BY <2>1, <3>1, <3>2
        <3>. QED  BY <3>2, <3>3
    <2>2. CASE n \notin Nat
        <3>1. n = t - 1 /\ t = 0
            BY <2>2
        <3>2. n * g = 0 - g
            BY <3>1
        <3>3. PICK x \in Int : x = n * g /\ x < 0
            BY <3>2
        <3>4. 1..x = 1..0
            BY <3>3
        <3>. QED  BY <1>3, <2>2, <3>1, <3>3, <3>4
    <2>. QED  BY <2>1, <2>2
<1>6. PICK through : through = [d \in 1..seqDepth |-> stack[d].k]
    OBVIOUS
<1>7. PICK stored : stored = [i \in 1..l |-> << through, window[p + i] >>] /\ stored = Stored
    BY <1>4, <1>5, <1>6
<1>8. Len(stored) = l
    BY <1>7
<1>9. \A j \in 1..l : stored[j][2] \in Nat
    <2>1. ASSUME NEW j \in 1..l PROVE window[p + j] \in Nat
        <3>1. p + j \in 1..Len(window)
            BY <1>3, <1>5 DEF Avail
        <3>2. window \in Seq(1..fed)
            BY WindowIsSeq
        <3>3. window[p + j] \in 1..fed
            BY <3>1, <3>2
        <3>. QED  BY <3>3
    <2>2. ASSUME NEW j \in 1..l PROVE stored[j][2] = window[p + j]
        <3>1. PICK w : w = window[p + j]
            OBVIOUS
        <3>2. stored[j] = << through, w >>
            BY <1>7, <3>1
        <3>. QED  BY <3>1, <3>2
    <2>. QED  BY <2>1, <2>2
<1>10. PICK c \in Nat : c = l \div g
    BY WholeUnits
<1>11. UnitsStored = [i \in 1..c |-> [of |-> number, byte |-> stored[(i - 1) * g + 1][2]]]
    BY <1>2, <1>7, <1>8, <1>10 DEF UnitsStored
<1>12. \A i \in 1..c : [of |-> number, byte |-> stored[(i - 1) * g + 1][2]] \in UnitsOf(marks)
    <2>1. ASSUME NEW i \in 1..c
          PROVE  [of |-> number, byte |-> stored[(i - 1) * g + 1][2]] \in UnitsOf(marks)
        <3>1. PICK j \in 1..l : j = (i - 1) * g + 1
            BY <1>10, UnitBegins
        <3>2. stored[j][2] \in Nat
            BY <1>9
        <3>. QED  BY <3>1, <3>2 DEF UnitsOf
    <2>. QED  BY <2>1
<1>13. UnitsStored \in Seq(UnitsOf(marks)) /\ Len(UnitsStored) = c
    <2>1. PICK s : s = [i \in 1..c |-> [of |-> number, byte |-> stored[(i - 1) * g + 1][2]]]
        OBVIOUS
    <2>2. s \in [1..c -> UnitsOf(marks)]
        BY <1>12, <2>1
    <2>3. s \in Seq(UnitsOf(marks)) /\ Len(s) = c
        BY <2>2
    <2>. QED  BY <1>11, <2>1, <2>3
<1>14. n = t => c = t
    BY <1>5, <1>10, UnitsOfGrain
<1>. QED  BY <1>1, <1>4, <1>13, <1>14

\* How field k is read.
LEMMA ReadableIs ==
    ASSUME IInv, NEW k \in 1..Len(msg.fields)
    PROVE  Readable(At(msg, k), StorageOf(k))
<1>1. msg.fields[k] \in DOMAIN Alphabet
    <2>1. Laid(msg)
        BY MessageFacts
    <2>. QED  BY <2>1 DEF Laid
<1>2. StorageOf(k) \in {"scalar", "resizable", "capacity", "extent", "clipped"}
    BY <1>1, StorageAssumption DEF StorageOf
<1>3. At(msg, k).units \in Nat /\ At(msg, k).width \in Nat \ {0}
    BY AtFacts
<1>. QED  BY <1>2, <1>3 DEF Readable

\* A delivery leaves a leaf: units written, and a length published that the buffer has.
LEMMA ReadIs ==
    ASSUME IInv, Located, pc = "deliver", Takes, NEW marks, 0 \in marks, number \in marks,
           NEW leaf \in Leaves(marks), StorageOf(cur.k) = "clipped" => leaf.len <= Clip
    PROVE  LET new == Read(leaf, Current, StorageOf(cur.k)) IN
           new \in Leaves(marks) /\ (StorageOf(cur.k) = "clipped" => new.len <= Clip)
<1>1. PICK k \in 1..Len(msg.fields) : k = cur.k
    BY DEF IInv, CallsNest
<1>2. PICK f, storage : f = Current /\ storage = StorageOf(k)
    OBVIOUS
<1>3. Readable(f, storage) /\ pendDone \in Nat /\ Avail \in Nat
    BY <1>1, <1>2, ReadableIs, MessageFacts DEF Current, IInv, HalfDelivered
<1>4. PICK units \in Seq(UnitsOf(marks)) : units = UnitsStored /\ (~Faulty => Len(units) = Taken)
    BY UnitsStoredAre
<1>5. PICK ready : ready = Readied(leaf, f, storage, Avail)
    OBVIOUS
<1>6. ready \in Leaves(marks) /\ (storage = "clipped" => ready = leaf)
    BY <1>3, <1>5, ReadiedIs
<1>7. PICK filled : filled = Filled(ready, storage, units)
    OBVIOUS
<1>8. /\ filled \in Leaves(marks)
      /\ storage = "clipped" =>
            /\ filled.len = ready.len
            /\ Clip <= pendDone + Len(units) => Len(filled.buf) = Clip
            /\ pendDone + Len(units) < Clip => Len(filled.buf) >= pendDone + Len(units)
    BY <1>1, <1>2, <1>3, <1>6, <1>7, FilledIs DEF Readable
<1>9. PICK new : new = Read(leaf, f, storage)
    OBVIOUS
<1>10. CASE storage = "scalar"
    <2>1. new = Assigned(leaf, units)
        BY <1>4, <1>9, <1>10 DEF Read
    <2>2. CASE units = <<>>
        BY <1>1, <1>2, <1>9, <1>10, <2>1, <2>2 DEF Assigned
    <2>3. CASE units # <<>>
        <3>1. leaf.size \in Nat /\ leaf = [buf |-> leaf.buf, len |-> leaf.len, size |-> leaf.size]
            BY LeafIs
        <3>2. new = [buf |-> units, len |-> Len(units), size |-> leaf.size]
            BY <2>1, <2>3, <3>1 DEF Assigned
        <3>3. PICK n \in Nat : n = Len(units) /\ n <= Len(units)
            OBVIOUS
        <3>4. new \in Leaves(marks)
            BY <3>1, <3>2, <3>3, LeafOf
        <3>. QED  BY <1>1, <1>2, <1>9, <1>10, <3>4
    <2>. QED  BY <2>2, <2>3
<1>11. CASE storage # "scalar" /\ ~(Over /\ ~Faulty)
    <2>1. new = filled
        BY <1>4, <1>5, <1>7, <1>9, <1>11 DEF Read
    <2>. QED  BY <1>1, <1>2, <1>6, <1>8, <1>9, <2>1
<1>12. CASE storage # "scalar" /\ Over /\ ~Faulty
    <2>1. new = Published(filled, f, storage)
        BY <1>4, <1>5, <1>7, <1>9, <1>12 DEF Read
    <2>2. storage = "clipped" => Min({Clip, f.units}) <= Len(filled.buf)
        <3>1. f.units \in Nat /\ f.width \in Nat \ {0} /\ Clip \in Nat
            BY <1>3, StorageAssumption DEF Readable
        <3>2. Total = f.units
            <4>1. Total = (f.units * f.width) \div f.width
                BY <1>2 DEF Total, Grain
            <4>. QED  BY <3>1, <4>1, UnitsOfGrain
        <3>3. pendDone + Len(units) = f.units
            BY <1>4, <1>12, <3>2 DEF Over
        <3>4. Min({Clip, f.units}) = (IF Clip <= f.units THEN Clip ELSE f.units)
            BY <3>1, MinOfTwo
        <3>. QED  BY <1>8, <3>1, <3>3, <3>4
    <2>3. new \in Leaves(marks) /\ (storage = "clipped" => new.len <= Clip)
        BY <1>3, <1>8, <2>1, <2>2, PublishedIs
    <2>. QED  BY <1>1, <1>2, <1>9, <2>3
<1>. QED  BY <1>10, <1>11, <1>12

\* So does a handler that is asked with the payload withheld.
LEMMA WithholdIs ==
    ASSUME IInv, NEW k \in 1..Len(msg.fields), NEW marks, 0 \in marks,
           NEW leaf \in Leaves(marks), StorageOf(k) = "clipped" => leaf.len <= Clip
    PROVE  LET new == Withhold(leaf, At(msg, k), StorageOf(k)) IN
           /\ new \in Leaves(marks) /\ new.size \in {leaf.size, 0}
           /\ StorageOf(k) = "clipped" => new.len <= Clip
<1>1. PICK f, storage : f = At(msg, k) /\ storage = StorageOf(k)
    OBVIOUS
<1>2. Readable(f, storage) /\ pendDone \in Nat
    BY <1>1, ReadableIs DEF IInv, HalfDelivered
<1>3. PICK ready : ready = Readied(leaf, f, storage, 0)
    OBVIOUS
<1>4. ready \in Leaves(marks) /\ ready.size \in {leaf.size, 0} /\ (storage = "clipped" => ready = leaf)
    <2>1. PICK n \in Nat : n = 0
        OBVIOUS
    <2>. QED  BY <1>2, <1>3, <2>1, ReadiedIs
<1>5. PICK new : new = Withhold(leaf, f, storage)
    OBVIOUS
<1>6. CASE RefusalOf(f.use) # "None"
    BY <1>1, <1>5, <1>6 DEF Withhold
<1>7. CASE RefusalOf(f.use) = "None" /\ f.units # 0
    <2>1. new = ready
        BY <1>3, <1>5, <1>7 DEF Withhold
    <2>. QED  BY <1>1, <1>4, <1>5, <2>1
<1>8. CASE RefusalOf(f.use) = "None" /\ f.units = 0
    <2>1. new = Published(ready, f, storage)
        BY <1>3, <1>5, <1>8 DEF Withhold
    <2>2. Min({Clip, f.units}) <= Len(ready.buf)
        <3>1. Clip \in Nat /\ f.units \in Nat /\ Len(ready.buf) \in Nat
            BY <1>2, <1>4, LeafIs, StorageAssumption DEF Readable
        <3>. QED  BY <1>8, <3>1, MinOfTwo
    <2>3. new \in Leaves(marks) /\ new.size = ready.size /\ (storage = "clipped" => new.len <= Clip)
        BY <1>2, <1>4, <2>1, <2>2, PublishedIs
    <2>. QED  BY <1>1, <1>4, <1>5, <2>3
<1>. QED  BY <1>6, <1>7, <1>8

------------------------------------------------------------------------------
(* What the decoder has accepted. *)

\* The parser runs only on input that was not refused, and no element it delivers is at or
\* past a bound: beginField has compared its index before anything is made of it.
Unrefused == pc # "idle" => terminal = "None"
Accepted ==
    terminal = "None" =>
        \A k \in msg.live : msg.start[k] < Pos => ~PastBound(msg, k)
DecoderInv == IInv /\ PInv /\ Unrefused /\ Accepted

\* Where fields start; those that are live are fields.
LEMMA StartsAre ==
    ASSUME IInv
    PROVE  (\A k \in Fields(msg) : msg.start[k] \in Nat) /\ msg.live \subseteq Fields(msg)
<1>1. PICK l \in Nat : l = Len(msg.fields)
    BY MessageFacts
<1>2. msg.start \in [1..(l + 1) -> Nat] /\ msg.live \subseteq Fields(msg) /\ Fields(msg) = 1..l
    BY <1>1, MessageFacts DEF Laid, Fields
<1>3. \A k \in 1..l : k \in 1..(l + 1)
    OBVIOUS
<1>. QED  BY <1>2, <1>3

\* A field that starts before the next one does is that field or starts before it.
LEMMA StartsBefore ==
    ASSUME IInv, NEW j \in Fields(msg), NEW k \in Fields(msg), msg.start[j] < msg.start[k + 1]
    PROVE  j = k \/ msg.start[j] < msg.start[k]
<1>1. PICK l \in Nat : l = Len(msg.fields)
    BY MessageFacts
<1>2. /\ \A i, n \in 1..(l + 1) : i < n => msg.start[i] < msg.start[n]
      /\ msg.start \in [1..(l + 1) -> Nat]
    BY <1>1, MessageFacts DEF Laid
<1>3. j \in 1..(l + 1) /\ k \in 1..(l + 1) /\ k + 1 \in 1..(l + 1)
    BY <1>1 DEF Fields
<1>4. CASE j < k
    BY <1>2, <1>3, <1>4
<1>5. CASE k + 1 < j
    <2>1. msg.start[k + 1] < msg.start[j] /\ msg.start[k + 1] \in Nat /\ msg.start[j] \in Nat
        BY <1>2, <1>3, <1>5
    <2>. QED  BY <2>1
<1>6. CASE j = k + 1
    <2>1. msg.start[k + 1] \in Nat
        BY <1>2, <1>3
    <2>. QED  BY <1>6, <2>1
<1>. QED  BY <1>3, <1>4, <1>5, <1>6

\* A position behind the header of a field is behind its start.
LEMMA BehindIsBehind ==
    ASSUME IInv, NEW k \in 1..Len(msg.fields), NEW n \in Nat
    PROVE  msg.start[k] < Behind(k, n)
<1>1. PICK h \in Nat \ {0} : h = Header(At(msg, k))
    BY AtFacts
<1>2. PICK g \in Nat : g = GrainIf(k \in msg.live, At(msg, k))
    <2>1. At(msg, k).width \in Nat
        BY AtFacts
    <2>. QED  BY <2>1 DEF GrainIf
<1>3. PICK x \in Nat : x = n * g
    OBVIOUS
<1>4. msg.start[k] \in Nat
    BY StartsAre DEF Fields
<1>5. Behind(k, n) = msg.start[k] + h + x
    BY <1>1, <1>2, <1>3 DEF Behind
<1>. QED  BY <1>4, <1>5

\* So is that of a field being delivered.
LEMMA DeliversBehind ==
    ASSUME IInv, Located, pc = "deliver"
    PROVE  msg.start[cur.k] < Pos
<1>1. cur.k \in 1..Len(msg.fields) /\ Pos = Behind(cur.k, pendDone) /\ pendDone \in Nat
    BY DeliverFacts
<1>. QED  BY <1>1, BehindIsBehind

\* The position stays, or there is none any more.
LEMMA AcceptedHere ==
    ASSUME Accepted, msg' = msg, terminal' = "None" => terminal = "None" /\ Pos' = Pos
    PROVE  Accepted'
<1>1. \A k : PastBound(msg, k)' <=> PastBound(msg, k)
    BY DEF PastBound, Nested, Outer, At
<1>. QED  BY <1>1 DEF Accepted

\* The end of a sequence is not an element.
LEMMA SequenceOverAccepted ==
    ASSUME DecoderInv, SequenceOver
    PROVE  Accepted'
<1>1. terminal = "None" /\ terminal' = terminal /\ msg' = msg /\ pc = "loop"
    BY DEF DecoderInv, Unrefused, SequenceOver, AtField, input
<1>2. IInv /\ Located
    BY <1>1 DEF DecoderInv, PInv
<1>3. PICK s \in Fields(msg) : s = Site /\ At(msg, s).type = "end" /\ Pos' = msg.start[s + 1]
    BY <1>2, SequenceOverMoves
<1>4. Pos = msg.start[s]
    BY <1>1, <1>2, <1>3, LoopFacts
<1>5. ASSUME NEW k \in msg.live, msg.start[k] < msg.start[s + 1] PROVE ~PastBound(msg, k)
    <2>1. k \in Fields(msg)
        BY <1>2, MessageFacts DEF Laid
    <2>2. k = s \/ msg.start[k] < Pos
        BY <1>2, <1>4, <1>5, <2>1, StartsBefore
    <2>. QED  BY <1>1, <1>3, <2>2 DEF PastBound, DecoderInv, Accepted
<1>6. \A k : PastBound(msg, k)' <=> PastBound(msg, k)
    BY <1>1 DEF PastBound, Nested, Outer, At
<1>. QED  BY <1>1, <1>3, <1>5, <1>6 DEF Accepted

\* A field that is accepted is within the bounds that are armed, or it is skipped.
LEMMA AcceptAccepted ==
    ASSUME DecoderInv, Accept
    PROVE  Accepted'
<1>1. terminal = "None" /\ terminal' = terminal /\ msg' = msg /\ pc = "loop" /\ Avail > 0
    BY DEF DecoderInv, Unrefused, Accept, AtField, input
<1>2. IInv /\ Located
    BY <1>1 DEF DecoderInv, PInv
<1>3. PICK s \in Fields(msg) : s = Site /\ s = This /\ Pos' = Behind(s, 0)
    BY <1>1, <1>2, AcceptMoves, LoopFacts
<1>4. Pos = msg.start[s]
    BY <1>1, <1>2, <1>3, LoopFacts
<1>5. PICK f : f = At(msg, s)
    OBVIOUS
<1>6. s \in 1..Len(msg.fields)
    BY <1>3 DEF Fields
<1>7. Behind(s, 0) \in Nat /\ msg.start[s + 1] \in Nat /\ Behind(s, 0) <= msg.start[s + 1]
    <2>1. PICK z \in Nat : z = 0
        OBVIOUS
    <2>2. TotalIf(s \in msg.live, f) \in Nat
        <3>1. f.units \in Nat /\ f.width \in Nat \ {0}
            BY <1>2, <1>5, <1>6, AtFacts
        <3>2. (s \in msg.live) \in BOOLEAN
            OBVIOUS
        <3>. QED  BY <3>1, <3>2, TotalIsNat
    <2>3. z <= TotalIf(s \in msg.live, f)
        BY <2>1, <2>2
    <2>4. /\ Behind(s, z) \in Nat /\ msg.start[s + 1] \in Nat
          /\ z = TotalIf(s \in msg.live, f) => Behind(s, z) = msg.start[s + 1]
          /\ z < TotalIf(s \in msg.live, f) => Behind(s, z) < msg.start[s + 1]
        BY <1>2, <1>5, <1>6, <2>3, PlaceFacts
    <2>5. Behind(s, z) <= msg.start[s + 1]
        BY <2>2, <2>3, <2>4
    <2>. QED  BY <2>1, <2>4, <2>5
<1>8. s \in msg.live => ~PastBound(msg, s)
    <2>. SUFFICES ASSUME s \in msg.live, PastBound(msg, s) PROVE FALSE
        OBVIOUS
    <2>1. (Nested(msg, s) => Outer(msg, s) \in msg.live) /\ ~Declined(msg, s)
        BY <1>2, LiveInside, MessageFacts
    <2>2. Nested(msg, s) /\ ~InSkip /\ elem = Outer(msg, s)
        BY <1>1, <1>2, <1>3, <2>1, CallsAreHere DEF PastBound
    <2>3. elem # 0
        <3>1. Laid(msg) /\ Len(msg.fields) \in Nat
            BY <1>2, MessageFacts
        <3>2. 0 \notin msg.live
            BY <3>1 DEF Laid, Fields
        <3>. QED  BY <2>1, <2>2, <3>2
    <2>4. IndexOver(f)
        BY <1>5, <2>2, <2>3 DEF IndexOver, PastBound
    <2>5. ~RefusedBehindIt(f)
        BY <1>3, <1>5 DEF Accept, WellFormed
    <2>6. f.type # At(msg, elem).elem
        BY <2>4, <2>5 DEF RefusedBehindIt, OtherType
    <2>7. NotElement(msg, s)
        BY <1>5, <2>2, <2>6 DEF NotElement
    <2>. QED  BY <2>1, <2>7 DEF Declined
<1>9. ASSUME NEW k \in msg.live, msg.start[k] < Behind(s, 0) PROVE ~PastBound(msg, k)
    <2>1. k \in Fields(msg) /\ msg.start[k] \in Nat
        BY <1>2, StartsAre
    <2>2. msg.start[k] < msg.start[s + 1]
        BY <1>7, <1>9, <2>1
    <2>3. k = s \/ msg.start[k] < Pos
        BY <1>2, <1>4, <2>1, <2>2, StartsBefore
    <2>. QED  BY <1>1, <1>8, <2>3 DEF DecoderInv, Accepted
<1>10. \A k : PastBound(msg, k)' <=> PastBound(msg, k)
    BY <1>1 DEF PastBound, Nested, Outer, At
<1>. QED  BY <1>1, <1>3, <1>9, <1>10 DEF Accepted

\* The field being delivered has been accepted.
LEMMA PayloadAccepted ==
    ASSUME DecoderInv, DeliverPayload
    PROVE  Accepted'
<1>1. terminal = "None" /\ msg' = msg /\ pc = "deliver"
    BY DEF DecoderInv, Unrefused, DeliverPayload, Refused, input
<1>2. IInv /\ Located
    BY <1>1 DEF DecoderInv, PInv
<1>. SUFFICES ASSUME terminal' = "None" PROVE Accepted'
    BY DEF Accepted
<1>3. ~Refused("InvalidMessage")
    BY DEF Refused
<1>4. PICK s \in Fields(msg) : s = cur.k /\ s \in 1..Len(msg.fields)
    BY <1>1, <1>2, DeliverFacts
<1>5. PICK n \in Nat : n = pendDone + Taken
    BY <1>1, <1>2, TakenFits
<1>6. Pos' = Behind(s, n) /\ Pos = Behind(s, pendDone)
    BY <1>1, <1>2, <1>3, <1>4, <1>5, PayloadMoves, DeliverFacts
<1>7. n <= TotalIf(s \in msg.live, At(msg, s)) /\ TotalIf(s \in msg.live, At(msg, s)) \in Nat
      /\ pendDone \in Nat /\ pendDone <= TotalIf(s \in msg.live, At(msg, s))
    BY <1>1, <1>2, <1>4, <1>5, TakenFits, DeliverFacts DEF Current
<1>8. Behind(s, n) \in Nat /\ msg.start[s + 1] \in Nat /\ Behind(s, n) <= msg.start[s + 1]
    <2>1. /\ Behind(s, n) \in Nat /\ msg.start[s + 1] \in Nat
          /\ n = TotalIf(s \in msg.live, At(msg, s)) => Behind(s, n) = msg.start[s + 1]
          /\ n < TotalIf(s \in msg.live, At(msg, s)) => Behind(s, n) < msg.start[s + 1]
        BY <1>2, <1>4, <1>7, PlaceFacts
    <2>. QED  BY <1>7, <2>1
<1>9. msg.start[s] < Pos
    BY <1>1, <1>2, <1>4, DeliversBehind
<1>10. ASSUME NEW k \in msg.live, msg.start[k] < Behind(s, n) PROVE ~PastBound(msg, k)
    <2>1. k \in Fields(msg) /\ msg.start[k] \in Nat /\ msg.start[s] \in Nat /\ Pos \in Nat
        BY <1>2, StartsAre, PosFacts
    <2>2. msg.start[k] < msg.start[s + 1]
        BY <1>8, <1>10, <2>1
    <2>3. k = s \/ msg.start[k] < msg.start[s]
        BY <1>2, <2>1, <2>2, StartsBefore
    <2>4. msg.start[k] < Pos
        BY <1>9, <2>1, <2>3
    <2>. QED  BY <1>1, <2>4 DEF DecoderInv, Accepted
<1>11. \A k : PastBound(msg, k)' <=> PastBound(msg, k)
    BY <1>1 DEF PastBound, Nested, Outer, At
<1>. QED  BY <1>1, <1>6, <1>10, <1>11 DEF Accepted

\* Nothing of the next message has been accepted.
LEMMA ResetAccepted ==
    ASSUME IInv, NEW next \in Decodings, ResetTo(next)
    PROVE  Accepted'
<1>1. Pos' = 0
    <2>1. chunk = <<>> /\ held = 0 /\ p = 0
        BY DEF ResetTo, IInv, WindowIsNext, Consumed
    <2>2. Pos' = 0 - Len(<<>>) - Len(<<>>) - 0 + 0 /\ Len(<<>>) = 0
        BY <2>1 DEF ResetTo, windowVars, Pos
    <2>3. 0 - 0 - 0 - 0 + 0 = 0
        OBVIOUS
    <2>. QED  BY <2>2, <2>3
<1>2. Laid(next) /\ msg' = next
    BY DecodingsAreLaid DEF ResetTo
<1>3. ASSUME NEW k \in next.live PROVE ~(next.start[k] < 0)
    <2>1. Len(next.fields) \in Nat
        BY <1>2 DEF Laid
    <2>2. k \in 1..(Len(next.fields) + 1)
        BY <1>2, <2>1 DEF Laid, Fields
    <2>3. next.start[k] \in Nat
        BY <1>2, <2>2 DEF Laid
    <2>. QED  BY <2>3
<1>. QED  BY <1>1, <1>2, <1>3 DEF Accepted

\* Steps that parse nothing.
LEMMA OthersAccepted ==
    ASSUME DecoderInv,
           \/ UNCHANGED vars \/ FeedNothing \/ Descend \/ Resume \/ LeaveLevel
           \/ WindowEnds \/ HeaderCut \/ DeliverSequence
           \/ (\E n \in 1..Bytes(msg) : Feed(n)) \/ KeepCarrying \/ ParseTheRest \/ Stash
    PROVE  Accepted'
<1>1. IInv /\ Accepted
    BY DEF DecoderInv
<1>2. ASSUME UNCHANGED <<msg, fed, carry, chunk, held, p, terminal>> PROVE Accepted'
    <2>1. Pos' = Pos
        BY <1>2 DEF Pos
    <2>. QED  BY <1>1, <1>2, <2>1, AcceptedHere
<1>3. CASE UNCHANGED vars \/ FeedNothing
    BY <1>2, <1>3 DEF vars, FeedNothing, input, windowVars, resumeVars
<1>4. CASE Descend \/ Resume \/ LeaveLevel
    BY <1>2, <1>4 DEF Descend, Resume, LeaveLevel, input, windowVars, resumeVars
<1>5. CASE WindowEnds \/ HeaderCut \/ DeliverSequence
    BY <1>2, <1>5 DEF WindowEnds, HeaderCut, DeliverSequence, input, windowVars, resumeVars
<1>6. CASE \E n \in 1..Bytes(msg) : Feed(n)
    <2>1. msg' = msg /\ terminal' = terminal
        BY <1>6 DEF Feed
    <2>2. Pos' = Pos
        BY <1>1, <1>6, FeedStaysHere
    <2>. QED  BY <1>1, <2>1, <2>2, AcceptedHere
<1>7. CASE ParseTheRest
    <2>1. msg' = msg /\ terminal' = terminal
        BY <1>7 DEF ParseTheRest, input
    <2>2. Pos' = Pos
        BY <1>1, <1>7, ParseTheRestStaysHere
    <2>. QED  BY <1>1, <2>1, <2>2, AcceptedHere
<1>8. ASSUME NEW e, Carry(e), Parsed, Len(Rest) = Avail, Len(window) = held + Len(chunk)
      PROVE  Accepted'
    <2>1. msg' = msg /\ terminal' = terminal
        BY <1>8 DEF Carry, input
    <2>2. Pos' = Pos
        BY <1>1, <1>8, CarryStaysHere
    <2>. QED  BY <1>1, <2>1, <2>2, AcceptedHere
<1>9. ASSUME Refused("InvalidMessage") PROVE Accepted'
    BY <1>9 DEF Refused, Accepted
<1>10. CASE KeepCarrying
    <2>1. CASE ~(Len(window) - held < Len(chunk)) /\ Carry("Incomplete")
        BY <1>1, <1>8, <1>10, <2>1, AllInWindow, RestIsTail DEF KeepCarrying
    <2>. QED  BY <1>9, <1>10, <2>1 DEF KeepCarrying
<1>11. CASE Stash
    <2>1. CASE Carry(IF incomplete \/ Rest # <<>> THEN "Incomplete" ELSE "None")
        BY <1>1, <1>8, <1>11, <2>1, AllInWindow, RestIsTail DEF Stash
    <2>. QED  BY <1>9, <1>11, <2>1 DEF Stash
<1>. QED  BY <1>3, <1>4, <1>5, <1>6, <1>7, <1>10, <1>11

\* Only a feed() that was not refused begins to parse.
LEMMA StepUnrefused ==
    ASSUME Unrefused, [Next \/ AnyReset]_vars
    PROVE  Unrefused'
<1>1. ASSUME UNCHANGED <<pc, terminal>> PROVE Unrefused'
    BY <1>1 DEF Unrefused
<1>2. ASSUME terminal' = "None" \/ pc' = "idle" PROVE Unrefused'
    BY <1>2 DEF Unrefused
<1>3. CASE UNCHANGED vars \/ FeedNothing
    BY <1>1, <1>3 DEF vars, FeedNothing
<1>4. CASE KeepCarrying \/ Stash
    BY <1>2, <1>4 DEF KeepCarrying, Stash, Refused, Carry, Return
<1>5. CASE RefuseSpan \/ RefuseHeader \/ RefuseWithheld \/ DeliverRefused
    BY <1>2, <1>5 DEF RefuseSpan, RefuseHeader, RefuseWithheld, DeliverRefused, Refused, Return
<1>6. CASE Reset \/ AnyReset
    BY <1>2, <1>6 DEF Reset, AnyReset, ResetTo
<1>7. CASE \E n \in 1..Bytes(msg) : Feed(n)
    BY <1>2, <1>7 DEF Feed
<1>8. CASE ParseTheRest \/ Descend \/ Resume \/ LeaveLevel
    <2>1. pc # "idle" /\ terminal' = terminal
        BY <1>8 DEF ParseTheRest, Parsed, Descend, Resume, LeaveLevel
    <2>. QED  BY <1>2, <2>1 DEF Unrefused
<1>9. CASE WindowEnds \/ HeaderCut \/ SequenceOver \/ Accept \/ DeliverSequence
    <2>1. pc # "idle" /\ terminal' = terminal
        BY <1>9 DEF WindowEnds, HeaderCut, SequenceOver, Accept, DeliverSequence, AtField
    <2>. QED  BY <1>2, <2>1 DEF Unrefused
<1>10. CASE DeliverPayload
    <2>1. CASE Refused("InvalidMessage")
        BY <1>2, <2>1 DEF Refused, Return
    <2>2. CASE ~Refused("InvalidMessage")
        <3>1. pc # "idle" /\ terminal' = terminal
            BY <1>10, <2>2 DEF DeliverPayload
        <3>. QED  BY <1>2, <3>1 DEF Unrefused
    <2>. QED  BY <2>1, <2>2
<1>. QED  BY <1>3, <1>4, <1>5, <1>6, <1>7, <1>8, <1>9, <1>10 DEF Next, ParseStep

\* The sequence that is entered again is one of the message.
LEMMA PathIsKnown == DecoderInv => PathKnown
<1>. SUFFICES ASSUME IInv, PInv, Unrefused, pc = "enter", seqDepth < suspendDepth
              PROVE  path[seqDepth] \in Entries
    BY DEF DecoderInv, PathKnown
<1>1. Located /\ Len(stack) \in Nat /\ MAX_DEPTH \in Nat
    BY MessageFacts DEF PInv, Unrefused
<1>2. PICK open \in Seq(Nat) : open = OpenHere
    BY SiteFacts
<1>3. suspendDepth = Len(open) /\ suspendDepth \in -1..MAX_DEPTH
    BY <1>1, <1>2 DEF Located, Depths, Going, IInv, HalfDelivered
<1>4. PICK d \in 1..Len(open) : d = Len(stack) + 1
    BY <1>1, <1>3 DEF seqDepth
<1>5. PICK at : at = path[seqDepth] /\ at = path[d - 1]
    BY <1>1, <1>4 DEF seqDepth
<1>6. at \in [k : Nat, skip : BOOLEAN]
    <2>1. seqDepth \in 0..(MAX_DEPTH - 1)
        BY <1>1, <1>3 DEF seqDepth
    <2>. QED  BY <1>5, <2>1 DEF IInv, HalfDelivered
<1>7. at.k = open[d]
    <2>1. EnteredId(d) = OpenHere[d]
        BY <1>1, <1>2 DEF Located, Follows
    <2>2. ~(d <= Len(stack))
        BY <1>1, <1>4
    <2>. QED  BY <1>2, <1>5, <2>1, <2>2 DEF EnteredId
<1>8. open[d] \in 1..Len(msg.fields)
    <2>1. Site \in 1..(Len(msg.fields) + 1) /\ Laid(msg) /\ Len(msg.fields) \in Nat
        BY SiteFacts, MessageFacts
    <2>2. Nesting(msg, Site)
        BY <2>1, SequencesNest
    <2>3. open[d] \in 1..(Site - 1)
        BY <1>2, <2>2 DEF Nesting, OpenHere
    <2>. QED  BY <2>1, <2>3
<1>. QED  BY <1>5, <1>6, <1>7, <1>8 DEF Entries

\* Every step keeps what the decoder has accepted.
LEMMA StepAccepts == DecoderInv /\ [Next \/ AnyReset]_vars => DecoderInv'
<1>. SUFFICES ASSUME DecoderInv, [Next \/ AnyReset]_vars PROVE DecoderInv'
    OBVIOUS
<1>1. IInv /\ PInv /\ Unrefused /\ PathKnown
    BY PathIsKnown DEF DecoderInv
<1>2. IInv' /\ PInv' /\ Unrefused'
    BY <1>1, StepKeeps, StepStays, StepUnrefused
<1>3. Accepted'
    <2>1. Bytes(msg) \in Nat /\ msg \in Decodings
        BY <1>1, MessageFacts DEF IInv, InputTyped
    <2>2. CASE \E n \in 1..Bytes(msg) : Feed(n)
        BY <2>2, OthersAccepted
    <2>3. CASE \/ UNCHANGED vars \/ FeedNothing \/ Descend \/ Resume \/ LeaveLevel
               \/ WindowEnds \/ HeaderCut \/ DeliverSequence
               \/ KeepCarrying \/ ParseTheRest \/ Stash
        BY <2>3, OthersAccepted
    <2>4. CASE SequenceOver \/ Accept \/ DeliverPayload
        BY <2>4, SequenceOverAccepted, AcceptAccepted, PayloadAccepted
    <2>5. CASE RefuseSpan \/ RefuseHeader \/ RefuseWithheld \/ DeliverRefused
        <3>1. ASSUME NEW c, NEW id PROVE IndexError(c, id) # "None"
            BY DEF IndexError
        <3>2. terminal' # "None"
            BY <2>5, <3>1 DEF RefuseSpan, RefuseHeader, RefuseWithheld, DeliverRefused, Refused
        <3>. QED  BY <3>2 DEF Accepted
    <2>6. CASE Reset \/ AnyReset
        BY <1>1, <2>1, <2>6, ResetAccepted DEF Reset, AnyReset
    <2>. QED  BY <2>2, <2>3, <2>4, <2>5, <2>6 DEF Next, ParseStep
<1>. QED  BY <1>2, <1>3 DEF DecoderInv

------------------------------------------------------------------------------
(* Where the handler is in the message. *)

\* The beginning of a sequence, element by element.
LEMMA CutIs ==
    ASSUME NEW T, NEW s \in Seq(T), NEW n \in 0..Len(s)
    PROVE  /\ SubSeq(s, 1, n) \in Seq(T) /\ Len(SubSeq(s, 1, n)) = n
           /\ \A i \in 1..n : SubSeq(s, 1, n)[i] = s[i]
OBVIOUS

\* A sequence with one more element.
LEMMA AppendedIs ==
    ASSUME NEW T, NEW s \in Seq(T), NEW x \in T
    PROVE  /\ Append(s, x) \in Seq(T) /\ Len(Append(s, x)) = Len(s) + 1
           /\ Append(s, x)[Len(s) + 1] = x
           /\ \A i \in 1..Len(s) : Append(s, x)[i] = s[i]
OBVIOUS

\* A field that is delivered, at its place, with an index below the bounds around it.
Inside(k) == k \in LiveFields(msg) /\ Around(k) = msg.opens[k] /\ ~PastBound(msg, k)

\* So is what the handler takes.
LEMMA DeliversInside ==
    ASSUME DecoderInv, pc = "deliver", Takes
    PROVE  Inside(cur.k)
<1>1. IInv /\ Located /\ terminal = "None"
    BY DEF DecoderInv, PInv, Unrefused
<1>. Len(stack) \in Nat
    BY <1>1, MessageFacts
<1>2. PICK k \in Fields(msg) : k = cur.k /\ k = Site /\ k \in msg.live
    BY <1>1, DeliverFacts
<1>3. Current.type # "end"
    BY <1>1 DEF Located, Delivering
<1>4. PICK n \in Nat : n = Len(stack) /\ n = Len(OpenHere)
    BY <1>1, CallsAreHere
<1>5. OpenHere \in Seq(Nat) /\ \A d \in 1..n : stack[d].k = OpenHere[d]
    BY <1>1, <1>4, CallsAreHere, SiteFacts
<1>6. PICK around : around = [d \in 1..n |-> stack[d].k]
    OBVIOUS
<1>7. around = OpenHere
    BY <1>4, <1>5, <1>6
<1>8. Around(k) = msg.opens[k]
    BY <1>2, <1>4, <1>6, <1>7 DEF Around, seqDepth, OpenHere
<1>9. msg.start[k] < Pos
    BY <1>1, <1>2, DeliversBehind
<1>. QED  BY <1>1, <1>2, <1>3, <1>8, <1>9 DEF Inside, LiveFields, Current, DecoderInv, Accepted

\* So is a sequence that is entered again to be read.
LEMMA DescendsInside ==
    ASSUME DecoderInv, Descend, ~path[seqDepth].skip
    PROVE  Inside(path[seqDepth].k)
<1>1. pc = "enter" /\ seqDepth < suspendDepth
    BY DEF Descend
<1>2. IInv /\ Located /\ terminal = "None"
    BY <1>1 DEF DecoderInv, PInv, Unrefused
<1>. /\ Laid(msg) /\ Len(stack) \in Nat /\ MAX_DEPTH \in Nat /\ Len(msg.fields) \in Nat
    BY <1>2, MessageFacts
<1>3. PICK open \in Seq(Nat) : open = OpenHere /\ Site \in 1..(Len(msg.fields) + 1)
    BY <1>2, SiteFacts
<1>4. suspendDepth = Len(open) /\ suspendDepth \in -1..MAX_DEPTH
    BY <1>1, <1>2, <1>3 DEF Located, Depths, Going, IInv, HalfDelivered
<1>5. PICK d \in 1..Len(open) : d = Len(stack) + 1
    BY <1>1, <1>3, <1>4 DEF seqDepth
<1>6. PICK k : k = path[seqDepth].k /\ k = path[d - 1].k
    BY <1>5 DEF seqDepth
<1>7. \A c \in 1..Len(open) :
        EnteredId(c) = open[c] /\ (EnteredSkip(c) <=> open[c] \notin msg.live)
    BY <1>2, <1>3 DEF Located, Follows
<1>8. k = open[d] /\ k \in msg.live
    <2>1. ~(d <= Len(stack)) /\ seqDepth = d - 1
        BY <1>5 DEF seqDepth
    <2>2. EnteredId(d) = k /\ ~EnteredSkip(d)
        BY <1>6, <2>1 DEF EnteredId, EnteredSkip
    <2>. QED  BY <1>7, <2>2
<1>9. k \in 1..(Site - 1) /\ msg.opens[k] = SubSeq(open, 1, d - 1)
    <2>1. Nesting(msg, Site)
        BY <1>3, SequencesNest
    <2>. QED  BY <1>3, <1>8, <2>1 DEF Nesting, OpenHere
<1>10. At(msg, k).type = "start"
    BY <1>3, <1>8, OpensAreStarts DEF OpenHere
<1>11. Around(k) = msg.opens[k]
    <2>1. PICK n \in Nat : n = Len(stack) /\ n = d - 1
        BY <1>5
    <2>2. \A c \in 1..n : stack[c].k = open[c]
        <3>1. ASSUME NEW c \in 1..n PROVE stack[c].k = open[c]
            <4>1. c \in 1..Len(open) /\ c <= Len(stack)
                BY <1>5, <2>1
            <4>2. EnteredId(c) = stack[c].k
                BY <4>1 DEF EnteredId
            <4>. QED  BY <1>7, <4>1, <4>2
        <3>. QED  BY <3>1
    <2>3. PICK cut \in Seq(Nat) : cut = SubSeq(open, 1, n) /\ Len(cut) = n /\ \A c \in 1..n : cut[c] = open[c]
        <3>1. PICK cut : cut = SubSeq(open, 1, n)
            OBVIOUS
        <3>2. n \in 0..Len(open)
            BY <1>5, <2>1
        <3>3. cut \in Seq(Nat) /\ Len(cut) = n /\ \A c \in 1..n : cut[c] = open[c]
            BY <3>1, <3>2, CutIs
        <3>. QED  BY <3>1, <3>3
    <2>4. PICK around : around = [c \in 1..n |-> stack[c].k]
        OBVIOUS
    <2>5. around = cut
        BY <2>2, <2>3, <2>4
    <2>. QED  BY <1>9, <2>1, <2>3, <2>4, <2>5 DEF Around, seqDepth
<1>12. msg.start[k] < Pos
    <2>1. PICK s \in 1..(Len(msg.fields) + 1) : s = Site
        BY <1>3
    <2>2. k \in 1..(Len(msg.fields) + 1) /\ k < s
        BY <1>9, <2>1
    <2>3. msg.start[k] < msg.start[s] /\ msg.start[k] \in Nat /\ msg.start[s] \in Nat
        BY <2>1, <2>2 DEF Laid
    <2>4. Pos \in Nat /\ msg.start[s] <= Pos
        <3>1. Pos \in Nat
            BY <1>2, PosFacts
        <3>2. CASE pend = NoPend
            BY <1>1, <1>2, <2>1, <2>3, <3>1, <3>2 DEF Located, Between
        <3>3. CASE pend # NoPend
            <4>1. pend.k = s /\ Pos = Behind(s, pendDone)
                BY <1>1, <1>2, <2>1, <3>3 DEF Located, Between
            <4>2. pend.k \in 0..Len(msg.fields) /\ pendDone \in Nat
                BY <1>2 DEF IInv, HalfDelivered, Entries
            <4>3. s \in 1..Len(msg.fields)
                BY <2>1, <4>1, <4>2
            <4>. QED  BY <1>2, <2>3, <3>1, <4>1, <4>2, <4>3, BehindIsBehind
        <3>. QED  BY <3>2, <3>3
    <2>. QED  BY <2>3, <2>4
<1>. QED  BY <1>2, <1>6, <1>8, <1>10, <1>11, <1>12 DEF Inside, LiveFields, DecoderInv, Accepted

\* An element is in the collector that the innermost call is for.
LEMMA FrontIs ==
    ASSUME IInv, NEW k, Inside(k), IsElement
    PROVE  /\ Element(msg, k) /\ Outer(msg, k) \in LiveFields(msg)
           /\ Front(Here(k)) = PlaceOf(msg, Outer(msg, k))
<1>. Laid(msg) /\ Len(msg.fields) \in Nat /\ Len(stack) \in Nat
    BY MessageFacts
<1>1. k \in 1..Len(msg.fields) /\ k \in Fields(msg) /\ k \in msg.live /\ At(msg, k).type # "end"
    BY DEF Inside, LiveFields, Laid, Fields
<1>2. PICK open \in Seq(Nat) : open = msg.opens[k] /\ Around(k) = open
    <2>1. k \in 1..(Len(msg.fields) + 1)
        BY <1>1
    <2>. QED  BY <2>1 DEF Inside, Laid
<1>3. PICK n \in Nat \ {0} : n = Len(stack)
    <2>1. stack \in Seq(Frames) /\ stack # <<>>
        BY DEF IsElement, IInv, CallsNest
    <2>. QED  BY <2>1
<1>4. Len(open) = n /\ open[n] = stack[n].k
    <2>1. PICK around : around = [i \in 1..n |-> stack[i].k]
        OBVIOUS
    <2>2. around = open
        BY <1>2, <1>3, <2>1 DEF Around, seqDepth
    <2>3. Len(around) = n /\ around[n] = stack[n].k
        BY <2>1
    <2>. QED  BY <2>2, <2>3
<1>5. Nested(msg, k)
    <2>1. open # <<>>
        BY <1>4
    <2>. QED  BY <1>2, <2>1 DEF Nested
<1>6. PICK c : c = Outer(msg, k) /\ c = open[n] /\ Collector(At(msg, c))
    BY <1>2, <1>3, <1>4 DEF Outer, IsElement, seqDepth
<1>7. c \in LiveFields(msg)
    <2>1. c \in msg.live
        BY <1>1, <1>5, <1>6, LiveInside
    <2>. QED  BY <1>6, <2>1 DEF LiveFields, Collector
<1>8. msg.opens[c] = SubSeq(open, 1, n - 1)
    <2>1. Nesting(msg, k)
        <3>1. k \in 1..(Len(msg.fields) + 1)
            BY <1>1
        <3>. QED  BY <3>1, SequencesNest
    <2>2. n \in 1..Len(open)
        BY <1>4
    <2>. QED  BY <1>2, <1>6, <2>1, <2>2 DEF Nesting
<1>9. Front(Here(k)) = PlaceOf(msg, c)
    <2>1. PICK ids : ids = [i \in 1..n |-> At(msg, open[i]).id]
        OBVIOUS
    <2>2. PICK id : id = At(msg, k).id
        OBVIOUS
    <2>3. Here(k) = Append(ids, id)
        BY <1>2, <1>4, <2>1, <2>2 DEF Here, Place
    <2>4. Front(Append(ids, id)) = ids
        <3>1. PICK T : T = {ids[i] : i \in 1..n} \cup {id}
            OBVIOUS
        <3>2. ids \in Seq(T) /\ id \in T /\ Len(ids) = n
            BY <2>1, <3>1
        <3>3. PICK all \in Seq(T) : all = Append(ids, id)
            BY <3>2, AppendedIs
        <3>4. Len(all) = n + 1 /\ \A i \in 1..n : all[i] = ids[i]
            BY <3>2, <3>3, AppendedIs
        <3>5. SubSeq(all, 1, n) = ids
            BY <3>2, <3>4
        <3>6. Len(all) - 1 = n
            BY <3>4
        <3>. QED  BY <3>3, <3>5, <3>6 DEF Front
    <2>5. PICK cut \in Seq(Nat) :
            cut = SubSeq(open, 1, n - 1) /\ Len(cut) = n - 1 /\ \A i \in 1..(n - 1) : cut[i] = open[i]
        <3>1. n - 1 \in 0..Len(open)
            BY <1>4
        <3>. QED  BY <3>1, CutIs
    <2>6. PICK outer : outer = [i \in 1..(n - 1) |-> At(msg, cut[i]).id]
        OBVIOUS
    <2>7. PlaceOf(msg, c) = Append(outer, At(msg, c).id)
        BY <1>8, <2>5, <2>6 DEF PlaceOf, Place
    <2>8. Append(outer, At(msg, c).id) = ids
        <3>1. PICK x : x = At(msg, c).id
            OBVIOUS
        <3>2. PICK T : T = {outer[i] : i \in 1..(n - 1)} \cup {x}
            OBVIOUS
        <3>3. n - 1 \in Nat
            OBVIOUS
        <3>4. outer \in Seq(T) /\ x \in T /\ Len(outer) = n - 1
            BY <2>6, <3>2, <3>3
        <3>5. PICK all \in Seq(T) : all = Append(outer, x)
            BY <3>4, AppendedIs
        <3>6. Len(all) = n /\ all[n] = x /\ \A i \in 1..(n - 1) : all[i] = outer[i]
            BY <3>4, <3>5, AppendedIs
        <3>7. ids[n] = x
            BY <1>6, <2>1, <3>1
        <3>8. ASSUME NEW i \in 1..n PROVE all[i] = ids[i]
            <4>1. CASE i = n
                BY <3>6, <3>7, <4>1
            <4>2. CASE i # n
                <5>1. i \in 1..(n - 1)
                    BY <4>2
                <5>2. outer[i] = At(msg, open[i]).id
                    BY <2>5, <2>6, <5>1
                <5>. QED  BY <2>1, <3>6, <5>1, <5>2
            <4>. QED  BY <4>1, <4>2
        <3>9. all = [i \in 1..n |-> all[i]]
            BY <3>6
        <3>10. ids = [i \in 1..n |-> ids[i]]
            BY <2>1
        <3>11. all = ids
            BY <3>8, <3>9, <3>10
        <3>. QED  BY <3>1, <3>5, <3>11
    <2>. QED  BY <2>3, <2>4, <2>7, <2>8
<1>. QED  BY <1>5, <1>6, <1>7, <1>9 DEF Element

\* The element that is delivered gets its place in the collector around it.
LEMMA PlacedKeeps ==
    ASSUME IInv, NEW k, Inside(k), NEW marks, Good(dst, marks)
    PROVE  Good(Placed(k), marks)
<1>. Laid(msg) /\ Len(msg.fields) \in Nat
    BY MessageFacts
<1>. SUFFICES ASSUME IsElement PROVE Good(Grown(dst, Front(Here(k)), At(msg, k).id), marks)
    BY DEF Placed
<1>1. PICK c \in LiveFields(msg) : c = Outer(msg, k) /\ Element(msg, k) /\ Front(Here(k)) = PlaceOf(msg, c)
    BY FrontIs
<1>2. At(msg, k).id \in Nat
    <2>1. At(msg, k) \in Field
        <3>1. k \in 1..Len(msg.fields)
            BY DEF Inside, LiveFields, Laid, Fields
        <3>. QED  BY <3>1, AtFacts
    <2>. QED  BY <2>1 DEF Field
<1>3. \A b \in IndexBounds(At(msg, c)) : ~(At(msg, k).id >= b)
    BY <1>1 DEF Inside, PastBound, Element, LiveFields
<1>4. msg \in Decodings
    BY DEF IInv, InputTyped
<1>. QED  BY <1>1, <1>2, <1>3, <1>4, GrownKeeps

\* A sequence is entered.
LEMMA EnteredKeeps ==
    ASSUME IInv, NEW k, Inside(k), NEW marks, Good(dst, marks)
    PROVE  Good(Entered(k), marks)
<1>1. PICK placed : placed = Placed(k)
    OBVIOUS
<1>2. Good(placed, marks)
    BY <1>1, PlacedKeeps
<1>3. Good(Cleared(placed, Here(k)), marks)
    BY <1>2, ClearedKeeps
<1>. QED  BY <1>1, <1>2, <1>3 DEF Entered

------------------------------------------------------------------------------
(* The invariant of a decode into a message. *)

\* The messages that what is there may come from.
Marks == IF holder = "object" THEN {0, number} ELSE 0..number

ObjectInv ==
    /\ holder \in {"object", "into"} /\ number \in 1..MESSAGES
    /\ Good(dst, Marks)

\* Blank units and those of this message may always be there.
LEMMA MarksAre ==
    ASSUME ObjectInv
    PROVE  0 \in Marks /\ number \in Marks /\ Marks \subseteq 0..number /\ number \in Nat
<1>1. number \in Nat /\ number >= 1
    BY StorageAssumption DEF ObjectInv
<1>. QED  BY <1>1 DEF Marks

\* Between two messages it is enough to look at the destination.
LEMMA SameMessage ==
    ASSUME ObjectInv, UNCHANGED <<holder, number>>, Good(dst', Marks)
    PROVE  ObjectInv'
<1>1. Marks' = Marks
    BY DEF Marks
<1>2. Good(dst', Marks) <=> Good(dst, Marks)'
    BY <1>1 DEF Good, Made, Fits, FitsAt, There
<1>. QED  BY <1>2 DEF ObjectInv

\* A sequence is entered again, or entered, or refused.
LEMMA SequencesKeep ==
    ASSUME DecoderInv, ObjectInv, ObjectDescend \/ ObjectSequence
    PROVE  ObjectInv'
<1>. IInv /\ Good(dst, Marks)
    BY DEF DecoderInv, ObjectInv
<1>1. CASE ObjectDescend
    <2>1. PICK at : at = path[seqDepth]
        OBVIOUS
    <2>2. dst' = IF at.skip THEN dst ELSE Entered(at.k)
        BY <1>1, <2>1 DEF ObjectDescend
    <2>3. ~at.skip => Inside(at.k)
        BY <1>1, <2>1, DescendsInside DEF ObjectDescend
    <2>4. Good(dst', Marks)
        BY <2>2, <2>3, EnteredKeeps
    <2>. QED  BY <1>1, <2>4, SameMessage DEF ObjectDescend
<1>2. CASE ObjectSequence
    <2>1. dst' = IF Takes THEN Entered(cur.k) ELSE dst
        BY <1>2 DEF ObjectSequence
    <2>2. Takes => Inside(cur.k)
        BY <1>2, DeliversInside DEF ObjectSequence, DeliverSequence
    <2>3. Good(dst', Marks)
        BY <2>1, <2>2, EnteredKeeps
    <2>. QED  BY <1>2, <2>3, SameMessage DEF ObjectSequence
<1>. QED  BY <1>1, <1>2

\* A refused field has at most its place.
LEMMA RefusalKeeps ==
    ASSUME DecoderInv, ObjectInv, ObjectRefused
    PROVE  ObjectInv'
<1>. IInv /\ Good(dst, Marks)
    BY DEF DecoderInv, ObjectInv
<1>1. dst' = IF ~Takes THEN dst
             ELSE IF Current.type = "start" THEN Entered(cur.k) ELSE Placed(cur.k)
    BY DEF ObjectRefused
<1>2. Takes => Inside(cur.k)
    BY DeliversInside DEF ObjectRefused, DeliverRefused
<1>3. Good(dst', Marks)
    BY <1>1, <1>2, EnteredKeeps, PlacedKeeps
<1>. QED  BY <1>3, SameMessage DEF ObjectRefused

\* What a payload makes of the leaf at its place is a leaf that fits there.
LEMMA PayloadKeeps ==
    ASSUME DecoderInv, ObjectInv, ObjectPayload
    PROVE  ObjectInv'
<1>1. IInv /\ Good(dst, Marks) /\ pc = "deliver" /\ Current.type # "start"
    BY DEF DecoderInv, ObjectInv, ObjectPayload, DeliverPayload
<1>2. Located
    BY <1>1 DEF DecoderInv, PInv, Unrefused
<1>3. ASSUME ~Takes PROVE Good(dst', Marks)
    BY <1>1, <1>3 DEF ObjectPayload
<1>4. ASSUME Takes PROVE Good(dst', Marks)
    <2>1. PICK k : k = cur.k /\ Inside(k)
        BY <1>1, <1>4, DeliversInside
    <2>2. PICK placed : placed = Placed(k) /\ Good(placed, Marks)
        BY <1>1, <2>1, PlacedKeeps
    <2>3. PICK q : q = PlaceOf(msg, k) /\ q = Here(k)
        BY <2>1 DEF Inside, Here, PlaceOf
    <2>4. PICK leaf : leaf = There(placed, q)
        OBVIOUS
    <2>5. leaf \in Leaves(Marks)
        BY <2>2, <2>4, ThereIs DEF Good
    <2>6. msg \in Decodings /\ k \in LiveFields(msg)
        BY <1>1, <2>1 DEF IInv, InputTyped, Inside
    <2>7. StorageOf(k) = "clipped" => leaf.len <= Clip
        BY <2>2, <2>3, <2>4, <2>6 DEF Good, Fits, FitsAt, StorageOf
    <2>8. PICK new : new = Read(leaf, Current, StorageOf(k))
        OBVIOUS
    <2>9. new \in Leaves(Marks) /\ (StorageOf(k) = "clipped" => new.len <= Clip)
        BY <1>1, <1>2, <1>4, <2>1, <2>5, <2>7, <2>8, ReadIs, MarksAre
    <2>10. FitsAt(new, msg, k)
        BY <1>1, <2>1, <2>9 DEF FitsAt, StorageOf, Collector, Current
    <2>11. Good(Put(placed, q, new), Marks)
        BY <2>2, <2>3, <2>6, <2>9, <2>10, PutKeeps
    <2>12. dst' = Put(placed, q, new)
        BY <1>4, <2>1, <2>2, <2>3, <2>4, <2>8 DEF ObjectPayload
    <2>. QED  BY <2>11, <2>12
<1>. QED  BY <1>3, <1>4, SameMessage DEF ObjectPayload

\* So is what a handler makes of it that is asked with the payload withheld.
LEMMA WithheldKeeps ==
    ASSUME DecoderInv, ObjectInv, ObjectWithheld
    PROVE  ObjectInv'
<1>1. IInv /\ Good(dst, Marks) /\ pc = "loop" /\ Avail > 0 /\ stack = <<>>
    BY DEF DecoderInv, ObjectInv, ObjectWithheld, RefuseWithheld, AtField, Withheld
<1>2. Located
    BY <1>1 DEF DecoderInv, PInv, Unrefused
<1>3. PICK k \in Fields(msg) : k = This /\ k = Site /\ k \in 1..Len(msg.fields)
    BY <1>1, <1>2, LoopFacts DEF Fields
<1>4. PICK f : f = At(msg, k)
    OBVIOUS
<1>5. CASE f.type \notin Sized \ {"fp"}
    <2>1. dst' = dst
        BY <1>3, <1>4, <1>5 DEF ObjectWithheld
    <2>. QED  BY <1>1, <2>1, SameMessage DEF ObjectWithheld
<1>6. CASE f.type \in Sized \ {"fp"}
    <2>1. msg.opens[k] = <<>>
        <3>1. Len(stack) = Len(OpenHere) /\ OpenHere \in Seq(Nat)
            BY <1>1, <1>2, CallsAreHere, SiteFacts
        <3>2. Len(<<>>) = 0
            OBVIOUS
        <3>3. PICK open \in Seq(Nat) : open = OpenHere /\ Len(open) = 0
            BY <1>1, <3>1, <3>2
        <3>4. open = <<>>
            BY <3>3
        <3>. QED  BY <1>3, <3>3, <3>4 DEF OpenHere
    <2>2. k \in LiveFields(msg)
        <3>1. ~Declining(f)
            BY <1>3, <1>4, <1>6 DEF ObjectWithheld, RefuseWithheld
        <3>2. ~Nested(msg, k)
            BY <2>1 DEF Nested
        <3>3. k \in msg.live
            BY <1>1, <1>4, <3>1, <3>2, LiveInside, MessageFacts DEF Declined, Declining, NotElement, PastBound
        <3>. QED  BY <1>4, <1>6, <3>3 DEF LiveFields, Sized, Fixlen
    <2>3. PICK q : q = PlaceOf(msg, k) /\ q = Place(msg, <<>>, k)
        BY <2>1 DEF PlaceOf
    <2>4. PICK leaf : leaf = There(dst, q)
        OBVIOUS
    <2>5. leaf \in Leaves(Marks) /\ msg \in Decodings
        BY <1>1, <2>4, ThereIs DEF Good, IInv, InputTyped
    <2>6. StorageOf(k) = "clipped" => leaf.len <= Clip
        BY <1>1, <2>2, <2>3, <2>4, <2>5 DEF Good, Fits, FitsAt, StorageOf
    <2>7. PICK new : new = Withhold(leaf, f, StorageOf(k))
        OBVIOUS
    <2>8. new \in Leaves(Marks) /\ (StorageOf(k) = "clipped" => new.len <= Clip)
        BY <1>1, <1>3, <1>4, <2>5, <2>6, <2>7, WithholdIs, MarksAre
    <2>9. FitsAt(new, msg, k)
        BY <1>4, <1>6, <2>8 DEF FitsAt, StorageOf, Collector, Sized, Fixlen
    <2>10. Good(Put(dst, q, new), Marks)
        BY <1>1, <2>2, <2>3, <2>5, <2>8, <2>9, PutKeeps
    <2>11. dst' = Put(dst, q, new)
        BY <1>3, <1>4, <1>6, <2>3, <2>4, <2>7 DEF ObjectWithheld
    <2>. QED  BY <2>10, <2>11, SameMessage DEF ObjectWithheld
<1>. QED  BY <1>5, <1>6

\* Another message begins; an object has put its own back.
LEMMA ResetKeepsObject ==
    ASSUME ObjectInv, NEW next, ObjectReset(next)
    PROVE  ObjectInv'
<1>1. MESSAGES \in Nat /\ number \in Nat /\ number < MESSAGES /\ number' = number + 1 /\ holder' = holder
    BY StorageAssumption, MarksAre DEF ObjectReset
<1>2. number' \in 1..MESSAGES
    BY <1>1
<1>3. Good(dst', Marks')
    <2>1. CASE dst' = Fresh
        BY <2>1, FreshIsGood
    <2>2. CASE holder # "object" /\ dst' = dst
        <3>1. Marks = 0..number /\ Marks' = 0..(number + 1)
            BY <1>1, <2>2 DEF Marks
        <3>2. Marks \subseteq Marks'
            BY <1>1, <3>1
        <3>. QED  BY <2>2, <3>2, MoreMarks DEF ObjectInv
    <2>. QED  BY <2>1, <2>2 DEF ObjectReset
<1>4. Good(dst', Marks') <=> Good(dst, Marks)'
    BY DEF Good, Made, Fits, FitsAt, There
<1>. QED  BY <1>1, <1>2, <1>3, <1>4 DEF ObjectInv

\* Every step is one of the decoder, and keeps the invariant.
LEMMA ObjectSteps == ObjectNext => Next \/ AnyReset
<1>1. Silent => Next
    BY DEF Silent, Next, ParseStep
<1>2. ObjectDescend \/ ObjectSequence \/ ObjectRefused \/ ObjectPayload \/ ObjectWithheld => Next
    BY DEF ObjectDescend, ObjectSequence, ObjectRefused, ObjectPayload, ObjectWithheld, Next, ParseStep
<1>3. \A next \in LaterDecodings : ObjectReset(next) => AnyReset
    BY DEF LaterDecodings, ObjectReset, AnyReset
<1>. QED  BY <1>1, <1>2, <1>3 DEF ObjectNext

\* The same of any step of the specification.
LEMMA ObjectStepKeeps ==
    DecoderInv /\ ObjectInv /\ [ObjectNext]_<<vars, objectVars>> => DecoderInv' /\ ObjectInv'
<1>. SUFFICES ASSUME DecoderInv, ObjectInv, [ObjectNext]_<<vars, objectVars>>
              PROVE  DecoderInv' /\ ObjectInv'
    OBVIOUS
<1>1. DecoderInv'
    BY ObjectSteps, StepAccepts
<1>2. ObjectInv'
    <2>1. CASE Silent \/ UNCHANGED <<vars, objectVars>>
        <3>1. UNCHANGED <<holder, number, dst>>
            BY <2>1 DEF Silent, objectVars
        <3>. QED  BY <3>1, SameMessage DEF ObjectInv
    <2>2. CASE ObjectDescend \/ ObjectSequence
        BY <2>2, SequencesKeep
    <2>3. CASE ObjectRefused \/ ObjectPayload \/ ObjectWithheld
        BY <2>3, RefusalKeeps, PayloadKeeps, WithheldKeeps
    <2>4. CASE \E next \in LaterDecodings : ObjectReset(next)
        BY <2>4, ResetKeepsObject
    <2>. QED  BY <2>1, <2>2, <2>3, <2>4 DEF ObjectNext
<1>. QED  BY <1>1, <1>2

\* It holds of a decoder that has just been made.
LEMMA ObjectInitHolds == ObjectInit => DecoderInv /\ ObjectInv
<1>. SUFFICES ASSUME ObjectInit PROVE DecoderInv /\ ObjectInv
    OBVIOUS
<1>1. Init
    BY DEF ObjectInit
<1>2. IInv /\ PInv
    BY <1>1, InitHolds, InitIsLocated
<1>3. Unrefused
    BY <1>1 DEF Init, Unrefused
<1>4. Accepted
    <2>1. Pos = 0
        BY <1>1, FirstPos DEF Init, NotBegun
    <2>2. ASSUME NEW k \in msg.live PROVE ~(msg.start[k] < 0)
        <3>1. msg.start[k] \in Nat
            BY <1>2, StartsAre
        <3>. QED  BY <3>1
    <2>. QED  BY <2>1, <2>2 DEF Accepted
<1>5. ObjectInv
    <2>1. 1 \in 1..MESSAGES
        BY StorageAssumption
    <2>. QED  BY <2>1, FreshIsGood DEF ObjectInit, ObjectInv
<1>. QED  BY <1>2, <1>3, <1>4, <1>5 DEF DecoderInv

------------------------------------------------------------------------------
(* Places. *)

\* What is under a place goes on where its path ends.
LEMMA UnderIs ==
    ASSUME NEW q \in Seq(Nat), NEW c \in Seq(Nat)
    PROVE  Under(q, c) <=> Len(q) > Len(c) /\ \A i \in 1..Len(c) : q[i] = c[i]
<1>1. ASSUME Len(q) > Len(c)
      PROVE  SubSeq(c, 1, Len(c)) = SubSeq(q, 1, Len(c)) <=> \A i \in 1..Len(c) : q[i] = c[i]
    <2>1. PICK n \in Nat : n = Len(c) /\ n \in 0..Len(c) /\ n \in 0..Len(q)
        BY <1>1
    <2>2. PICK a \in Seq(Nat) : a = SubSeq(c, 1, n) /\ Len(a) = n /\ \A i \in 1..n : a[i] = c[i]
        <3>1. PICK a : a = SubSeq(c, 1, n)
            OBVIOUS
        <3>2. a \in Seq(Nat) /\ Len(a) = n /\ \A i \in 1..n : a[i] = c[i]
            BY <2>1, <3>1, CutIs
        <3>. QED  BY <3>1, <3>2
    <2>3. PICK b \in Seq(Nat) : b = SubSeq(q, 1, n) /\ Len(b) = n /\ \A i \in 1..n : b[i] = q[i]
        <3>1. PICK b : b = SubSeq(q, 1, n)
            OBVIOUS
        <3>2. b \in Seq(Nat) /\ Len(b) = n /\ \A i \in 1..n : b[i] = q[i]
            BY <2>1, <3>1, CutIs
        <3>. QED  BY <3>1, <3>2
    <2>4. a = b <=> \A i \in 1..n : a[i] = b[i]
        BY <2>2, <2>3
    <2>. QED  BY <2>1, <2>2, <2>3, <2>4
<1>2. Len(q) > Len(c) => Len(c) <= Len(q)
    OBVIOUS
<1>. QED  BY <1>1, <1>2 DEF Under, IsPrefix

\* What is under what is under a place.
LEMMA UnderUnder ==
    ASSUME NEW r \in Seq(Nat), NEW q \in Seq(Nat), NEW c \in Seq(Nat), Under(r, q), Under(q, c)
    PROVE  Under(r, c)
<1>1. /\ Len(r) > Len(q) /\ (\A i \in 1..Len(q) : r[i] = q[i])
      /\ Len(q) > Len(c) /\ (\A i \in 1..Len(c) : q[i] = c[i])
    BY UnderIs
<1>2. \A i \in 1..Len(c) : i \in 1..Len(q)
    BY <1>1
<1>3. Len(r) > Len(c) /\ \A i \in 1..Len(c) : r[i] = c[i]
    BY <1>1, <1>2
<1>. QED  BY <1>3, UnderIs

\* The ids on the way to a field, and its own.
LEMMA PlaceIs ==
    ASSUME NEW m \in Decodings, NEW k \in Fields(m)
    PROVE  /\ Len(m.opens[k]) \in Nat /\ At(m, k).id \in Nat
           /\ PlaceOf(m, k) \in Seq(Nat) /\ Len(PlaceOf(m, k)) = Len(m.opens[k]) + 1
           /\ PlaceOf(m, k)[Len(m.opens[k]) + 1] = At(m, k).id
           /\ \A i \in 1..Len(m.opens[k]) : PlaceOf(m, k)[i] = At(m, m.opens[k][i]).id
<1>. Laid(m) /\ Len(m.fields) \in Nat
    BY DecodingsAreLaid DEF Laid
<1>1. ASSUME NEW j \in Fields(m) PROVE At(m, j).id \in Nat
    <2>1. m.fields[j] \in DOMAIN Alphabet
        BY DEF Laid, Fields
    <2>2. At(m, j) \in Field
        BY <2>1, FieldAssumption DEF At, Known
    <2>. QED  BY <2>2 DEF Field
<1>2. k \in 1..(Len(m.fields) + 1)
    BY DEF Fields
<1>3. PICK open \in Seq(Nat) : open = m.opens[k]
    BY <1>2 DEF Laid
<1>4. ASSUME NEW i \in 1..Len(open) PROVE open[i] \in Fields(m)
    <2>1. Nesting(m, k)
        BY <1>2, SequencesNest
    <2>2. open[i] \in 1..(k - 1)
        BY <1>3, <2>1 DEF Nesting
    <2>3. k \in 1..Len(m.fields)
        BY DEF Fields
    <2>. QED  BY <2>2, <2>3 DEF Fields
<1>5. PICK n \in Nat : n = Len(open)
    OBVIOUS
<1>6. PICK ids : ids = [i \in 1..n |-> At(m, open[i]).id]
    OBVIOUS
<1>7. ids \in Seq(Nat) /\ Len(ids) = n
    BY <1>1, <1>4, <1>5, <1>6
<1>8. PICK x \in Nat : x = At(m, k).id
    BY <1>1
<1>9. PICK all \in Seq(Nat) : all = Append(ids, x)
    BY <1>7, AppendedIs
<1>10. Len(all) = n + 1 /\ all[n + 1] = x /\ \A i \in 1..n : all[i] = ids[i]
    BY <1>7, <1>9, AppendedIs
<1>11. PlaceOf(m, k) = all
    BY <1>3, <1>5, <1>6, <1>8, <1>9 DEF PlaceOf, Place
<1>. QED  BY <1>3, <1>5, <1>6, <1>8, <1>10, <1>11

\* The sequences around a field: where they are, and what is around them.
LEMMA AroundIs ==
    ASSUME NEW m \in Decodings, NEW k \in Fields(m), NEW i \in 1..Len(m.opens[k]), NEW c, c = m.opens[k][i]
    PROVE  /\ c \in Fields(m) /\ c < k /\ At(m, c).type = "start"
           /\ Len(m.opens[c]) = i - 1 /\ (\A j \in 1..(i - 1) : m.opens[c][j] = m.opens[k][j])
           /\ PlaceOf(m, c) \in Seq(Nat) /\ Len(PlaceOf(m, c)) = i
           /\ \A j \in 1..i : PlaceOf(m, c)[j] = PlaceOf(m, k)[j]
<1>. Laid(m)
    BY DecodingsAreLaid
<1>. Len(m.fields) \in Nat
    BY DEF Laid
<1>1. k \in 1..(Len(m.fields) + 1)
    BY DEF Fields
<1>2. PICK open \in Seq(Nat) : open = m.opens[k]
    BY <1>1 DEF Laid
<1>3. Nesting(m, k)
    BY <1>1, SequencesNest
<1>4. c \in 1..(k - 1) /\ m.opens[c] = SubSeq(open, 1, i - 1)
    BY <1>2, <1>3 DEF Nesting
<1>5. c \in Fields(m) /\ c < k
    BY <1>1, <1>4 DEF Fields
<1>6. At(m, c).type = "start"
    BY <1>1, OpensAreStarts
<1>7. PICK cut \in Seq(Nat) : cut = SubSeq(open, 1, i - 1) /\ Len(cut) = i - 1 /\ \A j \in 1..(i - 1) : cut[j] = open[j]
    <2>1. i - 1 \in 0..Len(open)
        BY <1>2
    <2>. QED  BY <2>1, CutIs
<1>8. /\ PlaceOf(m, c) \in Seq(Nat) /\ Len(PlaceOf(m, c)) = i
      /\ PlaceOf(m, c)[i] = At(m, c).id
      /\ \A j \in 1..(i - 1) : PlaceOf(m, c)[j] = At(m, cut[j]).id
    <2>1. /\ PlaceOf(m, c) \in Seq(Nat) /\ Len(PlaceOf(m, c)) = Len(m.opens[c]) + 1
          /\ PlaceOf(m, c)[Len(m.opens[c]) + 1] = At(m, c).id
          /\ \A j \in 1..Len(m.opens[c]) : PlaceOf(m, c)[j] = At(m, m.opens[c][j]).id
        BY <1>5, PlaceIs
    <2>2. Len(m.opens[c]) = i - 1 /\ (i - 1) + 1 = i
        BY <1>4, <1>7
    <2>. QED  BY <1>4, <1>7, <2>1, <2>2
<1>9. \A j \in 1..Len(open) : PlaceOf(m, k)[j] = At(m, open[j]).id
    BY <1>2, PlaceIs
<1>10. ASSUME NEW j \in 1..i PROVE PlaceOf(m, c)[j] = PlaceOf(m, k)[j]
    <2>1. j \in 1..Len(open)
        BY <1>2
    <2>2. CASE j = i
        BY <1>2, <1>8, <1>9, <2>1, <2>2
    <2>3. CASE j # i
        <3>1. j \in 1..(i - 1)
            BY <2>3
        <3>. QED  BY <1>7, <1>8, <1>9, <2>1, <3>1
    <2>. QED  BY <2>2, <2>3
<1>. QED  BY <1>2, <1>4, <1>5, <1>6, <1>7, <1>8, <1>10

\* Around a field that is read every sequence is.
LEMMA AroundLive ==
    ASSUME NEW m \in Decodings, NEW k \in LiveFields(m)
    PROVE  /\ k \in Fields(m) /\ k \in m.live
           /\ \A i \in 1..Len(m.opens[k]) : m.opens[k][i] \in LiveFields(m)
<1>. Laid(m)
    BY DecodingsAreLaid
<1>1. k \in Fields(m) /\ k \in m.live
    BY DEF Laid, LiveFields
<1>2. ASSUME NEW i \in 1..Len(m.opens[k]) PROVE m.opens[k][i] \in LiveFields(m)
    <2>1. Nested(m, k)
        <3>1. k \in 1..(Len(m.fields) + 1) /\ Len(m.fields) \in Nat
            BY <1>1 DEF Laid, Fields
        <3>2. m.opens[k] \in Seq(Nat)
            BY <3>1 DEF Laid
        <3>3. PICK open \in Seq(Nat) : open = m.opens[k] /\ 1..Len(open) # {}
            BY <3>2
        <3>4. open # <<>>
            BY <3>3
        <3>. QED  BY <3>3, <3>4 DEF Nested
    <2>2. Outer(m, k) \in m.live
        BY <1>1, <2>1, LiveInside
    <2>3. m.opens[k][i] \in m.live
        BY <1>1, <2>1, <2>2, LiveAround
    <2>4. At(m, m.opens[k][i]).type = "start"
        BY <1>1, AroundIs
    <2>. QED  BY <2>3, <2>4 DEF LiveFields
<1>. QED  BY <1>1, <1>2

\* Sequences of the same elements are the same.
LEMMA SameElements ==
    ASSUME NEW a \in Seq(Nat), NEW b \in Seq(Nat), NEW n \in Nat, Len(a) = n, Len(b) = n,
           \A i \in 1..n : a[i] = b[i]
    PROVE  a = b
OBVIOUS

------------------------------------------------------------------------------
(* What is where. *)

\* Nothing shows at a place that is vacant.
Vacant(leaf) == leaf.len = 0 /\ leaf.size = 0

\* Only a collector has a size, and nothing shows under it past that.
Beyond(d, r, c) == Under(r, c) /\ r[Len(c) + 1] \notin 0..(There(d, c).size - 1)
ShapedAt(d, m, k) ==
    LET c == PlaceOf(m, k) IN
    IF Collector(At(m, k))
    THEN There(d, c).len = 0 /\ \A r \in DOMAIN d : Beyond(d, r, c) => Vacant(There(d, r))
    ELSE There(d, c).size = 0
Shaped(d) ==
    /\ \A q \in DOMAIN d : q \in Seq(Nat) /\ d[q].size \in Nat
    /\ \A m \in Decodings : \A k \in LiveFields(m) : ShapedAt(d, m, k)

\* An element has its place in the collector around it, and so have the sequences it is in.
Seated(d, m, k) == Element(m, k) => At(m, k).id < There(d, PlaceOf(m, Outer(m, k))).size
Rooted(d, m, k) ==
    Seated(d, m, k) /\ \A i \in 1..Len(m.opens[k]) : Seated(d, m, m.opens[k][i])

\* What is there afterwards.
LEMMA PutThere ==
    ASSUME NEW d, NEW q, NEW leaf, NEW r
    PROVE  There(Put(d, q, leaf), r) = IF r = q THEN leaf ELSE There(d, r)
<1>1. PICK e : e = Put(d, q, leaf)
    OBVIOUS
<1>2. DOMAIN e = DOMAIN d \cup {q} /\ \A s \in DOMAIN e : e[s] = IF s = q THEN leaf ELSE d[s]
    BY <1>1 DEF Put
<1>3. There(e, r) = IF r = q THEN leaf ELSE There(d, r)
    BY <1>2 DEF There
<1>. QED  BY <1>1, <1>3

\* There is a leaf more at most.
LEMMA PutDomain ==
    ASSUME NEW d, NEW q, NEW leaf
    PROVE  DOMAIN Put(d, q, leaf) = DOMAIN d \cup {q}
BY DEF Put

\* Clearing empties a place and all below it, and nothing else.
LEMMA ClearedThere ==
    ASSUME NEW d, NEW c
    PROVE  /\ DOMAIN Cleared(d, c) \subseteq DOMAIN d \cup {c}
           /\ \A r : There(Cleared(d, c), r) = IF r = c \/ Under(r, c) THEN Empty ELSE There(d, r)
<1>1. PICK S : S = {r \in DOMAIN d : ~Under(r, c)}
    OBVIOUS
<1>2. PICK e : e = [q \in S |-> d[q]]
    OBVIOUS
<1>3. Cleared(d, c) = Put(e, c, Empty)
    BY <1>1, <1>2 DEF Cleared
<1>4. \A r : There(e, r) = IF Under(r, c) THEN Empty ELSE There(d, r)
    BY <1>1, <1>2 DEF There
<1>5. DOMAIN Put(e, c, Empty) = DOMAIN e \cup {c}
    BY PutDomain
<1>7. \A r : There(Put(e, c, Empty), r) = IF r = c THEN Empty ELSE There(e, r)
    BY PutThere
<1>6. DOMAIN e = S
    BY <1>2
<1>. QED  BY <1>1, <1>3, <1>4, <1>5, <1>6, <1>7

\* Growing a collector empties the elements it gains, and then counts them.
LEMMA GrownIsPut ==
    ASSUME NEW d, NEW c, NEW id, ~(id < There(d, c).size)
    PROVE  \E e : /\ DOMAIN e = DOMAIN d
                  /\ \A r : There(e, r) =
                        IF Under(r, c) /\ r[Len(c) + 1] \in There(d, c).size..id THEN Empty
                        ELSE There(d, r)
                  /\ Grown(d, c, id) = Put(e, c, [Empty EXCEPT !.size = id + 1])
<1>1. PICK added : added = {r \in DOMAIN d : Under(r, c) /\ r[Len(c) + 1] \in There(d, c).size..id}
    OBVIOUS
<1>2. PICK e : e = [r \in DOMAIN d |-> IF r \in added THEN Empty ELSE d[r]]
    OBVIOUS
<1>3. PICK leaf : leaf = [Empty EXCEPT !.size = id + 1]
    OBVIOUS
<1>4. Grown(d, c, id) = Put(e, c, leaf)
    BY <1>1, <1>2, <1>3 DEF Grown
<1>5. \A r : There(e, r) =
        IF Under(r, c) /\ r[Len(c) + 1] \in There(d, c).size..id THEN Empty ELSE There(d, r)
    BY <1>1, <1>2 DEF There
<1>6. DOMAIN e = DOMAIN d
    BY <1>2
<1>. QED  BY <1>3, <1>4, <1>5, <1>6

\* Sizes are numbers.
LEMMA SizeIs ==
    ASSUME NEW d, Shaped(d), NEW q
    PROVE  There(d, q).size \in Nat
BY DEF Shaped, There, Empty

\* Nothing shows past the size of a collector.
LEMMA BeyondIsVacant ==
    ASSUME NEW d, Shaped(d), NEW m \in Decodings, NEW k \in LiveFields(m), Collector(At(m, k)), NEW r,
           Beyond(d, r, PlaceOf(m, k))
    PROVE  Vacant(There(d, r))
<1>1. CASE r \in DOMAIN d
    <2>1. ShapedAt(d, m, k)
        BY DEF Shaped
    <2>. QED  BY <1>1, <2>1 DEF ShapedAt
<1>2. CASE r \notin DOMAIN d
    BY <1>2 DEF There, Vacant, Empty
<1>. QED  BY <1>1, <1>2

\* A place under that of a collector is that of one of its elements, or under one.
LEMMA WithinIs ==
    ASSUME NEW m \in Decodings, NEW k \in LiveFields(m), NEW n \in Decodings, NEW j \in LiveFields(n),
           Collector(At(n, j)), Under(PlaceOf(m, k), PlaceOf(n, j))
    PROVE  \E h : /\ h = k \/ \E i \in 1..Len(m.opens[k]) : h = m.opens[k][i]
                  /\ h \in LiveFields(m) /\ Element(m, h)
                  /\ PlaceOf(m, Outer(m, h)) = PlaceOf(n, j)
                  /\ PlaceOf(m, k)[Len(PlaceOf(n, j)) + 1] = At(m, h).id
<1>. k \in Fields(m) /\ j \in Fields(n)
    BY AroundLive
<1>1. \A i \in 1..Len(m.opens[k]) : m.opens[k][i] \in LiveFields(m)
    BY AroundLive
<1>2. PICK q \in Seq(Nat), c \in Seq(Nat) : q = PlaceOf(m, k) /\ c = PlaceOf(n, j)
    BY <1>1, PlaceIs
<1>3. PICK l \in Nat : l = Len(m.opens[k]) /\ Len(q) = l + 1 /\ q[l + 1] = At(m, k).id
    BY <1>2, PlaceIs
<1>4. PICK i \in Nat \ {0} : i = Len(c)
    BY <1>2, PlaceIs
<1>5. i \in 1..l /\ \A x \in 1..i : q[x] = c[x]
    <2>1. Under(q, c)
        BY <1>2
    <2>2. Len(q) > Len(c) /\ \A x \in 1..Len(c) : q[x] = c[x]
        BY <2>1, UnderIs
    <2>. QED  BY <1>3, <1>4, <2>2
<1>6. PICK o : o = m.opens[k][i]
    OBVIOUS
<1>7. /\ o \in Fields(m) /\ PlaceOf(m, o) \in Seq(Nat) /\ Len(PlaceOf(m, o)) = i
      /\ \A x \in 1..i : PlaceOf(m, o)[x] = q[x]
    <2>1. i \in 1..Len(m.opens[k])
        BY <1>3, <1>5
    <2>. QED  BY <1>2, <1>6, <2>1, AroundIs
<1>8. PlaceOf(m, o) = c
    <2>1. PICK a \in Seq(Nat) : a = PlaceOf(m, o) /\ Len(a) = i /\ \A x \in 1..i : a[x] = q[x]
        BY <1>7
    <2>2. \A x \in 1..i : a[x] = c[x]
        BY <1>5, <2>1
    <2>3. a = c
        BY <1>4, <2>1, <2>2, SameElements
    <2>. QED  BY <2>1, <2>3
<1>9. o \in LiveFields(m) /\ Collector(At(m, o))
    <2>1. o \in LiveFields(m)
        BY <1>1, <1>3, <1>5, <1>6
    <2>2. Declared(m, o) = Declared(n, j)
        BY <1>2, <1>8, <2>1, SchemaAssumption
    <2>. QED  BY <2>1, <2>2 DEF Declared
<1>10. CASE i = l
    <2>1. Nested(m, k) /\ Outer(m, k) = o
        <3>1. Len(<<>>) = 0
            OBVIOUS
        <3>2. m.opens[k] # <<>>
            BY <1>3, <1>4, <1>10, <3>1
        <3>. QED  BY <1>3, <1>6, <1>10, <3>2 DEF Nested, Outer
    <2>. QED  BY <1>2, <1>3, <1>4, <1>8, <1>9, <1>10, <2>1 DEF Element
<1>11. CASE i # l
    <2>0. PICK y \in Nat : y = i + 1 /\ y \in 1..l /\ y - 1 = i
        BY <1>5, <1>11
    <2>1. PICK h : h = m.opens[k][y]
        OBVIOUS
    <2>2. h \in LiveFields(m) /\ h \in Fields(m)
        BY <1>1, <1>3, <2>0, <2>1, AroundLive
    <2>3. Len(m.opens[h]) = i /\ m.opens[h][i] = o
        <3>1. y \in 1..Len(m.opens[k])
            BY <1>3, <2>0
        <3>2. /\ Len(m.opens[h]) = y - 1
              /\ \A x \in 1..(y - 1) : m.opens[h][x] = m.opens[k][x]
            BY <2>1, <3>1, AroundIs, SMTT(20)
        <3>3. i \in 1..(y - 1)
            BY <1>4, <2>0
        <3>. QED  BY <1>6, <2>0, <3>2, <3>3
    <2>4. Nested(m, h) /\ Outer(m, h) = o
        <3>1. Len(<<>>) = 0
            OBVIOUS
        <3>2. m.opens[h] # <<>>
            BY <2>3, <3>1
        <3>. QED  BY <2>3, <3>2 DEF Nested, Outer
    <2>5. q[i + 1] = At(m, h).id
        BY <1>2, <1>3, <2>0, <2>1, PlaceIs
    <2>. QED  BY <1>2, <1>3, <1>4, <1>8, <1>9, <2>0, <2>1, <2>2, <2>4, <2>5 DEF Element
<1>. QED  BY <1>10, <1>11

\* What has its place in every collector around it is beyond none.
LEMMA RootedIsWithin ==
    ASSUME NEW d, Shaped(d), NEW m \in Decodings, NEW k \in LiveFields(m), Rooted(d, m, k),
           NEW n \in Decodings, NEW j \in LiveFields(n), Collector(At(n, j))
    PROVE  ~Beyond(d, PlaceOf(m, k), PlaceOf(n, j))
<1>. SUFFICES ASSUME Beyond(d, PlaceOf(m, k), PlaceOf(n, j)) PROVE FALSE
    OBVIOUS
<1>1. PICK h : /\ h = k \/ \E i \in 1..Len(m.opens[k]) : h = m.opens[k][i]
               /\ h \in LiveFields(m) /\ Element(m, h)
               /\ PlaceOf(m, Outer(m, h)) = PlaceOf(n, j)
               /\ PlaceOf(m, k)[Len(PlaceOf(n, j)) + 1] = At(m, h).id
    BY WithinIs DEF Beyond
<1>2. Seated(d, m, h)
    BY <1>1 DEF Rooted
<1>3. PICK x \in Nat, s \in Nat : x = At(m, h).id /\ s = There(d, PlaceOf(n, j)).size
    <2>1. At(m, h).id \in Nat
        BY <1>1, AroundLive, PlaceIs
    <2>. QED  BY <2>1, SizeIs
<1>4. x < s
    BY <1>1, <1>2, <1>3 DEF Seated
<1>5. x \in 0..(s - 1)
    BY <1>4
<1>. QED  BY <1>1, <1>3, <1>5 DEF Beyond

------------------------------------------------------------------------------
(* The operations on the message keep its shape. *)

\* Whoever is taken away takes along what is below it.
ClosedDown(S) == \A q \in Seq(Nat) : q \in S => \A r \in Seq(Nat) : Under(r, q) => r \in S

\* Emptying places, and with each one all below it, keeps the shape.
LEMMA EmptiedShape ==
    ASSUME NEW d, Shaped(d), NEW S, ClosedDown(S), NEW e, \A r \in DOMAIN e : r \in Seq(Nat),
           \A r : There(e, r) = IF r \in S THEN Empty ELSE There(d, r)
    PROVE  Shaped(e)
<1>1. ASSUME NEW q \in DOMAIN e PROVE e[q].size \in Nat
    <2>1. e[q] = There(e, q)
        BY DEF There
    <2>2. There(d, q).size \in Nat
        BY SizeIs
    <2>. QED  BY <2>1, <2>2 DEF Empty
<1>2. ASSUME NEW n \in Decodings, NEW j \in LiveFields(n) PROVE ShapedAt(e, n, j)
    <2>1. PICK c \in Seq(Nat) : c = PlaceOf(n, j)
        BY AroundLive, PlaceIs
    <2>2. ShapedAt(d, n, j)
        BY DEF Shaped
    <2>3. CASE c \in S
        <3>1. There(e, c) = Empty
            BY <2>3
        <3>2. ASSUME NEW r \in DOMAIN e, Beyond(e, r, c) PROVE Vacant(There(e, r))
            <4>1. r \in Seq(Nat) /\ Under(r, c)
                BY <3>2 DEF Beyond
            <4>2. r \in S
                BY <2>1, <2>3, <4>1 DEF ClosedDown
            <4>. QED  BY <4>2 DEF Vacant, Empty
        <3>. QED  BY <2>1, <3>1, <3>2 DEF ShapedAt, Empty
    <2>4. CASE c \notin S
        <3>1. There(e, c) = There(d, c)
            BY <2>4
        <3>2. ASSUME Collector(At(n, j)), NEW r \in DOMAIN e, Beyond(e, r, c) PROVE Vacant(There(e, r))
            <4>1. Beyond(d, r, c)
                BY <3>1, <3>2 DEF Beyond
            <4>2. Vacant(There(d, r))
                BY <2>1, <3>2, <4>1, BeyondIsVacant
            <4>. QED  BY <4>2 DEF Vacant, Empty
        <3>. QED  BY <2>1, <2>2, <3>1, <3>2 DEF ShapedAt
    <2>. QED  BY <2>3, <2>4
<1>. QED  BY <1>1, <1>2 DEF Shaped

\* Nothing is under itself.
LEMMA NotUnderItself ==
    ASSUME NEW q \in Seq(Nat)
    PROVE  ~Under(q, q)
<1>1. PICK n \in Nat : n = Len(q)
    OBVIOUS
<1>2. ~(n > n)
    OBVIOUS
<1>. QED  BY <1>1, <1>2 DEF Under

\* So does a leaf that is put in the place of a live field, whose collectors are long enough.
LEMMA PutShape ==
    ASSUME NEW d, Shaped(d), NEW m \in Decodings, NEW k \in LiveFields(m), Rooted(d, m, k),
           NEW leaf, leaf.size \in Nat,
           IF Collector(At(m, k)) THEN leaf.len = 0 /\ leaf.size >= There(d, PlaceOf(m, k)).size
           ELSE leaf.size = 0
    PROVE  Shaped(Put(d, PlaceOf(m, k), leaf))
<1>1. PICK q \in Seq(Nat) : q = PlaceOf(m, k)
    BY AroundLive, PlaceIs
<1>2. PICK e : e = Put(d, q, leaf)
    OBVIOUS
<1>3. DOMAIN e = DOMAIN d \cup {q}
    BY <1>2, PutDomain
<1>4. \A r : There(e, r) = IF r = q THEN leaf ELSE There(d, r)
    BY <1>2, PutThere
<1>5. ASSUME NEW r \in DOMAIN e PROVE r \in Seq(Nat) /\ e[r].size \in Nat
    <2>1. e[r] = There(e, r)
        BY DEF There
    <2>2. There(d, r).size \in Nat
        BY SizeIs
    <2>3. r \in Seq(Nat)
        BY <1>3 DEF Shaped
    <2>. QED  BY <1>4, <2>1, <2>2, <2>3
<1>6. ASSUME NEW n \in Decodings, NEW j \in LiveFields(n) PROVE ShapedAt(e, n, j)
    <2>1. PICK c \in Seq(Nat) : c = PlaceOf(n, j)
        BY AroundLive, PlaceIs
    <2>2. ShapedAt(d, n, j)
        BY DEF Shaped
    <2>3. ASSUME Collector(At(n, j)), There(e, c).size >= There(d, c).size, NEW r \in DOMAIN e, Beyond(e, r, c)
          PROVE  Vacant(There(e, r))
        <3>1. Beyond(d, r, c)
            <4>1. PICK s \in Nat : s = There(d, c).size
                BY SizeIs
            <4>2. PICK t \in Nat : t = There(e, c).size
                <5>1. There(d, c).size \in Nat
                    BY SizeIs
                <5>. QED  BY <1>4, <5>1
            <4>3. 0..(s - 1) \subseteq 0..(t - 1)
                BY <2>3, <4>1, <4>2
            <4>. QED  BY <2>3, <4>1, <4>2, <4>3 DEF Beyond
        <3>2. Vacant(There(d, r))
            BY <2>1, <2>3, <3>1, BeyondIsVacant
        <3>3. r # q
            <4>1. ~Beyond(d, q, c)
                BY <1>1, <2>1, <2>3, RootedIsWithin
            <4>. QED  BY <3>1, <4>1
        <3>. QED  BY <1>4, <3>2, <3>3
    <2>4. CASE c = q
        <3>0. PlaceOf(n, j) = PlaceOf(m, k)
            BY <1>1, <2>1, <2>4
        <3>1. Declared(n, j) = Declared(m, k)
            BY <3>0, SchemaAssumption
        <3>2. Collector(At(n, j)) = Collector(At(m, k))
            BY <3>1 DEF Declared
        <3>3. There(e, c) = leaf
            BY <1>4, <2>4
        <3>4. CASE Collector(At(n, j))
            <4>1. There(e, c).len = 0 /\ There(e, c).size >= There(d, c).size
                BY <1>1, <2>4, <3>2, <3>3, <3>4
            <4>. QED  BY <2>1, <2>3, <3>4, <4>1 DEF ShapedAt
        <3>5. CASE ~Collector(At(n, j))
            BY <2>1, <3>2, <3>3, <3>5 DEF ShapedAt
        <3>. QED  BY <3>4, <3>5
    <2>5. CASE c # q
        <3>1. There(e, c) = There(d, c)
            BY <1>4, <2>5
        <3>2. There(e, c).size >= There(d, c).size
            <4>1. There(d, c).size \in Nat
                BY SizeIs
            <4>. QED  BY <3>1, <4>1
        <3>3. CASE Collector(At(n, j))
            <4>1. There(e, c).len = 0
                BY <2>1, <2>2, <3>1, <3>3 DEF ShapedAt
            <4>. QED  BY <2>1, <2>3, <3>2, <3>3, <4>1 DEF ShapedAt
        <3>4. CASE ~Collector(At(n, j))
            BY <2>1, <2>2, <3>1, <3>4 DEF ShapedAt
        <3>. QED  BY <3>3, <3>4
    <2>. QED  BY <2>4, <2>5
<1>7. Shaped(e)
    BY <1>5, <1>6 DEF Shaped
<1>. QED  BY <1>1, <1>2, <1>7

\* No collector whose place is so short loses elements.
Unharmed(d, e, n) == \A r \in Seq(Nat) : Len(r) <= n => There(e, r).size >= There(d, r).size

\* Then what had its place has it still.
LEMMA SeatedKept ==
    ASSUME NEW d, Shaped(d), NEW e, Shaped(e), NEW n \in Nat, Unharmed(d, e, n),
           NEW m \in Decodings, NEW k \in LiveFields(m), Len(m.opens[k]) <= n, Seated(d, m, k)
    PROVE  Seated(e, m, k)
<1>. SUFFICES ASSUME Element(m, k)
              PROVE  At(m, k).id < There(e, PlaceOf(m, Outer(m, k))).size
    BY DEF Seated
<1>. k \in Fields(m)
    BY AroundLive
<1>1. PICK l \in Nat \ {0} : l = Len(m.opens[k])
    <2>1. Laid(m)
        BY DecodingsAreLaid
    <2>2. Len(m.fields) \in Nat
        BY <2>1 DEF Laid
    <2>3. k \in 1..(Len(m.fields) + 1)
        BY <2>2 DEF Fields
    <2>4. PICK open \in Seq(Nat) : open = m.opens[k] /\ open # <<>>
        BY <2>1, <2>3 DEF Laid, Element, Nested
    <2>. QED  BY <2>4
<1>7. l \in 1..l /\ Len(m.opens[k]) = l
    BY <1>1
<1>2. PICK c : c = Outer(m, k) /\ c = m.opens[k][l] /\ l \in 1..Len(m.opens[k])
    BY <1>7 DEF Outer
<1>3. PICK q \in Seq(Nat) : q = PlaceOf(m, c) /\ Len(q) = l
    <2>1. PlaceOf(m, c) \in Seq(Nat) /\ Len(PlaceOf(m, c)) = l
        BY <1>2, AroundIs
    <2>. QED  BY <2>1
<1>4. There(e, q).size >= There(d, q).size
    BY <1>1, <1>3 DEF Unharmed
<1>5. At(m, k).id < There(d, q).size
    BY <1>2, <1>3 DEF Seated
<1>6. There(d, q).size \in Nat /\ There(e, q).size \in Nat /\ At(m, k).id \in Nat
    BY SizeIs, PlaceIs
<1>. QED  BY <1>2, <1>3, <1>4, <1>5, <1>6

\* A field keeps its place as long as no collector around it gets shorter.
LEMMA RootedKept ==
    ASSUME NEW d, Shaped(d), NEW e, Shaped(e), NEW n \in Nat, Unharmed(d, e, n),
           NEW m \in Decodings, NEW k \in LiveFields(m), Len(m.opens[k]) <= n, Rooted(d, m, k)
    PROVE  Rooted(e, m, k)
<1>1. Seated(e, m, k)
    BY SeatedKept DEF Rooted
<1>2. ASSUME NEW i \in 1..Len(m.opens[k]) PROVE Seated(e, m, m.opens[k][i])
    <2>. k \in Fields(m)
        BY AroundLive
    <2>1. PICK c : c = m.opens[k][i] /\ c \in LiveFields(m)
        BY AroundLive
    <2>6. Len(m.opens[k]) \in Nat
        BY PlaceIs
    <2>7. k \in Fields(m) /\ c = m.opens[k][i]
        BY <2>1
    <2>2. Len(m.opens[c]) = i - 1
        BY <2>6, <2>7, AroundIs
    <2>3. Len(m.opens[c]) <= n
        BY <2>2, <2>6
    <2>4. Seated(d, m, c)
        BY <2>1 DEF Rooted
    <2>5. Seated(e, m, c)
        BY <2>1, <2>3, <2>4, SeatedKept
    <2>. QED  BY <2>1, <2>5
<1>. QED  BY <1>1, <1>2 DEF Rooted

\* A collector that is grown.
LEMMA GrownShape ==
    ASSUME NEW d, Shaped(d), NEW m \in Decodings, NEW k \in LiveFields(m), Collector(At(m, k)),
           NEW id \in Nat, Rooted(d, m, k)
    PROVE  LET c == PlaceOf(m, k)
               grown == Grown(d, c, id)
           IN /\ Shaped(grown) /\ Unharmed(d, grown, Len(c)) /\ id < There(grown, c).size
              /\ id < There(d, c).size => grown = d
<1>. k \in Fields(m)
    BY AroundLive
<1>1. PICK c \in Seq(Nat), n \in Nat : c = PlaceOf(m, k) /\ n = Len(m.opens[k]) /\ Len(c) = n + 1
    BY PlaceIs
<1>2. PICK grown : grown = Grown(d, c, id)
    OBVIOUS
<1>3. PICK s \in Nat : s = There(d, c).size
    BY SizeIs
<1>4. CASE id < s
    <2>1. grown = d
        BY <1>2, <1>3, <1>4 DEF Grown
    <2>2. Unharmed(d, d, Len(c))
        <3>1. \A r : There(d, r).size \in Nat
            BY SizeIs
        <3>. QED  BY <3>1 DEF Unharmed
    <2>. QED  BY <1>1, <1>2, <1>3, <1>4, <2>1, <2>2
<1>5. CASE ~(id < s)
    <2>1. PICK leaf : leaf = [Empty EXCEPT !.size = id + 1]
        OBVIOUS
    <2>2. leaf.len = 0 /\ leaf.size = id + 1 /\ leaf.size \in Nat
        BY <2>1 DEF Empty
    <2>3. PICK e : /\ DOMAIN e = DOMAIN d
                   /\ \A r : There(e, r) =
                        IF Under(r, c) /\ r[Len(c) + 1] \in There(d, c).size..id THEN Empty
                        ELSE There(d, r)
                   /\ grown = Put(e, c, leaf)
        BY <1>2, <1>3, <1>5, <2>1, GrownIsPut
    <2>4. PICK S : S = {r \in Seq(Nat) : Under(r, c) /\ r[n + 2] \in s..id}
        OBVIOUS
    <2>5. Len(c) + 1 = n + 2
        BY <1>1
    <2>6. ClosedDown(S)
        <3>1. ASSUME NEW q \in Seq(Nat), q \in S, NEW r \in Seq(Nat), Under(r, q) PROVE r \in S
            <4>1. Under(q, c) /\ q[n + 2] \in s..id
                BY <2>4, <3>1
            <4>2. Under(r, c)
                BY <3>1, <4>1, UnderUnder
            <4>3. Len(q) > Len(c)
                BY <4>1 DEF Under
            <4>4. n + 2 \in 1..Len(q)
                BY <1>1, <4>3
            <4>5. \A i \in 1..Len(q) : r[i] = q[i]
                BY <3>1, UnderIs
            <4>6. r[n + 2] = q[n + 2]
                BY <4>4, <4>5
            <4>. QED  BY <2>4, <4>1, <4>2, <4>6
        <3>. QED  BY <3>1 DEF ClosedDown
    <2>7. ASSUME NEW r PROVE There(e, r) = IF r \in S THEN Empty ELSE There(d, r)
        <3>1. CASE r \in Seq(Nat)
            BY <1>3, <2>3, <2>4, <2>5, <3>1
        <3>2. CASE r \notin Seq(Nat)
            <4>1. r \notin DOMAIN d
                BY <3>2 DEF Shaped
            <4>2. There(e, r) = Empty /\ There(d, r) = Empty
                BY <2>3, <4>1 DEF There
            <4>. QED  BY <4>2
        <3>. QED  BY <3>1, <3>2
    <2>8. Shaped(e)
        <3>1. \A r \in DOMAIN e : r \in Seq(Nat)
            BY <2>3 DEF Shaped
        <3>. QED  BY <2>6, <2>7, <3>1, EmptiedShape
    <2>9. ASSUME NEW r \in Seq(Nat), Len(r) <= Len(c) PROVE There(e, r) = There(d, r)
        <3>1. ~(Len(r) > Len(c))
            BY <2>9
        <3>. QED  BY <2>3, <3>1 DEF Under
    <2>10. Rooted(e, m, k)
        <3>1. Unharmed(d, e, n)
            <4>1. ASSUME NEW r \in Seq(Nat), Len(r) <= n PROVE There(e, r).size >= There(d, r).size
                <5>1. Len(r) <= Len(c)
                    BY <1>1, <4>1
                <5>2. There(e, r) = There(d, r) /\ There(d, r).size \in Nat
                    BY <2>9, <5>1, SizeIs
                <5>. QED  BY <5>2
            <4>. QED  BY <4>1 DEF Unharmed
        <3>. QED  BY <1>1, <2>8, <3>1, RootedKept
    <2>11. There(e, c).size = s
        <3>1. Len(c) <= Len(c)
            BY <1>1
        <3>. QED  BY <1>3, <2>9, <3>1
    <2>12. Shaped(grown)
        <3>1. leaf.size >= There(e, PlaceOf(m, k)).size
            BY <1>1, <1>5, <2>2, <2>11
        <3>. QED  BY <1>1, <2>2, <2>3, <2>8, <2>10, <3>1, PutShape
    <2>13. \A r : There(grown, r) = IF r = c THEN leaf ELSE There(e, r)
        BY <2>3, PutThere
    <2>14. Unharmed(d, grown, Len(c))
        <3>1. ASSUME NEW r \in Seq(Nat), Len(r) <= Len(c) PROVE There(grown, r).size >= There(d, r).size
            <4>1. There(e, r) = There(d, r) /\ There(d, r).size \in Nat
                BY <2>9, <3>1, SizeIs
            <4>2. CASE r = c
                BY <1>3, <1>5, <2>2, <2>13, <4>2
            <4>3. CASE r # c
                BY <2>13, <4>1, <4>3
            <4>. QED  BY <4>2, <4>3
        <3>. QED  BY <3>1 DEF Unharmed
    <2>15. id < There(grown, c).size
        BY <2>2, <2>13
    <2>. QED  BY <1>1, <1>2, <1>3, <1>5, <2>12, <2>14, <2>15
<1>. QED  BY <1>4, <1>5

\* A collector that is cleared.
LEMMA ClearedShape ==
    ASSUME NEW d, Shaped(d), NEW c \in Seq(Nat), NEW n \in Nat, Len(c) = n + 1
    PROVE  Shaped(Cleared(d, c)) /\ Unharmed(d, Cleared(d, c), n)
<1>1. PICK e : e = Cleared(d, c)
    OBVIOUS
<1>2. DOMAIN e \subseteq DOMAIN d \cup {c}
    BY <1>1, ClearedThere
<1>3. \A r : There(e, r) = IF r = c \/ Under(r, c) THEN Empty ELSE There(d, r)
    BY <1>1, ClearedThere
<1>4. PICK S : S = {r \in Seq(Nat) : r = c \/ Under(r, c)}
    OBVIOUS
<1>5. ClosedDown(S)
    <2>1. ASSUME NEW q \in Seq(Nat), q \in S, NEW r \in Seq(Nat), Under(r, q) PROVE r \in S
        <3>1. q = c \/ Under(q, c)
            BY <1>4, <2>1
        <3>2. Under(r, c)
            BY <2>1, <3>1, UnderUnder
        <3>. QED  BY <1>4, <3>2
    <2>. QED  BY <2>1 DEF ClosedDown
<1>6. ASSUME NEW r PROVE There(e, r) = IF r \in S THEN Empty ELSE There(d, r)
    <2>1. CASE r \in Seq(Nat)
        BY <1>3, <1>4, <2>1
    <2>2. CASE r \notin Seq(Nat)
        <3>1. r \notin DOMAIN d /\ r # c
            BY <2>2 DEF Shaped
        <3>2. There(d, r) = Empty
            BY <3>1 DEF There
        <3>3. r \notin S
            BY <1>4, <2>2
        <3>. QED  BY <1>3, <3>1, <3>2, <3>3
    <2>. QED  BY <2>1, <2>2
<1>7. \A r \in DOMAIN e : r \in Seq(Nat)
    BY <1>2 DEF Shaped
<1>8. Shaped(e)
    BY <1>5, <1>6, <1>7, EmptiedShape
<1>9. ASSUME NEW r \in Seq(Nat), Len(r) <= n PROVE There(e, r).size >= There(d, r).size
    <2>1. ~(Len(r) > Len(c)) /\ r # c
        BY <1>9
    <2>2. There(e, r) = There(d, r) /\ There(d, r).size \in Nat
        BY <1>3, <2>1, SizeIs DEF Under
    <2>. QED  BY <2>2
<1>. QED  BY <1>1, <1>8, <1>9 DEF Unharmed

\* A leaf that is put in its place harms no collector.
LEMMA PutUnharmed ==
    ASSUME NEW d, Shaped(d), NEW m \in Decodings, NEW k \in LiveFields(m), ~Collector(At(m, k)),
           NEW leaf, leaf.size = 0, NEW n \in Nat
    PROVE  Unharmed(d, Put(d, PlaceOf(m, k), leaf), n)
<1>1. PICK q : q = PlaceOf(m, k)
    OBVIOUS
<1>2. There(d, q).size = 0
    <2>1. ShapedAt(d, m, k)
        BY DEF Shaped
    <2>. QED  BY <1>1, <2>1 DEF ShapedAt
<1>3. ASSUME NEW r \in Seq(Nat) PROVE There(Put(d, q, leaf), r).size >= There(d, r).size
    <2>1. There(Put(d, q, leaf), r) = IF r = q THEN leaf ELSE There(d, r)
        BY PutThere
    <2>2. There(d, r).size \in Nat
        BY SizeIs
    <2>. QED  BY <1>2, <2>1, <2>2
<1>. QED  BY <1>1, <1>3 DEF Unharmed

------------------------------------------------------------------------------
(* What shows of two messages. *)

\* What shows of a leaf: its value and its size.
Shows(leaf) == <<SubSeq(leaf.buf, 1, leaf.len), leaf.size>>

\* Two messages are the same at a place where the same shows.
LEMMA SameShows ==
    ASSUME NEW d, NEW e, NEW q
    PROVE  Same(d, e, q) <=> Shows(There(d, q)) = Shows(There(e, q))
BY DEF Same, Shows, Value

\* The first no elements of a sequence are none.
LEMMA NothingOf ==
    ASSUME NEW T, NEW s \in Seq(T)
    PROVE  SubSeq(s, 1, 0) = <<>>
<1>1. SubSeq(s, 1, 0) \in Seq(T) /\ Len(SubSeq(s, 1, 0)) = 0
    OBVIOUS
<1>. QED  BY <1>1

\* Where nothing shows there is nothing.
LEMMA VacantShows ==
    ASSUME NEW marks, NEW leaf \in Leaves(marks), leaf.len = 0, NEW n \in Nat, leaf.size = n
    PROVE  Shows(leaf) = Shows([Empty EXCEPT !.size = n])
<1>1. PICK buf \in Seq(UnitsOf(marks)) : buf = leaf.buf
    BY LeafIs
<1>2. PICK none : none = <<>>
    OBVIOUS
<1>3. none \in Seq(UnitsOf(marks))
    BY <1>2
<1>4. SubSeq(leaf.buf, 1, 0) = <<>> /\ SubSeq(<<>>, 1, 0) = <<>>
    BY <1>1, <1>2, <1>3, NothingOf
<1>5. PICK leaf0 : leaf0 = [Empty EXCEPT !.size = n]
    OBVIOUS
<1>6. leaf0.buf = <<>> /\ leaf0.len = 0 /\ leaf0.size = n
    BY <1>5 DEF Empty
<1>. QED  BY <1>4, <1>5, <1>6 DEF Shows

\* What begins alike goes on alike.
LEMMA BegunAlike ==
    ASSUME NEW d, NEW e, NEW m, NEW k, NEW q, Same(d, e, q),
           Same(d, e, PlaceOf(m, Outer(m, k)))
    PROVE  Same(Begun(d, m, k), Begun(e, m, k), q)
<1>1. CASE ~Element(m, k)
    BY <1>1 DEF Begun
<1>2. CASE Element(m, k)
    <2>1. PICK c : c = PlaceOf(m, Outer(m, k))
        OBVIOUS
    <2>2. There(d, c).size = There(e, c).size
        BY <2>1 DEF Same
    <2>3. PICK leaf : leaf = [Empty EXCEPT !.size = Max({There(d, c).size, At(m, k).id + 1})]
        OBVIOUS
    <2>4. Begun(d, m, k) = Put(d, c, leaf) /\ Begun(e, m, k) = Put(e, c, leaf)
        BY <1>2, <2>1, <2>2, <2>3 DEF Begun
    <2>5. There(Put(d, c, leaf), q) = IF q = c THEN leaf ELSE There(d, q)
        BY PutThere
    <2>6. There(Put(e, c, leaf), q) = IF q = c THEN leaf ELSE There(e, q)
        BY PutThere
    <2>. QED  BY <2>4, <2>5, <2>6, SameShows
<1>. QED  BY <1>1, <1>2

\* Messages that are the same stay so when the same place is cleared.
LEMMA ClearedAlike ==
    ASSUME NEW d, NEW e, NEW c, NEW q, Same(d, e, q)
    PROVE  Same(Cleared(d, c), Cleared(e, c), q)
<1>1. There(Cleared(d, c), q) = IF q = c \/ Under(q, c) THEN Empty ELSE There(d, q)
    BY ClearedThere
<1>2. There(Cleared(e, c), q) = IF q = c \/ Under(q, c) THEN Empty ELSE There(e, q)
    BY ClearedThere
<1>. QED  BY <1>1, <1>2, SameShows

\* A collector that is grown shows what the beginning of its element makes of it.
LEMMA GrownAlike ==
    ASSUME NEW marks, NEW d, Made(d, marks), Shaped(d), NEW m \in Decodings, NEW k \in LiveFields(m),
           Element(m, k), Outer(m, k) \in LiveFields(m), NEW q
    PROVE  Same(Grown(d, PlaceOf(m, Outer(m, k)), At(m, k).id), Begun(d, m, k), q)
<1>. k \in Fields(m)
    BY AroundLive
<1>0. PICK o \in LiveFields(m) : o = Outer(m, k) /\ Collector(At(m, o))
    BY DEF Element
<1>1. PICK c : c = PlaceOf(m, o)
    OBVIOUS
<1>2. PICK id \in Nat : id = At(m, k).id
    BY PlaceIs
<1>3. PICK s \in Nat : s = There(d, c).size
    BY SizeIs
<1>4. PICK most \in Nat : most = Max({s, id + 1}) /\ most = IF s <= id + 1 THEN id + 1 ELSE s
    BY MaxOfTwo
<1>5. PICK leaf : leaf = [Empty EXCEPT !.size = most]
    OBVIOUS
<1>6. Begun(d, m, k) = Put(d, c, leaf)
    BY <1>0, <1>1, <1>2, <1>3, <1>4, <1>5 DEF Begun
<1>7. There(Put(d, c, leaf), q) = IF q = c THEN leaf ELSE There(d, q)
    BY PutThere
<1>8. There(d, c).len = 0
    <2>1. ShapedAt(d, m, o)
        BY DEF Shaped
    <2>. QED  BY <1>0, <1>1, <2>1 DEF ShapedAt
<1>9. CASE id < s
    <2>1. Grown(d, c, id) = d
        BY <1>3, <1>9 DEF Grown
    <2>2. most = s
        BY <1>4, <1>9
    <2>3. Shows(There(d, c)) = Shows(leaf)
        <3>1. There(d, c) \in Leaves(marks)
            BY ThereIs
        <3>. QED  BY <1>3, <1>5, <1>8, <2>2, <3>1, VacantShows
    <2>4. Shows(There(d, q)) = Shows(There(Put(d, c, leaf), q))
        BY <1>7, <2>3
    <2>. QED  BY <1>0, <1>1, <1>2, <1>6, <2>1, <2>4, SameShows
<1>10. CASE ~(id < s)
    <2>1. most = id + 1
        BY <1>4, <1>10
    <2>2. PICK e : /\ \A r : There(e, r) =
                        IF Under(r, c) /\ r[Len(c) + 1] \in There(d, c).size..id THEN Empty
                        ELSE There(d, r)
                   /\ Grown(d, c, id) = Put(e, c, leaf)
        <3>1. [Empty EXCEPT !.size = id + 1] = leaf
            BY <1>5, <2>1
        <3>2. ~(id < There(d, c).size)
            BY <1>3, <1>10
        <3>3. PICK e : /\ DOMAIN e = DOMAIN d
                       /\ \A r : There(e, r) =
                            IF Under(r, c) /\ r[Len(c) + 1] \in There(d, c).size..id THEN Empty
                            ELSE There(d, r)
                       /\ Grown(d, c, id) = Put(e, c, [Empty EXCEPT !.size = id + 1])
            BY <3>2, GrownIsPut
        <3>. QED  BY <3>1, <3>3
    <2>3. There(Put(e, c, leaf), q) = IF q = c THEN leaf ELSE There(e, q)
        BY PutThere
    <2>4. CASE q = c
        BY <1>0, <1>1, <1>2, <1>6, <1>7, <2>2, <2>3, <2>4, SameShows
    <2>5. CASE q # c /\ ~(Under(q, c) /\ q[Len(c) + 1] \in s..id)
        <3>1. There(e, q) = There(d, q)
            BY <1>3, <2>2, <2>5
        <3>. QED  BY <1>0, <1>1, <1>2, <1>6, <1>7, <2>2, <2>3, <2>5, <3>1, SameShows
    <2>6. CASE q # c /\ Under(q, c) /\ q[Len(c) + 1] \in s..id
        <3>1. There(e, q) = Empty
            BY <1>3, <2>2, <2>6
        <3>2. Beyond(d, q, c)
            <4>1. \A x \in s..id : x \notin 0..(s - 1)
                OBVIOUS
            <4>. QED  BY <1>3, <2>6, <4>1 DEF Beyond
        <3>3. Vacant(There(d, q))
            BY <1>0, <1>1, <3>2, BeyondIsVacant
        <3>4. Shows(There(d, q)) = Shows(Empty)
            <4>1. There(d, q) \in Leaves(marks)
                BY ThereIs
            <4>2. PICK z \in Nat : z = 0
                OBVIOUS
            <4>3. There(d, q).len = 0 /\ There(d, q).size = z
                BY <3>3, <4>2 DEF Vacant
            <4>4. Shows(There(d, q)) = Shows([Empty EXCEPT !.size = z])
                BY <4>1, <4>3, VacantShows
            <4>5. [Empty EXCEPT !.size = z] = Empty
                BY <4>2 DEF Empty
            <4>. QED  BY <4>4, <4>5
        <3>. QED  BY <1>0, <1>1, <1>2, <1>6, <1>7, <2>2, <2>3, <2>6, <3>1, <3>4, SameShows
    <2>. QED  BY <2>4, <2>5, <2>6
<1>. QED  BY <1>9, <1>10

\* Conversely, the innermost call is for the collector that the element is in.
LEMMA ElementIs ==
    ASSUME IInv, NEW k, Inside(k), Element(msg, k)
    PROVE  IsElement
<1>. Laid(msg) /\ Len(msg.fields) \in Nat /\ Len(stack) \in Nat
    BY MessageFacts
<1>1. k \in 1..(Len(msg.fields) + 1)
    BY DEF Inside, LiveFields, Laid, Fields
<1>2. PICK open \in Seq(Nat) : open = msg.opens[k] /\ Around(k) = open /\ open # <<>>
    BY <1>1 DEF Inside, Laid, Element, Nested
<1>3. PICK n \in Nat : n = Len(stack)
    OBVIOUS
<1>4. PICK around : around = [i \in 1..n |-> stack[i].k]
    OBVIOUS
<1>5. around = open
    BY <1>2, <1>3, <1>4 DEF Around, seqDepth
<1>6. Len(around) = n
    BY <1>4
<1>7. Len(open) = n /\ Len(open) # 0
    BY <1>2, <1>5, <1>6
<1>8. open[n] = stack[n].k
    <2>1. n \in 1..n
        BY <1>3, <1>7
    <2>. QED  BY <1>4, <1>5, <2>1
<1>9. stack # <<>>
    <2>1. Len(<<>>) = 0
        OBVIOUS
    <2>. QED  BY <1>3, <1>7, <2>1
<1>. QED  BY <1>2, <1>3, <1>7, <1>8, <1>9 DEF IsElement, Element, Outer, seqDepth

------------------------------------------------------------------------------
(* What the fields so far make of the message. *)

\* The destinations behind the first fields, up to the n-th.
Unfolds(g, n) ==
    g = [k \in 0..n |-> IF k = 0 THEN earlier ELSE Applied(g[k - 1], msg, k)]

\* Unfolded, each destination is made from the one before it.
LEMMA UnfoldsIs ==
    ASSUME NEW n \in Nat, NEW g, Unfolds(g, n)
    PROVE  g[0] = earlier /\ \A k \in 1..n : g[k] = Applied(g[k - 1], msg, k)
<1>1. 0 \in 0..n
    OBVIOUS
<1>2. g[0] = earlier
    BY <1>1 DEF Unfolds
<1>3. ASSUME NEW k \in 1..n PROVE g[k] = Applied(g[k - 1], msg, k)
    <2>1. k \in 0..n /\ k # 0
        OBVIOUS
    <2>. QED  BY <2>1 DEF Unfolds
<1>. QED  BY <1>2, <1>3

\* There is an unfolding of any length.
LEMMA Unfolding ==
    ASSUME NEW n \in Nat
    PROVE  \E g : Unfolds(g, n)
<1>1. PICK S : S = {i \in Nat : \E g : Unfolds(g, i)}
    OBVIOUS
<1>2. 0 \in S
    <2>1. PICK g : g = [k \in 0..0 |-> earlier]
        OBVIOUS
    <2>2. \A k \in 0..0 : k = 0
        OBVIOUS
    <2>3. g = [k \in 0..0 |-> IF k = 0 THEN earlier ELSE Applied(g[k - 1], msg, k)]
        BY <2>1, <2>2
    <2>. QED  BY <1>1, <2>3 DEF Unfolds
<1>3. ASSUME NEW i \in Nat, i \in S PROVE i + 1 \in S
    <2>1. PICK g : Unfolds(g, i)
        BY <1>1, <1>3
    <2>2. PICK last : last = Applied(g[i], msg, i + 1)
        OBVIOUS
    <2>3. PICK h : h = [k \in 0..(i + 1) |-> IF k = i + 1 THEN last ELSE g[k]]
        OBVIOUS
    <2>4. \A k \in 0..i : k \in 0..(i + 1) /\ k # i + 1
        OBVIOUS
    <2>5. \A k \in 0..i : h[k] = g[k]
        BY <2>3, <2>4
    <2>6. ASSUME NEW k \in 0..(i + 1)
          PROVE  h[k] = IF k = 0 THEN earlier ELSE Applied(h[k - 1], msg, k)
        <3>1. CASE k = 0
            <4>1. 0 \in 0..i
                OBVIOUS
            <4>. QED  BY <2>1, <2>5, <3>1, <4>1, UnfoldsIs
        <3>2. CASE k = i + 1
            <4>1. i \in 0..i /\ i = k - 1 /\ k # 0
                BY <3>2
            <4>2. h[k] = last
                BY <2>3, <3>2
            <4>3. h[k - 1] = g[i]
                BY <2>5, <4>1
            <4>. QED  BY <2>2, <3>2, <4>1, <4>2, <4>3
        <3>3. CASE k # 0 /\ k # i + 1
            <4>1. k \in 1..i /\ k \in 0..i /\ k - 1 \in 0..i
                BY <3>3
            <4>2. g[k] = Applied(g[k - 1], msg, k)
                BY <2>1, <4>1, UnfoldsIs
            <4>3. h[k] = g[k] /\ h[k - 1] = g[k - 1]
                BY <2>5, <4>1
            <4>. QED  BY <3>3, <4>2, <4>3
        <3>. QED  BY <3>1, <3>2, <3>3
    <2>7. h = [k \in 0..(i + 1) |-> IF k = 0 THEN earlier ELSE Applied(h[k - 1], msg, k)]
        BY <2>3, <2>6
    <2>8. Unfolds(h, i + 1)
        BY <2>7 DEF Unfolds
    <2>. QED  BY <1>1, <2>8
<1>4. Nat \subseteq S
    BY <1>2, <1>3, SetInduction
<1>. QED  BY <1>1, <1>4

\* A longer one begins as a shorter one does.
LEMMA UnfoldAlike ==
    ASSUME NEW n \in Nat, NEW g, Unfolds(g, n), NEW m \in Nat, n <= m, NEW h, Unfolds(h, m)
    PROVE  g[n] = h[n]
<1>1. PICK S : S = {i \in 0..n : g[i] = h[i]}
    OBVIOUS
<1>2. 0 \in S
    <2>1. g[0] = earlier /\ h[0] = earlier
        BY UnfoldsIs
    <2>. QED  BY <1>1, <2>1
<1>3. ASSUME NEW i \in 1..n, i - 1 \in S PROVE i \in S
    <2>1. i \in 1..m
        OBVIOUS
    <2>2. g[i] = Applied(g[i - 1], msg, i)
        BY UnfoldsIs
    <2>3. h[i] = Applied(h[i - 1], msg, i)
        BY <2>1, UnfoldsIs
    <2>. QED  BY <1>1, <1>3, <2>2, <2>3
<1>4. 0..n \subseteq S
    BY <1>2, <1>3, IntervalInduction
<1>. QED  BY <1>1, <1>4

\* The recursive function is such an unfolding.
LEMMA MeaningUnfolds ==
    ASSUME NEW n \in Nat
    PROVE  \E g : Unfolds(g, n) /\ Meaning(n) = g[n]
<1>1. PICK h : Unfolds(h, n)
    BY Unfolding
<1>2. PICK g : g = CHOOSE after :
            after = [k \in 0..n |-> IF k = 0 THEN earlier ELSE Applied(after[k - 1], msg, k)]
    OBVIOUS
<1>3. Meaning(n) = g[n]
    BY <1>2 DEF Meaning, Steps
<1>4. Unfolds(g, n)
    BY <1>1, <1>2 DEF Unfolds
<1>. QED  BY <1>3, <1>4

\* No field leaves what was there before, and each one is applied to what those before it made.
MeaningGoesOn ==
    /\ Meaning(0) = earlier
    /\ \A n \in Nat : Meaning(n + 1) = Applied(Meaning(n), msg, n + 1)

\* So the meaning goes on field by field.
LEMMA MeaningIs == MeaningGoesOn
<1>1. Meaning(0) = earlier
    <2>1. PICK z \in Nat : z = 0
        OBVIOUS
    <2>2. PICK g : Unfolds(g, z) /\ Meaning(z) = g[z]
        BY MeaningUnfolds
    <2>. QED  BY <2>1, <2>2, UnfoldsIs
<1>2. ASSUME NEW n \in Nat PROVE Meaning(n + 1) = Applied(Meaning(n), msg, n + 1)
    <2>1. PICK g : Unfolds(g, n) /\ Meaning(n) = g[n]
        BY MeaningUnfolds
    <2>2. PICK m \in Nat : m = n + 1 /\ n <= m /\ m \in 1..m /\ m - 1 = n
        OBVIOUS
    <2>3. PICK h : Unfolds(h, m) /\ Meaning(m) = h[m]
        BY MeaningUnfolds
    <2>4. h[m] = Applied(h[m - 1], msg, m)
        BY <2>2, <2>3, UnfoldsIs
    <2>5. g[n] = h[n]
        BY <2>1, <2>2, <2>3, UnfoldAlike
    <2>. QED  BY <2>1, <2>2, <2>3, <2>4, <2>5
<1>. QED  BY <1>1, <1>2 DEF MeaningGoesOn

\* The same behind a step.
LEMMA MeaningIsBehind == MeaningGoesOn'
BY MeaningIs, PTL

\* What a field carries depends on the message and its number only.
LEMMA UnitsStay ==
    ASSUME number' = number, NEW m, NEW k
    PROVE  Units(m, k)' = Units(m, k)
BY DEF Units

\* As long as the message goes on, so does what its fields make.
LEMMA MeaningStays ==
    ASSUME UNCHANGED <<msg, number, earlier>>, NEW n \in Nat
    PROVE  Meaning(n)' = Meaning(n)
<1>1. PICK S : S = {i \in Nat : Meaning(i)' = Meaning(i)}
    OBVIOUS
<1>2. Meaning(0)' = earlier' /\ Meaning(0) = earlier
    BY MeaningIs, MeaningIsBehind DEF MeaningGoesOn
<1>3. ASSUME NEW i \in Nat, i \in S PROVE i + 1 \in S
    <2>1. Meaning(i)' = Meaning(i)
        BY <1>1, <1>3
    <2>2. Meaning(i + 1) = Applied(Meaning(i), msg, i + 1)
        BY MeaningIs DEF MeaningGoesOn
    <2>3. Meaning(i + 1)' = Applied(Meaning(i), msg, i + 1)'
        BY MeaningIsBehind DEF MeaningGoesOn
    <2>4. Units(msg, i + 1)' = Units(msg, i + 1)
        BY DEF Units
    <2>5. Applied(Meaning(i), msg, i + 1)' = Applied(Meaning(i), msg, i + 1)
        BY <2>1, <2>4 DEF Applied, Begun
    <2>. QED  BY <1>1, <2>2, <2>3, <2>5
<1>4. Nat \subseteq S
    BY <1>1, <1>2, <1>3, SetInduction
<1>. QED  BY <1>1, <1>4

------------------------------------------------------------------------------
(* What a read makes of a leaf. *)

\* The first n units of a value, of which those up to the last-th are kept.
Has(buf, n, last, value) == \A i \in 1..n : i <= last => i <= Len(buf) /\ buf[i] = value[i]

\* A buffer that is made longer has what it had.
LEMMA ResizedHas ==
    ASSUME NEW marks, 0 \in marks, NEW buf \in Seq(UnitsOf(marks)), NEW m \in Nat,
           NEW n \in Nat, NEW last \in Nat, NEW value, Has(buf, n, last, value),
           \A i \in 1..n : i <= last => i <= m
    PROVE  Has(Resized(buf, m), n, last, value)
<1>1. PICK new \in Seq(UnitsOf(marks)) : new = Resized(buf, m) /\ Len(new) = m
    BY ResizedIs
<1>2. ASSUME NEW i \in 1..n, i <= last PROVE i <= Len(new) /\ new[i] = value[i]
    <2>1. i <= m /\ i \in 1..m /\ i <= Len(buf) /\ buf[i] = value[i]
        BY <1>2 DEF Has
    <2>2. new[i] = buf[i]
        BY <1>1, <2>1 DEF Resized
    <2>. QED  BY <1>1, <2>1, <2>2
<1>. QED  BY <1>1, <1>2 DEF Has

\* The units that arrive, behind those that did before.
LEMMA OverlaidHas ==
    ASSUME NEW marks, 0 \in marks, NEW buf \in Seq(UnitsOf(marks)), NEW done \in Nat,
           NEW units \in Seq(UnitsOf(marks)), NEW last \in Nat, NEW value,
           Has(buf, done, last, value),
           \A i \in 1..Len(units) : done + i <= last => units[i] = value[done + i]
    PROVE  Has(Overlaid(buf, done, units), done + Len(units), last, value)
<1>1. PICK new \in Seq(UnitsOf(marks)) :
        /\ new = Overlaid(buf, done, units)
        /\ Len(new) >= Len(buf) /\ Len(new) >= done + Len(units)
    BY OverlaidIs
<1>2. PICK l \in Nat, m \in Nat : l = Len(buf) /\ m = Len(units)
    OBVIOUS
<1>3. PICK n \in Nat : n = Max({l, done + m}) /\ n >= l /\ n >= done + m
    <2>1. PICK s \in Nat : s = done + m /\ s \in Int /\ l \in Int
        OBVIOUS
    <2>2. Max({l, s}) = IF l <= s THEN s ELSE l
        BY <2>1, MaxOfTwo
    <2>. QED  BY <2>1, <2>2
<1>4. new = [i \in 1..n |-> IF i \in (done + 1)..(done + m) THEN units[i - done]
                            ELSE IF i <= l THEN buf[i] ELSE Blank]
    <2>1. new = Overlaid(buf, done, units)
        BY <1>1
    <2>. QED  BY <1>2, <1>3, <2>1 DEF Overlaid
<1>5. ASSUME NEW i \in 1..(done + m), i <= last PROVE i <= Len(new) /\ new[i] = value[i]
    <2>1. i \in 1..n /\ i <= Len(new)
        BY <1>1, <1>2, <1>3
    <2>2. CASE i <= done
        <3>1. i \in 1..done /\ i \notin (done + 1)..(done + m)
            BY <2>2
        <3>2. i <= l /\ buf[i] = value[i]
            BY <1>2, <1>5, <3>1 DEF Has
        <3>. QED  BY <1>4, <2>1, <3>1, <3>2
    <2>3. CASE ~(i <= done)
        <3>1. PICK j \in 1..m : j = i - done /\ done + j = i
            BY <2>3
        <3>2. i \in (done + 1)..(done + m)
            BY <2>3
        <3>3. units[j] = value[i]
            BY <1>2, <1>5, <3>1
        <3>. QED  BY <1>4, <2>1, <3>1, <3>2, <3>3
    <2>. QED  BY <2>2, <2>3
<1>. QED  BY <1>1, <1>2, <1>5 DEF Has

\* Making ready keeps what arrived before.
LEMMA ReadiedHas ==
    ASSUME NEW marks, 0 \in marks, NEW leaf \in Leaves(marks), NEW f, NEW storage,
           Readable(f, storage), pendDone \in Nat, NEW n \in Nat,
           NEW last \in Nat, NEW value, Has(leaf.buf, pendDone, last, value)
    PROVE  Has(Readied(leaf, f, storage, n).buf, pendDone, last, value)
<1>1. PICK buf \in Seq(UnitsOf(marks)) : buf = leaf.buf
    BY LeafIs
<1>2. PICK new : new = Readied(leaf, f, storage, n)
    OBVIOUS
<1>3. CASE storage = "resizable"
    <2>1. PICK r \in Nat, l \in Nat : r = Reach(f, n) /\ l = Len(buf)
        BY ReachIs
    <2>2. PICK m \in Nat : m = Max({l, r}) /\ l <= m
        BY MaxOfTwo
    <2>3. new.buf = Resized(buf, m)
        <3>1. leaf = [buf |-> leaf.buf, len |-> leaf.len, size |-> leaf.size]
            BY LeafIs
        <3>. QED  BY <1>1, <1>2, <1>3, <2>1, <2>2, <3>1 DEF Readied
    <2>4. \A i \in 1..pendDone : i <= last => i <= m
        <3>1. \A i \in 1..pendDone : i <= last => i <= Len(buf)
            BY <1>1 DEF Has
        <3>. QED  BY <2>1, <2>2, <3>1
    <2>. QED  BY <1>1, <1>2, <2>3, <2>4, ResizedHas
<1>4. CASE pendDone = 0
    <2>1. 1..pendDone = {}
        BY <1>4
    <2>. QED  BY <2>1 DEF Has
<1>5. CASE storage # "resizable" /\ pendDone # 0
    <2>1. new = leaf
        BY <1>2, <1>5 DEF Readied
    <2>. QED  BY <1>2, <2>1
<1>. QED  BY <1>3, <1>4, <1>5

\* A container that grows is as long as the units that can be there.
LEMMA ReadiedReaches ==
    ASSUME NEW marks, 0 \in marks, NEW leaf \in Leaves(marks), NEW f, Readable(f, "resizable"),
           pendDone \in Nat, NEW n \in Nat
    PROVE  Reach(f, n) <= Len(Readied(leaf, f, "resizable", n).buf)
<1>1. PICK buf \in Seq(UnitsOf(marks)) : buf = leaf.buf
    BY LeafIs
<1>2. PICK r \in Nat, l \in Nat : r = Reach(f, n) /\ l = Len(buf)
    BY ReachIs
<1>3. PICK m \in Nat : m = Max({l, r}) /\ r <= m
    BY MaxOfTwo
<1>4. Readied(leaf, f, "resizable", n).buf = Resized(buf, m)
    <2>1. leaf = [buf |-> leaf.buf, len |-> leaf.len, size |-> leaf.size]
        BY LeafIs
    <2>. QED  BY <1>1, <1>2, <1>3, <2>1 DEF Readied
<1>. QED  BY <1>2, <1>3, <1>4, ResizedIs

\* Filling adds the units that arrived.
LEMMA FilledHas ==
    ASSUME NEW marks, 0 \in marks, NEW leaf \in Leaves(marks), NEW storage,
           storage \in {"scalar", "resizable", "capacity", "extent", "clipped"},
           pendDone \in Nat, NEW units \in Seq(UnitsOf(marks)), NEW last \in Nat, NEW value,
           storage = "resizable" => pendDone + Len(units) <= Len(leaf.buf),
           storage = "clipped" => last <= Clip,
           Has(leaf.buf, pendDone, last, value),
           \A i \in 1..Len(units) : pendDone + i <= last => units[i] = value[pendDone + i]
    PROVE  Has(Filled(leaf, storage, units).buf, pendDone + Len(units), last, value)
<1>1. /\ leaf.buf \in Seq(UnitsOf(marks)) /\ Len(leaf.buf) \in Nat
      /\ leaf = [buf |-> leaf.buf, len |-> leaf.len, size |-> leaf.size]
    BY LeafIs
<1>2. PICK buf \in Seq(UnitsOf(marks)) :
        /\ buf = Overlaid(leaf.buf, pendDone, units)
        /\ Len(buf) \in Nat /\ Len(buf) >= Len(leaf.buf) /\ Len(buf) >= pendDone + Len(units)
    BY <1>1, OverlaidIs
<1>3. PICK n \in Nat : n = pendDone + Len(units) /\ n <= Len(buf)
    BY <1>2
<1>4. Has(buf, n, last, value)
    BY <1>1, <1>2, <1>3, OverlaidHas
<1>5. ASSUME NEW m \in 0..Len(buf), \A i \in 1..n : i <= last => i <= m
      PROVE  Has(SubSeq(buf, 1, m), n, last, value)
    <2>1. PICK cut \in Seq(UnitsOf(marks)) :
            cut = SubSeq(buf, 1, m) /\ Len(cut) = m /\ \A i \in 1..m : cut[i] = buf[i]
        <3>1. m \in 0..Len(buf) /\ buf \in Seq(UnitsOf(marks))
            OBVIOUS
        <3>2. SubSeq(buf, 1, m) \in Seq(UnitsOf(marks)) /\ Len(SubSeq(buf, 1, m)) = m
            BY <3>1, CutIs
        <3>3. \A i \in 1..m : SubSeq(buf, 1, m)[i] = buf[i]
            BY <3>1, CutIs
        <3>. QED  BY <3>2, <3>3
    <2>2. ASSUME NEW i \in 1..n, i <= last PROVE i <= Len(cut) /\ cut[i] = value[i]
        <3>1. i <= m /\ i \in 1..m
            BY <1>5, <2>2
        <3>2. buf[i] = value[i]
            BY <1>4, <2>2 DEF Has
        <3>. QED  BY <2>1, <3>1, <3>2
    <2>. QED  BY <2>1, <2>2 DEF Has
<1>6. PICK new : new = Filled(leaf, storage, units)
    OBVIOUS
<1>7. CASE storage = "resizable"
    <2>1. PICK m \in 0..Len(buf) : m = Len(leaf.buf)
        BY <1>1, <1>2
    <2>2. \A i \in 1..n : i <= last => i <= m
        BY <1>3, <1>7, <2>1
    <2>3. new.buf = SubSeq(buf, 1, m)
        BY <1>1, <1>2, <1>6, <1>7, <2>1 DEF Filled
    <2>. QED  BY <1>3, <1>5, <1>6, <2>2, <2>3
<1>8. CASE storage = "clipped"
    <2>1. Clip \in Nat
        BY StorageAssumption
    <2>2. Min({Clip, Len(buf)}) = (IF Clip <= Len(buf) THEN Clip ELSE Len(buf))
        BY <1>2, <2>1, MinOfTwo
    <2>3. PICK m \in 0..Len(buf) : m = Min({Clip, Len(buf)}) /\ m = (IF Clip <= Len(buf) THEN Clip ELSE Len(buf))
        BY <1>2, <2>1, <2>2
    <2>4. \A i \in 1..n : i <= last => i <= m
        BY <1>3, <1>8, <2>1, <2>3
    <2>5. new.buf = SubSeq(buf, 1, m)
        BY <1>1, <1>2, <1>6, <1>8, <2>3 DEF Filled
    <2>. QED  BY <1>3, <1>5, <1>6, <2>4, <2>5
<1>9. CASE storage \in {"scalar", "capacity", "extent"}
    <2>1. new.buf = buf
        BY <1>1, <1>2, <1>6, <1>9 DEF Filled
    <2>. QED  BY <1>3, <1>4, <1>6, <2>1
<1>. QED  BY <1>7, <1>8, <1>9

\* What holds of a leaf that n units of field k have arrived in.
Holds(leaf, k, n) ==
    /\ Has(leaf.buf, n, Kept(msg, k), Units(msg, k))
    /\ StorageOf(k) \in {"scalar", "extent"} /\ n > 0 => Len(leaf.buf) = n /\ leaf.len = n

\* The units that are stored are those of the payload that are next.
LEMMA UnitsStoredHere ==
    ASSUME IInv, Located, pc = "deliver", Takes, ~(Faulty /\ Over)
    PROVE  UnitsStored = [i \in 1..Taken |-> [of |-> number, byte |-> Pos + (i - 1) * Grain + 1]]
<1>1. PICK t \in Nat : t = Taken
    BY TakenFits
<1>2. PICK g \in Nat \ {0} : g = Grain
    <2>1. cur.k \in 1..Len(msg.fields)
        BY DEF IInv, CallsNest
    <2>. QED  BY <2>1, AtFacts DEF Grain, Current
<1>3. PICK l \in Nat : l = t * g /\ l <= Avail /\ l \div g = t
    BY <1>1, <1>2, TakenFits, UnitsOfGrain
<1>4. Stored = UnitsHere(t)
    BY <1>1, <1>2, StoredIs
<1>5. Stored = Piece(msg, cur.k, Pos, l)
    BY <1>2, <1>3, <1>4, PieceIs DEF UnitsHere
<1>6. PICK q \in Nat : q = Pos
    BY PosFacts
<1>7. PICK opens : opens = msg.opens[cur.k]
    OBVIOUS
<1>8. PICK stored : stored = [j \in 1..l |-> <<opens, q + j>>] /\ stored = Stored
    BY <1>5, <1>6, <1>7 DEF Piece
<1>9. Len(stored) = l
    BY <1>8
<1>10. UnitsStored = [i \in 1..t |-> [of |-> number, byte |-> stored[(i - 1) * g + 1][2]]]
    BY <1>2, <1>3, <1>8, <1>9 DEF UnitsStored
<1>11. ASSUME NEW i \in 1..t PROVE stored[(i - 1) * g + 1][2] = q + (i - 1) * g + 1
    <2>0. i \in 1..(l \div g)
        BY <1>3
    <2>1. PICK x \in Nat : x = (i - 1) * g
        OBVIOUS
    <2>2. x + 1 \in 1..l
        BY <2>0, <2>1, UnitBegins
    <2>3. stored[x + 1] = <<opens, q + (x + 1)>>
        BY <1>8, <2>2
    <2>. QED  BY <2>1, <2>3
<1>12. [i \in 1..t |-> [of |-> number, byte |-> stored[(i - 1) * g + 1][2]]]
            = [i \in 1..t |-> [of |-> number, byte |-> q + (i - 1) * g + 1]]
    BY <1>11
<1>. QED  BY <1>1, <1>2, <1>6, <1>10, <1>12

\* How many units of a field there are, and how many of them are kept.
LEMMA KeptIs ==
    ASSUME NEW k, Readable(At(msg, k), StorageOf(k))
    PROVE  /\ Kept(msg, k) \in Nat /\ Kept(msg, k) <= At(msg, k).units
           /\ StorageOf(k) # "clipped" => Kept(msg, k) = At(msg, k).units
           /\ StorageOf(k) = "clipped" =>
                Kept(msg, k) <= Clip /\ Kept(msg, k) = Min({Clip, At(msg, k).units})
<1>1. Clip \in Nat /\ At(msg, k).units \in Nat
    BY StorageAssumption DEF Readable
<1>2. Min({Clip, At(msg, k).units}) = (IF Clip <= At(msg, k).units THEN Clip ELSE At(msg, k).units)
    BY <1>1, MinOfTwo
<1>. QED  BY <1>1, <1>2 DEF Kept, StorageOf

\* What a handler stores is the next units of the field, as far as they are kept.
LEMMA UnitsArrive ==
    ASSUME IInv, Located, pc = "deliver", Takes, ~(Faulty /\ Over)
    PROVE  /\ Len(UnitsStored) = Taken
           /\ \A i \in 1..Taken : pendDone + i <= Kept(msg, cur.k) =>
                UnitsStored[i] = Units(msg, cur.k)[pendDone + i]
<1>1. PICK t \in Nat, done \in Nat : t = Taken /\ done = pendDone
    BY TakenFits DEF IInv, HalfDelivered
<1>2. PICK k \in 1..Len(msg.fields) : k = cur.k
    BY DEF IInv, CallsNest
<1>3. PICK g \in Nat \ {0} : g = Grain /\ g = At(msg, k).width
    BY <1>2, AtFacts DEF Grain, Current
<1>4. PICK s \in Nat, h \in Nat : s = msg.start[k] /\ h = Header(At(msg, k))
    <2>1. msg.start[k] \in Nat
        BY <1>2, SiteFacts DEF Site
    <2>. QED  BY <1>2, <2>1, AtFacts
<1>5. Pos = s + h + done * g
    <2>1. Pos = Behind(k, done) /\ Grain = GrainIf(k \in msg.live, At(msg, k))
        BY <1>1, <1>2, DeliverFacts DEF Current
    <2>. QED  BY <1>3, <1>4, <2>1 DEF Behind
<1>6. PICK stored : stored = UnitsStored
    OBVIOUS
<1>7. stored = [i \in 1..t |-> [of |-> number, byte |-> (s + h + done * g) + (i - 1) * g + 1]]
    BY <1>1, <1>3, <1>5, <1>6, UnitsStoredHere
<1>8. Len(stored) = t
    BY <1>7
<1>9. PICK last \in Nat : last = Kept(msg, k)
    BY <1>2, ReadableIs, KeptIs
<1>10. PICK units : units = Units(msg, k)
    OBVIOUS
<1>11. units = [i \in 1..last |-> [of |-> number, byte |-> s + h + (i - 1) * g + 1]]
    BY <1>3, <1>4, <1>9, <1>10 DEF Units
<1>12. ASSUME NEW i \in 1..t, done + i <= last PROVE stored[i] = units[done + i]
    <2>1. PICK j \in 1..last : j = done + i
        BY <1>12
    <2>2. units[j] = [of |-> number, byte |-> s + h + (j - 1) * g + 1]
        BY <1>11
    <2>3. stored[i] = [of |-> number, byte |-> (s + h + done * g) + (i - 1) * g + 1]
        BY <1>7
    <2>4. (j - 1) * g = done * g + (i - 1) * g
        <3>1. PICK x \in Nat : x = i - 1
            OBVIOUS
        <3>2. (done + x) * g = done * g + x * g
            OBVIOUS
        <3>3. j - 1 = done + x
            BY <2>1, <3>1
        <3>. QED  BY <3>1, <3>2, <3>3
    <2>5. PICK x \in Nat, y \in Nat : x = done * g /\ y = (i - 1) * g
        OBVIOUS
    <2>6. s + h + (j - 1) * g + 1 = (s + h + done * g) + (i - 1) * g + 1
        BY <2>4, <2>5
    <2>. QED  BY <2>1, <2>2, <2>3, <2>6
<1>. QED  BY <1>1, <1>2, <1>6, <1>8, <1>9, <1>10, <1>12

\* All that is kept of a value.
LEMMA HasAll ==
    ASSUME NEW T, NEW buf \in Seq(T), NEW n \in Nat, NEW last \in Nat, last <= n,
           NEW value \in Seq(T), Len(value) = last, Has(buf, n, last, value)
    PROVE  SubSeq(buf, 1, last) = value
<1>1. ASSUME NEW i \in 1..last PROVE i <= Len(buf) /\ buf[i] = value[i]
    <2>1. i \in 1..n /\ i <= last
        OBVIOUS
    <2>. QED  BY <2>1 DEF Has
<1>2. last <= Len(buf)
    <2>1. CASE last = 0
        BY <2>1
    <2>2. CASE last # 0
        <3>1. last \in 1..last
            BY <2>2
        <3>. QED  BY <1>1, <3>1
    <2>. QED  BY <2>1, <2>2
<1>3. last \in 0..Len(buf)
    BY <1>2
<1>4. PICK cut \in Seq(T) :
        cut = SubSeq(buf, 1, last) /\ Len(cut) = last /\ \A i \in 1..last : cut[i] = buf[i]
    <2>1. SubSeq(buf, 1, last) \in Seq(T) /\ Len(SubSeq(buf, 1, last)) = last
        BY <1>3, CutIs
    <2>2. \A i \in 1..last : SubSeq(buf, 1, last)[i] = buf[i]
        BY <1>3, CutIs
    <2>. QED  BY <2>1, <2>2
<1>5. \A i \in 1..last : cut[i] = value[i]
    BY <1>1, <1>4
<1>6. cut = value
    <2>1. cut = [i \in 1..last |-> cut[i]] /\ value = [i \in 1..last |-> value[i]]
        BY <1>4
    <2>. QED  BY <1>5, <2>1
<1>. QED  BY <1>4, <1>6

\* A field carries as many units as are kept of it.
LEMMA UnitsAre ==
    ASSUME IInv, NEW k \in 1..Len(msg.fields), NEW marks, number \in marks
    PROVE  Units(msg, k) \in Seq(UnitsOf(marks)) /\ Len(Units(msg, k)) = Kept(msg, k)
<1>1. PICK last \in Nat : last = Kept(msg, k)
    BY ReadableIs, KeptIs
<1>2. PICK s \in Nat, h \in Nat, g \in Nat : s = msg.start[k] /\ h = Header(At(msg, k)) /\ g = At(msg, k).width
    <2>1. msg.start[k] \in Nat
        <3>1. k \in 1..(Len(msg.fields) + 1)
            BY MessageFacts
        <3>. QED  BY <3>1, MessageFacts DEF Laid
    <2>. QED  BY <2>1, AtFacts
<1>3. PICK units : units = [i \in 1..last |-> [of |-> number, byte |-> s + h + (i - 1) * g + 1]]
    OBVIOUS
<1>4. units = Units(msg, k)
    BY <1>1, <1>2, <1>3 DEF Units
<1>5. ASSUME NEW i \in 1..last PROVE [of |-> number, byte |-> s + h + (i - 1) * g + 1] \in UnitsOf(marks)
    <2>1. (i - 1) * g \in Nat
        <3>1. PICK x \in Nat : x = i - 1
            OBVIOUS
        <3>. QED  BY <3>1
    <2>. QED  BY <2>1 DEF UnitsOf
<1>6. units \in Seq(UnitsOf(marks)) /\ Len(units) = last
    <2>1. units \in [1..last -> UnitsOf(marks)]
        BY <1>3, <1>5
    <2>. QED  BY <2>1
<1>. QED  BY <1>1, <1>4, <1>6

\* A field that is kept as a scalar is one unit.
LEMMA ScalarIsOne ==
    ASSUME IInv, NEW k \in 1..Len(msg.fields), At(msg, k).type \notin {"start", "end"},
           StorageOf(k) = "scalar"
    PROVE  At(msg, k).units = 1
<1>1. msg.fields[k] \in DOMAIN Alphabet
    BY MessageFacts DEF Laid
<1>2. At(msg, k) \in Field /\ At(msg, k) = Alphabet[msg.fields[k]]
    BY <1>1, AtFacts DEF At, Known
<1>. QED  BY <1>1, <1>2, StorageAssumption DEF StorageOf, Field, Sized, Fixlen

\* Only a collector has a size.
LEMMA ReadSize ==
    ASSUME IInv, pc = "deliver", NEW marks, 0 \in marks, number \in marks,
           NEW leaf \in Leaves(marks), StorageOf(cur.k) = "clipped" => leaf.len <= Clip,
           leaf.size = 0
    PROVE  Read(leaf, Current, StorageOf(cur.k)).size = 0
<1>1. PICK k \in 1..Len(msg.fields) : k = cur.k
    BY DEF IInv, CallsNest
<1>2. PICK f, storage : f = Current /\ storage = StorageOf(k)
    OBVIOUS
<1>3. Readable(f, storage) /\ pendDone \in Nat /\ Avail \in Nat
    BY <1>1, <1>2, ReadableIs, MessageFacts DEF Current, IInv, HalfDelivered
<1>4. PICK units \in Seq(UnitsOf(marks)) : units = UnitsStored
    BY UnitsStoredAre
<1>5. PICK ready : ready = Readied(leaf, f, storage, Avail)
    OBVIOUS
<1>6. ready \in Leaves(marks) /\ ready.size = 0 /\ (storage = "clipped" => ready = leaf)
    BY <1>3, <1>5, ReadiedIs
<1>7. PICK filled : filled = Filled(ready, storage, units)
    OBVIOUS
<1>8. filled \in Leaves(marks) /\ filled.size = 0
    BY <1>1, <1>2, <1>3, <1>6, <1>7, FilledIs DEF Readable
<1>9. leaf = [buf |-> leaf.buf, len |-> leaf.len, size |-> 0]
    BY LeafIs
<1>10. filled = [buf |-> filled.buf, len |-> filled.len, size |-> 0]
    BY <1>8, LeafIs
<1>11. Assigned(leaf, units).size = 0
    BY <1>9 DEF Assigned
<1>12. Published(filled, f, storage).size = 0
    BY <1>10 DEF Published
<1>. QED  BY <1>1, <1>2, <1>4, <1>5, <1>7, <1>8, <1>11, <1>12 DEF Read

\* Room is made for what has arrived.
LEMMA ReachTaken ==
    ASSUME IInv, pc = "deliver", Takes, Current.type \notin {"start", "end"},
           pendDone + Taken <= Current.units
    PROVE  pendDone + Taken <= Reach(Current, Avail)
<1>1. PICK k \in 1..Len(msg.fields) : k = cur.k
    BY DEF IInv, CallsNest
<1>2. PICK g \in Nat \ {0} : g = Grain /\ g = Current.width
    BY <1>1, AtFacts DEF Grain, Current
<1>3. PICK a \in Nat : a = Avail
    BY MessageFacts
<1>4. PICK u \in Nat : u = a \div g /\ u <= a
    <2>1. a \div g \in Nat
        BY WholeUnits
    <2>2. PICK u \in Nat : u = a \div g
        BY <2>1
    <2>3. u <= a
        <3>1. u * g <= a
            BY <2>2, FewerUnits
        <3>2. u <= u * g
            BY AtLeastUnits
        <3>. QED  BY <3>1, <3>2
    <2>. QED  BY <2>2, <2>3
<1>5. PICK t \in Nat, done \in Nat, total \in Nat : t = Taken /\ done = pendDone /\ total = Total
    BY TakenFits DEF IInv, HalfDelivered
<1>6. t = Min({u, total - done})
    BY <1>2, <1>3, <1>4, <1>5 DEF Taken
<1>7. t <= u
    BY <1>5, <1>6, MinOfTwo
<1>8. PICK v \in Nat : v = (IF Current.type = "ints" THEN a ELSE u) /\ t <= v
    <2>1. t <= a
        BY <1>4, <1>7
    <2>2. CASE Current.type = "ints"
        BY <2>1, <2>2
    <2>3. CASE Current.type # "ints"
        BY <1>7, <2>3
    <2>. QED  BY <2>2, <2>3
<1>9. Reach(Current, Avail) = Min({Current.units, done + v})
    <2>1. v = IF Current.type = "ints" THEN Avail ELSE Avail \div Current.width
        BY <1>2, <1>3, <1>4, <1>8
    <2>. QED  BY <1>5, <2>1 DEF Reach
<1>10. PICK c \in Nat : c = Current.units
    BY <1>1, AtFacts DEF Current
<1>11. Min({c, done + v}) = IF c <= done + v THEN c ELSE done + v
    BY MinOfTwo
<1>. QED  BY <1>5, <1>8, <1>9, <1>10, <1>11

\* An array of fixed extent has the elements that were read.
LEMMA ExtentIs ==
    ASSUME NEW marks, 0 \in marks, NEW leaf \in Leaves(marks), NEW f, pendDone \in Nat,
           NEW m \in Nat, pendDone > 0 => Len(leaf.buf) = pendDone,
           NEW units \in Seq(UnitsOf(marks))
    PROVE  LET new == Filled(Readied(leaf, f, "extent", m), "extent", units) IN
           /\ new.buf \in Seq(UnitsOf(marks)) /\ Len(new.buf) = pendDone + Len(units)
           /\ new.len = pendDone + Len(units)
<1>1. PICK ready \in Leaves(marks) : ready = Readied(leaf, f, "extent", m) /\ Len(ready.buf) = pendDone
    <2>1. CASE pendDone = 0
        <3>1. Readied(leaf, f, "extent", m) = Empty
            BY <2>1 DEF Readied
        <3>2. PICK z \in Nat : z = 0
            OBVIOUS
        <3>3. Empty \in Leaves(marks)
            BY <3>2, EmptyIsLeaf
        <3>4. Len(Empty.buf) = 0
            BY DEF Empty
        <3>. QED  BY <2>1, <3>1, <3>3, <3>4
    <2>2. CASE pendDone # 0
        BY <2>2 DEF Readied
    <2>. QED  BY <2>1, <2>2
<1>2. /\ ready.buf \in Seq(UnitsOf(marks))
      /\ ready = [buf |-> ready.buf, len |-> ready.len, size |-> ready.size]
    BY LeafIs
<1>3. PICK buf : buf = Overlaid(ready.buf, pendDone, units)
    OBVIOUS
<1>4. buf \in Seq(UnitsOf(marks)) /\ Len(buf) = pendDone + Len(units)
    <2>1. buf \in Seq(UnitsOf(marks))
        BY <1>2, <1>3, OverlaidIs
    <2>2. PICK l \in Nat, n \in Nat : l = Len(units) /\ n = pendDone + l
        OBVIOUS
    <2>3. Max({pendDone, n}) = n
        BY <2>2, MaxOfTwo
    <2>4. PICK e : e = [i \in 1..n |-> IF i \in (pendDone + 1)..n THEN units[i - pendDone]
                                        ELSE IF i <= pendDone THEN ready.buf[i] ELSE Blank]
        OBVIOUS
    <2>5. Overlaid(ready.buf, pendDone, units) = e
        BY <1>1, <2>2, <2>3, <2>4 DEF Overlaid
    <2>6. Len(e) = n
        BY <2>4
    <2>. QED  BY <1>3, <2>1, <2>2, <2>5, <2>6
<1>5. PICK new : new = Filled(ready, "extent", units)
    OBVIOUS
<1>6. new = [buf |-> buf, len |-> Len(buf), size |-> ready.size]
    BY <1>2, <1>3, <1>5 DEF Filled
<1>7. new.buf = buf /\ new.len = Len(buf)
    BY <1>6
<1>8. new = Filled(Readied(leaf, f, "extent", m), "extent", units)
    BY <1>1, <1>5
<1>. QED  BY <1>4, <1>7, <1>8

\* What a delivery leaves of the leaf, when it is not refused: the units so far and, behind
\* the last one, the value.
LEMMA ReadHolds ==
    ASSUME IInv, Located, pc = "deliver", Takes, ~(Faulty /\ Over),
           Current.type \notin {"start", "end"}, NEW marks, 0 \in marks, number \in marks,
           NEW leaf \in Leaves(marks), StorageOf(cur.k) = "clipped" => leaf.len <= Clip,
           Holds(leaf, cur.k, pendDone)
    PROVE  LET new == Read(leaf, Current, StorageOf(cur.k)) IN
           /\ Holds(new, cur.k, pendDone + Taken)
           /\ Over => SubSeq(new.buf, 1, new.len) = Units(msg, cur.k) /\ new.len = Kept(msg, cur.k)
<1>1. PICK k \in 1..Len(msg.fields) : k = cur.k
    BY DEF IInv, CallsNest
<1>2. PICK f, storage : f = Current /\ f = At(msg, k) /\ storage = StorageOf(k)
    BY <1>1 DEF Current
<1>3. Readable(f, storage) /\ pendDone \in Nat /\ Avail \in Nat
    BY <1>1, <1>2, ReadableIs, MessageFacts DEF Current, IInv, HalfDelivered
<1>4. PICK t \in Nat : t = Taken /\ pendDone + t <= Total
    BY TakenFits
<1>5. PICK n \in Nat : n = pendDone + t
    BY <1>3, <1>4
<1>6. PICK units \in Seq(UnitsOf(marks)) : units = UnitsStored /\ Len(units) = t
    BY <1>4, UnitsStoredAre, UnitsArrive
<1>7. PICK last \in Nat : last = Kept(msg, k)
    BY <1>1, ReadableIs, KeptIs
<1>8. /\ last <= f.units
      /\ storage # "clipped" => last = f.units
      /\ storage = "clipped" => last <= Clip /\ last = Min({Clip, f.units})
    BY <1>2, <1>3, <1>7, KeptIs
<1>9. PICK value \in Seq(UnitsOf(marks)) : value = Units(msg, k) /\ Len(value) = last
    BY <1>7, UnitsAre
<1>10. \A i \in 1..Len(units) : pendDone + i <= last => units[i] = value[pendDone + i]
    BY <1>1, <1>4, <1>6, <1>7, <1>9, UnitsArrive
<1>11. Total = f.units /\ n <= f.units /\ (Over <=> n = f.units)
    <2>1. Total = (f.units * f.width) \div f.width
        BY <1>2 DEF Total, Grain
    <2>2. Total = f.units
        BY <1>3, <2>1, UnitsOfGrain DEF Readable
    <2>. QED  BY <1>4, <1>5, <2>2 DEF Over
<1>12. /\ Has(leaf.buf, pendDone, last, value)
       /\ storage \in {"scalar", "extent"} /\ pendDone > 0 => Len(leaf.buf) = pendDone /\ leaf.len = pendDone
    BY <1>1, <1>2, <1>7, <1>9 DEF Holds
<1>13. PICK new : new = Read(leaf, f, storage)
    OBVIOUS
<1>14. SUFFICES /\ Has(new.buf, n, last, value)
                /\ storage \in {"scalar", "extent"} /\ n > 0 => Len(new.buf) = n /\ new.len = n
                /\ n = f.units => new.len = last /\ new.buf \in Seq(UnitsOf(marks))
    <2>1. n = f.units /\ new.len = last /\ new.buf \in Seq(UnitsOf(marks)) /\ Has(new.buf, n, last, value)
            => SubSeq(new.buf, 1, last) = value
        BY <1>8, <1>9, HasAll
    <2>. QED  BY <1>1, <1>2, <1>4, <1>5, <1>7, <1>9, <1>11, <1>13, <2>1 DEF Holds
<1>15. CASE storage = "scalar"
    <2>1. f.units = 1 /\ last = 1
        BY <1>1, <1>2, <1>8, <1>15, ScalarIsOne
    <2>2. new = Assigned(leaf, units)
        BY <1>6, <1>13, <1>15 DEF Read
    <2>3. CASE units = <<>>
        <3>1. new = leaf /\ t = 0 /\ n = pendDone
            <4>1. Len(<<>>) = 0
                OBVIOUS
            <4>. QED  BY <1>3, <1>5, <1>6, <2>2, <2>3, <4>1 DEF Assigned
        <3>2. leaf.buf \in Seq(UnitsOf(marks))
            BY LeafIs
        <3>. QED  BY <1>11, <1>12, <1>15, <2>1, <3>1, <3>2
    <2>4. CASE units # <<>>
        <3>1. t # 0
            BY <1>6, <2>4
        <3>2. t = 1 /\ pendDone = 0 /\ n = 1
            BY <1>3, <1>5, <1>11, <2>1, <3>1
        <3>3. new.buf = units /\ new.len = 1
            <4>1. leaf = [buf |-> leaf.buf, len |-> leaf.len, size |-> leaf.size]
                BY LeafIs
            <4>. QED  BY <1>6, <2>2, <2>4, <3>2, <4>1 DEF Assigned
        <3>4. Has(units, n, last, value)
            <4>1. 1 \in 1..Len(units) /\ units[1] = value[0 + 1]
                BY <1>6, <1>10, <2>1, <3>2
            <4>. QED  BY <1>6, <2>1, <3>2, <4>1 DEF Has
        <3>. QED  BY <1>6, <2>1, <3>2, <3>3, <3>4
    <2>. QED  BY <2>3, <2>4
<1>16. CASE storage # "scalar"
    <2>1. PICK ready : ready = Readied(leaf, f, storage, Avail)
        OBVIOUS
    <2>2. ready \in Leaves(marks) /\ (storage = "clipped" => ready = leaf)
        BY <1>3, <2>1, ReadiedIs
    <2>3. Has(ready.buf, pendDone, last, value)
        BY <1>3, <1>12, <2>1, ReadiedHas
    <2>4. storage = "resizable" => pendDone + Len(units) <= Len(ready.buf)
        <3>. SUFFICES ASSUME storage = "resizable" PROVE n <= Len(ready.buf)
            BY <1>5, <1>6
        <3>1. PICK r \in Nat : r = Reach(f, Avail)
            BY <1>3, ReachIs
        <3>2. r <= Len(ready.buf)
            BY <1>3, <2>1, <3>1, ReadiedReaches
        <3>3. n <= r
            BY <1>2, <1>4, <1>5, <1>11, <3>1, ReachTaken
        <3>4. Len(ready.buf) \in Nat
            BY <2>2, LeafIs
        <3>. QED  BY <3>2, <3>3, <3>4
    <2>5. PICK filled : filled = Filled(ready, storage, units)
        OBVIOUS
    <2>6. Has(filled.buf, n, last, value)
        <3>1. storage \in {"scalar", "resizable", "capacity", "extent", "clipped"}
            BY <1>3 DEF Readable
        <3>2. Has(filled.buf, pendDone + Len(units), last, value)
            BY <1>3, <1>8, <1>10, <2>2, <2>3, <2>4, <2>5, <3>1, FilledHas
        <3>. QED  BY <1>5, <1>6, <3>2
    <2>7. filled \in Leaves(marks)
        BY <1>1, <1>2, <1>3, <2>2, <2>5, FilledIs DEF Readable
    <2>8. filled.buf \in Seq(UnitsOf(marks)) /\ filled = [buf |-> filled.buf, len |-> filled.len, size |-> filled.size]
        BY <2>7, LeafIs
    <2>9. storage = "extent" => Len(filled.buf) = n /\ filled.len = n
        <3>. SUFFICES ASSUME storage = "extent" PROVE Len(filled.buf) = n /\ filled.len = n
            OBVIOUS
        <3>1. pendDone > 0 => Len(leaf.buf) = pendDone
            BY <1>12
        <3>2. filled = Filled(Readied(leaf, f, "extent", Avail), "extent", units)
            BY <2>1, <2>5
        <3>3. Len(filled.buf) = pendDone + Len(units) /\ filled.len = pendDone + Len(units)
            BY <1>3, <3>1, <3>2, ExtentIs
        <3>. QED  BY <1>5, <1>6, <3>3
    <2>10. CASE n # f.units
        <3>1. new = filled
            BY <1>6, <1>11, <1>13, <1>16, <2>1, <2>5, <2>10 DEF Read
        <3>. QED  BY <1>16, <2>6, <2>8, <2>9, <2>10, <3>1
    <2>11. CASE n = f.units
        <3>1. new = Published(filled, f, storage)
            BY <1>6, <1>11, <1>13, <1>16, <2>1, <2>5, <2>11 DEF Read
        <3>2. CASE storage \in {"resizable", "capacity"}
            <4>1. PICK m \in Nat : m = f.units /\ m = n
                BY <2>11
            <4>2. new.buf = Resized(filled.buf, m) /\ new.len = m
                BY <2>8, <3>1, <3>2, <4>1 DEF Published
            <4>3. Resized(filled.buf, m) \in Seq(UnitsOf(marks))
                BY <2>8, ResizedIs
            <4>4. \A i \in 1..n : i <= last => i <= m
                BY <4>1
            <4>5. Has(Resized(filled.buf, m), n, last, value)
                BY <2>6, <2>8, <4>4, ResizedHas
            <4>. QED  BY <1>8, <3>2, <4>1, <4>2, <4>3, <4>5
        <3>3. CASE storage = "clipped"
            <4>1. new.buf = filled.buf /\ new.len = last
                BY <1>8, <2>8, <3>1, <3>3 DEF Published
            <4>. QED  BY <2>6, <2>8, <3>3, <4>1
        <3>4. CASE storage = "extent"
            <4>1. new = filled
                BY <3>1, <3>4 DEF Published
            <4>. QED  BY <1>8, <2>6, <2>8, <2>9, <2>11, <3>4, <4>1
        <3>. QED  BY <1>3, <1>16, <3>2, <3>3, <3>4 DEF Readable
    <2>. QED  BY <2>10, <2>11
<1>. QED  BY <1>15, <1>16

------------------------------------------------------------------------------
(* What is there between two steps. *)

\* A field of which something was delivered, and of which more is to come.
Underway == pend # NoPend /\ Site \in msg.live
Wanted(under, k) == IF under THEN Begun(Meaning(k - 1), msg, k) ELSE Meaning(k - 1)
Lodged(d, m, k) ==
    \A i \in 1..Len(m.opens[k]) : m.opens[k][i] \in m.live => Seated(d, m, m.opens[k][i])

\* The message is what the whole fields so far make of it, but for the place of the one
\* that is under way, which has its element, and what of it has arrived.
MatchesAt(d, k, under, done) ==
    /\ Lodged(d, msg, k)
    /\ \A q : (under /\ q = PlaceOf(msg, k)) \/ Same(d, Wanted(under, k), q)
    /\ under => Seated(d, msg, k) /\ Holds(There(d, PlaceOf(msg, k)), k, done)
Matches ==
    /\ MatchesAt(dst, Site, Underway, pendDone)
    /\ pc = "deliver" /\ pend = NoPend => pendDone = 0

\* What holds of a field holds as long as the message does.
LEMMA MatchesAtStays ==
    ASSUME UNCHANGED <<msg, number, earlier>>, NEW d, NEW k \in Nat \ {0}, NEW under, NEW done
    PROVE  MatchesAt(d, k, under, done)' <=> MatchesAt(d, k, under, done)
<1>1. PICK n \in Nat : n = k - 1
    OBVIOUS
<1>2. Meaning(k - 1)' = Meaning(k - 1)
    BY <1>1, MeaningStays
<1>3. Wanted(under, k)' = Wanted(under, k)
    BY <1>2 DEF Wanted, Begun, PlaceOf, Place, At, Element, Nested, Outer, Collector, There, Put
<1>4. \A j : Units(msg, j)' = Units(msg, j)
    BY UnitsStay DEF Units, Kept, At
<1>5. \A leaf, j, i : Holds(leaf, j, i)' <=> Holds(leaf, j, i)
    <2>1. \A j : Kept(msg, j)' = Kept(msg, j) /\ StorageOf(j)' = StorageOf(j)
        BY DEF Kept, StorageOf, At
    <2>2. \A j : Units(msg, j)' = Units(msg, j)
        BY <1>4
    <2>. QED  BY <2>1, <2>2 DEF Holds, Has
<1>. QED  BY <1>3, <1>5 DEF MatchesAt, Lodged, Seated

\* The next state matches when it does as seen from this one.
LEMMA MatchesNext ==
    ASSUME UNCHANGED <<msg, number, earlier>>, NEW k \in Nat \ {0}, k = Site',
           NEW under, under = (Underway'), NEW d, d = dst', NEW done, done = pendDone',
           MatchesAt(d, k, under, done), pc' = "deliver" /\ pend' = NoPend => pendDone' = 0
    PROVE  Matches'
<1>1. MatchesAt(d, k, under, done)'
    BY MatchesAtStays
<1>2. MatchesAt(dst, Site, Underway, pendDone)'
    BY <1>1
<1>3. NoPend' = NoPend
    BY DEF NoPend
<1>. QED  BY <1>2, <1>3 DEF Matches

\* A step that stays where it is.
LEMMA MatchesStay ==
    ASSUME IInv, Matches, UNCHANGED <<msg, pend, number, dst, earlier>>, Site' = Site,
           pend # NoPend => pendDone' = pendDone,
           pc' = "deliver" /\ pend = NoPend => pendDone' = 0
    PROVE  Matches'
<1>1. PICK k \in Nat \ {0} : k = Site /\ k = Site'
    <2>1. Site \in Nat \ {0}
        BY SiteFacts, MessageFacts
    <2>. QED  BY <2>1
<1>2. PICK under : under = Underway
    OBVIOUS
<1>3. under = (Underway')
    BY <1>2 DEF Underway, NoPend
<1>4. MatchesAt(dst, k, under, pendDone')
    <2>1. MatchesAt(dst, k, under, pendDone)
        BY <1>1, <1>2 DEF Matches
    <2>2. under => pendDone' = pendDone
        BY <1>2 DEF Underway
    <2>. QED  BY <2>1, <2>2 DEF MatchesAt
<1>. QED  BY <1>1, <1>3, <1>4, MatchesNext

\* What moves over no field leaves the message to what it meant.
LEMMA StillHere ==
    ASSUME IInv, Located, VInv, terminal = "None", pc # "deliver",
           \/ (\E n \in 1..Bytes(msg) : Feed(n)) \/ FeedNothing \/ KeepCarrying \/ Stash
           \/ ParseTheRest \/ Descend \/ LeaveLevel \/ WindowEnds \/ HeaderCut \/ Resume \/ Accept
    PROVE  /\ Site' = Site /\ UNCHANGED <<msg, pend, terminal>>
           /\ pend # NoPend => pendDone' = pendDone
           /\ pc' = "deliver" /\ pend = NoPend => pendDone' = 0
<1>1. Cut
    BY DEF VInv
<1>2. CASE \E n \in 1..Bytes(msg) : Feed(n)
    <2>1. PICK n \in 1..Bytes(msg) : Feed(n)
        BY <1>2
    <2>2. UNCHANGED <<msg, pend, pendDone, terminal>> /\ pc' \in {"enter", "loop"}
        BY <2>1 DEF Feed, OpenWindow
    <2>3. Pos' = Pos
        BY <2>1, FeedStaysHere
    <2>. QED  BY <2>2, <2>3, SiteStays
<1>3. CASE FeedNothing \/ Descend \/ LeaveLevel
    <2>1. /\ UNCHANGED <<msg, fed, chunk, window, carry, held, p, pend, pendDone, terminal>>
          /\ pc' # "deliver"
        BY <1>3 DEF FeedNothing, Descend, LeaveLevel, OpenLevel, input, windowVars, resumeVars
    <2>2. Pos' = Pos
        BY <2>1 DEF Pos
    <2>. QED  BY <2>1, <2>2, SiteStays
<1>4. ASSUME NEW e, Carry(e), Parsed, Len(Rest) = Avail, Len(window) = held + Len(chunk)
      PROVE  Site' = Site /\ UNCHANGED <<msg, pend, pendDone, terminal>> /\ pc' # "deliver"
    <2>1. UNCHANGED <<msg, pend, pendDone, terminal>> /\ pc' = "idle"
        BY <1>4 DEF Carry, Return, input
    <2>. QED  BY <1>4, <2>1, CarryStaysHere, SiteStays
<1>5. CASE KeepCarrying
    <2>1. Carry("Incomplete") /\ Parsed /\ Len(window) = held + Len(chunk)
        BY <1>1, <1>5, KeepsCarrying, AllInWindow DEF KeepCarrying
    <2>2. Len(Rest) = Avail
        BY <2>1, RestIsTail
    <2>. QED  BY <1>4, <2>1, <2>2
<1>6. CASE Stash
    <2>1. Parsed
        BY <1>6 DEF Stash
    <2>. QED  BY <1>4, <1>6, <2>1, Stashes
<1>7. CASE ParseTheRest
    <2>1. UNCHANGED <<msg, pend, pendDone, terminal>> /\ pc' \in {"enter", "loop"}
        BY <1>7 DEF ParseTheRest, OpenWindow, input
    <2>. QED  BY <1>7, <2>1, ParseTheRestStaysHere, SiteStays
<1>8. CASE WindowEnds \/ HeaderCut
    <2>1. /\ UNCHANGED <<msg, fed, chunk, window, carry, held, p, pendDone, terminal>>
          /\ pc' # "deliver" /\ pc = "loop"
          /\ pend' = NoPend \/ pend' = pend
        BY <1>8 DEF WindowEnds, HeaderCut, AtField, SuspendAtBoundary, Leaving, input, windowVars
    <2>2. Pos' = Pos /\ pend = NoPend
        BY <2>1, LoopFacts DEF Pos
    <2>. QED  BY <2>1, <2>2, SiteStays
<1>9. CASE Resume
    <2>1. /\ UNCHANGED <<msg, fed, chunk, window, carry, held, p, pend, pendDone, terminal>>
          /\ pc' \in {"loop", "deliver"} /\ pc = "enter"
          /\ pc' = "deliver" => pend # NoPend /\ cur'.k = pend.k
        BY <1>9 DEF Resume, input, windowVars
    <2>2. Pos' = Pos
        BY <2>1 DEF Pos
    <2>3. pend # NoPend => pend.k = Site
        BY <2>1 DEF Located, Between
    <2>4. pc' # "deliver" => Site' = Site
        BY <2>1, <2>2, SiteStays
    <2>. QED  BY <2>1, <2>3, <2>4 DEF Site
<1>10. CASE Accept
    <2>1. /\ UNCHANGED <<msg, pend, terminal>> /\ pc' = "deliver" /\ pc = "loop" /\ Avail > 0
          /\ cur'.k = This /\ pendDone' = 0
        BY <1>10 DEF Accept, AtField, input, resumeVars
    <2>2. pend = NoPend /\ This = Site
        BY <2>1, LoopFacts
    <2>. QED  BY <2>1, <2>2 DEF Site
<1>. QED  BY <1>2, <1>3, <1>5, <1>6, <1>7, <1>8, <1>9, <1>10

\* So does a step that only looks.
LEMMA UnmovedHere ==
    ASSUME UNCHANGED vars
    PROVE  Site' = Site /\ UNCHANGED <<msg, fed, terminal, pend, pendDone, pc>>
BY DEF vars, input, windowVars, resumeVars, Site, Pos, FieldAfter, Bytes

\* The end of a sequence means nothing of its own.
LEMMA OverMatches ==
    ASSUME IInv, Located, Matches, SequenceOver, UNCHANGED <<number, dst, earlier>>
    PROVE  Matches'
<1>1. /\ UNCHANGED <<msg, pend>> /\ pc = "loop" /\ pc' = "return"
    BY DEF SequenceOver, AtField, input, resumeVars
<1>. Laid(msg) /\ Len(msg.fields) \in Nat
    BY MessageFacts
<1>2. PICK k \in Fields(msg) : k = Site /\ At(msg, k).type = "end" /\ Pos' = msg.start[k + 1]
    BY SequenceOverMoves
<1>3. k \in Nat \ {0} /\ k + 1 \in Nat \ {0} /\ (k + 1) - 1 = k /\ k - 1 \in Nat /\ (k - 1) + 1 = k
    BY <1>2 DEF Fields
<1>4. Site' = k + 1 /\ msg.opens[k + 1] = Inner(msg.opens[k], k, "end")
    <2>1. FieldAfter(msg, msg.start[k + 1]) = k + 1
        BY <1>2, NextField1
    <2>2. Site' = k + 1
        BY <1>1, <1>2, <2>1 DEF Site, FieldAfter, Bytes
    <2>. QED  BY <1>2, <2>2, NextField1
<1>5. pend = NoPend /\ ~Underway /\ ~(Underway')
    BY <1>1, LoopFacts DEF Underway, NoPend
<1>6. Meaning(k) = Meaning(k - 1)
    <2>1. PICK n \in Nat : n = k - 1 /\ n + 1 = k
        BY <1>3
    <2>2. Meaning(n + 1) = Applied(Meaning(n), msg, n + 1)
        BY MeaningIs DEF MeaningGoesOn
    <2>3. k \notin LiveFields(msg)
        BY <1>2 DEF LiveFields
    <2>. QED  BY <2>1, <2>2, <2>3 DEF Applied
<1>7. MatchesAt(dst, k, FALSE, pendDone)
    <2>1. MatchesAt(dst, Site, Underway, pendDone)
        BY DEF Matches
    <2>2. Underway = FALSE
        BY <1>5 DEF Underway
    <2>. QED  BY <1>2, <2>1, <2>2
<1>8. Lodged(dst, msg, k + 1)
    <2>1. PICK open \in Seq(Nat) : open = msg.opens[k]
        <3>1. k \in 1..(Len(msg.fields) + 1)
            BY <1>2 DEF Fields
        <3>. QED  BY <3>1 DEF Laid
    <2>2. CASE open = <<>>
        <3>1. msg.opens[k + 1] = open
            BY <1>4, <2>1, <2>2 DEF Inner
        <3>. QED  BY <1>7, <2>1, <3>1 DEF MatchesAt, Lodged
    <2>3. CASE open # <<>>
        <3>. Len(open) \in Nat \ {0}
            BY <2>3
        <3>0. Len(open) - 1 \in 0..Len(open)
            OBVIOUS
        <3>1. PICK n \in 0..Len(open) : n = Len(open) - 1
            BY <3>0
        <3>2. msg.opens[k + 1] = SubSeq(open, 1, n)
            BY <1>4, <2>1, <2>3, <3>1 DEF Inner
        <3>3. PICK cut \in Seq(Nat) : cut = SubSeq(open, 1, n)
            BY CutIs
        <3>4. Len(cut) = n
            BY <3>3, CutIs
        <3>5. \A i \in 1..n : cut[i] = open[i]
            BY <3>3, CutIs
        <3>6. \A i \in 1..n : i \in 1..Len(open)
            BY <3>1
        <3>. QED  BY <1>7, <2>1, <3>2, <3>3, <3>4, <3>5, <3>6 DEF MatchesAt, Lodged
    <2>. QED  BY <2>2, <2>3
<1>9. MatchesAt(dst, k + 1, FALSE, pendDone')
    BY <1>3, <1>6, <1>7, <1>8 DEF MatchesAt, Wanted
<1>10. PICK s \in Nat \ {0} : s = k + 1 /\ s = Site'
    BY <1>3, <1>4
<1>11. PICK under : under = (Underway')
    OBVIOUS
<1>12. PICK d : d = dst' /\ d = dst
    OBVIOUS
<1>13. MatchesAt(d, s, under, pendDone')
    <2>1. under = FALSE
        BY <1>5, <1>11 DEF Underway
    <2>. QED  BY <1>9, <1>10, <1>12, <2>1
<1>. QED  BY <1>1, <1>10, <1>11, <1>12, <1>13, MatchesNext

------------------------------------------------------------------------------
(* The field that is delivered, in the sequences it is in. *)

\* The sequences around a field that have their places have them in each other.
LEMMA LodgedRoot ==
    ASSUME NEW d, NEW m \in Decodings, NEW k \in LiveFields(m), Lodged(d, m, k),
           NEW i \in 1..Len(m.opens[k]), NEW c, c = m.opens[k][i]
    PROVE  Rooted(d, m, c)
<1>1. k \in Fields(m) /\ \A j \in 1..Len(m.opens[k]) : m.opens[k][j] \in LiveFields(m)
    BY AroundLive
<1>2. \A j \in 1..Len(m.opens[k]) : Seated(d, m, m.opens[k][j])
    BY <1>1 DEF Lodged, LiveFields
<1>3. Len(m.opens[c]) = i - 1 /\ \A j \in 1..(i - 1) : m.opens[c][j] = m.opens[k][j]
    BY <1>1, AroundIs
<1>4. Len(m.opens[k]) \in Nat
    BY <1>1, PlaceIs
<1>5. \A j \in 1..(i - 1) : j \in 1..Len(m.opens[k])
    BY <1>4
<1>. QED  BY <1>2, <1>3, <1>5 DEF Rooted

\* So has the field itself, when it has its place.
LEMMA LodgedSelf ==
    ASSUME NEW d, NEW m \in Decodings, NEW k \in LiveFields(m), Lodged(d, m, k), Seated(d, m, k)
    PROVE  Rooted(d, m, k)
BY AroundLive DEF Lodged, LiveFields, Rooted

\* The sequences around a field keep their places.
LEMMA LodgedKept ==
    ASSUME NEW d, Shaped(d), NEW e, Shaped(e), NEW m \in Decodings, NEW k \in Fields(m),
           Unharmed(d, e, Len(m.opens[k])), Lodged(d, m, k)
    PROVE  Lodged(e, m, k)
<1>1. PICK n \in Nat : n = Len(m.opens[k])
    BY PlaceIs
<1>2. ASSUME NEW i \in 1..n, m.opens[k][i] \in m.live PROVE Seated(e, m, m.opens[k][i])
    <2>1. PICK c : c = m.opens[k][i]
        OBVIOUS
    <2>2. c \in Fields(m) /\ At(m, c).type = "start" /\ Len(m.opens[c]) = i - 1
        BY <1>1, <2>1, AroundIs
    <2>3. c \in LiveFields(m)
        BY <1>2, <2>1, <2>2 DEF LiveFields
    <2>4. Len(m.opens[c]) <= n
        BY <2>2
    <2>5. Seated(d, m, c)
        BY <1>1, <1>2, <2>1 DEF Lodged
    <2>. QED  BY <1>1, <2>1, <2>3, <2>4, <2>5, SeatedKept
<1>. QED  BY <1>1, <1>2 DEF Lodged

\* The element that is delivered gets its place, unless its length is tested first, and
\* harms nothing around it; one that has its place keeps it as it is.
LEMMA PlacedHere ==
    ASSUME IInv, NEW k, Inside(k), Shaped(dst), Lodged(dst, msg, k)
    PROVE  /\ Shaped(Placed(k)) /\ Unharmed(dst, Placed(k), Len(msg.opens[k]))
           /\ Lodged(Placed(k), msg, k)
           /\ ~TestedFirst(At(msg, k)) => Seated(Placed(k), msg, k)
           /\ Seated(dst, msg, k) \/ TestedFirst(At(msg, k)) => Placed(k) = dst
<1>1. PICK m \in Decodings : m = msg /\ k \in LiveFields(m) /\ k \in Fields(m)
    <2>1. msg \in Decodings /\ k \in LiveFields(msg)
        BY DEF IInv, InputTyped, Inside
    <2>. QED  BY <2>1, AroundLive
<1>2. PICK n \in Nat : n = Len(m.opens[k])
    BY <1>1, PlaceIs
<1>3. PICK id \in Nat : id = At(m, k).id
    BY <1>1, PlaceIs
<1>4. Unharmed(dst, dst, n)
    <2>1. \A r : There(dst, r).size \in Nat
        BY SizeIs
    <2>. QED  BY <2>1 DEF Unharmed
<1>5. CASE ~Element(m, k)
    <2>1. ~IsElement
        BY <1>1, <1>5, FrontIs
    <2>2. Placed(k) = dst
        BY <2>1 DEF Placed
    <2>3. Seated(dst, m, k)
        BY <1>5 DEF Seated
    <2>. QED  BY <1>1, <1>2, <1>4, <2>2, <2>3
<1>6. CASE Element(m, k)
    <2>1. IsElement
        BY <1>1, <1>6, ElementIs
    <2>2. PICK c \in LiveFields(m) : c = Outer(m, k) /\ Front(Here(k)) = PlaceOf(m, c) /\ Collector(At(m, c))
        BY <1>1, <1>6, <2>1, FrontIs DEF Element
    <2>3. n \in 1..n /\ c = m.opens[k][n]
        <3>1. m.opens[k] \in Seq(Nat) /\ m.opens[k] # <<>>
            <4>1. k \in 1..(Len(m.fields) + 1) /\ Laid(m)
                BY <1>1, MessageFacts DEF Fields
            <4>. QED  BY <1>6, <4>1 DEF Element, Nested, Laid
        <3>2. n # 0
            BY <1>2, <3>1
        <3>. QED  BY <1>2, <2>2, <3>2 DEF Outer
    <2>4. Rooted(dst, m, c)
        BY <1>1, <1>2, <2>3, LodgedRoot
    <2>5. Len(PlaceOf(m, c)) = n
        BY <1>1, <1>2, <2>3, AroundIs
    <2>6. PICK grown : grown = Grown(dst, PlaceOf(m, c), id)
        OBVIOUS
    <2>7. /\ Shaped(grown) /\ Unharmed(dst, grown, n) /\ id < There(grown, PlaceOf(m, c)).size
          /\ id < There(dst, PlaceOf(m, c)).size => grown = dst
        BY <2>2, <2>4, <2>5, <2>6, GrownShape
    <2>8. Seated(grown, m, k) /\ (Seated(dst, m, k) => grown = dst)
        BY <1>3, <1>6, <2>2, <2>7 DEF Seated
    <2>9. Placed(k) = IF TestedFirst(At(m, k)) THEN dst ELSE grown
        BY <1>1, <1>3, <2>1, <2>2, <2>6 DEF Placed
    <2>10. Lodged(grown, m, k)
        BY <1>1, <1>2, <2>7, LodgedKept
    <2>. QED  BY <1>1, <1>2, <1>4, <2>7, <2>8, <2>9, <2>10
<1>. QED  BY <1>5, <1>6

\* What is there then is what the field makes of it by being begun.
LEMMA PlacedAlike ==
    ASSUME IInv, NEW k, Inside(k), Shaped(dst), NEW marks, Made(dst, marks),
           NEW e, \A r : Same(dst, e, r), ~TestedFirst(At(msg, k)), NEW q
    PROVE  Same(Placed(k), Begun(e, msg, k), q)
<1>1. PICK m \in Decodings : m = msg /\ k \in LiveFields(m)
    BY DEF IInv, InputTyped, Inside
<1>2. CASE ~Element(m, k)
    <2>1. ~IsElement
        BY <1>1, <1>2, FrontIs
    <2>2. Placed(k) = dst /\ Begun(e, m, k) = e
        BY <1>2, <2>1 DEF Placed, Begun
    <2>. QED  BY <1>1, <2>2
<1>3. CASE Element(m, k)
    <2>1. IsElement
        BY <1>1, <1>3, ElementIs
    <2>2. Outer(m, k) \in LiveFields(m) /\ Front(Here(k)) = PlaceOf(m, Outer(m, k))
        BY <1>1, <2>1, FrontIs
    <2>3. Placed(k) = Grown(dst, PlaceOf(m, Outer(m, k)), At(m, k).id)
        BY <1>1, <2>1, <2>2 DEF Placed
    <2>4. Same(Placed(k), Begun(dst, m, k), q)
        BY <1>1, <1>3, <2>2, <2>3, GrownAlike
    <2>5. Same(Begun(dst, m, k), Begun(e, m, k), q)
        BY BegunAlike
    <2>. QED  BY <1>1, <2>4, <2>5 DEF Same
<1>. QED  BY <1>2, <1>3

------------------------------------------------------------------------------
(* A payload. *)

\* A field applied.
LEMMA MeaningAt ==
    ASSUME NEW k \in Nat \ {0}
    PROVE  Meaning(k) = Applied(Meaning(k - 1), msg, k)
<1>1. PICK n \in Nat : n = k - 1 /\ n + 1 = k
    <2>1. k - 1 \in Nat /\ (k - 1) + 1 = k
        OBVIOUS
    <2>. QED  BY <2>1
<1>2. Meaning(n + 1) = Applied(Meaning(n), msg, n + 1)
    BY MeaningIs DEF MeaningGoesOn
<1>. QED  BY <1>1, <1>2

\* Behind a field that is no sequence the same sequences are open.
LEMMA LodgedOn ==
    ASSUME NEW d, NEW m, Laid(m), NEW k \in Fields(m), At(m, k).type \notin {"start", "end"},
           Lodged(d, m, k)
    PROVE  Lodged(d, m, k + 1)
<1>1. m.opens[k + 1] = m.opens[k]
    BY NextField1 DEF Inner
<1>. QED  BY <1>1 DEF Lodged

\* A unit that does not have to be refused is one the field is read with.
LEMMA ReadNotTested ==
    ASSUME NEW f, RefusalOf(f.use) = "None"
    PROVE  ~TestedFirst(f)
BY DEF RefusalOf, TestedFirst

\* What is there when the units of a payload have been stored behind those that were.
LEMMA TakenMatches ==
    ASSUME DecoderInv, ObjectInv, Shaped(dst), Matches, Located, ObjectPayload, Takes,
           ~(Faulty /\ Over), NEW k, k = cur.k
    PROVE  /\ Shaped(dst')
           /\ Lodged(dst', msg, k) /\ Seated(dst', msg, k)
           /\ \A q : q # PlaceOf(msg, k) => Same(dst', Begun(Meaning(k - 1), msg, k), q)
           /\ LET new == There(dst', PlaceOf(msg, k)) IN
              /\ Holds(new, k, pendDone + Taken) /\ new.size = 0
              /\ Over => SubSeq(new.buf, 1, new.len) = Units(msg, k) /\ new.len = Kept(msg, k)
<1>1. /\ IInv /\ Good(dst, Marks) /\ Made(dst, Marks) /\ pc = "deliver" /\ Current.type # "start"
      /\ RefusalOf(Current.use) = "None"
    BY DEF DecoderInv, ObjectInv, ObjectPayload, DeliverPayload, Good
<1>2. PICK m \in Decodings : m = msg /\ k \in LiveFields(m) /\ k \in Fields(m) /\ Inside(k)
    <2>1. Inside(k) /\ msg \in Decodings
        BY <1>1, DeliversInside DEF IInv, InputTyped
    <2>. QED  BY <2>1, AroundLive DEF Inside
<1>3. k = Site /\ Current = At(m, k) /\ k \in m.live
    BY <1>1, <1>2, DeliverFacts DEF Current, LiveFields
<1>4. Current.type \notin {"start", "end"} /\ ~Collector(At(m, k)) /\ ~TestedFirst(At(m, k))
    BY <1>1, <1>2, <1>3, ReadNotTested DEF LiveFields, Collector
<1>5. PICK own : own = PlaceOf(m, k) /\ own = Here(k) /\ own \in Seq(Nat)
    <2>1. PlaceOf(m, k) \in Seq(Nat)
        BY <1>2, PlaceIs
    <2>. QED  BY <1>2, <2>1 DEF Inside, Here, PlaceOf
<1>6. PICK n \in Nat : n = Len(m.opens[k])
    BY <1>2, PlaceIs
<1>7. MatchesAt(dst, k, Underway, pendDone)
    BY <1>3 DEF Matches
<1>8. PICK begun : begun = Begun(Meaning(k - 1), m, k)
    OBVIOUS
<1>9. PICK placed : placed = Placed(k)
    OBVIOUS
<1>10. Lodged(dst, m, k)
    BY <1>2, <1>7 DEF MatchesAt
<1>11. /\ Shaped(placed) /\ Lodged(placed, m, k) /\ Seated(placed, m, k)
       /\ Seated(dst, m, k) => placed = dst
    BY <1>1, <1>2, <1>4, <1>9, <1>10, PlacedHere
<1>12. \A q : q # own => Same(placed, begun, q)
    <2>1. CASE Underway
        <3>1. placed = dst
            BY <1>2, <1>7, <1>11, <2>1 DEF MatchesAt
        <3>2. Wanted(Underway, k) = begun
            BY <1>2, <1>8, <2>1 DEF Wanted
        <3>. QED  BY <1>2, <1>5, <1>7, <3>1, <3>2 DEF MatchesAt
    <2>2. CASE ~Underway
        <3>1. PICK e : e = Meaning(k - 1)
            OBVIOUS
        <3>2. Wanted(Underway, k) = e
            BY <2>2, <3>1 DEF Wanted
        <3>3. \A r : Same(dst, e, r)
            BY <1>7, <2>2, <3>2 DEF MatchesAt
        <3>4. \A q : Same(placed, Begun(e, m, k), q)
            BY <1>1, <1>2, <1>4, <1>9, <3>3, PlacedAlike
        <3>. QED  BY <1>8, <3>1, <3>4
    <2>. QED  BY <2>1, <2>2
<1>13. PICK leaf : leaf = There(placed, own)
    OBVIOUS
<1>14. Holds(leaf, k, pendDone)
    <2>1. CASE Underway
        <3>1. placed = dst
            BY <1>2, <1>7, <1>11, <2>1 DEF MatchesAt
        <3>. QED  BY <1>2, <1>5, <1>7, <1>13, <2>1, <3>1 DEF MatchesAt
    <2>2. CASE ~Underway
        <3>1. pend = NoPend
            BY <1>2, <1>3, <2>2 DEF Underway
        <3>2. pendDone = 0
            BY <1>1, <3>1 DEF Matches
        <3>. QED  BY <3>2 DEF Holds, Has
    <2>. QED  BY <2>1, <2>2
<1>15. Good(placed, Marks)
    BY <1>1, <1>2, <1>9, PlacedKeeps
<1>16. leaf \in Leaves(Marks) /\ (StorageOf(k) = "clipped" => leaf.len <= Clip)
    <2>1. leaf \in Leaves(Marks)
        BY <1>13, <1>15, ThereIs DEF Good
    <2>. QED  BY <1>2, <1>5, <1>13, <1>15, <2>1 DEF Good, Fits, FitsAt, StorageOf
<1>17. leaf.size = 0
    <2>1. ShapedAt(placed, m, k)
        BY <1>2, <1>11 DEF Shaped
    <2>. QED  BY <1>4, <1>5, <1>2, <1>13, <2>1 DEF ShapedAt
<1>18. PICK new : new = Read(leaf, Current, StorageOf(k))
    OBVIOUS
<1>19. /\ Holds(new, k, pendDone + Taken)
       /\ Over => SubSeq(new.buf, 1, new.len) = Units(msg, k) /\ new.len = Kept(msg, k)
    BY <1>1, <1>4, <1>14, <1>16, <1>18, MarksAre, ReadHolds
<1>20. new.size = 0
    BY <1>1, <1>16, <1>17, <1>18, MarksAre, ReadSize
<1>21. PICK d : d = dst' /\ d = Put(placed, own, new)
    BY <1>5, <1>9, <1>13, <1>18 DEF ObjectPayload
<1>22. Shaped(d)
    <2>1. Rooted(placed, m, k)
        BY <1>2, <1>11, LodgedSelf
    <2>2. new.size \in Nat
        BY <1>20
    <2>3. IF Collector(At(m, k)) THEN new.len = 0 /\ new.size >= There(placed, PlaceOf(m, k)).size
          ELSE new.size = 0
        BY <1>4, <1>20
    <2>4. Shaped(Put(placed, PlaceOf(m, k), new))
        BY <1>2, <1>11, <2>1, <2>2, <2>3, PutShape
    <2>. QED  BY <1>5, <1>21, <2>4
<1>23. Unharmed(placed, d, n)
    BY <1>2, <1>4, <1>5, <1>11, <1>20, <1>21, PutUnharmed
<1>24. Lodged(d, m, k) /\ Seated(d, m, k)
    <2>1. Lodged(d, m, k)
        BY <1>2, <1>6, <1>11, <1>22, <1>23, LodgedKept
    <2>2. Seated(d, m, k)
        BY <1>2, <1>6, <1>11, <1>22, <1>23, SeatedKept
    <2>. QED  BY <2>1, <2>2
<1>25. \A q : There(d, q) = IF q = own THEN new ELSE There(placed, q)
    BY <1>21, PutThere
<1>26. \A q : q # own => Same(d, begun, q)
    BY <1>12, <1>25 DEF Same, Value
<1>27. There(d, own) = new
    BY <1>25
<1>. QED  BY <1>2, <1>5, <1>8, <1>19, <1>20, <1>21, <1>22, <1>24, <1>26, <1>27

\* The parser behind a payload, or behind the part of one that is there.
LEMMA PayloadGoesOn ==
    ASSUME IInv, Located, DeliverPayload, ~(Over /\ (Faulty \/ Invalidated))
    PROVE  /\ UNCHANGED msg /\ Site' = (IF Over THEN cur.k + 1 ELSE cur.k) /\ pc' # "deliver"
           /\ pend' # NoPend' <=> ~Over
           /\ ~Over => pendDone' = pendDone + Taken
<1>1. /\ UNCHANGED msg /\ pc' \in {"loop", "parsed", "return"} /\ pc = "deliver"
      /\ IF Over THEN pend' = NoPend
         ELSE pend' = [k |-> cur.k, skip |-> ~Takes] /\ pendDone' = pendDone + Taken
    BY DEF DeliverPayload, input, Leaving
<1>2. ~Refused("InvalidMessage")
    BY <1>1 DEF Refused, Return
<1>3. cur.k \in Fields(msg)
    BY <1>1, DeliverFacts
<1>4. NoPend' = NoPend /\ NoPend.k = 0
    BY DEF NoPend
<1>5. ~Over => pend'.k # 0
    BY <1>1, <1>3 DEF Fields
<1>. QED  BY <1>1, <1>2, <1>4, <1>5, PayloadSite

\* What the handler makes of a payload is what the message means.
LEMMA PayloadMatches ==
    ASSUME DecoderInv, ObjectInv, Shaped(dst), Matches, Located, ObjectPayload,
           ~(Over /\ (Faulty \/ Invalidated))
    PROVE  Shaped(dst') /\ Matches'
<1>1. /\ IInv /\ pc = "deliver" /\ Current.type # "start" /\ DeliverPayload
      /\ UNCHANGED <<number, earlier>>
    BY DEF DecoderInv, ObjectPayload, DeliverPayload
<1>2. PICK m \in Decodings : m = msg
    BY <1>1 DEF IInv, InputTyped
<1>3. PICK k \in Fields(m) : /\ k = cur.k /\ k = Site /\ (Takes <=> k \in m.live)
                             /\ At(m, k) = Current /\ At(m, k).type \notin {"start", "end"}
    <2>1. cur.k \in Fields(msg) /\ Site = cur.k /\ (Takes <=> cur.k \in msg.live)
        BY <1>1, DeliverFacts
    <2>2. Current.type # "end"
        BY <1>1 DEF Located, Delivering
    <2>. QED  BY <1>1, <1>2, <2>1, <2>2 DEF Current
<1>4. k \in Nat \ {0} /\ k + 1 \in Nat \ {0} /\ (k + 1) - 1 = k
    BY <1>3 DEF Fields
<1>5. /\ UNCHANGED msg /\ Site' = (IF Over THEN k + 1 ELSE k) /\ pc' # "deliver"
      /\ pend' # NoPend' <=> ~Over
      /\ ~Over => pendDone' = pendDone + Taken
    BY <1>1, <1>3, PayloadGoesOn
<1>6. PICK s \in Nat \ {0} : s = Site' /\ s = IF Over THEN k + 1 ELSE k
    BY <1>4, <1>5
<1>7. PICK under \in BOOLEAN : under = (Underway') /\ (under <=> ~Over /\ k \in m.live)
    <2>1. Underway' <=> ~Over /\ k \in m.live
        <3>1. Underway' <=> pend' # NoPend' /\ Site' \in msg'.live
            BY DEF Underway
        <3>. QED  BY <1>2, <1>5, <1>6, <3>1
    <2>2. Underway' \in BOOLEAN
        BY DEF Underway
    <2>. QED  BY <2>1, <2>2
<1>8. PICK d : d = dst'
    OBVIOUS
<1>9. Laid(m)
    BY <1>1, <1>2, MessageFacts
<1>10. Meaning(k) = Applied(Meaning(k - 1), m, k)
    BY <1>2, <1>4, MeaningAt
<1>11. Shaped(d) /\ MatchesAt(d, s, under, pendDone')
    <2>1. CASE ~Takes
        <3>1. d = dst /\ under = FALSE
            BY <1>1, <1>3, <1>7, <1>8, <2>1 DEF ObjectPayload
        <3>2. Underway = FALSE
            BY <1>2, <1>3, <2>1 DEF Underway
        <3>3. MatchesAt(dst, k, FALSE, pendDone)
            BY <1>3, <3>2 DEF Matches
        <3>4. Meaning(k) = Meaning(k - 1)
            BY <1>3, <1>10, <2>1 DEF Applied, LiveFields
        <3>5. Lodged(d, m, k) /\ \A q : Same(d, Meaning(k - 1), q)
            BY <1>2, <3>1, <3>3 DEF MatchesAt, Wanted
        <3>6. Lodged(d, m, s)
            BY <1>3, <1>6, <1>9, <3>5, LodgedOn
        <3>7. Meaning(s - 1) = Meaning(k - 1)
            BY <1>4, <1>6, <3>4
        <3>. QED  BY <1>2, <3>1, <3>5, <3>6, <3>7 DEF MatchesAt, Wanted
    <2>2. CASE Takes
        <3>1. PICK own : own = PlaceOf(m, k)
            OBVIOUS
        <3>2. PICK new : new = There(d, own)
            OBVIOUS
        <3>3. PICK begun : begun = Begun(Meaning(k - 1), m, k)
            OBVIOUS
        <3>4. ~(Faulty /\ Over)
            OBVIOUS
        <3>5. /\ Shaped(d) /\ Lodged(d, m, k) /\ Seated(d, m, k)
              /\ \A q : q # own => Same(d, begun, q)
              /\ Holds(new, k, pendDone + Taken) /\ new.size = 0
              /\ Over => SubSeq(new.buf, 1, new.len) = Units(m, k) /\ new.len = Kept(m, k)
            BY <1>2, <1>3, <1>8, <2>2, <3>1, <3>2, <3>3, <3>4, TakenMatches
        <3>6. CASE ~Over
            <4>1. s = k /\ under = TRUE /\ pendDone' = pendDone + Taken
                BY <1>3, <1>5, <1>6, <1>7, <2>2, <3>6
            <4>2. Wanted(TRUE, k) = begun
                BY <1>2, <3>3 DEF Wanted
            <4>. QED  BY <1>2, <3>1, <3>2, <3>5, <4>1, <4>2 DEF MatchesAt
        <3>7. CASE Over
            <4>1. s = k + 1 /\ under = FALSE
                BY <1>6, <1>7, <3>7
            <4>2. Lodged(d, m, s)
                BY <1>3, <1>9, <3>5, <4>1, LodgedOn
            <4>3. PICK leaf : leaf = [buf |-> Units(m, k), len |-> Kept(m, k), size |-> 0]
                OBVIOUS
            <4>4. k \in LiveFields(m)
                BY <1>3, <2>2 DEF LiveFields
            <4>5. Meaning(k) = Put(begun, own, leaf)
                BY <1>3, <1>10, <3>1, <3>3, <4>3, <4>4 DEF Applied
            <4>6. \A q : There(Put(begun, own, leaf), q) = IF q = own THEN leaf ELSE There(begun, q)
                BY PutThere
            <4>7. \A q : q # own => Same(d, Meaning(k), q)
                BY <3>5, <4>5, <4>6 DEF Same, Value
            <4>8. SubSeq(leaf.buf, 1, leaf.len) = Units(m, k)
                <5>1. k \in 1..Len(msg.fields) /\ number \in Marks
                    BY <1>2, <1>3, MarksAre DEF Fields
                <5>2. PICK units \in Seq(UnitsOf(Marks)) : units = Units(m, k) /\ Len(units) = Kept(m, k)
                    BY <1>1, <1>2, <5>1, UnitsAre
                <5>3. SubSeq(units, 1, Len(units)) = units
                    OBVIOUS
                <5>. QED  BY <4>3, <5>2, <5>3
            <4>9. Same(d, Meaning(k), own)
                <5>1. There(Meaning(k), own) = leaf
                    BY <4>5, <4>6
                <5>2. Value(d, own) = Units(m, k)
                    BY <3>2, <3>5, <3>7 DEF Value
                <5>3. Value(Meaning(k), own) = Units(m, k)
                    BY <4>8, <5>1 DEF Value
                <5>4. leaf.size = 0 /\ There(d, own).size = 0
                    BY <3>2, <3>5, <4>3
                <5>. QED  BY <5>1, <5>2, <5>3, <5>4 DEF Same
            <4>10. \A q : Same(d, Meaning(s - 1), q)
                BY <1>4, <4>1, <4>7, <4>9
            <4>. QED  BY <1>2, <3>5, <4>1, <4>2, <4>10 DEF MatchesAt, Wanted
        <3>. QED  BY <3>6, <3>7
    <2>. QED  BY <2>1, <2>2
<1>12. Matches'
    BY <1>1, <1>5, <1>6, <1>7, <1>8, <1>11, MatchesNext
<1>. QED  BY <1>8, <1>11, <1>12

------------------------------------------------------------------------------
(* A sequence. *)

\* Reading one applies it.
LEMMA EnteredHere ==
    ASSUME IInv, NEW k, Inside(k), At(msg, k).type = "start", ~replay, Shaped(dst),
           NEW marks, Made(dst, marks), Lodged(dst, msg, k), NEW e, \A r : Same(dst, e, r)
    PROVE  /\ Shaped(Entered(k)) /\ Lodged(Entered(k), msg, k) /\ Seated(Entered(k), msg, k)
           /\ \A q : Same(Entered(k), Applied(e, msg, k), q)
<1>1. PICK m \in Decodings : m = msg /\ k \in LiveFields(m) /\ k \in Fields(m)
    <2>1. msg \in Decodings /\ k \in LiveFields(msg)
        BY DEF IInv, InputTyped, Inside
    <2>. QED  BY <2>1, AroundLive
<1>2. PICK n \in Nat : n = Len(m.opens[k])
    BY <1>1, PlaceIs
<1>3. PICK own \in Seq(Nat) : own = PlaceOf(m, k) /\ own = Here(k) /\ Len(own) = n + 1
    <2>1. PlaceOf(m, k) \in Seq(Nat) /\ Len(PlaceOf(m, k)) = n + 1
        BY <1>1, <1>2, PlaceIs
    <2>. QED  BY <1>1, <2>1 DEF Inside, Here, PlaceOf
<1>4. PICK placed : placed = Placed(k)
    OBVIOUS
<1>5. ~TestedFirst(At(msg, k))
    BY DEF TestedFirst
<1>6. Shaped(placed) /\ Lodged(placed, m, k) /\ Seated(placed, m, k)
    BY <1>1, <1>4, <1>5, PlacedHere
<1>7. PICK begun : begun = Begun(e, m, k)
    OBVIOUS
<1>8. \A q : Same(placed, begun, q)
    BY <1>1, <1>4, <1>5, <1>7, PlacedAlike
<1>9. CASE ~Collector(At(m, k))
    <2>1. Entered(k) = placed
        BY <1>1, <1>4, <1>9 DEF Entered
    <2>2. Applied(e, m, k) = begun
        BY <1>1, <1>7, <1>9 DEF Applied
    <2>. QED  BY <1>1, <1>6, <1>8, <2>1, <2>2
<1>10. CASE Collector(At(m, k))
    <2>1. PICK d : d = Cleared(placed, own) /\ Entered(k) = d
        BY <1>1, <1>3, <1>4, <1>10 DEF Entered
    <2>2. Applied(e, m, k) = Cleared(begun, own)
        BY <1>1, <1>3, <1>7, <1>10 DEF Applied
    <2>3. Shaped(d) /\ Unharmed(placed, d, n)
        BY <1>3, <1>6, <2>1, ClearedShape
    <2>4. Lodged(d, m, k)
        BY <1>1, <1>2, <1>6, <2>3, LodgedKept
    <2>5. Seated(d, m, k)
        BY <1>1, <1>2, <1>6, <2>3, SeatedKept
    <2>6. \A q : Same(d, Cleared(begun, own), q)
        BY <1>8, <2>1, ClearedAlike
    <2>. QED  BY <1>1, <2>1, <2>2, <2>3, <2>4, <2>5, <2>6
<1>. QED  BY <1>9, <1>10

\* Behind the start of a sequence that one is open, too.
LEMMA LodgedIn ==
    ASSUME NEW d, NEW m, Laid(m), NEW k \in Fields(m), At(m, k).type = "start",
           Lodged(d, m, k), k \in m.live => Seated(d, m, k)
    PROVE  Lodged(d, m, k + 1)
<1>1. PICK open \in Seq(Nat) : open = m.opens[k]
    <2>1. k \in 1..(Len(m.fields) + 1)
        BY DEF Fields, Laid
    <2>. QED  BY <2>1 DEF Laid
<1>2. k \in Nat
    BY DEF Fields
<1>3. PICK all \in Seq(Nat) : all = Append(open, k) /\ all = m.opens[k + 1]
    <2>1. m.opens[k + 1] = Inner(open, k, "start")
        BY <1>1, NextField1
    <2>2. Append(open, k) = Inner(open, k, "start")
        BY DEF Inner
    <2>3. Append(open, k) \in Seq(Nat)
        BY <1>2, AppendedIs
    <2>. QED  BY <2>1, <2>2, <2>3
<1>4. PICK n \in Nat : n = Len(open)
    BY <1>1
<1>5. Len(all) = n + 1 /\ all[n + 1] = k
    <2>1. Len(Append(open, k)) = Len(open) + 1 /\ Append(open, k)[Len(open) + 1] = k
        BY <1>2, AppendedIs
    <2>. QED  BY <1>3, <1>4, <2>1
<1>6. \A i \in 1..n : all[i] = open[i]
    <2>1. \A i \in 1..Len(open) : Append(open, k)[i] = open[i]
        BY <1>2, AppendedIs
    <2>. QED  BY <1>3, <1>4, <2>1
<1>7. ASSUME NEW i \in 1..(n + 1), all[i] \in m.live PROVE Seated(d, m, all[i])
    <2>1. CASE i = n + 1
        BY <1>5, <1>7, <2>1
    <2>2. CASE i # n + 1
        <3>1. i \in 1..n
            BY <2>2
        <3>. QED  BY <1>1, <1>4, <1>6, <1>7, <3>1 DEF Lodged
    <2>. QED  BY <2>1, <2>2
<1>. QED  BY <1>3, <1>5, <1>7 DEF Lodged

\* The start of a sequence is what the message means.
LEMMA SequenceMatches ==
    ASSUME DecoderInv, ObjectInv, Shaped(dst), Matches, Located, ObjectSequence
    PROVE  Shaped(dst') /\ Matches'
<1>1. /\ IInv /\ pc = "deliver" /\ Current.type = "start" /\ DeliverSequence
      /\ UNCHANGED <<number, earlier>> /\ Made(dst, Marks)
    BY DEF DecoderInv, ObjectInv, Good, ObjectSequence, DeliverSequence
<1>2. PICK m \in Decodings : m = msg /\ Laid(m)
    BY <1>1, MessageFacts DEF IInv, InputTyped
<1>3. PICK k \in Fields(m) : /\ k = cur.k /\ k = Site /\ (Takes <=> k \in m.live)
                             /\ At(m, k) = Current /\ At(m, k).type = "start"
    BY <1>1, <1>2, DeliverFacts DEF Current
<1>4. k \in Nat \ {0} /\ k + 1 \in Nat \ {0} /\ (k + 1) - 1 = k
    BY <1>3 DEF Fields
<1>5. ~replay /\ pend = NoPend
    BY <1>1, <1>3, DeliverFacts DEF Located, Pended, Delivering, Current
<1>6. /\ UNCHANGED <<msg, fed, chunk, carry, held, p, pend, pendDone>> /\ pc' = "loop"
    BY <1>1, <1>5 DEF DeliverSequence, OpenLevel, input, windowVars, resumeVars
<1>7. Site' = k + 1
    <2>1. Pos' = Pos /\ Pos = m.start[k + 1]
        BY <1>1, <1>2, <1>3, <1>6, SequenceStarts DEF Pos
    <2>2. FieldAfter(m, m.start[k + 1]) = k + 1
        BY <1>2, <1>3, NextField1
    <2>. QED  BY <1>2, <1>6, <2>1, <2>2 DEF Site, FieldAfter, Bytes
<1>8. PICK s \in Nat \ {0} : s = Site' /\ s = k + 1
    BY <1>4, <1>7
<1>9. PICK under \in BOOLEAN : under = (Underway') /\ under = FALSE
    <2>1. Underway' = FALSE
        BY <1>5, <1>6 DEF Underway, NoPend
    <2>. QED  BY <2>1
<1>10. PICK d : d = dst'
    OBVIOUS
<1>11. Meaning(k) = Applied(Meaning(k - 1), m, k)
    BY <1>2, <1>4, MeaningAt
<1>12. Lodged(dst, m, k) /\ \A q : Same(dst, Meaning(k - 1), q)
    <2>1. Underway = FALSE
        BY <1>5 DEF Underway
    <2>2. MatchesAt(dst, k, FALSE, pendDone)
        BY <1>3, <2>1 DEF Matches
    <2>. QED  BY <1>2, <2>2 DEF MatchesAt, Wanted
<1>13. Shaped(d) /\ Lodged(d, m, s) /\ \A q : Same(d, Meaning(k), q)
    <2>1. CASE ~Takes
        <3>1. d = dst
            BY <1>10, <2>1 DEF ObjectSequence
        <3>2. Meaning(k) = Meaning(k - 1)
            BY <1>3, <1>11, <2>1 DEF Applied, LiveFields
        <3>3. Lodged(d, m, s)
            BY <1>2, <1>3, <1>8, <1>12, <2>1, <3>1, LodgedIn
        <3>. QED  BY <1>12, <3>1, <3>2, <3>3
    <2>2. CASE Takes
        <3>1. d = Entered(k) /\ Inside(k)
            BY <1>1, <1>3, <1>10, <2>2, DeliversInside DEF ObjectSequence
        <3>2. PICK e : e = Meaning(k - 1)
            OBVIOUS
        <3>3. /\ Shaped(d) /\ Lodged(d, m, k) /\ Seated(d, m, k)
              /\ \A q : Same(d, Applied(e, m, k), q)
            BY <1>1, <1>2, <1>3, <1>5, <1>12, <3>1, <3>2, EnteredHere
        <3>4. Lodged(d, m, s)
            BY <1>2, <1>3, <1>8, <3>3, LodgedIn
        <3>. QED  BY <1>11, <3>2, <3>3, <3>4
    <2>. QED  BY <2>1, <2>2
<1>14. MatchesAt(d, s, under, pendDone')
    <2>1. Meaning(s - 1) = Meaning(k)
        BY <1>4, <1>8
    <2>. QED  BY <1>2, <1>9, <1>13, <2>1 DEF MatchesAt, Wanted
<1>15. Matches'
    BY <1>1, <1>6, <1>8, <1>9, <1>10, <1>14, MatchesNext
<1>. QED  BY <1>10, <1>13, <1>15

------------------------------------------------------------------------------
(* A sequence that is entered again. *)

\* It is one of those that are open.
LEMMA DescendsHere ==
    ASSUME DecoderInv, Descend
    PROVE  \E d \in 1..Len(OpenHere) :
            /\ path[seqDepth].k = OpenHere[d]
            /\ path[seqDepth].skip <=> OpenHere[d] \notin msg.live
<1>1. pc = "enter" /\ seqDepth < suspendDepth
    BY DEF Descend
<1>2. IInv /\ Located
    BY <1>1 DEF DecoderInv, PInv, Unrefused
<1>. Len(stack) \in Nat /\ MAX_DEPTH \in Nat
    BY <1>2, MessageFacts
<1>3. PICK open \in Seq(Nat) : open = OpenHere
    BY <1>2, SiteFacts
<1>4. suspendDepth = Len(open) /\ suspendDepth \in -1..MAX_DEPTH
    BY <1>1, <1>2, <1>3 DEF Located, Depths, Going, IInv, HalfDelivered
<1>5. PICK d \in 1..Len(open) : d = Len(stack) + 1
    BY <1>1, <1>3, <1>4 DEF seqDepth
<1>6. \A c \in 1..Len(open) :
        EnteredId(c) = open[c] /\ (EnteredSkip(c) <=> open[c] \notin msg.live)
    BY <1>2, <1>3 DEF Located, Follows
<1>7. ~(d <= Len(stack)) /\ seqDepth = d - 1
    BY <1>5 DEF seqDepth
<1>8. EnteredId(d) = path[seqDepth].k /\ EnteredSkip(d) = path[seqDepth].skip
    BY <1>7 DEF EnteredId, EnteredSkip
<1>. QED  BY <1>3, <1>6, <1>8

\* Being entered again it is there already.
LEMMA EnteredStays ==
    ASSUME DecoderInv, Shaped(dst), Matches, Descend, ~path[seqDepth].skip
    PROVE  Entered(path[seqDepth].k) = dst
<1>1. pc = "enter" /\ replay
    BY DEF Descend
<1>2. IInv
    BY DEF DecoderInv
<1>3. PICK m \in Decodings : m = msg /\ Laid(m)
    BY <1>2, MessageFacts DEF IInv, InputTyped
<1>4. PICK open \in Seq(Nat) : open = m.opens[Site] /\ Site \in 1..(Len(m.fields) + 1)
    BY <1>2, <1>3, SiteFacts DEF OpenHere
<1>5. PICK k : k = path[seqDepth].k /\ Inside(k)
    BY DescendsInside
<1>6. PICK d \in 1..Len(open) : k = open[d]
    BY <1>3, <1>4, <1>5, DescendsHere DEF OpenHere
<1>7. Lodged(dst, m, Site)
    BY <1>3 DEF Matches, MatchesAt
<1>8. k \in LiveFields(m) /\ k \in m.live
    BY <1>3, <1>5 DEF Inside, LiveFields
<1>9. Seated(dst, m, k)
    BY <1>4, <1>6, <1>7, <1>8 DEF Lodged
<1>10. Lodged(dst, m, k)
    <2>1. PICK n \in Nat : n = d - 1 /\ n \in 0..Len(open)
        BY <1>6
    <2>2. m.opens[k] = SubSeq(open, 1, n)
        <3>1. Nesting(m, Site)
            BY <1>3, <1>4, SequencesNest
        <3>. QED  BY <1>4, <1>6, <2>1, <3>1 DEF Nesting
    <2>3. PICK cut \in Seq(Nat) : cut = SubSeq(open, 1, n)
        BY <2>1, CutIs
    <2>4. Len(cut) = n
        BY <2>1, <2>3, CutIs
    <2>5. \A i \in 1..n : cut[i] = open[i]
        BY <2>1, <2>3, CutIs
    <2>6. \A i \in 1..n : i \in 1..Len(open)
        BY <2>1
    <2>. QED  BY <1>4, <1>7, <2>2, <2>3, <2>4, <2>5, <2>6 DEF Lodged
<1>11. Placed(k) = dst
    BY <1>2, <1>3, <1>5, <1>9, <1>10, PlacedHere
<1>. QED  BY <1>1, <1>5, <1>11 DEF Entered

------------------------------------------------------------------------------
(* What a refusal leaves. *)

\* But for its own place, and what is below that, and the length of the collector it is an
\* element of, a field that is refused leaves what the fields before it made of the message.
TouchedOnly(d, k) ==
    \A q : \/ Same(d, Meaning(k - 1), q)
           \/ q = PlaceOf(msg, k) \/ Under(q, PlaceOf(msg, k))
           \/ Element(msg, k) /\ Same(d, Begun(Meaning(k - 1), msg, k), q)
Untouched ==
    LET k == Answer(msg, fed).faulty IN k \in Fields(msg) /\ TouchedOnly(dst, k)

\* What holds of a field holds as long as the message does.
LEMMA TouchedOnlyStays ==
    ASSUME UNCHANGED <<msg, number, earlier>>, NEW d, NEW k \in Nat \ {0}
    PROVE  TouchedOnly(d, k)' <=> TouchedOnly(d, k)
<1>1. PICK n \in Nat : n = k - 1
    OBVIOUS
<1>2. Meaning(k - 1)' = Meaning(k - 1)
    BY <1>1, MeaningStays
<1>. QED  BY <1>2 DEF TouchedOnly

\* What is there when a message matches.
LEMMA MatchesTouches ==
    ASSUME IInv, Matches
    PROVE  TouchedOnly(dst, Site)
<1>1. PICK k \in Nat \ {0} : k = Site
    <2>1. Site \in Nat \ {0}
        BY SiteFacts, MessageFacts
    <2>. QED  BY <2>1
<1>2. MatchesAt(dst, k, Underway, pendDone)
    BY <1>1 DEF Matches
<1>3. \/ Wanted(Underway, k) = Meaning(k - 1)
      \/ Element(msg, k) /\ Wanted(Underway, k) = Begun(Meaning(k - 1), msg, k)
    BY DEF Wanted, Begun
<1>. QED  BY <1>1, <1>2, <1>3 DEF MatchesAt, TouchedOnly

\* What is there when an element has got its place.
LEMMA PlacedTouches ==
    ASSUME DecoderInv, ObjectInv, Shaped(dst), Matches, pc = "deliver", Takes, NEW k, k = cur.k
    PROVE  TouchedOnly(Placed(k), k)
<1>1. IInv /\ Located /\ Made(dst, Marks) /\ Inside(k)
    BY DeliversInside DEF DecoderInv, ObjectInv, PInv, Unrefused, Good
<1>2. k = Site /\ k \in msg.live
    BY <1>1, DeliverFacts
<1>3. MatchesAt(dst, k, Underway, pendDone)
    BY <1>2 DEF Matches
<1>4. Lodged(dst, msg, k)
    BY <1>3 DEF MatchesAt
<1>5. CASE Placed(k) = dst
    BY <1>1, <1>2, <1>5, MatchesTouches
<1>6. CASE Placed(k) # dst
    <2>1. ~Seated(dst, msg, k) /\ ~TestedFirst(At(msg, k))
        BY <1>1, <1>4, <1>6, PlacedHere
    <2>2. ~Underway /\ Element(msg, k)
        BY <1>3, <2>1 DEF MatchesAt, Seated
    <2>3. PICK e : e = Meaning(k - 1)
        OBVIOUS
    <2>4. \A r : Same(dst, e, r)
        BY <1>3, <2>2, <2>3 DEF MatchesAt, Wanted
    <2>5. \A q : Same(Placed(k), Begun(e, msg, k), q)
        BY <1>1, <2>1, <2>4, PlacedAlike
    <2>. QED  BY <2>2, <2>3, <2>5 DEF TouchedOnly
<1>. QED  BY <1>5, <1>6

\* What is there when a leaf has been put in its place.
LEMMA PutTouches ==
    ASSUME NEW d, NEW k, TouchedOnly(d, k), NEW leaf
    PROVE  TouchedOnly(Put(d, PlaceOf(msg, k), leaf), k)
<1>1. PICK own : own = PlaceOf(msg, k)
    OBVIOUS
<1>2. PICK e : e = Put(d, own, leaf)
    OBVIOUS
<1>3. \A q : q # own => There(e, q) = There(d, q)
    BY <1>2, PutThere
<1>4. \A q, other : q # own /\ Same(d, other, q) => Same(e, other, q)
    BY <1>3 DEF Same, Value
<1>. QED  BY <1>1, <1>2, <1>4 DEF TouchedOnly

\* What is there when a collector has been cleared.
LEMMA ClearedTouches ==
    ASSUME NEW d, NEW k, TouchedOnly(d, k)
    PROVE  TouchedOnly(Cleared(d, PlaceOf(msg, k)), k)
<1>1. PICK own : own = PlaceOf(msg, k)
    OBVIOUS
<1>2. PICK e : e = Cleared(d, own)
    OBVIOUS
<1>3. \A q : ~(q = own \/ Under(q, own)) => There(e, q) = There(d, q)
    BY <1>2, ClearedThere
<1>4. \A q, other : ~(q = own \/ Under(q, own)) /\ Same(d, other, q) => Same(e, other, q)
    BY <1>3 DEF Same, Value
<1>. QED  BY <1>1, <1>2, <1>4 DEF TouchedOnly

\* A payload that is delivered keeps the shape, whatever is found wrong with it.
LEMMA PayloadShape ==
    ASSUME DecoderInv, ObjectInv, Shaped(dst), Matches, Located, ObjectPayload
    PROVE  Shaped(dst') /\ TouchedOnly(dst', Site)
<1>1. /\ IInv /\ Good(dst, Marks) /\ pc = "deliver" /\ Current.type # "start"
      /\ Takes => RefusalOf(Current.use) = "None"
    BY DEF DecoderInv, ObjectInv, ObjectPayload, DeliverPayload
<1>2. CASE ~Takes
    BY <1>1, <1>2, MatchesTouches DEF ObjectPayload
<1>3. CASE Takes
    <2>1. PICK k : k = cur.k /\ k = Site /\ Inside(k)
        BY <1>1, <1>3, DeliversInside, DeliverFacts
    <2>2. PICK m \in Decodings : m = msg /\ k \in LiveFields(m) /\ k \in Fields(m)
        <3>1. msg \in Decodings /\ k \in LiveFields(msg)
            BY <1>1, <2>1 DEF IInv, InputTyped, Inside
        <3>. QED  BY <3>1, AroundLive
    <2>3. ~Collector(At(m, k)) /\ ~TestedFirst(At(m, k)) /\ Current = At(m, k)
        BY <1>1, <1>3, <2>1, <2>2, ReadNotTested DEF Current, Collector
    <2>4. PICK own : own = PlaceOf(m, k) /\ own = Here(k)
        BY <2>1, <2>2 DEF Inside, Here, PlaceOf
    <2>5. PICK placed : placed = Placed(k)
        OBVIOUS
    <2>6. Lodged(dst, m, k)
        BY <2>1, <2>2 DEF Matches, MatchesAt
    <2>7. Shaped(placed) /\ Lodged(placed, m, k) /\ Seated(placed, m, k)
        BY <1>1, <2>1, <2>2, <2>3, <2>5, <2>6, PlacedHere
    <2>8. PICK leaf : leaf = There(placed, own)
        OBVIOUS
    <2>9. leaf \in Leaves(Marks) /\ (StorageOf(k) = "clipped" => leaf.len <= Clip) /\ leaf.size = 0
        <3>1. Good(placed, Marks)
            BY <1>1, <2>1, <2>5, PlacedKeeps
        <3>2. leaf \in Leaves(Marks)
            BY <2>8, <3>1, ThereIs DEF Good
        <3>3. StorageOf(k) = "clipped" => leaf.len <= Clip
            BY <2>2, <2>4, <2>8, <3>1 DEF Good, Fits, FitsAt, StorageOf
        <3>4. leaf.size = 0
            BY <2>2, <2>3, <2>4, <2>7, <2>8 DEF Shaped, ShapedAt
        <3>. QED  BY <3>2, <3>3, <3>4
    <2>10. PICK new : new = Read(leaf, Current, StorageOf(k))
        OBVIOUS
    <2>11. new.size = 0 /\ new.size \in Nat
        BY <1>1, <2>1, <2>9, <2>10, MarksAre, ReadSize
    <2>12. PICK d : d = dst' /\ d = Put(placed, own, new)
        BY <1>3, <2>1, <2>4, <2>5, <2>8, <2>10 DEF ObjectPayload
    <2>13. Rooted(placed, m, k)
        BY <2>2, <2>7, LodgedSelf
    <2>14. IF Collector(At(m, k)) THEN new.len = 0 /\ new.size >= There(placed, PlaceOf(m, k)).size
           ELSE new.size = 0
        BY <2>3, <2>11
    <2>15. Shaped(Put(placed, PlaceOf(m, k), new))
        BY <2>2, <2>7, <2>11, <2>13, <2>14, PutShape
    <2>16. TouchedOnly(placed, k)
        BY <1>1, <1>3, <2>1, <2>5, PlacedTouches
    <2>17. TouchedOnly(Put(placed, PlaceOf(m, k), new), k)
        BY <2>2, <2>16, PutTouches
    <2>. QED  BY <2>1, <2>4, <2>12, <2>15, <2>17
<1>. QED  BY <1>2, <1>3

\* So does a delivery that is refused.
LEMMA RefusedShape ==
    ASSUME DecoderInv, ObjectInv, Shaped(dst), Matches, Located, ObjectRefused
    PROVE  Shaped(dst') /\ TouchedOnly(dst', Site)
<1>1. IInv /\ pc = "deliver" /\ Made(dst, Marks)
    BY DEF DecoderInv, ObjectInv, Good, ObjectRefused, DeliverRefused
<1>2. CASE ~Takes
    BY <1>1, <1>2, MatchesTouches DEF ObjectRefused
<1>3. CASE Takes
    <2>1. PICK k : k = cur.k /\ k = Site /\ Inside(k) /\ ~replay
        BY <1>1, <1>3, DeliversInside, DeliverFacts
    <2>2. Lodged(dst, msg, k)
        BY <2>1 DEF Matches, MatchesAt
    <2>3. Shaped(Placed(k)) /\ TouchedOnly(Placed(k), k)
        BY <1>1, <1>3, <2>1, <2>2, PlacedHere, PlacedTouches
    <2>4. CASE Current.type # "start"
        <3>1. dst' = Placed(k)
            BY <1>3, <2>1, <2>4 DEF ObjectRefused
        <3>. QED  BY <2>1, <2>3, <3>1
    <2>5. CASE Current.type = "start"
        <3>1. dst' = Entered(k)
            BY <1>3, <2>1, <2>5 DEF ObjectRefused
        <3>2. pend = NoPend
            BY <1>1, <2>1, <2>5 DEF Located, Pended, Delivering, Current
        <3>3. PICK e : e = Meaning(k - 1)
            OBVIOUS
        <3>4. \A r : Same(dst, e, r)
            <4>1. Wanted(Underway, k) = e
                BY <3>2, <3>3 DEF Wanted, Underway
            <4>. QED  BY <2>1, <3>2, <4>1 DEF Matches, MatchesAt, Underway
        <3>5. Shaped(Entered(k))
            BY <1>1, <2>1, <2>2, <2>5, <3>4, EnteredHere DEF Current
        <3>6. Entered(k) = IF Collector(At(msg, k)) THEN Cleared(Placed(k), PlaceOf(msg, k)) ELSE Placed(k)
            BY <2>1 DEF Entered, Inside, Here, PlaceOf
        <3>7. TouchedOnly(Entered(k), k)
            BY <2>3, <3>6, ClearedTouches
        <3>. QED  BY <2>1, <3>1, <3>5, <3>7
    <2>. QED  BY <2>4, <2>5
<1>. QED  BY <1>2, <1>3

\* So does a handler that is asked with the payload withheld.
LEMMA WithheldShape ==
    ASSUME DecoderInv, ObjectInv, Shaped(dst), Matches, Located, ObjectWithheld
    PROVE  Shaped(dst') /\ TouchedOnly(dst', Site)
<1>1. /\ IInv /\ Good(dst, Marks) /\ pc = "loop" /\ Avail > 0 /\ stack = <<>>
    BY DEF DecoderInv, ObjectInv, ObjectWithheld, RefuseWithheld, AtField, Withheld
<1>2. PICK m \in Decodings : m = msg /\ Laid(m)
    BY <1>1, MessageFacts DEF IInv, InputTyped
<1>3. PICK k \in Fields(m) : k = This /\ k = Site /\ k \in 1..Len(m.fields)
    BY <1>1, <1>2, LoopFacts DEF Fields
<1>4. PICK f : f = At(m, k)
    OBVIOUS
<1>5. TouchedOnly(dst, k)
    BY <1>1, <1>3, MatchesTouches
<1>6. CASE f.type \notin Sized \ {"fp"}
    <2>1. dst' = dst
        BY <1>2, <1>3, <1>4, <1>6 DEF ObjectWithheld
    <2>. QED  BY <1>3, <1>5, <2>1
<1>7. CASE f.type \in Sized \ {"fp"}
    <2>1. m.opens[k] = <<>> /\ ~Nested(m, k)
        <3>1. PICK open \in Seq(Nat) : open = OpenHere /\ Len(open) = Len(stack)
            BY <1>1, CallsAreHere, SiteFacts
        <3>2. Len(<<>>) = 0
            OBVIOUS
        <3>3. open = <<>>
            BY <1>1, <3>1, <3>2
        <3>. QED  BY <1>2, <1>3, <3>1, <3>3 DEF OpenHere, Nested
    <2>2. k \in LiveFields(m) /\ ~Collector(At(m, k))
        <3>1. ~Declining(f)
            BY <1>2, <1>3, <1>4, <1>7 DEF ObjectWithheld, RefuseWithheld
        <3>2. k \in m.live
            BY <1>2, <1>4, <2>1, <3>1, LiveInside DEF Declined, Declining, NotElement, PastBound
        <3>. QED  BY <1>4, <1>7, <3>2 DEF LiveFields, Collector, Sized, Fixlen
    <2>3. PICK own : own = PlaceOf(m, k) /\ own = Place(m, <<>>, k)
        BY <2>1 DEF PlaceOf
    <2>4. PICK leaf : leaf = There(dst, own)
        OBVIOUS
    <2>5. leaf \in Leaves(Marks)
        BY <1>1, <2>4, ThereIs DEF Good
    <2>6. StorageOf(k) = "clipped" => leaf.len <= Clip
        BY <1>1, <1>2, <2>2, <2>3, <2>4 DEF Good, Fits, FitsAt, StorageOf
    <2>7. leaf.size = 0
        BY <2>2, <2>3, <2>4 DEF Shaped, ShapedAt
    <2>8. PICK new : new = Withhold(leaf, f, StorageOf(k))
        OBVIOUS
    <2>9. new.size = 0 /\ new.size \in Nat
        <3>1. new.size \in {leaf.size, 0}
            BY <1>1, <1>2, <1>3, <1>4, <2>5, <2>6, <2>8, WithholdIs, MarksAre
        <3>. QED  BY <2>7, <3>1
    <2>10. dst' = Put(dst, own, new)
        BY <1>2, <1>3, <1>4, <1>7, <2>3, <2>4, <2>8 DEF ObjectWithheld
    <2>11. Rooted(dst, m, k)
        <3>1. Seated(dst, m, k)
            BY <2>1 DEF Seated, Element
        <3>2. Lodged(dst, m, k)
            BY <1>2, <1>3 DEF Matches, MatchesAt
        <3>. QED  BY <2>2, <3>1, <3>2, LodgedSelf
    <2>12. IF Collector(At(m, k)) THEN new.len = 0 /\ new.size >= There(dst, PlaceOf(m, k)).size
           ELSE new.size = 0
        BY <2>2, <2>9
    <2>13. Shaped(Put(dst, PlaceOf(m, k), new))
        BY <2>2, <2>9, <2>11, <2>12, PutShape
    <2>14. TouchedOnly(Put(dst, PlaceOf(m, k), new), k)
        BY <1>2, <1>5, PutTouches
    <2>. QED  BY <1>3, <2>3, <2>10, <2>13, <2>14
<1>. QED  BY <1>6, <1>7

------------------------------------------------------------------------------
(* The invariant. *)

MInv == Shaped(dst) /\ IF terminal = "None" THEN Matches ELSE Untouched

\* A refusal leaves what is there.
LEMMA RefusalUntouched ==
    ASSUME DecoderInv, SInv, VInv, terminal = "None",
           RefuseSpan \/ RefuseHeader \/ RefuseWithheld \/ DeliverRefused \/ RefusedPayload,
           UNCHANGED <<number, earlier>>, Shaped(dst'), TouchedOnly(dst', Site)
    PROVE  MInv'
<1>1. IInv /\ PInv /\ Passed
    BY DEF DecoderInv, VInv
<1>2. PICK e : \E i \in 1..11 :
            /\ Refused(e) /\ e = Rules(msg, Site, msg.budget)[i].error
            /\ Site \in Fields(msg) /\ Applies(msg, Site, i) /\ Passes(msg, Site, i - 1)
            /\ msg.start[Site] + ShownBy(At(msg, Site), i) <= fed
    BY <1>1, RefusalRule
<1>3. PICK k \in Fields(msg) : k = Site /\ Answer(msg, fed).faulty = k
    BY <1>1, <1>2, BadAnswer
<1>4. k \in Nat \ {0}
    BY <1>3 DEF Fields
<1>5. UNCHANGED <<msg, fed>>
    BY <1>2 DEF Refused, input
<1>6. terminal' # "None"
    <2>1. CASE RefusedPayload
        BY <2>1 DEF RefusedPayload, DeliverPayload, Refused
    <2>2. CASE RefuseSpan \/ RefuseHeader \/ RefuseWithheld \/ DeliverRefused
        BY <2>2, RefusalsLatch DEF Refused
    <2>. QED  BY <2>1, <2>2
<1>7. PICK d : d = dst' /\ Shaped(d) /\ TouchedOnly(d, k)
    BY <1>3
<1>8. TouchedOnly(d, k)'
    BY <1>4, <1>5, <1>7, TouchedOnlyStays
<1>9. Answer(msg, fed)'.faulty = k /\ k \in Fields(msg)'
    BY <1>3, <1>5 DEF Answer, Fields
<1>10. Untouched'
    BY <1>7, <1>8, <1>9 DEF Untouched
<1>. QED  BY <1>6, <1>7, <1>10 DEF MInv

\* A message that is about to be decoded is what it was.
LEMMA FreshMatches == Laid(msg) /\ NotBegun /\ earlier = dst => Matches
<1>. SUFFICES ASSUME Laid(msg), NotBegun, earlier = dst PROVE Matches
    OBVIOUS
<1>1. Site = 1 /\ msg.opens[1] = <<>>
    <2>1. Pos = 0 /\ pc = "idle"
        BY FirstPos DEF NotBegun
    <2>. QED  BY <2>1, FirstField DEF Site
<1>2. Underway = FALSE /\ pc # "deliver"
    BY DEF NotBegun, Underway
<1>3. Meaning(1 - 1) = dst
    BY MeaningIs DEF MeaningGoesOn
<1>4. Lodged(dst, msg, 1)
    BY <1>1 DEF Lodged
<1>5. MatchesAt(dst, 1, FALSE, pendDone)
    BY <1>3, <1>4 DEF MatchesAt, Wanted, Same
<1>. QED  BY <1>1, <1>2, <1>5 DEF Matches

\* The same of the next state.
LEMMA FreshMatchesNext == Laid(msg)' /\ NotBegun' /\ (earlier = dst)' => Matches'
BY FreshMatches, PTL

\* Nothing is out of place where nothing is.
LEMMA FreshIsShaped == Shaped(Fresh)
BY DEF Shaped, ShapedAt, Fresh, There, Empty, Collector

\* Another message begins; what is there then is what was there before it.
LEMMA ResetMeans ==
    ASSUME DecoderInv, MInv, NEW next \in LaterDecodings, ObjectReset(next)
    PROVE  MInv'
<1>1. next \in Decodings /\ ResetTo(next) /\ terminal' = "None"
    BY DEF ObjectReset, ResetTo, LaterDecodings
<1>2. NotBegun'
    BY <1>1 DEF ResetTo, windowVars, DecoderInv, IInv, WindowIsNext, Consumed, NotBegun
<1>3. Laid(msg)'
    BY <1>1, DecodingsAreLaid DEF ResetTo
<1>4. (earlier = dst)'
    BY DEF ObjectReset
<1>5. Matches'
    BY <1>2, <1>3, <1>4, FreshMatchesNext
<1>6. PICK d : d = dst' /\ Shaped(d)
    BY FreshIsShaped DEF ObjectReset, MInv
<1>7. Shaped(dst)'
    BY <1>6
<1>. QED  BY <1>1, <1>5, <1>7 DEF MInv

\* A refused decode stays as it is.
LEMMA RefusedMeans ==
    ASSUME DecoderInv, SInv, MInv, terminal # "None",
           [Silent \/ ObjectDescend \/ ObjectSequence \/ ObjectRefused \/ ObjectPayload
            \/ ObjectWithheld]_<<vars, objectVars>>
    PROVE  MInv'
<1>1. pc = "idle"
    BY DEF SInv
<1>2. UNCHANGED <<msg, fed, terminal, number, earlier, dst>>
    BY <1>1 DEF Silent, ObjectDescend, ObjectSequence, ObjectRefused, ObjectPayload, ObjectWithheld,
            KeepCarrying, ParseTheRest, Stash, Resume, LeaveLevel, WindowEnds, RefuseSpan, HeaderCut,
            RefuseHeader, SequenceOver, Accept, FeedNothing, Feed, Descend, DeliverSequence,
            DeliverRefused, DeliverPayload, RefuseWithheld, AtField, Parsed, input, vars, objectVars
<1>3. PICK k : k = Answer(msg, fed).faulty
    OBVIOUS
<1>4. k \in Fields(msg) /\ TouchedOnly(dst, k) /\ Shaped(dst)
    BY <1>3 DEF MInv, Untouched
<1>5. PICK d : d = dst /\ d = dst'
    BY <1>2
<1>6. k \in Nat \ {0}
    BY <1>4 DEF Fields
<1>7. TouchedOnly(d, k)'
    <2>1. TouchedOnly(d, k)
        BY <1>4, <1>5
    <2>. QED  BY <1>2, <1>6, <2>1, TouchedOnlyStays
<1>8. Answer(msg, fed)'.faulty = k /\ k \in Fields(msg)'
    <2>1. Answer(msg, fed)' = Answer(msg, fed)
        BY <1>2 DEF Answer
    <2>2. Fields(msg)' = Fields(msg)
        BY <1>2 DEF Fields
    <2>. QED  BY <1>3, <1>4, <2>1, <2>2
<1>9. Shaped(d)'
    BY <1>4, <1>5
<1>. QED  BY <1>2, <1>5, <1>7, <1>8, <1>9 DEF MInv, Untouched

\* The invariant behind a step that moves over no field.
LEMMA StayMeans ==
    ASSUME IInv, MInv, terminal = "None", UNCHANGED <<number, dst, earlier>>,
           Site' = Site, UNCHANGED <<msg, pend, terminal>>,
           pend # NoPend => pendDone' = pendDone,
           pc' = "deliver" /\ pend = NoPend => pendDone' = 0
    PROVE  MInv'
<1>1. Shaped(dst) /\ Matches
    BY DEF MInv
<1>2. Matches'
    BY <1>1, MatchesStay
<1>3. PICK d : d = dst /\ d = dst'
    OBVIOUS
<1>4. Shaped(d)'
    BY <1>1, <1>3
<1>. QED  BY <1>2, <1>3, <1>4 DEF MInv

\* Every step keeps the message at what it means.
LEMMA StepMeans ==
    DecoderInv /\ SInv /\ VInv /\ ObjectInv /\ MInv /\ [ObjectNext]_<<vars, objectVars>> => MInv'
<1>. SUFFICES ASSUME DecoderInv, SInv, VInv, ObjectInv, MInv, [ObjectNext]_<<vars, objectVars>>
              PROVE  MInv'
    OBVIOUS
<1>1. CASE \E next \in LaterDecodings : ObjectReset(next)
    BY <1>1, ResetMeans
<1>2. CASE /\ terminal # "None"
           /\ ~\E next \in LaterDecodings : ObjectReset(next)
    BY <1>2, RefusedMeans DEF ObjectNext
<1>3. CASE terminal = "None"
    <2>1. IInv /\ Located /\ Shaped(dst) /\ Matches
        BY <1>3 DEF DecoderInv, PInv, MInv
    <2>2. CASE UNCHANGED <<vars, objectVars>>
        <3>1. UNCHANGED <<number, dst, earlier>> /\ UNCHANGED vars
            BY <2>2 DEF objectVars
        <3>2. Site' = Site /\ UNCHANGED <<msg, terminal, pend, pendDone, pc>>
            BY <3>1, UnmovedHere
        <3>3. pc' = "deliver" /\ pend = NoPend => pendDone' = 0
            BY <2>1, <3>2 DEF Matches
        <3>. QED  BY <1>3, <2>1, <3>1, <3>2, <3>3, StayMeans
    <2>3. CASE Silent
        <3>1. UNCHANGED <<number, dst, earlier>>
            BY <2>3 DEF Silent, objectVars
        <3>2. CASE \/ (\E n \in 1..Bytes(msg) : Feed(n)) \/ FeedNothing \/ KeepCarrying \/ Stash
                   \/ ParseTheRest \/ LeaveLevel \/ WindowEnds \/ HeaderCut \/ Resume \/ Accept
            <4>1. pc # "deliver"
                BY <3>2 DEF Feed, FeedNothing, KeepCarrying, Stash, ParseTheRest, LeaveLevel, WindowEnds,
                        HeaderCut, Resume, Accept, AtField, Parsed
            <4>2. /\ Site' = Site /\ UNCHANGED <<msg, pend, terminal>>
                  /\ pend # NoPend => pendDone' = pendDone
                  /\ pc' = "deliver" /\ pend = NoPend => pendDone' = 0
                BY <1>3, <2>1, <3>2, <4>1, StillHere
            <4>. QED  BY <1>3, <2>1, <3>1, <4>2, StayMeans
        <3>3. CASE SequenceOver
            <4>1. Matches' /\ terminal' = "None"
                BY <1>3, <2>1, <3>1, <3>3, OverMatches DEF SequenceOver
            <4>2. PICK d : d = dst /\ d = dst'
                BY <3>1
            <4>3. Shaped(d)'
                BY <2>1, <4>2
            <4>. QED  BY <4>1, <4>2, <4>3 DEF MInv
        <3>4. CASE RefuseSpan \/ RefuseHeader
            <4>1. PICK d : d = dst /\ d = dst'
                BY <3>1
            <4>2. Shaped(d) /\ TouchedOnly(d, Site)
                BY <2>1, <4>1, MatchesTouches
            <4>. QED  BY <1>3, <3>1, <3>4, <4>1, <4>2, RefusalUntouched
        <3>. QED  BY <2>3, <3>2, <3>3, <3>4 DEF Silent
    <2>4. CASE ObjectDescend
        <3>1. Descend /\ UNCHANGED <<number, earlier>>
            BY <2>4 DEF ObjectDescend
        <3>2. dst' = dst
            BY <2>1, <2>4, <3>1, EnteredStays DEF ObjectDescend
        <3>3. /\ Site' = Site /\ UNCHANGED <<msg, pend, terminal>>
              /\ pend # NoPend => pendDone' = pendDone
              /\ pc' = "deliver" /\ pend = NoPend => pendDone' = 0
            BY <1>3, <2>1, <3>1, StillHere DEF Descend
        <3>. QED  BY <1>3, <2>1, <3>1, <3>2, <3>3, StayMeans
    <2>5. CASE ObjectSequence
        <3>1. Shaped(dst') /\ Matches'
            BY <2>1, <2>5, SequenceMatches
        <3>2. terminal' = "None"
            BY <1>3, <2>5 DEF ObjectSequence, DeliverSequence
        <3>. QED  BY <3>1, <3>2 DEF MInv
    <2>6. CASE ObjectRefused
        <3>1. Shaped(dst') /\ TouchedOnly(dst', Site)
            BY <2>1, <2>6, RefusedShape
        <3>. QED  BY <1>3, <2>6, <3>1, RefusalUntouched DEF ObjectRefused
    <2>7. CASE ObjectWithheld
        <3>1. Shaped(dst') /\ TouchedOnly(dst', Site)
            BY <2>1, <2>7, WithheldShape
        <3>. QED  BY <1>3, <2>7, <3>1, RefusalUntouched DEF ObjectWithheld
    <2>8. CASE ObjectPayload
        <3>1. DeliverPayload /\ UNCHANGED <<number, earlier>>
            BY <2>8 DEF ObjectPayload
        <3>2. CASE Over /\ (Faulty \/ Invalidated)
            <4>1. Shaped(dst') /\ TouchedOnly(dst', Site)
                BY <2>1, <2>8, PayloadShape
            <4>. QED  BY <1>3, <3>1, <3>2, <4>1, RefusalUntouched DEF RefusedPayload
        <3>3. CASE ~(Over /\ (Faulty \/ Invalidated))
            <4>1. Shaped(dst') /\ Matches'
                BY <2>1, <2>8, <3>3, PayloadMatches
            <4>2. terminal' = "None"
                BY <1>3, <3>1, <3>3 DEF DeliverPayload
            <4>. QED  BY <4>1, <4>2 DEF MInv
        <3>. QED  BY <3>2, <3>3
    <2>. QED  BY <1>1, <2>2, <2>3, <2>4, <2>5, <2>6, <2>7, <2>8 DEF ObjectNext
<1>. QED  BY <1>1, <1>2, <1>3

\* A message that has not begun to be decoded means what it is.
LEMMA InitMeans == ObjectInit => MInv
<1>. SUFFICES ASSUME ObjectInit PROVE MInv
    OBVIOUS
<1>1. Init /\ IInv /\ dst = Fresh /\ earlier = dst
    BY InitHolds DEF ObjectInit
<1>2. NotBegun /\ Laid(msg) /\ terminal = "None"
    BY <1>1, MessageFacts DEF Init, NotBegun
<1>. QED  BY <1>1, <1>2, FreshMatches, FreshIsShaped DEF MInv

\* Between two feeds the field at the next byte is the one the message is decoded up to.
LEMMA MeansExactly ==
    ASSUME DecoderInv, ObjectInv, MInv
    PROVE  ObjectExact
<1>. SUFFICES ASSUME Suspended PROVE ObjectExact
    BY DEF ObjectExact
<1>1. IInv /\ Located /\ Matches /\ pc = "idle"
    BY DEF DecoderInv, PInv, MInv, Suspended
<1>2. PICK k \in Nat \ {0} : k = NextField /\ k = Site
    <2>1. Unread = Pos + 1
        BY <1>1, PosFacts DEF Unread
    <2>2. NextField = Site
        BY <1>1, <2>1 DEF NextField, Site, FieldAfter
    <2>3. Site \in Nat \ {0}
        BY <1>1, SiteFacts, MessageFacts
    <2>. QED  BY <2>2, <2>3
<1>3. InProgress <=> Underway
    BY <1>1 DEF InProgress, Underway, Located, Between
<1>4. MatchesAt(dst, k, Underway, pendDone)
    BY <1>1, <1>2 DEF Matches
<1>5. PICK want : want = IF InProgress THEN Begun(Meaning(k - 1), msg, k) ELSE Meaning(k - 1)
    OBVIOUS
<1>6. \A q : ~(InProgress /\ q = PlaceOf(msg, k)) => Same(dst, want, q)
    BY <1>3, <1>4, <1>5 DEF MatchesAt, Wanted
<1>7. ASSUME InProgress, NEW kept, kept = Min({pendDone, Kept(msg, k)})
      PROVE  SubSeq(There(dst, PlaceOf(msg, k)).buf, 1, kept) = SubSeq(Units(msg, k), 1, kept)
    <2>1. k \in 1..Len(msg.fields) /\ pendDone \in Nat
        <3>1. k \in msg.live /\ msg.live \subseteq Fields(msg)
            BY <1>1, <1>2, <1>3, <1>7, StartsAre DEF Underway
        <3>. QED  BY <1>1, <3>1 DEF Fields, IInv, HalfDelivered
    <2>2. PICK last \in Nat : last = Kept(msg, k)
        BY <1>1, <2>1, ReadableIs, KeptIs
    <2>3. kept \in Nat /\ kept <= pendDone /\ kept <= last
        <3>1. kept = IF pendDone <= last THEN pendDone ELSE last
            BY <1>7, <2>1, <2>2, MinOfTwo
        <3>. QED  BY <2>1, <2>2, <3>1
    <2>4. PICK buf : buf = There(dst, PlaceOf(msg, k)).buf
        OBVIOUS
    <2>5. buf \in Seq(UnitsOf(Marks))
        BY <2>4, ThereIs, LeafIs DEF ObjectInv, Good
    <2>6. PICK units \in Seq(UnitsOf(Marks)) : units = Units(msg, k) /\ Len(units) = last
        BY <1>1, <2>1, <2>2, UnitsAre, MarksAre
    <2>7. Has(buf, pendDone, last, units)
        BY <1>3, <1>4, <1>7, <2>2, <2>4, <2>6 DEF MatchesAt, Holds
    <2>8. \A i \in 1..kept : i <= Len(buf) /\ buf[i] = units[i]
        BY <2>1, <2>2, <2>3, <2>7 DEF Has
    <2>9. kept \in 0..Len(buf) /\ kept \in 0..Len(units)
        <3>1. kept <= Len(buf)
            <4>1. CASE kept = 0
                BY <2>5, <4>1
            <4>2. CASE kept # 0
                BY <2>3, <2>8, <4>2
            <4>. QED  BY <4>1, <4>2
        <3>. QED  BY <2>2, <2>3, <2>5, <2>6, <3>1
    <2>10. PICK a \in Seq(UnitsOf(Marks)) : a = SubSeq(buf, 1, kept)
        BY <2>5, <2>9, CutIs
    <2>11. Len(a) = kept /\ \A i \in 1..kept : a[i] = buf[i]
        BY <2>5, <2>9, <2>10, CutIs
    <2>12. PICK b \in Seq(UnitsOf(Marks)) : b = SubSeq(units, 1, kept)
        BY <2>9, CutIs
    <2>13. Len(b) = kept /\ \A i \in 1..kept : b[i] = units[i]
        BY <2>9, <2>12, CutIs
    <2>14. a = b
        BY <2>8, <2>11, <2>13
    <2>. QED  BY <2>4, <2>6, <2>10, <2>12, <2>14
<1>. QED  BY <1>2, <1>5, <1>6, <1>7 DEF ObjectExact

\* All invariants together, of every message on one stream.
LEMMA MeansThroughout == ObjectSpec => []DecoderInv /\ []ObjectInv /\ []MInv
<1>. DEFINE All == DecoderInv /\ ObjectInv /\ SInv /\ VInv /\ MInv
<1>1. ObjectInit => All
    <2>1. ObjectInit => Init
        BY DEF ObjectInit
    <2>. QED  BY <2>1, ObjectInitHolds, InitSpans, InitFlawless, InitMeans
<1>2. All /\ [ObjectNext]_<<vars, objectVars>> => All'
    <2>. SUFFICES ASSUME All, [ObjectNext]_<<vars, objectVars>> PROVE All'
        OBVIOUS
    <2>1. [Next \/ AnyReset]_vars
        BY ObjectSteps
    <2>2. DecoderInv' /\ ObjectInv'
        BY ObjectStepKeeps
    <2>3. SInv' /\ VInv'
        BY <2>1, StepSpans, StepFlawless DEF DecoderInv
    <2>4. MInv'
        BY StepMeans
    <2>. QED  BY <2>2, <2>3, <2>4
<1>. QED  BY <1>1, <1>2, PTL DEF ObjectSpec

------------------------------------------------------------------------------
(* Theorems. *)

\* The decoder's own invariant, and that of the message decoded into, along any number of
\* messages on one stream.
THEOREM ObjectInvariant == ObjectSpec => []DecoderInv /\ []ObjectInv
BY ObjectInitHolds, ObjectStepKeeps, PTL DEF ObjectSpec

\* No value is ever longer than the buffer it is kept in, whatever storage it is read into
\* and however the bytes were cut (sofab.hpp:3560-3667, 5513-5885).
THEOREM ObjectTyped == ObjectSpec => []ObjectTypeOK
<1>1. ObjectInv => ObjectTypeOK
    <2>. SUFFICES ASSUME ObjectInv, NEW q \in DOMAIN dst
                  PROVE  /\ \A i \in DOMAIN dst[q].buf :
                              dst[q].buf[i].of \in 0..number /\ dst[q].buf[i].byte \in Nat
                         /\ dst[q].len \in 0..Len(dst[q].buf) /\ dst[q].size \in Nat
        BY DEF ObjectInv, ObjectTypeOK
    <2>1. PICK leaf \in Leaves(Marks) : leaf = dst[q]
        BY DEF ObjectInv, Good, Made
    <2>2. leaf.buf \in Seq(UnitsOf(Marks)) /\ leaf.len \in Nat /\ leaf.size \in Nat /\ leaf.len <= Len(leaf.buf)
        BY LeafIs
    <2>3. ASSUME NEW i \in DOMAIN leaf.buf PROVE leaf.buf[i].of \in 0..number /\ leaf.buf[i].byte \in Nat
        <3>1. leaf.buf[i] \in UnitsOf(Marks)
            BY <2>2
        <3>. QED  BY <3>1, MarksAre DEF UnitsOf
    <2>. QED  BY <2>1, <2>2, <2>3
<1>. QED  BY <1>1, ObjectInvariant, PTL

\* An IStreamObject shows nothing of an earlier message (sofab.hpp:6250).
THEOREM NothingOfEarlierMessages == ObjectSpec => []NothingLeftOver
<1>1. ObjectInv => NothingLeftOver
    <2>. SUFFICES ASSUME ObjectInv, holder = "object", NEW q \in DOMAIN dst, NEW i \in DOMAIN dst[q].buf
                  PROVE  dst[q].buf[i].of \in {0, number}
        BY DEF NothingLeftOver
    <2>1. PICK leaf \in Leaves(Marks) : leaf = dst[q]
        BY DEF ObjectInv, Good, Made
    <2>2. leaf.buf \in Seq(UnitsOf(Marks))
        BY LeafIs
    <2>3. leaf.buf[i] \in UnitsOf(Marks)
        BY <2>1, <2>2
    <2>. QED  BY <2>1, <2>3 DEF UnitsOf, Marks
<1>. QED  BY <1>1, ObjectInvariant, PTL

\* A collector never has more elements than its bounds allow, for any bounds, so that
\* emplace_back is never called on a full InlineVector (sofab.hpp:1258-1275, 6826, 7076).
THEOREM CollectorsBounded == ObjectSpec => []CollectorsWithinBounds
<1>1. DecoderInv /\ ObjectInv => CollectorsWithinBounds
    <2>. SUFFICES ASSUME DecoderInv, ObjectInv PROVE CollectorsWithinBounds
        OBVIOUS
    <2>1. msg \in Decodings
        BY DEF DecoderInv, IInv, InputTyped
    <2>. QED  BY <2>1 DEF ObjectInv, Good, Fits, FitsAt, CollectorsWithinBounds
<1>. QED  BY <1>1, ObjectInvariant, PTL

\* A decoder that was reset in the middle of a message, and is then fed another one, enters
\* and delivers what that one was suspended in; what pathId_ and pathSkip_ keep of the
\* earlier message is never entered (3042-3088, and reset() at sofab.hpp:4424).
THEOREM ReusedResumesWhereItWas == ObjectSpec => []PathIsOpen
<1>1. DecoderInv => PathIsOpen
    BY LocatedIsOpen DEF DecoderInv
<1>. QED  BY <1>1, ObjectInvariant, PTL

\* Between two feeds every place of the message holds what the whole fields so far make of
\* it, for any storage, any cut of the bytes and any earlier content; the field that is under
\* way loses nothing of what arrived (sofab.hpp:5298, 5860, 6791-6830, 7043-7119).
THEOREM MeansWhatItShould == ObjectSpec => []ObjectExact
BY MeansExactly, MeansThroughout, PTL

\* A refused field touches its own place, what is below that, and the length of the collector
\* it is an element of; what was decoded before it stays (sofab.hpp:6285-6286).
THEOREM RefusalTouchesItsOwn == ObjectSpec => []RefusalKeepsFields
<1>1. DecoderInv /\ MInv => RefusalKeepsFields
    BY DEF MInv, Untouched, TouchedOnly, RefusalKeepsFields
<1>. QED  BY <1>1, MeansThroughout, PTL
=============================================================================
