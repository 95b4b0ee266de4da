---------------------------- MODULE FieldStream ----------------------------
(* The bytes a decoder is fed, as far as IStreamImpl of sofab.hpp tells them   *)
(* apart, and what a decode of the first n of them has to answer.              *)
(*                                                                             *)
(* A message is a sequence of fields; its bytes are numbered from 1.  A field  *)
(* is a tag, the words behind the tag, and a payload of units of the same      *)
(* width: the bytes of a string, the elements of an array, the one varint of   *)
(* a scalar.  What the receiver does with a field (its schema, its limits and  *)
(* the capacity of its destinations) is an attribute of the field too: the     *)
(* decoder learns it when it delivers the field to the handler.                *)
EXTENDS Integers, SequencesExt

CONSTANTS
    Alphabet,       \* the fields messages are made of: name -> Field
    Messages,       \* the messages a stream is fed with, as sequences of names
    Budgets,        \* the values of Limits::max_buffered_field
    MAX_DEPTH,      \* deepest legal nesting of sequences
    CARRY_CAP       \* bytes of a cut item a decoder can hold: three varints

Fixlen == {"fp", "string", "blob"}              \* one wire type, three subtypes
Sized == Fixlen \cup {"ints", "floats"}         \* a length or a count is announced
Varints == {"varint", "ints"}                   \* the payload is varints

Field == [type : {"varint", "start", "end"} \cup Sized,
          id : Nat,
          tag : Nat \ {0},          \* bytes of the tag
          meta : Nat,               \* bytes of the length or count words
          units : Nat, width : Nat, \* the payload
          fault : {"none", "tag", "meta", "payload"},   \* where it is malformed
          use : {"read", "unknown", "mismatch", "judged", "overSchema", "overCap", "overDest"},
          elem : STRING,            \* of a collector: the type its elements have,
          bound : [schema : Int, dyn : Int, dest : Int]]  \* and what bounds their
                                    \* index: cap, dynCap and elemDestCap, or -1

Header(f) == f.tag + f.meta
Size(f) == Header(f) + f.units * f.width

\* The bounds a collector's element index has to stay below; the receiver's own cap
\* counts only where the schema gives none.
IndexBounds(c) ==
    {IF c.bound.schema >= 0 THEN c.bound.schema ELSE c.bound.dyn, c.bound.dest} \ {-1}
IndexError(c, id) ==
    CASE c.bound.schema >= 0 /\ id >= c.bound.schema -> "InvalidMessage"
      [] c.bound.schema < 0 /\ c.bound.dyn >= 0 /\ id >= c.bound.dyn -> "LimitExceeded"
      [] OTHER -> "InvalidArgument"

\* How the receiver refuses a field whose announced size it will not take.
RefusalOf(use) ==
    CASE use = "overSchema" -> "InvalidMessage"
      [] use = "overCap" -> "LimitExceeded"
      [] use = "overDest" -> "InvalidArgument"
      [] OTHER -> "None"

\* Well-formed and out of range: a scalar, found so by the handler that has read it, or
\* the last element of an array, by the bounds that were given with the read.
Judged(f) == f.use = "judged"

ASSUME FieldAssumption ==
    /\ Budgets \subseteq Nat /\ MAX_DEPTH \in Nat \ {0} /\ CARRY_CAP \in Nat \ {0}
    /\ Alphabet \in [DOMAIN Alphabet -> Field]
    /\ Messages \subseteq Seq(DOMAIN Alphabet)
    /\ \A x \in DOMAIN Alphabet :
        LET f == Alphabet[x] IN
        /\ Header(f) <= CARRY_CAP /\ f.width \in 1..CARRY_CAP
        /\ f.type \in {"start", "end"} => f.units = 0 /\ f.meta = 0
        /\ RefusalOf(f.use) # "None" => f.type \in Sized
        /\ f.use = "judged" => f.type \in {"varint", "fp", "ints"} /\ f.units > 0
        /\ f.fault = "meta" => f.meta > 0
        /\ f.fault = "payload" => f.units > 0 /\ f.type \in Varints \cup {"string"}

------------------------------------------------------------------------------
(* Where the fields of a message are: a layout m has their names (m.fields),   *)
(* the bytes in front of each (m.start), the sequences open there, outermost   *)
(* first (m.opens), and the field each byte belongs to (m.owner).              *)

Known == Alphabet       \* TLC evaluates a definition once, a constant at each use
At(m, k) == Known[m.fields[k]]
Fields(m) == 1..Len(m.fields)
Bytes(m) == m.start[Len(m.fields) + 1]

\* Where the fields of a word end, and what is open there; 0 is its beginning.
Ends(word) ==
    LET end[k \in 0..Len(word)] == IF k = 0 THEN 0 ELSE end[k - 1] + Size(Known[word[k]])
    IN end
Inner(open, k, type) ==
    CASE type = "start" -> Append(open, k)
      [] type = "end" /\ open # <<>> -> SubSeq(open, 1, Len(open) - 1)
      [] OTHER -> open
Open(word) ==
    LET open[k \in 0..Len(word)] ==
            IF k = 0 THEN <<>> ELSE Inner(open[k - 1], k, Known[word[k]].type)
    IN open

Layout(word) ==
    LET end == Ends(word) IN
    [fields |-> word,
     start |-> [k \in 1..(Len(word) + 1) |-> end[k - 1]],
     opens |-> [k \in 1..(Len(word) + 1) |-> Open(word)[k - 1]],
     owner |-> [b \in 1..end[Len(word)] |->
                   CHOOSE k \in 1..Len(word) : end[k - 1] < b /\ b <= end[k]]]

Nested(m, k) == m.opens[k] # <<>>
Outer(m, k) == m.opens[k][Len(m.opens[k])]

------------------------------------------------------------------------------
(* What is declined: walked over, never delivered. *)

\* An index at or past the bound of the collector the field is an element of.
PastBound(m, k) ==
    /\ Nested(m, k) /\ At(m, k).type # "end"
    /\ \E b \in IndexBounds(At(m, Outer(m, k))) : At(m, k).id >= b

\* Such a field is skipped when it does not have the type of the elements, which
\* shows at its tag or, when only the subtype differs, behind its length word.
NotElement(m, k) == PastBound(m, k) /\ At(m, k).type # At(m, Outer(m, k)).elem

Declined(m, k) == At(m, k).use \in {"unknown", "mismatch"} \/ NotElement(m, k)
\* No sequence around field k is declined.
Reached(m, k) == \A i \in 1..Len(m.opens[k]) : ~Declined(m, m.opens[k][i])
Live(m, k) == Reached(m, k) /\ ~Declined(m, k)

\* From here on m.live has the live fields.
WithLive(m) ==
    [fields |-> m.fields, start |-> m.start, opens |-> m.opens, owner |-> m.owner,
     live |-> {k \in Fields(m) : Live(m, k)}]
Offered(m, k) == Nested(m, k) => Outer(m, k) \in m.live

\* The last field of the one that starts at k: for a sequence, its end.
LastOf(m, k) ==
    IF At(m, k).type # "start" THEN k
    ELSE CHOOSE e \in k..Len(m.fields) : At(m, e).type = "end" /\ m.opens[e] = Append(m.opens[k], k)
Extent(m, k) == m.start[LastOf(m, k) + 1] - m.start[k]

\* The bytes between the start of the top-level field around k and k itself.
Spanned(m, k) == m.start[k] - m.start[m.opens[k][1]]
Before(m, k) == {j \in (m.opens[k][1] + 1)..(k - 1) : At(m, j).type # "end"}

\* README.md:322-332: the bytes of every declined subtree are discounted once.
OnceDiscounted(m, k) ==
    MapThenSumSet(LAMBDA j : Extent(m, j),
                  {j \in Before(m, k) : Offered(m, j) /\ j \notin m.live})
\* What the code discounts: a field inside a declined subtree is discounted for
\* itself and again for every declined sequence around it, so that each of its bytes
\* counts as often as there are declined fields it is in; every top-level field begins
\* anew.
TimesDeclined(m, k) ==
    Cardinality({d \in DOMAIN m.opens[k] : m.opens[k][d] \notin m.live})
        + IF k \in m.live \/ At(m, k).type = "end" THEN 0 ELSE 1
Discounts(m) ==
    LET sum[k \in 1..(Len(m.fields) + 1)] ==
            IF k = 1 \/ ~Nested(m, k - 1) THEN 0
            ELSE sum[k - 1] + Size(At(m, k - 1)) * TimesDeclined(m, k - 1)
    IN sum
Discounted(m, k) == Discounts(m)[k]
Less(n, d) == IF n > d THEN n - d ELSE 0

------------------------------------------------------------------------------
(* The answer to the first n bytes. *)

Exceeds(seen, f, budget) ==
    \/ seen > budget
    \/ (CASE f.type \in Fixlen \cup {"floats"} -> f.units * f.width
          [] f.type = "ints" -> f.units
          [] OTHER -> 0) > budget - seen

\* The ways field k can end a decode, in the order they are found: whether it does,
\* how many bytes of the field it takes to see it, and the verdict.
Rules(m, k, budget) ==
    LET f == At(m, k)
        reached == Offered(m, k)
        live == k \in m.live
        element == reached /\ PastBound(m, k) /\ f.type = At(m, Outer(m, k)).elem
        tier == IF Nested(m, k) THEN IndexError(At(m, Outer(m, k)), f.id) ELSE "None"
        rule(when, at, e) == [when |-> when, at |-> m.start[k] + at, error |-> e]
    IN << rule(Nested(m, k) /\ reached
                 /\ Less(Spanned(m, k), Discounted(m, k)) > budget, 1, "LimitExceeded"),
          rule(f.fault = "tag", f.tag, "InvalidMessage"),
          rule(f.type = "end" /\ ~Nested(m, k), f.tag, "InvalidMessage"),
          rule(element /\ f.type \notin Fixlen, f.tag, tier),
          rule(f.fault = "meta", Header(f), "InvalidMessage"),
          rule(element, Header(f), tier),
          rule(~Nested(m, k) /\ Exceeds(Header(f), f, budget)
                 /\ ~(f.type \in Sized /\ ~live),
               Header(f), IF f.use = "overSchema" THEN "InvalidMessage" ELSE "LimitExceeded"),
          rule(live /\ RefusalOf(f.use) # "None", Header(f), RefusalOf(f.use)),
          rule(f.type = "start" /\ Len(m.opens[k]) >= MAX_DEPTH, Header(f), "InvalidMessage"),
          rule(f.fault = "payload" /\ (live \/ f.type \in Varints), Size(f), "InvalidMessage"),
          rule(live /\ Judged(f), Size(f), "InvalidMessage") >>

\* The fault of field k: the first rule that applies, or one that never shows.
Never(m) == [when |-> TRUE, at |-> Bytes(m) + 1, error |-> "None"]
FirstOf(rules) ==
    rules[CHOOSE i \in DOMAIN rules : rules[i].when /\ \A j \in 1..(i - 1) : ~rules[j].when]
Fault(m, k, budget) == FirstOf(Append(Rules(m, k, budget), Never(m)))

\* A message as it is to be decoded within a budget: where its fields are, which of
\* them are delivered, and how each of them can end the decode.
Decoding(word, budget) ==
    LET m == WithLive(Layout(word))
    IN [fields |-> m.fields, start |-> m.start, opens |-> m.opens, owner |-> m.owner,
        live |-> m.live, budget |-> budget, fault |-> [k \in Fields(m) |-> Fault(m, k, budget)]]

Decodings == {Decoding(word, budget) : word \in Messages, budget \in Budgets}

\* The verdict on the first n bytes and, when they are refused, the field that is
\* at fault: the first one whose fault shows within them.
Answer(m, n) ==
    LET faulty == {k \in Fields(m) : m.fault[k].at <= n}
        first == CHOOSE k \in faulty : \A j \in faulty : k <= j
        whole == \E k \in 1..(Len(m.fields) + 1) : m.start[k] = n /\ m.opens[k] = <<>>
    IN IF faulty # {} THEN [verdict |-> m.fault[first].error, faulty |-> first]
       ELSE [verdict |-> IF whole THEN "None" ELSE "Incomplete", faulty |-> 0]

\* The payload bytes of the fields 1..last a receiver holds when n bytes are in,
\* each with the sequences it was delivered through: a unit when all of it is there.
UnitEnd(m, b) ==
    LET k == m.owner[b]
        first == m.start[k] + Header(At(m, k))
        w == At(m, k).width
    IN first + ((b - first + w - 1) \div w) * w
InPayload(m, b) ==
    LET k == m.owner[b] IN k \in m.live /\ b > m.start[k] + Header(At(m, k))
Values(m, n, last) ==
    LET held(b) == InPayload(m, b) /\ m.owner[b] <= last /\ UnitEnd(m, b) <= n
        value(b) == <<m.opens[m.owner[b]], b>>
        values[b \in 0..n] ==
            IF b = 0 THEN <<>>
            ELSE IF held(b) THEN Append(values[b - 1], value(b)) ELSE values[b - 1]
    IN values[n]

\* How many fields were skipped because they contradict the receiver's schema.
Skips(m, n) ==
    Cardinality({k \in Fields(m) : /\ Offered(m, k)
                                   /\ At(m, k).use = "mismatch" \/ NotElement(m, k)
                                   /\ m.start[k] + Header(At(m, k)) <= n})
==============================================================================
