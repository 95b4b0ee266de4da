-------------------------- MODULE MCObjectDecoder --------------------------
(* A small instance of the object decoders: one message type with a field for  *)
(* each kind of storage, a nested message and a collector of each kind; the    *)
(* messages repeat, reorder, leave gaps, are refused half way, and follow each *)
(* other on one stream.                                                        *)
EXTENDS ObjectDecoder

unbounded == [schema |-> -1, dyn |-> -1, dest |-> -1]
f(type, id, units, width) ==
    [type |-> type, id |-> id, tag |-> 1, meta |-> IF type \in Sized THEN 1 ELSE 0,
     units |-> units, width |-> width, fault |-> "none", use |-> "read", elem |-> "none",
     bound |-> unbounded]
used(x, use) == [x EXCEPT !.use = use]
bad(x) == [x EXCEPT !.fault = "payload"]
collects(id, type, schema, dyn, dest) ==
    [f("start", id, 0, 1) EXCEPT !.elem = type,
                                 !.bound = [schema |-> schema, dyn |-> dyn, dest |-> dest]]

\* name, array and few come in two lengths, so that a repetition may be shorter.
MCAlphabet == [
    flag |-> f("varint", 0, 1, 2),
    name |-> f("string", 1, 3, 1), nick |-> f("string", 1, 1, 1), badName |-> bad(f("string", 1, 2, 1)),
    label |-> f("string", 2, 2, 1), tag |-> f("string", 2, 1, 1), badTag |-> bad(f("string", 2, 2, 1)),
    wide |-> used(f("string", 2, 2, 1), "overDest"),
    list |-> f("ints", 3, 2, 2), short |-> f("floats", 3, 1, 2), badList |-> bad(f("ints", 3, 2, 1)),
    few |-> f("ints", 4, 2, 1), one |-> f("ints", 4, 1, 1), none |-> f("ints", 4, 0, 1),
    many |-> used(f("ints", 4, 2, 1), "overDest"),
    pair |-> f("floats", 5, 2, 2), half |-> f("floats", 5, 1, 2),
    big |-> f("blob", 6, 5, 1), bigFew |-> f("ints", 4, 5, 1),
    raw |-> f("blob", 11, 3, 1), rawFew |-> f("blob", 11, 1, 1),
    span |-> f("ints", 12, 3, 1), spanFew |-> f("ints", 12, 1, 1), badSpan |-> bad(f("ints", 12, 3, 1)),
    judged |-> used(f("varint", 0, 1, 1), "judged"), judgedFew |-> used(f("ints", 4, 2, 1), "judged"),
    sub |-> f("start", 7, 0, 1), end |-> f("end", 0, 0, 1),
    texts |-> collects(8, "string", 3, -1, 2),
    rows |-> collects(9, "ints", -1, 2, -1),
    subs |-> collects(10, "start", -1, -1, 2),
    t0 |-> f("string", 0, 2, 1), t1 |-> f("string", 1, 1, 1), t2 |-> f("string", 2, 1, 1),
    t3 |-> f("string", 3, 1, 1), badT1 |-> bad(f("string", 1, 2, 1)),
    longT1 |-> used(f("string", 1, 2, 1), "overSchema"),
    wideT1 |-> used(f("string", 1, 2, 1), "overDest"),
    otherT1 |-> used(f("blob", 1, 1, 1), "mismatch"),
    r0 |-> f("ints", 0, 1, 1), r1 |-> f("ints", 1, 2, 1), r2 |-> f("ints", 2, 1, 1),
    manyR1 |-> used(f("ints", 1, 2, 1), "overCap"),
    s0 |-> f("start", 0, 0, 1), s1 |-> f("start", 1, 0, 1), s2 |-> f("start", 2, 0, 1)]

Capacities == {"label", "tag", "badTag", "wide", "few", "one", "none", "many", "judgedFew", "bigFew",
               "t0", "t1", "t2", "t3", "badT1", "longT1", "wideT1", "otherT1"}
MCStorage == [x \in DOMAIN MCAlphabet |->
    CASE x \in Capacities -> "capacity"
      [] x \in {"pair", "half"} -> "extent"
      [] x \in {"raw", "rawFew", "span", "spanFew", "badSpan"} -> "clipped"
      [] MCAlphabet[x].type \in Sized \ {"fp"} -> "resizable"
      [] OTHER -> "scalar"]

collection(c, elements) == <<c>> \o elements \o <<"end">>
Repeats ==
    {<<"name", "nick">>, <<"nick", "name">>, <<"label", "tag">>, <<"tag", "label">>,
     <<"list", "short">>, <<"short", "list">>, <<"few", "one">>, <<"one", "few">>,
     <<"few", "none">>, <<"pair", "half">>, <<"flag", "flag">>,
     <<"rawFew", "raw">>, <<"raw", "rawFew">>, <<"span", "spanFew">>}
Refusals ==
    {<<"nick", "badName">>, <<"label", "badTag">>, <<"tag", "wide">>, <<"short", "badList">>,
     <<"few", "many">>, <<"few", "bigFew">>, <<"flag", "big">>, <<"spanFew", "badSpan">>,
     <<"flag", "judged">>, <<"one", "judgedFew">>}
Collections ==
    {collection("texts", e) : e \in
        {<<"t1", "t0">>, <<"t0", "t0">>, <<"t0", "t2">>, <<"t3">>, <<"t0", "badT1">>,
         <<"t0", "longT1">>, <<"wideT1">>, <<"otherT1", "t0">>}}
    \cup {collection("rows", e) : e \in {<<"r1", "r0">>, <<"r1", "r1">>, <<"r0", "r2">>, <<"manyR1">>}}
    \cup {collection("texts", <<"t1">>) \o collection("texts", <<"t0">>),
          collection("rows", <<"r1">>) \o <<"flag">> \o collection("rows", <<"r0">>)}
Nestings ==
    {collection("sub", <<"tag">>) \o collection("sub", <<"nick">>),
     collection("subs", collection("s1", <<"nick">>) \o collection("s0", <<"few">>)),
     collection("subs", collection("s1", <<"tag">>) \o collection("s1", <<"one">>)),
     collection("subs", collection("s0", collection("texts", <<"t1", "t0">>))),
     collection("subs", collection("s0", collection("rows", <<>>)) \o <<"s2", "end">>),
     collection("subs", collection("s1", collection("subs", <<"s0", "end">>)))}

MCLater ==
    {<<"half", "tag">>, <<"nick">>, collection("texts", <<"t1">>), collection("rows", <<"r1">>)}
MCMessages == Repeats \cup Refusals \cup Collections \cup Nestings \cup MCLater
=============================================================================
