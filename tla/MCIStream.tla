----------------------------- MODULE MCIStream -----------------------------
(* A small instance of the decoder: messages of up to six fields over an       *)
(* alphabet that has one field of each kind the decoder tells apart.  No       *)
(* header and no element is longer than CARRY_CAP, and some have exactly that  *)
(* size.                                                                       *)
EXTENDS IStream

f(type, id, tag, meta, units, width) ==
    [type |-> type, id |-> id, tag |-> tag, meta |-> meta, units |-> units,
     width |-> width, fault |-> "none", use |-> "read", elem |-> "none",
     bound |-> [schema |-> -1, dyn |-> -1, dest |-> -1]]
varint == f("varint", 1, 1, 0, 1, 2)
text == f("string", 2, 1, 1, 2, 1)
bytes == f("blob", 0, 1, 1, 2, 1)
ints == f("ints", 3, 1, 1, 2, 2)
floats == f("floats", 4, 2, 2, 1, 4)
double == f("fp", 5, 1, 1, 1, 3)
start == f("start", 6, 1, 0, 0, 1)

used(x, use) == [x EXCEPT !.use = use]
bad(x, fault) == [x EXCEPT !.fault = fault]
collects(type, schema, dyn, dest) ==
    [start EXCEPT !.elem = type, !.bound = [schema |-> schema, dyn |-> dyn, dest |-> dest]]

MCAlphabet == [
    varint |-> varint, text |-> text, ints |-> ints, bytes |-> bytes,
    floats |-> floats, double |-> double, empty |-> [text EXCEPT !.units = 0],
    start |-> start, end |-> f("end", 0, 1, 0, 0, 1),
    texts |-> collects("string", 2, 1, 1),
    varints |-> collects("varint", -1, 1, 2),
    otherStart |-> used(start, "unknown"), wrongStart |-> used(start, "mismatch"),
    otherBytes |-> used(bytes, "unknown"), otherInts |-> used(ints, "unknown"),
    otherFloats |-> used(floats, "unknown"), wrongDouble |-> used(double, "mismatch"),
    badTag |-> bad(varint, "tag"), badLength |-> bad(text, "meta"),
    badCount |-> bad(ints, "meta"), badText |-> bad(text, "payload"),
    badInts |-> bad(ints, "payload"), judged |-> used(varint, "judged"),
    judgedInts |-> used(ints, "judged"), longText |-> used(text, "overSchema"),
    longBytes |-> used(bytes, "overCap"), manyInts |-> used(ints, "overDest")]

Starts == {"start", "otherStart", "texts", "varints"}
Plain == {"varint", "text", "ints", "otherBytes", "wrongDouble"}
Others == DOMAIN MCAlphabet \ (Starts \cup Plain \cup {"end"})

Flat == {<<x, "text">> : x \in DOMAIN MCAlphabet}
OneLevel ==
    {<<s>> \o b \o <<"end">> : s \in Starts, b \in {<<>>} \cup {<<x, "text">> : x \in Plain}}
    \cup {<<s, x, "end", "empty">> : s \in {"start", "otherStart"}, x \in Others}
    \cup {<<s, x, "end">> : s \in {"texts", "varints"}, x \in {"badLength", "longText", "bytes"}}
TwoLevels ==
    {<<s, t, x, "end", y, "end">> : s \in {"start", "otherStart"}, t \in Starts,
                                   x \in {"otherBytes"}, y \in {"text", "otherInts"}}
TooDeep ==
    {<<s, t, u, "end", "end", "end">> : s \in {"start", "otherStart"},
                                       t \in {"start", "otherStart"}, u \in {"start", "texts"}}

MCMessages == Flat \cup OneLevel \cup TwoLevels \cup TooDeep
MCBudgets == {5, 40}
=============================================================================
