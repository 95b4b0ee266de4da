------------------------------ MODULE MCText ------------------------------
(* A small instance of Text: a buffer that just holds the longest character,   *)
(* payloads over the edges of the byte classes, and texts whose cut at the     *)
(* capacity falls in front of, into and behind a character of each length.     *)
EXTENDS Text

MCBytes == {65, 128, 144, 160, 191, 193, 194, 224, 237, 240, 244, 245}

A == <<65>>
two == <<195, 169>>                 \* e acute
three == <<226, 130, 172>>          \* the euro sign
four == <<240, 159, 152, 128>>      \* an emoji

MCTexts == {<<>>, A \o A \o A, four}
MCHeld == {Assigned(Blank, sv) : sv \in MCTexts}
MCAssignable == MCTexts \cup
    {A \o A \o A \o A \o A, A \o A \o A \o two, two \o three, three \o A \o A, A \o four,
     three \o two, four \o A, two \o two \o A, A \o A \o A \o four,
     <<128, 128, 128, 128, 128>>, <<240, 159, 152>>}
=============================================================================
