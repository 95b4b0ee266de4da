--------------------------- MODULE MCInlineVector ---------------------------
(* A small instance of the containers without a heap: two of them, with the    *)
(* floats whose == is not the equality of their bits.                          *)
EXTENDS InlineVector

CONSTANTS a, b, zero, minusZero, nan

MCContainers == {a, b}
MCElements == {zero, minusZero, nan}
MCAlike(x, y) == nan \notin {x, y}
MCLists == {<<>>, <<nan>>, <<minusZero, nan>>, <<zero, nan, minusZero, nan>>}
MCDeclared == <<zero, nan>>
=============================================================================
