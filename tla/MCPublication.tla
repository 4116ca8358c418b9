--------------------------- MODULE MCPublication ---------------------------
(* Three declarations from files: 1 stands alone, 2 is what discovery found *)
(* in the tree of 1, and 3 in the tree of 2.                                *)
EXTENDS Publication

ThreeIds == 1 .. 3
TwoContents == {1, 2}
Chain == <<None, 1, 2>>
AllStatic == <<1, 1, 1>>
FirstId == {1}

\* Both producers may declare 3, and 2 its own producer.
Both == <<{3}, {1, 3}>>
\* 1 declares 2, which captures its declaration and emits nothing.
OneWay == <<{2}, {}>>
=============================================================================
