------------------------------- MODULE MCLifeMain -------------------------------
(***************************************************************************)
(* Instances of LifeMain, with LifeReader and Timing, for TLC.             *)
(***************************************************************************)
EXTENDS LifeMain

\* A 3x3 board given as its text.
Text(a, b, c) == a \o b \o c
Row(x, y, z) == <<x, y, z, Newline>>

Blinker == Text(Row(".", "*", "."), Row(".", "*", "."), Row(".", "*", "."))
Empty == Text(Row(".", " ", "."), Row(".", ".", "."), Row(" ", ".", " "))

\* Pictures as they should be, longer than they need to be, and without the
\* last newline; one that ends early, one with a short line and nothing, or
\* another line, after it; no board, no cells, a negative size, two of them.
Files == {
  File(3, 3, Blinker),
  File(3, 3, Empty),
  File(3, 3, Text(Row("*", ".", "*"), <<".", "*", ".", "*", "*", Newline>>,
                  <<"*", ".", ".", Newline, "*">>)),
  File(3, 3, SubSeq(Blinker, 1, 11)),
  File(3, 3, SubSeq(Blinker, 1, 10)),
  File(3, 3, Text(Row(".", "*", "."), <<".", Newline>>, Row(".", "*", "."))),
  File(3, 3, Text(<<".", Newline>>, Blinker, <<>>)),
  File(2, 3, Blinker),
  File(0, 0, Blinker), File(0, 3, Empty), File(-2, 3, <<>>), File(-1, -1, <<>>)}

\* Fewer than none, none, and some.
IterationCounts == {-2, -1, 0, 1, 3}

Table == <<"faulty", "parallel", "serial">>
=============================================================================
