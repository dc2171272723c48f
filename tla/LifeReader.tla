------------------------------- MODULE LifeReader -------------------------------
(***************************************************************************)
(* The stream operators of src/life/life.cc: how a board is read from a    *)
(* file and printed.  A file is the two numbers of its first line and the  *)
(* characters after that line; a board is its size and its live cells.     *)
(* Where the first line is not two numbers, the size is 0 by 0.            *)
(***************************************************************************)
EXTENDS Integers, Sequences, FiniteSets, FiniteSetsExt

Newline == "newline"
Blank == {" ", "."}

File(width, height, text) == [width |-> width, height |-> height, text |-> text]
Board(width, height, cells) ==
  [width |-> width, height |-> height, cells |-> cells]

\* The cells of a board, as many as cells_ has; none if a number is negative.
AllCells(b) == (0 .. b.width - 1) \X (0 .. b.height - 1)

\* in.ignore(max, '\n') at position p: the position after the next newline, or
\* the end of the file.
Ignore(text, p) ==
  LET ends == {q \in DOMAIN text : q >= p /\ text[q] = Newline}
  IN  1 + (IF ends = {} THEN Len(text) ELSE Min(ends))

\* Where the reader takes row y to start: it gets width characters for a row,
\* newlines too, and then ignores the rest of the line it is in; and a variant
\* that ignores nothing.
RowStartUnaligned(file) ==
  LET start[y \in 0 .. file.height - 1] ==
        IF y = 0 THEN 1 ELSE start[y - 1] + file.width
  IN  start
RowStart(file) ==
  LET start[y \in 0 .. file.height - 1] ==
        IF y = 0 THEN 1 ELSE Ignore(file.text, start[y - 1] + file.width)
  IN  start

\* operator>>: get() after the end of the file fails the stream, and the
\* character it returns then makes a live cell like any that is not blank.
ReadBoard(file) ==
  LET start == RowStart(file)
      At(c) == start[c[2]] + c[1]
      InFile(c) == At(c) \in DOMAIN file.text
  IN  [ok |-> \A c \in AllCells(file) : InFile(c),
       board |-> Board(file.width, file.height,
                       {c \in AllCells(file) :
                          InFile(c) => file.text[At(c)] \notin Blank})]

\* operator<<
PrintBoard(b) ==
  File(b.width, b.height,
       [p \in 1 .. b.height * (b.width + 1) |->
          LET x == (p - 1) % (b.width + 1)
              y == (p - 1) \div (b.width + 1)
          IN  IF x = b.width THEN Newline
              ELSE IF <<x, y>> \in b.cells THEN "*" ELSE "."])

-----------------------------------------------------------------------------
(* What a picture shows, stated by its lines. *)

Newlines(file, p) == {q \in DOMAIN file.text : q < p /\ file.text[q] = Newline}

\* The positions of the characters of line y, in which the first is line 0.
Line(file, y) ==
  {p \in DOMAIN file.text :
     file.text[p] # Newline /\ Cardinality(Newlines(file, p)) = y}

\* The picture has its rows, and each is long enough (it may be longer).
Complete(file) ==
  \A y \in 0 .. file.height - 1 : Cardinality(Line(file, y)) >= file.width

Picture(file) ==
  Board(file.width, file.height,
        {c \in AllCells(file) :
           file.text[Min(Line(file, c[2])) + c[1]] \notin Blank})
=============================================================================
