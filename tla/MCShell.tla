-------------------------------- MODULE MCShell --------------------------------
(***************************************************************************)
(* Instances of Shell for TLC.                                             *)
(***************************************************************************)
EXTENDS Shell

\* Every line of up to four tokens over two words, right or wrong ...
ShortLines == UNION {[1 .. n -> Operators \cup {"a", "b"}] : n \in 0 .. 4}

\* ... and longer ones: three commands, redirections at the ends and in the
\* middle of a pipeline, a redirection twice, the word exit.
LongLines == {
  <<"a", "|", "b", "|", "c">>,
  <<"a", "<", "f", "|", "b", ">", "g">>,
  <<"a", ">", "f", "|", "b">>,
  <<"a", "|", "b", "<", "f">>,
  <<"a", "<", "f", ">", "g", "x">>,
  <<"a", "<", "f", "<", "g">>,
  <<"a", ">", "f", "|", "b", ">", "g">>,
  <<"exit">>, <<"exit", "|", "a">>, <<"a", "|", "exit">>}

\* The line of shell_test.py:538-545: > file echo testing one two three.
RedirectionFirst == {<<">", "file", "echo", "testing", "one", "two", "three">>}

TypedLines == ShortLines \cup LongLines
=============================================================================
