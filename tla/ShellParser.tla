------------------------------ MODULE ShellParser ------------------------------
(***************************************************************************)
(* The first half of parse_and_run_command of src/shell/main.cc: from the  *)
(* tokens of a line, which parser.cc splits at white space, to the list of *)
(* commands of a pipeline.  A token is a string of at least one character; *)
(* "" is the file name of a redirection that is not there.                 *)
(***************************************************************************)
EXTENDS Naturals, Sequences, SequencesExt

Operators == {"<", ">", "|"}

is_operator(token) == token \in Operators

\* command_t
Command(words) == [inFile |-> "", outFile |-> "", cmd |-> words]

\* Is there a word at position i, for a redirection or to start a command?
WordAt(tokens, i) == i \in DOMAIN tokens /\ ~is_operator(tokens[i])

\* The loop over the tokens.  "taken" says that the next token has been used
\* as the file of a redirection (i++), "valid" that no test has failed.
Start(tokens) ==
  [commands |-> <<Command(<<>>)>>, taken |-> FALSE,
   valid |-> tokens # <<>> /\ WordAt(tokens, 1)]

\* p with its last command replaced by c.
WithLast(p, c) == [p EXCEPT !.commands = Append(Front(@), c)]

Invalid(p) == [p EXCEPT !.valid = FALSE]

\* "<" and ">": a second one in a command is refused, and so is a missing
\* file name, and an operator in its place.
Redirect(tokens, p, i) ==
  LET c == Last(p.commands)
      given == IF tokens[i] = "<" THEN c.inFile ELSE c.outFile
  IN  IF given # "" \/ ~WordAt(tokens, i + 1) THEN Invalid(p)
      ELSE [WithLast(p, IF tokens[i] = "<"
                        THEN [c EXCEPT !.inFile = tokens[i + 1]]
                        ELSE [c EXCEPT !.outFile = tokens[i + 1]])
            EXCEPT !.taken = TRUE]

\* "|" starts the next command, which must have a word, and a variant that
\* lets a line end after it.
PipeAtTheEnd(tokens, p, i) ==
  IF i < Len(tokens) /\ ~WordAt(tokens, i + 1) THEN Invalid(p)
  ELSE [p EXCEPT !.commands = Append(@, Command(<<>>))]
Pipe(tokens, p, i) ==
  IF ~WordAt(tokens, i + 1) THEN Invalid(p)
  ELSE [p EXCEPT !.commands = Append(@, Command(<<>>))]

Word(tokens, p, i) ==
  LET c == Last(p.commands)
  IN  WithLast(p, [c EXCEPT !.cmd = Append(@, tokens[i])])

TakeToken(tokens, p, i) ==
  IF ~p.valid THEN p
  ELSE IF p.taken THEN [p EXCEPT !.taken = FALSE]
  ELSE IF tokens[i] = "|" THEN Pipe(tokens, p, i)
  ELSE IF is_operator(tokens[i]) THEN Redirect(tokens, p, i)
  ELSE Word(tokens, p, i)

\* Where the loop is after the last token.
Parse(tokens) ==
  LET after[i \in 0 .. Len(tokens)] ==
        IF i = 0 THEN Start(tokens) ELSE TakeToken(tokens, after[i - 1], i)
  IN  after[Len(tokens)]

\* The commands of a line, none if the line is empty or refused.
Commands(tokens) ==
  IF Parse(tokens).valid THEN Parse(tokens).commands ELSE <<>>

-----------------------------------------------------------------------------
(* What the language of the shell is, stated without the loop. *)

Bars(tokens, i) == {j \in DOMAIN tokens : j < i /\ tokens[j] = "|"}

\* Where the commands of a line start.
Starts(tokens) ==
  {1} \cup {i + 1 : i \in {j \in DOMAIN tokens : tokens[j] = "|"}}

\* A word is an argument, or the command itself, unless it is the file of a
\* redirection.
IsArgument(tokens, i) ==
  /\ ~is_operator(tokens[i])
  /\ i > 1 => tokens[i - 1] \notin {"<", ">"}

\* Every redirection has a file, no two of a kind are in the same command, and
\* every command has a word, which may come after redirections.
Grammatical(tokens) ==
  /\ \A i \in DOMAIN tokens : tokens[i] \in {"<", ">"} => WordAt(tokens, i + 1)
  /\ \A i, j \in DOMAIN tokens :
       /\ i < j /\ tokens[i] = tokens[j] /\ tokens[i] \in {"<", ">"}
       => Bars(tokens, i) # Bars(tokens, j)
  /\ \A i \in Starts(tokens) : \E j \in DOMAIN tokens :
       Bars(tokens, j) = Bars(tokens, i) /\ IsArgument(tokens, j)

\* No command starts with a redirection.
WordsFirst(tokens) == \A i \in Starts(tokens) : WordAt(tokens, i)

\* The positions of the tokens of command s.
Stage(tokens, s) == {i \in DOMAIN tokens : Cardinality(Bars(tokens, i)) = s - 1}

\* A word that follows a redirection is its file ...
Redirections(tokens, s, op) == {i \in Stage(tokens, s) : tokens[i] = op}
FileOf(tokens, at) == IF at = {} THEN "" ELSE tokens[1 + CHOOSE i \in at : TRUE]

\* ... and the others, in their order, are the command and its arguments.
Arguments(tokens, s) == {i \in Stage(tokens, s) : IsArgument(tokens, i)}
Ranked(S, n) == {i \in S : Cardinality({j \in S : j <= i}) = n}
WordsAt(tokens, S) ==
  [n \in 1 .. Cardinality(S) |-> tokens[CHOOSE i \in Ranked(S, n) : TRUE]]

Meaning(tokens) ==
  [s \in 1 .. 1 + Cardinality(Bars(tokens, Len(tokens) + 1)) |->
     [inFile |-> FileOf(tokens, Redirections(tokens, s, "<")),
      outFile |-> FileOf(tokens, Redirections(tokens, s, ">")),
      cmd |-> WordsAt(tokens, Arguments(tokens, s))]]
=============================================================================
