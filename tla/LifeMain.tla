-------------------------------- MODULE LifeMain --------------------------------
(***************************************************************************)
(* main.cc of src/life: a board is read, the serial version computes what  *)
(* is expected of every version, and each version of the table is run      *)
(* against it, once to see if it works and then again and again inside     *)
(* measure_function.  run_and_verify tells main of a wrong result through  *)
(* the global any_errors.                                                  *)
(*                                                                         *)
(* The versions are "serial" and "parallel", which do what LifeSerial and  *)
(* LifeParallel do, and "faulty", one that is still being written: the     *)
(* program exists to find that its result is sometimes wrong.              *)
(***************************************************************************)
EXTENDS LifeReader, Timing

CONSTANTS
  Inputs,         \* the files given to the program
  NoInput,        \* a file that cannot be opened
  Iterations,     \* the numbers of iterations given, any that stoi returns
  TestFunctions   \* the kinds of the versions in the table, in its order

ASSUME MainAssumption ==
  /\ \A file \in Inputs : /\ file.width \in Int /\ file.height \in Int
                          /\ file.text \in Seq(STRING)
  /\ Iterations \subseteq Int
  /\ TestFunctions \in Seq({"serial", "parallel", "faulty"})

VARIABLES
  mode,         \* the arguments of the program
  input,
  iterations,
  phase,        \* where main is
  original,     \* original_board
  expected,     \* board, after simulate_life_serial
  next,         \* the version that is tested
  any_errors,
  should_exit_failure,
  verdicts,     \* the lines printed, one per version tested
  shown,        \* how often an incorrect result of each version was printed
  wrong,        \* auxiliary: the runs that gave a wrong board
  status        \* the exit status

arguments == <<mode, input, iterations>>
results == <<any_errors, shown, wrong>>
vars == <<arguments, phase, original, expected, next, results,
          should_exit_failure, verdicts, status, timing>>

Versions == DOMAIN TestFunctions
NoBoard == Board(0, 0, {})

TypeOK ==
  /\ mode \in {"serial-result", "time", "time-and-result", "usage"}
  /\ input \in Inputs \cup {NoInput}
  /\ iterations \in Iterations
  /\ phase \in {"read", "simulate", "test", "measure", "exit", "exited",
                "aborted"}
  /\ original.cells \subseteq AllCells(original)
  /\ expected.cells \subseteq AllCells(expected)
  /\ next \in 1 .. Len(TestFunctions) + 1
  /\ any_errors \in BOOLEAN /\ should_exit_failure \in BOOLEAN
  /\ verdicts \in Seq({"timed", "broken", "not timed"})
  /\ Len(verdicts) = next - 1
  /\ shown \in [Versions -> Nat]
  /\ wrong \subseteq Versions \X {"first", "measured"}
  /\ status \in {"none", "success", "failure"}
  /\ TimingTypeOK

Init ==
  /\ mode \in {"serial-result", "time", "time-and-result", "usage"}
  /\ input \in Inputs \cup {NoInput}
  /\ iterations \in Iterations
  /\ phase = "read"
  /\ original = NoBoard /\ expected = NoBoard
  /\ next = 1
  /\ any_errors = FALSE /\ should_exit_failure = FALSE
  /\ verdicts = <<>> /\ wrong = {}
  /\ shown = [v \in Versions |-> 0]
  /\ status = "none"
  /\ MeasureInit

show_result == mode \in {"serial-result", "time-and-result"}
show_result_on_error == mode = "time-and-result"
do_timings == mode \in {"time", "time-and-result"}

-----------------------------------------------------------------------------
(* The simulations *)

Rule(width, height) == INSTANCE LifeBoard

\* The board and the spare board after n generations.
Generations(b, n) ==
  LET rule == Rule(b.width, b.height)!Interior
      generation[k \in 0 .. n] ==
        IF k = 0 THEN <<b.cells, {}>>
        ELSE LET now == generation[k - 1]
             IN  <<(now[2] \ rule) \cup
                   {c \in rule : Rule(b.width, b.height)!Lives(now[1], c)},
                   now[1]>>
  IN  generation[n]

\* simulate_life_serial, which has no loop to run if n is not positive.
Serial(b, n) == IF n <= 0 THEN b.cells ELSE Generations(b, n)[1]

\* simulate_life_parallel, whose final swap looks at the lowest bit of n.
Parallel(b, n) ==
  IF n > 0 THEN Serial(b, n) ELSE IF n % 2 = 1 THEN {} ELSE b.cells

\* The boards a run of version v may leave.
Outcomes(v) ==
  CASE TestFunctions[v] = "serial" -> {Serial(original, iterations)}
    [] TestFunctions[v] = "parallel" -> {Parallel(original, iterations)}
    [] TestFunctions[v] = "faulty" ->
         {Serial(original, iterations),
          AllCells(original) \ Serial(original, iterations)}

-----------------------------------------------------------------------------
(* main, up to the table of versions *)

Exit(how) == phase' = "exited" /\ status' = how

\* The usage message; a file that cannot be opened; no board in it.
Refuse ==
  /\ phase = "read"
  /\ \/ mode = "usage" /\ Exit("success")
     \/ mode # "usage" /\ input = NoInput /\ Exit("failure")
     \/ /\ mode # "usage" /\ input # NoInput
        /\ input.width * input.height >= 0
        /\ \/ ~ReadBoard(input).ok
           \/ input.width = 0 \/ input.height = 0
        /\ Exit("failure")
  /\ UNCHANGED <<arguments, original, expected, next, results,
                 should_exit_failure, verdicts, timing>>

\* cells_.resize throws when the number of cells is negative.
Abort ==
  /\ phase = "read"
  /\ mode # "usage" /\ input # NoInput
  /\ input.width * input.height < 0
  /\ phase' = "aborted"
  /\ UNCHANGED <<arguments, original, expected, next, results,
                 should_exit_failure, verdicts, status, timing>>

Accept ==
  /\ phase = "read"
  /\ mode # "usage" /\ input # NoInput
  /\ input.width * input.height > 0
  /\ ReadBoard(input).ok
  /\ original' = ReadBoard(input).board
  /\ phase' = "simulate"
  /\ UNCHANGED <<arguments, expected, next, results, should_exit_failure,
                 verdicts, status, timing>>

\* What the serial version makes of the board is expected, and printed.
Simulate ==
  /\ phase = "simulate"
  /\ expected' = [original EXCEPT !.cells = Serial(original, iterations)]
  /\ phase' = IF do_timings THEN "test" ELSE "exit"
  /\ UNCHANGED <<arguments, original, next, results, should_exit_failure,
                 verdicts, status, timing>>

-----------------------------------------------------------------------------
(* The table of versions *)

\* run_and_verify with any_errors as "before", in a run of the given kind; and
\* a variant that notes an error only if there is none yet to be printed.
VerifyAndShow(before, kind) ==
  \E cells \in Outcomes(next) :
    LET error == [original EXCEPT !.cells = cells] # expected
        show == error /\ ~before /\ show_result_on_error
    IN  /\ any_errors' = (before \/ show)
        /\ shown' = IF show THEN [shown EXCEPT ![next] = @ + 1] ELSE shown
        /\ wrong' = IF error THEN wrong \cup {<<next, kind>>} ELSE wrong
run_and_verify(before, kind) ==
  \E cells \in Outcomes(next) :
    LET error == [original EXCEPT !.cells = cells] # expected
        show == error /\ ~before /\ show_result_on_error
    IN  /\ any_errors' = (before \/ error)
        /\ shown' = IF show THEN [shown EXCEPT ![next] = @ + 1] ELSE shown
        /\ wrong' = IF error THEN wrong \cup {<<next, kind>>} ELSE wrong

\* The line for the version is printed and the loop goes on, and a variant
\* that stays where it is.
ReportAndStay(verdict) ==
  /\ verdicts' = Append(verdicts, verdict)
  /\ should_exit_failure' = (should_exit_failure \/ verdict # "timed")
  /\ UNCHANGED next
Report(verdict) ==
  /\ verdicts' = Append(verdicts, verdict)
  /\ should_exit_failure' = (should_exit_failure \/ verdict # "timed")
  /\ next' = next + 1

\* any_errors as the first run of a version finds it, and a variant in which
\* it is not reset.
NotReset == any_errors
Reset == FALSE

\* The first run, which is not timed.
FirstRun ==
  /\ phase = "test" /\ next <= Len(TestFunctions)
  /\ run_and_verify(Reset, "first")
  /\ IF any_errors' THEN Report("not timed") /\ UNCHANGED phase
                    ELSE /\ phase' = "measure"
                         /\ UNCHANGED <<verdicts, should_exit_failure, next>>
  /\ UNCHANGED <<arguments, original, expected, status, timing>>

\* measure_function runs the version again.
MeasuredRun ==
  /\ phase = "measure"
  /\ MeasureNext
  /\ run_and_verify(any_errors, "measured")
  /\ UNCHANGED <<arguments, phase, original, expected, next,
                 should_exit_failure, verdicts, status>>

\* measure_function returns; the table of the next call is a new one.
MeasureReturns ==
  /\ phase = "measure" /\ Measured
  /\ Report(IF any_errors THEN "broken" ELSE "timed")
  /\ phase' = "test"
  /\ MeasureAgain
  /\ UNCHANGED <<arguments, original, expected, results, status>>

Finish ==
  /\ \/ phase = "exit"
     \/ phase = "test" /\ next > Len(TestFunctions)
  /\ Exit(IF should_exit_failure THEN "failure" ELSE "success")
  /\ UNCHANGED <<arguments, original, expected, next, results,
                 should_exit_failure, verdicts, timing>>

Next == \/ Refuse \/ Abort \/ Accept \/ Simulate
        \/ FirstRun \/ MeasuredRun \/ MeasureReturns \/ Finish

Spec == Init /\ [][Next]_vars

\* The program has one thread here; a version that is run returns.
FairSpec == Spec /\ WF_vars(Next)

-----------------------------------------------------------------------------
(* Properties *)

\* A file whose rows are all there and long enough is accepted, and is read as
\* the picture it is (life.cc:25-31); what the program prints is such a file,
\* and shows the board.
PicturesAreRead ==
  /\ phase # "read" /\ mode # "usage" /\ input # NoInput =>
       (Complete(input) /\ input.width * input.height > 0
          => original = Picture(input))
  /\ original # NoBoard /\ phase # "simulate" =>
       ReadBoard(PrintBoard(expected)) = [ok |-> TRUE, board |-> expected]

\* The line of a version tells which of its runs was wrong, its first one or
\* one inside measure_function, whose error comes back through the global
\* any_errors alone (main.cc:60-62); an incorrect board is printed once per
\* version, and the exit status tells if there was any.
VerdictsTellErrors ==
  /\ \A v \in DOMAIN verdicts :
       verdicts[v] = CASE <<v, "first">> \in wrong -> "not timed"
                       [] <<v, "measured">> \in wrong -> "broken"
                       [] OTHER -> "timed"
  /\ \A v \in Versions :
       shown[v] = IF show_result_on_error /\ (\E kind \in {"first", "measured"} :
                       <<v, kind>> \in wrong) THEN 1 ELSE 0
  /\ status # "none" /\ original # NoBoard =>
       (status = "failure" <=> wrong # {})

\* The serial version and the parallel one are never reported broken, but for
\* one case, in which no step was asked for: a negative and odd number of
\* iterations, for which the parallel version swaps in its empty board.
FinishedVersionsPass ==
  \A v \in DOMAIN verdicts :
    /\ TestFunctions[v] = "serial" => verdicts[v] = "timed"
    /\ TestFunctions[v] = "parallel" =>
         (verdicts[v] = "timed" <=>
            iterations >= 0 \/ iterations % 2 = 0 \/ original.cells = {})

\* Whatever the runs take and return, the measurements end, all versions are
\* tested and the program exits.
ProgramExits == <>(phase \in {"exited", "aborted"})
=============================================================================
