-------------------------------- MODULE Timing --------------------------------
(***************************************************************************)
(* measure_function of src/life/timing.cc: a function is run again and     *)
(* again, a table keeps the cycles of the K fastest runs, and the loop     *)
(* ends when these agree within a tolerance or the limits are reached.     *)
(* How many cycles a run takes is external (measure_once reads the time    *)
(* stamp counter).  The builds with sanitizers, where K is 1, measure once *)
(* without this loop.  The table measures[0 .. K - 1] is 1 .. K here.      *)
(***************************************************************************)
EXTENDS Integers, Sequences, FiniteSets

CONSTANTS
  K,
  MAX_RUNS,
  MIN_TEST_CYCLES,
  TOLERANCE_NUMERATOR, TOLERANCE_DENOMINATOR,
  UINT64_MAX,
  Cycles          \* what one run may take

ASSUME TimingAssumption ==
  /\ K \in Nat /\ K >= 2
  /\ MAX_RUNS \in Nat /\ MIN_TEST_CYCLES \in Nat
  /\ TOLERANCE_NUMERATOR \in Nat \ {0} /\ TOLERANCE_DENOMINATOR \in Nat \ {0}
  /\ UINT64_MAX \in Nat
  /\ Cycles \subseteq 0 .. UINT64_MAX

VARIABLES
  measures,      \* the table of the K fastest runs, in increasing order
  num_runs,
  total_cycles,
  given_up,      \* the loop has been left by its break
  runs           \* auxiliary: the cycles of all the runs so far

timing == <<measures, num_runs, total_cycles, given_up, runs>>

huge_measure ==
  UINT64_MAX \div (TOLERANCE_DENOMINATOR * TOLERANCE_NUMERATOR)

Positions == 1 .. K
NoMeasures == [n \in Positions |-> huge_measure]

TimingTypeOK ==
  /\ measures \in [Positions -> 0 .. huge_measure]
  /\ num_runs \in Nat
  /\ total_cycles \in 0 .. UINT64_MAX
  /\ given_up \in BOOLEAN
  /\ runs \in Seq(Cycles)

MeasureInit ==
  /\ measures = NoMeasures
  /\ num_runs = 0
  /\ total_cycles = 0
  /\ given_up = FALSE
  /\ runs = <<>>

\* The next call starts with a table of its own.
MeasureAgain ==
  /\ measures' = NoMeasures
  /\ num_runs' = 0
  /\ total_cycles' = 0
  /\ given_up' = FALSE
  /\ runs' = <<>>

\* The product, which wraps around, compared with the slowest run kept.
Wrap(n) == n % (UINT64_MAX + 1)
Unstable ==
  \/ measures[K] >= huge_measure
  \/ Wrap(measures[1] * TOLERANCE_NUMERATOR) \div TOLERANCE_DENOMINATOR
       < measures[K]

\* The loop over the table finds the first slower run, and memmove makes room
\* for the new one there; and a variant whose memmove moves one run too few,
\* so that the run at the insertion point is lost instead of the last.
InsertOver(cur) ==
  [n \in Positions |->
     IF cur >= measures[n] THEN measures[n]
     ELSE IF n = 1 \/ cur >= measures[n - 1] THEN cur
     ELSE measures[n]]
Insert(cur) ==
  [n \in Positions |->
     IF cur >= measures[n] THEN measures[n]
     ELSE IF n = 1 \/ cur >= measures[n - 1] THEN cur
     ELSE measures[n - 1]]

\* One turn of the loop, in which the run has taken "cur" cycles.
MeasureOnce(cur) ==
  /\ ~given_up /\ Unstable
  /\ measures' = Insert(cur)
  /\ num_runs' = num_runs + 1
  /\ total_cycles' = Wrap(total_cycles + cur)
  /\ given_up' = (num_runs > MAX_RUNS /\ total_cycles' > MIN_TEST_CYCLES)
  /\ runs' = Append(runs, cur)

\* The loop is over, and a variant that its break does not leave.
MeasuredWhenStable == ~Unstable
Measured == given_up \/ ~Unstable

MeasureNext == \E cur \in Cycles : MeasureOnce(cur)

MeasureSpec == MeasureInit /\ [][MeasureNext]_timing

-----------------------------------------------------------------------------
(* Properties *)

\* The runs so far that took at most v cycles.
RunsWithin(v) == {r \in DOMAIN runs : runs[r] <= v}

\* The table holds the fastest runs of all there were, each once: its n-th
\* entry is at most v exactly when n runs took at most v.  A run of
\* huge_measure cycles or more is never kept (timing.cc:66-78).
TableHoldsFastest ==
  \A v \in 0 .. huge_measure - 1, n \in Positions :
    measures[n] <= v <=> n <= Cardinality(RunsWithin(v))

\* The test of the loop never wraps around, not even on the initial value of
\* the table, which was chosen for that (timing.cc:57).
NoOverflow == measures[1] * TOLERANCE_NUMERATOR <= UINT64_MAX
=============================================================================
