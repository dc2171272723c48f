----------------------------- MODULE LifeMainProofs -----------------------------
(***************************************************************************)
(* Theorems about Timing, for every size of its table, all limits and      *)
(* tolerances and whatever the runs take; theorems about LifeMain, for all *)
(* files, all numbers of iterations and any table of versions; and the     *)
(* lemmas on the recursive functions of its model, Generations and         *)
(* RowStart, which are proved by an induction over a set of natural        *)
(* numbers.                                                                *)
(***************************************************************************)
EXTENDS LifeMain, WellFoundedInduction, SequenceTheorems, FiniteSetTheorems,
        TLAPS

-----------------------------------------------------------------------------
(* The table of measure_function holds the fastest runs *)

USE TimingAssumption

\* The initial value of the table is a number ...
LEMMA HugeType == huge_measure \in Nat
<1> DEFINE d == TOLERANCE_DENOMINATOR * TOLERANCE_NUMERATOR
<1>1. d \in Nat \ {0}
  OBVIOUS
<1> HIDE DEF d
<1>2. UINT64_MAX \div d \in Nat
  BY <1>1
<1> QED
  BY <1>2 DEF huge_measure, d

\* ... that can be multiplied by the numerator without wrapping around.
LEMMA HugeBound == huge_measure * TOLERANCE_NUMERATOR <= UINT64_MAX
<1> DEFINE N == TOLERANCE_NUMERATOR
           D == TOLERANCE_DENOMINATOR
           d == D * N
           q == UINT64_MAX \div d
<1>1. d \in Nat \ {0} /\ N \in Nat \ {0} /\ D \in Nat \ {0} /\ N <= d
  OBVIOUS
<1> HIDE DEF d, N, D
<1>2. q \in Nat
  BY <1>1
<1>3. q * d <= UINT64_MAX
  BY <1>1
<1> HIDE DEF q
<1>4. q * N <= q * d
  BY <1>1, <1>2
<1>5. q * N \in Int /\ q * d \in Int
  BY <1>1, <1>2
<1>6. q * N <= UINT64_MAX
  BY <1>3, <1>4, <1>5
<1> QED
  BY <1>6 DEF q, d, N, D, huge_measure

LEMMA WrapType ==
  ASSUME NEW n \in Nat PROVE Wrap(n) \in 0 .. UINT64_MAX
BY DEF Wrap

-----------------------------------------------------------------------------
(* Types *)

LEMMA TypeInit == MeasureInit => TimingTypeOK
<1> SUFFICES ASSUME MeasureInit PROVE TimingTypeOK
  OBVIOUS
<1>1. measures \in [Positions -> 0 .. huge_measure]
  BY HugeType DEF MeasureInit, NoMeasures
<1>2. num_runs \in Nat /\ total_cycles \in 0 .. UINT64_MAX
  BY DEF MeasureInit
<1>3. given_up \in BOOLEAN
  BY Zenon DEF MeasureInit
<1>4. runs \in Seq(Cycles)
  BY DEF MeasureInit
<1> QED
  BY <1>1, <1>2, <1>3, <1>4 DEF TimingTypeOK

LEMMA TypeStep == TimingTypeOK /\ [MeasureNext]_timing => TimingTypeOK'
<1> SUFFICES ASSUME TimingTypeOK, [MeasureNext]_timing PROVE TimingTypeOK'
  OBVIOUS
<1>1. ASSUME NEW cur \in Cycles, MeasureOnce(cur) PROVE TimingTypeOK'
  <2>1. cur \in Nat
    OBVIOUS
  <2>2. measures' \in [Positions -> 0 .. huge_measure]
    <3>1. ASSUME NEW n \in Positions
          PROVE  (IF cur >= measures[n] THEN measures[n]
                  ELSE IF n = 1 \/ cur >= measures[n - 1] THEN cur
                  ELSE measures[n - 1]) \in 0 .. huge_measure
      <4>1. n = 1 \/ n - 1 \in Positions
        BY DEF Positions
      <4> QED
        BY <2>1, <4>1, HugeType DEF TimingTypeOK
    <3> QED
      BY <1>1, <3>1 DEF MeasureOnce, Insert
  <2>3. num_runs' \in Nat
    BY <1>1 DEF MeasureOnce, TimingTypeOK
  <2>4. total_cycles' \in 0 .. UINT64_MAX
    <3>1. total_cycles + cur \in Nat
      BY <2>1 DEF TimingTypeOK
    <3> QED
      BY <1>1, <3>1, WrapType DEF MeasureOnce
  <2>5. given_up' \in BOOLEAN
    BY <1>1, Zenon DEF MeasureOnce
  <2>6. runs' \in Seq(Cycles)
    BY <1>1 DEF MeasureOnce, TimingTypeOK
  <2> QED
    BY <2>2, <2>3, <2>4, <2>5, <2>6 DEF TimingTypeOK
<1>2. CASE UNCHANGED timing
  BY <1>2 DEF timing, TimingTypeOK
<1> QED
  BY <1>1, <1>2 DEF MeasureNext

\* The types of the table, the counters and the history.
THEOREM TypeCorrect == MeasureSpec => []TimingTypeOK
BY TypeInit, TypeStep, PTL DEF MeasureSpec

\* The comparison that ends the loop never wraps around.
THEOREM ComparisonFits == MeasureSpec => []NoOverflow
<1>1. TimingTypeOK => NoOverflow
  <2> SUFFICES ASSUME TimingTypeOK PROVE NoOverflow
    OBVIOUS
  <2>1. 1 \in Positions
    BY DEF Positions
  <2>2. measures[1] \in Nat /\ measures[1] <= huge_measure
    BY <2>1, HugeType DEF TimingTypeOK
  <2> DEFINE m == measures[1]
             N == TOLERANCE_NUMERATOR
  <2>3. m \in Nat /\ N \in Nat /\ m <= huge_measure
    BY <2>2
  <2> HIDE DEF m, N
  <2>4. m * N <= huge_measure * N
    BY <2>3, HugeType
  <2>5. m * N \in Int /\ huge_measure * N \in Int
    BY <2>3, HugeType
  <2> QED
    BY <2>4, <2>5, HugeBound DEF NoOverflow, m, N
<1> QED
  BY <1>1, TypeCorrect, PTL

-----------------------------------------------------------------------------
(* The table *)

\* The entries of a sequence of runs that took at most v.
Within(s, v) == {r \in DOMAIN s : s[r] <= v}

\* One more run adds one to the runs within v exactly if it is within v.
LEMMA OneMoreRun ==
  ASSUME NEW s \in Seq(Cycles), NEW cur \in Cycles, NEW v \in Int
  PROVE  /\ Cardinality(Within(s, v)) \in Nat
         /\ Cardinality(Within(Append(s, cur), v)) =
              Cardinality(Within(s, v)) + (IF cur <= v THEN 1 ELSE 0)
<1> DEFINE n == Len(s)
<1>1. n \in Nat /\ DOMAIN s = 1 .. n /\ DOMAIN Append(s, cur) = 1 .. n + 1
  OBVIOUS
<1>2. \A r \in 1 .. n : Append(s, cur)[r] = s[r]
  OBVIOUS
<1>3. Append(s, cur)[n + 1] = cur
  OBVIOUS
<1> HIDE DEF n
<1>4. IsFiniteSet(Within(s, v))
  <2>1. IsFiniteSet(1 .. n)
    BY <1>1, FS_Interval
  <2>2. Within(s, v) \in SUBSET (1 .. n)
    BY <1>1 DEF Within
  <2> QED
    BY <2>1, <2>2, FS_Subset
<1>5. n + 1 \notin Within(s, v)
  BY <1>1 DEF Within
<1> DEFINE c == Cardinality(Within(s, v))
           d == Cardinality(Within(Append(s, cur), v))
<1> SUFFICES c \in Nat /\ d = c + (IF cur <= v THEN 1 ELSE 0)
  OBVIOUS
<1>0. c \in Nat
  BY <1>4, FS_CardinalityType
<1>6. CASE cur <= v
  <2>1. Within(Append(s, cur), v) = Within(s, v) \cup {n + 1}
    BY <1>1, <1>2, <1>3, <1>6 DEF Within
  <2> QED
    BY <1>0, <1>4, <1>5, <1>6, <2>1, FS_AddElement
<1>7. CASE ~(cur <= v)
  <2>1. Within(Append(s, cur), v) = Within(s, v)
    BY <1>1, <1>2, <1>3, <1>7 DEF Within
  <2>2. d = c
    BY <2>1
  <2> HIDE DEF c, d
  <2> QED
    BY <1>0, <1>7, <2>2
<1> QED
  BY <1>6, <1>7

\* TableHoldsFastest for one v.
Holds(v) ==
  \A n \in Positions : measures[n] <= v <=> n <= Cardinality(RunsWithin(v))

LEMMA NoRuns == MeasureInit => \A v \in 0 .. huge_measure - 1 : Holds(v)
<1> SUFFICES ASSUME MeasureInit, NEW v \in 0 .. huge_measure - 1,
                    NEW n \in Positions
             PROVE  measures[n] <= v <=> n <= Cardinality(RunsWithin(v))
  BY DEF Holds
<1>1. RunsWithin(v) = {}
  BY DEF RunsWithin, MeasureInit
<1>2. Cardinality(RunsWithin(v)) = 0
  BY <1>1, FS_EmptySet
<1>3. measures[n] = huge_measure
  BY DEF MeasureInit, NoMeasures
<1> QED
  BY <1>2, <1>3, HugeType DEF Positions

LEMMA Inserted ==
  ASSUME TimingTypeOK, NEW cur \in Cycles, MeasureOnce(cur),
         NEW v \in 0 .. huge_measure - 1, Holds(v)
  PROVE  Holds(v)'
<1> DEFINE c == Cardinality(RunsWithin(v))
           d == Cardinality(RunsWithin(v)')
<1>1. c \in Nat /\ d = c + (IF cur <= v THEN 1 ELSE 0)
  <2>1. runs \in Seq(Cycles) /\ runs' = Append(runs, cur)
    BY DEF TimingTypeOK, MeasureOnce
  <2>2. v \in Int
    BY HugeType
  <2>3. c = Cardinality(Within(runs, v))
    BY DEF RunsWithin, Within
  <2>4. d = Cardinality(Within(Append(runs, cur), v))
    BY <2>1 DEF RunsWithin, Within
  <2> HIDE DEF c, d
  <2> QED
    BY <2>1, <2>2, <2>3, <2>4, OneMoreRun
<1>2. \A n \in Positions : measures[n] <= v <=> n <= c
  BY DEF Holds
<1> HIDE DEF c, d
<1> SUFFICES ASSUME NEW n \in Positions PROVE measures'[n] <= v <=> n <= d
  BY DEF Holds, d
<1>3. /\ n \in Nat /\ n >= 1 /\ cur \in Nat /\ v \in Nat
      /\ measures[n] \in Nat
      /\ n # 1 => n - 1 \in Positions /\ measures[n - 1] \in Nat
  BY HugeType DEF Positions, TimingTypeOK
<1>4. measures'[n] = IF cur >= measures[n] THEN measures[n]
                     ELSE IF n = 1 \/ cur >= measures[n - 1] THEN cur
                     ELSE measures[n - 1]
  BY DEF MeasureOnce, Insert
<1>5. measures[n] <= v <=> n <= c
  BY <1>2
<1>6. n # 1 => (measures[n - 1] <= v <=> n - 1 <= c)
  BY <1>2, <1>3
<1>7. CASE cur <= v
  BY <1>1, <1>3, <1>4, <1>5, <1>6, <1>7
<1>8. CASE cur > v
  BY <1>1, <1>3, <1>4, <1>5, <1>6, <1>8
<1> QED
  BY <1>3, <1>7, <1>8

LEMMA HoldsStep ==
  /\ TimingTypeOK /\ (\A v \in 0 .. huge_measure - 1 : Holds(v))
  /\ [MeasureNext]_timing
  => (\A v \in 0 .. huge_measure - 1 : Holds(v))'
<1> SUFFICES ASSUME TimingTypeOK, [MeasureNext]_timing,
                    NEW v \in 0 .. huge_measure - 1, Holds(v)
             PROVE  Holds(v)'
  BY DEF huge_measure
<1>1. CASE UNCHANGED timing
  BY <1>1 DEF timing, Holds, RunsWithin
<1> QED
  BY <1>1, Inserted DEF MeasureNext

\* Whatever the runs take, the table holds the fastest of all, each once.
THEOREM TableCorrect == MeasureSpec => []TableHoldsFastest
<1>1. (\A v \in 0 .. huge_measure - 1 : Holds(v)) => TableHoldsFastest
  BY DEF TableHoldsFastest, Holds
<1> QED
  BY <1>1, TypeInit, TypeStep, NoRuns, HoldsStep, PTL DEF MeasureSpec

HIDE TimingAssumption
USE MainAssumption

-----------------------------------------------------------------------------
(* Induction over the natural numbers, as an induction over a set *)

LessNat == {ss \in Nat \X Nat : ss[1] < ss[2]}

LEMMA Smallest ==
  ASSUME NEW T \in SUBSET Nat, T # {}
  PROVE  \E m \in T : \A k \in T : m <= k
<1>1. OpToRel(<, Nat) = LessNat
  BY DEF OpToRel, LessNat
<1>2. IsWellFoundedOn(LessNat, Nat)
  BY <1>1, NatLessThanWellFounded
<1>3. PICK m \in T : \A k \in T : ~(<<k, m>> \in LessNat)
  BY <1>2, WFMin
<1>4. ASSUME NEW k \in T PROVE m <= k
  <2>1. k \in Nat /\ m \in Nat
    OBVIOUS
  <2>2. k < m => <<k, m>> \in LessNat
    BY <2>1 DEF LessNat
  <2> QED
    BY <1>3, <2>1, <2>2
<1> QED
  BY <1>4

LEMMA SetInduction ==
  ASSUME NEW S \in SUBSET Nat, 0 \in S, \A n \in S : n + 1 \in S
  PROVE  S = Nat
<1> SUFFICES ASSUME Nat \ S # {} PROVE FALSE
  OBVIOUS
<1>1. PICK m \in Nat \ S : \A k \in Nat \ S : m <= k
  BY Smallest
<1>2. m # 0 /\ m - 1 \in Nat /\ m - 1 \notin Nat \ S
  BY <1>1
<1> QED
  BY <1>2

-----------------------------------------------------------------------------
(* The simulations leave a board of the same size *)

\* The two boards after one more generation.
Following(b, now) ==
  <<(now[2] \ Rule(b.width, b.height)!Interior) \cup
      {c \in Rule(b.width, b.height)!Interior :
         Rule(b.width, b.height)!Lives(now[1], c)},
    now[1]>>
First(b) == <<b.cells, {}>>

\* g is the table of the generations up to n.
IsTable(g, b, n) ==
  g = [k \in 0 .. n |-> IF k = 0 THEN First(b) ELSE Following(b, g[k - 1])]

LEMMA TableExists ==
  ASSUME NEW b, NEW n \in Nat
  PROVE  \E g : IsTable(g, b, n)
<1> DEFINE S == {m \in Nat : \E g : IsTable(g, b, m)}
<1>1. 0 \in S
  <2>1. IsTable([k \in 0 .. 0 |-> First(b)], b, 0)
    BY DEF IsTable
  <2> QED
    BY <2>1
<1>2. ASSUME NEW m \in S PROVE m + 1 \in S
  <2>1. PICK f : IsTable(f, b, m)
    OBVIOUS
  <2> DEFINE g == [k \in 0 .. m + 1 |-> IF k = m + 1 THEN Following(b, f[m]) ELSE f[k]]
  <2>2. \A k \in 0 .. m : f[k] = IF k = 0 THEN First(b) ELSE Following(b, f[k - 1])
    BY <2>1 DEF IsTable
  <2>3. ASSUME NEW k \in 0 .. m + 1
        PROVE  g[k] = IF k = 0 THEN First(b) ELSE Following(b, g[k - 1])
    <3>1. CASE k = m + 1
      BY <3>1
    <3>2. CASE k # m + 1
      <4>1. k \in 0 .. m /\ g[k] = f[k]
        BY <3>2
      <4>2. k # 0 => k - 1 \in 0 .. m + 1 /\ k - 1 # m + 1
        BY <4>1
      <4>3. k # 0 => g[k - 1] = f[k - 1]
        BY <4>2
      <4> HIDE DEF g
      <4> QED
        BY <2>2, <4>1, <4>3
    <3> QED
      BY <3>1, <3>2
  <2>4. g = [k \in 0 .. m + 1 |-> g[k]]
    OBVIOUS
  <2> HIDE DEF g
  <2>5. IsTable(g, b, m + 1)
    BY <2>3, <2>4 DEF IsTable
  <2> QED
    BY <2>5
<1>3. S = Nat
  <2>1. S \in SUBSET Nat
    OBVIOUS
  <2> HIDE DEF S
  <2> QED
    BY <1>1, <1>2, <2>1, SetInduction
<1> QED
  BY <1>3

LEMMA GenerationsDef ==
  ASSUME NEW b, NEW n \in Nat
  PROVE  \E g : IsTable(g, b, n) /\ Generations(b, n) = g[n]
<1> DEFINE t == CHOOSE g : IsTable(g, b, n)
<1>1. IsTable(t, b, n)
  BY TableExists
<1>2. Generations(b, n) = t[n]
  BY DEF Generations, IsTable, First, Following
<1> QED
  BY <1>1, <1>2

Pairs(b) == (SUBSET AllCells(b)) \X (SUBSET AllCells(b))

LEMMA GenerationsType ==
  ASSUME NEW b, b.width \in Int, b.height \in Int, b.cells \subseteq AllCells(b),
         NEW n \in Nat
  PROVE  Generations(b, n) \in Pairs(b)
<1>1. Rule(b.width, b.height)!Interior \subseteq AllCells(b)
  BY DEF AllCells, Rule!Interior, Rule!InnerRow, Rule!InnerRows
<1>2. ASSUME NEW now \in Pairs(b) PROVE Following(b, now) \in Pairs(b)
  BY <1>1 DEF Pairs, Following
<1>3. First(b) \in Pairs(b)
  BY DEF Pairs, First
<1>4. PICK g : IsTable(g, b, n) /\ Generations(b, n) = g[n]
  BY GenerationsDef
<1> DEFINE S == {k \in Nat : k <= n => g[k] \in Pairs(b)}
<1>5. 0 \in S
  BY <1>3, <1>4 DEF IsTable
<1>6. ASSUME NEW k \in S PROVE k + 1 \in S
  <2>1. CASE k + 1 <= n
    <3>1. k \in 0 .. n /\ k + 1 \in 0 .. n /\ g[k] \in Pairs(b)
      BY <2>1
    <3>2. g[k + 1] = Following(b, g[k])
      BY <1>4, <3>1 DEF IsTable
    <3> QED
      BY <1>2, <3>1, <3>2
  <2>2. CASE ~(k + 1 <= n)
    BY <2>2
  <2> QED
    BY <2>1, <2>2
<1>7. S = Nat
  <2>1. S \in SUBSET Nat
    OBVIOUS
  <2> HIDE DEF S
  <2> QED
    BY <1>5, <1>6, <2>1, SetInduction
<1> QED
  BY <1>4, <1>7

LEMMA SerialType ==
  ASSUME NEW b, b.width \in Int, b.height \in Int, b.cells \subseteq AllCells(b),
         NEW n \in Int
  PROVE  Serial(b, n) \subseteq AllCells(b)
<1>1. n > 0 => Generations(b, n) \in Pairs(b)
  BY GenerationsType
<1> QED
  BY <1>1 DEF Serial, Pairs

-----------------------------------------------------------------------------
(* The inductive invariant *)

\* A run of version v was wrong: its first, or one inside measure_function.
WrongAtFirst(v) == <<v, "first">> \in wrong
WrongAgain(v) == <<v, "measured">> \in wrong
Verdict(v) == IF WrongAtFirst(v) THEN "not timed"
              ELSE IF WrongAgain(v) THEN "broken" ELSE "timed"
IsSerial(v) == TestFunctions[v] = "serial"
IsParallel(v) == TestFunctions[v] = "parallel"
Differs == Parallel(original, iterations) # Serial(original, iterations)

\* While main is in the table the board that is expected is that of the serial
\* version; before, and when there is no table, no version has been tested.
BoardInv ==
  /\ original = Board(original.width, original.height, original.cells)
  /\ original.width \in Int /\ original.height \in Int
  /\ phase = "read" => original = NoBoard
  /\ original # NoBoard /\ phase # "simulate" =>
       expected = [original EXCEPT !.cells = Serial(original, iterations)]
  /\ phase \in {"simulate", "test", "measure"} => original # NoBoard
  /\ phase \in {"read", "simulate", "exit"} \/ original = NoBoard => next = 1

\* The runs of the version at hand, of those before it and of those after it.
RunsInv ==
  /\ phase = "measure" => next \in Versions
  /\ phase = "measure" => (any_errors <=> WrongAgain(next)) /\ ~WrongAtFirst(next)
  /\ \A v \in Versions :
       v > next \/ (v = next /\ phase # "measure") =>
         ~WrongAtFirst(v) /\ ~WrongAgain(v)

\* What was printed, and what main is to return.
VerdictInv ==
  /\ \A v \in DOMAIN verdicts : verdicts[v] = Verdict(v)
  /\ should_exit_failure <=>
       \E v \in DOMAIN verdicts : WrongAtFirst(v) \/ WrongAgain(v)
  /\ \A v \in Versions :
       shown[v] = IF show_result_on_error /\ (WrongAtFirst(v) \/ WrongAgain(v))
                  THEN 1 ELSE 0
  /\ status = "none" <=> phase # "exited"
  /\ phase = "exited" /\ original # NoBoard =>
       (status = "failure" <=> should_exit_failure)

FinishedInv ==
  \A v \in Versions :
    /\ IsSerial(v) => ~WrongAtFirst(v) /\ ~WrongAgain(v)
    /\ IsParallel(v) =>
         /\ ~WrongAgain(v)
         /\ v < next \/ (v = next /\ phase = "measure") =>
              (WrongAtFirst(v) <=> Differs)

MainInv == BoardInv /\ RunsInv /\ VerdictInv /\ FinishedInv

-----------------------------------------------------------------------------
(* The steps before the table *)

LEMMA VersionNumbers ==
  /\ Len(TestFunctions) \in Nat /\ Versions = 1 .. Len(TestFunctions)
  /\ Versions \subseteq Int /\ \A v \in Versions : v >= 1
BY DEF Versions

LEMMA ReadType ==
  ASSUME NEW file
  PROVE  /\ ReadBoard(file).board
              = Board(file.width, file.height, ReadBoard(file).board.cells)
         /\ ReadBoard(file).board.width = file.width
         /\ ReadBoard(file).board.height = file.height
         /\ ReadBoard(file).board.cells \subseteq AllCells(file)
BY DEF ReadBoard, Board

LEMMA NoTiming == MeasureAgain => TimingTypeOK'
<1> SUFFICES ASSUME MeasureAgain PROVE TimingTypeOK'
  OBVIOUS
<1>1. measures' \in [Positions -> 0 .. huge_measure]
  BY HugeType DEF MeasureAgain, NoMeasures
<1>2. num_runs' \in Nat /\ total_cycles' \in 0 .. UINT64_MAX
  BY TimingAssumption DEF MeasureAgain
<1>3. given_up' \in BOOLEAN
  BY Zenon DEF MeasureAgain
<1>4. runs' \in Seq(Cycles)
  BY DEF MeasureAgain
<1> QED
  BY <1>1, <1>2, <1>3, <1>4 DEF TimingTypeOK

LEMMA MainInit == Init => TypeOK /\ MainInv
<1> SUFFICES ASSUME Init PROVE TypeOK /\ MainInv
  OBVIOUS
<1>1. TimingTypeOK
  BY TypeInit DEF Init
<1>2. TypeOK
  <2>1. original.cells \subseteq AllCells(original) /\ expected.cells \subseteq AllCells(expected)
    BY DEF Init, NoBoard, Board
  <2>2. any_errors \in BOOLEAN /\ should_exit_failure \in BOOLEAN
    BY Zenon DEF Init
  <2>3. next \in 1 .. Len(TestFunctions) + 1
    BY DEF Init
  <2>4. verdicts \in Seq({"timed", "broken", "not timed"}) /\ Len(verdicts) = next - 1
    BY DEF Init
  <2>5. shown \in [Versions -> Nat] /\ wrong \subseteq Versions \X {"first", "measured"}
    BY DEF Init
  <2> QED
    BY <1>1, <2>1, <2>2, <2>3, <2>4, <2>5 DEF Init, TypeOK
<1>3. BoardInv
  BY DEF Init, BoardInv, NoBoard, Board
<1>4. RunsInv
  BY DEF Init, RunsInv, WrongAtFirst, WrongAgain
<1>5. VerdictInv
  <2>1. DOMAIN verdicts = {} /\ ~should_exit_failure /\ status = "none" /\ phase = "read"
    BY DEF Init
  <2>2. \A v \in Versions : shown[v] = 0 /\ ~WrongAtFirst(v) /\ ~WrongAgain(v)
    BY DEF Init, WrongAtFirst, WrongAgain
  <2>3. should_exit_failure <=>
          \E v \in DOMAIN verdicts : WrongAtFirst(v) \/ WrongAgain(v)
    BY <2>1, Zenon
  <2>4. \A v \in DOMAIN verdicts : verdicts[v] = Verdict(v)
    BY <2>1, Zenon
  <2>5. \A v \in Versions :
          shown[v] = IF show_result_on_error /\ (WrongAtFirst(v) \/ WrongAgain(v))
                     THEN 1 ELSE 0
    BY <2>2
  <2>6. /\ status = "none" <=> phase # "exited"
        /\ phase = "exited" /\ original # NoBoard =>
             (status = "failure" <=> should_exit_failure)
    BY <2>1
  <2> QED
    BY <2>3, <2>4, <2>5, <2>6, Zenon DEF VerdictInv
<1>6. FinishedInv
  <2>1. next = 1 /\ phase # "measure" /\ \A v : ~WrongAtFirst(v) /\ ~WrongAgain(v)
    BY DEF Init, WrongAtFirst, WrongAgain
  <2> QED
    BY <2>1, VersionNumbers DEF FinishedInv
<1> QED
  BY <1>2, <1>3, <1>4, <1>5, <1>6 DEF MainInv

Printed == {"timed", "broken", "not timed"}

LEMMA NextType ==
  ASSUME TypeOK
  PROVE  /\ next \in Int /\ next >= 1 /\ next <= Len(TestFunctions) + 1
         /\ Len(verdicts) = next - 1 /\ DOMAIN verdicts = 1 .. next - 1
         /\ verdicts \in Seq(Printed)
<1>1. next \in 1 .. Len(TestFunctions) + 1
  BY Zenon DEF TypeOK
<1>2. verdicts \in Seq(Printed) /\ Len(verdicts) = next - 1
  BY Zenon DEF TypeOK, Printed
<1>3. DOMAIN verdicts = 1 .. Len(verdicts)
  BY <1>2
<1> QED
  BY <1>1, <1>2, <1>3, VersionNumbers

\* Before the table no version was run.
LEMMA Untested ==
  ASSUME TypeOK, MainInv, next = 1, phase # "measure"
  PROVE  /\ wrong = {} /\ ~should_exit_failure /\ DOMAIN verdicts = {}
         /\ \A v \in Versions : shown[v] = 0
<1>1. \A v \in Versions : ~WrongAtFirst(v) /\ ~WrongAgain(v)
  BY VersionNumbers DEF MainInv, RunsInv
<1>2. wrong = {}
  <2>1. \A e \in wrong : /\ e[1] \in Versions
                         /\ e = <<e[1], "first">> \/ e = <<e[1], "measured">>
    BY DEF TypeOK
  <2> QED
    BY <1>1, <2>1 DEF WrongAtFirst, WrongAgain
<1>3. DOMAIN verdicts = {}
  <2>1. Len(verdicts) = 0 /\ DOMAIN verdicts = 1 .. Len(verdicts)
    BY DEF TypeOK
  <2> QED
    BY <2>1
<1>4. ~should_exit_failure
  BY <1>3, Zenon DEF MainInv, VerdictInv
<1>5. \A v \in Versions : shown[v] = 0
  BY <1>1 DEF MainInv, VerdictInv
<1> QED
  BY <1>2, <1>3, <1>4, <1>5

\* A step in which no version is run and nothing is printed.
LEMMA QuietKeeps ==
  ASSUME TypeOK, MainInv,
         UNCHANGED <<arguments, next, results, should_exit_failure, verdicts>>,
         BoardInv',
         phase = "measure" <=> phase' = "measure",
         next # 1 \/ phase = "measure" => original' = original,
         status' = "none" <=> phase' # "exited",
         phase' = "exited" /\ original' # NoBoard =>
           (status' = "failure" <=> should_exit_failure)
  PROVE  MainInv'
<1>1. /\ UNCHANGED <<next, any_errors, shown, wrong, should_exit_failure, verdicts>>
      /\ UNCHANGED <<mode, iterations>>
  BY DEF results, arguments
<1>2. /\ \A v : WrongAtFirst(v)' <=> WrongAtFirst(v)
      /\ \A v : WrongAgain(v)' <=> WrongAgain(v)
      /\ \A v : Verdict(v)' = Verdict(v)
      /\ show_result_on_error' = show_result_on_error
  BY <1>1 DEF WrongAtFirst, WrongAgain, Verdict, show_result_on_error
<1>3. RunsInv'
  BY <1>1, <1>2 DEF MainInv, RunsInv, WrongAgain, WrongAtFirst
<1>4. VerdictInv'
  BY <1>1, <1>2 DEF MainInv, VerdictInv
<1>5. FinishedInv'
  <2>1. ASSUME next # 1 \/ phase = "measure" PROVE Differs' <=> Differs
    <3>1. original' = original /\ iterations' = iterations
      BY <1>1, <2>1
    <3> QED
      BY <3>1 DEF Differs
  <2>2. next \in Int
    BY NextType
  <2>3. \A v \in Versions : v < next => next # 1
    BY <2>2, VersionNumbers
  <2>4. \A v \in Versions : IsSerial(v)' = IsSerial(v) /\ IsParallel(v)' = IsParallel(v)
    BY DEF IsSerial, IsParallel
  <2>5. ASSUME NEW v \in Versions
        PROVE  /\ IsSerial(v) => ~WrongAtFirst(v)' /\ ~WrongAgain(v)'
               /\ IsParallel(v) =>
                    /\ ~WrongAgain(v)'
                    /\ v < next' \/ (v = next' /\ phase' = "measure") =>
                         (WrongAtFirst(v)' <=> Differs')
    <3>1. v < next' \/ (v = next' /\ phase' = "measure") =>
            (v < next \/ (v = next /\ phase = "measure")) /\ (Differs' <=> Differs)
      BY <1>1, <2>1, <2>3
    <3> QED
      BY <1>2, <3>1 DEF MainInv, FinishedInv
  <2> QED
    BY <2>4, <2>5 DEF FinishedInv
<1> QED
  BY <1>3, <1>4, <1>5 DEF MainInv

\* Where a step changes nothing of the table but what it says of where main is.
LEMMA SameTypes ==
  ASSUME TypeOK, UNCHANGED <<arguments, next, results, should_exit_failure, verdicts, timing>>,
         phase' \in {"simulate", "test", "exit", "exited", "aborted"},
         original'.cells \subseteq AllCells(original'),
         expected'.cells \subseteq AllCells(expected'),
         status' \in {"none", "success", "failure"}
  PROVE  TypeOK'
<1>1. TimingTypeOK'
  <2>1. [MeasureNext]_timing
    OBVIOUS
  <2> QED
    BY <2>1, TypeStep DEF TypeOK
<1>2. AllCells(original)' = AllCells(original') /\ AllCells(expected)' = AllCells(expected')
  BY DEF AllCells
<1>3. UNCHANGED <<mode, input, iterations, next, any_errors, shown, wrong,
                  should_exit_failure, verdicts>>
  BY DEF arguments, results
<1> QED
  BY <1>1, <1>2, <1>3 DEF TypeOK

LEMMA RefuseKeeps == TypeOK /\ MainInv /\ (Refuse \/ Abort) => TypeOK' /\ MainInv'
<1> SUFFICES ASSUME TypeOK, MainInv, Refuse \/ Abort PROVE TypeOK' /\ MainInv'
  OBVIOUS
<1>1. /\ phase = "read" /\ phase' \in {"exited", "aborted"}
      /\ UNCHANGED <<arguments, original, expected, next, results,
                     should_exit_failure, verdicts, timing>>
  BY DEF Refuse, Abort, Exit
<1>2. /\ status' \in {"none", "success", "failure"}
      /\ status' = "none" <=> phase' # "exited"
  BY DEF Refuse, Abort, Exit, MainInv, VerdictInv
<1>3. TypeOK'
  BY <1>1, <1>2, SameTypes DEF TypeOK
<1>4. original = NoBoard /\ next = 1
  BY <1>1 DEF MainInv, BoardInv
<1>5. BoardInv'
  <2>1. original' = NoBoard /\ next' = 1 /\ NoBoard.width = 0 /\ NoBoard.height = 0
        /\ NoBoard = Board(NoBoard.width, NoBoard.height, NoBoard.cells)
    BY <1>1, <1>4 DEF NoBoard, Board
  <2> QED
    BY <1>1, <2>1 DEF BoardInv
<1>6. MainInv'
  BY <1>1, <1>2, <1>4, <1>5, QuietKeeps
<1> QED
  BY <1>3, <1>6

LEMMA AcceptKeeps == TypeOK /\ MainInv /\ Accept => TypeOK' /\ MainInv'
<1> SUFFICES ASSUME TypeOK, MainInv, Accept PROVE TypeOK' /\ MainInv'
  OBVIOUS
<1>1. /\ phase = "read" /\ phase' = "simulate"
      /\ UNCHANGED <<arguments, expected, next, results, should_exit_failure,
                     verdicts, status, timing>>
  BY DEF Accept
<1>2. /\ input \in Inputs /\ input.width \in Int /\ input.height \in Int
      /\ input.width * input.height > 0
  BY DEF Accept, TypeOK
<1>3. /\ original' = Board(original'.width, original'.height, original'.cells)
      /\ original'.width = input.width /\ original'.height = input.height
      /\ original'.cells \subseteq AllCells(original')
  BY ReadType DEF Accept, AllCells
<1>4. next = 1 /\ status = "none"
  BY <1>1 DEF MainInv, BoardInv, VerdictInv
<1>5. TypeOK'
  BY <1>1, <1>3, <1>4, SameTypes DEF TypeOK
<1>6. original' # NoBoard
  <2>1. input.width # 0
    BY <1>2
  <2>2. NoBoard.width = 0
    BY DEF NoBoard, Board
  <2> QED
    BY <1>3, <2>1, <2>2
<1>7. BoardInv'
  BY <1>1, <1>2, <1>3, <1>4, <1>6 DEF BoardInv
<1>8. MainInv'
  BY <1>1, <1>4, <1>7, QuietKeeps
<1> QED
  BY <1>5, <1>8

LEMMA SimulateKeeps == TypeOK /\ MainInv /\ Simulate => TypeOK' /\ MainInv'
<1> SUFFICES ASSUME TypeOK, MainInv, Simulate PROVE TypeOK' /\ MainInv'
  OBVIOUS
<1> DEFINE result == Serial(original, iterations)
<1>1. /\ phase = "simulate" /\ phase' \in {"test", "exit"}
      /\ expected' = [original EXCEPT !.cells = result]
      /\ UNCHANGED <<arguments, original, next, results, should_exit_failure,
                     verdicts, status, timing>>
  BY DEF Simulate
<1>2. result \subseteq AllCells(original)
  BY SerialType DEF TypeOK, MainInv, BoardInv
<1>3. /\ original = Board(original.width, original.height, original.cells)
      /\ next = 1 /\ status = "none"
  BY <1>1 DEF MainInv, BoardInv, VerdictInv
<1>4. UNCHANGED <<original, iterations>>
  BY <1>1 DEF arguments
<1>5. expected'.cells = result /\ expected'.width = original.width
      /\ expected'.height = original.height
  <2> HIDE DEF result
  <2> QED
    BY <1>1, <1>3 DEF Board
<1>6. TypeOK'
  <2>1. AllCells(expected') = AllCells(original) /\ original'.cells \subseteq AllCells(original')
    BY <1>4, <1>5 DEF AllCells, TypeOK
  <2> QED
    BY <1>1, <1>2, <1>3, <1>5, <2>1, SameTypes DEF TypeOK
<1>7. original # NoBoard
  BY <1>1 DEF MainInv, BoardInv
<1>8. BoardInv'
  BY <1>1, <1>3, <1>4, <1>7 DEF BoardInv, MainInv
<1>9. MainInv'
  BY <1>1, <1>3, <1>8, QuietKeeps
<1> QED
  BY <1>6, <1>9

-----------------------------------------------------------------------------
(* The table *)

\* What a run of the version at hand does, if its board is wrong or not.
Effect(before, kind, error) ==
  /\ any_errors' = (before \/ error)
  /\ wrong' = IF error THEN wrong \cup {<<next, kind>>} ELSE wrong
  /\ shown' = IF error /\ ~before /\ show_result_on_error
              THEN [shown EXCEPT ![next] = @ + 1] ELSE shown
  /\ IsSerial(next) => ~error
  /\ IsParallel(next) => (error <=> Differs)

LEMMA OutcomesOf ==
  ASSUME NEW v
  PROVE  /\ IsSerial(v) => Outcomes(v) = {Serial(original, iterations)}
         /\ IsParallel(v) => Outcomes(v) = {Parallel(original, iterations)}
BY DEF IsSerial, IsParallel, Outcomes

LEMMA Verified ==
  ASSUME TypeOK, MainInv, phase \in {"test", "measure"},
         NEW before, NEW kind, run_and_verify(before, kind)
  PROVE  \E error \in BOOLEAN : Effect(before, kind, error)
<1> DEFINE s == Serial(original, iterations)
<1>1. /\ expected = [original EXCEPT !.cells = s]
      /\ original = Board(original.width, original.height, original.cells)
  BY DEF MainInv, BoardInv
<1>2. PICK cells \in Outcomes(next) :
        LET error == [original EXCEPT !.cells = cells] # expected
            show == error /\ ~before /\ show_result_on_error
        IN  /\ any_errors' = (before \/ error)
            /\ shown' = IF show THEN [shown EXCEPT ![next] = @ + 1] ELSE shown
            /\ wrong' = IF error THEN wrong \cup {<<next, kind>>} ELSE wrong
  BY DEF run_and_verify
<1> DEFINE error == [original EXCEPT !.cells = cells] # expected
<1>3. error <=> cells # s
  <2> HIDE DEF s
  <2> QED
    BY <1>1 DEF Board
<1>4. IsSerial(next) => ~error
  BY <1>3, OutcomesOf
<1>5. IsParallel(next) => (error <=> Differs)
  <2>1. IsParallel(next) => cells = Parallel(original, iterations)
    BY OutcomesOf
  <2> QED
    BY <1>3, <2>1 DEF Differs
<1>6. /\ any_errors' = (before \/ error)
      /\ shown' = IF error /\ ~before /\ show_result_on_error
                  THEN [shown EXCEPT ![next] = @ + 1] ELSE shown
      /\ wrong' = IF error THEN wrong \cup {<<next, kind>>} ELSE wrong
  BY <1>2
<1>7. error \in BOOLEAN
  OBVIOUS
<1> HIDE DEF error
<1>8. Effect(before, kind, error)
  BY <1>4, <1>5, <1>6, Zenon DEF Effect
<1> QED
  BY <1>7, <1>8

\* The types after a run ...
LEMMA EffectTypes ==
  ASSUME TypeOK, next \in Versions, NEW before \in BOOLEAN,
         NEW kind \in {"first", "measured"}, NEW error \in BOOLEAN,
         Effect(before, kind, error)
  PROVE  /\ any_errors' \in BOOLEAN
         /\ wrong' \subseteq Versions \X {"first", "measured"}
         /\ shown' \in [Versions -> Nat]
         /\ \A v \in Versions :
              shown'[v] = IF v = next /\ error /\ ~before /\ show_result_on_error
                          THEN shown[v] + 1 ELSE shown[v]
<1>1. any_errors' \in BOOLEAN
  BY Zenon DEF Effect
<1>2. shown \in [Versions -> Nat] /\ wrong \subseteq Versions \X {"first", "measured"}
  BY Zenon DEF TypeOK
<1>3. wrong' \subseteq Versions \X {"first", "measured"}
  BY <1>2 DEF Effect
<1>4. shown' = shown \/ shown' = [shown EXCEPT ![next] = shown[next] + 1]
  BY DEF Effect
<1>5. shown' \in [Versions -> Nat]
  BY <1>2, <1>4
<1>6. \A v \in Versions :
        shown'[v] = IF v = next /\ error /\ ~before /\ show_result_on_error
                    THEN shown[v] + 1 ELSE shown[v]
  BY <1>2 DEF Effect
<1> QED
  BY <1>1, <1>3, <1>5, <1>6

\* ... and what is then known to be wrong.
LEMMA FirstEffect ==
  ASSUME NEW before, NEW error \in BOOLEAN, Effect(before, "first", error), NEW v
  PROVE  /\ (WrongAtFirst(v))' <=> WrongAtFirst(v) \/ (error /\ v = next)
         /\ (WrongAgain(v))' <=> WrongAgain(v)
BY DEF Effect, WrongAtFirst, WrongAgain

LEMMA AgainEffect ==
  ASSUME NEW before, NEW error \in BOOLEAN, Effect(before, "measured", error), NEW v
  PROVE  /\ (WrongAtFirst(v))' <=> WrongAtFirst(v)
         /\ (WrongAgain(v))' <=> WrongAgain(v) \/ (error /\ v = next)
BY DEF Effect, WrongAtFirst, WrongAgain

LEMMA ReportTypes ==
  ASSUME TypeOK, next \in Versions, NEW verdict \in Printed, Report(verdict)
  PROVE  /\ next' = next + 1 /\ next' \in 1 .. Len(TestFunctions) + 1
         /\ verdicts' \in Seq(Printed) /\ Len(verdicts') = next' - 1
         /\ DOMAIN verdicts' = 1 .. next
         /\ verdicts'[next] = verdict
         /\ \A v \in 1 .. next - 1 : verdicts'[v] = verdicts[v]
         /\ should_exit_failure' \in BOOLEAN
<1>1. verdicts' = Append(verdicts, verdict) /\ next' = next + 1
  BY DEF Report
<1>2. /\ verdicts \in Seq(Printed) /\ Len(verdicts) = next - 1 /\ next \in Int /\ next >= 1
      /\ next <= Len(TestFunctions) /\ Len(TestFunctions) \in Nat
  BY NextType, VersionNumbers
<1>3. should_exit_failure' \in BOOLEAN
  BY Zenon DEF Report
<1> HIDE DEF Printed
<1>4. /\ verdicts' \in Seq(Printed) /\ Len(verdicts') = next
      /\ DOMAIN verdicts' = 1 .. next
      /\ verdicts'[next] = verdict
      /\ \A v \in 1 .. next - 1 : verdicts'[v] = verdicts[v]
  BY <1>1, <1>2
<1> QED
  BY <1>1, <1>2, <1>3, <1>4

\* What stays the same while main is in the table.
LEMMA TableStep ==
  ASSUME TypeOK, MainInv, phase \in {"test", "measure"}, phase' \in {"test", "measure"},
         UNCHANGED <<arguments, original, expected, status>>
  PROVE  /\ BoardInv'
         /\ status' = "none"
         /\ Differs' <=> Differs
         /\ show_result_on_error' <=> show_result_on_error
         /\ \A v : IsSerial(v)' = IsSerial(v) /\ IsParallel(v)' = IsParallel(v)
<1>1. iterations' = iterations /\ mode' = mode
  BY DEF arguments
<1>2. original # NoBoard
  BY DEF MainInv, BoardInv
<1>3. BoardInv'
  BY <1>1, <1>2 DEF MainInv, BoardInv
<1>4. status' = "none"
  BY DEF MainInv, VerdictInv
<1>5. Differs' <=> Differs
  BY <1>1, Zenon DEF Differs
<1>6. show_result_on_error' <=> show_result_on_error
  BY <1>1 DEF show_result_on_error
<1>7. \A v : IsSerial(v)' = IsSerial(v) /\ IsParallel(v)' = IsParallel(v)
  BY DEF IsSerial, IsParallel
<1> QED
  BY <1>3, <1>4, <1>5, <1>6, <1>7

LEMMA TableTypes ==
  ASSUME TypeOK, TimingTypeOK', phase' \in {"test", "measure"},
         UNCHANGED <<arguments, original, expected, status>>,
         next' \in 1 .. Len(TestFunctions) + 1,
         any_errors' \in BOOLEAN, should_exit_failure' \in BOOLEAN,
         wrong' \subseteq Versions \X {"first", "measured"},
         shown' \in [Versions -> Nat],
         verdicts' \in Seq(Printed), Len(verdicts') = next' - 1
  PROVE  TypeOK'
<1>1. /\ mode' = mode /\ input' = input /\ iterations' = iterations
      /\ status' = status
  BY DEF arguments
<1>2. /\ original'.cells \subseteq AllCells(original')
      /\ expected'.cells \subseteq AllCells(expected')
  BY DEF TypeOK
<1>3. AllCells(original)' = AllCells(original') /\ AllCells(expected)' = AllCells(expected')
  BY DEF AllCells
<1>4. /\ mode' \in {"serial-result", "time", "time-and-result", "usage"}
      /\ input' \in Inputs \cup {NoInput} /\ iterations' \in Iterations
      /\ status' \in {"none", "success", "failure"}
  BY <1>1 DEF TypeOK
<1> QED
  BY <1>2, <1>3, <1>4 DEF TypeOK, Printed

\* The version n is over: its verdict is right, and those before it stay so.
LEMMA Reported ==
  ASSUME TypeOK, MainInv, NEW n \in Versions, n = next,
         NEW verdict \in Printed, Report(verdict),
         \A v \in Versions \ {n} : /\ (WrongAtFirst(v))' <=> WrongAtFirst(v)
                                   /\ (WrongAgain(v))' <=> WrongAgain(v),
         verdict = (Verdict(n))',
         \A v \in Versions :
           shown'[v] = IF show_result_on_error' /\ ((WrongAtFirst(v))' \/ (WrongAgain(v))')
                       THEN 1 ELSE 0,
         phase' = "test", status' = "none"
  PROVE  /\ VerdictInv'
         /\ next' = n + 1
         /\ \A v \in Versions : v > n => ~(WrongAtFirst(v))' /\ ~(WrongAgain(v))'
<1>1. /\ next' = n + 1 /\ DOMAIN verdicts' = 1 .. n /\ verdicts'[n] = verdict
      /\ \A v \in 1 .. n - 1 : verdicts'[v] = verdicts[v]
      /\ DOMAIN verdicts = 1 .. n - 1 /\ n \in Int
  BY ReportTypes, NextType
<1>2. \A v \in 1 .. n - 1 : v \in Versions \ {n}
  BY <1>1, VersionNumbers
<1>3. ASSUME NEW v \in 1 .. n - 1 PROVE (Verdict(v))' = Verdict(v)
  BY <1>2, <1>3 DEF Verdict
<1>4. \A v \in 1 .. n : verdicts'[v] = (Verdict(v))'
  <2>1. \A v \in 1 .. n - 1 : verdicts[v] = Verdict(v)
    BY <1>1 DEF MainInv, VerdictInv
  <2>2. \A v \in 1 .. n : v = n \/ v \in 1 .. n - 1
    BY <1>1
  <2> QED
    BY <1>1, <1>3, <2>1, <2>2
<1>5. verdict # "timed" <=> (WrongAtFirst(n))' \/ (WrongAgain(n))'
  BY DEF Verdict
<1>6. should_exit_failure' <=>
        \E v \in 1 .. n : (WrongAtFirst(v))' \/ (WrongAgain(v))'
  <2>1. should_exit_failure' <=> should_exit_failure \/ verdict # "timed"
    BY DEF Report
  <2>2. should_exit_failure <=> \E v \in 1 .. n - 1 : WrongAtFirst(v) \/ WrongAgain(v)
    BY <1>1 DEF MainInv, VerdictInv
  <2>3. /\ \A v \in 1 .. n : v = n \/ v \in 1 .. n - 1
        /\ n \in 1 .. n /\ 1 .. n - 1 \subseteq 1 .. n
    BY <1>1, NextType
  <2> QED
    BY <1>2, <1>5, <2>1, <2>2, <2>3
<1>7. VerdictInv'
  BY <1>1, <1>4, <1>6 DEF VerdictInv
<1>8. ASSUME NEW v \in Versions, v > n PROVE ~(WrongAtFirst(v))' /\ ~(WrongAgain(v))'
  <2>1. v \in Versions \ {n} /\ v > next
    BY <1>1, <1>8
  <2> QED
    BY <2>1 DEF MainInv, RunsInv
<1> QED
  BY <1>1, <1>7, <1>8

LEMMA FirstRunKeeps == TypeOK /\ MainInv /\ FirstRun => TypeOK' /\ MainInv'
<1> SUFFICES ASSUME TypeOK, MainInv, FirstRun PROVE TypeOK' /\ MainInv'
  OBVIOUS
<1>1. /\ phase = "test" /\ next <= Len(TestFunctions) /\ run_and_verify(FALSE, "first")
      /\ IF any_errors' THEN Report("not timed") /\ UNCHANGED phase
         ELSE phase' = "measure" /\ UNCHANGED <<verdicts, should_exit_failure, next>>
      /\ UNCHANGED <<arguments, original, expected, status, timing>>
  BY DEF FirstRun, Reset
<1>2. PICK n \in Versions : n = next
  <2>1. next <= Len(TestFunctions)
    BY <1>1
  <2> QED
    BY <2>1, NextType, VersionNumbers
<1>3. PICK error \in BOOLEAN : Effect(FALSE, "first", error)
  BY <1>1, Verified
<1>4. any_errors' <=> error
  BY <1>3 DEF Effect
<1>5. \A v : /\ (WrongAtFirst(v))' <=> WrongAtFirst(v) \/ (error /\ v = n)
             /\ (WrongAgain(v))' <=> WrongAgain(v)
  <2> SUFFICES ASSUME NEW v
               PROVE  /\ (WrongAtFirst(v))' <=> WrongAtFirst(v) \/ (error /\ v = next)
                      /\ (WrongAgain(v))' <=> WrongAgain(v)
    BY <1>2, Zenon
  <2> QED
    BY <1>3, FirstEffect
<1>6. /\ any_errors' \in BOOLEAN
      /\ wrong' \subseteq Versions \X {"first", "measured"}
      /\ shown' \in [Versions -> Nat]
      /\ \A v \in Versions : shown'[v] = IF v = n /\ error /\ show_result_on_error
                                         THEN shown[v] + 1 ELSE shown[v]
  BY <1>2, <1>3, EffectTypes
<1>7. ~WrongAtFirst(n) /\ ~WrongAgain(n)
  BY <1>1, <1>2 DEF MainInv, RunsInv
<1>8. phase' \in {"test", "measure"}
  BY <1>1
<1>9. /\ BoardInv' /\ status' = "none" /\ (Differs' <=> Differs)
      /\ (show_result_on_error' <=> show_result_on_error)
      /\ \A v : IsSerial(v)' = IsSerial(v) /\ IsParallel(v)' = IsParallel(v)
  BY <1>1, <1>8, TableStep
<1>10. \A v \in Versions :
         shown'[v] = IF show_result_on_error' /\ ((WrongAtFirst(v))' \/ (WrongAgain(v))')
                     THEN 1 ELSE 0
  <2>1. \A v \in Versions :
          shown[v] = IF show_result_on_error /\ (WrongAtFirst(v) \/ WrongAgain(v))
                     THEN 1 ELSE 0
    BY DEF MainInv, VerdictInv
  <2> QED
    BY <1>5, <1>6, <1>7, <1>9, <2>1
<1>11. TimingTypeOK'
  BY <1>1, TypeStep DEF TypeOK
<1>12. /\ IsSerial(n) => ~error
       /\ IsParallel(n) => (error <=> Differs)
  BY <1>2, <1>3 DEF Effect
<1>13. n \in Int /\ \A v \in Versions : v \in Int
  BY VersionNumbers
<1>14. \A v \in Versions :
         /\ IsSerial(v) => ~WrongAtFirst(v) /\ ~WrongAgain(v)
         /\ IsParallel(v) => ~WrongAgain(v) /\ (v < n => (WrongAtFirst(v) <=> Differs))
  BY <1>2 DEF MainInv, FinishedInv
<1>15. \A v \in Versions : v > n => ~WrongAtFirst(v) /\ ~WrongAgain(v)
  BY <1>2 DEF MainInv, RunsInv
<1>16. CASE error
  <2>1. Report("not timed") /\ phase' = "test" /\ "not timed" \in Printed
    BY <1>1, <1>4, <1>16 DEF Printed
  <2>2. (Verdict(n))' = "not timed"
    BY <1>5, <1>16 DEF Verdict
  <2>3. /\ VerdictInv' /\ next' = n + 1
        /\ \A v \in Versions : v > n => ~(WrongAtFirst(v))' /\ ~(WrongAgain(v))'
    BY <1>2, <1>5, <1>9, <1>10, <2>1, <2>2, Reported
  <2>4. RunsInv'
    <3>1. \A v \in Versions : v > next' \/ v = next' => v > n
      BY <1>13, <2>3
    <3>2. phase' # "measure"
      BY <2>1
    <3> QED
      BY <2>3, <3>1, <3>2 DEF RunsInv
  <2>5. FinishedInv'
    <3>1. ASSUME NEW v \in Versions
          PROVE  /\ IsSerial(v) => ~(WrongAtFirst(v))' /\ ~(WrongAgain(v))'
                 /\ IsParallel(v) =>
                      ~(WrongAgain(v))' /\ (v < n + 1 => ((WrongAtFirst(v))' <=> Differs))
      <4>1. CASE v = n
        BY <1>5, <1>7, <1>12, <1>16, <4>1
      <4>2. CASE v # n
        BY <1>5, <1>13, <1>14, <4>2
      <4> QED
        BY <4>1, <4>2
    <3> QED
      BY <1>9, <2>1, <2>3, <3>1 DEF FinishedInv
  <2>6. TypeOK'
    <3>1. /\ next' \in 1 .. Len(TestFunctions) + 1
          /\ verdicts' \in Seq(Printed) /\ Len(verdicts') = next' - 1
          /\ should_exit_failure' \in BOOLEAN
      BY <1>2, <2>1, ReportTypes
    <3> QED
      BY <1>1, <1>6, <1>8, <1>11, <3>1, TableTypes
  <2> QED
    BY <1>9, <2>3, <2>4, <2>5, <2>6 DEF MainInv
<1>17. CASE ~error
  <2>1. phase' = "measure" /\ UNCHANGED <<verdicts, should_exit_failure, next>>
    BY <1>1, <1>4, <1>17
  <2>2. \A v : /\ (WrongAtFirst(v))' <=> WrongAtFirst(v)
               /\ (WrongAgain(v))' <=> WrongAgain(v)
    BY <1>5, <1>17
  <2>3. RunsInv'
    <3>1. next' = n /\ ~any_errors' /\ ~(WrongAtFirst(n))' /\ ~(WrongAgain(n))'
      BY <1>2, <1>4, <1>7, <1>17, <2>1, <2>2
    <3>2. (WrongAgain(next) <=> WrongAgain(n))' /\ (WrongAtFirst(next) <=> WrongAtFirst(n))'
      BY <3>1
    <3> QED
      BY <1>15, <2>1, <2>2, <3>1, <3>2 DEF RunsInv
  <2>4. VerdictInv'
    <3>1. \A v : (Verdict(v))' = Verdict(v)
      BY <2>2 DEF Verdict
    <3> QED
      BY <1>9, <1>10, <2>1, <2>2, <3>1 DEF MainInv, VerdictInv
  <2>5. FinishedInv'
    <3>1. ASSUME NEW v \in Versions
          PROVE  /\ IsSerial(v) => ~WrongAtFirst(v) /\ ~WrongAgain(v)
                 /\ IsParallel(v) =>
                      ~WrongAgain(v) /\ (v < n \/ v = n => (WrongAtFirst(v) <=> Differs))
      BY <1>7, <1>12, <1>14, <1>17
    <3>2. next' = n
      BY <1>2, <2>1
    <3> QED
      BY <1>9, <2>1, <2>2, <3>1, <3>2 DEF FinishedInv
  <2>6. TypeOK'
    <3>1. /\ next' \in 1 .. Len(TestFunctions) + 1
          /\ verdicts' \in Seq(Printed) /\ Len(verdicts') = next' - 1
      BY <2>1, NextType, VersionNumbers
    <3>2. should_exit_failure' \in BOOLEAN
      BY <2>1, Zenon DEF TypeOK
    <3> QED
      BY <1>1, <1>6, <1>8, <1>11, <3>1, <3>2, TableTypes
  <2> QED
    BY <1>9, <2>3, <2>4, <2>5, <2>6 DEF MainInv
<1> QED
  BY <1>16, <1>17

LEMMA MeasuredRunKeeps == TypeOK /\ MainInv /\ MeasuredRun => TypeOK' /\ MainInv'
<1> SUFFICES ASSUME TypeOK, MainInv, MeasuredRun PROVE TypeOK' /\ MainInv'
  OBVIOUS
<1>1. /\ phase = "measure" /\ MeasureNext /\ run_and_verify(any_errors, "measured")
      /\ UNCHANGED <<arguments, phase, original, expected, next,
                     should_exit_failure, verdicts, status>>
  BY DEF MeasuredRun
<1>2. PICK n \in Versions : n = next
  BY <1>1 DEF MainInv, RunsInv
<1>3. PICK error \in BOOLEAN : Effect(any_errors, "measured", error)
  BY <1>1, Verified
<1>4. /\ any_errors' <=> any_errors \/ error
      /\ any_errors <=> WrongAgain(n)
      /\ any_errors \in BOOLEAN /\ ~WrongAtFirst(n)
  <2>1. any_errors' <=> any_errors \/ error
    BY <1>3 DEF Effect
  <2>2. any_errors \in BOOLEAN
    BY Zenon DEF TypeOK
  <2>3. (any_errors <=> WrongAgain(n)) /\ ~WrongAtFirst(n)
    BY <1>1, <1>2 DEF MainInv, RunsInv
  <2> QED
    BY <2>1, <2>2, <2>3
<1>5. \A v : /\ (WrongAtFirst(v))' <=> WrongAtFirst(v)
             /\ (WrongAgain(v))' <=> WrongAgain(v) \/ (error /\ v = n)
  <2> SUFFICES ASSUME NEW v
               PROVE  /\ (WrongAtFirst(v))' <=> WrongAtFirst(v)
                      /\ (WrongAgain(v))' <=> WrongAgain(v) \/ (error /\ v = next)
    BY <1>2, Zenon
  <2> QED
    BY <1>3, AgainEffect
<1>6. /\ any_errors' \in BOOLEAN
      /\ wrong' \subseteq Versions \X {"first", "measured"}
      /\ shown' \in [Versions -> Nat]
      /\ \A v \in Versions :
           shown'[v] = IF v = n /\ error /\ ~any_errors /\ show_result_on_error
                       THEN shown[v] + 1 ELSE shown[v]
  BY <1>2, <1>3, <1>4, EffectTypes
<1>7. phase' = "measure" /\ next' = n
  BY <1>1, <1>2
<1>8. /\ BoardInv' /\ status' = "none" /\ (Differs' <=> Differs)
      /\ (show_result_on_error' <=> show_result_on_error)
      /\ \A v : IsSerial(v)' = IsSerial(v) /\ IsParallel(v)' = IsParallel(v)
  BY <1>1, <1>7, TableStep
<1>9. /\ IsSerial(n) => ~error
      /\ IsParallel(n) => (error <=> Differs)
  BY <1>2, <1>3 DEF Effect
<1>10. \A v \in Versions :
         /\ IsSerial(v) => ~WrongAtFirst(v) /\ ~WrongAgain(v)
         /\ IsParallel(v) =>
              ~WrongAgain(v) /\ (v < n \/ v = n => (WrongAtFirst(v) <=> Differs))
  BY <1>1, <1>2 DEF MainInv, FinishedInv
<1>11. \A v \in Versions : v > n => ~WrongAtFirst(v) /\ ~WrongAgain(v)
  BY <1>2 DEF MainInv, RunsInv
<1>12. RunsInv'
  <2>1. (any_errors' <=> (WrongAgain(n))') /\ ~(WrongAtFirst(n))'
    BY <1>4, <1>5
  <2>2. ((WrongAgain(next))' <=> (WrongAgain(n))') /\ ((WrongAtFirst(next))' <=> (WrongAtFirst(n))')
    BY <1>7
  <2>3. \A v \in Versions : v > n => v # n
    BY VersionNumbers
  <2> QED
    BY <1>5, <1>7, <1>11, <2>1, <2>2, <2>3 DEF RunsInv
<1>13. VerdictInv'
  <2>1. DOMAIN verdicts = 1 .. n - 1 /\ n \in Int
    BY <1>2, NextType
  <2>2. ASSUME NEW v \in DOMAIN verdicts
        PROVE  /\ (Verdict(v))' = Verdict(v)
               /\ (WrongAtFirst(v))' \/ (WrongAgain(v))' <=> WrongAtFirst(v) \/ WrongAgain(v)
    <3>1. v # n
      BY <2>1
    <3> QED
      BY <1>5, <3>1 DEF Verdict
  <2>3. \A v \in Versions :
          shown'[v] = IF show_result_on_error' /\ ((WrongAtFirst(v))' \/ (WrongAgain(v))')
                      THEN 1 ELSE 0
    <3>1. \A v \in Versions :
            shown[v] = IF show_result_on_error /\ (WrongAtFirst(v) \/ WrongAgain(v))
                       THEN 1 ELSE 0
      BY DEF MainInv, VerdictInv
    <3> QED
      BY <1>4, <1>5, <1>6, <1>8, <3>1
  <2>4. /\ verdicts' = verdicts /\ should_exit_failure' = should_exit_failure
        /\ phase' # "exited"
    BY <1>1
  <2>5. /\ \A v \in DOMAIN verdicts : verdicts[v] = Verdict(v)
        /\ should_exit_failure <=>
             \E v \in DOMAIN verdicts : WrongAtFirst(v) \/ WrongAgain(v)
    BY DEF MainInv, VerdictInv
  <2>6. should_exit_failure' <=>
          \E v \in DOMAIN verdicts' : (WrongAtFirst(v))' \/ (WrongAgain(v))'
    BY <2>2, <2>4, <2>5
  <2>7. \A v \in DOMAIN verdicts' : verdicts'[v] = (Verdict(v))'
    BY <2>2, <2>4, <2>5
  <2> QED
    BY <1>8, <2>3, <2>4, <2>6, <2>7 DEF VerdictInv
<1>14. FinishedInv'
  <2>1. ASSUME NEW v \in Versions
        PROVE  /\ IsSerial(v) => ~(WrongAtFirst(v))' /\ ~(WrongAgain(v))'
               /\ IsParallel(v) => /\ ~(WrongAgain(v))'
                                   /\ v < n \/ v = n => ((WrongAtFirst(v))' <=> Differs)
    BY <1>4, <1>5, <1>9, <1>10
  <2> QED
    BY <1>7, <1>8, <2>1 DEF FinishedInv
<1>15. TypeOK'
  <2>1. TimingTypeOK'
    BY <1>1, TypeStep DEF TypeOK
  <2>2. /\ next' \in 1 .. Len(TestFunctions) + 1
        /\ verdicts' \in Seq(Printed) /\ Len(verdicts') = next' - 1
    <3>1. next' = next /\ verdicts' = verdicts
      BY <1>1
    <3> QED
      BY <3>1, NextType, VersionNumbers
  <2>3. should_exit_failure' \in BOOLEAN
    BY <1>1, Zenon DEF TypeOK
  <2>4. phase' \in {"test", "measure"}
    BY <1>7
  <2> QED
    BY <1>1, <1>6, <2>1, <2>2, <2>3, <2>4, TableTypes
<1> QED
  BY <1>8, <1>12, <1>13, <1>14, <1>15 DEF MainInv

LEMMA MeasureReturnsKeeps == TypeOK /\ MainInv /\ MeasureReturns => TypeOK' /\ MainInv'
<1> SUFFICES ASSUME TypeOK, MainInv, MeasureReturns PROVE TypeOK' /\ MainInv'
  OBVIOUS
<1> DEFINE verdict == IF any_errors THEN "broken" ELSE "timed"
<1>1. /\ phase = "measure" /\ phase' = "test" /\ Report(verdict) /\ MeasureAgain
      /\ UNCHANGED <<arguments, original, expected, results, status>>
  BY DEF MeasureReturns
<1>2. PICK n \in Versions : n = next
  BY <1>1 DEF MainInv, RunsInv
<1>3. UNCHANGED <<any_errors, shown, wrong>>
  BY <1>1 DEF results
<1>4. \A v : /\ (WrongAtFirst(v))' <=> WrongAtFirst(v)
             /\ (WrongAgain(v))' <=> WrongAgain(v)
  BY <1>3 DEF WrongAtFirst, WrongAgain
<1>5. (any_errors <=> WrongAgain(n)) /\ ~WrongAtFirst(n)
  BY <1>1, <1>2 DEF MainInv, RunsInv
<1>6. phase' \in {"test", "measure"}
  BY <1>1
<1>7. /\ BoardInv' /\ status' = "none" /\ (Differs' <=> Differs)
      /\ (show_result_on_error' <=> show_result_on_error)
      /\ \A v : IsSerial(v)' = IsSerial(v) /\ IsParallel(v)' = IsParallel(v)
  BY <1>1, <1>6, TableStep
<1>8. verdict \in Printed /\ verdict = (Verdict(n))'
  BY <1>4, <1>5 DEF Verdict, Printed
<1>9. \A v \in Versions :
        shown'[v] = IF show_result_on_error' /\ ((WrongAtFirst(v))' \/ (WrongAgain(v))')
                    THEN 1 ELSE 0
  <2>1. \A v \in Versions :
          shown[v] = IF show_result_on_error /\ (WrongAtFirst(v) \/ WrongAgain(v))
                     THEN 1 ELSE 0
    BY DEF MainInv, VerdictInv
  <2> QED
    BY <1>3, <1>4, <1>7, <2>1
<1> HIDE DEF verdict
<1>10. /\ VerdictInv' /\ next' = n + 1
       /\ \A v \in Versions : v > n => ~(WrongAtFirst(v))' /\ ~(WrongAgain(v))'
  BY <1>1, <1>2, <1>4, <1>7, <1>8, <1>9, Reported
<1>11. n \in Int /\ \A v \in Versions : v \in Int
  BY VersionNumbers
<1>12. RunsInv'
  <2>1. \A v \in Versions : v > next' \/ v = next' => v > n
    BY <1>10, <1>11
  <2>2. phase' # "measure"
    BY <1>1
  <2> QED
    BY <1>10, <2>1, <2>2 DEF RunsInv
<1>13. FinishedInv'
  <2>1. \A v \in Versions :
          /\ IsSerial(v) => ~WrongAtFirst(v) /\ ~WrongAgain(v)
          /\ IsParallel(v) =>
               ~WrongAgain(v) /\ (v < n \/ v = n => (WrongAtFirst(v) <=> Differs))
    BY <1>1, <1>2 DEF MainInv, FinishedInv
  <2>2. \A v \in Versions : v < next' => v < n \/ v = n
    BY <1>10, <1>11
  <2>3. phase' # "measure"
    BY <1>1
  <2> QED
    BY <1>4, <1>7, <2>1, <2>2, <2>3 DEF FinishedInv
<1>14. TypeOK'
  <2>1. TimingTypeOK'
    BY <1>1, NoTiming
  <2>2. /\ next' \in 1 .. Len(TestFunctions) + 1
        /\ verdicts' \in Seq(Printed) /\ Len(verdicts') = next' - 1
        /\ should_exit_failure' \in BOOLEAN
    BY <1>1, <1>2, <1>8, ReportTypes
  <2>3. /\ any_errors' \in BOOLEAN
        /\ wrong' \subseteq Versions \X {"first", "measured"}
        /\ shown' \in [Versions -> Nat]
    BY <1>3, Zenon DEF TypeOK
  <2> QED
    BY <1>1, <1>6, <2>1, <2>2, <2>3, TableTypes
<1> QED
  BY <1>7, <1>10, <1>12, <1>13, <1>14 DEF MainInv

LEMMA FinishKeeps == TypeOK /\ MainInv /\ Finish => TypeOK' /\ MainInv'
<1> SUFFICES ASSUME TypeOK, MainInv, Finish PROVE TypeOK' /\ MainInv'
  OBVIOUS
<1>1. /\ phase \in {"exit", "test"} /\ phase' = "exited"
      /\ status' = IF should_exit_failure THEN "failure" ELSE "success"
      /\ UNCHANGED <<arguments, original, expected, next, results,
                     should_exit_failure, verdicts, timing>>
  BY DEF Finish, Exit
<1>2. /\ status' \in {"none", "success", "failure"} /\ status' # "none"
      /\ status' = "failure" <=> should_exit_failure
  BY <1>1
<1>3. TypeOK'
  <2>1. /\ original'.cells \subseteq AllCells(original')
        /\ expected'.cells \subseteq AllCells(expected')
    BY <1>1 DEF TypeOK
  <2> QED
    BY <1>1, <1>2, <2>1, SameTypes
<1>4. BoardInv'
  <2>1. original' = original /\ expected' = expected /\ next' = next
        /\ iterations' = iterations
    BY <1>1 DEF arguments
  <2> QED
    BY <1>1, <2>1 DEF MainInv, BoardInv
<1>5. MainInv'
  BY <1>1, <1>2, <1>4, QuietKeeps
<1> QED
  BY <1>3, <1>5

LEMMA MainStep == TypeOK /\ MainInv /\ [Next]_vars => TypeOK' /\ MainInv'
<1> SUFFICES ASSUME TypeOK, MainInv, [Next]_vars PROVE TypeOK' /\ MainInv'
  OBVIOUS
<1>1. CASE UNCHANGED vars
  <2>1. TypeOK'
    <3>1. TimingTypeOK'
      BY <1>1, TypeStep DEF TypeOK, vars
    <3>2. UNCHANGED <<mode, input, iterations, phase, original, expected, next, any_errors,
                      should_exit_failure, verdicts, shown, wrong, status>>
      BY <1>1 DEF vars, arguments, results
    <3> QED
      BY <3>1, <3>2 DEF TypeOK, AllCells
  <2>2. MainInv'
    BY <1>1 DEF vars, arguments, results, MainInv, BoardInv, RunsInv, VerdictInv,
                FinishedInv, WrongAtFirst, WrongAgain, Verdict, Differs,
                show_result_on_error
  <2> QED
    BY <2>1, <2>2
<1> QED
  BY <1>1, RefuseKeeps, AcceptKeeps, SimulateKeeps, FirstRunKeeps, MeasuredRunKeeps,
     MeasureReturnsKeeps, FinishKeeps DEF Next

\* A version whose first run is wrong is not run again.
WrongOnce == \A v \in Versions : ~(WrongAtFirst(v) /\ WrongAgain(v))

LEMMA WrongOnceInit == Init => WrongOnce
BY DEF Init, WrongOnce, WrongAtFirst

LEMMA WrongOnceStep == TypeOK /\ MainInv /\ WrongOnce /\ [Next]_vars => WrongOnce'
<1> SUFFICES ASSUME TypeOK, MainInv, WrongOnce, [Next]_vars PROVE WrongOnce'
  OBVIOUS
<1>1. CASE FirstRun
  <2>1. phase = "test" /\ run_and_verify(FALSE, "first")
    BY <1>1 DEF FirstRun, Reset
  <2>2. PICK error \in BOOLEAN : Effect(FALSE, "first", error)
    BY <2>1, Verified
  <2>3. ~(WrongAgain(next))
    <3>1. next <= Len(TestFunctions)
      BY <1>1 DEF FirstRun
    <3>2. next \in Versions
      BY <3>1, NextType, VersionNumbers
    <3> QED
      BY <2>1, <3>2 DEF MainInv, RunsInv
  <2>4. ASSUME NEW v \in Versions, v # next
        PROVE  (WrongAtFirst(v))' <=> WrongAtFirst(v)
    <3>1. (WrongAtFirst(v))' <=> WrongAtFirst(v) \/ (error /\ v = next)
      BY <2>2, FirstEffect
    <3> QED
      BY <2>4, <3>1
  <2>5. \A v \in Versions : (WrongAgain(v))' <=> WrongAgain(v)
    BY <2>2, FirstEffect
  <2> QED
    BY <2>3, <2>4, <2>5 DEF WrongOnce
<1>2. CASE MeasuredRun
  <2>1. phase = "measure" /\ run_and_verify(any_errors, "measured")
    BY <1>2 DEF MeasuredRun
  <2>2. PICK error \in BOOLEAN : Effect(any_errors, "measured", error)
    BY <2>1, Verified
  <2>3. ~WrongAtFirst(next)
    BY <2>1 DEF MainInv, RunsInv
  <2>4. ASSUME NEW v \in Versions, v # next
        PROVE  (WrongAgain(v))' <=> WrongAgain(v)
    <3>1. (WrongAgain(v))' <=> WrongAgain(v) \/ (error /\ v = next)
      BY <2>2, AgainEffect
    <3> QED
      BY <2>4, <3>1
  <2>5. \A v \in Versions : (WrongAtFirst(v))' <=> WrongAtFirst(v)
    BY <2>2, AgainEffect
  <2> QED
    BY <2>3, <2>4, <2>5 DEF WrongOnce
<1>3. CASE UNCHANGED wrong
  BY <1>3 DEF WrongOnce, WrongAtFirst, WrongAgain
<1>4. FirstRun \/ MeasuredRun \/ UNCHANGED wrong
  BY DEF Next, vars, results, Refuse, Abort, Accept, Simulate, MeasureReturns, Finish
<1> QED
  BY <1>1, <1>2, <1>3, <1>4

\* Everything main keeps has its type: each board its own cells only, as many
\* lines printed as versions tested, whatever is typed and the runs take.
THEOREM MainTypeCorrect == Spec => []TypeOK
BY MainInit, MainStep, PTL DEF Spec

\* Each line printed, each count of boards shown and the exit status tell
\* exactly which runs of which versions were wrong, though an error inside
\* measure_function comes back through a global variable only.
THEOREM VerdictsCorrect == Spec => []VerdictsTellErrors
<1>1. TypeOK /\ MainInv /\ WrongOnce => VerdictsTellErrors
  <2> SUFFICES ASSUME TypeOK, MainInv, WrongOnce PROVE VerdictsTellErrors
    OBVIOUS
  <2>1. \A v \in DOMAIN verdicts :
          verdicts[v] = CASE <<v, "first">> \in wrong -> "not timed"
                          [] <<v, "measured">> \in wrong -> "broken"
                          [] OTHER -> "timed"
    <3>1. ASSUME NEW v \in DOMAIN verdicts PROVE ~(WrongAtFirst(v) /\ WrongAgain(v))
      BY NextType, VersionNumbers DEF WrongOnce
    <3> QED
      BY <3>1 DEF MainInv, VerdictInv, Verdict, WrongAtFirst, WrongAgain
  <2>2. \A v \in Versions :
          shown[v] = IF show_result_on_error /\ (\E kind \in {"first", "measured"} :
                          <<v, kind>> \in wrong) THEN 1 ELSE 0
    BY DEF MainInv, VerdictInv, WrongAtFirst, WrongAgain
  <2>3. ASSUME status # "none", original # NoBoard
        PROVE  status = "failure" <=> wrong # {}
    <3>1. phase = "exited" /\ (status = "failure" <=> should_exit_failure)
      BY <2>3 DEF MainInv, VerdictInv
    <3>2. should_exit_failure <=>
            \E v \in DOMAIN verdicts : WrongAtFirst(v) \/ WrongAgain(v)
      BY DEF MainInv, VerdictInv
    <3>3. \A e \in wrong : /\ e[1] \in Versions
                           /\ e = <<e[1], "first">> \/ e = <<e[1], "measured">>
      <4>1. wrong \subseteq Versions \X {"first", "measured"}
        BY Zenon DEF TypeOK
      <4> QED
        BY <4>1
    <3>4. \A v \in Versions : WrongAtFirst(v) \/ WrongAgain(v) => ~(v > next \/ v = next)
      BY <3>1 DEF MainInv, RunsInv
    <3>5. \A v \in Versions : ~(v > next \/ v = next) => v \in DOMAIN verdicts
      BY NextType, VersionNumbers
    <3>6. wrong # {} <=> \E v \in DOMAIN verdicts : WrongAtFirst(v) \/ WrongAgain(v)
      BY <3>3, <3>4, <3>5 DEF WrongAtFirst, WrongAgain
    <3> QED
      BY <3>1, <3>2, <3>6
  <2> QED
    BY <2>1, <2>2, <2>3 DEF VerdictsTellErrors
<1> QED
  BY <1>1, MainInit, MainStep, WrongOnceInit, WrongOnceStep, PTL DEF Spec

\* What the parallel version leaves is not what the serial one does just when
\* no step was asked for and its last swap shows the empty spare board.
LEMMA DiffersWhen ==
  ASSUME TypeOK, MainInv
  PROVE  Differs <=> ~(iterations >= 0 \/ iterations % 2 = 0 \/ original.cells = {})
<1>1. iterations \in Int
  BY Zenon DEF TypeOK
<1>2. iterations % 2 \in {0, 1} /\ (iterations = 0 => iterations % 2 = 0)
  BY <1>1
<1>3. CASE iterations > 0
  BY <1>1, <1>3 DEF Differs, Parallel
<1>4. CASE ~(iterations > 0)
  <2>1. Serial(original, iterations) = original.cells
    BY <1>1, <1>4 DEF Serial
  <2>2. Parallel(original, iterations) = IF iterations % 2 = 1 THEN {} ELSE original.cells
    BY <1>1, <1>4 DEF Parallel
  <2>3. iterations >= 0 => iterations % 2 = 0
    BY <1>1, <1>2, <1>4
  <2>4. Differs <=> iterations % 2 = 1 /\ original.cells # {}
    BY <2>1, <2>2, Zenon DEF Differs
  <2> QED
    BY <1>2, <2>3, <2>4
<1> QED
  BY <1>3, <1>4

\* Whatever the table and the number of iterations are, the serial version
\* passes, and the parallel one but for a negative odd number of iterations.
THEOREM FinishedVersionsCorrect == Spec => []FinishedVersionsPass
<1>1. TypeOK /\ MainInv => FinishedVersionsPass
  <2> SUFFICES ASSUME TypeOK, MainInv, NEW v \in DOMAIN verdicts
               PROVE  /\ IsSerial(v) => verdicts[v] = "timed"
                      /\ IsParallel(v) =>
                           (verdicts[v] = "timed" <=>
                              iterations >= 0 \/ iterations % 2 = 0 \/ original.cells = {})
    BY DEF FinishedVersionsPass, IsSerial, IsParallel
  <2>1. v \in Versions /\ v < next
    BY NextType, VersionNumbers
  <2>2. verdicts[v] = "timed" <=> ~WrongAtFirst(v) /\ ~WrongAgain(v)
    BY DEF MainInv, VerdictInv, Verdict
  <2>3. /\ IsSerial(v) => ~WrongAtFirst(v) /\ ~WrongAgain(v)
        /\ IsParallel(v) => ~WrongAgain(v) /\ (WrongAtFirst(v) <=> Differs)
    BY <2>1 DEF MainInv, FinishedInv
  <2>4. Differs <=> ~(iterations >= 0 \/ iterations % 2 = 0 \/ original.cells = {})
    BY DiffersWhen
  <2> QED
    BY <2>2, <2>3, <2>4, Zenon
<1> QED
  BY <1>1, MainInit, MainStep, PTL DEF Spec

-----------------------------------------------------------------------------
(* The reader of boards *)

LEMMA MinOf ==
  ASSUME NEW T \in SUBSET Nat, T # {}
  PROVE  Min(T) \in T /\ \A k \in T : Min(T) <= k
BY Smallest DEF Min

LEMMA IgnoreFinds ==
  ASSUME NEW text, DOMAIN text \in SUBSET Nat, NEW p \in Nat, NEW q \in DOMAIN text,
         p <= q, text[q] = Newline,
         \A r \in DOMAIN text : p <= r /\ r < q => text[r] # Newline
  PROVE  Ignore(text, p) = q + 1
<1> DEFINE ends == {r \in DOMAIN text : r >= p /\ text[r] = Newline}
<1>1. ends \in SUBSET Nat /\ q \in ends /\ \A r \in ends : q <= r
  OBVIOUS
<1>2. Ignore(text, p) = 1 + (IF ends = {} THEN Len(text) ELSE Min(ends))
  BY DEF Ignore
<1> HIDE DEF ends
<1>3. Min(ends) = q
  <2>1. Min(ends) \in ends /\ \A k \in ends : Min(ends) <= k
    BY <1>1, MinOf
  <2>2. Min(ends) \in Nat /\ q \in Nat /\ q <= Min(ends) /\ Min(ends) <= q
    BY <1>1, <2>1
  <2> QED
    BY <2>2
<1> QED
  BY <1>1, <1>2, <1>3

\* start is where the rows of the file start, up to row n.
Starts(start, file, n) ==
  start = [y \in 0 .. n |->
             IF y = 0 THEN 1 ELSE Ignore(file.text, start[y - 1] + file.width)]

LEMMA StartsExist ==
  ASSUME NEW file, NEW n \in Nat
  PROVE  \E start : Starts(start, file, n)
<1> DEFINE S == {m \in Nat : \E start : Starts(start, file, m)}
<1>1. 0 \in S
  <2>1. Starts([y \in 0 .. 0 |-> 1], file, 0)
    BY DEF Starts
  <2> QED
    BY <2>1
<1>2. ASSUME NEW m \in S PROVE m + 1 \in S
  <2>1. PICK f : Starts(f, file, m)
    OBVIOUS
  <2> DEFINE more == Ignore(file.text, f[m] + file.width)
             g == [y \in 0 .. m + 1 |-> IF y = m + 1 THEN more ELSE f[y]]
  <2>2. \A y \in 0 .. m :
          f[y] = IF y = 0 THEN 1 ELSE Ignore(file.text, f[y - 1] + file.width)
    BY <2>1 DEF Starts
  <2> HIDE DEF more
  <2>3. ASSUME NEW y \in 0 .. m + 1
        PROVE  g[y] = IF y = 0 THEN 1 ELSE Ignore(file.text, g[y - 1] + file.width)
    <3>1. CASE y = m + 1
      <4>1. g[y] = more /\ g[y - 1] = f[m] /\ y # 0
        BY <3>1
      <4> HIDE DEF g
      <4> QED
        BY <4>1 DEF more
    <3>2. CASE y # m + 1
      <4>1. y \in 0 .. m /\ g[y] = f[y]
        BY <3>2
      <4>2. y # 0 => y - 1 \in 0 .. m + 1 /\ y - 1 # m + 1
        BY <4>1
      <4>3. y # 0 => g[y - 1] = f[y - 1]
        BY <4>2
      <4> HIDE DEF g
      <4> QED
        BY <2>2, <4>1, <4>3
    <3> QED
      BY <3>1, <3>2
  <2>4. g = [y \in 0 .. m + 1 |-> g[y]]
    OBVIOUS
  <2> HIDE DEF g
  <2>5. Starts(g, file, m + 1)
    BY <2>3, <2>4 DEF Starts
  <2> QED
    BY <2>5
<1>3. S = Nat
  <2>1. S \in SUBSET Nat
    OBVIOUS
  <2> HIDE DEF S
  <2> QED
    BY <1>1, <1>2, <2>1, SetInduction
<1> QED
  BY <1>3

LEMMA RowStartDef ==
  ASSUME NEW file, file.height \in Nat \ {0}
  PROVE  /\ RowStart(file)[0] = 1
         /\ \A y \in 1 .. file.height - 1 :
              RowStart(file)[y] = Ignore(file.text, RowStart(file)[y - 1] + file.width)
<1> DEFINE n == file.height - 1
           t == CHOOSE start : Starts(start, file, n)
<1>1. n \in Nat
  OBVIOUS
<1> HIDE DEF n
<1>2. Starts(t, file, n)
  BY <1>1, StartsExist
<1>3. RowStart(file) = t
  BY DEF RowStart, Starts, n
<1> HIDE DEF t
<1>4. \A y \in 0 .. n : t[y] = IF y = 0 THEN 1
                               ELSE Ignore(file.text, t[y - 1] + file.width)
  BY <1>2 DEF Starts
<1>5. t[0] = 1
  BY <1>1, <1>4
<1>6. \A y \in 1 .. n : y \in 0 .. n /\ y # 0
  BY <1>1
<1>7. \A y \in 1 .. n : t[y] = Ignore(file.text, t[y - 1] + file.width)
  BY <1>4, <1>6
<1> QED
  BY <1>3, <1>5, <1>7 DEF n

-----------------------------------------------------------------------------
(* What is printed is read as what it was *)

LEMMA Times ==
  ASSUME NEW a \in Int, NEW b \in Int, NEW d \in Nat, a <= b
  PROVE  a * d \in Int /\ b * d \in Int /\ a * d <= b * d
OBVIOUS

LEMMA DivMod ==
  ASSUME NEW d \in Nat \ {0}, NEW y \in Nat, NEW x \in 0 .. d - 1
  PROVE  (y * d + x) \div d = y /\ (y * d + x) % d = x
<1> DEFINE n == y * d + x
           q == n \div d
           r == n % d
<1>1. n \in Int
  OBVIOUS
<1> HIDE DEF n
<1>2. q \in Int /\ r \in 0 .. d - 1 /\ n = d * q + r
  BY <1>1
<1> HIDE DEF q, r
<1>3. n = d * y + x
  BY DEF n
<1>4. d * q \in Int /\ d * y \in Int
  BY <1>2
<1>5. CASE q < y
  <2>1. (q + 1) * d <= y * d
    BY <1>2, <1>5, Times
  <2>2. d * q + d <= d * y
    BY <1>2, <2>1
  <2> QED
    BY <1>2, <1>3, <1>4, <2>2
<1>6. CASE q > y
  <2>1. (y + 1) * d <= q * d
    BY <1>2, <1>6, Times
  <2>2. d * y + d <= d * q
    BY <1>2, <2>1
  <2> QED
    BY <1>2, <1>3, <1>4, <2>2
<1>7. CASE q = y
  BY <1>2, <1>3, <1>4, <1>7 DEF q, r, n
<1> QED
  BY <1>2, <1>5, <1>6, <1>7
Position(b, x, y) == y * (b.width + 1) + x + 1

\* The characters of a printed board.
LEMMA PrintedAt ==
  ASSUME NEW b, b.width \in Nat \ {0}, b.height \in Nat \ {0}
  PROVE  /\ PrintBoard(b).width = b.width /\ PrintBoard(b).height = b.height
         /\ DOMAIN PrintBoard(b).text \in SUBSET Nat
         /\ \A y \in 0 .. b.height - 1, x \in 0 .. b.width :
              /\ Position(b, x, y) \in DOMAIN PrintBoard(b).text
              /\ PrintBoard(b).text[Position(b, x, y)] =
                   IF x = b.width THEN Newline
                   ELSE IF <<x, y>> \in b.cells THEN "*" ELSE "."
<1> DEFINE w == b.width
           h == b.height
           text == PrintBoard(b).text
           n == h * (w + 1)
           char(x, y) == IF x = w THEN Newline
                         ELSE IF <<x, y>> \in b.cells THEN "*" ELSE "."
<1>1. /\ PrintBoard(b).width = w /\ PrintBoard(b).height = h
      /\ text = [p \in 1 .. n |-> char((p - 1) % (w + 1), (p - 1) \div (w + 1))]
  BY DEF PrintBoard, File
<1>3. w \in Nat \ {0} /\ h \in Nat \ {0} /\ n \in Nat
  OBVIOUS
<1> HIDE DEF char, text, w, h
<1>4. DOMAIN text \in SUBSET Nat
  <2> HIDE DEF n
  <2> QED
    BY <1>1, <1>3
<1>5. ASSUME NEW y \in 0 .. h - 1, NEW x \in 0 .. w
      PROVE  LET p == y * (w + 1) + x + 1
             IN  p \in DOMAIN text /\ text[p] = char(x, y)
  <2> DEFINE d == w + 1
             m == y * d + x
  <2>1. d \in Nat \ {0} /\ y \in Nat /\ x \in 0 .. d - 1
    BY <1>3
  <2>2. m \div d = y /\ m % d = x
    <3> HIDE DEF d
    <3> QED
      BY <2>1, DivMod
  <2>3. (y + 1) * d <= h * d /\ h * d \in Int /\ y * d \in Int /\ 0 <= y * d
    <3>1. y + 1 \in Int /\ h \in Int /\ d \in Nat /\ y + 1 <= h /\ 0 <= y
      BY <1>3, <2>1
    <3> HIDE DEF d
    <3>2. (y + 1) * d <= h * d /\ h * d \in Int
      BY <3>1, Times
    <3>3. y * d \in Int /\ 0 * d <= y * d
      BY <2>1, <3>1, Times
    <3> QED
      BY <2>1, <3>2, <3>3
  <2>4. m + 1 \in 1 .. n
    <3>1. n = h * d /\ (y + 1) * d = y * d + d
      BY <1>3, <2>1
    <3> HIDE DEF d, n
    <3> QED
      BY <2>1, <2>3, <3>1
  <2>5. (m + 1) - 1 = m
    <3> HIDE DEF d
    <3> QED
      BY <2>1, <2>3
  <2> HIDE DEF n
  <2>6. text[m + 1] = char(m % d, m \div d)
    BY <1>1, <2>4, <2>5
  <2> QED
    BY <1>1, <2>2, <2>4, <2>6
<1> QED
  BY <1>1, <1>4, <1>5 DEF Position, char, text, w, h

\* Every row of a printed board starts after the newline of the row before.
LEMMA PrintedRows ==
  ASSUME NEW b, b.width \in Nat \ {0}, b.height \in Nat \ {0}
  PROVE  \A y \in 0 .. b.height - 1 : RowStart(PrintBoard(b))[y] = Position(b, 0, y)
<1> DEFINE w == b.width
           h == b.height
           file == PrintBoard(b)
           S == {y \in Nat : y <= h - 1 => RowStart(file)[y] = Position(b, 0, y)}
<1>1. w \in Nat \ {0} /\ h \in Nat \ {0}
  OBVIOUS
<1>2. /\ file.width = w /\ file.height = h /\ DOMAIN file.text \in SUBSET Nat
      /\ \A y \in 0 .. h - 1, x \in 0 .. w :
           /\ Position(b, x, y) \in DOMAIN file.text
           /\ x = w => file.text[Position(b, x, y)] = Newline
  BY PrintedAt
<1> HIDE DEF file
<1>3. /\ RowStart(file)[0] = 1
      /\ \A y \in 1 .. h - 1 : RowStart(file)[y] = Ignore(file.text, RowStart(file)[y - 1] + w)
  BY <1>1, <1>2, RowStartDef
<1>4. \A x \in Nat, y \in Nat : Position(b, x, y) = y * (w + 1) + x + 1
  BY DEF Position
<1> HIDE DEF w, h
<1>5. Position(b, 0, 0) = 1
  BY <1>1, <1>4
<1>6. 0 \in S
  BY <1>3, <1>5
<1>7. ASSUME NEW y \in S PROVE y + 1 \in S
  <2> SUFFICES ASSUME y + 1 <= h - 1
               PROVE  RowStart(file)[y + 1] = Position(b, 0, y + 1)
    OBVIOUS
  <2> DEFINE q == Position(b, w, y)
  <2>1. y \in Nat /\ y + 1 \in 1 .. h - 1 /\ y \in 0 .. h - 1 /\ w \in 0 .. w
        /\ (y + 1) - 1 = y
    BY <1>1
  <2>2. RowStart(file)[y] = Position(b, 0, y)
    BY <1>1, <2>1
  <2>3. RowStart(file)[y + 1] = Ignore(file.text, RowStart(file)[y] + w)
    BY <1>3, <2>1
  <2>4. /\ q = Position(b, 0, y) + w /\ q \in Nat /\ q + 1 = Position(b, 0, y + 1)
    <3>1. /\ q = y * (w + 1) + w + 1
          /\ Position(b, 0, y) = y * (w + 1) + 0 + 1
          /\ Position(b, 0, y + 1) = (y + 1) * (w + 1) + 0 + 1
      <4>1. w \in Nat /\ y \in Nat /\ y + 1 \in Nat /\ 0 \in Nat
        BY <1>1, <2>1
      <4> QED
        BY <1>4, <4>1, Zenon
    <3> HIDE DEF q
    <3>2. w \in Nat /\ y \in Nat
      BY <1>1, <2>1
    <3>3. y * (w + 1) \in Nat /\ (y + 1) * (w + 1) = y * (w + 1) + (w + 1)
      BY <3>2
    <3> QED
      BY <3>1, <3>2, <3>3
  <2>5. q \in DOMAIN file.text /\ file.text[q] = Newline
    BY <1>2, <2>1
  <2> HIDE DEF q
  <2>6. Ignore(file.text, q) = q + 1
    <3>1. \A r \in DOMAIN file.text : q <= r /\ r < q => file.text[r] # Newline
      BY <1>2, <2>4
    <3> QED
      BY <1>2, <2>4, <2>5, <3>1, IgnoreFinds
  <2> QED
    BY <2>2, <2>3, <2>4, <2>6
<1>8. S = Nat
  <2>1. S \in SUBSET Nat
    OBVIOUS
  <2> HIDE DEF S
  <2> QED
    BY <1>6, <1>7, <2>1, SetInduction
<1> QED
  BY <1>1, <1>8 DEF file, h

\* The reader takes what the program prints for the board that was printed.
LEMMA PrintedIsRead ==
  ASSUME NEW w \in Int, NEW h \in Int, NEW cells,
         cells \subseteq AllCells(Board(w, h, cells))
  PROVE  ReadBoard(PrintBoard(Board(w, h, cells))) =
           [ok |-> TRUE, board |-> Board(w, h, cells)]
<1> DEFINE b == Board(w, h, cells)
           file == PrintBoard(b)
           start == RowStart(file)
           At(c) == start[c[2]] + c[1]
           all == (0 .. w - 1) \X (0 .. h - 1)
           read == {c \in all : At(c) \in DOMAIN file.text => file.text[At(c)] \notin Blank}
<1>1. b.width = w /\ b.height = h /\ b.cells = cells /\ cells \subseteq all
  BY DEF Board, AllCells
<1>2. file.width = w /\ file.height = h /\ AllCells(file) = all
  BY <1>1 DEF PrintBoard, File, AllCells
<1>3. ReadBoard(file) = [ok |-> \A c \in all : At(c) \in DOMAIN file.text,
                         board |-> Board(w, h, read)]
  BY <1>2 DEF ReadBoard
<1>4. ASSUME NEW c \in all
      PROVE  /\ At(c) \in DOMAIN file.text
             /\ file.text[At(c)] \notin Blank <=> c \in cells
  <2>1. /\ c = <<c[1], c[2]>> /\ c[1] \in 0 .. w - 1 /\ c[2] \in 0 .. h - 1
    OBVIOUS
  <2>2. w \in Nat \ {0} /\ h \in Nat \ {0} /\ c[1] \in 0 .. w /\ c[1] # w
    BY <2>1
  <2> HIDE DEF b, all
  <2>3. start[c[2]] = Position(b, 0, c[2])
    BY <1>1, <2>1, <2>2, PrintedRows
  <2>4. At(c) = Position(b, c[1], c[2])
    <3>1. /\ Position(b, c[1], c[2]) = c[2] * (w + 1) + c[1] + 1
          /\ Position(b, 0, c[2]) = c[2] * (w + 1) + 0 + 1
      BY <1>1 DEF Position
    <3>2. c[2] \in Nat /\ c[1] \in Nat /\ w \in Nat
      BY <2>1, <2>2
    <3>3. c[2] * (w + 1) \in Nat
      BY <3>2
    <3> HIDE DEF start
    <3>4. At(c) = start[c[2]] + c[1]
      OBVIOUS
    <3> QED
      BY <2>3, <3>1, <3>2, <3>3, <3>4
  <2>5. /\ Position(b, c[1], c[2]) \in DOMAIN file.text
        /\ file.text[Position(b, c[1], c[2])] =
             IF c[1] = w THEN Newline
             ELSE IF <<c[1], c[2]>> \in cells THEN "*" ELSE "."
    BY <1>1, <2>1, <2>2, PrintedAt
  <2>6. <<c[1], c[2]>> \in cells <=> c \in cells
    BY <2>1
  <2> HIDE DEF At, file
  <2>7. file.text[At(c)] = IF c \in cells THEN "*" ELSE "."
    BY <2>2, <2>4, <2>5, <2>6
  <2>8. "*" \notin Blank /\ "." \in Blank
    BY DEF Blank
  <2> QED
    BY <2>4, <2>5, <2>7, <2>8
<1>5. read = cells
  <2> HIDE DEF all, At
  <2> QED
    BY <1>1, <1>4
<1>6. \A c \in all : At(c) \in DOMAIN file.text
  BY <1>4
<1>7. ReadBoard(file) = [ok |-> TRUE, board |-> Board(w, h, cells)]
  <2> HIDE DEF read, all, At, file
  <2> QED
    BY <1>3, <1>5, <1>6
<1> QED
  BY <1>7

-----------------------------------------------------------------------------
(* A complete file is read as the picture it is *)

\* How many newlines there are before position p.
Before(file, p) == Cardinality(Newlines(file, p))

LEMMA BeforeCounts ==
  ASSUME NEW file, NEW n \in Nat, DOMAIN file.text = 1 .. n
  PROVE  /\ \A p \in Nat : Before(file, p) \in Nat
         /\ Before(file, 1) = 0
         /\ \A p \in Nat, q \in Nat : p <= q => Before(file, p) <= Before(file, q)
         /\ \A p \in 1 .. n :
              Before(file, p + 1) = IF file.text[p] = Newline THEN Before(file, p) + 1
                                    ELSE Before(file, p)
<1>1. ASSUME NEW p \in Nat
      PROVE  IsFiniteSet(Newlines(file, p)) /\ Before(file, p) \in Nat
  <2>1. IsFiniteSet(1 .. n)
    BY FS_Interval
  <2>2. Newlines(file, p) \in SUBSET (1 .. n)
    BY DEF Newlines
  <2> QED
    BY <2>1, <2>2, FS_Subset, FS_CardinalityType DEF Before
<1>2. Before(file, 1) = 0
  <2>1. Newlines(file, 1) = {}
    BY DEF Newlines
  <2> QED
    BY <2>1, FS_EmptySet DEF Before
<1>3. ASSUME NEW p \in Nat, NEW q \in Nat, p <= q
      PROVE  Before(file, p) <= Before(file, q)
  <2>1. Newlines(file, p) \in SUBSET Newlines(file, q)
    BY <1>3 DEF Newlines
  <2> QED
    BY <1>1, <2>1, FS_Subset DEF Before
<1>4. ASSUME NEW p \in 1 .. n
      PROVE  Before(file, p + 1) = IF file.text[p] = Newline THEN Before(file, p) + 1
                                   ELSE Before(file, p)
  <2>1. CASE file.text[p] = Newline
    <3>1. Newlines(file, p + 1) = Newlines(file, p) \cup {p} /\ p \notin Newlines(file, p)
      BY <2>1 DEF Newlines
    <3>2. IsFiniteSet(Newlines(file, p))
      BY <1>1
    <3> QED
      BY <2>1, <3>1, <3>2, FS_AddElement DEF Before
  <2>2. CASE file.text[p] # Newline
    <3>1. Newlines(file, p + 1) = Newlines(file, p)
      BY <2>2 DEF Newlines
    <3> QED
      BY <2>2, <3>1 DEF Before
  <2> QED
    BY <2>1, <2>2
<1> QED
  BY <1>1, <1>2, <1>3, <1>4

\* Row y starts at s: y lines end before it, and fewer before what precedes it.
RowIs(file, y, s) ==
  /\ s \in Nat \ {0}
  /\ Before(file, s) = y
  /\ \A p \in DOMAIN file.text : p < s => Before(file, p) < y

\* The line of a row that is long enough starts where the row does, and holds
\* the characters that the reader gets for the row.
LEMMA RowInLine ==
  ASSUME NEW file, NEW n \in Nat, DOMAIN file.text = 1 .. n,
         NEW w \in Nat \ {0}, NEW y \in Nat, NEW s, RowIs(file, y, s),
         Cardinality(Line(file, y)) >= w
  PROVE  /\ Min(Line(file, y)) = s
         /\ \A k \in 0 .. w - 1 : s + k \in Line(file, y)
         /\ Before(file, s + w) = y
<1> DEFINE line == Line(file, y)
<1>1. s \in Nat \ {0} /\ Before(file, s) = y
  BY DEF RowIs
<1>2. line \in SUBSET (1 .. n) /\ line \in SUBSET Nat /\ \A p \in line : s <= p
  <2>1. \A p \in line : p \in 1 .. n /\ Before(file, p) = y
    BY DEF Line, Before
  <2>2. \A p \in line : ~(p < s)
    BY <2>1 DEF RowIs
  <2> QED
    BY <1>1, <2>1, <2>2
<1>3. ASSUME NEW p \in line, NEW r \in s .. p PROVE r \in line
  <2>1. p \in 1 .. n /\ r \in 1 .. n /\ r <= p /\ s <= r /\ r \in Nat /\ p \in Nat
    BY <1>1, <1>2
  <2>2. Before(file, p) = y /\ file.text[p] # Newline
    BY DEF Line, Before
  <2>3. Before(file, s) <= Before(file, r) /\ Before(file, r) <= Before(file, p)
    BY <1>1, <2>1, BeforeCounts
  <2>4. Before(file, r) \in Nat
    BY <2>1, BeforeCounts
  <2>5. Before(file, r) = y
    BY <1>1, <2>2, <2>3, <2>4
  <2>6. file.text[r] # Newline
    <3>1. SUFFICES ASSUME file.text[r] = Newline, r # p PROVE FALSE
      BY <2>2
    <3>2. r + 1 \in Nat /\ r + 1 <= p
      BY <2>1, <3>1
    <3>3. Before(file, r + 1) = Before(file, r) + 1
      BY <2>1, <3>1, BeforeCounts
    <3>4. Before(file, r + 1) <= Before(file, p)
      BY <2>1, <3>2, BeforeCounts
    <3> QED
      BY <2>2, <2>5, <3>3, <3>4
  <2> QED
    BY <2>1, <2>5, <2>6 DEF Line, Before
<1>4. \E p \in line : p >= s + w - 1
  <2>1. SUFFICES ASSUME \A p \in line : p < s + w - 1 PROVE FALSE
    BY <1>1, <1>2
  <2>2. line \in SUBSET (s .. s + w - 2)
    BY <1>1, <1>2, <2>1
  <2>3. IsFiniteSet(s .. s + w - 2) /\ Cardinality(s .. s + w - 2) = w - 1
    <3> DEFINE e == s + w - 2
    <3>1. s \in Int /\ e \in Int /\ e - s + 1 = w - 1 /\ (s > e => w - 1 = 0)
      BY <1>1
    <3> HIDE DEF e
    <3>2. IsFiniteSet(s .. e) /\ Cardinality(s .. e) = IF s > e THEN 0 ELSE e - s + 1
      BY <3>1, FS_Interval
    <3>3. Cardinality(s .. e) = w - 1
      BY <3>1, <3>2
    <3> QED
      BY <3>2, <3>3 DEF e
  <2> HIDE DEF line
  <2>4. Cardinality(line) <= w - 1 /\ Cardinality(line) \in Nat
    BY <2>2, <2>3, FS_Subset, FS_CardinalityType
  <2> QED
    BY <2>4 DEF line
<1>5. \A k \in 0 .. w - 1 : s + k \in line
  <2>1. PICK p \in line : p >= s + w - 1
    BY <1>4
  <2>2. p \in Nat
    BY <1>2
  <2>3. \A k \in 0 .. w - 1 : s + k \in s .. p
    BY <1>1, <2>1, <2>2
  <2> HIDE DEF line
  <2> QED
    BY <1>3, <2>3
<1>6. Min(line) = s
  <2>1. s \in line
    <3>1. s + 0 \in line /\ s + 0 = s
      BY <1>1, <1>5
    <3> QED
      BY <3>1
  <2> HIDE DEF line
  <2>2. Min(line) \in line /\ \A k \in line : Min(line) <= k
    BY <1>2, <2>1, MinOf
  <2>3. Min(line) \in Nat /\ s <= Min(line) /\ Min(line) <= s
    BY <1>2, <2>1, <2>2
  <2> QED
    BY <1>1, <2>3
<1>7. Before(file, s + w) = y
  <2> DEFINE p == s + w - 1
  <2>1. p \in line
    <3>1. s + (w - 1) \in line /\ s + (w - 1) = s + w - 1
      BY <1>1, <1>5
    <3> QED
      BY <3>1
  <2>2. p \in 1 .. n /\ file.text[p] # Newline /\ Before(file, p) = y
    BY <2>1 DEF Line, Before
  <2>3. p + 1 = s + w
    BY <1>1
  <2> HIDE DEF p
  <2>4. Before(file, p + 1) = y
    BY <2>2, BeforeCounts
  <2> QED
    BY <2>3, <2>4
<1> QED
  BY <1>5, <1>6, <1>7

\* The reader finds the next row where the next line starts.
LEMMA NextRow ==
  ASSUME NEW file, NEW n \in Nat, DOMAIN file.text = 1 .. n,
         NEW w \in Nat \ {0}, NEW y \in Nat, NEW s, RowIs(file, y, s),
         Before(file, s + w) = y, Line(file, y + 1) # {}
  PROVE  RowIs(file, y + 1, Ignore(file.text, s + w))
<1> DEFINE t == s + w
           ends == {q \in DOMAIN file.text : q >= t /\ file.text[q] = Newline}
<1>1. s \in Nat \ {0} /\ t \in Nat \ {0}
  BY DEF RowIs
<1>2. Before(file, t) = y
  OBVIOUS
<1>3. Ignore(file.text, t) = 1 + (IF ends = {} THEN Len(file.text) ELSE Min(ends))
  BY DEF Ignore
<1>4. Newlines(file, t) \in SUBSET Newlines(file, t)
  OBVIOUS
<1> HIDE DEF t
<1>5. ends # {}
  <2> SUFFICES ASSUME ends = {} PROVE FALSE
    OBVIOUS
  <2>1. PICK p \in Line(file, y + 1) : TRUE
    OBVIOUS
  <2>2. p \in 1 .. n /\ p \in Nat /\ Before(file, p) = y + 1
    BY DEF Line, Before
  <2>3. CASE p <= t
    <3>1. Before(file, p) <= Before(file, t)
      BY <1>1, <2>2, <2>3, BeforeCounts
    <3> QED
      BY <1>2, <2>2, <3>1
  <2>4. CASE t < p
    <3>1. Newlines(file, p) = Newlines(file, t)
      BY <1>1, <2>2, <2>4 DEF Newlines
    <3> QED
      BY <1>2, <2>2, <3>1 DEF Before
  <2> QED
    BY <1>1, <2>2, <2>3, <2>4
<1>6. PICK q \in ends : q = Min(ends) /\ \A k \in ends : q <= k
  <2>1. ends \in SUBSET Nat
    OBVIOUS
  <2> HIDE DEF ends
  <2> QED
    BY <1>5, <2>1, MinOf
<1>7. q \in 1 .. n /\ q >= t /\ file.text[q] = Newline
  OBVIOUS
<1>8. Newlines(file, q) = Newlines(file, t)
  <2>1. \A p \in DOMAIN file.text : file.text[p] = Newline /\ p >= t => q <= p
    BY <1>6
  <2>2. \A p \in DOMAIN file.text : file.text[p] = Newline => (p < q <=> p < t)
    BY <1>1, <1>7, <2>1
  <2> QED
    BY <2>2 DEF Newlines
<1>9. Before(file, q) = y
  BY <1>2, <1>8 DEF Before
<1>10. Before(file, q + 1) = y + 1
  BY <1>7, <1>9, BeforeCounts
<1>11. Ignore(file.text, t) = q + 1
  <2> HIDE DEF ends
  <2> QED
    BY <1>3, <1>5, <1>6, <1>7
<1>12. \A p \in DOMAIN file.text : p < q + 1 => Before(file, p) < y + 1
  <2> SUFFICES ASSUME NEW p \in 1 .. n, p < q + 1 PROVE Before(file, p) < y + 1
    OBVIOUS
  <2>1. p \in Nat /\ q \in Nat /\ p <= q
    BY <1>7
  <2>2. Before(file, p) <= Before(file, q) /\ Before(file, p) \in Nat
    BY <2>1, BeforeCounts
  <2> QED
    BY <1>9, <2>2
<1>13. RowIs(file, y + 1, q + 1)
  BY <1>7, <1>10, <1>12 DEF RowIs
<1> QED
  BY <1>11, <1>13 DEF t

\* In a complete file every row starts where its line does.
LEMMA PictureRows ==
  ASSUME NEW file, NEW n \in Nat, DOMAIN file.text = 1 .. n,
         file.width \in Nat \ {0}, file.height \in Nat \ {0}, Complete(file)
  PROVE  \A y \in 0 .. file.height - 1 : RowIs(file, y, RowStart(file)[y])
<1> DEFINE w == file.width
           h == file.height
           start == RowStart(file)
           S == {y \in Nat : y <= h - 1 => RowIs(file, y, start[y])}
<1>1. w \in Nat \ {0} /\ h \in Nat \ {0}
      /\ \A y \in 0 .. h - 1 : Cardinality(Line(file, y)) >= w
  BY DEF Complete
<1>2. /\ start[0] = 1
      /\ \A y \in 1 .. h - 1 : start[y] = Ignore(file.text, start[y - 1] + w)
  BY RowStartDef
<1> HIDE DEF w, h, start
<1>3. 0 \in S
  <2>1. RowIs(file, 0, 1)
    <3>1. Before(file, 1) = 0
      BY BeforeCounts
    <3>2. \A p \in DOMAIN file.text : ~(p < 1)
      OBVIOUS
    <3> QED
      BY <3>1, <3>2 DEF RowIs
  <2> QED
    BY <1>2, <2>1
<1>4. ASSUME NEW y \in S PROVE y + 1 \in S
  <2> SUFFICES ASSUME y + 1 <= h - 1 PROVE RowIs(file, y + 1, start[y + 1])
    OBVIOUS
  <2>1. y \in Nat /\ y + 1 \in 1 .. h - 1 /\ y \in 0 .. h - 1 /\ y + 1 \in 0 .. h - 1
        /\ (y + 1) - 1 = y
    BY <1>1
  <2>2. RowIs(file, y, start[y])
    BY <1>1, <2>1
  <2>3. start[y + 1] = Ignore(file.text, start[y] + w)
    BY <1>2, <2>1
  <2>4. Cardinality(Line(file, y)) >= w /\ Cardinality(Line(file, y + 1)) >= w
    BY <1>1, <2>1
  <2>5. Before(file, start[y] + w) = y
    <3>1. y \in Nat /\ w \in Nat \ {0} /\ Cardinality(Line(file, y)) >= w
      BY <1>1, <2>1, <2>4
    <3> QED
      BY <2>2, <3>1, RowInLine, Zenon
  <2>6. Line(file, y + 1) # {}
    <3>1. Cardinality({}) = 0 /\ ~(0 >= w)
      BY <1>1, FS_EmptySet
    <3> QED
      BY <2>4, <3>1
  <2>7. RowIs(file, y + 1, Ignore(file.text, start[y] + w))
    BY <1>1, <2>1, <2>2, <2>5, <2>6, NextRow
  <2> QED
    BY <2>3, <2>7
<1>5. S = Nat
  <2>1. S \in SUBSET Nat
    OBVIOUS
  <2> HIDE DEF S
  <2> QED
    BY <1>3, <1>4, <2>1, SetInduction
<1> QED
  BY <1>1, <1>5 DEF start, h

LEMMA PictureLines ==
  ASSUME NEW file, NEW n \in Nat, DOMAIN file.text = 1 .. n,
         file.width \in Nat \ {0}, file.height \in Nat \ {0}, Complete(file),
         NEW y \in 0 .. file.height - 1
  PROVE  /\ Min(Line(file, y)) = RowStart(file)[y]
         /\ \A x \in 0 .. file.width - 1 : RowStart(file)[y] + x \in Line(file, y)
<1> DEFINE w == file.width
           s == RowStart(file)[y]
<1>1. RowIs(file, y, s)
  BY PictureRows
<1>2. y \in Nat /\ w \in Nat \ {0} /\ Cardinality(Line(file, y)) >= w
  BY DEF Complete
<1> HIDE DEF w, s
<1>3. Min(Line(file, y)) = s /\ \A x \in 0 .. w - 1 : s + x \in Line(file, y)
  BY <1>1, <1>2, RowInLine, Zenon
<1> QED
  BY <1>3 DEF w, s

\* A complete file is read without an error, as its picture.
LEMMA PictureIsRead ==
  ASSUME NEW file, file.text \in Seq(STRING), file.width \in Int,
         file.height \in Int, Complete(file)
  PROVE  ReadBoard(file) = [ok |-> TRUE, board |-> Picture(file)]
<1> DEFINE w == file.width
           h == file.height
           start == RowStart(file)
           At(c) == start[c[2]] + c[1]
           Of(c) == Min(Line(file, c[2])) + c[1]
           all == (0 .. w - 1) \X (0 .. h - 1)
           read == {c \in all : At(c) \in DOMAIN file.text => file.text[At(c)] \notin Blank}
           pictured == {c \in all : file.text[Of(c)] \notin Blank}
<1>1. PICK n \in Nat : DOMAIN file.text = 1 .. n
  OBVIOUS
<1>2. AllCells(file) = all
  BY DEF AllCells
<1>3. ReadBoard(file) = [ok |-> \A c \in all : At(c) \in DOMAIN file.text,
                         board |-> Board(w, h, read)]
  BY <1>2 DEF ReadBoard
<1>4. Picture(file) = Board(w, h, pictured)
  BY <1>2 DEF Picture
<1>5. ASSUME NEW c \in all
      PROVE  At(c) = Of(c) /\ At(c) \in DOMAIN file.text
  <2>1. c[1] \in 0 .. w - 1 /\ c[2] \in 0 .. h - 1 /\ c[2] \in Nat
    OBVIOUS
  <2>2. w \in Nat \ {0} /\ h \in Nat \ {0}
    <3>1. w \in Int /\ h \in Int
      OBVIOUS
    <3> HIDE DEF w, h
    <3> QED
      BY <2>1, <3>1
  <2>3. /\ Min(Line(file, c[2])) = start[c[2]]
        /\ \A x \in 0 .. w - 1 : start[c[2]] + x \in Line(file, c[2])
    BY <1>1, <2>1, <2>2, PictureLines
  <2> HIDE DEF start, w, h, all
  <2>4. start[c[2]] + c[1] \in Line(file, c[2])
    BY <2>1, <2>3
  <2>5. Line(file, c[2]) \subseteq DOMAIN file.text
    BY DEF Line
  <2>6. At(c) = start[c[2]] + c[1] /\ Of(c) = Min(Line(file, c[2])) + c[1]
    OBVIOUS
  <2> HIDE DEF At, Of
  <2> QED
    BY <2>3, <2>4, <2>5, <2>6
<1>6. read = pictured
  <2> HIDE DEF all, At, Of
  <2> QED
    BY <1>5
<1>7. \A c \in all : At(c) \in DOMAIN file.text
  BY <1>5
<1> HIDE DEF read, pictured, all, At
<1> QED
  BY <1>3, <1>4, <1>6, <1>7

\* What main makes of a file with a complete picture.
PictureInv ==
  phase # "read" /\ mode # "usage" /\ input # NoInput =>
    (Complete(input) /\ input.width * input.height > 0
       => original = Picture(input))

LEMMA PictureInit == Init => PictureInv
BY DEF Init, PictureInv

LEMMA PictureStep == TypeOK /\ PictureInv /\ [Next]_vars => PictureInv'
<1> SUFFICES ASSUME TypeOK, PictureInv, [Next]_vars PROVE PictureInv'
  OBVIOUS
<1>1. ASSUME Refuse \/ Abort \/ Accept PROVE PictureInv'
  <2>1. phase = "read" /\ UNCHANGED arguments
    BY <1>1 DEF Refuse, Abort, Accept
  <2>2. SUFFICES ASSUME mode # "usage", input # NoInput, Complete(input),
                        input.width * input.height > 0
                 PROVE  original' = Picture(input)
    BY <2>1 DEF PictureInv, arguments
  <2>3. input \in Inputs
    BY <2>2, Zenon DEF TypeOK
  <2>4. /\ input.width \in Int /\ input.height \in Int
        /\ ReadBoard(input) = [ok |-> TRUE, board |-> Picture(input)]
    BY <2>2, <2>3, MainAssumption, PictureIsRead, Zenon
  <2>5. ReadBoard(input).ok /\ ReadBoard(input).board = Picture(input)
    BY <2>4
  <2>6. input.width # 0 /\ input.height # 0 /\ ~(input.width * input.height < 0)
    <3> DEFINE w == input.width
               h == input.height
    <3>1. w \in Int /\ h \in Int /\ w * h > 0
      BY <2>2, <2>4
    <3> HIDE DEF w, h
    <3>2. w # 0 /\ h # 0 /\ ~(w * h < 0)
      BY <3>1
    <3> QED
      BY <3>2 DEF w, h
  <2>7. Accept
    BY <1>1, <2>2, <2>5, <2>6 DEF Refuse, Abort
  <2> QED
    BY <2>5, <2>7 DEF Accept
<1>2. ASSUME phase # "read", UNCHANGED <<arguments, original>> PROVE PictureInv'
  BY <1>2 DEF PictureInv, arguments
<1>3. Simulate \/ FirstRun \/ MeasuredRun \/ MeasureReturns \/ Finish
      => phase # "read" /\ UNCHANGED <<arguments, original>>
  BY DEF Simulate, FirstRun, MeasuredRun, MeasureReturns, Finish
<1>4. CASE UNCHANGED vars
  BY <1>4 DEF vars, arguments, PictureInv
<1> QED
  BY <1>1, <1>2, <1>3, <1>4 DEF Next

\* A complete file is accepted and read as its picture, and what the program
\* prints of a board, of any size, is read as that board again.
THEOREM PicturesCorrect == Spec => []PicturesAreRead
<1>1. ASSUME TypeOK, MainInv, original # NoBoard, phase # "simulate"
      PROVE  ReadBoard(PrintBoard(expected)) = [ok |-> TRUE, board |-> expected]
  <2> DEFINE w == original.width
             h == original.height
             cells == Serial(original, iterations)
  <2>1. /\ original = Board(w, h, original.cells) /\ w \in Int /\ h \in Int
        /\ expected = [original EXCEPT !.cells = cells]
    BY <1>1 DEF MainInv, BoardInv
  <2>2. expected = Board(w, h, cells)
    <3> HIDE DEF cells, w, h
    <3> QED
      BY <2>1 DEF Board
  <2>3. expected.cells \subseteq AllCells(expected)
    BY <1>1, Zenon DEF TypeOK
  <2>4. cells \subseteq AllCells(Board(w, h, cells))
    <3> HIDE DEF cells, w, h
    <3>1. Board(w, h, cells).cells = cells
      BY DEF Board
    <3> QED
      BY <2>2, <2>3, <3>1
  <2> HIDE DEF cells, w, h
  <2>5. ReadBoard(PrintBoard(Board(w, h, cells))) =
          [ok |-> TRUE, board |-> Board(w, h, cells)]
    BY <2>1, <2>4, PrintedIsRead, Zenon
  <2> QED
    BY <2>2, <2>5, Zenon
<1>2. TypeOK /\ MainInv /\ PictureInv => PicturesAreRead
  BY <1>1, Zenon DEF PictureInv, PicturesAreRead
<1> QED
  BY <1>2, MainInit, MainStep, PictureInit, PictureStep, PTL DEF Spec
=================================================================================
