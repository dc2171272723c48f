------------------------------- MODULE MCPoolTest -------------------------------
(***************************************************************************)
(* Instances of PoolTest for TLC: the tests with two threads.              *)
(***************************************************************************)
EXTENDS PoolTest

AllTasks ==
  Labelled("barrier", 2) \cup Labelled("inc", 3)
  \cup Labelled("wait", 2) \cup Labelled("empty", 2)
  \cup Labelled("submit", 2) \cup Labelled("incr", 2)
  \cup Labelled("first", 2) \cup Labelled("second", 2)

OwnName == [k \in AllTasks |-> k]

Test(name, count, submit_first, wait_reverse) ==
  [name |-> name, count |-> count,
   submit_first |-> submit_first, wait_reverse |-> wait_reverse]

TwoThreadTests == {
  Test("run in order", 3, FALSE, FALSE),
  Test("run in order", 3, TRUE, TRUE),
  Test("wait for future", 1, TRUE, FALSE),
  Test("submit many", 2, TRUE, FALSE),
  Test("submit again", 2, FALSE, FALSE)}
=============================================================================
