# A verification development for os-fall22

The repository is a collection of programs for an operating systems course. This
directory models the ones with a state worth checking: a thread pool and its
test program, a Game of Life program with its reader, its timing loop and two
versions of the simulation, a tool that keeps files in a disk image, and a
shell. It holds TLA+ modules, TLC configurations and proofs for the TLA+ proof
system.

## 1. Inventory

| Component | Source | State it keeps | Operations | Hard parts |
|---|---|---|---|---|
| thread pool | `pool/pool.cc`, `pool/pool.h` | queue of task names, map from names to tasks, `stopCalled`, a mutex, a condition for workers; a flag and a condition in each task; worker threads | constructor, `SubmitTask`, `WorkerFunction`, `WaitForTask`, `Stop` | the flag and the condition of a task are used without the mutex, the waiter deletes the task, signals are sent after the unlock, tasks call back into the pool |
| pool tests | `pool/pool-test.cc` | tasks, counters, flags and the barrier of the tests | the test functions, the `Run()` of each kind of task | tasks that submit tasks, tasks that wait for later ones and occupy workers, a barrier that workers and main have to reach together |
| parallel life | `life/life-parallel.cc` | two boards, a barrier, one argument block per thread | creating, running and joining threads; rows, barrier, alternation of the boards, final swap | borders between blocks of rows, threads that run ahead, threads that could not be created, parity of the number of steps |
| serial life | `life/life-serial.cc`, `life/life.h` | two boards | the loops over steps and rows, swap | the edge of a board is never written and yet swapped |
| board reader | `life/life.cc` | a stream and a board | `operator>>`, `operator<<` | lines of the wrong length, files that end early, sizes that are no sizes |
| life timing | `life/timing.cc`, `life/timing.h` | the table of the K fastest runs | insertion, the test for the end of the loop | sentinels, runs slower than the sentinel, limits, the index that is reported |
| life main | `life/main.cc` | arguments, expected board, globals of `run_and_verify`, exit status | modes, reading, the table of versions, verification in and out of the timing loop | errors that come back through a global from inside `measure_function` |
| RLE converter | `life/convert_from_rle.py` | none | one pass over a pattern file | |
| disk image tool | `outodes/disk_image.c`, `outodes/inode.h` | the image file; in memory a copy of it and a bitmap of used blocks | create, insert, extract | four levels of indirection walked by three separate sets of loops, the bitmap rebuilt from the inodes, runs that end in the middle of writing, numbers of blocks that are used unchecked, ends of files at block boundaries |
| shell | `shell/main.cc` | tokens, the list of commands, pipes, children, descriptor tables | parsing, pipe2, fork, dup2, open, execv, close, waitpid | grammar errors, ends of pipes that stay open, failures in the middle of a pipeline |
| shell tokenizer, shell tests | `shell/parser.cc`, `shell/shell_test.py` | none | splitting at white space; test code | |
| linked list | `ctutorial/list.c`, `ctutorial/list.h` | nodes between two sentinels | add, remove, find, free | removal at the ends |

How they interact. The pool, its workers, the clients and the bodies of tasks
share the queue, the map and the heap of tasks; `pool-test.cc` is such a client,
with tasks that call the pool they run in. The threads of parallel life share
the two boards and a barrier, the caller waits for them by joining.
`life/main.cc` reads a board, runs the serial version on it for the expected
result, hands every version to `measure_function`, and hears of wrong boards
through a global. Runs of the disk image tool communicate through the image file
alone: each one has to make out from the inodes what earlier ones, finished or
killed, have left there. The shell, its children and the programs they become
share pipes; a program sees the end of its input only when every process has
closed the other end.

What makes each of them correct:

* pool: a submitted task is run once, in the order of submission; the one who
  waits for it gets it only when it is done; nobody uses an object that is freed;
  no wake-up is lost; `Stop` returns and loses no work.
* pool tests: what the tests assert holds in every schedule, and the tests end.
* life: each step makes one generation of Conway's rule from the whole of the
  one before, however the rows are cut and however the threads are scheduled;
  a board is read as it is pictured; a version is reported broken exactly if one
  of its runs was wrong.
* timing: the table holds the K smallest measurements in order, and the loop ends.
* disk image: a file that was placed can be read back at any later moment, no
  two files share a block, an insertion changes nothing else. (After a killed run
  this is so only until a walk stores outside of the bitmap, section 5.)
* shell: a line is accepted exactly if the grammar allows it (but for
  redirections before the first word of a command, section 5), every stage of a
  pipeline is joined to its neighbours and sees the end of its input, nothing is
  left open or unawaited after a line.

## 2. Modules

| Module | What it is | Code |
|---|---|---|
| `FifoExecutor` | abstract: tasks wait in order, at most as many run as there are workers, are done, are given back | the promise of `pool.h` |
| `ThreadPool` | the pool, one action per critical section or unlocked access | `pool.cc`, `pool.h` |
| `MCThreadPool` | instances for TLC, the refinement of `FifoExecutor` | |
| `ThreadPoolProofs` | theorems about `ThreadPool`: types, wake-ups of workers, who owns a task, what `Stop` leaves, the refinement | |
| `PoolTest`, `MCPoolTest` | the tests as scripts of calls, composed with `ThreadPool` | `pool-test.cc` |
| `PoolTestProofs` | theorems about `PoolTest`: types, barrier, CHECKs, the tests as clients of the pool | |
| `LifeBoard` | a board as the set of its live cells, the rule, one row computed | `life.h`, the inner loops |
| `LifeGenerations` | abstract: generation after generation of Conway's rule on a board with a dead edge | the rules of the game, the comments of both versions |
| `LifeCall` | what both versions are given: steps and boards | |
| `LifeSerial` | the serial loops, the refinement of `LifeGenerations` | `life-serial.cc` |
| `LifeParallel` | caller, threads and barrier, the same refinement | `life-parallel.cc` |
| `LifeVersions`, `MCLifeVersions` | the serial version, then the parallel one on the same board, and the comparison of their results | `life/main.cc:126-127`, `:65-69` |
| `LifeBoardProofs` | lemmas about rows, the edge and the rule | |
| `LifeSerialProofs` | the serial loops implement `LifeGenerations` | |
| `LifeParallelProofs` | blocks, barrier, races, return, and that the parallel version implements `LifeGenerations` | |
| `Timing` | the table of the fastest runs and the loop around it | `timing.cc` |
| `LifeReader` | the stream operators of a board, and what a picture shows | `life.cc` |
| `LifeMain`, `MCLifeMain` | the program, composed with `LifeReader`, `LifeBoard` and `Timing` | `life/main.cc` |
| `LifeMainProofs` | theorems about `Timing`, `LifeMain` and `LifeReader` | |
| `ShellParser` | the parser over tokens, and the grammar and meaning of a line stated without it | `shell/main.cc:12-83` |
| `Shell`, `MCShell` | the shell, its children, the programs and their descriptors and pipes | `shell/main.cc` |
| `ShellProofs` | theorems about `ShellParser` and `Shell` | |
| `DiskImage`, `MCDiskImage` | the three commands of the tool | `disk_image.c`, `inode.h` |
| `DiskImageProofs` | theorems about `DiskImage` | |

### ThreadPool

The variables `taskQueue`, `taskMap`, `stopCalled` are the members of the class.
`mutex` says who holds `taskMutex` across two steps, `pc` where each thread is,
`myTask` and `waitTask` are the two local pointers of that name (in
`WorkerFunction` and in `WaitForTask`, which a worker can be in at once, when
the body of its task waits), `finished` is the flag in each task, `heap` says
whether an object exists. The wait sets of the conditions are the threads whose
`pc` is `readyWait`, and the threads at `doneWait` whose `waitTask` it is.

A critical section that no unlocked access can overtake is one step:
`SubmitTask` up to the unlock, `TakeTask`, `Stop` up to the unlock. What happens
without the mutex is a step of its own: the signal of `SubmitTask`
(`SubmitSignal`), `setFinishedTrue` (`FinishRun`), the signal of the done
condition (`SignalDone`). `WaitForTask` reads the flag that a worker sets
without the mutex, so reading it and going to sleep are two steps
(`TestFinished`, `EnterDoneWait`). `pthread_cond_wait` may return spuriously.

Undefined behaviour is a choice: an access to a deleted task either ends the
process (`Crash`) or has an outcome that leaves it running. Two constants say
how the pool is used. With `ReuseNames` false a name is submitted again only
when its earlier object was deleted; with `ShareWaits` false no two threads wait
for one name at once. `MayFail` is the set of workers whose `pthread_create` may
fail. No client calls the pool after `Stop`, and `Stop` is called when every task
was waited for, as `pool.h:46` demands.

### PoolTest

The main thread makes the calls of one test function in their order (`Script`,
`at`); `MainCalls` and `TaskCalls` are actions of `ThreadPool` with the test's
own state beside them, so that every interleaving, spurious wake-up and
undefined outcome of the pool is there. The `Run()` of a task is one step per
thing others can observe: arriving at the barrier, leaving it, the atomic
increment (`RecordIncrement`), the call into the pool, the return
(`RunReturns`). The CHECKs are the invariant `ChecksPass`. Which tests are run
is chosen in the initial state, with the parameters `count`, `submit_first` and
`wait_reverse` of the source. A `CheckDestructionTask` is an empty task here; that
it is destroyed, which the test checks, is read off `heap`. The stricter check for
pools of one thread, that results come in the order of submission, is a part of
`ChecksPass` that says nothing in the run, which has two threads; it is proved
with the rest for every number of threads.

### LifeSerial, LifeParallel, LifeVersions

Both versions leave the edge of the boards alone; `LifeGenerations` has the dead
edge that their comments speak of, and `DeadEdges` says that the boards of the
callers come with one. `LifeVersions` runs one after the other, as `main` does,
and compares them (`VersionsAgree`).

In `LifeParallel`, `Create`, `Join` and `Return` are the two loops and the end of
`simulate_life_parallel`; threads start while others are still being created.
`RowStep` computes one row, `Arrive` enters the barrier, `Leave` returns from it.
A row is one step: `NoDataRace` shows that no thread writes a row that another
one reads or writes meanwhile, so that a finer grain would reach no other
boards. A thread in `MayFail` may not come to life, and joining its
uninitialised handle fails or ends the process.

### LifeMain, LifeReader, Timing

A file is the two numbers of its first line and the characters after it.
`ReadBoard` gets as many characters for a row as the board is wide, newlines too,
and ignores the rest of the line it is then in; `Picture` says what the lines of
a file show without following the reader. `LifeMain` goes through `main`:
`Refuse` and `Abort` are the early ends, `Simulate` computes the expected board,
`FirstRun` runs a version once, `MeasuredRun` is one turn of the loop of
`measure_function` (`Timing`) together with the `run_and_verify` in it, and
`MeasureReturns` prints the line of the version. The boards of a version are
those of the serial and the parallel loops as `LifeSerial` and `LifeParallel`
show them to be, or, for the version "faulty", right at some times and wrong at
others. Of the parallel version only what it returns is kept (`Parallel`): the
serial result, or for a negative odd number of iterations the board `LifeParallel`
then returns. `wrong` and `runs` are auxiliary variables which record what really
happened; the properties compare them with what the program says. The cycles of
a run are an input, since `measure_once` reads the time stamp counter.

### Shell

A line is a sequence of tokens. `Commands` is the loop over the tokens as a fold
(`TakeToken`); the shell then creates the pipes, forks, closes, waits
(`CreatePipe`, `Fork`, `ClosePipe`, `Wait`), one step per system call, while the
children that exist go through their own (`DupIn`, `DupOut`, `OpenIn`, `OpenOut`,
`Exec`). Every process has a table of descriptors `fds`, where a new descriptor
gets the lowest free number; the child of command `s` is the process `s`, the
shell is 0. A failed fork leaves no entry in `p_ids`, a failed `pipe2` closes two
descriptors of any value (an array not filled in), any step of a child may fail
and end it. Programs are external: they read, write and end in any order, a
writer on a pipe nobody can read is killed, a full pipe blocks.

### DiskImage

A block holds inodes, block numbers, a part of a file, or zeros; files are
sequences of parts and bytes are counted only. A run of create or insert loads
the image, rebuilds the bitmap (`recreate_bitmap`), fills the inode and places
the file block by block (`FillInode`, `FillPointers`, `CloseBlock`,
`FinishPlacing` are the loops of `place_file`, `allocate_dblocks` and
`allocate_iblocks`, with `open` the pointer blocks being filled), and writes the
image back block by block (`WriteBlock`). `Abort` ends it at any point: a full
disk, a failed write, a signal. The walk of `recreate_bitmap` over an inode is
`Visited`, `Path` and `Nodes`; the loops of `extract_files` have a path of their
own (`ReadPath`), and what they mark on the way is what the first walk does.

The inode of a killed run may have been written and its pointer blocks not. A
walk over it reads zeros, or what an earlier run left in these blocks, or, since
a pointer of 0 leads to block 0, the sizes and owners of inodes as if they were
block numbers. The model knows nothing of such a number (`Wild`). The code marks
it in `bitmap` without a test, and the store has one of these outcomes:

* it falls into the bitmap. `Insert` then goes on with the marks it should have
  and any of the sets in `StrayMarks` besides. The proofs are for any such sets,
  all subsets of the blocks included; the runs try three: no block, every other
  block, all blocks;
* it falls outside. `InsertAstray` is an insertion of which nothing is known any
  more, its inode and its marks included. It ends (nothing happens any more), or
  writes back a copy of the image that the store has hit: `WriteAstray` spoils
  any one block. The image is not followed any further then, and the properties
  but one except this (`pc = "astray"`); `FilesSurvive`, without the exception, is
  what `image_stray_store` violates. An extraction marks what it walks over in the
  same way and may go astray, but it writes nothing back.

## 3. Runs

| Run | Instance | What it shows |
|---|---|---|
| `pool_core` | 2 workers, 2 clients, 3 tasks of which one submits and waits for another and two share a name; names and waits as the interface asks | every safety property of the pool, the refinement of `FifoExecutor`, every task finishes and `Stop` returns |
| `pool_any_use` | the same threads, names and waits used in any way, one worker may be missing | `NoIdleBacklog` holds whatever the callers do |
| `pool_signal_deleted` | 1 worker, 1 client | violated: the worker signals the condition of a deleted task |
| `pool_lost_wakeup` | 1 worker, 1 client | violated: a waiter sleeps for ever |
| `pool_test` | 2 threads; run in order (3 tasks, both ways), wait for future tasks (1), submit many (2), submit again (2) | the CHECKs of the tests hold, the barrier holds the workers, the tests end |
| `shell` | all lines of up to four tokens over the operators and two words, ten longer ones; 3 commands, 7 descriptors, pipes that hold 1 unit, programs that write up to 2 | the grammar of commands that begin with a word, the standard input and output of every program, no leak, no lost child, the prompt comes back |
| `shell_leading_redirection` | the line of `shell_test.py:538-545` | violated: a line that begins with a redirection is refused |
| `life_versions` | board 4x6 with a dead edge, all 256 interiors, 3 steps; the serial version, then the parallel one with 3 threads on 1, 1 and 2 rows, one of which may be missing | no races, both versions make the game's generations and agree, the parallel call returns only what is complete |
| `life_live_edges` | one board of 4x4 with a live cell on its edge, 2 steps | violated: the cell is dead after one step and alive after two |
| `life_main` | 12 files and a missing one, -2 to 3 iterations, a faulty, the parallel and the serial version; K = 3, `MAX_RUNS` 2, `MIN_TEST_CYCLES` 110, tolerance 3/2, `UINT64_MAX` 299, runs of 20, 25, 31 and 60 cycles | boards are read as pictured, the table holds the fastest runs, verdicts and exit status tell the errors, the program exits |
| `image_files` | 30 blocks of 2 bytes, 2 inodes, files of 3, 6 and 33 bytes, two users | files stay readable and separate and are extracted whole, after killed runs too, up to a store outside of the bitmap |
| `image_stray_store` | 12 blocks of 2 bytes, 2 inodes, files of 1 and 7 bytes | violated: a finished file is spoilt after a killed run |

Bounds. In the pool two workers are needed for tasks to overtake each other, two
clients for calls to interleave, three tasks for one to be queued while two run;
one name shared by two objects makes the map lead to a second object. With two
workers the task that waits for another leaves one worker to run it. The tests
use two threads, as `pool-test.cc` does in its smallest calls: one may wait while
the other works, and three counting tasks are one more than the workers.

In life three threads give a block with two neighbours and a block longer than
the others; three steps make both kinds of step, the second board becoming the
source again, and the swap of an odd count. Every pattern of the interior is
tried, so that patterns of all kinds cross the borders of the blocks. In
`life_main` the files have whole and broken rows, a last line without a newline,
sizes of zero, one and two negative sizes. `huge_measure` is 49, so
that a run of 60 cycles is one that the table cannot hold; 20 and 25, or 25 and
31, agree within the tolerance, 20 and 31 do not; with `MAX_RUNS` and
`MIN_TEST_CYCLES` both limits are reached, each before the other (runs of 60, 60
and 60 cycles; runs of 20, 31, 20 and 31).

In the shell three commands give a stage with two neighbours, seven descriptors
are just enough for the two pipes (and `pipe2` may fail earlier as well), a
program that writes two units into a pipe of one has to block. Four tokens are
enough for every operator to stand before and after everything it can, and the
longer lines have redirections at the ends and in the middle of a pipeline and
the word `exit` in three places.

In the disk image an inode has one pointer of each kind (in the source there are
more direct ones) and a pointer block two entries, so that all four levels and
the change from each to the next occur with 15 blocks: the files end within the
indirect block, exactly at its end, and beyond what an inode can hold. 30 blocks
have room for a large and a small file but not for two large ones, so that the
disk fills up in the middle of one. The violation needs a finished file, and one
that reaches into the doubly indirect block and is killed; 12 blocks hold both.
Nothing counts without bound: every task is
submitted at most once, steps, blocks, tokens and measured runs are finite, an
image can be created anew and lines can be typed any number of times.

Deadlock is not checked: in all of them the process may stop (no client makes
another call, the caller has returned, the process died or exited).

Fairness. Threads that can run are scheduled: weak fairness for every step that
stays enabled. Taking the mutex in `TakeTask` and `ReturnFromDoneWait` has strong
fairness, since the mutex may be busy again and again; this is what a scheduler
gives that lets every contending thread have a mutex at some time. `FinishRun`
is fair because the run of a task that does not wait is assumed to end. Clients
need not call anything and spurious wake-ups need not happen. In `PoolTest` the
main thread and the bodies of tasks are fair too, strongly where they call the
pool, because here the program says what they do next. In life every thread and
the caller are weakly fair; `LifeMain` has one thread and weak fairness of its
next step, and a version that is run is assumed to return. In the shell every
process is scheduled, a program goes on reading and writing while it can, and it
ends when it has written what it has to and its input has ended: without the
last no `waitpid` could be expected to return. The terminal is taken to send an
end of file; nobody is obliged to type a line, to fail, or to end early. The
violated liveness property is checked under the same fairness.

## 4. What the properties say

Pool. `RunningTaskIsOwned`: what a worker runs is allocated, unfinished, in the
map and with no other worker. `QueuedNamesAreMapped`: a queued name leads to an
unfinished object and stands in the queue once, so that `operator[]` in the
worker never makes a null entry. `NoTaskIsLost`: an unfinished object is queued
or run. `NobodyInsideAfterStop`, `StopFindsNoWork`: nobody is inside the pool and
nothing is left when it is torn down. `NoIdleBacklog`: while a worker sleeps the
queue is no longer than the workers and signals under way. Together with the
refinement they say what a user of the pool relies on, and `SubmittedTasksFinish`
and `StopReturns` that it comes about.

Pool tests. `ChecksPass` is what the CHECKs say: once every wait has returned,
each counting task has run exactly once and got a number of its own, one of the
first `thread_count` tasks of the first test the number 0, every barrier task
and every wait task is through and every object deleted. `BarrierHoldsWorkers`
is what the barrier is there for: while main still submits, no task behind the
barrier tasks has started. `TestEnds` excepts the one way in which a test can
hang, the lost wake-up of `pool_lost_wakeup` (`Overlooked`), and undefined
behaviour.

Life. `ImplementsLife` maps the openings of the barrier to generations,
`SerialImplementsLife` the swaps of the serial version; a generation has a dead
edge, and so have the boards of `life_versions`. `VersionsAgree` is the comparison
at `main.cc:69`. `NoDataRace` is about rows of both boards. `ReturnsAfterAllSteps` and
`NothingRunsAfterReturn` relate the caller to its threads, `CallReturns` is
freedom from deadlock at the barrier when all threads exist. `PicturesAreRead`
compares the reader, which counts characters, with the lines of the file, and
reads again what the program prints. `TableHoldsFastest` compares the table with
all runs there ever were. `VerdictsTellErrors` and `FinishedVersionsPass` relate
the lines and the exit status to the wrong boards of all runs, inside
`measure_function` and outside, and `ProgramExits` says that the limits end
the measurements whatever the runs take.

Shell. `ParsesGrammar` compares the loop over the tokens with a grammar that
looks at the whole line: exactly the lines of the grammar whose commands begin
with a word (`WordsFirst`) are run. `RunsEveryLine` asks the same without
`WordsFirst`, as the tests do, and is violated. `StdioConnected` is about the
descriptor table that `execv` leaves: 0, 1 and 2 are what the line asks for and nothing else is open,
whichever descriptors the pipes had. `LineLeavesNothing` says that after any line
and any failure no descriptor and no child is left, and that statuses bear the
right names if no fork has failed. `RedirectedPipeIsEmpty` is the comment at
`main.cc:93`. `LineCompletes` is freedom from the deadlocks that an end of a
pipe left open would cause.

Disk image. `FilesReadBack` holds at every moment, in the middle of a write and
after a killed run, up to the moment when an insertion stores outside of its
bitmap; `FilesSurvive` is the same without that exception. A file is read back
as far as an inode can hold it: `place_file` cuts a longer one without an error,
which the constants of the source do not let happen, since an inode reaches more
blocks than an image has. `NoBlockShared` relates every two inodes, with the
same exception, and `InsertOnlyAdds` is an action property about what one written
block may change, for files left half-written too. `ExtractReturnsFiles` compares
what the loops of `extract_files` find with the input files; whole blocks are
compared, not the bytes of the last one.

## 5. Where the code and its documentation differ

Shown by a run, with the line in `PROJECT.json`:

* `pool.cc:85`: `WorkerFunction` signals the done condition of a task that a
  waiter may have deleted since the flag was set.
* `pool.cc:83`: the flag is set and the condition signalled without the mutex,
  so that both can fall between a waiter's test and its sleep.
* `life-serial.cc:6`, `life-parallel.cc:63`: "we fix the edges to be all 0s", but
  nothing writes an edge: a live edge cell of the input is dead after one
  generation, when the second board is swapped in, and comes back after two.
  `life_live_edges` shows it for the serial version; the parallel one alternates
  between its boards in the same way.
* `shell/main.cc:30` (and `:73` after a bar): `shell_test.py:538-554` has two tests in
  which a line begins with a redirection and is to be run; the shell refuses it,
  "Expected word".
* `disk_image.c:158`, `:175`, `:192` (and `:166`, `:182`, `:200`): a number read from a
  block is used as an index of `bitmap` without a test. After a killed run it
  may be the size of another file; `rawdata` lies next to `bitmap`, and the stored
  byte is written back over a file of which the tool has said "successfully
  wrote".

Met while modelling, not given a run:

* `pool.cc:54`: the signal after the unlock may come after the `Stop` of another
  client has destroyed the condition. `NobodyInsideAfterStop` excepts a client
  that is there.
* `pool.cc:51`: `insert` leaves an existing entry alone, so a task submitted under
  a name that is still in the map is never run, and a name queued twice leads to
  a null entry once the object is deleted. `pool.cc:97`: a second waiter for a
  name sleeps in an object that the first deletes. Both are uses that
  `pool_core` excludes with `ReuseNames` and `ShareWaits` and `pool_any_use`
  includes; `pool.h` does not rule them out. No property says that a waiter's
  object outlives its sleep: it does not, unless each name has one waiter.
* `life-parallel.cc:54`: for a negative odd number of steps the threads do
  nothing and the final swap is made all the same: the caller gets the empty
  second board, where the serial version leaves the board alone.
  `FinishedVersionsPass` has it as the one case in which `main` reports the
  parallel version.
* `life-parallel.cc:42`: `pthread_create` is not checked; if all threads are
  missing and the joins merely fail, the board comes back as it was.
* `life.cc:27`: the newline of a line that is too short becomes a live cell and
  the next line is ignored. One negative size makes `resize` throw and the
  program abort; two negative ones make a board without cells that is accepted.
* `timing.cc:13-14`: "the median run is reported"; what line 93 returns is
  `measures[K/2 - 1]`, with K = 3 the fastest run. The model keeps the table and
  leaves out which entry is printed, so that no property says the returned run
  is the right one. The builds with
  sanitizers have K = 1 and measure once without the loop. `MAX_RUNS` is exceeded
  by two: the loop counts after its test with `num_runs++ > MAX_RUNS`, and goes on
  beyond that while `MIN_TEST_CYCLES` is not reached.
* `shell/main.cc:101`: when `pipe2` fails, two descriptors are closed that it has
  not filled in, among them perhaps 0, 1 or 2; `Intact` in the properties excepts
  what follows. `shell/main.cc:113`, `:188`: after a failed fork the pipeline
  runs with a command missing and the statuses that follow are printed under
  the names of the commands before; `LineLeavesNothing` asks for the right names
  only while no fork has failed.
* `disk_image.c:317`: `truncate` runs before `fclose` writes what the stdio buffer
  holds, so that the file grows back to whole blocks. Every extraction of a file
  whose size is no multiple of the block shows it; bytes within a block are not
  represented here.
* `disk_image.c:146`: a file larger than an inode can address would be cut without
  an error. With the constants of the source it cannot happen: an inode reaches
  more blocks than `TOTAL_BLOCKS`, and the disk is full before.
* `disk_image.c:108`: a file that fills its last block exactly is given one block
  more, with its pointer blocks if need be, which nothing ever visits.
  `disk_image.c:261`: for uid 0 and gid 0 free inodes count as files.
  `disk_image.c:530`: blocks of other owners are listed as unused.

## 6. Proofs

`ThreadPoolProofs` proves for any sets of workers, clients, tasks and names, with
`PoolAssumption` (finite sets of threads, distinct sentinels) as the only
assumption:

* `TypeCorrect`: `Spec => []TypeOK`, one step for each action.
* `NoBacklogBehindSleepers`: `Spec => []NoIdleBacklog`. The inductive invariant
  `BacklogInv` adds to it the types and that no worker is asleep once `stopCalled`
  is set. The latter is needed because the workers that `Stop` wakes leave without
  looking at the queue: they would stop counting as workers on their way to it
  while others still slept. The argument is one of counting: a submission adds
  one name and one signal under way; a signal that finds a sleeper turns into a
  worker on its way, and one that finds none leaves nobody asleep; a worker that
  comes to the queue takes a name with it; a worker goes to sleep only on an empty
  queue. Lemmas give the cardinalities of the two sets after each kind of step.

The others are about uses of the pool in which a name is submitted again only
after its earlier object was deleted (`~ReuseNames`):

* `WorkersOwnTheirTasks`, `QueuedNamesLeadToTasks`, `TasksAreKept`: the invariants
  `RunningTaskIsOwned`, `QueuedNamesAreMapped`, `NoTaskIsLost`. None of them is
  inductive alone: what a worker pops is its own only because the name stood in
  the queue once and leads to an unfinished task, and a task in the map is queued
  or run only because nothing is ever lost. `OwnershipInv` is the three together
  with two facts that tie them to the rest of the state: the map and the heap
  hold the same objects (`MapMatchesHeap`), and a worker has a `myTask` exactly
  between the pop and the end of its loop (`WorkersHoldTasks`). There is one lemma
  for each way to touch the tasks: threads move, a task is submitted, taken,
  finished, let go of, deleted.
* `StopLosesNothing`: if moreover no two threads wait for one name (`~ShareWaits`),
  a `Stop` made when nothing lives finds an empty queue and idle workers. The
  strengthening says that the pointer a waiter keeps over its sleep is that of
  an allocated object (`WaiterHoldsLiveTask`, which is true only under this
  assumption), that no two threads hold the same `waitTask`, and that nothing
  lives once `stopCalled` is set. The runs that violate `SignalsLiveTask` and `WaitReturns` need neither kind of misuse: these
  theorems do not cover the worker's pointer after `setFinishedTrue`.

* `StopEmptiesThePool`: under the same two assumptions, `NobodyInsideAfterStop`.
  `StopInv` says where the threads of each kind can be, and that a client that
  is at the joins or past them set `stopCalled`; with `StopFindsNoWork` nobody can
  be asleep in a `WaitForTask` then, and the joins have seen every worker end.
* `PoolIsExecutor`: `Spec => ImplementsExecutor` under `~ReuseNames`: every step of
  the pool is a step of `FifoExecutor` or leaves its state alone. A submission
  appends to `waiting` because the name leads to the object just inserted
  (`WaitingFacts`: the names queued lead to distinct tasks), a worker takes the
  head, the flag moves a task from `running` to `done`, a deletion from `done` to
  `reaped`. That no more run than there are workers is a counting argument
  (`RunningBound`): the tasks that are run are the image of the workers that run
  them, one of which is the worker that is about to take another.

`PoolTestProofs` proves for any number of threads and tasks, any set of tests whose
tasks are among `Tasks`, and `~ReuseNames` (the tests have a name for each task):

* `TestTypeCorrect`: `[]TestTypeOK`. That the counter stays within the number of
  counting tasks is not a matter of types: `NumbersInv` says that the numbers given
  are those below the counter, one each, and `EffectsInv` that a task has its
  number exactly if its `Run()` got that far, so that no task takes two.
* `BarrierHoldsTheWorkers`: `[]BarrierHoldsWorkers`. The tasks that main submits begin
  in the order of its calls (`FifoInv`); a task behind the barrier tasks can begin
  only when each of these has begun, and by counting, `thread_count` of them
  cannot be held by the workers other than the one that takes it, so that one has
  ended and the barrier has opened (`BarrierInv`). To open it main must have come to
  it, which is after its last submission (`MeetsLast`).
* `EveryCheckPasses`: `[]ChecksPass`. `WaitsInv` follows each wait, by main or by a
  wait task, to the deletion of the object; before `Stop` everything has been
  waited for (`FinishScript`), hence has run. That 0 goes to one of the first
  `thread_count` tasks (`FirstInv`) is again counting: as long as no number is given,
  the tasks before one that begins are each held by a worker. With one thread
  there is no other worker to hold them (`OrderInv`).
* `TestsAreClients`: a behaviour of the tests is one of the pool (`Init` and
  `[][Next]_vars`), so that what `ThreadPoolProofs` derives from the initial states
  and the steps under `~ReuseNames` holds in the tests.

`TestInv` has these parts, what is known of the pool (`RunInv`), that no tasks but
those of the test are submitted (`KnownInv`), and which of them main has submitted
(`MainInv`). It rests on what a script has to satisfy (`GoodScript`): each task is
submitted once, barrier tasks first, the barrier after the last submission, every
wait after the submission, every task waited for. `ScriptIsGood` proves it for each of the four
tests from the place of every call in its script. `FirstInv` and `OrderInv` are about
the first test alone (`TestOfOrder`).

`LifeSerialProofs` and `LifeParallelProofs` prove for every width, height, number
of threads and initial board (the two about `ImplementsLife` for initial boards
with a dead edge, `DeadEdges`):

* `SerialIsLife`: `DeadEdges` implies `Spec => ImplementsLife`. The invariant `RowsDone`
  says that the rows above the row counter are those of the next generation; no
  edge is ever touched (`ComputedRow`), so that both boards keep dead ones
  (`EdgesDead`). `WindowCount` shows that counting
  the whole 3x3 window is the rule over the eight neighbours.
* `ThreadsDoNotRace`: `Spec => []NoDataRace`. The blocks that `start_row` and
  `stop_row` cut are inside the inner rows, disjoint and cover them, for any
  height and number of threads, integer division included (`BlocksAreInside`,
  `BlocksAreDisjoint`, `BlocksCover`; a board of height 1 has negative dividends
  and is treated apart, `FlatBoard`). The invariant `StepInv` says that all
  threads have completed the same number of steps, where one that was released
  from the barrier counts as one further: the last to arrive finds everybody
  waiting (`EverybodyWaits`, by cardinality).
* `CallerReturnsAlone`, `CallerGetsAllSteps`: from `CallerInv` (threads from `next`
  on are unborn while creating, those before it have ended while joining) and
  `StepInv`.
* `ParallelIsLife`: `Spec => ImplementsLife`, if the edges are dead, the number of steps
  is not negative and one thread is sure to be created. For a negative odd
  number the boards are swapped, and with no thread at all the call may return without computing.
  `RefineInv` adds to the above where each thread is in its block (`InLoop`) and
  that the rows each one has passed are those of the next generation (`RowsDone`).
  The row a thread writes is in no part another one has done (`OtherRows`), so
  `RowsDone` is kept; at the last arrival every block is passed and the blocks
  cover the board, so that the whole board is the next generation (`WholeBoard`).

The first part of `LifeMainProofs` is about `measure_function` alone (`MeasureSpec`),
for every size of the table, tolerance, limits and cycles:

* `TableCorrect`: `[]TableHoldsFastest`. The invariant is stated for one threshold
  `v` at a time (`Holds`): the n-th entry is at most `v` exactly if n runs were.
  An insertion shifts the entries that are larger, and one more run is within
  `v` or not (`OneMoreRun`); being sorted follows from it.
* `ComparisonFits`: the product in the test of the loop never wraps around,
  sentinel included, which is why `huge_measure` is what it is.

`ShellProofs` proves for any lines, any number of commands and descriptors and
any failures:

* `TypeCorrect`, `NothingIsLeft`: `[]TypeOK` and `[]LineLeavesNothing`. `ShellInv`
  adds to the types how far each loop is (`LoopInv`), that a descriptor of the
  shell is closed, one of its first three, or the end of a pipe that it has not
  come to close (`DescriptorInv`), that every process made is in `p_ids` and those
  before the counter of the last loop are reaped (`ChildrenInv`), that children
  have the numbers of the commands until a fork fails (`NamesInv`), and that a
  child which is to use the end of a pipe has a pipe that was made (`PlanInv`).
  The last is what makes the types inductive: `DupIn` looks into `pipes`.
* `ProgramsConnected`: `[]StdioConnected`. `WiringInv` says for every child which
  steps it still has to do and, for these, what each of its descriptors leads to
  (`ChildTable`), and that the shell holds both ends of the pipes it has not come
  to close (`ShellWired`). A step of the plan finds the descriptor it needs
  because no earlier one has closed or replaced it: as long as the shell is
  `Intact` the ends of pipes are above 2, `close` then `open` finds the number just
  closed (`LowestIsNew`), and `execv` closes the rest. `ProcessInv` adds what holds
  of the others: a process that is gone or not there yet has no descriptors.
* `RedirectionEndsInput`: `[]RedirectedPipeIsEmpty`. `BufferInv` says that nothing is in
  a pipe before the forks nor ever in that of a command with an output file: only
  a program whose descriptor 1 is the pipe writes to it.
* `LinesAreParsed`: `[]ParsesGrammar`, for lines of any length: those of the grammar
  whose commands begin with a word are run, the others are refused. What the loop has
  made of the first k tokens is what they mean so far (`LoopAt`): it is valid
  exactly if they are grammatical up to there (`GrammaticalUpTo`), and its
  commands are the meaning cut off at k (`RecordsUpTo`). `TokenTaken` is the step
  from one token to the next, by the kind of the token; that "this command has an
  input file already" is the same as "there is an earlier `<` with the same bars
  before it" (`GivenBefore`) is where the loop and the grammar meet. `Parse` is a
  recursive function, not an operator, and the induction is over the set of the
  numbers k for which `LoopAt` holds (`SetInduction`, from the well-founded order
  of `Nat` and its least elements), which needs no operator as a parameter.

The rest of `LifeMainProofs` proves for any arguments, boards, table of versions, iterations and
times of runs:

* `MainTypeCorrect`: `[]TypeOK`. It rests on lemmas about what the life modules
  compute: every generation has only cells of the board, what is read is a board.
* `VerdictsCorrect`: `[]VerdictsTellErrors`. `MainInv` says what `expected` is in each
  phase (`BoardInv`), which runs may have been wrong so far and that the global
  flag tells whether one of the version at hand was (`RunsInv`), and that the lines,
  the boards shown and `should_exit_failure` agree with the runs of the versions
  before it (`VerdictInv`); that a version whose first run is wrong is not
  measured (`WrongOnce`).
* `FinishedVersionsCorrect`: `[]FinishedVersionsPass`, from `FinishedInv`: a run of the
  parallel version is wrong exactly if parallel and serial differ on this input,
  which comes down to the parity of a negative number of iterations and to
  whether the board has a live cell.
* `PicturesCorrect`: `[]PicturesAreRead`. A complete picture is read row by row as the
  cells it shows, whatever its width and height, and what is printed of a board
  is a complete picture of it, also of the empty boards. `PictureInv` says that
  `original` is the picture. The start of a row in the characters, and the
  generations, are recursive functions, unfolded by the same set induction.

`DiskImageProofs` proves for every size of a block, number of pointers of each
kind, size of the image, files and owners:

* `TypeCorrect`, `FilesAreKept`, `BlocksAreNotShared`, `ExtractionsReturnFiles`:
  the invariants `TypeOK`, `FilesReadBack`, `NoBlockShared`, `ExtractReturnsFiles`.
  `ImageInv` adds: the copy in memory agrees with the image below `written`
  (`RunInv`); all that other inodes reach is in the bitmap, and a run changes only
  blocks of its own (`SeparateInv`); how many blocks the loops of `place_file`
  have passed, computed from the inode's pointer and the stack of pointer blocks
  (`Position`), is how many bytes were read (`LoopInv`); each pointer block being
  filled hangs below the one before it (`ChainInv`); `Path(m)` leads through blocks
  of the run's own, all of them behind the loops, to part m of the file, for every
  m that was read (`PlacedInv`); a file whose placement was completed is whole and
  reaches no block of another (`KeptInv`). The arithmetic of the levels is in `DirectPath` to `TriplePath` and
  `StandsDef` to `StandsNext`: the three sets of loops agree on where a level
  ends. A walk depends only on the blocks it visits (`WalkFramed`), so blocks
  written elsewhere leave it alone (`WalksAgree`: `extract_files` walks the same
  blocks). The inodes of killed runs are covered as long as stores stay within the
  bitmap: their walks may read `Wild` and mark any blocks of `StrayMarks`, and
  insertions keep clear of what they reach. `AstrayInv` is `ImageInv` until a run goes
  astray, and from then on only the types.
* `InsertionsOnlyAdd`: `InsertOnlyAdds`, from the same invariant: what an
  insertion writes back differs from the image only in its own blocks and inode.

The assumptions are those of the modules (`PoolAssumption`, `TestAssumption`,
`TestsAssumption`, `BoardAssumption`, `CallAssumption`, `ParallelAssumption`, `TimingAssumption`, `MainAssumption`,
`ShellAssumption`, `LinesAssumption`, `ImageAssumption`), which every run
evaluates, and the ones named in each theorem. `TestsAssumption` is that there is a
thread and that every test has a task, as in all calls that `main()` of
`pool-test.cc` makes. `LinesAssumption` is that no token
is empty, which `ss >> token` in `parser.cc` sees to: an empty file name after `<`
would look to the loop like none.

Only model-checked: everything about liveness and fairness, which is out of the
prover's reach, the violations of section 5, which are behaviours, and
`VersionsAgree`, the comparison of the two versions on one board. Every other
invariant of the runs that pass is a theorem (`SerialTypeOK` and
`SerialImplementsLife` as those of `LifeSerial` that they are instances of).

## 7. Not modelled

* The RLE converter, the shell's tokenizer and the linked list: sequential code
  without failure handling or shared state, whose results a unit test reaches;
  the tokenizer's results are the lines of `Shell`. `shell_test.py` was read for
  what it expects.
* `pool-test.cc`: the choice of tests by argument and the counts of passed and
  failed groups. `life/main.cc`: the wording of the output and `short_cycles`.
  `measure_once` (inline assembly) and the builds with sanitizers.
* `std::stoi` on an argument that is no number, whose exception ends
  `life/main.cc` before it has done anything.
* Disk image ("partly" for these): what follows once a run has stored outside of
  its bitmap, beyond one spoilt block; runs on one image that are given different
  `nblocks` or `iblocks`, which nothing in the image records; parts of files that
  happen to look like an inode; the list `UNUSED_BLOCKS`; the parsing of options.
* The bytes of blocks, names and messages; what a process prints, unless a
  property is about it.

## 8. Plan

Done: everything above. What could be added, in this order:

1. `UNUSED_BLOCKS` and an extraction by user 0, if a text says what is expected.
2. `VersionsAgree` from `SerialIsLife` and `ParallelIsLife`, and the parallel version on
   boards with live edges, once the code says what they should become.
3. The linked list as a refinement of a sequence, should it gain a caller.
