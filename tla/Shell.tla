--------------------------------- MODULE Shell ---------------------------------
(***************************************************************************)
(* The shell of src/shell/main.cc at work: it reads a line, creates the    *)
(* pipes, forks one child per command, closes its pipes and waits for the  *)
(* children in their order.  A child connects its standard input and       *)
(* output and becomes a program, which is external: it may read, write and *)
(* end at any time.                                                        *)
(*                                                                         *)
(* Descriptors are numbers, and a new one is the lowest that is free, on   *)
(* which the redirections (close(0), then open) rely.  Process 0 is the    *)
(* shell, process i the child for command i; a pipe is named by the number *)
(* of the command that writes it.  The calls of the kernel (pipe2, fork,   *)
(* dup2, open, execv) may fail.                                            *)
(***************************************************************************)
EXTENDS ShellParser

CONSTANTS
  Lines,        \* the lines that are typed, as sequences of tokens
  MaxCommands,  \* bound: the commands of the longest of them
  OpenFiles,    \* the limit on descriptors of a process (RLIMIT_NOFILE)
  PipeSize,     \* bound: how much a pipe holds before a writer blocks
  MaxWrites     \* bound: how often a program writes to its pipe

ASSUME ShellAssumption ==
  /\ \A l \in Lines : Len(Commands(l)) \in 0 .. MaxCommands
  /\ MaxCommands \in Nat \ {0} /\ OpenFiles \in Nat /\ OpenFiles > 2
  /\ PipeSize \in Nat \ {0} /\ MaxWrites \in Nat

\* parser.cc splits a line at white space: no token is empty.
ASSUME LinesAssumption == Lines \subseteq Seq(STRING \ {""})

VARIABLES
  phase,     \* where parse_and_run_command, or the loop of main, is
  line,      \* the tokens of the line
  commands,  \* the commands of the line
  i,         \* the counter of the loop of the phase
  pipes,     \* the descriptors of the pipes, as the shell created them
  p_ids,     \* the children, in the order of their creation
  fds,       \* the descriptor table of each process
  todo,      \* what a child has to do before it is its program, in order
  state,     \* what each child is
  toWrite,   \* what a program will write to its pipe before it ends
  buffer,    \* how much is in each pipe
  reported   \* the statuses printed: the name printed and the child it is of

vars == <<phase, line, commands, i, pipes, p_ids, fds, todo, state, toWrite,
          buffer, reported>>

Stages == 1 .. MaxCommands
Processes == 0 .. MaxCommands
Descriptors == 0 .. OpenFiles - 1

\* What a descriptor leads to.  "pipe" is the pipe of a reader or a writer.
Entry(what, pipe, cloexec) == [what |-> what, pipe |-> pipe, cloexec |-> cloexec]
Closed == Entry("closed", 0, FALSE)
Terminal == Entry("terminal", 0, FALSE)
Reader(k) == Entry("reader", k, FALSE)
Writer(k) == Entry("writer", k, FALSE)

\* The flag of pipe2, and a variant without it.
NoFlag == FALSE
O_CLOEXEC == TRUE

Free(table) == {d \in Descriptors : table[d] = Closed}
NewDescriptor(table) == Min(Free(table))
CloseAll(table, S) == [d \in Descriptors |-> IF d \in S THEN Closed ELSE table[d]]
Open(table, entry) == [table EXCEPT ![NewDescriptor(table)] = entry]
\* To duplicate a descriptor onto itself does nothing.
Dup2(table, old, new) ==
  IF old = new THEN table
  ELSE [table EXCEPT ![new] = [table[old] EXCEPT !.cloexec = FALSE]]

HasReader(k) == \E p \in Processes, d \in Descriptors :
                  fds[p][d].what = "reader" /\ fds[p][d].pipe = k
HasWriter(k) == \E p \in Processes, d \in Descriptors :
                  fds[p][d].what = "writer" /\ fds[p][d].pipe = k

Steps == {"dup in", "dup out", "open in", "open out", "exec"}

TypeOK ==
  /\ phase \in {"prompt", "pipe", "fork", "close", "wait", "cleanup", "ended"}
  /\ line \in Lines \cup {<<>>}
  /\ Len(commands) \in 0 .. MaxCommands
  /\ i \in 1 .. MaxCommands + 1
  /\ pipes \in Seq(Descriptors \X Descriptors)
  /\ p_ids \in Seq(Stages)
  /\ fds \in [Processes -> [Descriptors ->
       [what : {"closed", "terminal", "reader", "writer", "in", "out"},
        pipe : 0 .. MaxCommands, cloexec : BOOLEAN]]]
  /\ todo \in [Stages -> Seq(Steps)]
  /\ state \in [Stages -> {"absent", "child", "program", "zombie", "reaped"}]
  /\ toWrite \in [Stages -> 0 .. MaxWrites]
  /\ buffer \in [Stages -> 0 .. PipeSize]
  /\ reported \in Seq([name : Stages, of : Stages])

NoDescriptors == [d \in Descriptors |-> Closed]
NoStages(v) == [s \in Stages |-> v]

Init ==
  /\ phase = "prompt"
  /\ line = <<>> /\ commands = <<>>
  /\ i = 1
  /\ pipes = <<>> /\ p_ids = <<>> /\ reported = <<>>
  /\ fds = [p \in Processes |-> [d \in Descriptors |->
              IF p = 0 /\ d \in 0 .. 2 THEN Terminal ELSE Closed]]
  /\ todo = NoStages(<<>>)
  /\ state = NoStages("absent")
  /\ toWrite = NoStages(0) /\ buffer = NoStages(0)

children == <<todo, state, toWrite, buffer>>

-----------------------------------------------------------------------------
(* The loop of main and the parser *)

\* getline: a line, or the end of the input (also when descriptor 0 has been
\* lost; but a line that was already buffered is still read).
EndOfInput ==
  /\ phase = "prompt"
  /\ phase' = "ended"
  /\ UNCHANGED <<line, commands, i, pipes, p_ids, fds, children, reported>>

ReadLine(tokens) ==
  /\ phase = "prompt"
  /\ line' = tokens
  /\ \/ /\ tokens # <<>> /\ tokens[1] = "exit"
        /\ phase' = "ended"
        /\ UNCHANGED commands
     \/ /\ ~(tokens # <<>> /\ tokens[1] = "exit")
        /\ commands' = Commands(tokens)
        /\ phase' = IF commands' = <<>> THEN "cleanup" ELSE "pipe"
  /\ UNCHANGED <<i, pipes, p_ids, fds, children, reported>>

\* The commands are deleted, the locals are gone, and the prompt is printed.
Cleanup ==
  /\ phase = "cleanup"
  /\ phase' = "prompt"
  /\ line' = <<>> /\ commands' = <<>> /\ i' = 1
  /\ pipes' = <<>> /\ p_ids' = <<>> /\ reported' = <<>>
  /\ todo' = NoStages(<<>>)
  /\ state' = NoStages("absent")
  /\ toWrite' = NoStages(0) /\ buffer' = NoStages(0)
  /\ UNCHANGED fds

-----------------------------------------------------------------------------
(* The shell runs a pipeline *)

\* The descriptors of the pipes made so far, and a variant that forgets them.
NothingToClose == {}
PipeEnds == UNION {{pipes[k][1], pipes[k][2]} : k \in DOMAIN pipes}

\* pipe2 for command i.  When it fails, the pipes made so far are closed, and
\* so are two descriptors read from the array that pipe2 has not filled in.
CreatePipe ==
  /\ phase = "pipe" /\ i < Len(commands)
  /\ \/ /\ Cardinality(Free(fds[0])) >= 2
        /\ LET r == NewDescriptor(fds[0])
               table == Open(fds[0], Entry("reader", i, O_CLOEXEC))
               w == NewDescriptor(table)
           IN  /\ pipes' = Append(pipes, <<r, w>>)
               /\ fds' = [fds EXCEPT ![0] =
                            Open(table, Entry("writer", i, O_CLOEXEC))]
        /\ i' = i + 1
        /\ UNCHANGED phase
     \/ /\ \E a, b \in Descriptors :
             fds' = [fds EXCEPT ![0] = CloseAll(@, PipeEnds \cup {a, b})]
        /\ phase' = "cleanup"
        /\ UNCHANGED <<i, pipes>>
  /\ UNCHANGED <<line, commands, p_ids, children, reported>>

PipesCreated ==
  /\ phase = "pipe" /\ i >= Len(commands)
  /\ phase' = "fork" /\ i' = 1
  /\ UNCHANGED <<line, commands, pipes, p_ids, fds, children, reported>>

If(condition, step) == IF condition THEN <<step>> ELSE <<>>
\* The steps of the child for command s, and a variant in another order.
RedirectFirst(s) ==
  If(commands[s].inFile # "", "open in")
  \o If(commands[s].outFile # "", "open out")
  \o If(s > 1, "dup in") \o If(s <= Len(pipes), "dup out") \o <<"exec">>
ChildSteps(s) ==
  If(s > 1, "dup in") \o If(s <= Len(pipes), "dup out")
  \o If(commands[s].inFile # "", "open in")
  \o If(commands[s].outFile # "", "open out") \o <<"exec">>

\* fork: a failure is reported, and the loop goes on; and a variant that keeps
\* what fork has returned in any case.
ForkKeepingFailures ==
  /\ phase = "fork" /\ i <= Len(commands)
  /\ i' = i + 1
  /\ \/ /\ p_ids' = Append(p_ids, i)
        /\ fds' = [fds EXCEPT ![i] = fds[0]]
        /\ todo' = [todo EXCEPT ![i] = ChildSteps(i)]
        /\ state' = [state EXCEPT ![i] = "child"]
     \/ /\ p_ids' = Append(p_ids, 0)
        /\ UNCHANGED <<fds, todo, state>>
  /\ UNCHANGED <<phase, line, commands, pipes, toWrite, buffer, reported>>
Fork ==
  /\ phase = "fork" /\ i <= Len(commands)
  /\ i' = i + 1
  /\ \/ /\ p_ids' = Append(p_ids, i)
        /\ fds' = [fds EXCEPT ![i] = fds[0]]
        /\ todo' = [todo EXCEPT ![i] = ChildSteps(i)]
        /\ state' = [state EXCEPT ![i] = "child"]
     \/ UNCHANGED <<p_ids, fds, todo, state>>
  /\ UNCHANGED <<phase, line, commands, pipes, toWrite, buffer, reported>>

\* After the last command the shell closes the pipes, one at a time; and a
\* variant that waits before it has closed them.
CloseNothing ==
  /\ phase = "fork" /\ i > Len(commands)
  /\ phase' = "wait" /\ i' = 1
  /\ UNCHANGED <<line, commands, pipes, p_ids, fds, children, reported>>
AllForked ==
  /\ phase = "fork" /\ i > Len(commands)
  /\ phase' = "close" /\ i' = 1
  /\ UNCHANGED <<line, commands, pipes, p_ids, fds, children, reported>>

ClosePipe ==
  /\ phase = "close"
  /\ \/ /\ i <= Len(pipes)
        /\ fds' = [fds EXCEPT ![0] = CloseAll(@, {pipes[i][1], pipes[i][2]})]
        /\ i' = i + 1
        /\ UNCHANGED phase
     \/ /\ i > Len(pipes)
        /\ phase' = "wait" /\ i' = 1
        /\ UNCHANGED fds
  /\ UNCHANGED <<line, commands, pipes, p_ids, children, reported>>

\* The children the next waitpid may return, and a variant that waits for any.
AnyChild == {p_ids[n] : n \in DOMAIN p_ids}
Awaited == {p_ids[i]}

\* waitpid, then the status is printed under the name of command i.
Wait ==
  /\ phase = "wait"
  /\ \/ /\ i <= Len(p_ids)
        /\ \E s \in Awaited :
             /\ state[s] = "zombie"
             /\ state' = [state EXCEPT ![s] = "reaped"]
             /\ reported' = Append(reported, [name |-> i, of |-> s])
        /\ i' = i + 1
        /\ UNCHANGED phase
     \/ /\ i > Len(p_ids)
        /\ phase' = "cleanup"
        /\ UNCHANGED <<i, state, reported>>
  /\ UNCHANGED <<line, commands, pipes, p_ids, fds, todo, toWrite, buffer>>

-----------------------------------------------------------------------------
(* A child *)

\* Process s ends, which closes its descriptors.  Its status is only printed:
\* whether it exited or was killed makes no difference to the shell.
End(s) ==
  /\ fds' = [fds EXCEPT ![s] = NoDescriptors]
  /\ state' = [state EXCEPT ![s] = "zombie"]
  /\ todo' = [todo EXCEPT ![s] = <<>>]
  /\ toWrite' = [toWrite EXCEPT ![s] = 0]

\* A step before the last, after which the table of s is "table".  A step that
\* fails ends the child with exit(255).
Setup(s, step, table) ==
  /\ state[s] = "child" /\ Head(todo[s]) = step
  /\ \/ /\ fds' = [fds EXCEPT ![s] = table]
        /\ todo' = [todo EXCEPT ![s] = Tail(@)]
        /\ UNCHANGED <<state, toWrite>>
     \/ End(s)
  /\ UNCHANGED <<phase, line, commands, i, pipes, p_ids, buffer, reported>>

\* dup2 of an end of a pipe, and close of the descriptor it had.
Move(table, d, onto) == CloseAll(Dup2(table, d, onto), {d})

DupIn(s) == Setup(s, "dup in", Move(fds[s], pipes[s - 1][1], 0))
DupOut(s) == Setup(s, "dup out", Move(fds[s], pipes[s][2], 1))

\* close of a standard descriptor, and open, which is to take its place.
Reopen(table, d, entry) == Open(CloseAll(table, {d}), entry)

OpenIn(s) == Setup(s, "open in", Reopen(fds[s], 0, Entry("in", 0, FALSE)))
OpenOut(s) == Setup(s, "open out", Reopen(fds[s], 1, Entry("out", 0, FALSE)))

\* execv closes the descriptors that have the flag.
Exec(s) ==
  /\ state[s] = "child" /\ Head(todo[s]) = "exec"
  /\ \/ /\ fds' = [fds EXCEPT ![s] =
                     CloseAll(@, {d \in Descriptors : @[d].cloexec})]
        /\ state' = [state EXCEPT ![s] = "program"]
        /\ todo' = [todo EXCEPT ![s] = <<>>]
        /\ \E n \in 0 .. MaxWrites :
             /\ fds'[s][1].what # "writer" => n = 0
             /\ toWrite' = [toWrite EXCEPT ![s] = n]
     \/ End(s)
  /\ UNCHANGED <<phase, line, commands, i, pipes, p_ids, buffer, reported>>

-----------------------------------------------------------------------------
(* A program *)

Input(s) == fds[s][0]

Read(s) ==
  /\ state[s] = "program" /\ Input(s).what = "reader"
  /\ buffer[Input(s).pipe] > 0
  /\ buffer' = [buffer EXCEPT ![Input(s).pipe] = @ - 1]
  /\ UNCHANGED <<phase, line, commands, i, pipes, p_ids, fds, todo, state,
                 toWrite, reported>>

\* A full pipe blocks the writer, one that nobody can read kills it.
Write(s) ==
  /\ state[s] = "program" /\ toWrite[s] > 0
  /\ LET k == fds[s][1].pipe
     IN  \/ /\ HasReader(k) /\ buffer[k] < PipeSize
            /\ buffer' = [buffer EXCEPT ![k] = @ + 1]
            /\ toWrite' = [toWrite EXCEPT ![s] = @ - 1]
            /\ UNCHANGED <<fds, todo, state>>
         \/ /\ ~HasReader(k)
            /\ End(s)
            /\ UNCHANGED buffer
  /\ UNCHANGED <<phase, line, commands, i, pipes, p_ids, reported>>

\* A program may end at any time, of itself or by a signal ...
Exit(s) ==
  /\ state[s] = "program"
  /\ End(s)
  /\ UNCHANGED <<phase, line, commands, i, pipes, p_ids, buffer, reported>>

\* ... and must when it has written its output and its input has ended.
AtEndOfFile(s) ==
  Input(s).what = "reader" =>
    buffer[Input(s).pipe] = 0 /\ ~HasWriter(Input(s).pipe)
Done(s) == toWrite[s] = 0 /\ AtEndOfFile(s)

-----------------------------------------------------------------------------

ChildStep(s) == DupIn(s) \/ DupOut(s) \/ OpenIn(s) \/ OpenOut(s) \/ Exec(s)

ShellStep == CreatePipe \/ PipesCreated \/ Fork \/ AllForked \/ ClosePipe
             \/ Wait \/ Cleanup

Next ==
  \/ EndOfInput
  \/ \E tokens \in Lines : ReadLine(tokens)
  \/ ShellStep
  \/ \E s \in Stages : ChildStep(s) \/ Read(s) \/ Write(s) \/ Exit(s)

\* Every process is scheduled.  A program reads what it is given, writes what
\* it has to write, and ends when it has and there is no more input; the
\* terminal is taken to send an end of file to a program that reads it.
Fairness ==
  /\ WF_vars(ShellStep)
  /\ \A s \in Stages :
       /\ WF_vars(ChildStep(s))
       /\ WF_vars(Read(s))
       /\ WF_vars(Write(s))
       /\ WF_vars(Done(s) /\ Exit(s))

Spec == Init /\ [][Next]_vars

FairSpec == Spec /\ Fairness

-----------------------------------------------------------------------------
(* Properties *)

\* The loop over the tokens (main.cc:40-83) accepts exactly the lines of the
\* language whose commands begin with a word, and makes of them the commands,
\* arguments and files they mean.
ParsesGrammar ==
  phase \notin {"prompt", "ended"} =>
    commands = IF Grammatical(line) /\ WordsFirst(line) THEN Meaning(line)
               ELSE <<>>

\* shell_test.py:538-545, "redirect at beginning of command": a line that
\* starts with a redirection is run as well.
RunsEveryLine ==
  phase \notin {"prompt", "ended"} =>
    (Grammatical(line) => commands = Meaning(line))

\* The shell has lost none of its own descriptors to a failed pipe2.
Intact == \A d \in 0 .. 2 : fds[0][d] = Terminal

\* Where command s reads and writes: a redirection comes before a pipe.
StandardInput(s) ==
  IF commands[s].inFile # "" THEN Entry("in", 0, FALSE)
  ELSE IF s > 1 THEN Reader(s - 1) ELSE Terminal
StandardOutput(s) ==
  IF commands[s].outFile # "" THEN Entry("out", 0, FALSE)
  ELSE IF s < Len(commands) THEN Writer(s) ELSE Terminal

\* A program finds its input, its output and the terminal for errors at the
\* descriptors 0, 1 and 2, and no other descriptor open: dup2, the closes and
\* the reuse of the lowest number put each where it belongs, and no end of a
\* pipe of another command is left with it.
StdioConnected ==
  \A s \in Stages : state[s] = "program" /\ Intact =>
    fds[s] = [d \in Descriptors |-> CASE d = 0 -> StandardInput(s)
                                      [] d = 1 -> StandardOutput(s)
                                      [] d = 2 -> Terminal
                                      [] OTHER -> Closed]

\* Whenever a line is done, whatever failed, the shell has at most its three
\* descriptors open and every child has ended and been waited for
\* (shell_test.py:976 runs 100 pipelines with a limit of 50 open files); and
\* as long as no fork has failed, each status was printed under the name of
\* the command it belongs to.  After a failed fork it is not (main.cc:188).
LineLeavesNothing ==
  /\ phase \in {"cleanup", "prompt"} =>
       /\ \A d \in Descriptors :
            fds[0][d] # Closed => d <= 2 /\ fds[0][d] = Terminal
       /\ \A s \in Stages : state[s] \in {"absent", "reaped"}
  /\ \A n \in DOMAIN reported :
       (\A c \in 1 .. n : state[c] # "absent")
         => reported[n] = [name |-> n, of |-> n]

\* main.cc:93-95: after "foo > test.txt | bar", the input of bar indicates the
\* end of file at once.  Nothing is ever in that pipe, and from when foo runs,
\* bar and those after it have started, and the shell waits, nobody holds the
\* end that would keep bar waiting.
RedirectedPipeIsEmpty ==
  \A s \in 1 .. Len(commands) :
    commands[s].outFile # "" /\ Intact =>
      /\ buffer[s] = 0
      /\ phase = "wait" /\ (\A c \in Stages : state[c] # "child")
         => ~HasWriter(s)

\* The prompt comes back after every line, whatever fails and whenever the
\* programs end: a reader sees the end of its input and a writer that nobody
\* reads is killed, so every waitpid returns.
LineCompletes == phase = "fork" ~> phase = "prompt"
=============================================================================
