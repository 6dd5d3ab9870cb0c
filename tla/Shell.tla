-------------------------------- MODULE Shell --------------------------------
(***************************************************************************)
(* Aufgabe_5/Aufgabe_5_1/myShellPiping.c ("piping"): a shell that runs up  *)
(* to three commands of a line at a time, joined by pipes; the same shell  *)
(* with a handler that asks whether to exit, Aufgabe_5/untitled/           *)
(* myShellSignal.c ("signal"); and the first shell, of one command and no  *)
(* pipes, Aufgabe_1/main.c ("simple").                                     *)
(*                                                                         *)
(* A child that cannot execute its command does not exit: it goes on with  *)
(* the code of the shell, so every process may be a shell.  A command is   *)
(* named by what its program does, and is "bad" if it cannot be executed,  *)
(* be it for its name or for the rest of args, which is not initialised.   *)
(* Text is left out, and so is the buffering of the streams: what a shell  *)
(* reads from a pipe is any line.                                          *)
(***************************************************************************)
EXTENDS Naturals, Sequences, FiniteSets

CONSTANTS
  NPROC,   \* how many processes the user may have: fork fails beyond
  NPIPE,   \* how many pipes there can be in the system, and
  FD_MAX,  \* how many descriptors in a process: pipe fails beyond
  CAP,     \* lines that fit into a pipe
  ECHO,    \* lines that the program "echo" writes
  SIGNALS, \* bound of the model: signals SIGTERM, SIGINT or SIGQUIT sent
  Variants,       \* the shells that may run
  LinesOf(_)      \* the lines that may be read: sequences of programs, or <<"exit">>

Programs == {"bad", "true", "echo", "cat", "head"}

ASSUME ShellAssumption ==
  /\ NPROC \in Nat \ {0} /\ NPIPE \in Nat /\ FD_MAX \in Nat
  /\ CAP \in Nat \ {0} /\ ECHO \in Nat /\ SIGNALS \in Nat
  /\ Variants \subseteq {"piping", "signal", "simple"}
  /\ \A v \in Variants : \A line \in LinesOf(v) :
       line # <<>> /\ (line = <<"exit">> \/ line \in Seq(Programs))

VARIABLES
  variant, \* which of the shells runs
  proc,    \* proc[p]: the process with number p
  pipe,    \* pipe[k]: how many lines pipe k holds
  signals  \* history: signals sent

shVars == <<variant, proc, pipe, signals>>

Pids == 1 .. NPROC
Pipes == 1 .. NPIPE
user == 1              \* the shell that the user starts,
login == NPROC + 1     \* its parent,
orphan == 0            \* the parent of those that have lost theirs,
tty == 0               \* and the terminal

\* The two ends of pipe k, if there is one.
Ends(k) == IF k \in Pipes THEN {<<k, "r">>, <<k, "w">>} ELSE {}

Free ==
  [pc |-> "free",        \* the next statement of the shell, or "run", or in the handler "ask"
   resume |-> "free",    \* the statement that the handler returns to
   parent |-> orphan,
   stdin |-> tty, stdout |-> tty,
   fds |-> {},           \* the pipe ends it has open besides
   pipefd |-> <<0, 0>>,  \* pipefd_1 and pipefd_2
   command |-> <<>>,     \* the commands of the line
   cpid_array |-> <<0, 0, 0>>,
   left |-> 0,           \* lines the program has still to write
   kept |-> {}]          \* history: pipe ends nobody remembers to close

\* Where the loop begins.
Again == IF variant = "simple" THEN "read" ELSE "pipe"

ShInit ==
  /\ variant \in Variants
  /\ proc = [p \in Pids |-> IF p = user THEN [Free EXCEPT !.pc = Again, !.parent = login] ELSE Free]
  /\ pipe = [k \in Pipes |-> 0]
  /\ signals = 0

-----------------------------------------------------------------------------
(* Processes and pipes of the operating system *)

Alive(p) == proc[p].pc \notin {"free", "exited"}

HasReader(k) == \E p \in Pids : Alive(p) /\ (proc[p].stdin = k \/ <<k, "r">> \in proc[p].fds)
HasWriter(k) == \E p \in Pids : Alive(p) /\ (proc[p].stdout = k \/ <<k, "w">> \in proc[p].fds)

Least(S) == CHOOSE x \in S : \A y \in S : x <= y
FreePids == {p \in Pids : proc[p].pc = "free"}
FreePipes == {k \in Pipes : ~HasReader(k) /\ ~HasWriter(k)}

\* p ends: its descriptors are closed, its children orphaned; its parent may wait
\* for it.
Exit(p) ==
  proc' = [q \in Pids |->
    IF q = p
      THEN IF proc[p].parent = orphan THEN Free
           ELSE [Free EXCEPT !.pc = "exited", !.parent = proc[p].parent]
    ELSE IF proc[q].parent # p THEN proc[q]
    ELSE IF proc[q].pc = "exited" THEN Free
    ELSE [proc[q] EXCEPT !.parent = orphan]]

\* What p reads from pipe k: a line if there is one, nothing before the last
\* writer is gone.
CanRead(p) == proc[p].stdin # tty /\ pipe[proc[p].stdin] > 0
AtEnd(p) == proc[p].stdin # tty => (pipe[proc[p].stdin] = 0 /\ ~HasWriter(proc[p].stdin))
TakesLine(p) == pipe' = [pipe EXCEPT ![proc[p].stdin] = @ - 1]

-----------------------------------------------------------------------------
(* The programs that the commands name *)

\* A line to stdout: to the terminal at once, to a pipe when it has room; without
\* a reader SIGPIPE ends the program.
Writes(p) ==
  LET k == proc[p].stdout IN
  /\ proc[p].pc = "run" /\ proc[p].left > 0
  /\ \/ /\ k # tty /\ ~HasReader(k)
        /\ Exit(p)
        /\ UNCHANGED pipe
     \/ /\ k # tty => (HasReader(k) /\ pipe[k] < CAP)
        /\ proc' = [proc EXCEPT ![p].left = @ - 1]
        /\ pipe' = IF k = tty THEN pipe ELSE [pipe EXCEPT ![k] = @ + 1]

\* "cat" copies its input, "head" is content with one line.
Reads(p) ==
  /\ proc[p].pc = "run" /\ proc[p].left = 0
  /\ CanRead(p)
  /\ TakesLine(p)
  /\ \/ proc[p].command = <<"cat">> /\ proc' = [proc EXCEPT ![p].left = 1]
     \/ proc[p].command = <<"head">> /\ Exit(p)

Finishes(p) ==
  /\ proc[p].pc = "run" /\ proc[p].left = 0
  /\ proc[p].command \in {<<"cat">>, <<"head">>} => AtEnd(p)
  /\ Exit(p)
  /\ UNCHANGED pipe

Program(p) == Writes(p) \/ Reads(p) \/ Finishes(p)

-----------------------------------------------------------------------------
(* main of the shell *)

pipe1(p) == proc[p].pipefd[1]
pipe2(p) == proc[p].pipefd[2]
BothPipes(p) == Ends(pipe1(p)) \cup Ends(pipe2(p))
command_counter(p) == Len(proc[p].command)

\* The two calls of pipe; if one fails main returns.
OpenPipes(p) ==
  /\ proc[p].pc = "pipe"
  /\ IF Cardinality(FreePipes) < 2 \/ Cardinality(proc[p].fds) + 4 > FD_MAX
       THEN Exit(p) /\ UNCHANGED pipe
       ELSE LET k == Least(FreePipes)
                l == Least(FreePipes \ {k})
            IN /\ proc' = [proc EXCEPT ![p].pc = "read",
                                       ![p].pipefd = <<k, l>>,
                                       ![p].fds = @ \cup Ends(k) \cup Ends(l),
                                       ![p].cpid_array = <<0, 0, 0>>]
               /\ pipe' = [pipe EXCEPT ![k] = 0, ![l] = 0]

\* What main does with the line in buffer.  "exit" ends it; with the handler it
\* only asks, and if it goes on then "exit" is a command that does not exist, and is
\* what buffer keeps.
\* With more than three commands main goes back to the beginning, past the calls
\* of close.  The simple shell takes what follows the first command for arguments.
Parse(p, line) ==
  \/ line = <<"exit">> /\ variant # "signal" /\ Exit(p)
  \/ /\ line = <<"exit">> /\ variant = "signal"
     /\ proc' = [proc EXCEPT ![p].pc = "ask", ![p].resume = "fork0", ![p].command = <<"exit">>]
  \/ /\ line # <<"exit">> /\ variant # "simple" /\ Len(line) > 3
     /\ proc' = [proc EXCEPT ![p].pc = "pipe", ![p].command = line,
                             ![p].kept = @ \cup BothPipes(p)]
  \/ /\ line # <<"exit">> /\ variant # "simple" /\ Len(line) <= 3
     /\ proc' = [proc EXCEPT ![p].pc = "fork0", ![p].command = line]
  \/ /\ line # <<"exit">> /\ variant = "simple"
     /\ proc' = [proc EXCEPT ![p].pc = "fork0", ![p].command = <<line[1]>>]

\* The user types a line.
ReadTerminal(p) ==
  /\ proc[p].pc = "read" /\ proc[p].stdin = tty
  /\ \E line \in LinesOf(variant) : Parse(p, line)
  /\ UNCHANGED pipe

\* A child whose command could not be executed reads what was meant for that.
ReadPipe(p) ==
  /\ proc[p].pc = "read"
  /\ CanRead(p) /\ TakesLine(p)
  /\ \E line \in LinesOf(variant) : Parse(p, line)

\* fgets fails unnoticed and buffer keeps the first command of the last line; if
\* there was none, the command is whatever is in the array.
ReadNothing(p) ==
  /\ proc[p].pc = "read" /\ AtEnd(p)
  /\ IF proc[p].command = <<>> THEN \E x \in {"bad", "true"} : Parse(p, <<x>>)
     ELSE Parse(p, <<proc[p].command[1]>>)
  /\ UNCHANGED pipe

\* fork: the child c has a copy of everything, and continues at pc.
Forked(p, i, c, pc, next) ==
  proc' = [proc EXCEPT ![p].pc = next, ![p].cpid_array[i] = c,
                       ![c] = [proc[p] EXCEPT !.pc = pc, !.parent = p]]

\* If the first fork fails main goes on with the next line, past the calls of close;
\* if another one fails it returns.
Fork0(p) ==
  /\ proc[p].pc = "fork0"
  /\ IF FreePids = {}
       THEN proc' = [proc EXCEPT ![p].pc = Again, ![p].kept = proc[p].fds]
       ELSE Forked(p, 1, Least(FreePids), "child0",
                   IF command_counter(p) > 1 THEN "fork1"
                   ELSE IF variant = "simple" THEN "wait0" ELSE "close")
  /\ UNCHANGED pipe

Fork1(p) ==
  /\ proc[p].pc = "fork1"
  /\ IF FreePids = {} THEN Exit(p)
     ELSE Forked(p, 2, Least(FreePids), "child1",
                 IF command_counter(p) > 2 THEN "fork2" ELSE "close")
  /\ UNCHANGED pipe

Fork2(p) ==
  /\ proc[p].pc = "fork2"
  /\ IF FreePids = {} THEN Exit(p) ELSE Forked(p, 3, Least(FreePids), "child2", "close")
  /\ UNCHANGED pipe

\* The first child, redirected to pipe 1 if there is a second.
Child0(p) ==
  /\ proc[p].pc = "child0"
  /\ proc' = [proc EXCEPT ![p] =
       IF command_counter(p) > 1
         THEN [proc[p] EXCEPT !.pc = "exec0", !.fds = @ \ Ends(pipe1(p)), !.stdout = pipe1(p)]
         ELSE [proc[p] EXCEPT !.pc = "exec0"]]
  /\ UNCHANGED pipe

\* The second child, from pipe 1 and to pipe 2 if there is a third.
Child1(p) ==
  /\ proc[p].pc = "child1"
  /\ proc' = [proc EXCEPT ![p] =
       IF command_counter(p) > 2
         THEN [proc[p] EXCEPT !.pc = "exec1", !.fds = @ \ BothPipes(p),
                              !.stdin = pipe1(p), !.stdout = pipe2(p)]
         ELSE [proc[p] EXCEPT !.pc = "exec1", !.fds = @ \ Ends(pipe1(p)), !.stdin = pipe1(p)]]
  /\ UNCHANGED pipe

Child2(p) ==
  /\ proc[p].pc = "child2"
  /\ proc' = [proc EXCEPT ![p].pc = "exec2", ![p].fds = @ \ BothPipes(p), ![p].stdin = pipe2(p)]
  /\ UNCHANGED pipe

\* execv of the i-th command: it returns only if there is no such program, and p
\* goes on as otherwise.
Execv(p, i, otherwise) ==
  proc' = [proc EXCEPT ![p] =
    IF proc[p].command[i] \in {"bad", "exit"} THEN otherwise
    ELSE [proc[p] EXCEPT !.pc = "run", !.command = <<proc[p].command[i]>>,
                         !.left = IF proc[p].command[i] = "echo" THEN ECHO ELSE 0,
                         !.pipefd = <<0, 0>>, !.cpid_array = <<0, 0, 0>>, !.kept = {}]]

\* The way back of the first child leads to the next line, past the calls of close.
Exec0(p) ==
  /\ proc[p].pc = "exec0"
  /\ Execv(p, 1, [proc[p] EXCEPT !.pc = Again, !.kept = proc[p].fds])
  /\ UNCHANGED pipe

Exec1(p) ==
  /\ proc[p].pc = "exec1"
  /\ Execv(p, 2, [proc[p] EXCEPT !.pc = "close"])
  /\ UNCHANGED pipe

Exec2(p) ==
  /\ proc[p].pc = "exec2"
  /\ Execv(p, 3, [proc[p] EXCEPT !.pc = "close"])
  /\ UNCHANGED pipe

\* Faulty variant: everything is closed, known or not.
CloseAll(p) ==
  /\ proc[p].pc = "close"
  /\ proc' = [proc EXCEPT ![p].pc = "wait0", ![p].fds = {}]
  /\ UNCHANGED pipe

\* Faulty variant: the write end of pipe 2 stays open.
CloseThree(p) ==
  /\ proc[p].pc = "close"
  /\ proc' = [proc EXCEPT ![p].pc = "wait0",
                          ![p].fds = @ \ (BothPipes(p) \ {<<pipe2(p), "w">>})]
  /\ UNCHANGED pipe

Close(p) ==
  /\ proc[p].pc = "close"
  /\ proc' = [proc EXCEPT ![p].pc = "wait0", ![p].fds = @ \ BothPipes(p)]
  /\ UNCHANGED pipe

\* waitpid for the i-th child.  It fails unnoticed in a child that came here by a
\* failed execv: the process is not its own, or the number is 0 and it has none.
Wait(p, i, here, next) ==
  LET c == proc[p].cpid_array[i] IN
  /\ proc[p].pc = here
  /\ IF c \in Pids /\ proc[c].parent = p
       THEN proc[c].pc = "exited" /\ proc' = [proc EXCEPT ![p].pc = next, ![c] = Free]
       ELSE proc' = [proc EXCEPT ![p].pc = next]
  /\ UNCHANGED pipe

Wait0(p) == Wait(p, 1, "wait0", IF command_counter(p) > 1 THEN "wait1" ELSE Again)
Wait1(p) == Wait(p, 2, "wait1", IF command_counter(p) > 2 THEN "wait2" ELSE "pipe")
Wait2(p) == Wait(p, 3, "wait2", "pipe")

-----------------------------------------------------------------------------
(* Signals *)

Shells == {p \in Pids : proc[p].pc \notin {"free", "exited", "run"}}

\* Faulty variant: the question does not remember where the shell was.
InterruptedNowhere(p) ==
  /\ proc[p].pc # "ask"
  /\ proc' = [proc EXCEPT ![p].pc = "ask", ![p].resume = "pipe"]

\* The handler is called; a signal that comes while it runs waits for its end (one
\* that comes after "exit" asks a second time at once, which is the same for the shell).
Interrupted(p) ==
  /\ proc[p].pc # "ask"
  /\ proc' = [proc EXCEPT ![p].pc = "ask", ![p].resume = proc[p].pc]

\* Somebody sends p a signal.  execv resets the handler, so a program dies of it.
\* The shells without a handler are not sent any, a bound of the model.
SignalSent(p) ==
  /\ Alive(p) /\ variant = "signal" /\ signals < SIGNALS
  /\ signals' = signals + 1
  /\ IF p \in Shells THEN Interrupted(p) ELSE Exit(p)
  /\ UNCHANGED <<variant, pipe>>

\* The handler reads the answer, which it takes as it is in an uninitialised array
\* if there is nothing to read: exit, or the interrupted call is started anew.
Answer(p) ==
  /\ proc[p].pc = "ask"
  /\ \/ AtEnd(p) /\ UNCHANGED pipe
     \/ CanRead(p) /\ TakesLine(p)
  /\ \/ Exit(p)
     \/ proc' = [proc EXCEPT ![p].pc = proc[p].resume, ![p].resume = "free"]

-----------------------------------------------------------------------------
\* main of each shell; what a process does without the user.
PipingShell(p) ==
  \/ OpenPipes(p) \/ ReadPipe(p) \/ (proc[p].stdin # tty /\ ReadNothing(p))
  \/ Fork0(p) \/ Fork1(p) \/ Fork2(p) \/ Child0(p) \/ Child1(p) \/ Child2(p)
  \/ Exec0(p) \/ Exec1(p) \/ Exec2(p)
  \/ Close(p) \/ Wait0(p) \/ Wait1(p) \/ Wait2(p)

SignalShell(p) == PipingShell(p) \/ Answer(p)

SimpleShell(p) == Fork0(p) \/ Child0(p) \/ Exec0(p) \/ Wait0(p)

Step(p) ==
  /\ \/ variant = "piping" /\ PipingShell(p)
     \/ variant = "signal" /\ SignalShell(p)
     \/ variant = "simple" /\ SimpleShell(p)
     \/ Program(p)
  /\ UNCHANGED <<variant, signals>>

Typed(p) == (ReadTerminal(p) \/ ReadNothing(p)) /\ UNCHANGED <<variant, signals>>

ShNext == \E p \in Pids : Step(p) \/ Typed(p) \/ SignalSent(p)

ShSpec == ShInit /\ [][ShNext]_shVars

\* A process that is not blocked goes on, and whoever is asked by the handler
\* answers; the user need not type anything else.
ShFairness == \A p \in Pids : WF_shVars(Step(p))

ShFairSpec == ShSpec /\ ShFairness

-----------------------------------------------------------------------------
(* Properties *)

ShellLabels ==
  {"pipe", "read", "fork0", "fork1", "fork2", "child0", "child1", "child2",
   "exec0", "exec1", "exec2", "close", "wait0", "wait1", "wait2"}

\* Every field stays in its type, and the descriptors within their number.
ShTypeOK ==
  /\ variant \in Variants /\ signals \in 0 .. SIGNALS
  /\ \A p \in Pids :
       /\ proc[p].pc \in ShellLabels \cup {"free", "run", "exited", "ask"}
       /\ proc[p].resume \in ShellLabels \cup {"free"}
       /\ proc[p].parent \in 0 .. NPROC + 1
       /\ proc[p].stdin \in 0 .. NPIPE /\ proc[p].stdout \in 0 .. NPIPE
       /\ proc[p].fds \subseteq Pipes \X {"r", "w"}
       /\ Cardinality(proc[p].fds) <= FD_MAX
       /\ proc[p].pipefd \in (0 .. NPIPE) \X (0 .. NPIPE)
       /\ \A i \in DOMAIN proc[p].command : proc[p].command[i] \in Programs \cup {"exit"}
       /\ proc[p].cpid_array \in [1 .. 3 -> 0 .. NPROC]
       /\ proc[p].left \in 0 .. (ECHO + 1)
       /\ proc[p].kept \subseteq proc[p].fds
  /\ pipe \in [Pipes -> 0 .. CAP]

\* A shell that asks for the next line has waited for every child it has had
\* (:214-257), also one that was meant to be a command itself.
NoChildLeft ==
  \A p, q \in Pids : (proc[p].pc = "read" /\ Alive(p)) => proc[q].parent # p

\* A shell that asks for the next line has no descriptors but those of its two new
\* pipes and those it has lost track of on the ways past the calls of close
\* (:80, :91, :116): all others were closed by somebody (:209-212).
DescriptorsKept ==
  \A p \in Pids : proc[p].pc = "read" => proc[p].fds = BothPipes(p) \cup proc[p].kept

Started == proc[user].pc \in {"close", "wait0", "wait1", "wait2"}

\* The third child has ended, and the second waits to write what only the first, which
\* waits for the second, could still read.
Hangs(cpid) ==
  /\ cpid[3] # 0 /\ proc[cpid[3]].pc = "exited"
  /\ proc[cpid[1]].pc = "run" /\ <<proc[cpid[2]].stdout, "r">> \in proc[cpid[1]].fds
  /\ proc[cpid[2]].pc = "run" /\ proc[cpid[2]].left > 0
  /\ pipe[proc[cpid[2]].stdout] = CAP /\ pipe[proc[cpid[1]].stdout] = CAP

\* If all commands of the line can be executed, every process gets to the end of its
\* input or loses its reader, and the user's shell gets to the next line: all ends of
\* the pipes that nobody uses are closed in time (:175, :207-212).  The exception is a
\* third child that ends before its input does, be it that its program is content
\* with less, or by a signal: the first child keeps the read end of pipe 2 (:105-112),
\* so the second never learns of it, and the two may wait for each other for ever.
PromptComes ==
  LET user_shell == proc[user] IN
  (/\ Started
   /\ \A i \in DOMAIN user_shell.command : user_shell.command[i] \notin {"bad", "exit"})
    ~> (~Started \/ Hangs(user_shell.cpid_array))

=============================================================================
