# Verification of the Betriebsysteme programs

The repository is a collection of small C programs on operating-system
programming: threads with mutexes, condition variables and semaphores, signal
handlers, shared memory, message queues, pipes. Each program is a system of its
own; what they have in common is the libraries they call and a few pieces of
code that were carried from one to the next (the circular buffer; the store with
workers, supplier and periodic check; the shell). This directory models the ones with
behaviour worth checking in TLA+, checks small instances with TLC and proves the
main results for all values of the constants with TLAPS.

Parse with `tlasany M.tla`, check with `tlc -config MCx_y.cfg MCx.tla`, prove
with `tlapm XProofs.tla`. `PROJECT.json` lists components, runs, the faulty
variants each property rejects, the source lines of every definition, hazards and theorems.

## 1. Inventory

Paths are relative to `src/`.

| Component | State | Operations | Interaction | Hard behaviour |
|---|---|---|---|---|
| Bakery, `Bakery/main.c` | storage count, `supplierInformed`, `shutdownFlag`, 3 mutexes, 2 condition variables | `bakingBread`, `deliverBread`, `qualityCheck` (SIGALRM), `graceful_shutdown` (SIGINT/SIGTERM), `main` | shared memory between threads and handlers | waits without a predicate, handlers that lock mutexes, handlers on top of handlers, a stale count |
| Candle factory, `Klausur/factory.c` | candles, wax, wicks, `supplierInformed`, flags, 3 mutexes, 2 conditions | `createCandle`, `manageStorage`, `purchase` (SIGALRM), `graceful_shutdown`, `main` | as above | three numbers tested together and changed apart, a sleep inside the critical section, the handler locks two mutexes at once |
| Circular buffer, `Circularbuffer/` | `circularbuffer_t` | `cb_init`, `cb_destroy`, `cb_add`, `cb_remove`, `cb_count`, `cb_isFull`, `cb_isEmpty` | called by its client; copied into Aufgabe_4_1 and the snippets | wrap-around, index sums near `INT_MAX`, order of calls, failing `malloc` |
| Trains, `Zuege/main.c` | semaphore of 3 units, `train_count`, `thread_shutdown_flag` | `befahreStrecke`, `zugThreadFunc`, `graceful_shutdown_handler`, `main` | semaphore, flag set by a handler or a thread | `sem_wait` interrupted by a signal, the flag set while trains wait, a racy counter |
| Temperature sensors, `Aufgabe_4/Aufgabe_4_1/consumerproducer.c` | circular buffer, mutex, condition, `counter` | sensor threads, logger thread, `main` | bounded buffer | unchecked results, lost wakeup at the end, no fairness of the mutex |
| Print server and client, `Aufgabe_6/Aufgabe_6_3/printserver.c`, `Aufgabe_6/Aufgabe_6_4/client.c` | two named message queues, the server's loop counter | the server's loop, one client run | message queues between processes | one reply name for all clients, restarts and kills, unlinked names that others hold open, unnoticed failures |
| Warehouse, `Lagerhaltung/main.c` | `lagercounter`, `triggerflag`, `lagerfreiflag`, 2 mutexes, a condition | `thread_func` (six bakers), `deliverBread`, `signaling_thread` | threads on shared memory, partly without a lock | a mutex unlocked that is not held, a delivery beside the bakers' mutex, a trigger that is polled and reset |
| Banking, `Aufgabe_6/Aufgabe_6_5/bankingsystem.c` | counter, accounts and a mutex in shared memory; `alarm_flag`, `shutdownflag`, the pending alarm | server, four children per round, `alarm_handler` (SIGALRM), `graceful_shutdown_handler` (SIGINT, SIGTERM, SIGQUIT) | processes, shared segment, signals | mutex used before it is initialised, a segment left by a crash, interrupted calls, a question that races an alarm |
| Print server in shared memory, `Aufgabe_6/Aufgabe_6_1/printserver.c`, `Aufgabe_6/untitled/client.c` | one segment | server, client | unsynchronised shared memory | lost and torn jobs |
| Shared counters, `Aufgabe_3/Aufgabe_3_2/atomic.c`, `Code_Schnipsel_Jane/pthread3*.c, pthreads3*.c, shm_counter*.c`, and the single track, `Aufgabe_4/Aufgabe_4_2/ichmagzuege.c` | one or two counters, a mutex or semaphore, a segment | a worker's additions (a train's passage), `main` | threads, or child processes on a segment | lost updates, a segment that an earlier run left behind, a parent that gives up beside its children |
| Shells, `Aufgabe_5/Aufgabe_5_1/myShellPiping.c`, `Aufgabe_5/untitled/myShellSignal.c`, `Aufgabe_1/main.c` | per process: descriptors, two pipes, children, the commands of the line | read, parse, fork, redirect, exec, close, wait; the second has a handler that asks whether to exit | processes, pipes, the terminal, signals | descriptors kept open, missing end of input, a child that goes on as a second shell, waits and reads that a signal ends, fork and pipe at their limits |
| Earlier piping shell, `Aufgabe_5/myShellPiping.c` | the same | the same | the same | undefined behaviour throughout |
| Matrix, `Aufgabe_2/Aufgabe_2_1/main.c`, `Aufgabe_3/Aufgabe_3_1/matrix.c` | three matrices | one thread per row | create and join one by one | none: one order |
| Snippets, `Code_Schnipsel_Jane/` | - | one call each | - | `condition_variable.c` waits without a predicate |
| Copies and build files | - | - | - | `Code_Schnipsel_Jane_Notepad` and CMake trees |

What makes each component correct:

* Bakery, factory: the store stays in its bounds and nothing appears or vanishes;
  no circle of waiting contexts closes but through a handler on top of an owner of a
  mutex; a missed call of the supplier does not stop the
  production for ever; a shutdown ends every thread that it can reach.
* Circular buffer: it is a bounded first-in-first-out queue.
* Trains: never more trains in the section than tracks; no unit of the semaphore
  is lost; everybody gets home.
* Sensors: readings leave in the order they came, each once, and each enters the sum in
  that order (old ones may enter it again); the logger gets its turns.
* Print server: a job is printed and answered once, and it is the client that
  sent it that gets the answer.
* Warehouse: the limit holds up to the first delivery; the delivery comes; no baker
  waits for ever.
* Shared counters: a protected counter is exact, an unprotected one off by a known
  amount at most, as long as no children of an earlier run add beside; one worker, or
  train, at a time is inside; everybody ends.
* Banking: the accounts are what was booked and credited; no question to the user
  stops the program; it gets to its end.
* Shell: all children are waited for, all pipe ends closed, and the prompt comes back
  unless the pipeline waits for itself.

The hazards, each at its line with the properties that look at it, are in
`PROJECT.json`.

## 2. Plan

The modules, in the order in which they were written; all of them exist.

1. `Pthreads` (mutexes, condition variables, handlers on top of threads), then
   `Bakery` on it, `BakeryProofs`.
2. `CbOps` (the circular buffer as operators), `BoundedFifo` (what it promises),
   `CircularBuffer` (its most general client).
3. `TrackSection` (what a rail section promises), `Trains`, `TrainsProofs`.
4. `Factory` on `Pthreads`, `FactoryProofs`.
5. `SensorBuffer` on `Pthreads` and `CbOps`; `BufferProofs` on both users of the buffer.
6. `Mqueue`, `PrintQueue`.
7. `Shell`: processes, descriptors, pipes and signals of three shells; `ProcessProofs` on it
   and on `PrintQueue`.
8. `Banking`: server and children on a segment, with its mutex; signals, a
   restart on what a killed run left; `BankingProofs`.
9. `SharedCounter`: seven programs that add under different protections, or none;
   `SharedCounterProofs`.
10. `Warehouse` on `Pthreads`: the predecessor of the bakery; `WarehouseProofs`.

`MCx` gives the constants of module `x` small values. Abstract specifications:
`BoundedFifo` is implemented by `CircularBuffer`, `TrackSection` by `Trains`.

Every invariant that a run checks is also proved. What is left to the runs is liveness (section 6).

## 3. The modules and the code

Every module names an action after the function and the statement it stands for;
`pc[c]` is the next statement of a context, a statement being what runs between
two points where others can observe or disturb it. Names of variables and
operations are those of the code. Definitions whose comment begins with "Faulty
variant" are not part of any specification: they show what a plausible mistake
in the code would look like, and each property rejects one of them.

**Pthreads** models what POSIX promises: a mutex has one owner and is not
recursive; `pthread_cond_wait` gives up the mutex and sleeps in one step and
takes it again before it returns, possibly unsignalled; a signal to nobody is
forgotten; a handler runs on top of a thread, whose context continues only after
it. `Hung` says that some contexts wait for each other's mutexes or
for the handler on top of them, `InterruptedHoldNothing` that no handler is on top of the owner of a mutex.

**Bakery** has one action per statement group of the four functions. A handler is
a context; `SIGALRM` is started anew by `alarm()` at the end of its handler, the
shutdown signals come once each. `sa_flags` of `SIGALRM` is assigned only after
`sigaction` (line 247), so whether the handler is reset to the default, which
kills the program, is a nondeterministic choice (`UninitResetHand`).
`sample` is the count that the quality check has read and not yet subtracted.

**Factory** has the same shape. `boughtWachs`, `boughtDocht` and `delivered` are
history variables for `Conservation`. What a purchase brings is any of a small
set of amounts.

**Warehouse** has one action per access to the shared variables, since none of the three flags
and counters is always accessed under the same lock; `tmp` is the value that a
baker has read in `lagercounter++`. `Unlock` frees the mutex whoever holds it, which is what the
library does when a baker that was told to stop unlocks it without having locked it.

**SharedCounter** runs one of seven programs, chosen at the start: unprotected threads and
processes, a mutex and a semaphore, an atomic beside a plain counter, and the trains of
`ichmagzuege.c`, whose section takes the place of the addition. `*mydata += 1` is a read and a write;
without a lock the compiler may also keep the sum in a register over turns of the loop
(`Keep`). A segment may hold a counter and a locked mutex of an earlier run; `main` of the
two programs with a segment may fail at any of its calls and leave its children alone. The program may then be
started again (`Again`) while they still run: the new `main` sets the counter and initialises the mutex under
their hands, and those that sleep in the mutex by then may sleep for ever. `alone` says that none were left when
the counter was set; only then do the programs promise something about it.

**CbOps** has one operator per function of `circularbuffer.c`, from a struct to
the return value and the new struct. **CircularBuffer** calls them in any order
that `cb_init` and `cb_destroy` allow, with a block from `malloc` of any content
or none; it maps to **BoundedFifo** by `Contents`. Its own initial states, steps and types are
`CbInit`, `CbNext` and `CbTypeOK`, so that one module can prove theorems about it and `SensorBuffer`.

**Trains** splits `train_count++` into its read and its write, since up to three
threads do it at once, and lets the handler run on main or on any train at
any time; a train blocked in `sem_wait` then goes on without a unit, as `sa_flags`
is 0. `holders` is a history variable: the trains that own a unit.

**SensorBuffer** composes `Pthreads` and `CbOps`; the readings are numbered
in the order in which they are produced. What the logger sums after a failed
`cb_remove` lies in the block already and may be an old reading; `turns` is a history variable, the turns of the logger that removed one.

**PrintQueue** has the server's and the client's calls on message queues as
actions. A queue is an object that a name leads to until it is unlinked, and that
lives on with those who have it open. The server can be killed anywhere and
started again, a waiting client can be killed. Whether the user starts clients
one after another (`alone`) or as he likes is chosen at the start.

**Banking** splits a child's `saldo += action` into its read and its write and keeps in
the histories `booked` and `bookings` what the accounts and the counter should
show. A signal reaches the server, or all processes as Ctrl+C on a terminal does; a process
in `asking` is in the handler's `fgets` and goes on when it is answered or its alarm goes
off, which makes the new value of `shutdownflag` arbitrary since the buffer is not initialised.
`AlarmExpires` ends `pause` if that has begun, or a `waitpid` that blocks, whose child then stays behind; it may also come
between `alarm(3)` and `pause()`, as may any signal. `Hangup`
kills all processes and leaves the segment, with the mutex as it is.

**Shell** is three programs, chosen at the start (`variant`): the piping shell, the same with the
handler of `myShellSignal.c`, and the first shell of one command and no pipes. It
keeps a record per process, since a child whose `execv` fails goes on with
the code of the shell; `proc[p].pc` is its next statement or `run`, when it
is one of five programs: `true`, `echo` (writes some lines), `cat` (copies), `head`
(reads one line) and `bad` (cannot be executed). Descriptors are sets of pipe ends; a
pipe has a reader or a writer as long as a living process holds that end. `kept` is a
history variable: the ends that are open on a way past the calls of `close`. A signal
puts a shell into its handler (`ask`), from which it exits or goes on with the statement in
`resume`, also in a child between its redirection and `execv`; it ends a program that has no handler. The names `ShInit`, `ShNext`, `ShTypeOK` and so on let one module
prove theorems about it and `PrintQueue`.

## 4. The runs

| Run | Bounds | Shows |
|---|---|---|
| `bakery_safety` | 2 bakers, a store of 2, one SIGALRM timer, one shutdown signal, on main or one baker, overlapping handlers, spurious wakeups | types, bounds of the store, no deadlock unless a handler is on top of an owner |
| `bakery_live` | the same with 1 baker, without spurious wakeups | a full store drains, a shutdown ends the bakers, and the supplier unless the broadcast misses it; except that the program is killed or hangs by a handler on top of an owner |
| `factory_safety` | 2 makers, a store of 1, material for one candle and purchases that bring what is missing for another or nothing, one shutdown, overlapping handlers on main, spurious wakeups | bounds, conservation, no deadlock unless a handler is on top of an owner |
| `factory_live` | the same with 1 maker, less material, without spurious wakeups | a shutdown ends makers and, unless missed, the manager; a sleeping manager is called; with the same exception |
| `circularbuffer_fifo` | sizes -1 to 4 (-1 and 0 are refused), 2 elements, `INT_MAX` 6 | types, refinement of the bounded queue |
| `trains_full` | 3 trains, 2 tracks, flag after 3 admissions, 2 signals, 6 admissions counted | units, refinement of the section, all trains end |
| `sensor_full` | 2 sensors, 3 places, 5 turns of the logger, 2 spurious wakeups | no reading lost, each summed in its turn and in order, the sensors do not all sleep beside room, the logger ends |
| `printq_full` | 3 clients, 2 priorities, queues of 1, the server ends after 2 replies, 2 starts, 2 kills | a job is in one place at most; clients that run alone get their own feedback and leave none; they get their job in and are answered |
| `banking_full` | 2 accounts, bookings of 1 and -1, a credit of 2, 2 children in a round, 2 rounds, 2 starts, 1 signal, 1 hangup | the accounts add up whenever the mutex is free, no question lasts for ever, the end is reached unless the alarm was over before `pause` or a killed process has the mutex |
| `shell_full` | three shells, 5 processes, 4 pipes, 8 descriptors in a process, pipes of one line, an `echo` of five, 11 lines of one to four commands, 5 lines and a signal for the shell with a handler | every child waited for, every pipe end closed or known to be kept, the prompt comes unless the third child ends first and the others hang |
| `counter_full` | seven programs, 2 workers and one of an earlier run, 3 additions, a segment with a counter of 0 or 1, 1 restart | protected counters exact, unprotected ones within their bounds and one inside, if nobody was left; everybody ends, but those that lose their mutex |
| `warehouse_full` | 2 bakers, a warehouse of 3 that calls above 1, spurious wakeups; deadlock checked | the limit up to the first delivery, the delivery comes, bakers go on |

Why the bounds are enough. Two bakers are the least number that compete for the
store and for one signal of a condition variable; a store of two distinguishes
"empty", "some" and "full" and lets a sample be smaller than the count. Two makers compete for
the last room and for the material of one candle, which a purchase may bring while one of them sleeps in the
middle of its work; liveness needs only one of either kind, beside the supplier or manager, both handlers and main. Sizes up to four wrap every index more than once, and
`INT_MAX` 6 is just what sizes of four need. Three trains on two tracks make one
wait; the count passes its limit while trains are inside. Five turns on three
places wrap the ring. Three clients are enough for one to answer, one to
wait and one to come late; queues of one fill up and make client and server wait
for each other's queue, which takes more kills than the run allows (one job more than both queues
hold: `kills > 2 * mq_maxmsg` in `AnsweredAlone` is exact); two starts let a server
inherit a queue. Two children compete for the mutex, and with one left behind by an
interrupted wait three processes do; two rounds let such a child meet the next
round; a second start meets what a hangup left. Five processes are the shell, a
pipeline of three and one more for a child that has become a shell; four pipes and eight
descriptors let it go astray once before `pipe` fails; a pipe of one line and
an `echo` of five, more than two pipes and the `cat` between them take, make writers block for ever
if nobody reads: with three the hang that `PromptComes` excepts could not occur. Signals are sent only to the shell that has
a handler; the others have the default action, which ends the program. Two workers with three additions
can lose all but two of them; a third is there when the program starts again beside one that is left; two bakers and a warehouse of three let one stop while the other is inside. The bounds of the models (`WACHS_BOUND`, `DOCHT_BOUND`,
`COUNT_BOUND`, `SPURIOUS`, `SIGNALS`, `LIMIT`, `STARTS`, `KILLS`, `ROUNDS`, `HANGUPS`, `AGAIN`) are guards of the actions that
would go beyond them; `LEFTOVER` bounds the initial state. In `shell_full` `NPROC`, `NPIPE` and `FD_MAX` are limits of the
system that the code meets, not of the model. The runs do not check deadlock where the program really
ends, or may hang as described; the circular buffer and the warehouse never stop and are checked.

## 5. Fairness

A thread that can run does: weak fairness of every thread and handler. Signals
from users, spurious wakeups, kills and starts of programs need never happen; the timer
set by `alarm()` expires.

In `Bakery` and `Factory` the threads that take mutexes get *strong* fairness:
their loops give a mutex up and take it again, so another thread sees it free
again and again but not always. Between two rounds these programs sleep for
seconds with the mutex free (bakery) or after releasing it (factory), which is
what makes the assumption reasonable; the scheduler of Linux guarantees no more than this in
practice. `Trains`, `SensorBuffer`, `PrintQueue`, `Banking`, `Shell`, `SharedCounter` and `Warehouse` need weak fairness only:
`LoggerEnds` holds although nobody guarantees the logger the mutex, because the
sensors fill the buffer and fall asleep. In `Banking` a process is waited for at most
by the few children that are forked until the shutdown. `SensorBuffer` allows a finite number of
spurious wakeups: with infinitely many the sensors could keep the mutex from the logger for ever.
In `Shell` whoever is asked by the handler answers in the end, since the handler waits
for nothing else; in `Banking`, whose handler has an alarm, nobody need answer. In `PrintQueue` a client
need not be given a priority that `mq_send` refuses. Workers that wait for a lock in `SharedCounter`
get it because the others have only so many additions to make; a baker of
`Warehouse` gets it because the warehouse fills up and the others are then told to stop.

## 6. The proofs

`BakeryProofs` proves `TypeCorrect`, `StorageSafe`, `StorageMutex` and `DeadlockCause` for any numbers
of bakers and shutdown signals and any capacities, from `BakeryAssumption`
(how contexts, mutexes and conditions are named, capacities are naturals) and
`PthreadsAssumption`. The inductive invariant `IInv` adds to the bound of the store
the owner of `storage.mutex` at each statement between lock and unlock
(`StorageExclusive`) and what a context has learnt about the count there
(`NoStaleCount`): without the owner the bound is not inductive, since a baker past its
test could meet another one's addition.

`DeadlockCause` proves `OnlyHandlersDeadlock`. Two more invariants say where an owner
of a mutex is (`OwnersHold`) and which handlers can be stacked on a thread (`Stacked`). A context that waits
for a mutex holds only mutexes that come earlier in the order `baking_mutex`, `storage.mutex`,
`supplier_mutex`, so no circle of waiting contexts closes, except through a handler
that interrupts the owner of a mutex (`~InterruptedHoldNothing`): then the program may really hang (section 7). This is proved for signals on
any thread and for handlers that overlap, as the empty `sa_mask` of SIGALRM allows.

`FactoryProofs` proves `TypeCorrect`, `StoreSafe`, `NothingLost` and `DeadlockCause` for any numbers of makers and shutdown
signals, any amounts bought, and overlapping handlers on any thread, from `FactoryAssumption` and
`PthreadsAssumption`. `IInv` adds to the bounds the owner of `storage.mutex`
(`StorageExclusive`) and that the room and material a maker has seen are still there (`SeenIsTrue`).
`Conservation` counts the makers at work with `Cardinality`; by exclusion
there is at most one, so that the count is 0 or 1, and it is inductive relative to `IInv`. Most steps
change neither the store nor who is at work (`Quiet`); the five that do balance. `DeadlockCause` is
proved as in the bakery, from the same two invariants: only a purchase locks a mutex with another in hand,
`supplier_mutex` after `storage.mutex`, and who owns `supplier_mutex` or `lager_mutex` waits for nobody.

`BufferProofs` proves first that `cb_add` appends to the contents and `cb_remove` takes the first, on
any well-formed struct, with two lemmas on `%` for indices below and above the
size. It cites them to prove `CbTypeCorrect`, `NoOverflow` and
`Implements`: each call is a step of `BoundedFifo`, for all sizes up to half of
`INT_MAX` (`CircularBufferAssumption`, which is what the code needs for
`first + count` to fit an `int`). Then it proves `TypeCorrect`, `ReadingsKept` and
`NoSleepBesideRoom` of the sensors that share the buffer, for any size and number of turns and
any sensors, from `SensorBufferAssumption`. `IInv` adds who owns the mutex in each critical region, that a
sensor's test of the buffer still holds when it adds or waits (`Checked`), that the contents are a window
of consecutive readings that ends with the last one produced (`Kept`), that the turns recorded are those that
summed the readings, in order, and that the
sensors all sleep beside room only while the logger is on its way to the signal (`Asleep`). The last is not
inductive without `Checked`, since a sensor that falls asleep must have seen the buffer full. There must be
a sensor: with none, "all sleep" holds of an empty buffer.

`SharedCounterProofs` proves `TypeCorrect`, `MutualExclusion`, `ProtectedIsExact` and `RacingIsBounded` for any finite set of
workers, any number of additions from two and any number of restarts, from `CounterAssumption`; the last three under the
condition `alone`, that when the run's `main` set the counter no child of an earlier one was left (`Company` says who
there is then). The additions
made are counted as the cardinality of a set of pairs of a worker and the number of
an addition, since a sum over the workers would need induction. A protected counter equals that number
and is what the worker inside has read. An unprotected one is at most that number; it is at least two
because whoever writes a last addition has read the value after its own earlier ones, or after
those of others: `Racing` says that a worker with one addition made sees at least 1, and that
when all are made there are at least 2.

`WarehouseProofs` proves `TypeCorrect` and `LimitKept` for any bakers and limits, from `WarehouseAssumption`.
The mutex alone does not carry the limit, because it can be freed over the head of its owner;
`Filling` says that this happens only after some baker has found the warehouse full, and that from then on
everybody else finds it full too, until the delivery.

`TrainsProofs` proves `TypeCorrect`, `RoomForAll`, `NoUnitLost` and `ImplementsTrack` for any
number of trains, tracks and signals. The train that an interrupted `sem_wait` let go makes a unit of
nothing, so "units plus holders equals tracks" is not invariant. `IInv` says instead that the
section is part of the holders, that the equality holds until the flag is set,
and that a train without a unit exists only after that; the flag then keeps it out.

`ProcessProofs` first proves `TypeCorrect`, `AnsweredOnce` (the invariant `JobInOnePlace`) and `OwnFeedback`
(`OwnFeedbackAlone`) for any clients and priorities, any capacity of the queues, any limit of
replies and any number of starts and kills, from `PrintQueueAssumption`. The lemmas `SentJobs` and `TailJobs` say
which jobs are in a queue after `mq_send`, which may put a message anywhere, and `mq_receive`. `Once` states
for one job that it is in one queue, with the server or with one client, and nowhere twice; each
step moves one job at most and keeps the others (`Keeps`). A new message needs that its client's job is nowhere
yet, which is in `OneJob`. `Alone` says of clients that run one at a time that the running one has the named queue
open and that only its job can be on the way; so what it receives can only be its own.

Then `ProcessProofs` proves `ShTypeCorrect`, `EveryChildAwaited` (the invariant `NoChildLeft`) and
`NothingLeftOpen` (`DescriptorsKept`) of the three shells, for any number of processes, pipes and descriptors,
any lines of the programs and any number of signals, from `ShellAssumption`. Neither invariant, which are about
the prompt only, is inductive: `ShIInv` says for every statement of `main`, and for a shell in its handler at the
statement it returns to (`At`), which children are still to be waited for (`Awaits`; `Kids` says that every
child is one of those), which pipe ends are open (`Descriptors`), and that the line is long enough for the child
to be forked (`Lengths`). The free pipes that `pipe` takes are in nobody's descriptors, so none of
their ends can be one that the shell has lost track of; therefore closing them all leaves what was lost, exactly.
A child that cannot execute its command has no children of its own, since its parent's are the parent's, so the
numbers that it copied do no harm: the waits for them fail.

`BankingProofs` proves `AccountsAddUp` (the invariant `Ledger`), `OwnerAlone` and `TypeCorrect` for any numbers of
accounts, children, rounds, signals, starts and hangups, from `BankingAssumption`.
The inductive invariant adds to the balance of each account that whoever is in a
critical region holds the mutex, that what a child has read is still in the account when it
writes, and that no process is left when a new segment is made: without the second
a child could write back an old balance, without the third one of the run
before could book in it. `TypeCorrect` has an invariant of its own, `TInv`: that `NewKid` is a
process depends on there being one that is not in use, so `Forking` counts them: each
round leaves at most `CHILDREN` of them unwaited for, and `Kids` is large enough for `ROUNDS`.

`StorageMutex` (Bakery), `NoOverflow`, `RoomForAll` (Trains), `OwnerAlone` (Banking) and
`TypeCorrect` of `SharedCounter` and `Warehouse` are theorems whose invariants no run checks separately:
TLC checked them before they were proved, and they hold of every instance. Every run extends the modules
with the assumptions, so TLC evaluates those.

Only model-checked: liveness under fairness, which is out of the reach of the prover.

## 7. What the project shows of the code

No run is expected to be violated. Where the code does not do what a reader would expect, the property says what is
true, with the exception named in the formula, and the exception is one that TLC finds:

* `Bakery/main.c:187`, `Klausur/factory.c:219`: both handlers lock mutexes, and `sa_mask` of SIGALRM is
  empty (`main.c:246`, `factory.c:279`); SIGTERM during a quality check or a purchase that has a mutex hangs the program, and so does
  a signal to a thread with a mutex (`Hung`, with `InterruptedHoldNothing` false).
* `Bakery/main.c:92`, `Klausur/factory.c:94`: supplier and manager can miss the shutdown's broadcast
  between the test of the flag and the wait; `ShutdownEnds` is about all others (`SupplierReached`, `ManagerReached`).
* `Zuege/main.c:98`: the comment wants interrupted calls restarted, the flags say otherwise; a
  waiting train goes on without a unit and posts one. `WaitGivesUnit` holds only until the flag is set; the section
  stays safe (proved) because the flag keeps everybody out by then.
* `Aufgabe_6/Aufgabe_6_5/bankingsystem.c:216`: a signal between `alarm(3)` and `pause()` whose
  question nobody answers leaves the server in `pause` (`PausesForEver`), also one that the user has asked to end;
  line 168: after a kill with the mutex held the next start hangs (`mutex = Dead`).
* `Aufgabe_5/Aufgabe_5_1/myShellPiping.c:105`: the first child keeps pipe 2 open, so `echo | cat | head`
  can hang, and `echo | cat | cat` if a signal ends the third child (`Hangs`).
* `Code_Schnipsel_Jane/shm_counter_mutex.c:31`: a start beside children of a run that gave up counts their additions too,
  and two may be inside the mutex that it initialises anew (`alone` false).

Also seen while modelling:

* `Aufgabe_4/Aufgabe_4_1/consumerproducer.c:182`: the logger stops without waking the sensors,
  and main can wait for a sleeping one for ever (line 232).
* `Aufgabe_6/Aufgabe_6_3/printserver.c:62`: all clients have one queue name, and with two at a
  time feedback goes to whichever receives first.
* `Lagerhaltung/main.c:88`: a delivery between the read and the write of `lagercounter++` is
  undone, and two bakers may be inside from then on; the limit of 200 can be passed.
* `Aufgabe_4/Aufgabe_4_1/consumerproducer.c:171`: a turn of the logger that finds the buffer empty adds an old value to the sum.
* `Aufgabe_5/Aufgabe_5_1/myShellPiping.c:80`: each line of too many commands costs four descriptors; line 44: at
  the end of its input the shell repeats the last first command.

## 8. Not modelled

Text output, random numbers, durations; the error exits of calls that cannot fail
on the objects they are given. In
`Banking` a fork fails only in the last run, so no start meets children of an earlier one; in
`Shell` the five programs stand for all commands. In `SharedCounter` a failing `pthread_create`,
whose handle would be indeterminate, is left out, and so is a single child that is killed with the mutex held, which
stops the others for ever.

Components without a module:

* Print server in shared memory (`Aufgabe_6_1`, `Aufgabe_6/untitled`): server and client poll one segment without
  any synchronisation and cut its text up in place. Every access races, and nothing holds of
  what is printed that could be stated. Its successor is modelled in `PrintQueue`.
* Earlier piping shell (`Aufgabe_5/myShellPiping.c`): it closes descriptors that are never initialised and writes
  past the end of an array, so what it does next has no bounded outcome to choose from.
* Matrix programs: each thread is joined before the next is created, so they have one order and a
  run of the program says all.
* Snippets on single calls: a fixed order, or a wait that the larger programs have too.
* Copies, editor and build files. The `CMakeCCompilerId.c` and `CMakeCXXCompilerId.cpp` files, which
  are four fifths of all lines of C and C++ in the repository, are probes that CMake generates, and
  `Code_Schnipsel_Jane_Notepad` repeats the snippets. They hold no behaviour of their own, so the modelled lines remain
  a small share of all lines, though the programs with behaviour are modelled.
