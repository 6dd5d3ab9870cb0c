---------------------------- MODULE SensorBuffer ----------------------------
(***************************************************************************)
(* Aufgabe_4/Aufgabe_4_1/consumerproducer.c: temperature sensors put       *)
(* readings into a circular buffer and sleep while it is full; a logger    *)
(* takes a fixed number of readings and averages them; main waits for all  *)
(* of them and empties the buffer.                                         *)
(*                                                                         *)
(* A reading stands for its place in the order in which readings are put   *)
(* into the buffer: 1, 2, ...; 0 is what malloc left in the block.         *)
(***************************************************************************)
EXTENDS Pthreads, CbOps

CONSTANTS
  Sensors,         \* the threads running thread_func1 (2 in the program)
  Logger, Main,    \* the thread running thread_func2 and the main thread
  SIZE,            \* elements of the buffer, 7
  ITERATIONS,      \* readings the logger takes, 1000
  SPURIOUS         \* bound of the model: waits that end without a signal

ASSUME SensorBufferAssumption ==
  /\ Threads = Sensors \cup {Logger, Main}
  /\ Logger \notin Sensors /\ Main \notin Sensors /\ Logger # Main
  /\ Sensors # {}
  /\ Handlers = {}
  /\ Mutexes = {"mutex"}
  /\ Conds = {"producer"}
  /\ SIZE \in Nat /\ SIZE > 1
  /\ ITERATIONS \in Nat /\ SPURIOUS \in Nat
  /\ NULL \notin Nat \cup [0 .. SIZE - 1 -> Nat]

VARIABLES
  myCB,       \* the circular buffer
  counter,    \* 1 while the sensors are to go on
  i,          \* the loop variable of the logger
  summed,     \* what the logger has added to temp, in order
  turns,      \* history: the turns whose cb_remove did remove a reading
  produced,   \* history: readings put into the buffer
  removed,    \* history: readings removed from it
  spurious    \* history: waits that ended without a signal

data == <<myCB, counter, i, summed, turns, produced, removed, spurious>>
vars == <<pthreadVars, data>>

Init ==
  /\ PthreadsInit([c \in Contexts |->
       IF c \in Sensors THEN "loop" ELSE IF c = Logger THEN "log_loop" ELSE "main_join"])
  /\ myCB = cb_init([buffer |-> NULL, first |-> 0, count |-> 0, size |-> 0],
                    SIZE, [k \in 0 .. SIZE - 1 |-> 0]).cb
  /\ counter = 1
  /\ i = 0
  /\ summed = <<>> /\ turns = <<>>
  /\ produced = 0 /\ removed = 0 /\ spurious = 0

-----------------------------------------------------------------------------
(* thread_func1 *)

\* while(counter == 1), read without the mutex
SensorLoop(s) ==
  /\ Step(s, "loop", IF counter = 1 THEN "lock" ELSE "done")
  /\ UNCHANGED <<owner, waiting, data>>

SensorLock(s) ==
  /\ Step(s, "lock", "check")
  /\ Lock(s, "mutex")
  /\ UNCHANGED <<waiting, data>>

\* Faulty variant: a sensor that finds the buffer full tries again at once.
SensorCheckBusy(s) ==
  /\ Step(s, "check", IF cb_isFull(myCB) THEN "unlock" ELSE "add")
  /\ UNCHANGED <<owner, waiting, data>>

SensorCheck(s) ==
  /\ Step(s, "check", IF cb_isFull(myCB) THEN "wait" ELSE "add")
  /\ UNCHANGED <<owner, waiting, data>>

SensorAdd(s) ==
  /\ Step(s, "add", "unlock")
  /\ myCB' = cb_add(myCB, produced + 1).cb
  /\ produced' = produced + 1
  /\ UNCHANGED <<owner, waiting, counter, i, summed, turns, removed, spurious>>

SensorWait(s) ==
  /\ Step(s, "wait", "waiting")
  /\ CondSleep(s, "producer", "mutex")
  /\ UNCHANGED data

SensorWake(s) ==
  /\ Step(s, "waiting", "unlock")
  /\ CondReturn(s, "producer", "mutex")
  /\ UNCHANGED data

SensorUnlock(s) ==
  /\ Step(s, "unlock", "loop")
  /\ Unlock("mutex")
  /\ UNCHANGED <<waiting, data>>

Sensor(s) ==
  \/ SensorLoop(s) \/ SensorLock(s) \/ SensorCheck(s) \/ SensorAdd(s)
  \/ SensorWait(s) \/ SensorWake(s) \/ SensorUnlock(s)

-----------------------------------------------------------------------------
(* thread_func2 *)

\* Faulty variant: one turn too many.
LogLoopOffByOne ==
  /\ Step(Logger, "log_loop", IF i <= ITERATIONS THEN "log_lock" ELSE "log_stop")
  /\ UNCHANGED <<owner, waiting, data>>

LogLoop ==
  /\ Step(Logger, "log_loop", IF i < ITERATIONS THEN "log_lock" ELSE "log_stop")
  /\ UNCHANGED <<owner, waiting, data>>

LogLock ==
  /\ Step(Logger, "log_lock", "log_take")
  /\ Lock(Logger, "mutex")
  /\ UNCHANGED <<waiting, data>>

\* element is preset from the buffer; cb_remove replaces it unless the buffer is
\* empty, and its return value is not looked at.
LogTake ==
  /\ Step(Logger, "log_take", "log_signal")
  /\ LET call == cb_remove(myCB, myCB.buffer[counter]) IN
       /\ myCB' = call.cb
       /\ summed' = Append(summed, call.elem)
       /\ removed' = IF call.ret = 0 THEN removed + 1 ELSE removed
       /\ turns' = IF call.ret = 0 THEN Append(turns, Len(summed) + 1) ELSE turns
  /\ UNCHANGED <<owner, waiting, counter, i, produced, spurious>>

\* Faulty variant: the signal is sent only when the buffer has become empty.
LogSignalEmpty ==
  /\ Step(Logger, "log_signal", "log_unlock")
  /\ IF cb_isEmpty(myCB) THEN Signal("producer") ELSE UNCHANGED waiting
  /\ UNCHANGED <<owner, data>>

LogSignal ==
  /\ Step(Logger, "log_signal", "log_unlock")
  /\ Signal("producer")
  /\ UNCHANGED <<owner, data>>

LogUnlock ==
  /\ Step(Logger, "log_unlock", "log_loop")
  /\ Unlock("mutex")
  /\ i' = i + 1
  /\ UNCHANGED <<waiting, myCB, counter, summed, turns, produced, removed, spurious>>

\* The sensors are told to stop, but those that sleep are not woken.
LogStop ==
  /\ Step(Logger, "log_stop", "done")
  /\ counter' = 0
  /\ UNCHANGED <<owner, waiting, myCB, i, summed, turns, produced, removed, spurious>>

Log == LogLoop \/ LogLock \/ LogTake \/ LogSignal \/ LogUnlock \/ LogStop

-----------------------------------------------------------------------------
(* main, once the threads have been started *)

MainJoin ==
  /\ \A t \in Sensors \cup {Logger} : pc[t] = "done"
  /\ Step(Main, "main_join", "main_drain")
  /\ UNCHANGED <<owner, waiting, data>>

\* one more element, and all are removed; then the buffer is given back
MainDrain ==
  /\ Step(Main, "main_drain", "main_destroy")
  /\ LET filled == cb_add(myCB, produced + 1) IN
       /\ produced' = IF filled.ret = 0 THEN produced + 1 ELSE produced
       /\ removed' = removed + cb_count(filled.cb)
       /\ myCB' = [filled.cb EXCEPT !.count = 0, !.first = slot(@, SIZE, cb_count(filled.cb))]
  /\ UNCHANGED <<owner, waiting, counter, i, summed, turns, spurious>>

MainDestroy ==
  /\ Step(Main, "main_destroy", "done")
  /\ myCB' = cb_destroy(myCB).cb
  /\ UNCHANGED <<owner, waiting, counter, i, summed, turns, produced, removed, spurious>>

MainThread == MainJoin \/ MainDrain \/ MainDestroy

\* pthread_cond_wait returns although nobody signalled.
Wakeup ==
  /\ spurious < SPURIOUS
  /\ spurious' = spurious + 1
  /\ SpuriousWakeup("producer")
  /\ UNCHANGED <<myCB, counter, i, summed, turns, produced, removed>>

Next ==
  \/ \E s \in Sensors : Sensor(s)
  \/ Log
  \/ MainThread
  \/ Wakeup

Spec == Init /\ [][Next]_vars

\* Each thread goes on if it can and nobody prevents it for ever.  That a thread
\* that wants a mutex gets it while others keep taking it is not assumed.
Fairness ==
  /\ \A s \in Sensors : WF_vars(Sensor(s))
  /\ WF_vars(Log)
  /\ WF_vars(MainThread)

FairSpec == Spec /\ Fairness

-----------------------------------------------------------------------------
(* Properties *)

SensorLabels == {"loop", "lock", "check", "add", "wait", "waiting", "unlock", "done"}
LoggerLabels == {"log_loop", "log_lock", "log_take", "log_signal", "log_unlock", "log_stop", "done"}
MainLabels == {"main_join", "main_drain", "main_destroy", "done"}

TypeOK ==
  /\ \A s \in Sensors : pc[s] \in SensorLabels
  /\ pc[Logger] \in LoggerLabels
  /\ pc[Main] \in MainLabels
  /\ owner \in [Mutexes -> Threads \cup {Nobody}]
  /\ waiting \in [Conds -> SUBSET Sensors]
  /\ myCB.buffer \in [0 .. SIZE - 1 -> Nat] \cup {NULL}
  /\ myCB.first \in 0 .. SIZE - 1
  /\ myCB.count \in 0 .. SIZE
  /\ myCB.size = SIZE
  /\ counter \in {0, 1}
  /\ i \in 0 .. ITERATIONS
  /\ summed \in Seq(Nat) /\ turns \in Seq(Nat)
  /\ produced \in Nat /\ removed \in Nat
  /\ spurious \in 0 .. SPURIOUS

\* The k-th reading is what the k-th turn with something to remove added to the sum.
SummedInOrder ==
  /\ Len(turns) = removed
  /\ \A k \in 1 .. removed : turns[k] \in DOMAIN summed /\ summed[turns[k]] = k
  /\ \A k \in 1 .. removed, j \in 1 .. removed : j < k => turns[j] < turns[k]

\* The readings put into the buffer and not yet removed are in it, each once and
\* oldest first, whoever put them there.  While the logger works, those removed have
\* entered the sum in the same order, each by a turn of its own.  This says nothing of
\* the turns that find the buffer empty: they add what lies in the block once more
\* (lines 169 to 173), so that temp may count an old reading several times.
NoReadingLost ==
  /\ myCB.buffer # NULL =>
       /\ produced = removed + cb_count(myCB)
       /\ Contents(myCB) = [k \in 1 .. cb_count(myCB) |-> removed + k]
  /\ pc[Main] = "main_join" => SummedInOrder

\* While the logger works, the sensors do not all sleep beside a buffer with
\* room in it: the signals of lines 145 and 175 do not miss each other.
SleepersHaveNoRoom ==
  (/\ \A s \in Sensors : s \in waiting["producer"]
   /\ owner["mutex"] = Nobody) => cb_isFull(myCB)

\* The logger gets all its turns, although nothing gives a thread its turn at a
\* mutex that the sensors keep taking: they fill the buffer and fall asleep.
LoggerEnds == <>(pc[Logger] = "done")

=============================================================================
