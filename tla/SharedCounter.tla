--------------------------- MODULE SharedCounter ---------------------------
(***************************************************************************)
(* The programs of the repository in which several workers add to one      *)
(* counter: without protection (pthread3.c, shm_counter.c), under a mutex  *)
(* (pthreads3_mutex.c, shm_counter_mutex.c), under a semaphore             *)
(* (pthreads3_semaphore.c) and with an atomic next to it (atomic.c).       *)
(* ichmagzuege.c is the same program with a train that passes a section    *)
(* once in place of the additions.                                         *)
(*                                                                         *)
(* They differ in what surrounds the addition and in whether the workers   *)
(* are threads or processes; a behaviour is a run of one of them.  The two *)
(* on shared memory may be started again after they have given up, while   *)
(* the children of the earlier run still add in the same segment.          *)
(***************************************************************************)
EXTENDS Naturals, FiniteSets

CONSTANTS
  Processes,  \* all threads and child processes there ever are
  Workers,    \* those of the first run, ten of them
  Additions,  \* what each of them adds, 10000 times one
  LEFTOVER,   \* bound of the model: what a run that was killed left in the segment
  AGAIN       \* bound of the model: how often the program is started again

ASSUME CounterAssumption ==
  /\ IsFiniteSet(Processes) /\ Workers # {} /\ Workers \subseteq Processes
  /\ Additions \in Nat /\ Additions >= 2
  /\ LEFTOVER \in Nat /\ AGAIN \in Nat

InSegment == {"shm_counter", "shm_counter_mutex"}
Guarded == {"pthreads3_mutex", "pthreads3_semaphore", "shm_counter_mutex", "ichmagzuege"}
Programs == InSegment \cup Guarded \cup {"pthread3", "atomic"}

Counters == {"mydata", "acnt", "cnt"}

VARIABLES
  program,  \* which of the programs runs
  again,    \* history: how often it has been started again
  main,     \* the next statement of main
  children, \* the threads or processes that main has created or will create
  alone,    \* history: nobody of an earlier run was left when the counter was set
  pc,       \* pc[w]: the next statement of worker w
  made,     \* made[w][c]: the loop counter of w's additions to c
  reg,      \* reg[w]: the value of the counter that w has in a register
  cell,     \* cell[c]: the value of counter c in memory
  unit      \* the semaphore's value; 1 for a free mutex

vars == <<program, again, main, children, alone, pc, made, reg, cell, unit>>
run == <<program, again, children, alone>>

\* A segment that a run killed with its children did not unlink keeps its counter
\* and mutex.
Init ==
  /\ program \in Programs
  /\ main = "start" /\ again = 0
  /\ children = Workers
  /\ alone = FALSE
  /\ pc = [w \in Processes |-> "new"]
  /\ made = [w \in Processes |-> [c \in Counters |-> 0]]
  /\ reg = [w \in Processes |-> 0]
  /\ cell \in {[c \in Counters |-> IF c = "mydata" THEN n ELSE 0] :
                 n \in IF program \in InSegment THEN 0 .. LEFTOVER ELSE {0}}
  /\ unit \in IF program = "shm_counter_mutex" THEN 0 .. 1 ELSE {0}

-----------------------------------------------------------------------------
\* The counter that w is adding to; atomic.c has a second loop.
Target(w) == IF made[w]["mydata"] < Additions THEN "mydata" ELSE "cnt"

\* The statement after an addition, or at the start, of a worker that has
\* made the additions m.
Loop(m) ==
  IF m["mydata"] < Additions THEN IF program \in Guarded THEN "lock" ELSE "read"
  ELSE IF program = "atomic" /\ m["cnt"] < Additions THEN "fetch" ELSE "done"

Count(w, c) == [made EXCEPT ![w][c] = @ + 1]
Goto(w, from, to) == pc[w] = from /\ pc' = [pc EXCEPT ![w] = to]

\* Faulty variant: nobody waits for the unit.
LockHeld(w) ==
  /\ Goto(w, "lock", "read")
  /\ unit' = 0
  /\ UNCHANGED <<run, main, made, reg, cell>>

\* pthread_mutex_lock, sem_wait
Lock(w) ==
  /\ Goto(w, "lock", "read")
  /\ unit = 1
  /\ unit' = 0
  /\ UNCHANGED <<run, main, made, reg, cell>>

\* *mydata += 1 reads ...
Read(w) ==
  /\ Goto(w, "read", "write")
  /\ reg' = [reg EXCEPT ![w] = cell[Target(w)]]
  /\ UNCHANGED <<run, main, made, cell, unit>>

\* ... and writes: whatever was added in between is lost.
Write(w) ==
  /\ Goto(w, "write", IF program \in Guarded THEN "unlock" ELSE Loop(Count(w, Target(w))[w]))
  /\ cell' = [cell EXCEPT ![Target(w)] = reg[w] + 1]
  /\ made' = Count(w, Target(w))
  /\ UNCHANGED <<run, main, reg, unit>>

\* Without a lock the compiler may also leave the sum in the register and
\* store it in a later turn of the loop.
Keep(w) ==
  /\ pc[w] = "write"
  /\ program \notin Guarded
  /\ made[w]["mydata"] + 1 < Additions
  /\ reg' = [reg EXCEPT ![w] = @ + 1]
  /\ made' = Count(w, "mydata")
  /\ UNCHANGED <<run, main, pc, cell, unit>>

\* Faulty variant: the way out without the post.
UnlockNothing(w) ==
  /\ Goto(w, "unlock", IF program = "ichmagzuege" THEN "done" ELSE Loop(made[w]))
  /\ UNCHANGED <<run, main, made, reg, cell, unit>>

\* pthread_mutex_unlock frees the mutex whoever has it; sem_post adds a unit.
Unlock(w) ==
  /\ Goto(w, "unlock", IF program = "ichmagzuege" THEN "done" ELSE Loop(made[w]))
  /\ unit' = IF program \in {"pthreads3_mutex", "shm_counter_mutex"} THEN 1 ELSE unit + 1
  /\ UNCHANGED <<run, main, made, reg, cell>>

\* atomic_fetch_add_explicit(&acnt, 1, memory_order_relaxed)
Fetch(w) ==
  /\ Goto(w, "fetch", "read")
  /\ cell' = [cell EXCEPT !["acnt"] = @ + 1]
  /\ made' = Count(w, "acnt")
  /\ UNCHANGED <<run, main, reg, unit>>

\* befahreneStecke and the stay in the section
Drive(w) ==
  /\ Goto(w, "read", "unlock")
  /\ UNCHANGED <<run, main, made, reg, cell, unit>>

\* The workers of each program: thread_func, or the child's part of main.
PlainThread(w) == program = "pthread3" /\ (Read(w) \/ Write(w) \/ Keep(w))
MutexThread(w) == program = "pthreads3_mutex" /\ (Lock(w) \/ Read(w) \/ Write(w) \/ Unlock(w))
SemaphoreThread(w) == program = "pthreads3_semaphore" /\ (Lock(w) \/ Read(w) \/ Write(w) \/ Unlock(w))
AtomicThread(w) == program = "atomic" /\ (Read(w) \/ Write(w) \/ Keep(w) \/ Fetch(w))
Child(w) == program = "shm_counter" /\ (Read(w) \/ Write(w) \/ Keep(w))
MutexChild(w) == program = "shm_counter_mutex" /\ (Lock(w) \/ Read(w) \/ Write(w) \/ Unlock(w))
TrainThread(w) == program = "ichmagzuege" /\ (Lock(w) \/ Drive(w) \/ Unlock(w))

Worker(w) ==
  \/ PlainThread(w) \/ MutexThread(w) \/ SemaphoreThread(w) \/ AtomicThread(w)
  \/ Child(w) \/ MutexChild(w) \/ TrainThread(w)

-----------------------------------------------------------------------------
GotoMain(from, to) == main = from /\ main' = to

\* Those of an earlier run that are still there.
Orphans == {w \in Processes \ children : pc[w] \notin {"new", "done"}}

\* Faulty variant: the counter of the segment is taken as it is.
SetCounterKeeping ==
  /\ GotoMain("start", "init")
  /\ alone' = (Orphans = {})
  /\ UNCHANGED <<program, again, children, pc, made, reg, cell, unit>>

\* *counter = 0
SetCounter ==
  /\ GotoMain("start", "init")
  /\ cell' = [cell EXCEPT !["mydata"] = 0]
  /\ alone' = (Orphans = {})
  /\ UNCHANGED <<program, again, children, pc, made, reg, unit>>

\* pthread_mutex_init or sem_init, where the program has one.  To an orphan that
\* sleeps in the mutex the new mutex owes no wakeup: it may sleep for ever.
InitLock ==
  /\ GotoMain("init", "create")
  /\ unit' = 1
  /\ \E lost \in SUBSET {w \in Orphans : pc[w] = "lock"} :
       pc' = [w \in Processes |-> IF w \in lost THEN "lost" ELSE pc[w]]
  /\ UNCHANGED <<run, made, reg, cell>>

\* pthread_create or fork; a worker may run before the next one exists.
Create(w) ==
  /\ main = "create"
  /\ w \in children
  /\ Goto(w, "new", Loop(made[w]))
  /\ UNCHANGED <<run, main, made, reg, cell, unit>>

AllCreated ==
  /\ \A w \in children : pc[w] # "new"
  /\ GotoMain("create", "join")
  /\ UNCHANGED <<run, pc, made, reg, cell, unit>>

\* Faulty variant: one worker too few is joined.
JoinTooFew ==
  /\ \E v \in children : \A w \in children \ {v} : pc[w] = "done"
  /\ GotoMain("join", "end")
  /\ UNCHANGED <<run, pc, made, reg, cell, unit>>

\* pthread_join or waitpid of all; then the value is printed, the lock
\* destroyed and the segment unlinked.
Join ==
  /\ \A w \in children : pc[w] = "done"
  /\ GotoMain("join", "end")
  /\ UNCHANGED <<run, pc, made, reg, cell, unit>>

\* shm_open, ftruncate, mmap or fork fails: exit(1), while the children that
\* exist go on.
Fails ==
  /\ main \in {"start", "create"}
  /\ main = "create" => \E w \in children : pc[w] = "new"
  /\ main' = "failed"
  /\ UNCHANGED <<run, pc, made, reg, cell, unit>>

\* The program is started again and opens the segment that is still there.  Its
\* children are none of the processes that go on in it.
Again ==
  /\ program \in InSegment
  /\ GotoMain("failed", "start")
  /\ again < AGAIN /\ again' = again + 1
  /\ alone' = FALSE
  /\ \E fresh \in SUBSET {w \in Processes : pc[w] \in {"new", "done"}} :
       /\ Cardinality(fresh) = Cardinality(children)
       /\ children' = fresh
       /\ pc' = [w \in Processes |-> IF w \in fresh THEN "new" ELSE pc[w]]
       /\ made' = [w \in Processes |-> IF w \in fresh THEN [c \in Counters |-> 0] ELSE made[w]]
       /\ reg' = [w \in Processes |-> IF w \in fresh THEN 0 ELSE reg[w]]
  /\ UNCHANGED <<program, cell, unit>>

Main == SetCounter \/ InitLock \/ (\E w \in Processes : Create(w)) \/ AllCreated \/ Join

PlainMain == program = "pthread3" /\ Main
MutexMain == program = "pthreads3_mutex" /\ Main
SemaphoreMain == program = "pthreads3_semaphore" /\ Main
AtomicMain == program = "atomic" /\ Main
ShmMain == program = "shm_counter" /\ (Main \/ Fails)
ShmMutexMain == program = "shm_counter_mutex" /\ (Main \/ Fails)
TrainMain == program = "ichmagzuege" /\ Main

Mains ==
  \/ PlainMain \/ MutexMain \/ SemaphoreMain \/ AtomicMain
  \/ ShmMain \/ ShmMutexMain \/ TrainMain

Next == Mains \/ Again \/ \E w \in Processes : Worker(w)

Spec == Init /\ [][Next]_vars

\* The scheduler runs every thread or process that can go on; whether the program is
\* started again is up to the user.
FairSpec == Spec /\ WF_vars(Mains) /\ \A w \in Processes : WF_vars(Worker(w))

-----------------------------------------------------------------------------
\* Every variable stays in its type; the unit of the lock is never doubled.
TypeOK ==
  /\ program \in Programs
  /\ main \in {"start", "init", "create", "join", "end", "failed"}
  /\ children \subseteq Processes /\ again \in 0 .. AGAIN
  /\ alone \in BOOLEAN
  /\ pc \in [Processes -> {"new", "lock", "read", "write", "unlock", "fetch", "done", "lost"}]
  /\ made \in [Processes -> [Counters -> 0 .. Additions]]
  /\ reg \in [Processes -> Nat]
  /\ cell \in [Counters -> Nat]
  /\ unit \in 0 .. 1

\* The number of all additions the children are to make to one counter.
Total == Cardinality(children) * Additions

\* What the programs show the reader: with the mutex or the semaphore, and with the
\* atomic, the result is exactly the number of additions, whatever counter and mutex
\* the segment had, also when the program has been started again; but for a run that
\* set the counter while children of an earlier one were still adding to it.
Exact ==
  main = "end" /\ alone =>
    /\ program \in Guarded \ {"ichmagzuege"} => cell["mydata"] = Total
    /\ program = "atomic" => cell["acnt"] = Total

\* What the unprotected counters may print: never more than the additions
\* made, but possibly as little as two, however many workers there are; again but
\* for a run that found others in the segment.
LostUpdates ==
  main = "end" /\ alone /\ program \notin Guarded => cell["mydata"] \in 2 .. Total

\* No two workers are between the lock and the unlock, unless a mutex was initialised
\* while an earlier run's children used it: the trains of ichmagzuege.c pass the
\* section one at a time.
Inside(w) == program \in Guarded /\ pc[w] \in {"read", "write", "unlock"}
OneInside == alone => \A v, w \in Processes : Inside(v) /\ Inside(w) => v = w

\* The program comes to its end, and so does every worker that was created, also the
\* children of a parent that has given up; but not one that slept in the mutex when
\* the next run initialised it.
AllEnd ==
  <>[](main \in {"end", "failed"} /\ \A w \in Processes : pc[w] \in {"new", "done", "lost"})

=============================================================================
