------------------------------- MODULE Trains -------------------------------
(***************************************************************************)
(* Zuege/main.c: trains pass a rail section that a semaphore guards, until *)
(* a number of them has passed or SIGTERM, SIGINT or SIGQUIT arrives.      *)
(*                                                                         *)
(* train_count and thread_shutdown_flag are shared without a lock, so each *)
(* access is a step of its own.                                            *)
(***************************************************************************)
EXTENDS Integers, FiniteSets

CONSTANTS
  Trains,         \* the train threads (ZUG_COUNT = 4)
  STRECKE_COUNT,  \* trains the section has room for, 3
  EXIT_COUNT,     \* trains after which the program exits, 10
  SIGNALS,        \* bound of the model: signals the user sends
  COUNT_BOUND,    \* bound of the model: trains admitted
  SignalTrains    \* the trains whose thread may be the one a signal interrupts

ASSUME TrainsAssumption ==
  /\ STRECKE_COUNT \in Nat
  /\ EXIT_COUNT \in Nat
  /\ SIGNALS \in Nat /\ COUNT_BOUND \in Nat
  /\ SignalTrains \subseteq Trains
  /\ IsFiniteSet(Trains)

VARIABLES
  pc,                   \* pc[t]: the next statement of train t
  semaphore,            \* the value of the semaphore
  train_count,
  thread_shutdown_flag,
  tmp,                  \* tmp[t]: the train_count that t has read
  joined,               \* main has joined every train and destroyed the semaphore
  signals,              \* history: signals delivered
  holders,              \* history: trains in befahreStrecke with a unit of the semaphore
  admitted              \* history: trains told that they may enter

vars == <<pc, semaphore, train_count, thread_shutdown_flag, tmp, joined, signals, holders, admitted>>

Init ==
  /\ pc = [t \in Trains |-> "loop"]
  /\ semaphore = STRECKE_COUNT
  /\ train_count = 0
  /\ thread_shutdown_flag = 0
  /\ tmp = [t \in Trains |-> 0]
  /\ joined = FALSE
  /\ signals = 0
  /\ holders = {}
  /\ admitted = 0

Step(t, from, to) == pc[t] = from /\ pc' = [pc EXCEPT ![t] = to]

\* while(thread_shutdown_flag == 0)
Loop(t) ==
  /\ Step(t, "loop", IF thread_shutdown_flag = 0 THEN "try" ELSE "done")
  /\ UNCHANGED <<semaphore, train_count, thread_shutdown_flag, tmp, joined, signals, holders, admitted>>

\* Faulty variant: the train that was refused does not wait.
TryImpatient(t) ==
  /\ IF semaphore > 0
       THEN semaphore' = semaphore - 1 /\ holders' = holders \cup {t}
       ELSE UNCHANGED <<semaphore, holders>>
  /\ Step(t, "try", "check")
  /\ UNCHANGED <<train_count, thread_shutdown_flag, tmp, joined, signals, admitted>>

\* sem_trywait
Try(t) ==
  /\ IF semaphore > 0
       THEN /\ Step(t, "try", "check")
            /\ semaphore' = semaphore - 1
            /\ holders' = holders \cup {t}
       ELSE Step(t, "try", "wait") /\ UNCHANGED <<semaphore, holders>>
  /\ UNCHANGED <<train_count, thread_shutdown_flag, tmp, joined, signals, admitted>>

\* sem_wait that ends because there is a unit
Wait(t) ==
  /\ semaphore > 0
  /\ Step(t, "wait", "check")
  /\ semaphore' = semaphore - 1
  /\ holders' = holders \cup {t}
  /\ UNCHANGED <<train_count, thread_shutdown_flag, tmp, joined, signals, admitted>>

\* Faulty variant: the unit is kept on the way out.
CheckKeeping(t) ==
  /\ IF thread_shutdown_flag = 0
       THEN /\ Step(t, "check", "read")
            /\ admitted < COUNT_BOUND /\ admitted' = admitted + 1
       ELSE Step(t, "check", "looped") /\ UNCHANGED admitted
  /\ holders' = IF thread_shutdown_flag = 0 THEN holders ELSE holders \ {t}
  /\ UNCHANGED <<semaphore, train_count, thread_shutdown_flag, tmp, joined, signals>>

\* The shortcut posts whether or not sem_wait gave the train a unit.
Check(t) ==
  /\ IF thread_shutdown_flag = 0
       THEN /\ Step(t, "check", "read")
            /\ admitted < COUNT_BOUND /\ admitted' = admitted + 1
            /\ UNCHANGED <<semaphore, holders>>
       ELSE /\ Step(t, "check", "looped")
            /\ semaphore' = semaphore + 1
            /\ holders' = holders \ {t}
            /\ UNCHANGED admitted
  /\ UNCHANGED <<train_count, thread_shutdown_flag, tmp, joined, signals>>

\* train_count++ reads ...
CountRead(t) ==
  /\ Step(t, "read", "write")
  /\ tmp' = [tmp EXCEPT ![t] = train_count]
  /\ UNCHANGED <<semaphore, train_count, thread_shutdown_flag, joined, signals, holders, admitted>>

\* ... and writes: a train counted in between is forgotten.
CountWrite(t) ==
  /\ Step(t, "write", "test")
  /\ train_count' = tmp[t] + 1
  /\ UNCHANGED <<semaphore, thread_shutdown_flag, tmp, joined, signals, holders, admitted>>

\* The test uses the number in memory or the one the compiler still has in a
\* register, and then the train stays in the section.
CountTest(t) ==
  /\ \E n \in {train_count, tmp[t] + 1} :
       thread_shutdown_flag' = IF n >= EXIT_COUNT THEN 1 ELSE thread_shutdown_flag
  /\ Step(t, "test", "leave")
  /\ tmp' = [tmp EXCEPT ![t] = 0]
  /\ UNCHANGED <<semaphore, train_count, joined, signals, holders, admitted>>

\* sem_post
Leave(t) ==
  /\ Step(t, "leave", "looped")
  /\ semaphore' = semaphore + 1
  /\ holders' = holders \ {t}
  /\ UNCHANGED <<train_count, thread_shutdown_flag, tmp, joined, signals, admitted>>

\* back in zugThreadFunc: sleep if the flag is not set, and again
Looped(t) ==
  /\ Step(t, "looped", "loop")
  /\ UNCHANGED <<semaphore, train_count, thread_shutdown_flag, tmp, joined, signals, holders, admitted>>

Train(t) ==
  \/ Loop(t) \/ Try(t) \/ Wait(t) \/ Check(t) \/ CountRead(t) \/ CountWrite(t)
  \/ CountTest(t) \/ Leave(t) \/ Looped(t)

\* Faulty variant: the handler counts instead of setting the flag.
SignalMainCounting ==
  /\ ~joined
  /\ signals < SIGNALS
  /\ signals' = signals + 1
  /\ thread_shutdown_flag' = thread_shutdown_flag + 1
  /\ UNCHANGED <<pc, semaphore, train_count, tmp, joined, holders, admitted>>

\* A signal interrupts main ...
SignalMain ==
  /\ ~joined
  /\ signals < SIGNALS
  /\ signals' = signals + 1
  /\ thread_shutdown_flag' = 1
  /\ UNCHANGED <<pc, semaphore, train_count, tmp, joined, holders, admitted>>

\* ... or a train.  Without SA_RESTART a blocked sem_wait then returns -1, which
\* befahreStrecke does not look at; its sleeps end early, which is no step here.
SignalTrain(t) ==
  /\ t \in SignalTrains
  /\ signals < SIGNALS
  /\ pc[t] # "done"
  /\ signals' = signals + 1
  /\ thread_shutdown_flag' = 1
  /\ pc' = [pc EXCEPT ![t] = IF @ = "wait" THEN "check" ELSE @]
  /\ UNCHANGED <<semaphore, train_count, tmp, joined, holders, admitted>>

\* main has joined all threads and destroys the semaphore.
MainEnd ==
  /\ ~joined
  /\ \A t \in Trains : pc[t] = "done"
  /\ joined' = TRUE
  /\ UNCHANGED <<pc, semaphore, train_count, thread_shutdown_flag, tmp, signals, holders, admitted>>

Next ==
  \/ \E t \in Trains : Train(t)
  \/ MainEnd
  \/ SignalMain
  \/ \E t \in Trains : SignalTrain(t)

Spec == Init /\ [][Next]_vars

\* A thread that can go on does.  That a waiting train is not overtaken for ever
\* is not assumed, and a signal need never come.
Fairness == WF_vars(MainEnd) /\ \A t \in Trains : WF_vars(Train(t))

FairSpec == Spec /\ Fairness

-----------------------------------------------------------------------------
(* Properties *)

Labels ==
  {"loop", "try", "wait", "check", "read", "write", "test", "leave", "looped", "done"}

TypeOK ==
  /\ pc \in [Trains -> Labels]
  /\ semaphore \in Nat
  /\ train_count \in Nat
  /\ thread_shutdown_flag \in {0, 1}
  /\ tmp \in [Trains -> Nat]
  /\ joined \in BOOLEAN
  /\ signals \in 0 .. SIGNALS
  /\ holders \subseteq Trains
  /\ admitted \in 0 .. COUNT_BOUND

\* The trains in the section: told that they may enter, and not yet out again.
Section == {t \in Trains : pc[t] \in {"read", "write", "test", "leave"}}

\* Never more trains in the section than it has room for, although an
\* interrupted sem_wait leads to a sem_post without a unit (main.c:37-43).
SectionCapacity == Cardinality(Section) <= STRECKE_COUNT

\* No unit of the semaphore is ever lost, and until the flag is set none is made
\* of nothing: the trains that bail out post, too (main.c:40-43, 57).
UnitsKept ==
  /\ semaphore + Cardinality(holders) >= STRECKE_COUNT
  /\ thread_shutdown_flag = 0 => semaphore + Cardinality(holders) = STRECKE_COUNT

\* Trains in the section hold a unit each.
SectionHolds == Section \subseteq holders

\* The program implements the rail section.
track == INSTANCE TrackSection WITH Tracks <- STRECKE_COUNT, inside <- Section
TrackSpec == track!Spec

\* Once the flag is set every train ends, those that were waiting included, and
\* with them the program.
TrainsEnd == (thread_shutdown_flag = 1) ~> joined

\* sem_wait has returned with a unit.  main.c:97 says so of all system calls ("it shall be
\* restarted"), but sa_flags is 0 there, and it holds only until the handler has run.
WaitGivesUnit == \A t \in Trains : pc[t] = "check" => t \in holders

=============================================================================
