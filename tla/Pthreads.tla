------------------------------ MODULE Pthreads ------------------------------
(***************************************************************************)
(* The part of POSIX threads and signals that the programs of this         *)
(* repository call: mutexes, condition variables and handlers that run on  *)
(* top of an interrupted thread.  It models the library and the kernel,    *)
(* not code of the repository.                                             *)
(*                                                                         *)
(* A context is whatever executes statements: a thread or one run of a     *)
(* signal handler.  pc[c] names the next statement of context c.  Several  *)
(* handlers may be stacked on a thread; only the innermost context of a    *)
(* thread executes.  A default mutex is not recursive, so a handler that   *)
(* locks a mutex held by the thread it interrupted blocks like anybody     *)
(* else: the owner of a mutex is therefore the context that locked it.     *)
(***************************************************************************)
EXTENDS Naturals, Sequences, FiniteSets

CONSTANTS
  Threads,         \* the threads of the process, main among them
  Handlers,        \* the handler runs that may be started
  Mutexes,         \* the pthread_mutex_t objects
  Conds,           \* the pthread_cond_t objects
  SignalThreads,   \* the threads to which the kernel may direct a signal
  SpuriousWakeups, \* may pthread_cond_wait return unsignalled?
  Nobody           \* owner of a free mutex

ASSUME PthreadsAssumption ==
  /\ Threads \cap Handlers = {}
  /\ SignalThreads \subseteq Threads
  /\ Nobody \notin Threads \cup Handlers
  /\ SpuriousWakeups \in BOOLEAN

VARIABLES
  pc,       \* pc[c]: the next statement of context c
  owner,    \* owner[m]: the context that holds mutex m, or Nobody
  waiting,  \* waiting[v]: the contexts blocked in pthread_cond_wait on v
  nest      \* nest[t]: the handlers running on thread t, innermost first

pthreadVars == <<pc, owner, waiting, nest>>

Contexts == Threads \cup Handlers

\* The context that thread t is executing.
Top(t) == IF nest[t] = <<>> THEN t ELSE Head(nest[t])

Runnable(c) == \E t \in Threads : Top(t) = c

\* Context c executes the statement at label "from" and continues at "to".
Step(c, from, to) ==
  /\ pc[c] = from
  /\ Runnable(c)
  /\ pc' = [pc EXCEPT ![c] = to]
  /\ UNCHANGED nest

-----------------------------------------------------------------------------
\* pthread_mutex_lock and pthread_mutex_unlock.
Lock(c, m) ==
  /\ owner[m] = Nobody
  /\ owner' = [owner EXCEPT ![m] = c]

Unlock(m) == owner' = [owner EXCEPT ![m] = Nobody]

\* pthread_cond_wait(v, m), first half: give up m and sleep, atomically.
CondSleep(c, v, m) ==
  /\ Unlock(m)
  /\ waiting' = [waiting EXCEPT ![v] = @ \cup {c}]

\* pthread_cond_wait(v, m), second half: once awake, take m again and return.
CondReturn(c, v, m) ==
  /\ c \notin waiting[v]
  /\ Lock(c, m)
  /\ UNCHANGED waiting

\* pthread_cond_signal: wakes one waiter and is forgotten if there is none.
Signal(v) ==
  IF waiting[v] = {} THEN UNCHANGED waiting
  ELSE \E c \in waiting[v] : waiting' = [waiting EXCEPT ![v] = @ \ {c}]

Broadcast(v) == waiting' = [waiting EXCEPT ![v] = {}]

\* POSIX lets pthread_cond_wait return although nobody signalled.
SpuriousWakeup(v) ==
  /\ SpuriousWakeups
  /\ \E c \in waiting[v] : waiting' = [waiting EXCEPT ![v] = @ \ {c}]
  /\ UNCHANGED <<pc, owner, nest>>

-----------------------------------------------------------------------------
\* Handler h starts on thread t, which is not blocking its signal and has
\* not returned; "start" is the handler's first statement.
Deliver(h, t, start) ==
  /\ t \in SignalThreads
  /\ pc[t] # "done"
  /\ pc[h] = "idle"
  /\ pc' = [pc EXCEPT ![h] = start]
  /\ nest' = [nest EXCEPT ![t] = <<h>> \o @]
  /\ UNCHANGED <<owner, waiting>>

\* The innermost handler h returns and uncovers the context it interrupted.
\* Its signal may come again ("idle") or was the last of its kind ("spent").
Return(h, to) ==
  /\ pc' = [pc EXCEPT ![h] = to]
  /\ \E t \in Threads :
       /\ nest[t] # <<>>
       /\ Head(nest[t]) = h
       /\ nest' = [nest EXCEPT ![t] = Tail(@)]

\* Is a handler of the set H running on thread t?
Handling(t, H) == \E i \in DOMAIN nest[t] : nest[t][i] \in H

PthreadsInit(start) ==
  /\ pc = start
  /\ owner = [m \in Mutexes |-> Nobody]
  /\ waiting = [v \in Conds |-> {}]
  /\ nest = [t \in Threads |-> <<>>]

-----------------------------------------------------------------------------
\* Context h runs on top of context c.
Covers(h, c) ==
  \E t \in Threads :
    /\ nest[t] # <<>>
    /\ \/ c = t /\ nest[t][Len(nest[t])] = h
       \/ \E i \in 1 .. Len(nest[t]) - 1 : nest[t][i] = h /\ nest[t][i + 1] = c

\* Context c cannot go on before context d does; wants[l] is the mutex that is
\* locked at label l.
WaitsFor(c, d, wants) ==
  \/ pc[c] \in DOMAIN wants /\ owner[wants[pc[c]]] = d
  \/ Covers(d, c)

\* A set of contexts each of which waits for a member of the set.
Deadlocked(S, wants) ==
  S # {} /\ \A c \in S : \E d \in S : WaitsFor(c, d, wants)

\* Some contexts wait for each other, or one for itself.
Hung(wants) ==
  \E S \in SUBSET {c \in Contexts : \E d \in Contexts : WaitsFor(c, d, wants)} :
    Deadlocked(S, wants)

\* No handler runs on top of the owner of a mutex.
InterruptedHoldNothing == \A h \in Handlers, m \in Mutexes : ~Covers(h, owner[m])

=============================================================================
