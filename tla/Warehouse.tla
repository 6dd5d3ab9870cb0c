----------------------------- MODULE Warehouse -----------------------------
(***************************************************************************)
(* Lagerhaltung/main.c: bakers fill a warehouse, ask for the bread to be   *)
(* fetched when it is two thirds full and stop when it is full; one thread *)
(* fetches the bread, another one tells it when.                           *)
(*                                                                         *)
(* The bakers share lagercounter and the two flags with the other threads  *)
(* without a lock, and a baker that is told to stop unlocks the mutex all  *)
(* the same: each access is a step of its own.                             *)
(***************************************************************************)
EXTENDS Pthreads

CONSTANTS
  Bakers,             \* the six threads that run thread_func
  MAX_SIZE_LAGER,     \* 200
  TRIGGER,            \* 133
  mutex, mutex2, condition,
  deliverer, signaler \* the threads of deliverBread and signaling_thread

ASSUME WarehouseAssumption ==
  /\ Threads = Bakers \cup {deliverer, signaler}
  /\ deliverer # signaler /\ deliverer \notin Bakers /\ signaler \notin Bakers
  /\ Handlers = {}
  /\ mutex # mutex2 /\ Mutexes = {mutex, mutex2} /\ Conds = {condition}
  /\ MAX_SIZE_LAGER \in Nat /\ TRIGGER \in 0 .. MAX_SIZE_LAGER - 1

VARIABLES
  lagercounter, triggerflag, lagerfreiflag,
  tmp  \* tmp[b]: the lagercounter that b has read

store == <<lagercounter, triggerflag, lagerfreiflag, tmp>>
locks == <<owner, waiting>>
vars == <<pthreadVars, store>>

\* main initialises and starts the threads; then it joins bakers that never end.
Init ==
  /\ PthreadsInit([t \in Threads |-> IF t \in Bakers THEN "test" ELSE "lock"])
  /\ lagercounter = 0 /\ triggerflag = 0 /\ lagerfreiflag = 0
  /\ tmp = [b \in Bakers |-> 0]

-----------------------------------------------------------------------------
\* thread_func.  if(lagerfreiflag == 0)
Test(b) ==
  /\ Step(b, "test", IF lagerfreiflag = 0 THEN "lock" ELSE "unlock")
  /\ UNCHANGED <<locks, store>>

Enter(b) ==
  /\ Step(b, "lock", "check")
  /\ Lock(b, mutex)
  /\ UNCHANGED <<waiting, store>>

\* Faulty variant: the bound is tested one too late.
CheckLate(b) ==
  /\ Step(b, "check", IF lagercounter <= MAX_SIZE_LAGER THEN "read" ELSE "full")
  /\ UNCHANGED <<locks, store>>

\* if(backlager.lagercounter < 200)
Check(b) ==
  /\ Step(b, "check", IF lagercounter < MAX_SIZE_LAGER THEN "read" ELSE "full")
  /\ UNCHANGED <<locks, store>>

\* beakingbread: lagercounter++ reads ...
BakeRead(b) ==
  /\ Step(b, "read", "write")
  /\ tmp' = [tmp EXCEPT ![b] = lagercounter]
  /\ UNCHANGED <<locks, lagercounter, triggerflag, lagerfreiflag>>

\* ... and writes: a delivery in between is undone.
BakeWrite(b) ==
  /\ Step(b, "write", "trigger")
  /\ lagercounter' = tmp[b] + 1
  /\ UNCHANGED <<locks, triggerflag, lagerfreiflag, tmp>>

\* The two assignments of a baker that finds no room.
FullTrigger(b) ==
  /\ Step(b, "full", "stop")
  /\ triggerflag' = 1
  /\ UNCHANGED <<locks, lagercounter, lagerfreiflag, tmp>>

FullStop(b) ==
  /\ Step(b, "stop", "trigger")
  /\ lagerfreiflag' = 1
  /\ UNCHANGED <<locks, lagercounter, triggerflag, tmp>>

\* Faulty variant: the bread is called for only when the warehouse is full.
TriggerNever(b) ==
  /\ Step(b, "trigger", "unlock")
  /\ UNCHANGED <<locks, store>>

\* if(backlager.lagercounter > 133)
Trigger(b) ==
  /\ Step(b, "trigger", "unlock")
  /\ triggerflag' = IF lagercounter > TRIGGER THEN 1 ELSE triggerflag
  /\ UNCHANGED <<locks, lagercounter, lagerfreiflag, tmp>>

\* Faulty variant: one way through the loop without the unlock.
LeaveLocked(b) ==
  /\ Step(b, "unlock", "test")
  /\ IF lagercounter < MAX_SIZE_LAGER THEN Unlock(mutex) ELSE UNCHANGED owner
  /\ UNCHANGED <<waiting, store>>

\* pthread_mutex_unlock, also by a baker that does not hold the mutex: the
\* library then frees it for whoever waits, over the head of its owner.
Leave(b) ==
  /\ Step(b, "unlock", "test")
  /\ Unlock(mutex)
  /\ UNCHANGED <<waiting, store>>

Baker(b) ==
  \/ Test(b) \/ Enter(b) \/ Check(b) \/ BakeRead(b) \/ BakeWrite(b)
  \/ FullTrigger(b) \/ FullStop(b) \/ Trigger(b) \/ Leave(b)

-----------------------------------------------------------------------------
\* deliverBread: it returns after the first delivery.
DeliverLock ==
  /\ Step(deliverer, "lock", "wait")
  /\ Lock(deliverer, mutex2)
  /\ UNCHANGED <<waiting, store>>

DeliverSleep ==
  /\ Step(deliverer, "wait", "wake")
  /\ CondSleep(deliverer, condition, mutex2)
  /\ UNCHANGED store

DeliverWake ==
  /\ Step(deliverer, "wake", "empty")
  /\ CondReturn(deliverer, condition, mutex2)
  /\ UNCHANGED store

\* No baker's lock is held here.
DeliverEmpty ==
  /\ Step(deliverer, "empty", "free")
  /\ lagercounter' = 0
  /\ UNCHANGED <<locks, triggerflag, lagerfreiflag, tmp>>

DeliverFree ==
  /\ Step(deliverer, "free", "unlock")
  /\ lagerfreiflag' = 0
  /\ UNCHANGED <<locks, lagercounter, triggerflag, tmp>>

DeliverUnlock ==
  /\ Step(deliverer, "unlock", "done")
  /\ Unlock(mutex2)
  /\ UNCHANGED <<waiting, store>>

Deliverer ==
  DeliverLock \/ DeliverSleep \/ DeliverWake \/ DeliverEmpty \/ DeliverFree \/ DeliverUnlock

\* signaling_thread; the test is made without the lock.
SignalerLock ==
  /\ triggerflag = 1
  /\ Step(signaler, "lock", "locking")
  /\ UNCHANGED <<locks, store>>

SignalerEnter ==
  /\ Step(signaler, "locking", "signal")
  /\ Lock(signaler, mutex2)
  /\ UNCHANGED <<waiting, store>>

SignalerSignal ==
  /\ Step(signaler, "signal", "reset")
  /\ Signal(condition)
  /\ UNCHANGED <<owner, store>>

SignalerReset ==
  /\ Step(signaler, "reset", "unlock")
  /\ triggerflag' = 0
  /\ UNCHANGED <<locks, lagercounter, lagerfreiflag, tmp>>

SignalerUnlock ==
  /\ Step(signaler, "unlock", "lock")
  /\ Unlock(mutex2)
  /\ UNCHANGED <<waiting, store>>

Signaler == SignalerLock \/ SignalerEnter \/ SignalerSignal \/ SignalerReset \/ SignalerUnlock

Next ==
  \/ \E b \in Bakers : Baker(b)
  \/ Deliverer
  \/ Signaler
  \/ SpuriousWakeup(condition) /\ UNCHANGED store

Spec == Init /\ [][Next]_vars

\* Every thread that can go on does so in the end.
FairSpec ==
  /\ Spec
  /\ \A b \in Bakers : WF_vars(Baker(b))
  /\ WF_vars(Deliverer) /\ WF_vars(Signaler)

-----------------------------------------------------------------------------
Labels == {"test", "lock", "check", "read", "write", "full", "stop", "trigger", "unlock",
           "wait", "wake", "empty", "free", "locking", "signal", "reset", "done"}

\* Every variable stays in its type.
TypeOK ==
  /\ pc \in [Threads -> Labels]
  /\ owner \in [Mutexes -> Threads \cup {Nobody}]
  /\ waiting \in [Conds -> SUBSET {deliverer}]
  /\ nest = [t \in Threads |-> <<>>]
  /\ lagercounter \in Nat
  /\ triggerflag \in 0 .. 1 /\ lagerfreiflag \in 0 .. 1
  /\ tmp \in [Bakers -> Nat]

Delivered == pc[deliverer] \in {"free", "unlock", "done"}

\* Up to the first delivery nobody bakes past the limit, although a baker that
\* sees the stop flag frees the mutex over the head of its owner.  (Afterwards
\* two bakers may be inside, and with them the limit falls.)
StoreBound == ~Delivered => lagercounter <= MAX_SIZE_LAGER

\* A deliverer that waits while the bakers have not all stopped, or while the
\* trigger is set, gets its signal: neither the reset of the trigger nor the
\* late stop of a baker makes it miss the delivery.
Expecting == deliverer \in waiting[condition] /\ (lagerfreiflag = 0 \/ triggerflag = 1)
DeliveryComes == Expecting ~> Delivered

\* No baker waits for the mutex for ever.
BakersGoOn == \A b \in Bakers : pc[b] = "lock" ~> pc[b] # "lock"

=============================================================================
