---------------------------- MODULE BakeryProofs ----------------------------
(***************************************************************************)
(* For any number of bakers, shutdown signals and any capacity, whichever  *)
(* thread the kernel interrupts and however handlers overlap: the store of *)
(* Bakery/main.c stays within its bounds, because storage.mutex is held by *)
(* at most one context, so that no count that was read can become stale.   *)
(***************************************************************************)
EXTENDS Bakery, SequenceTheorems, TLAPS

\* Initially nobody holds a mutex and the store is empty.
LEMMA InitIInv == Init => IInv
<1> SUFFICES ASSUME Init PROVE IInv
  OBVIOUS
<1> USE PthreadsAssumption, BakeryAssumption
    DEF Init, PthreadsInit, Labels, LabelsOf, BakerLabels, SupplierLabels,
        MainLabels, AlarmLabels, ShutdownLabels, Contexts
<1>1. TypeOK
  <2>1. pc \in [Contexts -> Labels] /\ \A c \in Contexts : pc[c] \in LabelsOf(c)
    OBVIOUS
  <2>2. owner \in [Mutexes -> Contexts \cup {Nobody}] /\ waiting \in [Conds -> SUBSET Contexts]
    OBVIOUS
  <2>3. nest \in [Threads -> Seq(Handlers)]
    OBVIOUS
  <2>4. resetHand \in BOOLEAN
    OBVIOUS
  <2>5. count \in Int /\ supplierInformed \in {0, 1} /\ shutdownFlag \in {0, 1}
    OBVIOUS
  <2>6. sample \in 0 .. QUALITY_COUNT
    OBVIOUS
  <2>7. alarmSet \in BOOLEAN
    OBVIOUS
  <2> HIDE DEF Init, PthreadsInit, Labels, Contexts
  <2> QED
    BY <2>1, <2>2, <2>3, <2>4, <2>5, <2>6, <2>7 DEF TypeOK
<1>2. StorageBound
  BY DEF StorageBound
<1>3. NoStaleCount /\ StorageExclusive
  BY DEF NoStaleCount, StorageExclusive, StorageHolding
<1> QED
  BY <1>1, <1>2, <1>3 DEF IInv

-----------------------------------------------------------------------------
\* bakingBread: the baker adds a loaf only when it has room, and holds storage.mutex
\* from the test to the addition.
LEMMA BakerPreserves ==
  ASSUME IInv, NEW b \in Bakers, Baker(b)
  PROVE  IInv'
<1> USE PthreadsAssumption, BakeryAssumption
    DEF IInv, TypeOK, StorageBound, NoStaleCount, StorageExclusive, StorageHolding,
        Labels, LabelsOf, BakerLabels, SupplierLabels, MainLabels, AlarmLabels,
        ShutdownLabels, Contexts, data
<1>1. CASE BakerLoop(b)
  BY <1>1 DEF BakerLoop, Step
<1>2. CASE BakerLock(b)
  BY <1>2 DEF BakerLock, Step, Lock
<1>3. CASE BakerCheck(b)
  BY <1>3 DEF BakerCheck, Step
<1>4. CASE BakerAdd(b)
  BY <1>4 DEF BakerAdd, Step
<1>5. CASE BakerAsk(b)
  BY <1>5 DEF BakerAsk, Step
<1>6. CASE BakerCallLock(b)
  BY <1>6 DEF BakerCallLock, Step, Lock
<1>7. CASE BakerCall(b)
  BY <1>7 DEF BakerCall, Step, Unlock, Signal
<1>8. CASE BakerCalled(b)
  BY <1>8 DEF BakerCalled, Step
<1>9. CASE BakerUnlock(b)
  BY <1>9 DEF BakerUnlock, Step, Unlock
<1>10. CASE BakerFull(b)
  BY <1>10 DEF BakerFull, Step, Unlock
<1>11. CASE BakerWaitLock(b)
  BY <1>11 DEF BakerWaitLock, Step, Lock
<1>12. CASE BakerWait(b)
  BY <1>12 DEF BakerWait, Step, CondSleep, Unlock
<1>13. CASE BakerWake(b)
  BY <1>13 DEF BakerWake, Step, CondReturn, Lock
<1>14. CASE BakerAwake(b)
  BY <1>14 DEF BakerAwake, Step, Unlock
<1> QED
  BY <1>1, <1>2, <1>3, <1>4, <1>5, <1>6, <1>7, <1>8, <1>9, <1>10, <1>11, <1>12,
     <1>13, <1>14
  DEF Baker

\* deliverBread: emptying the store under storage.mutex makes nobody's count stale.
LEMMA DeliverPreserves ==
  ASSUME IInv, DeliverBread
  PROVE  IInv'
<1> USE PthreadsAssumption, BakeryAssumption
    DEF IInv, TypeOK, StorageBound, NoStaleCount, StorageExclusive, StorageHolding,
        Labels, LabelsOf, BakerLabels, SupplierLabels, MainLabels, AlarmLabels,
        ShutdownLabels, Contexts, data
<1>1. CASE DeliverLoop
  BY <1>1 DEF DeliverLoop, Step
<1>2. CASE DeliverLock
  BY <1>2 DEF DeliverLock, Step, Lock
<1>3. CASE DeliverWait
  BY <1>3 DEF DeliverWait, Step, CondSleep, Unlock
<1>4. CASE DeliverWake
  BY <1>4 DEF DeliverWake, Step, CondReturn, Lock
<1>5. CASE DeliverAwake
  BY <1>5 DEF DeliverAwake, Step, Unlock
<1>6. CASE DeliverCalled
  BY <1>6 DEF DeliverCalled, Step
<1>7. CASE DeliverTake
  BY <1>7 DEF DeliverTake, Step, Lock
<1>8. CASE DeliverEmpty
  BY <1>8 DEF DeliverEmpty, Step, Unlock
<1>9. CASE DeliverReset
  BY <1>9 DEF DeliverReset, Step
<1>10. CASE DeliverWakeLock
  BY <1>10 DEF DeliverWakeLock, Step, Lock
<1>11. CASE DeliverWakeAll
  BY <1>11 DEF DeliverWakeAll, Step, Unlock, Broadcast
<1> QED
  BY <1>1, <1>2, <1>3, <1>4, <1>5, <1>6, <1>7, <1>8, <1>9, <1>10, <1>11 DEF DeliverBread

\* qualityCheck: the sample is what was read under storage.mutex.
LEMMA QualityPreserves ==
  ASSUME IInv, QualityCheck
  PROVE  IInv'
<1> USE PthreadsAssumption, BakeryAssumption
    DEF IInv, TypeOK, StorageBound, NoStaleCount, StorageExclusive, StorageHolding,
        Labels, LabelsOf, BakerLabels, SupplierLabels, MainLabels, AlarmLabels,
        ShutdownLabels, Contexts, data
<1>1. CASE QualityLock
  BY <1>1 DEF QualityLock, Step, Lock
<1>2. CASE QualityRead
  BY <1>2 DEF QualityRead, Step
<1>3. CASE QualityTake
  BY <1>3 DEF QualityTake, Step, Unlock
<1>4. CASE QualityWakeLock
  BY <1>4 DEF QualityWakeLock, Step, Lock
<1>5. CASE QualityWakeAll
  BY <1>5 DEF QualityWakeAll, Step, Unlock, Broadcast
<1>6. CASE QualityAlarm
  BY <1>6 DEF QualityAlarm, Return
<1> QED
  BY <1>1, <1>2, <1>3, <1>4, <1>5, <1>6 DEF QualityCheck

\* graceful_shutdown does not touch the store.
LEMMA ShutdownPreserves ==
  ASSUME IInv, NEW h \in Shutdowns, GracefulShutdown(h)
  PROVE  IInv'
<1> USE PthreadsAssumption, BakeryAssumption
    DEF IInv, TypeOK, StorageBound, NoStaleCount, StorageExclusive, StorageHolding,
        Labels, LabelsOf, BakerLabels, SupplierLabels, MainLabels, AlarmLabels,
        ShutdownLabels, Contexts, data
<1>1. CASE ShutdownFlag(h)
  BY <1>1 DEF ShutdownFlag, Step
<1>2. CASE ShutdownBakingLock(h)
  BY <1>2 DEF ShutdownBakingLock, Step, Lock
<1>3. CASE ShutdownBakers(h)
  BY <1>3 DEF ShutdownBakers, Step, Unlock, Broadcast
<1>4. CASE ShutdownSupplierLock(h)
  BY <1>4 DEF ShutdownSupplierLock, Step, Lock
<1>5. CASE ShutdownSupplier(h)
  BY <1>5 DEF ShutdownSupplier, Unlock, Broadcast, Return
<1> QED
  BY <1>1, <1>2, <1>3, <1>4, <1>5 DEF GracefulShutdown

\* main, the kernel and the library change no loaf and give nobody the mutex.
LEMMA SystemPreserves ==
  ASSUME IInv,
         \/ MainThread
         \/ \E t \in Threads : AlarmExpires(t)
         \/ \E h \in Shutdowns, t \in Threads : ShutdownArrives(h, t)
         \/ AlarmKills
         \/ Wakeup
  PROVE  IInv'
<1> USE PthreadsAssumption, BakeryAssumption
    DEF IInv, TypeOK, StorageBound, NoStaleCount, StorageExclusive, StorageHolding,
        Labels, LabelsOf, BakerLabels, SupplierLabels, MainLabels, AlarmLabels,
        ShutdownLabels, Contexts, data
<1>1. CASE MainThread
  <2>1. CASE MainAlarm
    BY <2>1 DEF MainAlarm, Step
  <2>2. CASE MainJoin
    BY <2>2 DEF MainJoin, Step
  <2> QED
    BY <1>1, <2>1, <2>2 DEF MainThread
<1>2. CASE \E t \in Threads : AlarmExpires(t)
  <2>1. PICK t \in Threads : AlarmExpires(t)
    BY <1>2
  <2>2. <<Alarm>> \o nest[t] \in Seq(Handlers)
    OBVIOUS
  <2> QED
    BY <2>1, <2>2 DEF AlarmExpires, Deliver
<1>3. CASE \E h \in Shutdowns, t \in Threads : ShutdownArrives(h, t)
  <2>1. PICK h \in Shutdowns, t \in Threads : ShutdownArrives(h, t)
    BY <1>3
  <2>2. <<h>> \o nest[t] \in Seq(Handlers)
    OBVIOUS
  <2> QED
    BY <2>1, <2>2 DEF ShutdownArrives, Deliver
<1>4. CASE AlarmKills
  BY <1>4 DEF AlarmKills
<1>5. CASE Wakeup
  BY <1>5 DEF Wakeup, SpuriousWakeup
<1> QED
  BY <1>1, <1>2, <1>3, <1>4, <1>5

-----------------------------------------------------------------------------
\* The invariant holds in every reachable state.
THEOREM Inductive == Spec => []IInv
<1>1. IInv /\ [Next]_vars => IInv'
  <2> SUFFICES ASSUME IInv, [Next]_vars PROVE IInv'
    OBVIOUS
  <2>1. CASE UNCHANGED vars
    BY <2>1
    DEF vars, pthreadVars, data, IInv, TypeOK, StorageBound, NoStaleCount,
        StorageExclusive
  <2>2. CASE Next
    BY <2>2, BakerPreserves, DeliverPreserves, QualityPreserves,
       ShutdownPreserves, SystemPreserves
    DEF Next
  <2> QED
    BY <2>1, <2>2
<1> QED
  BY InitIInv, <1>1, PTL DEF Spec

\* Every context stays inside its function and every variable in its type.
THEOREM TypeCorrect == Spec => []TypeOK
  BY Inductive, PTL DEF IInv

\* The store never overflows, and a sample never takes loaves that are gone.
THEOREM StorageSafe == Spec => [](StorageBound /\ NoStaleCount)
  BY Inductive, PTL DEF IInv

\* At most one context is between locking and unlocking storage.mutex.
THEOREM StorageMutex == Spec => []StorageExclusive
  BY Inductive, PTL DEF IInv

-----------------------------------------------------------------------------
(* What can close a circle of waiting: only a handler that interrupts a     *)
(* context in possession of a mutex.                                        *)

\* Where each mutex is held.
Holders ==
  [m \in Mutexes |->
     IF m = "storage" THEN StorageHolding
     ELSE IF m = "supplier"
       THEN {"baker_call", "supplier_wait", "supplier_awake", "shutdown_supplier"}
     ELSE {"baker_wait", "baker_awake", "supplier_wakeall", "quality_wakeall",
           "shutdown_bakers"}]

\* Whoever owns a mutex is where that mutex is held (or has been killed there).
OwnersHold ==
  \A m \in Mutexes, c \in Contexts :
    owner[m] = c => c # Main /\ pc[c] \in Holders[m] \cup {"killed"}

\* The handlers that may be stacked on a thread: qualityCheck and one shutdown.
Stacks ==
  {<<>>} \cup {<<h>> : h \in Handlers}
  \cup {<<Alarm, h>> : h \in Shutdowns} \cup {<<h, Alarm>> : h \in Shutdowns}

RunsOn(h, t) ==
  nest[t] = <<h>> \/ \E g \in Handlers : nest[t] = <<g, h>> \/ nest[t] = <<h, g>>

\* The labels of a handler that does not run.
Quiet == {"idle", "spent", "default"}

\* A handler runs on one thread at a time, and once.
Stacked ==
  /\ nest \in [Threads -> Stacks]
  /\ \A h \in Handlers, t \in Threads :
       RunsOn(h, t) => /\ pc[h] \notin Quiet
                       /\ \A u \in Threads : RunsOn(h, u) => u = t

LEMMA InitLocks == Init => OwnersHold /\ Stacked
<1> SUFFICES ASSUME Init PROVE OwnersHold /\ Stacked
  OBVIOUS
<1>1. /\ \A m \in Mutexes : owner[m] = Nobody
      /\ \A t \in Threads : nest[t] = <<>>
      /\ nest = [t \in Threads |-> <<>>]
  BY DEF Init, PthreadsInit
<1>2. OwnersHold
  BY <1>1, PthreadsAssumption DEF OwnersHold, Contexts
<1>3. Stacked
  BY <1>1 DEF Stacked, Stacks, RunsOn
<1> QED
  BY <1>2, <1>3

\* The baker locks supplier_mutex with storage.mutex in hand, and no other mutex with
\* any in hand.
LEMMA BakerOwners ==
  ASSUME IInv, OwnersHold, NEW b \in Bakers, Baker(b)
  PROVE  OwnersHold' /\ UNCHANGED nest /\ \A h \in Handlers : pc'[h] = pc[h]
<1>1. /\ UNCHANGED nest
      /\ \E to \in BakerLabels : pc' = [pc EXCEPT ![b] = to]
  BY DEF Baker, BakerLoop, BakerLock, BakerCheck, BakerAdd, BakerAsk, BakerCallLock, BakerCall,
     BakerCalled, BakerUnlock, BakerFull, BakerWaitLock, BakerWait, BakerWake, BakerAwake,
     Step, BakerLabels
<1>2. \A h \in Handlers : pc'[h] = pc[h]
  BY <1>1, PthreadsAssumption, BakeryAssumption DEF IInv, TypeOK, Contexts
<1>3. OwnersHold'
  <2> USE PthreadsAssumption, BakeryAssumption
      DEF IInv, TypeOK, OwnersHold, Holders, StorageHolding, Contexts
  <2>1. CASE BakerLoop(b)
    BY <2>1 DEF BakerLoop, Step
  <2>2. CASE BakerLock(b)
    BY <2>2 DEF BakerLock, Step, Lock
  <2>3. CASE BakerCheck(b)
    BY <2>3 DEF BakerCheck, Step
  <2>4. CASE BakerAdd(b)
    BY <2>4 DEF BakerAdd, Step
  <2>5. CASE BakerAsk(b)
    BY <2>5 DEF BakerAsk, Step
  <2>6. CASE BakerCallLock(b)
    BY <2>6 DEF BakerCallLock, Step, Lock
  <2>7. CASE BakerCall(b)
    BY <2>7 DEF BakerCall, Step, Unlock
  <2>8. CASE BakerCalled(b)
    BY <2>8 DEF BakerCalled, Step
  <2>9. CASE BakerUnlock(b)
    BY <2>9 DEF BakerUnlock, Step, Unlock
  <2>10. CASE BakerFull(b)
    BY <2>10 DEF BakerFull, Step, Unlock
  <2>11. CASE BakerWaitLock(b)
    BY <2>11 DEF BakerWaitLock, Step, Lock
  <2>12. CASE BakerWait(b)
    BY <2>12 DEF BakerWait, Step, CondSleep, Unlock
  <2>13. CASE BakerWake(b)
    BY <2>13 DEF BakerWake, Step, CondReturn, Lock
  <2>14. CASE BakerAwake(b)
    BY <2>14 DEF BakerAwake, Step, Unlock
  <2> QED
    BY <2>1, <2>2, <2>3, <2>4, <2>5, <2>6, <2>7, <2>8, <2>9, <2>10, <2>11, <2>12,
       <2>13, <2>14
    DEF Baker
<1> QED
  BY <1>1, <1>2, <1>3

\* The supplier never has two mutexes.
LEMMA DeliverOwners ==
  ASSUME IInv, OwnersHold, DeliverBread
  PROVE  OwnersHold' /\ UNCHANGED nest /\ \A h \in Handlers : pc'[h] = pc[h]
<1>1. /\ UNCHANGED nest
      /\ \E to \in SupplierLabels : pc' = [pc EXCEPT ![Supplier] = to]
  BY DEF DeliverBread, DeliverLoop, DeliverLock, DeliverWait, DeliverWake, DeliverAwake,
     DeliverCalled, DeliverTake, DeliverEmpty, DeliverReset, DeliverWakeLock, DeliverWakeAll,
     Step, SupplierLabels
<1>2. \A h \in Handlers : pc'[h] = pc[h]
  BY <1>1, PthreadsAssumption, BakeryAssumption DEF IInv, TypeOK, Contexts
<1>3. OwnersHold'
  <2> USE PthreadsAssumption, BakeryAssumption
      DEF IInv, TypeOK, OwnersHold, Holders, StorageHolding, Contexts
  <2>1. CASE DeliverLoop
    BY <2>1 DEF DeliverLoop, Step
  <2>2. CASE DeliverLock
    BY <2>2 DEF DeliverLock, Step, Lock
  <2>3. CASE DeliverWait
    BY <2>3 DEF DeliverWait, Step, CondSleep, Unlock
  <2>4. CASE DeliverWake
    BY <2>4 DEF DeliverWake, Step, CondReturn, Lock
  <2>5. CASE DeliverAwake
    BY <2>5 DEF DeliverAwake, Step, Unlock
  <2>6. CASE DeliverCalled
    BY <2>6 DEF DeliverCalled, Step
  <2>7. CASE DeliverTake
    BY <2>7 DEF DeliverTake, Step, Lock
  <2>8. CASE DeliverEmpty
    BY <2>8 DEF DeliverEmpty, Step, Unlock
  <2>9. CASE DeliverReset
    BY <2>9 DEF DeliverReset, Step
  <2>10. CASE DeliverWakeLock
    BY <2>10 DEF DeliverWakeLock, Step, Lock
  <2>11. CASE DeliverWakeAll
    BY <2>11 DEF DeliverWakeAll, Step, Unlock
  <2> QED
    BY <2>1, <2>2, <2>3, <2>4, <2>5, <2>6, <2>7, <2>8, <2>9, <2>10, <2>11 DEF DeliverBread
<1> QED
  BY <1>1, <1>2, <1>3

\* What delivering to a stack and returning from it make of it.
LEMMA StackOps ==
  ASSUME NEW h \in Handlers, NEW g \in Handlers
  PROVE  /\ <<h>> \o <<>> = <<h>> /\ <<h>> \o <<g>> = <<h, g>>
         /\ <<h>> # <<>> /\ <<h, g>> # <<>>
         /\ Head(<<h>>) = h /\ Tail(<<h>>) = <<>>
         /\ Head(<<h, g>>) = h /\ Tail(<<h, g>>) = <<g>>
<1>1. <<h>> \o <<>> = <<h>>
  OBVIOUS
<1>2. <<h>> \o <<g>> = <<h, g>>
  <2>1. Len(<<h>> \o <<g>>) = 2 /\ (<<h>> \o <<g>>)[1] = h /\ (<<h>> \o <<g>>)[2] = g
    OBVIOUS
  <2>2. <<h>> \o <<g>> \in Seq(Handlers) /\ <<h, g>> \in Seq(Handlers) /\ Len(<<h, g>>) = 2
    OBVIOUS
  <2>3. \A i \in 1 .. 2 : (<<h>> \o <<g>>)[i] = <<h, g>>[i]
    BY <2>1
  <2> QED
    BY <2>1, <2>2, <2>3, SeqEqual
<1>3. <<h>> # <<>> /\ <<h, g>> # <<>>
  OBVIOUS
<1>4. Head(<<h>>) = h /\ Head(<<h, g>>) = h
  OBVIOUS
<1>5. Tail(<<h>>) = <<>>
  OBVIOUS
<1>6. Tail(<<h, g>>) = <<g>>
  OBVIOUS
<1> QED
  BY <1>1, <1>2, <1>3, <1>4, <1>5, <1>6

\* A step that leaves the stacks alone and ends no handler.
LEMMA SameStacks ==
  ASSUME Stacked, UNCHANGED nest,
         \A h \in Handlers : pc'[h] \in Quiet => pc[h] \in Quiet
  PROVE  Stacked'
  BY DEF Stacked, RunsOn

\* A handler that does not run starts on top of a stack that has none of its kind.
LEMMA DeliverStacks ==
  ASSUME IInv, Stacked, NEW h \in Handlers, NEW t \in Threads, NEW start \in Labels \ Quiet,
         Deliver(h, t, start), h # Alarm => ~Handling(t, Shutdowns)
  PROVE  Stacked'
<1>1. /\ pc[h] \in Quiet /\ nest \in [Threads -> Stacks]
      /\ nest' = [nest EXCEPT ![t] = <<h>> \o @]
  BY DEF Deliver, Quiet, Stacked
<1>2. \A u \in Threads : ~RunsOn(h, u)
  BY <1>1 DEF Stacked
<1>3. /\ pc'[h] \notin Quiet
      /\ \A g \in Handlers \ {h} : pc'[g] = pc[g]
  BY DEF Deliver, IInv, TypeOK, Contexts
<1>4. nest'[t] = <<h>> \o nest[t] /\ \A u \in Threads \ {t} : nest'[u] = nest[u]
  BY <1>1
<1>5. \/ nest[t] = <<>> /\ nest'[t] = <<h>>
      \/ \E g \in Handlers : /\ nest[t] = <<g>> /\ nest'[t] = <<h, g>>
                             /\ \/ h = Alarm /\ g \in Shutdowns
                                \/ g = Alarm /\ h \in Shutdowns
  <2>1. CASE nest[t] = <<>>
    BY <1>4, <2>1, StackOps
  <2>2. CASE \E g \in Handlers : nest[t] = <<g>>
    <3>1. PICK g \in Handlers : nest[t] = <<g>>
      BY <2>2
    <3>2. g # h
      BY <1>2, <3>1 DEF RunsOn
    <3>3. h # Alarm => g \notin Shutdowns
      BY <3>1 DEF Handling
    <3> QED
      BY <1>4, <3>1, <3>2, <3>3, StackOps, BakeryAssumption
  <2>3. CASE \E g \in Shutdowns : nest[t] \in {<<Alarm, g>>, <<g, Alarm>>}
    <3>1. PICK g \in Shutdowns : nest[t] \in {<<Alarm, g>>, <<g, Alarm>>}
      BY <2>3
    <3>2. h # Alarm
      BY <1>2, <3>1, BakeryAssumption DEF RunsOn
    <3>3. Handling(t, Shutdowns)
      <4>1. CASE nest[t] = <<Alarm, g>>
        BY <4>1 DEF Handling
      <4>2. CASE nest[t] = <<g, Alarm>>
        BY <4>2 DEF Handling
      <4> QED
        BY <3>1, <4>1, <4>2
    <3> QED
      BY <3>2, <3>3
  <2> QED
    BY <1>1, <2>1, <2>2, <2>3 DEF Stacks
<1>6. nest'[t] \in Stacks
  BY <1>5 DEF Stacks
<1>7. nest' \in [Threads -> Stacks]
  BY <1>1, <1>4, <1>6
<1>8. ASSUME NEW g \in Handlers, NEW u \in Threads, RunsOn(g, u)'
      PROVE  (g = h /\ u = t) \/ (g # h /\ RunsOn(g, u))
  <2>1. CASE u # t
    BY <1>2, <1>4, <1>8, <2>1 DEF RunsOn
  <2>2. CASE u = t
    BY <1>5, <1>8, <2>2 DEF RunsOn
  <2> QED
    BY <2>1, <2>2
<1>9. \A g \in Handlers, u \in Threads : (g = h /\ u = t) => ~RunsOn(g, u)
  BY <1>2
<1>10. ASSUME NEW g \in Handlers, NEW u \in Threads, RunsOn(g, u)'
       PROVE  /\ pc'[g] \notin Quiet
              /\ \A v \in Threads : RunsOn(g, v)' => v = u
  BY <1>3, <1>8, <1>10 DEF Stacked
<1> QED
  BY <1>7, <1>10 DEF Stacked

\* A handler that returns is gone from its stack and from all others.
LEMMA ReturnStacks ==
  ASSUME IInv, Stacked, NEW h \in Handlers, NEW to, Return(h, to)
  PROVE  Stacked'
<1>1. PICK t \in Threads : /\ nest[t] # <<>> /\ Head(nest[t]) = h
                           /\ nest' = [nest EXCEPT ![t] = Tail(@)]
  BY DEF Return
<1>2. nest \in [Threads -> Stacks]
  BY DEF Stacked
<1>3. nest'[t] = Tail(nest[t]) /\ \A u \in Threads \ {t} : nest'[u] = nest[u]
  BY <1>1, <1>2
<1>4. \/ nest[t] = <<h>> /\ nest'[t] = <<>>
      \/ \E g \in Handlers : g # h /\ nest[t] = <<h, g>> /\ nest'[t] = <<g>>
  <2>1. CASE \E g \in Handlers : nest[t] = <<g>>
    BY <1>1, <1>3, <2>1, StackOps
  <2>2. CASE \E g \in Shutdowns : nest[t] \in {<<Alarm, g>>, <<g, Alarm>>}
    <3>1. PICK g \in Shutdowns : nest[t] \in {<<Alarm, g>>, <<g, Alarm>>}
      BY <2>2
    <3>2. CASE nest[t] = <<Alarm, g>>
      BY <1>1, <1>3, <3>2, StackOps, BakeryAssumption
    <3>3. CASE nest[t] = <<g, Alarm>>
      BY <1>1, <1>3, <3>3, StackOps, BakeryAssumption
    <3> QED
      BY <3>1, <3>2, <3>3
  <2> QED
    BY <1>1, <1>2, <2>1, <2>2 DEF Stacks
<1>5. RunsOn(h, t) /\ \A u \in Threads : RunsOn(h, u) => u = t
  BY <1>4 DEF RunsOn, Stacked
<1>6. \A g \in Handlers \ {h} : pc'[g] = pc[g]
  BY DEF Return, IInv, TypeOK, Contexts
<1>7. nest' \in [Threads -> Stacks]
  BY <1>1, <1>2, <1>3, <1>4 DEF Stacks
<1>8. ASSUME NEW g \in Handlers, NEW u \in Threads, RunsOn(g, u)'
      PROVE  g # h /\ RunsOn(g, u)
  <2>1. CASE u # t
    BY <1>3, <1>5, <1>8, <2>1 DEF RunsOn
  <2>2. CASE u = t
    BY <1>4, <1>8, <2>2 DEF RunsOn
  <2> QED
    BY <2>1, <2>2
<1>9. ASSUME NEW g \in Handlers, NEW u \in Threads, RunsOn(g, u)'
      PROVE  /\ pc'[g] \notin Quiet
             /\ \A v \in Threads : RunsOn(g, v)' => v = u
  BY <1>6, <1>8, <1>9 DEF Stacked
<1> QED
  BY <1>7, <1>9 DEF Stacked

\* A handler has no two mutexes, and none when it returns.
LEMMA QualityOwners ==
  ASSUME IInv, OwnersHold, Stacked, QualityCheck
  PROVE  OwnersHold' /\ Stacked'
<1> USE PthreadsAssumption, BakeryAssumption
<1>1. OwnersHold'
  <2> USE DEF IInv, TypeOK, OwnersHold, Holders, StorageHolding, Contexts
  <2>1. CASE QualityLock
    BY <2>1 DEF QualityLock, Step, Lock
  <2>2. CASE QualityRead
    BY <2>2 DEF QualityRead, Step
  <2>3. CASE QualityTake
    BY <2>3 DEF QualityTake, Step, Unlock
  <2>4. CASE QualityWakeLock
    BY <2>4 DEF QualityWakeLock, Step, Lock
  <2>5. CASE QualityWakeAll
    BY <2>5 DEF QualityWakeAll, Step, Unlock
  <2>6. CASE QualityAlarm
    BY <2>6 DEF QualityAlarm, Return
  <2> QED
    BY <2>1, <2>2, <2>3, <2>4, <2>5, <2>6 DEF QualityCheck
<1>2. CASE QualityAlarm
  BY <1>1, <1>2, ReturnStacks DEF QualityAlarm
<1>3. CASE ~QualityAlarm
  <2>1. UNCHANGED nest /\ \A h \in Handlers : pc'[h] \in Quiet => pc[h] \in Quiet
    BY <1>3
    DEF QualityCheck, QualityLock, QualityRead, QualityTake, QualityWakeLock, QualityWakeAll,
        Step, Quiet, IInv, TypeOK, Contexts
  <2> QED
    BY <1>1, <2>1, SameStacks
<1> QED
  BY <1>2, <1>3

LEMMA ShutdownOwners ==
  ASSUME IInv, OwnersHold, Stacked, NEW h \in Shutdowns, GracefulShutdown(h)
  PROVE  OwnersHold' /\ Stacked'
<1> USE PthreadsAssumption, BakeryAssumption
<1>1. OwnersHold'
  <2> USE DEF IInv, TypeOK, OwnersHold, Holders, StorageHolding, Contexts
  <2>1. CASE ShutdownFlag(h)
    BY <2>1 DEF ShutdownFlag, Step
  <2>2. CASE ShutdownBakingLock(h)
    BY <2>2 DEF ShutdownBakingLock, Step, Lock
  <2>3. CASE ShutdownBakers(h)
    BY <2>3 DEF ShutdownBakers, Step, Unlock
  <2>4. CASE ShutdownSupplierLock(h)
    BY <2>4 DEF ShutdownSupplierLock, Step, Lock
  <2>5. CASE ShutdownSupplier(h)
    BY <2>5 DEF ShutdownSupplier, Return, Unlock
  <2> QED
    BY <2>1, <2>2, <2>3, <2>4, <2>5 DEF GracefulShutdown
<1>2. CASE ShutdownSupplier(h)
  BY <1>1, <1>2, ReturnStacks DEF ShutdownSupplier
<1>3. CASE ~ShutdownSupplier(h)
  <2>1. UNCHANGED nest /\ \A g \in Handlers : pc'[g] \in Quiet => pc[g] \in Quiet
    BY <1>3
    DEF GracefulShutdown, ShutdownFlag, ShutdownBakingLock, ShutdownBakers,
        ShutdownSupplierLock, Step, Quiet, IInv, TypeOK, Contexts
  <2> QED
    BY <1>1, <2>1, SameStacks
<1> QED
  BY <1>2, <1>3

\* main has no mutex, and a signal gives none to the handler that it starts.
LEMMA SystemOwners ==
  ASSUME IInv, OwnersHold, Stacked,
         \/ MainThread
         \/ \E t \in Threads : AlarmExpires(t)
         \/ \E h \in Shutdowns, t \in Threads : ShutdownArrives(h, t)
         \/ AlarmKills
         \/ Wakeup
  PROVE  OwnersHold' /\ Stacked'
<1> USE PthreadsAssumption, BakeryAssumption
<1>1. CASE MainThread
  <2>1. OwnersHold'
    BY <1>1
    DEF MainThread, MainAlarm, MainJoin, Step, IInv, TypeOK, OwnersHold, Holders,
        StorageHolding, Contexts
  <2>2. UNCHANGED nest /\ \A h \in Handlers : pc'[h] = pc[h]
    BY <1>1 DEF MainThread, MainAlarm, MainJoin, Step, IInv, TypeOK, Contexts
  <2> QED
    BY <2>1, <2>2, SameStacks
<1>2. CASE \E t \in Threads : AlarmExpires(t)
  <2>1. PICK t \in Threads : AlarmExpires(t)
    BY <1>2
  <2>2. "quality_lock" \in Labels \ Quiet
    BY DEF Labels, AlarmLabels, Quiet
  <2>3. Stacked'
    BY <2>1, <2>2, DeliverStacks DEF AlarmExpires
  <2>4. OwnersHold'
    BY <2>1
    DEF AlarmExpires, Deliver, IInv, TypeOK, OwnersHold, Holders, StorageHolding, Contexts
  <2> QED
    BY <2>3, <2>4
<1>3. CASE \E h \in Shutdowns, t \in Threads : ShutdownArrives(h, t)
  <2>1. PICK h \in Shutdowns, t \in Threads : ShutdownArrives(h, t)
    BY <1>3
  <2>2. "shutdown_flag" \in Labels \ Quiet
    BY DEF Labels, ShutdownLabels, Quiet
  <2>3. Stacked'
    BY <2>1, <2>2, DeliverStacks DEF ShutdownArrives
  <2>4. OwnersHold'
    BY <2>1
    DEF ShutdownArrives, Deliver, IInv, TypeOK, OwnersHold, Holders, StorageHolding, Contexts
  <2> QED
    BY <2>3, <2>4
<1>4. CASE AlarmKills
  <2>1. UNCHANGED nest /\ \A c \in Contexts : pc'[c] = "killed"
    BY <1>4 DEF AlarmKills
  <2>2. OwnersHold'
    BY <1>4, <2>1 DEF AlarmKills, OwnersHold
  <2>3. \A h \in Handlers : pc'[h] \in Quiet => pc[h] \in Quiet
    BY <2>1 DEF Contexts, Quiet
  <2> QED
    BY <2>1, <2>2, <2>3, SameStacks
<1>5. CASE Wakeup
  <2>1. UNCHANGED <<pc, owner, nest>>
    BY <1>5 DEF Wakeup, SpuriousWakeup
  <2> QED
    BY <2>1, SameStacks DEF OwnersHold
<1> QED
  BY <1>1, <1>2, <1>3, <1>4, <1>5

LEMMA NextOwners == IInv /\ OwnersHold /\ Stacked /\ [Next]_vars => OwnersHold' /\ Stacked'
<1> SUFFICES ASSUME IInv, OwnersHold, Stacked, [Next]_vars PROVE OwnersHold' /\ Stacked'
  OBVIOUS
<1>1. CASE UNCHANGED vars
  BY <1>1, SameStacks DEF vars, pthreadVars, OwnersHold
<1>2. CASE \E b \in Bakers : Baker(b)
  BY <1>2, BakerOwners, SameStacks
<1>3. CASE DeliverBread
  BY <1>3, DeliverOwners, SameStacks
<1> QED
  BY <1>1, <1>2, <1>3, QualityOwners, ShutdownOwners, SystemOwners DEF Next

\* A handler runs on top of the thread or of the one handler that it interrupted.
LEMMA CoversCases ==
  ASSUME Stacked, NEW h, NEW c \in Contexts, Covers(h, c)
  PROVE  /\ h \in Handlers
         /\ \E t \in Threads :
              \/ c = t /\ nest[t] = <<h>>
              \/ c = t /\ \E g \in Handlers : nest[t] = <<g, h>>
              \/ c \in Handlers /\ nest[t] = <<h, c>>
<1>1. PICK t \in Threads :
        \/ c = t /\ nest[t] # <<>> /\ nest[t][Len(nest[t])] = h
        \/ \E i \in 1 .. Len(nest[t]) - 1 : nest[t][i] = h /\ nest[t][i + 1] = c
  BY DEF Covers
<1>2. nest[t] \in Stacks
  BY DEF Stacked
<1>3. CASE nest[t] = <<>>
  BY <1>1, <1>3
<1>4. CASE \E g \in Handlers : nest[t] = <<g>>
  <2>1. PICK g \in Handlers : nest[t] = <<g>>
    BY <1>4
  <2>2. Len(nest[t]) = 1 /\ nest[t][1] = g
    BY <2>1
  <2>3. ~(\E i \in 1 .. Len(nest[t]) - 1 : TRUE)
    BY <2>2
  <2>4. c = t /\ h = g
    BY <1>1, <2>2, <2>3
  <2> QED
    BY <2>1, <2>4
<1>5. CASE \E g, k \in Handlers : nest[t] = <<g, k>>
  <2>1. PICK g \in Handlers, k \in Handlers : nest[t] = <<g, k>>
    BY <1>5
  <2>2. Len(nest[t]) = 2 /\ nest[t][1] = g /\ nest[t][2] = k
    BY <2>1
  <2>3. CASE c = t /\ nest[t][Len(nest[t])] = h
    BY <2>1, <2>2, <2>3
  <2>4. CASE \E i \in 1 .. Len(nest[t]) - 1 : nest[t][i] = h /\ nest[t][i + 1] = c
    <3>1. nest[t][1] = h /\ nest[t][2] = c
      BY <2>2, <2>4
    <3> QED
      BY <2>1, <2>2, <3>1
  <2> QED
    BY <1>1, <2>3, <2>4
<1>6. nest[t] = <<>> \/ (\E g \in Handlers : nest[t] = <<g>>)
      \/ \E g, k \in Handlers : nest[t] = <<g, k>>
  BY <1>2, BakeryAssumption DEF Stacks
<1> QED
  BY <1>3, <1>4, <1>5, <1>6

\* The labels at which a mutex is locked.
LEMMA WantsWhat ==
  ASSUME NEW l \in DOMAIN wants
  PROVE  /\ wants[l] \in Mutexes
         /\ l \notin {"killed"} \cup MainLabels
         /\ l \notin Holders["supplier"] \cup Holders["baking"]
         /\ l \in Holders["storage"] => wants[l] = "supplier"
<1> USE DEF StorageWanted, SupplierWanted, BakingWanted
<1>1. /\ l \in StorageWanted \cup SupplierWanted \cup BakingWanted
      /\ wants[l] = IF l \in StorageWanted THEN "storage"
                    ELSE IF l \in SupplierWanted THEN "supplier" ELSE "baking"
  BY DEF wants
<1>2. wants[l] \in Mutexes
  BY <1>1, BakeryAssumption
<1>3. l \notin {"killed"} \cup MainLabels
  BY <1>1 DEF MainLabels
<1>4. l \notin Holders["supplier"] \cup Holders["baking"]
  BY <1>1, BakeryAssumption DEF Holders
<1>5. l \in Holders["storage"] => wants[l] = "supplier"
  BY <1>1, BakeryAssumption DEF Holders, StorageHolding
<1> QED
  BY <1>2, <1>3, <1>4, <1>5

\* If no interrupted context has a mutex, nobody waits for itself, through others or
\* not: the owner of supplier_mutex or of baking.mutex waits for nobody, the owner of
\* storage.mutex at most for supplier_mutex, and what a handler interrupted for it.
LEMMA LockOrder ==
  ASSUME IInv, OwnersHold, Stacked, InterruptedHoldNothing
  PROVE  ~Hung(wants)
<1> SUFFICES ASSUME NEW S \in SUBSET Contexts, Deadlocked(S, wants)
             PROVE  FALSE
  BY DEF Hung
<1>1. S # {} /\ \A c \in S : \E d \in S : WaitsFor(c, d, wants)
  BY DEF Deadlocked
<1> DEFINE Waits(c, d) == pc[c] \in DOMAIN wants /\ owner[wants[pc[c]]] = d
\* An owner in S is not interrupted, so it waits for a mutex itself.
<1>2. ASSUME NEW m \in Mutexes, owner[m] \in S
      PROVE  /\ pc[owner[m]] \in DOMAIN wants
             /\ \E d \in S : Waits(owner[m], d)
  <2>1. PICK d \in S : WaitsFor(owner[m], d, wants)
    BY <1>1, <1>2
  <2>2. ~Covers(d, owner[m])
    <3> SUFFICES ASSUME Covers(d, owner[m]) PROVE FALSE
      OBVIOUS
    <3>1. d \in Handlers
      BY <1>2, CoversCases
    <3> QED
      BY <1>2, <3>1 DEF InterruptedHoldNothing
  <2> QED
    BY <2>1, <2>2 DEF WaitsFor
<1>3. \A m \in {"supplier", "baking"} : owner[m] \notin S
  <2> SUFFICES ASSUME NEW m \in {"supplier", "baking"}, owner[m] \in S PROVE FALSE
    OBVIOUS
  <2>1. m \in Mutexes /\ owner[m] \in Contexts
    BY BakeryAssumption
  <2>2. pc[owner[m]] \in Holders[m] \cup {"killed"}
    BY <2>1 DEF OwnersHold
  <2> QED
    BY <1>2, <2>1, <2>2, WantsWhat
<1>4. owner["storage"] \notin S
  <2> SUFFICES ASSUME owner["storage"] \in S PROVE FALSE
    OBVIOUS
  <2>1. "storage" \in Mutexes /\ owner["storage"] \in Contexts
    BY BakeryAssumption
  <2>2. pc[owner["storage"]] \in Holders["storage"] \cup {"killed"}
    BY <2>1 DEF OwnersHold
  <2>3. PICK d \in S : Waits(owner["storage"], d)
    BY <1>2, <2>1
  <2>4. wants[pc[owner["storage"]]] = "supplier"
    BY <2>2, <2>3, WantsWhat
  <2> QED
    BY <1>3, <2>3, <2>4
<1>5. \A c, d \in S : ~Waits(c, d)
  BY <1>3, <1>4, WantsWhat, BakeryAssumption
\* So everybody in S is interrupted by somebody in S, up to the handler that runs.
<1>6. \A c \in S : \E d \in S : Covers(d, c)
  BY <1>1, <1>5 DEF WaitsFor
<1>7. ASSUME NEW h \in Handlers, NEW t \in Threads, h \in S,
             nest[t] = <<h>> \/ \E g \in Handlers : nest[t] = <<h, g>>
      PROVE  FALSE
  <2>1. PICK d \in S : Covers(d, h)
    BY <1>6, <1>7
  <2>2. PICK u \in Threads : nest[u] = <<d, h>> /\ d \in Handlers
    BY <2>1, CoversCases, PthreadsAssumption DEF Contexts
  <2>3. u = t
    BY <1>7, <2>2 DEF RunsOn, Stacked
  <2>4. d = h
    BY <1>7, <2>2, <2>3
  <2>5. <<h, h>> \in Stacks
    BY <2>2, <2>4 DEF Stacked
  <2> QED
    BY <2>5, BakeryAssumption DEF Stacks
<1>8. PICK c \in S, d \in S : Covers(d, c)
  BY <1>1, <1>6
<1>9. PICK e \in S : Covers(e, d)
  BY <1>6
<1>10. /\ d \in Handlers /\ e \in Handlers
       /\ \E t \in Threads : nest[t] = <<e, d>>
  BY <1>8, <1>9, CoversCases, PthreadsAssumption DEF Contexts
<1> QED
  BY <1>7, <1>10

\* Deadlock has one cause: only while a handler runs on top of a context that owns a
\* mutex can contexts wait for each other for ever, whichever threads are interrupted
\* and however handlers overlap (main.c:31-68, 148-206).
THEOREM DeadlockCause == Spec => []OnlyHandlersDeadlock
<1>1. IInv /\ OwnersHold /\ Stacked /\ [Next]_vars => OwnersHold' /\ Stacked'
  BY NextOwners
<1>2. IInv /\ OwnersHold /\ Stacked => OnlyHandlersDeadlock
  BY LockOrder DEF OnlyHandlersDeadlock
<1> QED
  BY Inductive, InitLocks, <1>1, <1>2, PTL DEF Spec

=============================================================================
