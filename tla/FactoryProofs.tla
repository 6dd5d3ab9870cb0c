---------------------------- MODULE FactoryProofs ---------------------------
(***************************************************************************)
(* For any number of makers, shutdown signals and any amounts bought,      *)
(* whichever thread the kernel interrupts and however handlers overlap:    *)
(* the store of Klausur/factory.c stays within its bounds and nothing in   *)
(* it is lost or made of nothing, because storage.mutex is held by at most *)
(* one context, so that what a maker has seen stays true until it acts.    *)
(* Contexts wait for each other for ever only while a handler runs on top  *)
(* of the owner of a mutex.                                                *)
(***************************************************************************)
EXTENDS Factory, FiniteSetTheorems, SequenceTheorems, TLAPS

\* Initially nobody holds a mutex, and what the store has is what there was.
LEMMA InitIInv == Init => IInv /\ Conservation
<1> SUFFICES ASSUME Init PROVE IInv /\ Conservation
  OBVIOUS
<1> USE PthreadsAssumption, FactoryAssumption
    DEF Init, PthreadsInit, Labels, LabelsOf, MakerLabels, ManagerLabels,
        MainLabels, AlarmLabels, ShutdownLabels, Contexts
<1>1. TypeOK
  <2>1. pc \in [Contexts -> Labels] /\ \A c \in Contexts : pc[c] \in LabelsOf(c)
    OBVIOUS
  <2>2. owner \in [Mutexes -> Contexts \cup {Nobody}] /\ waiting \in [Conds -> SUBSET Contexts]
    OBVIOUS
  <2>3. nest \in [Threads -> Seq(Handlers)]
    OBVIOUS
  <2>4. kerzen \in Int /\ wachs \in Int /\ docht \in Int
    OBVIOUS
  <2>5. supplierInformed \in {0, 1} /\ shutdownFlag \in {0, 1} /\ ablaufcounter \in 0 .. 3
    OBVIOUS
  <2>6. alarmSet \in BOOLEAN
    OBVIOUS
  <2>7. boughtWachs \in Nat /\ boughtDocht \in Nat /\ delivered \in Nat
    OBVIOUS
  <2> HIDE DEF Init, PthreadsInit, Labels, Contexts
  <2> QED
    BY <2>1, <2>2, <2>3, <2>4, <2>5, <2>6, <2>7 DEF TypeOK
<1>2. StoreBound
  BY DEF StoreBound
<1>3. StorageExclusive /\ SeenIsTrue
  BY DEF StorageExclusive, SeenIsTrue, StorageHolding
<1>4. Conservation
  <2>1. InWork = {}
    BY DEF InWork
  <2>2. Cardinality(InWork) = 0
    BY <2>1, FS_EmptySet
  <2> QED
    BY <2>2 DEF Conservation
<1> QED
  BY <1>1, <1>2, <1>3, <1>4 DEF IInv

-----------------------------------------------------------------------------
\* createCandle: the maker takes and stores only what it has seen under storage.mutex.
LEMMA MakerPreserves ==
  ASSUME IInv, NEW k \in Makers, CreateCandle(k)
  PROVE  IInv'
<1> USE PthreadsAssumption, FactoryAssumption
    DEF IInv, TypeOK, StoreBound, StorageExclusive, SeenIsTrue, HasRoomAndMaterial,
        StorageHolding, Labels, LabelsOf, MakerLabels, ManagerLabels, MainLabels,
        AlarmLabels, ShutdownLabels, Contexts, data, store, history, flags
<1>1. CASE MakerLoop(k)
  BY <1>1 DEF MakerLoop, Step
<1>2. CASE MakerLock(k)
  BY <1>2 DEF MakerLock, Step, Lock
<1>3. CASE MakerFlag(k)
  <2>1. CASE shutdownFlag = 0
    <3>1. Step(k, "maker_flag", "maker_check") /\ UNCHANGED <<owner, waiting, data>>
      BY <1>3, <2>1 DEF MakerFlag
    <3> QED
      BY <3>1 DEF Step
  <2>2. CASE shutdownFlag # 0
    <3>1. Step(k, "maker_flag", "done") /\ Unlock("storage") /\ UNCHANGED <<waiting, data>>
      BY <1>3, <2>2 DEF MakerFlag
    <3> QED
      BY <3>1 DEF Step, Unlock
  <2> QED
    BY <2>1, <2>2
<1>4. CASE MakerCheck(k)
  BY <1>4 DEF MakerCheck, Step
<1>5. CASE MakerTake(k)
  BY <1>5 DEF MakerTake, Step
<1>6. CASE MakerMake(k)
  BY <1>6 DEF MakerMake, Step, Unlock
<1>7. CASE MakerNone(k)
  BY <1>7 DEF MakerNone, Step, Unlock
<1>8. CASE MakerWaitLock(k)
  BY <1>8 DEF MakerWaitLock, Step, Lock
<1>9. CASE MakerWait(k)
  BY <1>9 DEF MakerWait, Step, CondSleep, Unlock
<1>10. CASE MakerWake(k)
  BY <1>10 DEF MakerWake, Step, CondReturn, Lock
<1>11. CASE MakerAwake(k)
  BY <1>11 DEF MakerAwake, Step, Unlock
<1> QED
  BY <1>1, <1>2, <1>3, <1>4, <1>5, <1>6, <1>7, <1>8, <1>9, <1>10, <1>11
  DEF CreateCandle

\* manageStorage: the delivery is made under storage.mutex.
LEMMA ManagerPreserves ==
  ASSUME IInv, ManageStorage
  PROVE  IInv'
<1> USE PthreadsAssumption, FactoryAssumption
    DEF IInv, TypeOK, StoreBound, StorageExclusive, SeenIsTrue, HasRoomAndMaterial,
        StorageHolding, Labels, LabelsOf, MakerLabels, ManagerLabels, MainLabels,
        AlarmLabels, ShutdownLabels, Contexts, data, store, history, flags
<1>1. CASE ManagerLoop
  BY <1>1 DEF ManagerLoop, Step
<1>2. CASE ManagerLock
  BY <1>2 DEF ManagerLock, Step, Lock
<1>3. CASE ManagerWait
  BY <1>3 DEF ManagerWait, Step, CondSleep, Unlock
<1>4. CASE ManagerWake
  BY <1>4 DEF ManagerWake, Step, CondReturn, Lock
<1>5. CASE ManagerAwake
  BY <1>5 DEF ManagerAwake, Step, Unlock
<1>6. CASE ManagerCalled
  BY <1>6 DEF ManagerCalled, Step
<1>7. CASE ManagerTake
  BY <1>7 DEF ManagerTake, Step, Lock
<1>8. CASE ManagerEmpty
  BY <1>8 DEF ManagerEmpty, Step
<1>9. CASE ManagerUnlock
  BY <1>9 DEF ManagerUnlock, Step, Unlock
<1>10. CASE ManagerReset
  BY <1>10 DEF ManagerReset, Step
<1>11. CASE ManagerWakeLock
  BY <1>11 DEF ManagerWakeLock, Step, Lock
<1>12. CASE ManagerWakeAll
  BY <1>12 DEF ManagerWakeAll, Step, Broadcast, Unlock
<1> QED
  BY <1>1, <1>2, <1>3, <1>4, <1>5, <1>6, <1>7, <1>8, <1>9, <1>10, <1>11, <1>12
  DEF ManageStorage

\* purchase only adds material, and that under storage.mutex.
LEMMA PurchasePreserves ==
  ASSUME IInv, Purchase
  PROVE  IInv'
<1> USE PthreadsAssumption, FactoryAssumption
    DEF IInv, TypeOK, StoreBound, StorageExclusive, SeenIsTrue, HasRoomAndMaterial,
        StorageHolding, Labels, LabelsOf, MakerLabels, ManagerLabels, MainLabels,
        AlarmLabels, ShutdownLabels, Contexts, data, store, history, flags
<1>1. CASE PurchaseLock
  BY <1>1 DEF PurchaseLock, Step, Lock
<1>2. CASE PurchaseSkip
  BY <1>2 DEF PurchaseSkip, Step
<1>3. CASE PurchaseWachs
  BY <1>3 DEF PurchaseWachs, Step
<1>4. CASE PurchaseDocht
  BY <1>4 DEF PurchaseDocht, Step
<1>5. CASE PurchaseAsk
  BY <1>5 DEF PurchaseAsk, Step
<1>6. CASE PurchaseCallLock
  BY <1>6 DEF PurchaseCallLock, Step, Lock
<1>7. CASE PurchaseCall
  BY <1>7 DEF PurchaseCall, Step, Signal, Unlock
<1>8. CASE PurchaseCalled
  BY <1>8 DEF PurchaseCalled, Step
<1>9. CASE PurchaseRestart
  BY <1>9 DEF PurchaseRestart, Step
<1>10. CASE PurchaseUnlock
  BY <1>10 DEF PurchaseUnlock, Step, Unlock
<1>11. CASE PurchaseWakeLock
  BY <1>11 DEF PurchaseWakeLock, Step, Lock
<1>12. CASE PurchaseWakeAll
  BY <1>12 DEF PurchaseWakeAll, Step, Broadcast, Unlock
<1>13. CASE PurchaseAlarm
  BY <1>13 DEF PurchaseAlarm, Return
<1> QED
  BY <1>1, <1>2, <1>3, <1>4, <1>5, <1>6, <1>7, <1>8, <1>9, <1>10, <1>11, <1>12, <1>13
  DEF Purchase

\* graceful_shutdown does not touch the store.
LEMMA ShutdownPreserves ==
  ASSUME IInv, NEW h \in Shutdowns, GracefulShutdown(h)
  PROVE  IInv'
<1> USE PthreadsAssumption, FactoryAssumption
    DEF IInv, TypeOK, StoreBound, StorageExclusive, SeenIsTrue, HasRoomAndMaterial,
        StorageHolding, Labels, LabelsOf, MakerLabels, ManagerLabels, MainLabels,
        AlarmLabels, ShutdownLabels, Contexts, data, store, history, flags
<1>1. CASE ShutdownFlag(h)
  BY <1>1 DEF ShutdownFlag, Step
<1>2. CASE ShutdownLagerLock(h)
  BY <1>2 DEF ShutdownLagerLock, Step, Lock
<1>3. CASE ShutdownMakers(h)
  BY <1>3 DEF ShutdownMakers, Step, Broadcast, Unlock
<1>4. CASE ShutdownSupplierLock(h)
  BY <1>4 DEF ShutdownSupplierLock, Step, Lock
<1>5. CASE ShutdownSupplier(h)
  BY <1>5 DEF ShutdownSupplier, Broadcast, Unlock, Return
<1> QED
  BY <1>1, <1>2, <1>3, <1>4, <1>5
  DEF GracefulShutdown

\* main, the kernel and the library change nothing in the store and give nobody the
\* mutex.
LEMMA SystemPreserves ==
  ASSUME IInv,
         \/ MainThread
         \/ \E t \in Threads : AlarmExpires(t)
         \/ \E h \in Shutdowns, t \in Threads : ShutdownArrives(h, t)
         \/ Wakeup
  PROVE  IInv'
<1> USE PthreadsAssumption, FactoryAssumption
    DEF IInv, TypeOK, StoreBound, StorageExclusive, SeenIsTrue, HasRoomAndMaterial,
        StorageHolding, Labels, LabelsOf, MakerLabels, ManagerLabels, MainLabels,
        AlarmLabels, ShutdownLabels, Contexts, data, store, history, flags
<1>1. CASE MainThread
  <2>1. CASE MainAlarm
    BY <2>1 DEF MainAlarm, Step
  <2>2. CASE MainJoin
    BY <2>2 DEF MainJoin, Step
  <2> QED
    BY <1>1, <2>1, <2>2 DEF MainThread
<1>2. CASE \E t \in Threads : AlarmExpires(t)
  <2>1. PICK t \in Threads : AlarmExpires(t)
    BY <1>2
  <2>2. <<Alarm>> \o nest[t] \in Seq(Handlers)
    OBVIOUS
  <2> QED
    BY <2>1, <2>2 DEF AlarmExpires, Deliver
<1>3. CASE \E h \in Shutdowns, t \in Threads : ShutdownArrives(h, t)
  <2>1. PICK h \in Shutdowns, t \in Threads : ShutdownArrives(h, t)
    BY <1>3
  <2>2. <<h>> \o nest[t] \in Seq(Handlers)
    OBVIOUS
  <2> QED
    BY <2>1, <2>2 DEF ShutdownArrives, Deliver
<1>4. CASE Wakeup
  BY <1>4 DEF Wakeup, SpuriousWakeup
<1> QED
  BY <1>1, <1>2, <1>3, <1>4

\* Every step keeps the bounds.
LEMMA NextIInv == IInv /\ [Next]_vars => IInv'
<1> SUFFICES ASSUME IInv, [Next]_vars PROVE IInv'
  OBVIOUS
<1>1. CASE UNCHANGED vars
  BY <1>1
  DEF vars, pthreadVars, data, store, history, flags, IInv, TypeOK, StoreBound,
      StorageExclusive, SeenIsTrue, HasRoomAndMaterial
<1>2. CASE Next
  BY <1>2, MakerPreserves, ManagerPreserves, PurchasePreserves, ShutdownPreserves,
     SystemPreserves
  DEF Next
<1> QED
  BY <1>1, <1>2

-----------------------------------------------------------------------------
(* The balance *)

\* A step that neither touches the store nor takes a maker to its work or from it.
Quiet == InWork' = InWork /\ UNCHANGED <<store, history>>

LEMMA QuietBalances ==
  ASSUME Conservation, Quiet
  PROVE  Conservation'
  BY DEF Conservation, Quiet, store, history

\* All of these steps are quiet.
LEMMA MakerQuiet ==
  ASSUME IInv, NEW k \in Makers, CreateCandle(k), ~MakerTake(k), ~MakerMake(k)
  PROVE  Quiet
<1> USE PthreadsAssumption, FactoryAssumption
    DEF Quiet, InWork, IInv, TypeOK, Contexts, data, store, history, flags
<1>1. \/ MakerLoop(k) \/ MakerLock(k) \/ MakerCheck(k) \/ MakerNone(k)
      \/ MakerWaitLock(k) \/ MakerWait(k) \/ MakerWake(k) \/ MakerAwake(k)
      => Quiet
  BY DEF MakerLoop, MakerLock, MakerCheck, MakerNone, MakerWaitLock, MakerWait,
         MakerWake, MakerAwake, Step
<1>2. MakerFlag(k) => Quiet
  BY DEF MakerFlag, Step
<1> QED
  BY <1>1, <1>2 DEF CreateCandle

LEMMA ManagerQuiet ==
  ASSUME IInv, ManageStorage, ~ManagerEmpty
  PROVE  Quiet
  BY PthreadsAssumption, FactoryAssumption
  DEF Quiet, InWork, IInv, TypeOK, Contexts, data, store, history, flags, ManageStorage,
      ManagerLoop, ManagerLock, ManagerWait, ManagerWake, ManagerAwake, ManagerCalled,
      ManagerTake, ManagerUnlock, ManagerReset, ManagerWakeLock, ManagerWakeAll, Step

LEMMA PurchaseQuiet ==
  ASSUME IInv, Purchase, ~PurchaseWachs, ~PurchaseDocht
  PROVE  Quiet
  BY PthreadsAssumption, FactoryAssumption
  DEF Quiet, InWork, IInv, TypeOK, Contexts, data, store, history, flags, Purchase,
      PurchaseLock, PurchaseSkip, PurchaseAsk, PurchaseCallLock, PurchaseCall,
      PurchaseCalled, PurchaseRestart, PurchaseUnlock, PurchaseWakeLock,
      PurchaseWakeAll, PurchaseAlarm, Step, Return

LEMMA ShutdownQuiet ==
  ASSUME IInv, NEW h \in Shutdowns, GracefulShutdown(h)
  PROVE  Quiet
  BY PthreadsAssumption, FactoryAssumption
  DEF Quiet, InWork, IInv, TypeOK, Contexts, data, store, history, flags,
      GracefulShutdown, ShutdownFlag, ShutdownLagerLock, ShutdownMakers,
      ShutdownSupplierLock, ShutdownSupplier, Step, Return

LEMMA SystemQuiet ==
  ASSUME IInv,
         \/ MainThread
         \/ \E t \in Threads : AlarmExpires(t)
         \/ \E h \in Shutdowns, t \in Threads : ShutdownArrives(h, t)
         \/ Wakeup
  PROVE  Quiet
<1> USE PthreadsAssumption, FactoryAssumption
    DEF Quiet, InWork, IInv, TypeOK, Contexts, data, store, history, flags
<1>1. CASE MainThread
  BY <1>1 DEF MainThread, MainAlarm, MainJoin, Step
<1>2. CASE \E t \in Threads : AlarmExpires(t)
  BY <1>2 DEF AlarmExpires, Deliver
<1>3. CASE \E h \in Shutdowns, t \in Threads : ShutdownArrives(h, t)
  BY <1>3 DEF ShutdownArrives, Deliver
<1>4. CASE Wakeup
  BY <1>4 DEF Wakeup, SpuriousWakeup
<1> QED
  BY <1>1, <1>2, <1>3, <1>4

\* A maker takes 3 wax and 1 wick to its work, alone, because it holds the mutex ...
LEMMA TakeBalances ==
  ASSUME IInv, Conservation, NEW k \in Makers, MakerTake(k)
  PROVE  Conservation'
<1> USE PthreadsAssumption, FactoryAssumption DEF IInv, TypeOK, Contexts
<1>1. InWork = {}
  BY DEF MakerTake, Step, InWork, StorageExclusive, StorageHolding
<1>2. InWork' = {k}
  BY DEF MakerTake, Step, InWork, StorageExclusive, StorageHolding
<1>3. Cardinality(InWork) = 0 /\ Cardinality(InWork') = 1
  BY <1>1, <1>2, FS_EmptySet, FS_Singleton
<1>4. /\ wachs' = wachs - 3 /\ docht' = docht - 1
      /\ UNCHANGED <<kerzen, boughtWachs, boughtDocht, delivered>>
  BY DEF MakerTake, history
<1> QED
  BY <1>3, <1>4 DEF Conservation

\* ... and makes them a candle.
LEMMA MakeBalances ==
  ASSUME IInv, Conservation, NEW k \in Makers, MakerMake(k)
  PROVE  Conservation'
<1> USE PthreadsAssumption, FactoryAssumption DEF IInv, TypeOK, Contexts
<1>1. InWork = {k}
  BY DEF MakerMake, Step, InWork, StorageExclusive, StorageHolding
<1>2. InWork' = {}
  BY DEF MakerMake, Step, InWork, StorageExclusive, StorageHolding
<1>3. Cardinality(InWork) = 1 /\ Cardinality(InWork') = 0
  BY <1>1, <1>2, FS_EmptySet, FS_Singleton
<1>4. kerzen' = kerzen + 1 /\ UNCHANGED <<wachs, docht, boughtWachs, boughtDocht, delivered>>
  BY DEF MakerMake, history
<1> QED
  BY <1>3, <1>4 DEF Conservation

\* A delivery and a purchase change both sides alike, whoever is at work.
LEMMA TradeBalances ==
  ASSUME IInv, Conservation, ManagerEmpty \/ PurchaseWachs \/ PurchaseDocht
  PROVE  Conservation'
<1> USE PthreadsAssumption, FactoryAssumption DEF IInv, TypeOK, Contexts
<1>1. InWork' = InWork
  BY DEF ManagerEmpty, PurchaseWachs, PurchaseDocht, Step, InWork
<1>2. IsFiniteSet(InWork) /\ Cardinality(InWork) \in Nat
  <2>1. \A k, l \in InWork : k = l
    BY DEF InWork, StorageExclusive, StorageHolding
  <2>2. CASE InWork = {}
    BY <2>2, FS_EmptySet
  <2>3. ASSUME NEW k \in InWork PROVE IsFiniteSet(InWork) /\ Cardinality(InWork) \in Nat
    <3>1. InWork = {k}
      BY <2>1, <2>3
    <3>2. IsFiniteSet({k}) /\ Cardinality({k}) = 1
      BY FS_Singleton
    <3> QED
      BY <3>1, <3>2
  <2> QED
    BY <2>2, <2>3
<1> DEFINE made == kerzen + delivered + Cardinality(InWork)
<1>3. made \in Int
  BY <1>2
<1>4. wachs + 3 * made = INITIAL_WACHS + boughtWachs /\ docht + made = INITIAL_DOCHT + boughtDocht
  BY DEF Conservation
<1>5. CASE ManagerEmpty
  <2>1. /\ kerzen' = 0 /\ delivered' = delivered + kerzen
        /\ UNCHANGED <<wachs, docht, boughtWachs, boughtDocht>>
    BY <1>5 DEF ManagerEmpty
  <2>2. made' = made
    BY <1>1, <1>2, <2>1
  <2> QED
    BY <1>4, <2>1, <2>2 DEF Conservation
<1>6. CASE PurchaseWachs
  <2>1. PICK w \in WachsAmounts : wachs' = wachs + w /\ boughtWachs' = boughtWachs + w
    BY <1>6 DEF PurchaseWachs
  <2>2. UNCHANGED <<kerzen, docht, boughtDocht, delivered>>
    BY <1>6 DEF PurchaseWachs
  <2>3. made' = made
    BY <1>1, <2>2
  <2> HIDE DEF made
  <2>4. /\ wachs' + 3 * made' = INITIAL_WACHS + boughtWachs'
        /\ docht' + made' = INITIAL_DOCHT + boughtDocht'
    BY <1>3, <1>4, <2>1, <2>2, <2>3
  <2> QED
    BY <2>4 DEF Conservation, made
<1>7. CASE PurchaseDocht
  <2>1. PICK d \in DochtAmounts : docht' = docht + d /\ boughtDocht' = boughtDocht + d
    BY <1>7 DEF PurchaseDocht
  <2>2. UNCHANGED <<kerzen, wachs, boughtWachs, delivered>>
    BY <1>7 DEF PurchaseDocht
  <2>3. made' = made
    BY <1>1, <2>2
  <2> HIDE DEF made
  <2>4. /\ wachs' + 3 * made' = INITIAL_WACHS + boughtWachs'
        /\ docht' + made' = INITIAL_DOCHT + boughtDocht'
    BY <1>3, <1>4, <2>1, <2>2, <2>3
  <2> QED
    BY <2>4 DEF Conservation, made
<1> QED
  BY <1>5, <1>6, <1>7

LEMMA NextBalances == IInv /\ Conservation /\ [Next]_vars => Conservation'
<1> SUFFICES ASSUME IInv, Conservation, [Next]_vars PROVE Conservation'
  OBVIOUS
<1>1. CASE UNCHANGED vars
  BY <1>1, QuietBalances DEF vars, pthreadVars, data, Quiet, InWork
<1>2. CASE Next
  BY <1>2, QuietBalances, MakerQuiet, ManagerQuiet, PurchaseQuiet, ShutdownQuiet,
     SystemQuiet, TakeBalances, MakeBalances, TradeBalances
  DEF Next
<1> QED
  BY <1>1, <1>2

-----------------------------------------------------------------------------
\* The invariant holds in every reachable state.
THEOREM Inductive == Spec => [](IInv /\ Conservation)
  BY InitIInv, NextIInv, NextBalances, PTL DEF Spec

\* Every context stays inside its function and every variable in its type.
THEOREM TypeCorrect == Spec => []TypeOK
  BY Inductive, PTL DEF IInv

\* The store never holds more candles than it has room for, and never owes material.
THEOREM StoreSafe == Spec => []StoreBound
  BY Inductive, PTL DEF IInv

\* Nothing is lost or made of nothing.
THEOREM NothingLost == Spec => []Conservation
  BY Inductive, PTL

-----------------------------------------------------------------------------
(* What can close a circle of waiting: only a handler that interrupts a     *)
(* context in possession of a mutex.                                        *)

\* Where each mutex is held.
Holders ==
  [m \in Mutexes |->
     IF m = "storage" THEN StorageHolding
     ELSE IF m = "supplier"
       THEN {"manager_wait", "manager_awake", "purchase_call", "shutdown_supplier"}
     ELSE {"maker_wait", "maker_awake", "manager_wakeall", "purchase_wakeall",
           "shutdown_makers"}]

\* Whoever owns a mutex is where that mutex is held; main never owns any.
OwnersHold ==
  \A m \in Mutexes, c \in Contexts : owner[m] = c => c # Main /\ pc[c] \in Holders[m]

\* The handlers that may be stacked on a thread: purchase and one shutdown.
Stacks ==
  {<<>>} \cup {<<h>> : h \in Handlers}
  \cup {<<Alarm, h>> : h \in Shutdowns} \cup {<<h, Alarm>> : h \in Shutdowns}

RunsOn(h, t) ==
  nest[t] = <<h>> \/ \E g \in Handlers : nest[t] = <<g, h>> \/ nest[t] = <<h, g>>

\* The labels of a handler that does not run.
AtRest == {"idle", "spent"}

\* A handler runs on one thread at a time, and once.
Stacked ==
  /\ nest \in [Threads -> Stacks]
  /\ \A h \in Handlers, t \in Threads :
       RunsOn(h, t) => /\ pc[h] \notin AtRest
                       /\ \A u \in Threads : RunsOn(h, u) => u = t

LEMMA InitLocks == Init => OwnersHold /\ Stacked
<1> SUFFICES ASSUME Init PROVE OwnersHold /\ Stacked
  OBVIOUS
<1>1. /\ \A m \in Mutexes : owner[m] = Nobody
      /\ \A t \in Threads : nest[t] = <<>>
      /\ nest = [t \in Threads |-> <<>>]
  BY DEF Init, PthreadsInit
<1>2. OwnersHold
  BY <1>1, PthreadsAssumption DEF OwnersHold, Contexts
<1>3. Stacked
  BY <1>1 DEF Stacked, Stacks, RunsOn
<1> QED
  BY <1>2, <1>3

\* A maker never has two mutexes.
LEMMA MakerOwners ==
  ASSUME IInv, OwnersHold, NEW k \in Makers, CreateCandle(k)
  PROVE  OwnersHold' /\ UNCHANGED nest /\ \A h \in Handlers : pc'[h] = pc[h]
<1>1. /\ UNCHANGED nest
      /\ \E to \in MakerLabels : pc' = [pc EXCEPT ![k] = to]
  BY DEF CreateCandle, MakerLoop, MakerLock, MakerFlag, MakerCheck, MakerTake, MakerMake,
     MakerNone, MakerWaitLock, MakerWait, MakerWake, MakerAwake, Step, MakerLabels
<1>2. \A h \in Handlers : pc'[h] = pc[h]
  BY <1>1, PthreadsAssumption, FactoryAssumption DEF IInv, TypeOK, Contexts
<1>3. OwnersHold'
  <2> USE PthreadsAssumption, FactoryAssumption
      DEF IInv, TypeOK, OwnersHold, Holders, StorageHolding, Contexts
  <2>1. CASE MakerLoop(k)
    BY <2>1 DEF MakerLoop, Step
  <2>2. CASE MakerLock(k)
    BY <2>2 DEF MakerLock, Step, Lock
  <2>3. CASE MakerFlag(k)
    BY <2>3 DEF MakerFlag, Step, Unlock
  <2>4. CASE MakerCheck(k)
    BY <2>4 DEF MakerCheck, Step
  <2>5. CASE MakerTake(k)
    BY <2>5 DEF MakerTake, Step
  <2>6. CASE MakerMake(k)
    BY <2>6 DEF MakerMake, Step, Unlock
  <2>7. CASE MakerNone(k)
    BY <2>7 DEF MakerNone, Step, Unlock
  <2>8. CASE MakerWaitLock(k)
    BY <2>8 DEF MakerWaitLock, Step, Lock
  <2>9. CASE MakerWait(k)
    BY <2>9 DEF MakerWait, Step, CondSleep, Unlock
  <2>10. CASE MakerWake(k)
    BY <2>10 DEF MakerWake, Step, CondReturn, Lock
  <2>11. CASE MakerAwake(k)
    BY <2>11 DEF MakerAwake, Step, Unlock
  <2> QED
    BY <2>1, <2>2, <2>3, <2>4, <2>5, <2>6, <2>7, <2>8, <2>9, <2>10, <2>11 DEF CreateCandle
<1> QED
  BY <1>1, <1>2, <1>3

\* Neither has the manager.
LEMMA ManagerOwners ==
  ASSUME IInv, OwnersHold, ManageStorage
  PROVE  OwnersHold' /\ UNCHANGED nest /\ \A h \in Handlers : pc'[h] = pc[h]
<1>1. /\ UNCHANGED nest
      /\ \E to \in ManagerLabels : pc' = [pc EXCEPT ![Manager] = to]
  BY DEF ManageStorage, ManagerLoop, ManagerLock, ManagerWait, ManagerWake, ManagerAwake,
     ManagerCalled, ManagerTake, ManagerEmpty, ManagerUnlock, ManagerReset,
     ManagerWakeLock, ManagerWakeAll, Step, ManagerLabels
<1>2. \A h \in Handlers : pc'[h] = pc[h]
  BY <1>1, PthreadsAssumption, FactoryAssumption DEF IInv, TypeOK, Contexts
<1>3. OwnersHold'
  <2> USE PthreadsAssumption, FactoryAssumption
      DEF IInv, TypeOK, OwnersHold, Holders, StorageHolding, Contexts
  <2>1. CASE ManagerLoop
    BY <2>1 DEF ManagerLoop, Step
  <2>2. CASE ManagerLock
    BY <2>2 DEF ManagerLock, Step, Lock
  <2>3. CASE ManagerWait
    BY <2>3 DEF ManagerWait, Step, CondSleep, Unlock
  <2>4. CASE ManagerWake
    BY <2>4 DEF ManagerWake, Step, CondReturn, Lock
  <2>5. CASE ManagerAwake
    BY <2>5 DEF ManagerAwake, Step, Unlock
  <2>6. CASE ManagerCalled
    BY <2>6 DEF ManagerCalled, Step
  <2>7. CASE ManagerTake
    BY <2>7 DEF ManagerTake, Step, Lock
  <2>8. CASE ManagerEmpty
    BY <2>8 DEF ManagerEmpty, Step
  <2>9. CASE ManagerUnlock
    BY <2>9 DEF ManagerUnlock, Step, Unlock
  <2>10. CASE ManagerReset
    BY <2>10 DEF ManagerReset, Step
  <2>11. CASE ManagerWakeLock
    BY <2>11 DEF ManagerWakeLock, Step, Lock
  <2>12. CASE ManagerWakeAll
    BY <2>12 DEF ManagerWakeAll, Step, Unlock
  <2> QED
    BY <2>1, <2>2, <2>3, <2>4, <2>5, <2>6, <2>7, <2>8, <2>9, <2>10, <2>11, <2>12
    DEF ManageStorage
<1> QED
  BY <1>1, <1>2, <1>3

\* What delivering to a stack and returning from it make of it.
LEMMA StackOps ==
  ASSUME NEW h \in Handlers, NEW g \in Handlers
  PROVE  /\ <<h>> \o <<>> = <<h>> /\ <<h>> \o <<g>> = <<h, g>>
         /\ <<h>> # <<>> /\ <<h, g>> # <<>>
         /\ Head(<<h>>) = h /\ Tail(<<h>>) = <<>>
         /\ Head(<<h, g>>) = h /\ Tail(<<h, g>>) = <<g>>
<1>1. <<h>> \o <<>> = <<h>>
  OBVIOUS
<1>2. <<h>> \o <<g>> = <<h, g>>
  <2>1. Len(<<h>> \o <<g>>) = 2 /\ (<<h>> \o <<g>>)[1] = h /\ (<<h>> \o <<g>>)[2] = g
    OBVIOUS
  <2>2. <<h>> \o <<g>> \in Seq(Handlers) /\ <<h, g>> \in Seq(Handlers) /\ Len(<<h, g>>) = 2
    OBVIOUS
  <2>3. \A i \in 1 .. 2 : (<<h>> \o <<g>>)[i] = <<h, g>>[i]
    BY <2>1
  <2> QED
    BY <2>1, <2>2, <2>3, SeqEqual
<1>3. <<h>> # <<>> /\ <<h, g>> # <<>>
  OBVIOUS
<1>4. Head(<<h>>) = h /\ Head(<<h, g>>) = h
  OBVIOUS
<1>5. Tail(<<h>>) = <<>>
  OBVIOUS
<1>6. Tail(<<h, g>>) = <<g>>
  OBVIOUS
<1> QED
  BY <1>1, <1>2, <1>3, <1>4, <1>5, <1>6

\* A step that leaves the stacks alone and ends no handler.
LEMMA SameStacks ==
  ASSUME Stacked, UNCHANGED nest,
         \A h \in Handlers : pc'[h] \in AtRest => pc[h] \in AtRest
  PROVE  Stacked'
  BY DEF Stacked, RunsOn

\* A handler that does not run starts on top of a stack that has none of its kind.
LEMMA DeliverStacks ==
  ASSUME IInv, Stacked, NEW h \in Handlers, NEW t \in Threads, NEW start \in Labels \ AtRest,
         Deliver(h, t, start), h # Alarm => ~Handling(t, Shutdowns)
  PROVE  Stacked'
<1>1. /\ pc[h] \in AtRest /\ nest \in [Threads -> Stacks]
      /\ nest' = [nest EXCEPT ![t] = <<h>> \o @]
  BY DEF Deliver, AtRest, Stacked
<1>2. \A u \in Threads : ~RunsOn(h, u)
  BY <1>1 DEF Stacked
<1>3. /\ pc'[h] \notin AtRest
      /\ \A g \in Handlers \ {h} : pc'[g] = pc[g]
  BY DEF Deliver, IInv, TypeOK, Contexts
<1>4. nest'[t] = <<h>> \o nest[t] /\ \A u \in Threads \ {t} : nest'[u] = nest[u]
  BY <1>1
<1>5. \/ nest[t] = <<>> /\ nest'[t] = <<h>>
      \/ \E g \in Handlers : /\ nest[t] = <<g>> /\ nest'[t] = <<h, g>>
                             /\ \/ h = Alarm /\ g \in Shutdowns
                                \/ g = Alarm /\ h \in Shutdowns
  <2>1. CASE nest[t] = <<>>
    BY <1>4, <2>1, StackOps
  <2>2. CASE \E g \in Handlers : nest[t] = <<g>>
    <3>1. PICK g \in Handlers : nest[t] = <<g>>
      BY <2>2
    <3>2. g # h
      BY <1>2, <3>1 DEF RunsOn
    <3>3. h # Alarm => g \notin Shutdowns
      BY <3>1 DEF Handling
    <3> QED
      BY <1>4, <3>1, <3>2, <3>3, StackOps, FactoryAssumption
  <2>3. CASE \E g \in Shutdowns : nest[t] \in {<<Alarm, g>>, <<g, Alarm>>}
    <3>1. PICK g \in Shutdowns : nest[t] \in {<<Alarm, g>>, <<g, Alarm>>}
      BY <2>3
    <3>2. h # Alarm
      BY <1>2, <3>1, FactoryAssumption DEF RunsOn
    <3>3. Handling(t, Shutdowns)
      <4>1. CASE nest[t] = <<Alarm, g>>
        BY <4>1 DEF Handling
      <4>2. CASE nest[t] = <<g, Alarm>>
        BY <4>2 DEF Handling
      <4> QED
        BY <3>1, <4>1, <4>2
    <3> QED
      BY <3>2, <3>3
  <2> QED
    BY <1>1, <2>1, <2>2, <2>3 DEF Stacks
<1>6. nest'[t] \in Stacks
  BY <1>5 DEF Stacks
<1>7. nest' \in [Threads -> Stacks]
  BY <1>1, <1>4, <1>6
<1>8. ASSUME NEW g \in Handlers, NEW u \in Threads, RunsOn(g, u)'
      PROVE  (g = h /\ u = t) \/ (g # h /\ RunsOn(g, u))
  <2>1. CASE u # t
    BY <1>2, <1>4, <1>8, <2>1 DEF RunsOn
  <2>2. CASE u = t /\ nest[t] = <<>> /\ nest'[t] = <<h>>
    BY <1>8, <2>2 DEF RunsOn
  <2>3. CASE u = t /\ \E k \in Handlers : nest[t] = <<k>> /\ nest'[t] = <<h, k>>
    <3>1. PICK k \in Handlers : nest[t] = <<k>> /\ nest'[t] = <<h, k>>
      BY <2>3
    <3>2. g = h \/ g = k
      BY <1>8, <2>3, <3>1 DEF RunsOn
    <3> QED
      BY <1>2, <2>3, <3>1, <3>2 DEF RunsOn
  <2> QED
    BY <1>5, <2>1, <2>2, <2>3
<1>9. \A g \in Handlers, u \in Threads : (g = h /\ u = t) => ~RunsOn(g, u)
  BY <1>2
<1>10. ASSUME NEW g \in Handlers, NEW u \in Threads, RunsOn(g, u)'
       PROVE  /\ pc'[g] \notin AtRest
              /\ \A v \in Threads : RunsOn(g, v)' => v = u
  BY <1>3, <1>8, <1>10 DEF Stacked
<1> QED
  BY <1>7, <1>10 DEF Stacked

\* A handler that returns is gone from its stack and from all others.
LEMMA ReturnStacks ==
  ASSUME IInv, Stacked, NEW h \in Handlers, NEW to, Return(h, to)
  PROVE  Stacked'
<1>1. PICK t \in Threads : /\ nest[t] # <<>> /\ Head(nest[t]) = h
                           /\ nest' = [nest EXCEPT ![t] = Tail(@)]
  BY DEF Return
<1>2. nest \in [Threads -> Stacks]
  BY DEF Stacked
<1>3. nest'[t] = Tail(nest[t]) /\ \A u \in Threads \ {t} : nest'[u] = nest[u]
  BY <1>1, <1>2
<1>4. \/ nest[t] = <<h>> /\ nest'[t] = <<>>
      \/ \E g \in Handlers : g # h /\ nest[t] = <<h, g>> /\ nest'[t] = <<g>>
  <2>1. CASE \E g \in Handlers : nest[t] = <<g>>
    BY <1>1, <1>3, <2>1, StackOps
  <2>2. CASE \E g \in Shutdowns : nest[t] \in {<<Alarm, g>>, <<g, Alarm>>}
    <3>1. PICK g \in Shutdowns : nest[t] \in {<<Alarm, g>>, <<g, Alarm>>}
      BY <2>2
    <3>2. CASE nest[t] = <<Alarm, g>>
      BY <1>1, <1>3, <3>2, StackOps, FactoryAssumption
    <3>3. CASE nest[t] = <<g, Alarm>>
      BY <1>1, <1>3, <3>3, StackOps, FactoryAssumption
    <3> QED
      BY <3>1, <3>2, <3>3
  <2> QED
    BY <1>1, <1>2, <2>1, <2>2 DEF Stacks
<1>5. RunsOn(h, t) /\ \A u \in Threads : RunsOn(h, u) => u = t
  BY <1>4 DEF RunsOn, Stacked
<1>6. \A g \in Handlers \ {h} : pc'[g] = pc[g]
  BY DEF Return, IInv, TypeOK, Contexts
<1>7. nest' \in [Threads -> Stacks]
  BY <1>1, <1>2, <1>3, <1>4 DEF Stacks
<1>8. ASSUME NEW g \in Handlers, NEW u \in Threads, RunsOn(g, u)'
      PROVE  g # h /\ RunsOn(g, u)
  <2>1. CASE u # t
    BY <1>3, <1>5, <1>8, <2>1 DEF RunsOn
  <2>2. CASE u = t
    BY <1>4, <1>8, <2>2 DEF RunsOn
  <2> QED
    BY <2>1, <2>2
<1>9. ASSUME NEW g \in Handlers, NEW u \in Threads, RunsOn(g, u)'
      PROVE  /\ pc'[g] \notin AtRest
             /\ \A v \in Threads : RunsOn(g, v)' => v = u
  BY <1>6, <1>8, <1>9 DEF Stacked
<1> QED
  BY <1>7, <1>9 DEF Stacked

\* purchase locks supplier_mutex with storage.mutex in hand, no other mutex with any in
\* hand, and has none when it returns.
LEMMA PurchaseOwners ==
  ASSUME IInv, OwnersHold, Stacked, Purchase
  PROVE  OwnersHold' /\ Stacked'
<1> USE PthreadsAssumption, FactoryAssumption
<1>1. OwnersHold'
  <2> USE DEF IInv, TypeOK, OwnersHold, Holders, StorageHolding, Contexts
  <2>1. CASE PurchaseLock
    BY <2>1 DEF PurchaseLock, Step, Lock
  <2>2. CASE PurchaseSkip
    BY <2>2 DEF PurchaseSkip, Step
  <2>3. CASE PurchaseWachs
    BY <2>3 DEF PurchaseWachs, Step
  <2>4. CASE PurchaseDocht
    BY <2>4 DEF PurchaseDocht, Step
  <2>5. CASE PurchaseAsk
    BY <2>5 DEF PurchaseAsk, Step
  <2>6. CASE PurchaseCallLock
    BY <2>6 DEF PurchaseCallLock, Step, Lock
  <2>7. CASE PurchaseCall
    BY <2>7 DEF PurchaseCall, Step, Unlock
  <2>8. CASE PurchaseCalled
    BY <2>8 DEF PurchaseCalled, Step
  <2>9. CASE PurchaseRestart
    BY <2>9 DEF PurchaseRestart, Step
  <2>10. CASE PurchaseUnlock
    BY <2>10 DEF PurchaseUnlock, Step, Unlock
  <2>11. CASE PurchaseWakeLock
    BY <2>11 DEF PurchaseWakeLock, Step, Lock
  <2>12. CASE PurchaseWakeAll
    BY <2>12 DEF PurchaseWakeAll, Step, Unlock
  <2>13. CASE PurchaseAlarm
    BY <2>13 DEF PurchaseAlarm, Return
  <2> QED
    BY <2>1, <2>2, <2>3, <2>4, <2>5, <2>6, <2>7, <2>8, <2>9, <2>10, <2>11, <2>12, <2>13
       DEF Purchase
<1>2. CASE PurchaseAlarm
  BY <1>1, <1>2, ReturnStacks DEF PurchaseAlarm
<1>3. CASE ~PurchaseAlarm
  <2>1. UNCHANGED nest /\ \A h \in Handlers : pc'[h] \in AtRest => pc[h] \in AtRest
    BY <1>3
    DEF Purchase, PurchaseLock, PurchaseSkip, PurchaseWachs, PurchaseDocht, PurchaseAsk,
       PurchaseCallLock, PurchaseCall, PurchaseCalled, PurchaseRestart, PurchaseUnlock,
       PurchaseWakeLock, PurchaseWakeAll, Step, AtRest, IInv, TypeOK, Contexts
  <2> QED
    BY <1>1, <2>1, SameStacks
<1> QED
  BY <1>2, <1>3

\* graceful_shutdown never has two mutexes, and none when it returns.
LEMMA ShutdownOwners ==
  ASSUME IInv, OwnersHold, Stacked, NEW h \in Shutdowns, GracefulShutdown(h)
  PROVE  OwnersHold' /\ Stacked'
<1> USE PthreadsAssumption, FactoryAssumption
<1>1. OwnersHold'
  <2> USE DEF IInv, TypeOK, OwnersHold, Holders, StorageHolding, Contexts
  <2>1. CASE ShutdownFlag(h)
    BY <2>1 DEF ShutdownFlag, Step
  <2>2. CASE ShutdownLagerLock(h)
    BY <2>2 DEF ShutdownLagerLock, Step, Lock
  <2>3. CASE ShutdownMakers(h)
    BY <2>3 DEF ShutdownMakers, Step, Unlock
  <2>4. CASE ShutdownSupplierLock(h)
    BY <2>4 DEF ShutdownSupplierLock, Step, Lock
  <2>5. CASE ShutdownSupplier(h)
    BY <2>5 DEF ShutdownSupplier, Return, Unlock
  <2> QED
    BY <2>1, <2>2, <2>3, <2>4, <2>5 DEF GracefulShutdown
<1>2. CASE ShutdownSupplier(h)
  BY <1>1, <1>2, ReturnStacks DEF ShutdownSupplier
<1>3. CASE ~ShutdownSupplier(h)
  <2>1. UNCHANGED nest /\ \A g \in Handlers : pc'[g] \in AtRest => pc[g] \in AtRest
    BY <1>3
    DEF GracefulShutdown, ShutdownFlag, ShutdownLagerLock, ShutdownMakers,
       ShutdownSupplierLock, Step, AtRest, IInv, TypeOK, Contexts
  <2> QED
    BY <1>1, <2>1, SameStacks
<1> QED
  BY <1>2, <1>3

\* main has no mutex, and a signal gives none to the handler that it starts.
LEMMA SystemOwners ==
  ASSUME IInv, OwnersHold, Stacked,
         \/ MainThread
         \/ \E t \in Threads : AlarmExpires(t)
         \/ \E h \in Shutdowns, t \in Threads : ShutdownArrives(h, t)
         \/ Wakeup
  PROVE  OwnersHold' /\ Stacked'
<1> USE PthreadsAssumption, FactoryAssumption
<1>1. CASE MainThread
  <2>1. OwnersHold'
    BY <1>1
    DEF MainThread, MainAlarm, MainJoin, Step, IInv, TypeOK, OwnersHold, Holders,
        StorageHolding, Contexts
  <2>2. UNCHANGED nest /\ \A h \in Handlers : pc'[h] = pc[h]
    BY <1>1 DEF MainThread, MainAlarm, MainJoin, Step, IInv, TypeOK, Contexts
  <2> QED
    BY <2>1, <2>2, SameStacks
<1>2. CASE \E t \in Threads : AlarmExpires(t)
  <2>1. PICK t \in Threads : AlarmExpires(t)
    BY <1>2
  <2>2. "purchase_lock" \in Labels \ AtRest
    BY DEF Labels, AlarmLabels, AtRest
  <2>3. Stacked'
    BY <2>1, <2>2, DeliverStacks DEF AlarmExpires
  <2>4. OwnersHold'
    BY <2>1
    DEF AlarmExpires, Deliver, IInv, TypeOK, OwnersHold, Holders, StorageHolding, Contexts
  <2> QED
    BY <2>3, <2>4
<1>3. CASE \E h \in Shutdowns, t \in Threads : ShutdownArrives(h, t)
  <2>1. PICK h \in Shutdowns, t \in Threads : ShutdownArrives(h, t)
    BY <1>3
  <2>2. "shutdown_flag" \in Labels \ AtRest
    BY DEF Labels, ShutdownLabels, AtRest
  <2>3. Stacked'
    BY <2>1, <2>2, DeliverStacks DEF ShutdownArrives
  <2>4. OwnersHold'
    BY <2>1
    DEF ShutdownArrives, Deliver, IInv, TypeOK, OwnersHold, Holders, StorageHolding, Contexts
  <2> QED
    BY <2>3, <2>4
<1>4. CASE Wakeup
  <2>1. UNCHANGED <<pc, owner, nest>>
    BY <1>4 DEF Wakeup, SpuriousWakeup
  <2> QED
    BY <2>1, SameStacks DEF OwnersHold
<1> QED
  BY <1>1, <1>2, <1>3, <1>4

LEMMA NextOwners == IInv /\ OwnersHold /\ Stacked /\ [Next]_vars => OwnersHold' /\ Stacked'
<1> SUFFICES ASSUME IInv, OwnersHold, Stacked, [Next]_vars PROVE OwnersHold' /\ Stacked'
  OBVIOUS
<1>1. CASE UNCHANGED vars
  BY <1>1, SameStacks DEF vars, pthreadVars, OwnersHold
<1>2. CASE \E k \in Makers : CreateCandle(k)
  BY <1>2, MakerOwners, SameStacks
<1>3. CASE ManageStorage
  BY <1>3, ManagerOwners, SameStacks
<1> QED
  BY <1>1, <1>2, <1>3, PurchaseOwners, ShutdownOwners, SystemOwners DEF Next

\* A handler runs on top of the thread or of the one handler that it interrupted.
LEMMA CoversCases ==
  ASSUME Stacked, NEW h, NEW c \in Contexts, Covers(h, c)
  PROVE  /\ h \in Handlers
         /\ \E t \in Threads :
              \/ c = t /\ nest[t] = <<h>>
              \/ c = t /\ \E g \in Handlers : nest[t] = <<g, h>>
              \/ c \in Handlers /\ nest[t] = <<h, c>>
<1>1. PICK t \in Threads :
        \/ c = t /\ nest[t] # <<>> /\ nest[t][Len(nest[t])] = h
        \/ \E i \in 1 .. Len(nest[t]) - 1 : nest[t][i] = h /\ nest[t][i + 1] = c
  BY DEF Covers
<1>2. nest[t] \in Stacks
  BY DEF Stacked
<1>3. CASE nest[t] = <<>>
  BY <1>1, <1>3
<1>4. CASE \E g \in Handlers : nest[t] = <<g>>
  <2>1. PICK g \in Handlers : nest[t] = <<g>>
    BY <1>4
  <2>2. Len(nest[t]) = 1 /\ nest[t][1] = g
    BY <2>1
  <2>3. ~(\E i \in 1 .. Len(nest[t]) - 1 : TRUE)
    BY <2>2
  <2>4. c = t /\ h = g
    BY <1>1, <2>2, <2>3
  <2> QED
    BY <2>1, <2>4
<1>5. CASE \E g, k \in Handlers : nest[t] = <<g, k>>
  <2>1. PICK g \in Handlers, k \in Handlers : nest[t] = <<g, k>>
    BY <1>5
  <2>2. Len(nest[t]) = 2 /\ nest[t][1] = g /\ nest[t][2] = k
    BY <2>1
  <2>3. CASE c = t /\ nest[t][Len(nest[t])] = h
    BY <2>1, <2>2, <2>3
  <2>4. CASE \E i \in 1 .. Len(nest[t]) - 1 : nest[t][i] = h /\ nest[t][i + 1] = c
    <3>1. nest[t][1] = h /\ nest[t][2] = c
      BY <2>2, <2>4
    <3> QED
      BY <2>1, <2>2, <3>1
  <2> QED
    BY <1>1, <2>3, <2>4
<1>6. nest[t] = <<>> \/ (\E g \in Handlers : nest[t] = <<g>>)
      \/ \E g, k \in Handlers : nest[t] = <<g, k>>
  BY <1>2, FactoryAssumption DEF Stacks
<1> QED
  BY <1>3, <1>4, <1>5, <1>6

\* The labels at which a mutex is locked.
LEMMA WantsWhat ==
  ASSUME NEW l \in DOMAIN wants
  PROVE  /\ wants[l] \in Mutexes
         /\ l \notin MainLabels
         /\ l \notin Holders["supplier"] \cup Holders["lager"]
         /\ l \in Holders["storage"] => wants[l] = "supplier"
<1> USE DEF StorageWanted, SupplierWanted, LagerWanted
<1>1. /\ l \in StorageWanted \cup SupplierWanted \cup LagerWanted
      /\ wants[l] = IF l \in StorageWanted THEN "storage"
                    ELSE IF l \in SupplierWanted THEN "supplier" ELSE "lager"
  BY DEF wants
<1>2. wants[l] \in Mutexes
  BY <1>1, FactoryAssumption
<1>3. l \notin MainLabels
  BY <1>1 DEF MainLabels
<1>4. l \notin Holders["supplier"] \cup Holders["lager"]
  BY <1>1, FactoryAssumption DEF Holders
<1>5. l \in Holders["storage"] => wants[l] = "supplier"
  BY <1>1, FactoryAssumption DEF Holders, StorageHolding
<1> QED
  BY <1>2, <1>3, <1>4, <1>5

\* If no interrupted context has a mutex, nobody waits for itself, through others or
\* not: the owner of supplier_mutex or of lager_mutex waits for nobody, the owner of
\* storage.mutex at most for supplier_mutex, and what a handler interrupted for it.
LEMMA LockOrder ==
  ASSUME IInv, OwnersHold, Stacked, InterruptedHoldNothing
  PROVE  ~Hung(wants)
<1> SUFFICES ASSUME NEW S \in SUBSET Contexts, Deadlocked(S, wants)
             PROVE  FALSE
  BY DEF Hung
<1>1. S # {} /\ \A c \in S : \E d \in S : WaitsFor(c, d, wants)
  BY DEF Deadlocked
<1> DEFINE Waits(c, d) == pc[c] \in DOMAIN wants /\ owner[wants[pc[c]]] = d
\* An owner in S is not interrupted, so it waits for a mutex itself.
<1>2. ASSUME NEW m \in Mutexes, owner[m] \in S
      PROVE  /\ pc[owner[m]] \in DOMAIN wants
             /\ \E d \in S : Waits(owner[m], d)
  <2>1. PICK d \in S : WaitsFor(owner[m], d, wants)
    BY <1>1, <1>2
  <2>2. ~Covers(d, owner[m])
    <3> SUFFICES ASSUME Covers(d, owner[m]) PROVE FALSE
      OBVIOUS
    <3>1. d \in Handlers
      BY <1>2, CoversCases
    <3> QED
      BY <1>2, <3>1 DEF InterruptedHoldNothing
  <2> QED
    BY <2>1, <2>2 DEF WaitsFor
<1>3. \A m \in {"supplier", "lager"} : owner[m] \notin S
  <2> SUFFICES ASSUME NEW m \in {"supplier", "lager"}, owner[m] \in S PROVE FALSE
    OBVIOUS
  <2>1. m \in Mutexes /\ owner[m] \in Contexts
    BY FactoryAssumption
  <2>2. pc[owner[m]] \in Holders[m]
    BY <2>1 DEF OwnersHold
  <2> QED
    BY <1>2, <2>1, <2>2, WantsWhat
<1>4. owner["storage"] \notin S
  <2> SUFFICES ASSUME owner["storage"] \in S PROVE FALSE
    OBVIOUS
  <2>1. "storage" \in Mutexes /\ owner["storage"] \in Contexts
    BY FactoryAssumption
  <2>2. pc[owner["storage"]] \in Holders["storage"]
    BY <2>1 DEF OwnersHold
  <2>3. PICK d \in S : Waits(owner["storage"], d)
    BY <1>2, <2>1
  <2>4. wants[pc[owner["storage"]]] = "supplier"
    BY <2>2, <2>3, WantsWhat
  <2> QED
    BY <1>3, <2>3, <2>4
<1>5. \A c, d \in S : ~Waits(c, d)
  BY <1>3, <1>4, WantsWhat, FactoryAssumption
\* So everybody in S is interrupted by somebody in S, up to the handler that runs.
<1>6. \A c \in S : \E d \in S : Covers(d, c)
  BY <1>1, <1>5 DEF WaitsFor
<1>7. ASSUME NEW h \in Handlers, NEW t \in Threads, h \in S,
             nest[t] = <<h>> \/ \E g \in Handlers : nest[t] = <<h, g>>
      PROVE  FALSE
  <2>1. PICK d \in S : Covers(d, h)
    BY <1>6, <1>7
  <2>2. PICK u \in Threads : nest[u] = <<d, h>> /\ d \in Handlers
    BY <2>1, CoversCases, PthreadsAssumption DEF Contexts
  <2>3. u = t
    BY <1>7, <2>2 DEF RunsOn, Stacked
  <2>4. d = h
    BY <1>7, <2>2, <2>3
  <2>5. <<h, h>> \in Stacks
    BY <2>2, <2>4 DEF Stacked
  <2> QED
    BY <2>5, FactoryAssumption DEF Stacks
<1>8. PICK c \in S, d \in S : Covers(d, c)
  BY <1>1, <1>6
<1>9. PICK e \in S : Covers(e, d)
  BY <1>6
<1>10. /\ d \in Handlers /\ e \in Handlers
       /\ \E t \in Threads : nest[t] = <<e, d>>
  BY <1>8, <1>9, CoversCases, PthreadsAssumption DEF Contexts
<1> QED
  BY <1>7, <1>10

\* Deadlock has one cause: only while a handler runs on top of a context that owns a
\* mutex can contexts wait for each other for ever, whichever threads are interrupted
\* and however handlers overlap (factory.c:38-140, 153-209, 219-244).
THEOREM DeadlockCause == Spec => []OnlyHandlersDeadlock
<1>1. IInv /\ OwnersHold /\ Stacked /\ [Next]_vars => OwnersHold' /\ Stacked'
  BY NextOwners
<1>2. IInv /\ OwnersHold /\ Stacked => OnlyHandlersDeadlock
  BY LockOrder DEF OnlyHandlersDeadlock
<1> QED
  BY Inductive, InitLocks, <1>1, <1>2, PTL DEF Spec

=============================================================================
