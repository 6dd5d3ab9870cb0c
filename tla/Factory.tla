------------------------------ MODULE Factory -------------------------------
(***************************************************************************)
(* Klausur/factory.c: makers turn wax and wicks into candles, the store    *)
(* manager delivers the candles when called, the SIGALRM handler buys      *)
(* material or calls the manager in turn, and SIGTERM, SIGINT or SIGQUIT   *)
(* shut the program down.                                                  *)
(*                                                                         *)
(* The three numbers of the store are accessed in steps of their own       *)
(* between the lock and the unlock of storage.mutex.                       *)
(***************************************************************************)
EXTENDS Pthreads, Integers

CONSTANTS
  Makers,             \* the threads running createCandle (6 in the program)
  Manager, Main,      \* the thread running manageStorage and the main thread
  Alarm,              \* the run of purchase
  Shutdowns,          \* the runs of graceful_shutdown: signals the user sends
  STORAGE_MAX_COUNT,  \* 30
  INITIAL_WACHS,      \* 18
  INITIAL_DOCHT,      \* 6
  WachsAmounts,       \* what rand() % 60 may return
  DochtAmounts,       \* what rand() % 20 may return
  WACHS_BOUND,        \* bound of the model: wax bought in all
  DOCHT_BOUND         \* bound of the model: wicks bought in all

ASSUME FactoryAssumption ==
  /\ Threads = Makers \cup {Manager, Main}
  /\ Manager \notin Makers /\ Main \notin Makers /\ Manager # Main
  /\ Handlers = {Alarm} \cup Shutdowns
  /\ Alarm \notin Shutdowns
  /\ Mutexes = {"storage", "supplier", "lager"}
  /\ Conds = {"supplier", "lager"}
  /\ STORAGE_MAX_COUNT \in Nat \ {0}
  /\ INITIAL_WACHS \in Nat /\ INITIAL_DOCHT \in Nat
  /\ WACHS_BOUND \in Nat /\ DOCHT_BOUND \in Nat
  /\ WachsAmounts \subseteq Nat /\ 0 \in WachsAmounts
  /\ DochtAmounts \subseteq Nat /\ 0 \in DochtAmounts

VARIABLES
  kerzen, wachs, docht, \* the fields of storage
  supplierInformed,     \* has the manager been called?
  shutdownFlag,
  ablaufcounter,        \* what the next purchase is for
  alarmSet,             \* an alarm has been set and has not yet been delivered
  boughtWachs, boughtDocht, delivered \* history: bought and delivered in all

store == <<kerzen, wachs, docht>>
history == <<boughtWachs, boughtDocht, delivered>>
flags == <<supplierInformed, shutdownFlag, ablaufcounter, alarmSet>>
data == <<store, history, flags>>
vars == <<pthreadVars, data>>

Init ==
  /\ PthreadsInit([c \in Contexts |->
       IF c \in Makers THEN "maker_loop"
       ELSE IF c = Manager THEN "manager_loop"
       ELSE IF c = Main THEN "main_alarm"
       ELSE "idle"])
  /\ kerzen = 0 /\ wachs = INITIAL_WACHS /\ docht = INITIAL_DOCHT
  /\ supplierInformed = 0 /\ shutdownFlag = 0 /\ ablaufcounter = 0
  /\ alarmSet = FALSE
  /\ boughtWachs = 0 /\ boughtDocht = 0 /\ delivered = 0

-----------------------------------------------------------------------------
(* createCandle *)

\* while(!shutdownFlag)
MakerLoop(k) ==
  /\ Step(k, "maker_loop", IF shutdownFlag = 0 THEN "maker_lock" ELSE "done")
  /\ UNCHANGED <<owner, waiting, data>>

\* Faulty variant: the store is not locked.
MakerLockNot(k) ==
  /\ Step(k, "maker_lock", "maker_flag")
  /\ UNCHANGED <<owner, waiting, data>>

MakerLock(k) ==
  /\ Step(k, "maker_lock", "maker_flag")
  /\ Lock(k, "storage")
  /\ UNCHANGED <<waiting, data>>

\* if(shutdownFlag): unlock and leave the loop
MakerFlag(k) ==
  /\ IF shutdownFlag = 0
       THEN Step(k, "maker_flag", "maker_check") /\ UNCHANGED owner
       ELSE Step(k, "maker_flag", "done") /\ Unlock("storage")
  /\ UNCHANGED <<waiting, data>>

HasRoomAndMaterial == kerzen < STORAGE_MAX_COUNT /\ wachs >= 3 /\ docht >= 1

MakerCheck(k) ==
  /\ Step(k, "maker_check", IF HasRoomAndMaterial THEN "maker_take" ELSE "maker_none")
  /\ UNCHANGED <<owner, waiting, data>>

MakerTake(k) ==
  /\ Step(k, "maker_take", "maker_make")
  /\ wachs' = wachs - 3
  /\ docht' = docht - 1
  /\ UNCHANGED <<owner, waiting, kerzen, history, flags>>

\* Faulty variant: a shutdown during the sleep makes the maker leave at once.
MakerMakeUnlessShutdown(k) ==
  /\ Step(k, "maker_make", "maker_loop")
  /\ kerzen' = IF shutdownFlag = 0 THEN kerzen + 1 ELSE kerzen
  /\ Unlock("storage")
  /\ UNCHANGED <<waiting, wachs, docht, history, flags>>

\* after sleep(1), which keeps storage.mutex
MakerMake(k) ==
  /\ Step(k, "maker_make", "maker_loop")
  /\ kerzen' = kerzen + 1
  /\ Unlock("storage")
  /\ UNCHANGED <<waiting, wachs, docht, history, flags>>

MakerNone(k) ==
  /\ Step(k, "maker_none", "maker_waitlock")
  /\ Unlock("storage")
  /\ UNCHANGED <<waiting, data>>

MakerWaitLock(k) ==
  /\ Step(k, "maker_waitlock", "maker_wait")
  /\ Lock(k, "lager")
  /\ UNCHANGED <<waiting, data>>

\* The wait is not guarded by a test of the store or of shutdownFlag.
MakerWait(k) ==
  /\ Step(k, "maker_wait", "maker_waiting")
  /\ CondSleep(k, "lager", "lager")
  /\ UNCHANGED data

MakerWake(k) ==
  /\ Step(k, "maker_waiting", "maker_awake")
  /\ CondReturn(k, "lager", "lager")
  /\ UNCHANGED data

MakerAwake(k) ==
  /\ Step(k, "maker_awake", "maker_loop")
  /\ Unlock("lager")
  /\ UNCHANGED <<waiting, data>>

CreateCandle(k) ==
  \/ MakerLoop(k) \/ MakerLock(k) \/ MakerFlag(k) \/ MakerCheck(k) \/ MakerTake(k)
  \/ MakerMake(k) \/ MakerNone(k) \/ MakerWaitLock(k) \/ MakerWait(k)
  \/ MakerWake(k) \/ MakerAwake(k)

-----------------------------------------------------------------------------
(* manageStorage *)

ManagerLoop ==
  /\ Step(Manager, "manager_loop", IF shutdownFlag = 0 THEN "manager_lock" ELSE "done")
  /\ UNCHANGED <<owner, waiting, data>>

ManagerLock ==
  /\ Step(Manager, "manager_lock", "manager_wait")
  /\ Lock(Manager, "supplier")
  /\ UNCHANGED <<waiting, data>>

\* The wait is not guarded by a test of supplierInformed or shutdownFlag.
ManagerWait ==
  /\ Step(Manager, "manager_wait", "manager_waiting")
  /\ CondSleep(Manager, "supplier", "supplier")
  /\ UNCHANGED data

ManagerWake ==
  /\ Step(Manager, "manager_waiting", "manager_awake")
  /\ CondReturn(Manager, "supplier", "supplier")
  /\ UNCHANGED data

\* Faulty variant: supplier_mutex is kept during the delivery.
ManagerAwakeKeeping ==
  /\ Step(Manager, "manager_awake", "manager_called")
  /\ UNCHANGED <<owner, waiting, data>>

ManagerAwake ==
  /\ Step(Manager, "manager_awake", "manager_called")
  /\ Unlock("supplier")
  /\ UNCHANGED <<waiting, data>>

ManagerCalled ==
  /\ Step(Manager, "manager_called", IF shutdownFlag = 0 THEN "manager_take" ELSE "manager_loop")
  /\ UNCHANGED <<owner, waiting, data>>

ManagerTake ==
  /\ Step(Manager, "manager_take", "manager_empty")
  /\ Lock(Manager, "storage")
  /\ UNCHANGED <<waiting, data>>

ManagerEmpty ==
  /\ Step(Manager, "manager_empty", "manager_unlock")
  /\ kerzen' = 0
  /\ delivered' = delivered + kerzen
  /\ UNCHANGED <<owner, waiting, wachs, docht, boughtWachs, boughtDocht, flags>>

\* after sleep(1), which keeps storage.mutex
ManagerUnlock ==
  /\ Step(Manager, "manager_unlock", "manager_reset")
  /\ Unlock("storage")
  /\ UNCHANGED <<waiting, data>>

\* supplierInformed = 0, after storage.mutex has been given up
ManagerReset ==
  /\ Step(Manager, "manager_reset", "manager_wakelock")
  /\ supplierInformed' = 0
  /\ UNCHANGED <<owner, waiting, store, history, shutdownFlag, ablaufcounter, alarmSet>>

ManagerWakeLock ==
  /\ Step(Manager, "manager_wakelock", "manager_wakeall")
  /\ Lock(Manager, "lager")
  /\ UNCHANGED <<waiting, data>>

ManagerWakeAll ==
  /\ Step(Manager, "manager_wakeall", "manager_loop")
  /\ Broadcast("lager")
  /\ Unlock("lager")
  /\ UNCHANGED data

ManageStorage ==
  \/ ManagerLoop \/ ManagerLock \/ ManagerWait \/ ManagerWake \/ ManagerAwake
  \/ ManagerCalled \/ ManagerTake \/ ManagerEmpty \/ ManagerUnlock \/ ManagerReset
  \/ ManagerWakeLock \/ ManagerWakeAll

-----------------------------------------------------------------------------
(* purchase, the SIGALRM handler *)

\* The handler blocks no other signal, and no handler blocks SIGALRM.
AlarmExpires(t) ==
  /\ alarmSet
  /\ Deliver(Alarm, t, "purchase_lock")
  /\ alarmSet' = FALSE
  /\ UNCHANGED <<store, history, supplierInformed, shutdownFlag, ablaufcounter>>

PurchaseLock ==
  /\ Step(Alarm, "purchase_lock", "purchase_turn")
  /\ Lock(Alarm, "storage")
  /\ UNCHANGED <<waiting, data>>

PurchaseSkip ==
  /\ ablaufcounter = 0
  /\ Step(Alarm, "purchase_turn", "purchase_unlock")
  /\ ablaufcounter' = 1
  /\ UNCHANGED <<owner, waiting, store, history, supplierInformed, shutdownFlag, alarmSet>>

PurchaseWachs ==
  /\ ablaufcounter = 1
  /\ Step(Alarm, "purchase_turn", "purchase_unlock")
  /\ \E w \in WachsAmounts :
       /\ boughtWachs + w <= WACHS_BOUND
       /\ wachs' = wachs + w
       /\ boughtWachs' = boughtWachs + w
  /\ ablaufcounter' = 2
  /\ UNCHANGED <<owner, waiting, kerzen, docht, boughtDocht, delivered,
                 supplierInformed, shutdownFlag, alarmSet>>

\* Faulty variant: the turn after the wicks is the first one again.
PurchaseDochtLast ==
  /\ ablaufcounter = 2
  /\ Step(Alarm, "purchase_turn", "purchase_unlock")
  /\ \E d \in DochtAmounts :
       /\ boughtDocht + d <= DOCHT_BOUND
       /\ docht' = docht + d
       /\ boughtDocht' = boughtDocht + d
  /\ ablaufcounter' = 0
  /\ UNCHANGED <<owner, waiting, kerzen, wachs, boughtWachs, delivered,
                 supplierInformed, shutdownFlag, alarmSet>>

PurchaseDocht ==
  /\ ablaufcounter = 2
  /\ Step(Alarm, "purchase_turn", "purchase_unlock")
  /\ \E d \in DochtAmounts :
       /\ boughtDocht + d <= DOCHT_BOUND
       /\ docht' = docht + d
       /\ boughtDocht' = boughtDocht + d
  /\ ablaufcounter' = 3
  /\ UNCHANGED <<owner, waiting, kerzen, wachs, boughtWachs, delivered,
                 supplierInformed, shutdownFlag, alarmSet>>

\* Lieferant benachrichtigen, unless he has been called already
PurchaseAsk ==
  /\ ablaufcounter = 3
  /\ Step(Alarm, "purchase_turn",
          IF supplierInformed = 0 THEN "purchase_calllock" ELSE "purchase_restart")
  /\ UNCHANGED <<owner, waiting, data>>

PurchaseCallLock ==
  /\ Step(Alarm, "purchase_calllock", "purchase_call")
  /\ Lock(Alarm, "supplier")
  /\ UNCHANGED <<waiting, data>>

\* pthread_cond_signal(&supplier_cond) and the unlock of supplier_mutex
PurchaseCall ==
  /\ Step(Alarm, "purchase_call", "purchase_called")
  /\ Signal("supplier")
  /\ Unlock("supplier")
  /\ UNCHANGED data

PurchaseCalled ==
  /\ Step(Alarm, "purchase_called", "purchase_restart")
  /\ supplierInformed' = 1
  /\ UNCHANGED <<owner, waiting, store, history, shutdownFlag, ablaufcounter, alarmSet>>

\* Faulty variant: the last turn, too, counts up.
PurchaseRestartNot ==
  /\ Step(Alarm, "purchase_restart", "purchase_unlock")
  /\ ablaufcounter' = ablaufcounter + 1
  /\ UNCHANGED <<owner, waiting, store, history, supplierInformed, shutdownFlag, alarmSet>>

PurchaseRestart ==
  /\ Step(Alarm, "purchase_restart", "purchase_unlock")
  /\ ablaufcounter' = 0
  /\ UNCHANGED <<owner, waiting, store, history, supplierInformed, shutdownFlag, alarmSet>>

PurchaseUnlock ==
  /\ Step(Alarm, "purchase_unlock", "purchase_wakelock")
  /\ Unlock("storage")
  /\ UNCHANGED <<waiting, data>>

PurchaseWakeLock ==
  /\ Step(Alarm, "purchase_wakelock", "purchase_wakeall")
  /\ Lock(Alarm, "lager")
  /\ UNCHANGED <<waiting, data>>

\* Faulty variant: no maker is woken.
PurchaseWakeNobody ==
  /\ Step(Alarm, "purchase_wakeall", "purchase_alarm")
  /\ Unlock("lager")
  /\ UNCHANGED <<waiting, data>>

PurchaseWakeAll ==
  /\ Step(Alarm, "purchase_wakeall", "purchase_alarm")
  /\ Broadcast("lager")
  /\ Unlock("lager")
  /\ UNCHANGED data

\* alarm(5) and return
PurchaseAlarm ==
  /\ pc[Alarm] = "purchase_alarm"
  /\ Runnable(Alarm)
  /\ Return(Alarm, "idle")
  /\ alarmSet' = TRUE
  /\ UNCHANGED <<owner, waiting, store, history, supplierInformed, shutdownFlag, ablaufcounter>>

Purchase ==
  \/ PurchaseLock \/ PurchaseSkip \/ PurchaseWachs \/ PurchaseDocht \/ PurchaseAsk
  \/ PurchaseCallLock \/ PurchaseCall \/ PurchaseCalled \/ PurchaseRestart
  \/ PurchaseUnlock \/ PurchaseWakeLock \/ PurchaseWakeAll \/ PurchaseAlarm

-----------------------------------------------------------------------------
(* graceful_shutdown, the handler of SIGTERM, SIGINT and SIGQUIT *)

\* The handler blocks these three signals on its thread, but not SIGALRM.
ShutdownArrives(h, t) ==
  /\ ~Handling(t, Shutdowns)
  /\ pc[Main] # "done"
  /\ Deliver(h, t, "shutdown_flag")
  /\ UNCHANGED data

ShutdownFlag(h) ==
  /\ Step(h, "shutdown_flag", "shutdown_lagerlock")
  /\ shutdownFlag' = 1
  /\ UNCHANGED <<owner, waiting, store, history, supplierInformed, ablaufcounter, alarmSet>>

ShutdownLagerLock(h) ==
  /\ Step(h, "shutdown_lagerlock", "shutdown_makers")
  /\ Lock(h, "lager")
  /\ UNCHANGED <<waiting, data>>

ShutdownMakers(h) ==
  /\ Step(h, "shutdown_makers", "shutdown_supplierlock")
  /\ Broadcast("lager")
  /\ Unlock("lager")
  /\ UNCHANGED data

ShutdownSupplierLock(h) ==
  /\ Step(h, "shutdown_supplierlock", "shutdown_supplier")
  /\ Lock(h, "supplier")
  /\ UNCHANGED <<waiting, data>>

ShutdownSupplier(h) ==
  /\ pc[h] = "shutdown_supplier"
  /\ Runnable(h)
  /\ Broadcast("supplier")
  /\ Unlock("supplier")
  /\ Return(h, "spent")
  /\ UNCHANGED data

GracefulShutdown(h) ==
  \/ ShutdownFlag(h) \/ ShutdownLagerLock(h) \/ ShutdownMakers(h)
  \/ ShutdownSupplierLock(h) \/ ShutdownSupplier(h)

-----------------------------------------------------------------------------
(* main, after the signal handlers have been registered and the threads created *)

MainAlarm ==
  /\ Step(Main, "main_alarm", "main_join")
  /\ alarmSet' = TRUE
  /\ UNCHANGED <<owner, waiting, store, history, supplierInformed, shutdownFlag, ablaufcounter>>

\* the joins, and the end of the process
MainJoin ==
  /\ \A t \in Threads \ {Main} : pc[t] = "done"
  /\ Step(Main, "main_join", "done")
  /\ UNCHANGED <<owner, waiting, data>>

MainThread == MainAlarm \/ MainJoin

-----------------------------------------------------------------------------
Wakeup == \E v \in Conds : SpuriousWakeup(v) /\ UNCHANGED data

Next ==
  \/ \E k \in Makers : CreateCandle(k)
  \/ ManageStorage
  \/ Purchase
  \/ \E h \in Shutdowns : GracefulShutdown(h)
  \/ MainThread
  \/ \E t \in Threads : AlarmExpires(t)
  \/ \E h \in Shutdowns, t \in Threads : ShutdownArrives(h, t)
  \/ Wakeup

Spec == Init /\ [][Next]_vars

\* Every thread and handler that can run again and again is scheduled, and a
\* timer expires.  Strong fairness, because the makers sleep with storage.mutex
\* held: another thread that wants it finds it free again and again only.
\* Signals of the user and spurious wakeups need never happen.
Fairness ==
  /\ \A k \in Makers : SF_vars(CreateCandle(k))
  /\ SF_vars(ManageStorage)
  /\ SF_vars(Purchase)
  /\ \A h \in Shutdowns : SF_vars(GracefulShutdown(h))
  /\ WF_vars(MainThread)
  /\ WF_vars(\E t \in Threads : AlarmExpires(t))

FairSpec == Spec /\ Fairness

-----------------------------------------------------------------------------
(* Properties *)

MakerLabels ==
  {"maker_loop", "maker_lock", "maker_flag", "maker_check", "maker_take", "maker_make",
   "maker_none", "maker_waitlock", "maker_wait", "maker_waiting", "maker_awake", "done"}

ManagerLabels ==
  {"manager_loop", "manager_lock", "manager_wait", "manager_waiting", "manager_awake",
   "manager_called", "manager_take", "manager_empty", "manager_unlock", "manager_reset",
   "manager_wakelock", "manager_wakeall", "done"}

MainLabels == {"main_alarm", "main_join", "done"}

AlarmLabels ==
  {"purchase_lock", "purchase_turn", "purchase_calllock", "purchase_call",
   "purchase_called", "purchase_restart", "purchase_unlock", "purchase_wakelock",
   "purchase_wakeall", "purchase_alarm", "idle"}

ShutdownLabels ==
  {"shutdown_flag", "shutdown_lagerlock", "shutdown_makers", "shutdown_supplierlock",
   "shutdown_supplier", "idle", "spent"}

Labels ==
  MakerLabels \cup ManagerLabels \cup MainLabels \cup AlarmLabels \cup ShutdownLabels

LabelsOf(c) ==
  IF c \in Makers THEN MakerLabels
  ELSE IF c = Manager THEN ManagerLabels
  ELSE IF c = Main THEN MainLabels
  ELSE IF c = Alarm THEN AlarmLabels
  ELSE ShutdownLabels

\* Every variable has a value of its type, and every context of the program is
\* at a statement of the function it runs.
TypeOK ==
  /\ pc \in [Contexts -> Labels]
  /\ \A c \in Contexts : pc[c] \in LabelsOf(c)
  /\ owner \in [Mutexes -> Contexts \cup {Nobody}]
  /\ waiting \in [Conds -> SUBSET Contexts]
  /\ nest \in [Threads -> Seq(Handlers)]
  /\ kerzen \in Int /\ wachs \in Int /\ docht \in Int
  /\ supplierInformed \in {0, 1} /\ shutdownFlag \in {0, 1}
  /\ ablaufcounter \in 0 .. 3
  /\ alarmSet \in BOOLEAN
  /\ boughtWachs \in Nat /\ boughtDocht \in Nat /\ delivered \in Nat

\* The store never holds more candles than it has room for and never owes
\* material, although the test of the three numbers and their changes are apart
\* (factory.c:51-57), and the delivery and the purchases change them too.
StoreBound == kerzen \in 0 .. STORAGE_MAX_COUNT /\ wachs >= 0 /\ docht >= 0

\* The makers that have taken material and not yet stored the candle.
InWork == {k \in Makers : pc[k] = "maker_make"}

\* Nothing is lost or made of nothing: all wax and all wicks ever owned are in
\* the store, in a candle in the store, in one delivered, or in work
\* (factory.c:54-57, 122, 163, 168).
Conservation ==
  LET made == kerzen + delivered + Cardinality(InWork)
  IN /\ wachs + 3 * made = INITIAL_WACHS + boughtWachs
     /\ docht + made = INITIAL_DOCHT + boughtDocht

\* Where storage.mutex is held.
StorageHolding ==
  {"maker_flag", "maker_check", "maker_take", "maker_make", "maker_none",
   "manager_empty", "manager_unlock", "purchase_turn", "purchase_calllock",
   "purchase_call", "purchase_called", "purchase_restart", "purchase_unlock"}

\* Only the owner of storage.mutex is between locking and unlocking it
\* (factory.c:38-67, 118-127, 153-195), so at most one context is.
StorageExclusive ==
  \A c \in Contexts : pc[c] \in StorageHolding => owner["storage"] = c

\* The maker still has the material and the room it has seen, also after the sleep
\* (factory.c:51-57).
SeenIsTrue ==
  \A k \in Makers :
    /\ pc[k] = "maker_take" => HasRoomAndMaterial
    /\ pc[k] = "maker_make" => kerzen < STORAGE_MAX_COUNT

\* What makes the bounds inductive, and Conservation relative to it: exclusion, and
\* that nothing a maker has seen changes under it.
IInv == TypeOK /\ StoreBound /\ StorageExclusive /\ SeenIsTrue

\* The mutex that is locked at each label.
StorageWanted == {"maker_lock", "manager_take", "purchase_lock"}
SupplierWanted ==
  {"manager_lock", "manager_waiting", "purchase_calllock", "shutdown_supplierlock"}
LagerWanted ==
  {"maker_waitlock", "maker_waiting", "manager_wakelock", "purchase_wakelock",
   "shutdown_lagerlock"}

wants ==
  [l \in StorageWanted \cup SupplierWanted \cup LagerWanted |->
     IF l \in StorageWanted THEN "storage"
     ELSE IF l \in SupplierWanted THEN "supplier" ELSE "lager"]

\* Waiting closes a circle in one way only: a handler runs on top of a context that owns
\* a mutex, a thread or the other handler (SIGTERM in a purchase that owns lager_mutex or
\* supplier_mutex, the sa_mask of SIGALRM being empty, factory.c:175-209, 219).  Otherwise
\* a purchase or a shutdown gets its mutexes, whatever the threads hold and wait for, and
\* the nesting of supplier_mutex in storage.mutex (factory.c:153-195) does no harm.
OnlyHandlersDeadlock == InterruptedHoldNothing => ~Hung(wants)

\* Will the manager still be woken, or need it not?  The shutdown misses a manager that
\* has tested the flag and does not wait yet (factory.c:94-103), and a purchase calls
\* it only if it does not count as informed.
ManagerReached ==
  \/ pc[Manager] \notin {"manager_lock", "manager_wait", "manager_waiting"}
  \/ /\ pc[Manager] = "manager_waiting"
     /\ \/ Manager \notin waiting["supplier"]
        \/ \E h \in Shutdowns : pc[h] \notin {"idle", "spent"}
        \/ supplierInformed = 0 /\ pc[Alarm] # "purchase_called"

\* After a shutdown signal every maker ends, also one that was about to sleep
\* when the handler broadcast: the next purchase wakes it (factory.c:198-209).  The
\* manager ends too, unless it is one that the broadcast and the calls miss.  Both unless
\* a handler on top of the owner of a mutex makes the program hang.
ShutdownEnds ==
  /\ (shutdownFlag = 1) ~> ((\A k \in Makers : pc[k] = "done") \/ Hung(wants))
  /\ (shutdownFlag = 1 /\ ManagerReached) ~> (pc[Manager] = "done" \/ Hung(wants))

\* A manager that sleeps and does not count as informed, nor is about to, is
\* called again, by the fourth purchase of the cycle at the latest
\* (factory.c:171-190), also one that slept through the shutdown, if no handler on top
\* of the owner of a mutex makes the program hang.
SleepingManagerIsCalled ==
  (Manager \in waiting["supplier"] /\ supplierInformed = 0 /\ pc[Alarm] # "purchase_called")
    ~> (Manager \notin waiting["supplier"] \/ Hung(wants))

=============================================================================
