------------------------------- MODULE Bakery -------------------------------
(***************************************************************************)
(* Bakery/main.c: bakers fill a store, a supplier empties it when called,  *)
(* the SIGALRM handler takes samples, and SIGTERM, SIGINT or SIGQUIT shut  *)
(* the program down.                                                       *)
(*                                                                         *)
(* A label stands for one access to shared data that another context could *)
(* interleave with; accesses to storage.count under storage.mutex are      *)
(* separate steps, so that it is the mutex that protects them.             *)
(***************************************************************************)
EXTENDS Pthreads, Integers

CONSTANTS
  Bakers,                 \* the baking threads (6 in the program)
  Supplier, Main,         \* the delivery thread and the main thread
  Alarm,                  \* the run of qualityCheck
  Shutdowns,              \* the runs of graceful_shutdown: signals the user sends
  STORAGE_MAX_COUNT,      \* 30
  STORAGE_SUPPLIER_COUNT, \* 20
  QUALITY_COUNT,          \* loaves one quality check takes, 4
  UninitResetHand         \* what the uninitialised sa_flags may say of SA_RESETHAND

ASSUME BakeryAssumption ==
  /\ Threads = Bakers \cup {Supplier, Main}
  /\ Supplier \notin Bakers /\ Main \notin Bakers /\ Supplier # Main
  /\ Handlers = {Alarm} \cup Shutdowns
  /\ Alarm \notin Shutdowns
  /\ Mutexes = {"storage", "supplier", "baking"}
  /\ Conds = {"supplier", "baking"}
  /\ STORAGE_MAX_COUNT \in Nat \ {0}
  /\ STORAGE_SUPPLIER_COUNT \in Nat
  /\ QUALITY_COUNT \in Nat
  /\ UninitResetHand \subseteq BOOLEAN

VARIABLES
  count,            \* storage.count
  supplierInformed, \* has the supplier been called?
  shutdownFlag,
  sample,           \* the local variable count of qualityCheck
  alarmSet,         \* an alarm has been set and has not yet been delivered
  resetHand         \* SA_RESETHAND in the flags SIGALRM was registered with

data == <<count, supplierInformed, shutdownFlag, sample, alarmSet, resetHand>>
vars == <<pthreadVars, data>>

Init ==
  /\ PthreadsInit([c \in Contexts |->
       IF c \in Bakers THEN "baker_loop"
       ELSE IF c = Supplier THEN "supplier_loop"
       ELSE IF c = Main THEN "main_alarm"
       ELSE "idle"])
  /\ count = 0
  /\ supplierInformed = 0
  /\ shutdownFlag = 0
  /\ sample = 0
  /\ alarmSet = FALSE
  /\ resetHand \in UninitResetHand

-----------------------------------------------------------------------------
(* bakingBread *)

\* while(!shutdownFlag)
BakerLoop(b) ==
  /\ Step(b, "baker_loop", IF shutdownFlag = 0 THEN "baker_lock" ELSE "done")
  /\ UNCHANGED <<owner, waiting, data>>

BakerLock(b) ==
  /\ Step(b, "baker_lock", "baker_check")
  /\ Lock(b, "storage")
  /\ UNCHANGED <<waiting, data>>

\* Faulty variant: room for one loaf too many.
BakerCheckOffByOne(b) ==
  /\ Step(b, "baker_check",
          IF count <= STORAGE_MAX_COUNT THEN "baker_add" ELSE "baker_full")
  /\ UNCHANGED <<owner, waiting, data>>

BakerCheck(b) ==
  /\ Step(b, "baker_check",
          IF count < STORAGE_MAX_COUNT THEN "baker_add" ELSE "baker_full")
  /\ UNCHANGED <<owner, waiting, data>>

BakerAdd(b) ==
  /\ Step(b, "baker_add",
          IF count + 1 >= STORAGE_SUPPLIER_COUNT THEN "baker_ask" ELSE "baker_unlock")
  /\ count' = count + 1
  /\ UNCHANGED <<owner, waiting, supplierInformed, shutdownFlag, sample, alarmSet, resetHand>>

\* supplierInformed is read here under storage.mutex, but DeliverReset writes
\* it without that mutex.
BakerAsk(b) ==
  /\ Step(b, "baker_ask",
          IF supplierInformed = 0 THEN "baker_calllock" ELSE "baker_unlock")
  /\ UNCHANGED <<owner, waiting, data>>

BakerCallLock(b) ==
  /\ Step(b, "baker_calllock", "baker_call")
  /\ Lock(b, "supplier")
  /\ UNCHANGED <<waiting, data>>

\* pthread_cond_signal(&supplier_cond) and the unlock of supplier_mutex
BakerCall(b) ==
  /\ Step(b, "baker_call", "baker_called")
  /\ Signal("supplier")
  /\ Unlock("supplier")
  /\ UNCHANGED data

BakerCalled(b) ==
  /\ Step(b, "baker_called", "baker_unlock")
  /\ supplierInformed' = 1
  /\ UNCHANGED <<owner, waiting, count, shutdownFlag, sample, alarmSet, resetHand>>

\* unlock, then sleep(1): the next step may take as long as it likes
BakerUnlock(b) ==
  /\ Step(b, "baker_unlock", "baker_loop")
  /\ Unlock("storage")
  /\ UNCHANGED <<waiting, data>>

BakerFull(b) ==
  /\ Step(b, "baker_full", "baker_waitlock")
  /\ Unlock("storage")
  /\ UNCHANGED <<waiting, data>>

BakerWaitLock(b) ==
  /\ Step(b, "baker_waitlock", "baker_wait")
  /\ Lock(b, "baking")
  /\ UNCHANGED <<waiting, data>>

\* The wait is not guarded by a test of count or shutdownFlag.
BakerWait(b) ==
  /\ Step(b, "baker_wait", "baker_waiting")
  /\ CondSleep(b, "baking", "baking")
  /\ UNCHANGED data

BakerWake(b) ==
  /\ Step(b, "baker_waiting", "baker_awake")
  /\ CondReturn(b, "baking", "baking")
  /\ UNCHANGED data

BakerAwake(b) ==
  /\ Step(b, "baker_awake", "baker_loop")
  /\ Unlock("baking")
  /\ UNCHANGED <<waiting, data>>

Baker(b) ==
  \/ BakerLoop(b) \/ BakerLock(b) \/ BakerCheck(b) \/ BakerAdd(b) \/ BakerAsk(b)
  \/ BakerCallLock(b) \/ BakerCall(b) \/ BakerCalled(b) \/ BakerUnlock(b)
  \/ BakerFull(b) \/ BakerWaitLock(b) \/ BakerWait(b) \/ BakerWake(b) \/ BakerAwake(b)

-----------------------------------------------------------------------------
(* deliverBread *)

DeliverLoop ==
  /\ Step(Supplier, "supplier_loop",
          IF shutdownFlag = 0 THEN "supplier_lock" ELSE "done")
  /\ UNCHANGED <<owner, waiting, data>>

DeliverLock ==
  /\ Step(Supplier, "supplier_lock", "supplier_wait")
  /\ Lock(Supplier, "supplier")
  /\ UNCHANGED <<waiting, data>>

\* The wait is not guarded by a test of supplierInformed or shutdownFlag.
DeliverWait ==
  /\ Step(Supplier, "supplier_wait", "supplier_waiting")
  /\ CondSleep(Supplier, "supplier", "supplier")
  /\ UNCHANGED data

DeliverWake ==
  /\ Step(Supplier, "supplier_waiting", "supplier_awake")
  /\ CondReturn(Supplier, "supplier", "supplier")
  /\ UNCHANGED data

DeliverAwake ==
  /\ Step(Supplier, "supplier_awake", "supplier_called")
  /\ Unlock("supplier")
  /\ UNCHANGED <<waiting, data>>

\* if (!shutdownFlag), then sleep(4): the drive to the store
DeliverCalled ==
  /\ Step(Supplier, "supplier_called",
          IF shutdownFlag = 0 THEN "supplier_take" ELSE "supplier_loop")
  /\ UNCHANGED <<owner, waiting, data>>

DeliverTake ==
  /\ Step(Supplier, "supplier_take", "supplier_empty")
  /\ Lock(Supplier, "storage")
  /\ UNCHANGED <<waiting, data>>

DeliverEmpty ==
  /\ Step(Supplier, "supplier_empty", "supplier_reset")
  /\ count' = 0
  /\ Unlock("storage")
  /\ UNCHANGED <<waiting, supplierInformed, shutdownFlag, sample, alarmSet, resetHand>>

\* supplierInformed = 0, after storage.mutex has been given up
DeliverReset ==
  /\ Step(Supplier, "supplier_reset", "supplier_wakelock")
  /\ supplierInformed' = 0
  /\ UNCHANGED <<owner, waiting, count, shutdownFlag, sample, alarmSet, resetHand>>

DeliverWakeLock ==
  /\ Step(Supplier, "supplier_wakelock", "supplier_wakeall")
  /\ Lock(Supplier, "baking")
  /\ UNCHANGED <<waiting, data>>

DeliverWakeAll ==
  /\ Step(Supplier, "supplier_wakeall", "supplier_loop")
  /\ Broadcast("baking")
  /\ Unlock("baking")
  /\ UNCHANGED data

DeliverBread ==
  \/ DeliverLoop \/ DeliverLock \/ DeliverWait \/ DeliverWake \/ DeliverAwake
  \/ DeliverCalled \/ DeliverTake \/ DeliverEmpty \/ DeliverReset
  \/ DeliverWakeLock \/ DeliverWakeAll

-----------------------------------------------------------------------------
(* qualityCheck, the SIGALRM handler *)

\* The alarm goes off.  Its handler blocks no other signal, and no handler
\* blocks SIGALRM.  Under SA_RESETHAND the first delivery restores the default
\* action, and the second one kills the process.
AlarmExpires(t) ==
  /\ alarmSet
  /\ Deliver(Alarm, t, "quality_lock")
  /\ alarmSet' = FALSE
  /\ UNCHANGED <<count, supplierInformed, shutdownFlag, sample, resetHand>>

QualityLock ==
  /\ Step(Alarm, "quality_lock", "quality_read")
  /\ Lock(Alarm, "storage")
  /\ UNCHANGED <<waiting, data>>

\* Faulty variant: the larger of the two numbers.
QualityReadSwapped ==
  /\ Step(Alarm, "quality_read", "quality_take")
  /\ sample' = IF count < QUALITY_COUNT THEN QUALITY_COUNT ELSE count
  /\ UNCHANGED <<owner, waiting, count, supplierInformed, shutdownFlag, alarmSet, resetHand>>

QualityRead ==
  /\ Step(Alarm, "quality_read", "quality_take")
  /\ sample' = IF count < QUALITY_COUNT THEN count ELSE QUALITY_COUNT
  /\ UNCHANGED <<owner, waiting, count, supplierInformed, shutdownFlag, alarmSet, resetHand>>

\* Faulty variant: storage.mutex is not given back.
QualityTakeKeeping ==
  /\ Step(Alarm, "quality_take", "quality_wakelock")
  /\ count' = count - sample
  /\ sample' = 0
  /\ UNCHANGED <<owner, waiting, supplierInformed, shutdownFlag, alarmSet, resetHand>>

QualityTake ==
  /\ Step(Alarm, "quality_take", "quality_wakelock")
  /\ count' = count - sample
  /\ sample' = 0
  /\ Unlock("storage")
  /\ UNCHANGED <<waiting, supplierInformed, shutdownFlag, alarmSet, resetHand>>

QualityWakeLock ==
  /\ Step(Alarm, "quality_wakelock", "quality_wakeall")
  /\ Lock(Alarm, "baking")
  /\ UNCHANGED <<waiting, data>>

QualityWakeAll ==
  /\ Step(Alarm, "quality_wakeall", "quality_alarm")
  /\ Broadcast("baking")
  /\ Unlock("baking")
  /\ UNCHANGED data

\* Faulty variant: the handler does not set the next alarm.
QualityAlarmOnce ==
  /\ Runnable(Alarm)
  /\ pc[Alarm] = "quality_alarm"
  /\ Return(Alarm, "idle")
  /\ UNCHANGED <<owner, waiting, data>>

\* alarm(5) and return
QualityAlarm ==
  /\ Runnable(Alarm)
  /\ pc[Alarm] = "quality_alarm"
  /\ Return(Alarm, IF resetHand THEN "default" ELSE "idle")
  /\ alarmSet' = TRUE
  /\ UNCHANGED <<owner, waiting, count, supplierInformed, shutdownFlag, sample, resetHand>>

\* The default action of SIGALRM ends the process wherever it is.
AlarmKills ==
  /\ alarmSet
  /\ pc[Alarm] = "default"
  /\ pc[Main] # "done"
  /\ pc' = [c \in Contexts |-> "killed"]
  /\ alarmSet' = FALSE
  /\ UNCHANGED <<owner, waiting, nest, count, supplierInformed, shutdownFlag, sample, resetHand>>

QualityCheck ==
  \/ QualityLock \/ QualityRead \/ QualityTake
  \/ QualityWakeLock \/ QualityWakeAll \/ QualityAlarm

-----------------------------------------------------------------------------
(* graceful_shutdown, the handler of SIGTERM, SIGINT and SIGQUIT *)

\* The user sends a signal.  The handler blocks these three signals, but not
\* SIGALRM, while it runs on a thread.
ShutdownArrives(h, t) ==
  /\ ~Handling(t, Shutdowns)
  /\ pc[Main] # "done"
  /\ Deliver(h, t, "shutdown_flag")
  /\ UNCHANGED data

ShutdownFlag(h) ==
  /\ Step(h, "shutdown_flag", "shutdown_bakinglock")
  /\ shutdownFlag' = 1
  /\ UNCHANGED <<owner, waiting, count, supplierInformed, sample, alarmSet, resetHand>>

ShutdownBakingLock(h) ==
  /\ Step(h, "shutdown_bakinglock", "shutdown_bakers")
  /\ Lock(h, "baking")
  /\ UNCHANGED <<waiting, data>>

ShutdownBakers(h) ==
  /\ Step(h, "shutdown_bakers", "shutdown_supplierlock")
  /\ Broadcast("baking")
  /\ Unlock("baking")
  /\ UNCHANGED data

ShutdownSupplierLock(h) ==
  /\ Step(h, "shutdown_supplierlock", "shutdown_supplier")
  /\ Lock(h, "supplier")
  /\ UNCHANGED <<waiting, data>>

\* Faulty variant: nobody calls the supplier.
ShutdownSupplierNobody(h) ==
  /\ Runnable(h)
  /\ pc[h] = "shutdown_supplier"
  /\ Unlock("supplier")
  /\ Return(h, "spent")
  /\ UNCHANGED <<waiting, data>>

ShutdownSupplier(h) ==
  /\ Runnable(h)
  /\ pc[h] = "shutdown_supplier"
  /\ Broadcast("supplier")
  /\ Unlock("supplier")
  /\ Return(h, "spent")
  /\ UNCHANGED data

GracefulShutdown(h) ==
  \/ ShutdownFlag(h) \/ ShutdownBakingLock(h) \/ ShutdownBakers(h)
  \/ ShutdownSupplierLock(h) \/ ShutdownSupplier(h)

-----------------------------------------------------------------------------
(* main, after the signal handlers have been registered and the threads created *)

MainAlarm ==
  /\ Step(Main, "main_alarm", "main_join")
  /\ alarmSet' = TRUE
  /\ UNCHANGED <<owner, waiting, count, supplierInformed, shutdownFlag, sample, resetHand>>

\* the joins, and the end of the process
MainJoin ==
  /\ \A t \in Threads \ {Main} : pc[t] = "done"
  /\ Step(Main, "main_join", "done")
  /\ UNCHANGED <<owner, waiting, data>>

MainThread == MainAlarm \/ MainJoin

-----------------------------------------------------------------------------
Wakeup == \E v \in Conds : SpuriousWakeup(v) /\ UNCHANGED data

Next ==
  \/ \E b \in Bakers : Baker(b)
  \/ DeliverBread
  \/ QualityCheck
  \/ \E h \in Shutdowns : GracefulShutdown(h)
  \/ MainThread
  \/ \E t \in Threads : AlarmExpires(t)
  \/ \E h \in Shutdowns, t \in Threads : ShutdownArrives(h, t)
  \/ AlarmKills
  \/ Wakeup

Spec == Init /\ [][Next]_vars

\* Every thread and handler that can run again and again is scheduled, and a
\* timer expires.  Strong fairness, because a mutex is held for a moment and
\* free during the sleeps: a thread that wants it finds it free in the end.
\* Signals of the user and spurious wakeups need never happen.
Fairness ==
  /\ \A b \in Bakers : SF_vars(Baker(b))
  /\ SF_vars(DeliverBread)
  /\ SF_vars(QualityCheck)
  /\ \A h \in Shutdowns : SF_vars(GracefulShutdown(h))
  /\ WF_vars(MainThread)
  /\ WF_vars(\E t \in Threads : AlarmExpires(t))
  /\ WF_vars(AlarmKills)

FairSpec == Spec /\ Fairness

-----------------------------------------------------------------------------
(* Properties *)

BakerLabels ==
  {"baker_loop", "baker_lock", "baker_check", "baker_add", "baker_ask",
   "baker_calllock", "baker_call", "baker_called", "baker_unlock", "baker_full",
   "baker_waitlock", "baker_wait", "baker_waiting", "baker_awake", "done", "killed"}

SupplierLabels ==
  {"supplier_loop", "supplier_lock", "supplier_wait", "supplier_waiting",
   "supplier_awake", "supplier_called", "supplier_take", "supplier_empty",
   "supplier_reset", "supplier_wakelock", "supplier_wakeall", "done", "killed"}

MainLabels == {"main_alarm", "main_join", "done", "killed"}

AlarmLabels ==
  {"quality_lock", "quality_read", "quality_take", "quality_wakelock",
   "quality_wakeall", "quality_alarm", "idle", "default", "killed"}

ShutdownLabels ==
  {"shutdown_flag", "shutdown_bakinglock", "shutdown_bakers",
   "shutdown_supplierlock", "shutdown_supplier", "idle", "spent", "killed"}

Labels ==
  BakerLabels \cup SupplierLabels \cup MainLabels \cup AlarmLabels \cup ShutdownLabels

LabelsOf(c) ==
  IF c \in Bakers THEN BakerLabels
  ELSE IF c = Supplier THEN SupplierLabels
  ELSE IF c = Main THEN MainLabels
  ELSE IF c = Alarm THEN AlarmLabels
  ELSE ShutdownLabels

\* Every variable has a value of its type, and every context of the program is
\* at a statement of the function it runs.
TypeOK ==
  /\ pc \in [Contexts -> Labels]
  /\ \A c \in Contexts : pc[c] \in LabelsOf(c)
  /\ owner \in [Mutexes -> Contexts \cup {Nobody}]
  /\ waiting \in [Conds -> SUBSET Contexts]
  /\ nest \in [Threads -> Seq(Handlers)]
  /\ count \in Int
  /\ supplierInformed \in {0, 1}
  /\ shutdownFlag \in {0, 1}
  /\ sample \in 0 .. QUALITY_COUNT
  /\ alarmSet \in BOOLEAN
  /\ resetHand \in BOOLEAN

\* The store never holds more than STORAGE_MAX_COUNT loaves or fewer than none,
\* although bakers, the supplier and samples taken inside a signal handler
\* change storage.count (main.c:36-38, 121, 156-159).
StorageBound == count \in 0 .. STORAGE_MAX_COUNT

\* What was read of storage.count before it is changed is still true when it is
\* changed: the baker still has room for its loaf (main.c:36-38), and the sample
\* that the handler takes is still the right one (main.c:156-159).
NoStaleCount ==
  /\ \A b \in Bakers : pc[b] = "baker_add" => count < STORAGE_MAX_COUNT
  /\ pc[Alarm] = "quality_take" =>
       sample = IF count < QUALITY_COUNT THEN count ELSE QUALITY_COUNT

\* Where storage.mutex is held.
StorageHolding ==
  {"baker_check", "baker_add", "baker_ask", "baker_calllock", "baker_call",
   "baker_called", "baker_unlock", "baker_full", "supplier_empty",
   "quality_read", "quality_take"}

\* Only the owner of storage.mutex is between locking and unlocking it
\* (main.c:31-68, 117-125, 152-163), so at most one context is.
StorageExclusive ==
  \A c \in Contexts : pc[c] \in StorageHolding => owner["storage"] = c

\* What makes the bound on the store inductive: it needs exclusion, and that
\* no count that somebody has read is stale.
IInv == TypeOK /\ StorageBound /\ NoStaleCount /\ StorageExclusive

\* The labels at which each mutex is locked.
StorageWanted == {"baker_lock", "supplier_take", "quality_lock"}
SupplierWanted ==
  {"baker_calllock", "supplier_lock", "supplier_waiting", "shutdown_supplierlock"}
BakingWanted ==
  {"baker_waitlock", "baker_waiting", "supplier_wakelock", "quality_wakelock",
   "shutdown_bakinglock"}

wants ==
  [l \in StorageWanted \cup SupplierWanted \cup BakingWanted |->
     IF l \in StorageWanted THEN "storage"
     ELSE IF l \in SupplierWanted THEN "supplier" ELSE "baking"]

\* Waiting closes a circle in one way only: a handler runs on top of a context that owns
\* a mutex, a thread or the other handler (SIGTERM in qualityCheck, main.c:167-178, whose
\* sa_mask is empty).  The nesting of supplier_mutex in storage.mutex (main.c:31-55)
\* never does.
OnlyHandlersDeadlock == InterruptedHoldNothing => ~Hung(wants)

\* A full store does not stay full: even if the supplier missed its call, the
\* next quality check takes a sample (main.c:148-180), unless the program ends or a
\* handler on top of the owner of a mutex makes it hang.
StoreDrains ==
  (count = STORAGE_MAX_COUNT)
    ~> (count < STORAGE_MAX_COUNT \/ pc[Main] \in {"done", "killed"} \/ Hung(wants))

\* Has the shutdown still to wake the supplier, or need it not?  It misses a supplier
\* that has tested the flag and does not wait yet (main.c:92-100).
SupplierReached ==
  \/ pc[Supplier] \notin {"supplier_lock", "supplier_wait", "supplier_waiting"}
  \/ /\ pc[Supplier] = "supplier_waiting"
     /\ \/ Supplier \notin waiting["supplier"]
        \/ \E h \in Shutdowns : pc[h] \notin {"idle", "spent"}

\* After a shutdown signal every baker ends, also one that was about to sleep
\* when the handler broadcast (main.c:183-198): the next quality check wakes it.  The
\* supplier ends too, on the road or asleep, if the broadcast does not miss it (main.c:206).
\* Both unless the program is killed or a handler on top of the owner of a mutex makes
\* it hang.
ShutdownEnds ==
  /\ (shutdownFlag = 1) ~> ((\A b \in Bakers : pc[b] \in {"done", "killed"}) \/ Hung(wants))
  /\ (shutdownFlag = 1 /\ SupplierReached) ~> (pc[Supplier] \in {"done", "killed"} \/ Hung(wants))

=============================================================================
