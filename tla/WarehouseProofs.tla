-------------------------- MODULE WarehouseProofs --------------------------
(***************************************************************************)
(* For any number of bakers and any limit: up to the first delivery the    *)
(* warehouse never holds more than its limit.                              *)
(***************************************************************************)
EXTENDS Warehouse, TLAPS

Inside == {"check", "read", "write", "full", "stop", "trigger", "unlock"}

\* Until a baker finds the warehouse full the mutex protects the counter.
\* From then on any baker may free it, but whoever gets in finds the
\* warehouse full as well: nothing is baked until the delivery.
Filling ==
  /\ lagerfreiflag = 0 => \A b \in Bakers : pc[b] \in Inside => owner[mutex] = b
  /\ lagerfreiflag = 1 =>
       /\ lagercounter = MAX_SIZE_LAGER
       /\ \A b \in Bakers : pc[b] \notin {"read", "write"}
  /\ \A b \in Bakers :
       /\ pc[b] \in {"read", "write"} => lagercounter < MAX_SIZE_LAGER
       /\ pc[b] \in {"full", "stop"} => lagercounter >= MAX_SIZE_LAGER
       /\ pc[b] = "write" => tmp[b] = lagercounter
  /\ lagercounter <= MAX_SIZE_LAGER

IInv == TypeOK /\ (~Delivered => Filling)

LEMMA InitIInv == Init => IInv
<1> SUFFICES ASSUME Init PROVE IInv
  OBVIOUS
<1>1. pc \in [Threads -> Labels] /\ \A b \in Bakers : pc[b] = "test"
  BY WarehouseAssumption DEF Init, PthreadsInit, Labels
<1>2. TypeOK
  BY <1>1 DEF Init, PthreadsInit, TypeOK
<1>3. Filling
  BY <1>1, WarehouseAssumption DEF Init, Filling, Inside
<1> QED
  BY <1>2, <1>3 DEF IInv

\* A baker's step changes its own statement, and one thing besides.
LEMMA BakerStep ==
  ASSUME IInv, NEW b \in Bakers, Baker(b)
  PROVE  IInv'
<1> USE DEF IInv
<1>0. b \in Threads /\ b # deliverer
  BY WarehouseAssumption
<1>1. PICK to \in Labels : pc' = [pc EXCEPT ![b] = to] /\ UNCHANGED <<nest, waiting>>
  BY DEF Baker, Test, Enter, Check, BakeRead, BakeWrite, FullTrigger, FullStop, Trigger, Leave,
     Step, Lock, Unlock, locks, Labels
<1>2. /\ Delivered' = Delivered
      /\ pc' \in [Threads -> Labels] /\ pc'[b] = to
      /\ \A a \in Bakers \ {b} : pc'[a] = pc[a]
  BY <1>0, <1>1, WarehouseAssumption DEF Delivered, TypeOK
<1>3. TypeOK'
  <2>1. owner' \in [Mutexes -> Threads \cup {Nobody}]
    BY <1>0 DEF Baker, Test, Enter, Check, BakeRead, BakeWrite, FullTrigger, FullStop, Trigger,
       Leave, Lock, Unlock, locks, TypeOK
  <2>2. /\ lagercounter' \in Nat /\ tmp' \in [Bakers -> Nat]
        /\ triggerflag' \in 0 .. 1 /\ lagerfreiflag' \in 0 .. 1
    BY DEF Baker, Test, Enter, Check, BakeRead, BakeWrite, FullTrigger, FullStop, Trigger,
       Leave, store, TypeOK
  <2> QED
    BY <1>1, <1>2, <2>1, <2>2 DEF TypeOK
<1>4. ASSUME ~Delivered'
      PROVE  Filling'
  <2>1. Filling
    BY <1>2, <1>4
  <2>2. lagercounter \in Nat /\ MAX_SIZE_LAGER \in Nat /\ lagerfreiflag \in 0 .. 1
    BY WarehouseAssumption DEF TypeOK
  <2>3. CASE Test(b) \/ Check(b)
    BY <1>1, <1>2, <2>1, <2>2, <2>3 DEF Test, Check, Step, locks, store, Filling, Inside
  <2>4. CASE Enter(b)
    <3>1. owner[mutex] = Nobody /\ owner'[mutex] = b /\ pc'[b] = "check"
      BY <1>2, <2>4, WarehouseAssumption, <1>1, <1>0 DEF Enter, Step, Lock, TypeOK
    <3>2. \A a \in Bakers : a # Nobody
      BY WarehouseAssumption, PthreadsAssumption
    <3> QED
      BY <1>2, <2>1, <2>2, <2>4, <3>1, <3>2 DEF Enter, store, Filling, Inside
  <2>5. CASE BakeRead(b)
    <3>1. pc[b] = "read" /\ pc'[b] = "write" /\ tmp'[b] = lagercounter
          /\ \A a \in Bakers \ {b} : tmp'[a] = tmp[a]
      BY <1>0, <2>5 DEF BakeRead, Step, TypeOK
    <3> QED
      BY <1>2, <2>1, <2>2, <2>5, <3>1 DEF BakeRead, locks, Filling, Inside
  <2>6. CASE BakeWrite(b)
    <3>1. /\ pc[b] = "write" /\ pc'[b] = "trigger" /\ lagerfreiflag = 0
          /\ lagercounter' = lagercounter + 1 /\ lagercounter' <= MAX_SIZE_LAGER
          /\ UNCHANGED <<locks, lagerfreiflag, tmp>>
      BY <1>0, <2>1, <2>2, <2>6 DEF BakeWrite, Step, Filling, TypeOK
    <3>2. \A a \in Bakers \ {b} : pc[a] \notin Inside
      BY <2>1, <3>1 DEF Filling, Inside
    <3> QED
      BY <1>2, <2>1, <2>2, <3>1, <3>2 DEF locks, Filling, Inside
  <2>7. CASE FullTrigger(b) \/ Trigger(b)
    BY <1>1, <1>2, <2>1, <2>2, <2>7 DEF FullTrigger, Trigger, Step, locks, Filling, Inside
  <2>8. CASE FullStop(b)
    <3>1. /\ pc[b] = "stop" /\ pc'[b] = "trigger" /\ lagerfreiflag' = 1
          /\ lagercounter = MAX_SIZE_LAGER
          /\ UNCHANGED <<locks, lagercounter, tmp>>
      BY <1>0, <2>1, <2>2, <2>8 DEF FullStop, Step, Filling, TypeOK
    <3> QED
      BY <1>2, <2>1, <2>2, <3>1 DEF locks, Filling, Inside
  <2>9. CASE Leave(b)
    <3>1. pc[b] = "unlock" /\ pc'[b] = "test" /\ UNCHANGED store
      BY <1>0, <2>9 DEF Leave, Step, TypeOK
    <3> QED
      BY <1>2, <2>1, <2>2, <3>1 DEF store, Filling, Inside
  <2> QED
    BY <2>3, <2>4, <2>5, <2>6, <2>7, <2>8, <2>9 DEF Baker
<1> QED
  BY <1>3, <1>4

\* The other threads touch neither the bakers' mutex nor, before they empty
\* the warehouse, what the mutex protects.
LEMMA OtherStep ==
  ASSUME IInv, Deliverer \/ Signaler \/ (SpuriousWakeup(condition) /\ UNCHANGED store)
  PROVE  IInv'
<1> USE DEF IInv
<1>0. deliverer \in Threads /\ signaler \in Threads /\ mutex \in Mutexes /\ mutex2 \in Mutexes
  BY WarehouseAssumption
<1>1. PICK t \in {deliverer, signaler}, to \in Labels :
        pc' = [pc EXCEPT ![t] = to] \/ UNCHANGED pc
  BY DEF Deliverer, DeliverLock, DeliverSleep, DeliverWake, DeliverEmpty, DeliverFree,
     DeliverUnlock, Signaler, SignalerLock, SignalerEnter, SignalerSignal, SignalerReset,
     SignalerUnlock, Step, SpuriousWakeup, Labels
<1>2. /\ pc' \in [Threads -> Labels]
      /\ \A b \in Bakers : pc'[b] = pc[b]
  BY <1>0, <1>1, WarehouseAssumption DEF TypeOK
<1>3. /\ owner' \in [Mutexes -> Threads \cup {Nobody}]
      /\ owner'[mutex] = owner[mutex]
      /\ UNCHANGED nest
  BY <1>0, WarehouseAssumption
  DEF Deliverer, DeliverLock, DeliverSleep, DeliverWake, DeliverEmpty, DeliverFree,
     DeliverUnlock, Signaler, SignalerLock, SignalerEnter, SignalerSignal, SignalerReset,
     SignalerUnlock, Step, Lock, Unlock, CondSleep, CondReturn, SpuriousWakeup, locks, TypeOK
<1>4. waiting' \in [Conds -> SUBSET {deliverer}]
  BY WarehouseAssumption
  DEF Deliverer, DeliverLock, DeliverSleep, DeliverWake, DeliverEmpty, DeliverFree,
     DeliverUnlock, Signaler, SignalerLock, SignalerEnter, SignalerSignal, SignalerReset,
     SignalerUnlock, CondSleep, CondReturn, Signal, SpuriousWakeup, locks, TypeOK
<1>5. /\ lagercounter' \in Nat /\ tmp' \in [Bakers -> Nat]
      /\ triggerflag' \in 0 .. 1 /\ lagerfreiflag' \in 0 .. 1
  BY DEF Deliverer, DeliverLock, DeliverSleep, DeliverWake, DeliverEmpty, DeliverFree,
     DeliverUnlock, Signaler, SignalerLock, SignalerEnter, SignalerSignal, SignalerReset,
     SignalerUnlock, store, TypeOK
<1>6. TypeOK'
  BY <1>2, <1>3, <1>4, <1>5 DEF TypeOK
<1>7. ASSUME ~Delivered'
      PROVE  ~Delivered /\ UNCHANGED <<lagercounter, lagerfreiflag, tmp>>
  BY <1>0, <1>7, WarehouseAssumption
  DEF Deliverer, DeliverLock, DeliverSleep, DeliverWake, DeliverEmpty, DeliverFree,
     DeliverUnlock, Signaler, SignalerLock, SignalerEnter, SignalerSignal, SignalerReset,
     SignalerUnlock, Step, SpuriousWakeup, store, Delivered, TypeOK
<1> QED
  BY <1>2, <1>3, <1>6, <1>7 DEF Filling

LEMMA NextIInv == IInv /\ [Next]_vars => IInv'
<1> SUFFICES ASSUME IInv, [Next]_vars PROVE IInv'
  OBVIOUS
<1>1. CASE Next
  BY <1>1, BakerStep, OtherStep DEF Next
<1>2. CASE UNCHANGED vars
  BY <1>2 DEF vars, pthreadVars, store, IInv, TypeOK, Filling, Delivered
<1> QED
  BY <1>1, <1>2

\* Every variable stays in its type (TypeOK).
THEOREM TypeCorrect == Spec => []TypeOK
<1>1. IInv => TypeOK
  BY DEF IInv
<1> QED
  BY InitIInv, NextIInv, <1>1, PTL DEF Spec

\* Up to the first delivery the bakers keep to the limit, foreign unlocks or
\* not (StoreBound).
THEOREM LimitKept == Spec => []StoreBound
<1>1. IInv => StoreBound
  BY DEF IInv, Filling, StoreBound
<1> QED
  BY InitIInv, NextIInv, <1>1, PTL DEF Spec

=============================================================================
