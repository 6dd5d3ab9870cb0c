------------------------ MODULE SharedCounterProofs ------------------------
(***************************************************************************)
(* For any number of workers, of additions and of restarts: the lock lets  *)
(* one worker in at a time, the protected counters end at exactly the      *)
(* number of additions, and the unprotected ones between two and that      *)
(* number, in every run that began when nobody of an earlier one was left. *)
(***************************************************************************)
EXTENDS SharedCounter, FiniteSetTheorems, TLAPS

\* The additions to counter c that have been made, each with its number.
Made(c) == {x \in children \X (0 .. Additions - 1) : x[2] < made[x[1]][c]}
Sum(c) == Cardinality(Made(c))

\* What the statement of a worker says about its loop counters.
Control(w) ==
  /\ pc[w] = "new" => \A c \in Counters : made[w][c] = 0
  /\ pc[w] \in {"lock", "read", "write"} => made[w][Target(w)] < Additions
  /\ pc[w] = "lock" => made[w]["mydata"] < Additions
  /\ pc[w] = "fetch" =>
       program = "atomic" /\ made[w]["mydata"] = Additions /\ made[w]["cnt"] < Additions
  /\ pc[w] \in {"read", "write"} /\ made[w]["mydata"] = Additions => program = "atomic"
  /\ made[w]["mydata"] < Additions => made[w]["cnt"] = 0
  /\ made[w]["acnt"] =
       IF pc[w] \in {"read", "write"} /\ made[w]["mydata"] = Additions
         THEN made[w]["cnt"] + 1 ELSE made[w]["cnt"]
  /\ pc[w] = "done" /\ program # "ichmagzuege" =>
       /\ made[w]["mydata"] = Additions
       /\ program = "atomic" => made[w]["cnt"] = Additions

\* main, as far as the workers depend on it, and who else there is.
Order ==
  /\ main \in {"start", "init"} => \A w \in children : pc[w] = "new"
  /\ program # "atomic" \/ main \in {"start", "init"} => cell["acnt"] = 0
  /\ main = "end" => \A w \in children : pc[w] = "done"

Company ==
  /\ Cardinality(children) = Cardinality(Workers)
  /\ main = "start" => ~alone
  /\ alone => \A w \in Processes \ children : pc[w] \in {"new", "done"}
  /\ program \notin InSegment =>
       /\ \A w \in Processes \ children : pc[w] = "new"
       /\ main # "start" => alone

Locking ==
  /\ OneInside
  /\ alone => \A w \in Processes : Inside(w) => unit = 0
  /\ program \in Guarded => \A w \in Processes : pc[w] # "fetch"

\* A protected counter is the number of additions; the worker inside has read it.
Protected ==
  /\ program \in Guarded /\ program # "ichmagzuege" =>
       /\ cell["mydata"] = Sum("mydata")
       /\ \A w \in children : pc[w] = "write" => reg[w] = cell["mydata"]
  /\ cell["acnt"] = Sum("acnt")

\* An unprotected counter: whoever has added once sees at least one, and the
\* last addition of all makes it at least two.
Racing ==
  /\ cell["mydata"] <= Sum("mydata")
  /\ \A w \in children :
       /\ pc[w] = "write" /\ made[w]["mydata"] < Additions => reg[w] <= Sum("mydata")
       /\ pc[w] = "write" /\ made[w]["mydata"] \in 1 .. Additions - 1 => reg[w] >= 1
       /\ pc[w] # "write" /\ made[w]["mydata"] >= 1 => cell["mydata"] >= 1
       /\ made[w]["mydata"] = Additions => cell["mydata"] >= 1
  /\ (\A w \in children : made[w]["mydata"] = Additions) => cell["mydata"] >= 2

IInv ==
  /\ TypeOK
  /\ \A w \in Processes : Control(w)
  /\ Order
  /\ Company
  /\ Locking
  /\ alone => Protected /\ (program \notin Guarded => Racing)

-----------------------------------------------------------------------------
LEMMA ChildrenFinite ==
  ASSUME TypeOK, Company
  PROVE  /\ IsFiniteSet(children) /\ children # {}
         /\ Cardinality(children) \in Nat
<1>1. IsFiniteSet(children) /\ IsFiniteSet(Workers)
  BY CounterAssumption, FS_Subset DEF TypeOK
<1>2. Cardinality(children) # 0
  BY <1>1, CounterAssumption, FS_EmptySet DEF Company
<1> QED
  BY <1>1, <1>2, FS_EmptySet, FS_CardinalityType

LEMMA MadeFinite ==
  ASSUME TypeOK, Company, NEW c
  PROVE  IsFiniteSet(Made(c)) /\ Sum(c) \in Nat
<1>1. IsFiniteSet(0 .. Additions - 1)
  BY CounterAssumption, FS_Interval
<1>3. IsFiniteSet(children \X (0 .. Additions - 1))
  BY <1>1, ChildrenFinite, FS_Product
<1>2. Made(c) \in SUBSET (children \X (0 .. Additions - 1))
  BY DEF Made
<1> QED
  BY <1>2, <1>3, FS_Subset, FS_CardinalityType DEF Sum

\* An addition is one more element of Made, if it is one of main's children that adds.
LEMMA MadeGrows ==
  ASSUME TypeOK, Company, NEW w \in Processes, NEW c \in Counters,
         made[w][c] < Additions, made' = Count(w, c), children' = children
  PROVE  /\ w \in children =>
              /\ Sum(c)' = Sum(c) + 1
              /\ \A d \in Counters \ {c} : Sum(d)' = Sum(d)
         /\ made' \in [Processes -> [Counters -> 0 .. Additions]]
<1> DEFINE n == made[w][c]
<1>1. n \in 0 .. Additions - 1
  BY CounterAssumption DEF TypeOK
<1>2. /\ made' \in [Processes -> [Counters -> 0 .. Additions]]
      /\ \A v \in Processes, d \in Counters :
           made'[v][d] = IF v = w /\ d = c THEN n + 1 ELSE made[v][d]
  BY <1>1, CounterAssumption DEF TypeOK, Count
<1>3. \A v \in Processes, d \in Counters : made[v][d] \in Nat
  BY CounterAssumption DEF TypeOK
<1>4. children \subseteq Processes
  BY DEF TypeOK
<1>5. w \in children => Made(c)' = Made(c) \cup {<<w, n>>}
  <2> SUFFICES ASSUME w \in children, NEW v \in children, NEW k \in 0 .. Additions - 1
               PROVE  k < made'[v][c] <=> (k < made[v][c] \/ <<v, k>> = <<w, n>>)
    BY <1>1 DEF Made
  <2>1. CASE v = w
    <3>1. made'[v][c] = n + 1 /\ n \in Nat /\ k \in Nat
      BY <1>1, <1>2, <2>1, CounterAssumption
    <3> QED
      BY <3>1, <2>1
  <2>2. CASE v # w
    BY <1>2, <1>4, <2>2
  <2> QED
    BY <2>1, <2>2
<1>6. <<w, n>> \notin Made(c)
  BY <1>1 DEF Made
<1>7. \A d \in Counters \ {c} : Made(d)' = Made(d)
  BY <1>2, <1>4 DEF Made
<1>8. w \in children => Cardinality(Made(c)') = Cardinality(Made(c)) + 1
  BY <1>5, <1>6, MadeFinite, FS_AddElement
<1> QED
  BY <1>2, <1>7, <1>8 DEF Sum

\* Once every worker has made its additions to c, there are Total of them.
LEMMA MadeAll ==
  ASSUME TypeOK, Company, NEW c \in Counters, \A w \in children : made[w][c] = Additions
  PROVE  Sum(c) = Total
<1>1. Made(c) = children \X (0 .. Additions - 1)
  BY CounterAssumption DEF Made
<1>2. IsFiniteSet(0 .. Additions - 1) /\ Cardinality(0 .. Additions - 1) = Additions
  BY CounterAssumption, FS_Interval
<1> QED
  BY <1>1, <1>2, ChildrenFinite, FS_Product DEF Sum, Total

LEMMA MadeNone ==
  ASSUME NEW c \in Counters, \A w \in children : made[w][c] = 0
  PROVE  Sum(c) = 0
<1>1. Made(c) = {}
  BY CounterAssumption DEF Made
<1> QED
  BY <1>1, FS_EmptySet DEF Sum

LEMMA InitIInv == Init => IInv
<1> SUFFICES ASSUME Init PROVE IInv
  OBVIOUS
<1>1. TypeOK
  <2>1. PICK n \in Nat : cell = [c \in Counters |-> IF c = "mydata" THEN n ELSE 0]
    BY CounterAssumption DEF Init
  <2>2. cell \in [Counters -> Nat] /\ unit \in 0 .. 1
    BY <2>1 DEF Init
  <2>3. made \in [Processes -> [Counters -> 0 .. Additions]] /\ again \in 0 .. AGAIN
    BY CounterAssumption DEF Init
  <2> QED
    BY <2>2, <2>3, CounterAssumption DEF Init, TypeOK
<1>2. \A w \in Processes : Control(w)
  BY CounterAssumption DEF Init, Control, Counters
<1>3. Order /\ Company
  BY CounterAssumption DEF Init, Order, Company, Counters
<1>4. Locking
  BY DEF Init, Locking, OneInside, Inside
<1> QED
  BY <1>1, <1>2, <1>3, <1>4 DEF Init, IInv

-----------------------------------------------------------------------------
\* Every step is one of main or of a worker, in a program that has it.
LEMMA NextCases ==
  ASSUME Next
  PROVE  \/ SetCounter \/ InitLock \/ (\E w \in Processes : Create(w)) \/ AllCreated
         \/ Join \/ (Fails /\ program \in InSegment) \/ Again
         \/ \E w \in Processes :
              \/ Lock(w) /\ program \in Guarded
              \/ Read(w) /\ program # "ichmagzuege"
              \/ Write(w) /\ program # "ichmagzuege"
              \/ Keep(w)
              \/ Unlock(w) /\ program \in Guarded
              \/ Fetch(w) /\ program = "atomic"
              \/ Drive(w) /\ program = "ichmagzuege"
  BY DEF Next, Mains, Main, PlainMain, MutexMain, SemaphoreMain, AtomicMain, ShmMain,
         ShmMutexMain, TrainMain, Worker, PlainThread, MutexThread, SemaphoreThread,
         AtomicThread, Child, MutexChild, TrainThread, Guarded, InSegment

\* Where a worker goes that has made the additions m.
LEMMA LoopLabels ==
  ASSUME NEW m
  PROVE  Loop(m) \in {"lock", "read", "fetch", "done"}
  BY DEF Loop

\* The steps of main and of the lock leave the counters alone.
LEMMA QuietSums ==
  ASSUME UNCHANGED <<made, children>>
  PROVE  \A c \in Counters : Sum(c)' = Sum(c)
  BY DEF Sum, Made

\* While it is alone only main's children take steps.
LEMMA OnlyChildren ==
  ASSUME IInv, alone, NEW w \in Processes, pc[w] \notin {"new", "done"}
  PROVE  w \in children
  BY DEF IInv, Company

\* The run begins; it is alone if all others have come to their end.
LEMMA SetCounterStep ==
  ASSUME IInv, SetCounter
  PROVE  IInv'
<1> USE DEF IInv
<1>1. /\ main = "start" /\ main' = "init" /\ alone' = (Orphans = {})
      /\ cell' = [cell EXCEPT !["mydata"] = 0]
      /\ UNCHANGED <<program, again, children, pc, made, reg, unit>>
      /\ \A w \in children : pc[w] = "new"
  BY DEF SetCounter, GotoMain, Order
<1>2. cell' \in [Counters -> Nat] /\ cell'["mydata"] = 0 /\ cell'["acnt"] = 0
  BY <1>1 DEF TypeOK, Order, Counters
<1>3. TypeOK' /\ Order'
  BY <1>1, <1>2 DEF TypeOK, Order
<1>4. \A w \in Processes : Control(w)'
  BY <1>1 DEF Control, Target
<1>5. alone' => \A w \in Processes \ children : pc[w] \in {"new", "done"}
  BY <1>1 DEF Orphans
<1>6. program \notin InSegment => alone'
  BY <1>1 DEF Orphans, Company
<1>7. Company'
  BY <1>1, <1>5, <1>6 DEF Company
<1>8. alone' => \A w \in Processes : ~Inside(w)'
  BY <1>1, <1>5 DEF Inside
<1>9. Locking'
  BY <1>1, <1>8 DEF Locking, OneInside
<1>10. \A c \in Counters, w \in children : made[w][c] = 0
  BY <1>1 DEF Control, TypeOK
<1>11. Sum("mydata")' = 0 /\ Sum("acnt")' = 0
  BY <1>1, <1>10, MadeNone, QuietSums DEF Counters
<1>12. PICK w \in children : TRUE
  BY ChildrenFinite
<1>13. Protected' /\ Racing'
  BY <1>1, <1>2, <1>10, <1>11, <1>12, CounterAssumption DEF Protected, Racing, Counters
<1> QED
  BY <1>3, <1>4, <1>7, <1>9, <1>13

LEMMA InitLockStep ==
  ASSUME IInv, InitLock
  PROVE  IInv'
<1> USE DEF IInv
<1>1. PICK lost \in SUBSET {w \in Orphans : pc[w] = "lock"} :
        pc' = [w \in Processes |-> IF w \in lost THEN "lost" ELSE pc[w]]
  BY DEF InitLock
<1>2. /\ main = "init" /\ main' = "create" /\ unit' = 1
      /\ UNCHANGED <<program, again, children, alone, made, reg, cell>>
      /\ \A w \in children : pc[w] = "new"
      /\ \A w \in children : pc'[w] = pc[w]
  BY <1>1 DEF InitLock, GotoMain, run, Order, Orphans, TypeOK
<1>3. TypeOK' /\ Order'
  BY <1>1, <1>2 DEF TypeOK, Order
<1>4. \A w \in Processes : Control(w)'
  BY <1>1, <1>2 DEF Control, Target, Orphans
<1>5. alone \/ program \notin InSegment => lost = {}
  BY <1>1 DEF Company, Orphans
<1>6. alone \/ program \notin InSegment => \A w \in Processes : pc'[w] = pc[w]
  BY <1>1, <1>5
<1>7. Company'
  BY <1>2, <1>6 DEF Company
<1>8. alone => \A w \in Processes : ~Inside(w)'
  BY <1>2, <1>6 DEF Inside, Company
<1>9. program \in Guarded => \A w \in Processes : pc'[w] # "fetch"
  BY <1>1 DEF Locking
<1>10. Locking'
  BY <1>2, <1>8, <1>9 DEF Locking, OneInside
<1>11. \A c \in Counters : Sum(c)' = Sum(c)
  BY <1>2, QuietSums
<1>12. alone' => Protected' /\ (program' \notin Guarded => Racing')
  BY <1>2, <1>11 DEF Protected, Racing, Counters
<1> QED
  BY <1>3, <1>4, <1>7, <1>10, <1>12

LEMMA MainStep ==
  ASSUME IInv, AllCreated \/ Join \/ (Fails /\ program \in InSegment)
  PROVE  IInv'
<1> USE DEF IInv
<1>1. /\ main' \in {"join", "end", "failed"}
      /\ main' = "end" => \A w \in children : pc[w] = "done"
      /\ main = "start" => program \in InSegment
      /\ UNCHANGED <<program, again, children, alone, pc, made, reg, cell, unit>>
  BY DEF AllCreated, Join, Fails, GotoMain, run
<1>2. TypeOK' /\ Order' /\ Company' /\ Locking'
  BY <1>1 DEF TypeOK, Order, Company, Locking, OneInside, Inside
<1>3. \A w \in Processes : Control(w)'
  BY <1>1 DEF Control, Target
<1>4. \A c \in Counters : Sum(c)' = Sum(c)
  BY <1>1, QuietSums
<1>5. alone' => Protected' /\ (program' \notin Guarded => Racing')
  BY <1>1, <1>4 DEF Protected, Racing, Counters
<1> QED
  BY <1>2, <1>3, <1>5

\* The next run takes processes that have no part in the segment.
LEMMA AgainStep ==
  ASSUME IInv, Again
  PROVE  IInv'
<1> USE DEF IInv
<1>1. PICK fresh \in SUBSET {w \in Processes : pc[w] \in {"new", "done"}} :
        /\ Cardinality(fresh) = Cardinality(children)
        /\ children' = fresh
        /\ pc' = [w \in Processes |-> IF w \in fresh THEN "new" ELSE pc[w]]
        /\ made' = [w \in Processes |-> IF w \in fresh THEN [c \in Counters |-> 0] ELSE made[w]]
        /\ reg' = [w \in Processes |-> IF w \in fresh THEN 0 ELSE reg[w]]
  BY DEF Again
<1>2. /\ program \in InSegment /\ main' = "start" /\ alone' = FALSE
      /\ again < AGAIN /\ again' = again + 1
      /\ UNCHANGED <<program, cell, unit>>
  BY DEF Again, GotoMain
<1>3. TypeOK'
  <2>1. made' \in [Processes -> [Counters -> 0 .. Additions]]
    BY <1>1, CounterAssumption DEF TypeOK
  <2>2. again' \in 0 .. AGAIN
    BY <1>2, CounterAssumption DEF TypeOK
  <2>3. pc' \in [Processes -> {"new", "lock", "read", "write", "unlock", "fetch", "done", "lost"}]
    BY <1>1 DEF TypeOK
  <2>4. reg' \in [Processes -> Nat]
    BY <1>1 DEF TypeOK
  <2> QED
    BY <1>1, <1>2, <2>1, <2>2, <2>3, <2>4 DEF TypeOK
<1>4. \A w \in Processes : Control(w)'
  <2> SUFFICES ASSUME NEW w \in Processes PROVE Control(w)'
    OBVIOUS
  <2>1. CASE w \in fresh
    <3>1. pc'[w] = "new" /\ \A c \in Counters : made'[w][c] = 0
      BY <1>1, <2>1
    <3> QED
      BY <3>1, CounterAssumption DEF Control, Target, Counters
  <2>2. CASE w \notin fresh
    BY <1>1, <1>2, <2>2 DEF Control, Target
  <2> QED
    BY <2>1, <2>2
<1>5. Order'
  BY <1>1, <1>2 DEF Order, InSegment
<1>6. Company'
  BY <1>1, <1>2 DEF Company
<1>7. Locking'
  BY <1>1, <1>2 DEF Locking, OneInside
<1> QED
  BY <1>2, <1>3, <1>4, <1>5, <1>6, <1>7

\* What a step of a worker, or its creation, keeps of main and the other processes.
LEMMA WorkerFrame ==
  ASSUME IInv, NEW w \in Processes, NEW to, to # "new",
         pc[w] \notin {"new", "done"} \/ (main = "create" /\ w \in children /\ pc[w] = "new"),
         pc' = [pc EXCEPT ![w] = to],
         UNCHANGED <<program, children, alone, main>>,
         program = "atomic" \/ cell'["acnt"] = cell["acnt"]
  PROVE  /\ Order' /\ Company'
         /\ alone \/ program \notin InSegment => w \in children /\ main \notin {"start", "init"}
<1> USE DEF IInv
<1>1. alone \/ program \notin InSegment => w \in children
  BY DEF Company
<1>2. w \in children => main \notin {"start", "init"}
  BY DEF Order
<1>3. \A v \in Processes \ {w} : pc'[v] = pc[v]
  BY DEF TypeOK
<1>4. children \subseteq Processes
  BY DEF TypeOK
<1>5. "atomic" \notin InSegment
  BY DEF InSegment
<1>6. Order'
  BY <1>1, <1>2, <1>3, <1>4, <1>5 DEF Order
<1>7. Company'
  BY <1>1, <1>3, <1>4 DEF Company
<1> QED
  BY <1>1, <1>2, <1>6, <1>7

\* A step of one worker w that leaves main alone: what the other workers are
\* known for stays.
LEMMA LockStep ==
  ASSUME IInv, NEW w \in Processes,
         \/ Lock(w) /\ program \in Guarded
         \/ Unlock(w) /\ program \in Guarded
         \/ Drive(w) /\ program = "ichmagzuege"
         \/ Create(w)
  PROVE  IInv'
<1> USE DEF IInv
<1>1. PICK to \in {"lock", "read", "unlock", "fetch", "done"} :
        /\ pc' = [pc EXCEPT ![w] = to]
        /\ pc[w] \in {"new", "lock", "read", "unlock"}
        /\ UNCHANGED <<program, again, children, alone, main, made, reg, cell>>
        /\ pc[w] = "new" => main = "create" /\ w \in children
  BY LoopLabels DEF Lock, Unlock, Drive, Create, Goto, run
<1>9. /\ Order' /\ Company'
      /\ alone \/ program \notin InSegment => w \in children /\ main \notin {"start", "init"}
  BY <1>1, WorkerFrame
<1>2. TypeOK'
  <2>1. ASSUME Unlock(w), program \in Guarded
        PROVE  unit' \in 0 .. 1
    <3>1. CASE program \in {"pthreads3_mutex", "shm_counter_mutex"}
      BY <2>1, <3>1 DEF Unlock
    <3>2. CASE program \notin {"pthreads3_mutex", "shm_counter_mutex"}
      <4>1. alone
        BY <1>9, <2>1, <3>2 DEF Company, Guarded, InSegment
      <4>2. unit = 0
        BY <2>1, <4>1 DEF Unlock, Goto, Locking, Inside
      <4> QED
        BY <2>1, <3>2, <4>2 DEF Unlock
    <3> QED
      BY <3>1, <3>2
  <2>2. unit' \in 0 .. 1
    BY <2>1 DEF Lock, Drive, Create, TypeOK
  <2> QED
    BY <1>1, <2>2 DEF TypeOK
<1>3. Control(w)'
  <2>1. /\ Control(w)
        /\ \A c \in Counters : made[w][c] \in 0 .. Additions
        /\ pc'[w] = to
    BY <1>1 DEF TypeOK
  <2>2. CASE Lock(w) /\ program \in Guarded
    BY <1>1, <2>1, <2>2, CounterAssumption DEF Lock, Goto, Control, Target, Counters, Guarded
  <2>3. CASE Unlock(w) /\ program \in Guarded
    BY <1>1, <2>1, <2>3, CounterAssumption DEF Unlock, Goto, Loop, Control, Target, Counters, Guarded
  <2>4. CASE Drive(w) /\ program = "ichmagzuege"
    BY <1>1, <2>1, <2>4, CounterAssumption DEF Drive, Goto, Control, Target, Counters
  <2>5. CASE Create(w)
    BY <1>1, <2>1, <2>5, CounterAssumption DEF Create, Goto, Loop, Control, Target, Counters
  <2> QED
    BY <2>2, <2>3, <2>4, <2>5
<1>4. \A v \in Processes \ {w} : Control(v)'
  BY <1>1 DEF Control, Target, TypeOK
<1>6. Locking'
  BY <1>1 DEF Locking, OneInside, Inside, Lock, Unlock, Drive, Create, Goto, Loop, TypeOK, Guarded
<1>7. alone' => Protected' /\ (program' \notin Guarded => Racing')
  <2>1. \A c \in Counters : Sum(c)' = Sum(c)
    BY <1>1, QuietSums
  <2>2. \A v \in Processes : (pc'[v] = "write") = (pc[v] = "write")
    BY <1>1 DEF TypeOK
  <2> QED
    BY <1>1, <2>1, <2>2 DEF TypeOK, Protected, Racing, Counters
<1> QED
  BY <1>1, <1>2, <1>3, <1>4, <1>6, <1>7, <1>9

\* The counter is read; nobody else is inside, so it is the sum of a protected one.
LEMMA ReadStep ==
  ASSUME IInv, NEW w \in Processes, Read(w), program # "ichmagzuege"
  PROVE  IInv'
<1> USE DEF IInv
<1>1. /\ pc[w] = "read" /\ pc' = [pc EXCEPT ![w] = "write"]
      /\ reg' = [reg EXCEPT ![w] = cell[Target(w)]]
      /\ UNCHANGED <<program, again, children, alone, main, made, cell, unit>>
  BY DEF Read, Goto, run
<1>2. TypeOK'
  BY <1>1 DEF TypeOK, Target, Counters
<1>3. \A v \in Processes : Control(v)'
  BY <1>1 DEF Control, Target, TypeOK
<1>4. Order' /\ Company' /\ Locking'
  <2>1. Order' /\ Company'
    BY <1>1, WorkerFrame
  <2> QED
    BY <1>1, <2>1 DEF Locking, OneInside, Inside, TypeOK
<1>5. \A c \in Counters : Sum(c)' = Sum(c)
  BY <1>1, QuietSums
<1>6. ASSUME alone'
      PROVE  Protected'
  <2>1. Protected
    BY <1>1, <1>6
  <2>2. program \in Guarded => Target(w) = "mydata"
    <3>1. made[w]["mydata"] \in 0 .. Additions
      BY DEF TypeOK, Counters
    <3> QED
      BY <1>1, <3>1, CounterAssumption DEF Control, Target, Guarded
  <2> QED
    BY <1>1, <1>5, <2>1, <2>2 DEF Protected, TypeOK, Counters
<1>7. ASSUME alone', program' \notin Guarded
      PROVE  Racing'
  <2>1. Racing
    BY <1>1, <1>7
  <2> QED
    BY <1>1, <1>5, <2>1, CounterAssumption DEF Racing, Target, TypeOK, Counters
<1> QED
  BY <1>2, <1>3, <1>4, <1>6, <1>7

\* The counter is written: one more addition.
LEMMA WriteStep ==
  ASSUME IInv, NEW w \in Processes, Write(w), program # "ichmagzuege"
  PROVE  IInv'
<1> USE DEF IInv
<1>0. PICK c \in {"mydata", "cnt"} : c = Target(w)
  BY DEF Target
<1> DEFINE to == IF program \in Guarded THEN "unlock" ELSE Loop(Count(w, c)[w])
<1>1. /\ pc[w] = "write" /\ pc' = [pc EXCEPT ![w] = to]
      /\ cell' = [cell EXCEPT ![c] = reg[w] + 1]
      /\ made' = Count(w, c)
      /\ UNCHANGED <<program, again, children, alone, main, reg, unit>>
  BY <1>0 DEF Write, Goto, run
<1>2. /\ c \in Counters \ {"acnt"} /\ made[w][c] < Additions
      /\ to \in {"unlock", "lock", "read", "fetch", "done"}
  <2>1. made[w][c] < Additions
    BY <1>0, <1>1 DEF Control
  <2> QED
    BY <2>1, LoopLabels DEF Counters
<1>3. /\ w \in children =>
           /\ Sum(c)' = Sum(c) + 1
           /\ \A d \in Counters \ {c} : Sum(d)' = Sum(d)
      /\ made' \in [Processes -> [Counters -> 0 .. Additions]]
  BY <1>1, <1>2, MadeGrows
<1>4. /\ \A d \in Counters : made'[w][d] = IF d = c THEN made[w][d] + 1 ELSE made[w][d]
      /\ \A v \in Processes \ {w} : made'[v] = made[v]
      /\ \A v \in Processes, d \in Counters : made[v][d] \in 0 .. Additions
      /\ made'[w] = Count(w, c)[w]
  BY <1>1 DEF Count, TypeOK
<1> HIDE DEF to
<1>5. TypeOK'
  <2>1. pc' \in [Processes -> {"new", "lock", "read", "write", "unlock", "fetch", "done", "lost"}]
    BY <1>1, <1>2 DEF TypeOK
  <2>2. cell' \in [Counters -> Nat]
    BY <1>1, <1>2 DEF TypeOK
  <2> QED
    BY <1>1, <1>3, <2>1, <2>2 DEF TypeOK
<1>6. \A v \in Processes \ {w} : Control(v)'
  BY <1>1, <1>4 DEF Control, Target, TypeOK
<1>7. Control(w)'
  BY <1>0, <1>1, <1>2, <1>4, CounterAssumption DEF Control, Target, TypeOK, Counters, to, Loop, Guarded
<1>11. /\ Order' /\ Company'
       /\ alone => w \in children
  BY <1>1, <1>2, WorkerFrame DEF TypeOK, Counters
<1>8. Locking'
  <2>1. \A v \in Processes \ {w} : pc'[v] = pc[v]
    BY <1>1
  <2>2. program \in Guarded => pc'[w] = "unlock"
    BY <1>1 DEF to, TypeOK
  <2>3. cell'["acnt"] = cell["acnt"]
    BY <1>1, <1>2 DEF TypeOK, Counters
  <2> QED
    BY <1>1, <1>2, <2>1, <2>2, <2>3 DEF Locking, OneInside, Inside
<1>9. ASSUME alone'
      PROVE  Protected'
  <2>1. Protected
    BY <1>1, <1>9
  <2>2. program \in Guarded => c = "mydata" /\ \A v \in Processes \ {w} : pc[v] # "write"
    <3>1. program \in Guarded => made[w]["mydata"] < Additions
      BY <1>1, <1>4, CounterAssumption DEF Control, Guarded, Counters
    <3> QED
      BY <1>0, <1>1, <1>9, <3>1 DEF Target, Locking, OneInside, Inside
  <2>3. program \in Guarded => cell'["mydata"] = Sum("mydata")'
    BY <1>1, <1>3, <1>9, <1>11, <2>1, <2>2 DEF Protected, TypeOK, Counters
  <2>4. cell'["acnt"] = Sum("acnt")'
    BY <1>1, <1>2, <1>3, <1>9, <1>11, <2>1 DEF Protected, TypeOK, Counters
  <2> QED
    BY <1>1, <1>2, <2>2, <2>3, <2>4 DEF Protected, TypeOK
<1>10. ASSUME alone', program' \notin Guarded
       PROVE  Racing'
  <2>1. Racing
    BY <1>1, <1>10
  <2>0. w \in children /\ children \subseteq Processes
    BY <1>1, <1>10, <1>11 DEF TypeOK
  <2>2. Sum("mydata") \in Nat /\ reg[w] \in Nat /\ cell["mydata"] \in Nat
    BY MadeFinite DEF TypeOK, Counters
  <2>3. CASE c = "cnt"
    <3>1. /\ cell'["mydata"] = cell["mydata"] /\ Sum("mydata")' = Sum("mydata")
          /\ made[w]["mydata"] = Additions
          /\ \A v \in Processes : made'[v]["mydata"] = made[v]["mydata"]
          /\ \A v \in Processes \ {w} : pc'[v] = pc[v]
      <4>1. made[w]["mydata"] \in 0 .. Additions /\ ~(made[w]["mydata"] < Additions)
        BY <1>0, <1>4, <2>3 DEF Target, Counters
      <4>2. cell'["mydata"] = cell["mydata"] /\ Sum("mydata")' = Sum("mydata")
        BY <1>1, <1>3, <2>0, <2>3 DEF TypeOK, Counters
      <4>3. \A v \in Processes : made'[v]["mydata"] = made[v]["mydata"]
        BY <1>4, <2>3 DEF Counters
      <4>4. \A v \in Processes \ {w} : pc'[v] = pc[v]
        BY <1>1 DEF TypeOK
      <4>5. made[w]["mydata"] = Additions
        BY <4>1, CounterAssumption
      <4> QED
        BY <4>2, <4>3, <4>4, <4>5
    <3> QED
      BY <1>1, <2>0, <2>1, <3>1, CounterAssumption DEF Racing
  <2>4. CASE c = "mydata"
    <3>1. /\ cell'["mydata"] = reg[w] + 1 /\ Sum("mydata")' = Sum("mydata") + 1
          /\ reg[w] <= Sum("mydata") /\ reg' = reg
          /\ made'[w]["mydata"] = made[w]["mydata"] + 1
          /\ \A v \in Processes \ {w} : made'[v] = made[v] /\ pc'[v] = pc[v]
          /\ pc'[w] # "write"
      <4>1. pc'[w] = to /\ to # "write"
        BY <1>1, <1>2 DEF TypeOK
      <4> QED
        BY <1>1, <1>2, <1>3, <1>4, <2>0, <2>1, <2>4, <4>1 DEF Racing, TypeOK, Counters
    <3>2. made[w]["mydata"] + 1 = Additions => reg[w] >= 1
      BY <1>1, <1>2, <1>4, <2>0, <2>1, <2>4, CounterAssumption DEF Racing, Counters
    <3>3. ASSUME NEW v \in children
          PROVE  /\ pc'[v] = "write" /\ made'[v]["mydata"] < Additions => reg'[v] <= Sum("mydata")'
                 /\ pc'[v] = "write" /\ made'[v]["mydata"] \in 1 .. Additions - 1 => reg'[v] >= 1
      <4>1. reg[v] \in Nat
        BY <2>0 DEF TypeOK
      <4> QED
        BY <2>0, <2>1, <2>2, <3>1, <4>1 DEF Racing
    <3>4. (\A v \in children : made'[v]["mydata"] = Additions) => cell'["mydata"] >= 2
      BY <2>0, <2>2, <3>1, <3>2
    <3>5. cell'["mydata"] >= 1 /\ cell'["mydata"] <= Sum("mydata")'
      BY <2>2, <3>1
    <3> QED
      BY <1>1, <2>0, <3>3, <3>4, <3>5 DEF Racing
  <2> QED
    BY <1>2, <2>3, <2>4 DEF Counters
<1> QED
  BY <1>1, <1>5, <1>6, <1>7, <1>8, <1>9, <1>10, <1>11

\* The addition stays in the register.
LEMMA KeepStep ==
  ASSUME IInv, NEW w \in Processes, Keep(w)
  PROVE  IInv'
<1> USE DEF IInv
<1>1. /\ pc[w] = "write" /\ program \notin Guarded
      /\ made[w]["mydata"] + 1 < Additions
      /\ reg' = [reg EXCEPT ![w] = @ + 1]
      /\ made' = Count(w, "mydata")
      /\ UNCHANGED <<program, again, children, alone, main, pc, cell, unit>>
  BY DEF Keep, run
<1>2. \A v \in Processes, d \in Counters : made[v][d] \in 0 .. Additions
  BY DEF TypeOK
<1>3. /\ w \in children =>
           /\ Sum("mydata")' = Sum("mydata") + 1
           /\ Sum("acnt")' = Sum("acnt")
      /\ made' \in [Processes -> [Counters -> 0 .. Additions]]
  BY <1>1, <1>2, MadeGrows, CounterAssumption DEF Counters
<1>4. /\ made'[w]["mydata"] = made[w]["mydata"] + 1
      /\ made'[w]["acnt"] = made[w]["acnt"] /\ made'[w]["cnt"] = made[w]["cnt"]
      /\ \A v \in Processes \ {w} : made'[v] = made[v]
  BY <1>1 DEF Count, TypeOK, Counters
<1>5. TypeOK'
  BY <1>1, <1>3 DEF TypeOK
<1>6. \A v \in Processes : Control(v)'
  <2>1. Control(w)'
    BY <1>1, <1>2, <1>4, CounterAssumption DEF Control, Target, Counters
  <2> QED
    BY <1>1, <1>4, <2>1 DEF Control, Target
<1>7. Order' /\ Company' /\ Locking'
  BY <1>1 DEF Order, Company, Locking, OneInside, Inside
<1>8. ASSUME alone'
      PROVE  Protected' /\ Racing'
  <2>1. Protected /\ Racing
    BY <1>1, <1>8
  <2>0. w \in children /\ children \subseteq Processes
    BY <1>1, <1>8, OnlyChildren DEF TypeOK
  <2>2. Protected'
    BY <1>1, <1>3, <2>0, <2>1 DEF Protected
  <2>3. Sum("mydata") \in Nat /\ reg[w] \in Nat /\ reg'[w] = reg[w] + 1
    BY <1>1, MadeFinite DEF TypeOK
  <2>4. \A v \in Processes \ {w} : reg'[v] = reg[v] /\ reg[v] \in Nat
    BY <1>1 DEF TypeOK
  <2>5. Racing'
    BY <1>1, <1>2, <1>3, <1>4, <2>0, <2>1, <2>3, <2>4, CounterAssumption DEF Racing, Counters, TypeOK
  <2> QED
    BY <2>2, <2>5
<1> QED
  BY <1>5, <1>6, <1>7, <1>8

\* The atomic addition.
LEMMA FetchStep ==
  ASSUME IInv, NEW w \in Processes, Fetch(w), program = "atomic"
  PROVE  IInv'
<1> USE DEF IInv
<1>1. /\ pc[w] = "fetch" /\ pc' = [pc EXCEPT ![w] = "read"]
      /\ cell' = [cell EXCEPT !["acnt"] = @ + 1]
      /\ made' = Count(w, "acnt")
      /\ UNCHANGED <<program, again, children, alone, main, reg, unit>>
  BY DEF Fetch, Goto, run
<1>2. /\ made[w]["acnt"] < Additions /\ made[w]["mydata"] = Additions
      /\ \A v \in Processes, d \in Counters : made[v][d] \in 0 .. Additions
  BY <1>1 DEF Control, TypeOK
<1>3. /\ w \in children =>
           /\ Sum("acnt")' = Sum("acnt") + 1
           /\ Sum("mydata")' = Sum("mydata")
      /\ made' \in [Processes -> [Counters -> 0 .. Additions]]
  BY <1>1, <1>2, MadeGrows DEF Counters
<1>4. /\ made'[w]["acnt"] = made[w]["acnt"] + 1
      /\ made'[w]["mydata"] = made[w]["mydata"] /\ made'[w]["cnt"] = made[w]["cnt"]
      /\ \A v \in Processes \ {w} : made'[v] = made[v] /\ pc'[v] = pc[v]
      /\ pc'[w] = "read"
  BY <1>1 DEF Count, TypeOK, Counters
<1>5. TypeOK'
  BY <1>1, <1>3 DEF TypeOK, Counters
<1>6. \A v \in Processes : Control(v)'
  <2>1. Control(w)'
    BY <1>1, <1>2, <1>4, CounterAssumption DEF Control, Target, Counters
  <2> QED
    BY <1>1, <1>4, <2>1 DEF Control, Target
<1>7. Order' /\ Company' /\ Locking'
  <2>1. Order' /\ Company'
    BY <1>1, WorkerFrame
  <2> QED
    BY <1>1, <1>4, <2>1 DEF Locking, OneInside, Inside, Guarded
<1>8. ASSUME alone'
      PROVE  Protected' /\ Racing'
  <2>1. Protected /\ Racing
    BY <1>1, <1>8 DEF Guarded
  <2>0. w \in children /\ children \subseteq Processes
    BY <1>1, <1>8, OnlyChildren DEF TypeOK
  <2>2. cell'["acnt"] = cell["acnt"] + 1 /\ cell'["mydata"] = cell["mydata"]
    BY <1>1 DEF TypeOK, Counters
  <2>3. Protected'
    BY <1>1, <1>3, <2>0, <2>1, <2>2 DEF Protected, Guarded
  <2>4. Racing'
    BY <1>1, <1>2, <1>3, <1>4, <2>0, <2>1, <2>2, CounterAssumption DEF Racing, Counters
  <2> QED
    BY <2>3, <2>4
<1> QED
  BY <1>5, <1>6, <1>7, <1>8

-----------------------------------------------------------------------------
LEMMA NextIInv == IInv /\ [Next]_vars => IInv'
<1> SUFFICES ASSUME IInv, [Next]_vars PROVE IInv'
  OBVIOUS
<1>1. CASE Next
  BY <1>1, NextCases, SetCounterStep, InitLockStep, MainStep, AgainStep, LockStep, ReadStep, WriteStep, KeepStep, FetchStep
<1>2. CASE UNCHANGED vars
  <2>1. \A c \in Counters : Sum(c)' = Sum(c)
    BY <1>2, QuietSums DEF vars
  <2> QED
    BY <1>2, <2>1 DEF vars, IInv, TypeOK, Control, Target, Order, Company, Locking, OneInside,
       Inside, Protected, Racing, Counters
<1> QED
  BY <1>1, <1>2

THEOREM Inductive == Spec => []IInv
  BY InitIInv, NextIInv, PTL DEF Spec

\* At the end every worker has made all its additions.
LEMMA AtEnd ==
  ASSUME IInv, main = "end", program # "ichmagzuege"
  PROVE  /\ Sum("mydata") = Total
         /\ \A w \in children : made[w]["mydata"] = Additions
         /\ program = "atomic" => Sum("acnt") = Total
<1>1. \A w \in children :
        /\ made[w]["mydata"] = Additions
        /\ program = "atomic" => made[w]["acnt"] = Additions
  BY DEF IInv, TypeOK, Order, Control
<1> QED
  BY <1>1, MadeAll DEF IInv, Counters

\* No variable leaves its type, and the lock's unit is never doubled
\* (TypeOK), for any number of workers and additions.
THEOREM TypeCorrect == Spec => []TypeOK
<1>1. IInv => TypeOK
  BY DEF IInv
<1> QED
  BY Inductive, <1>1, PTL

\* The mutex or semaphore admits one worker, or train, at a time (OneInside).
THEOREM MutualExclusion == Spec => []OneInside
<1>1. IInv => OneInside
  BY DEF IInv, Locking
<1> QED
  BY Inductive, <1>1, PTL

\* Under the mutex, the semaphore or the atomic no addition is lost, whatever counter and
\* mutex an earlier run left in the segment, if none of its children was left (Exact).
THEOREM ProtectedIsExact == Spec => []Exact
<1>1. IInv => Exact
  BY AtEnd DEF IInv, Exact, Protected
<1> QED
  BY Inductive, <1>1, PTL

\* Without protection the printed number is between two and the number of
\* additions (LostUpdates).
THEOREM RacingIsBounded == Spec => []LostUpdates
<1>1. IInv => LostUpdates
  <2> SUFFICES ASSUME IInv, main = "end", alone, program \notin Guarded
               PROVE  cell["mydata"] \in 2 .. Total
    BY DEF LostUpdates
  <2>1. Racing
    BY DEF IInv
  <2>2. cell["mydata"] \in Nat /\ Total \in Nat
    BY CounterAssumption, ChildrenFinite DEF IInv, TypeOK, Counters, Total
  <2> QED
    BY <2>1, <2>2, AtEnd DEF Racing, Guarded
<1> QED
  BY Inductive, <1>1, PTL

=============================================================================
