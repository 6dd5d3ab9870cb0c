---------------------------- MODULE BufferProofs ----------------------------
(***************************************************************************)
(* The circular buffer of Circularbuffer/circularbuffer.c and the program  *)
(* Aufgabe_4_1/consumerproducer.c that shares it between threads.          *)
(*                                                                         *)
(* First, what its functions do to its contents, for every size, every     *)
(* position of first and every element.  Then, for every set of sizes and  *)
(* elements: it never leaves its block, its index sums never overflow, and *)
(* it is the queue its header promises.  Last, for any number of sensors   *)
(* and any size: no reading is lost, and the sensors never all sleep       *)
(* beside a buffer with room in it.                                        *)
(***************************************************************************)
EXTENDS SensorBuffer, CircularBuffer, SequenceTheorems, TLAPS

\* A struct in use, between cb_init and cb_destroy.
WellFormed(b, E) ==
  b \in [buffer : [0 .. b.size - 1 -> E], first : 0 .. b.size - 1,
         count : 0 .. b.size, size : Nat \ {0}]

\* The two cases of an index that may have to wrap around once.
LEMMA ModBelow == ASSUME NEW n \in Nat \ {0}, NEW a \in 0 .. n - 1
                  PROVE  a % n = a
  OBVIOUS

LEMMA ModAbove == ASSUME NEW n \in Nat \ {0}, NEW a \in n .. 2 * n - 1
                  PROVE  a % n = a - n
  OBVIOUS

LEMMA SlotValue ==
  ASSUME NEW n \in Nat \ {0}, NEW f \in 0 .. n - 1, NEW k \in 0 .. n
  PROVE  slot(f, n, k) = IF f + k < n THEN f + k ELSE f + k - n
<1>1. CASE f + k < n
  BY <1>1, ModBelow DEF slot
<1>2. CASE f + k >= n
  BY <1>2, ModAbove DEF slot
<1> QED
  BY <1>1, <1>2

\* Every slot is inside the block.
LEMMA SlotInBlock ==
  ASSUME NEW n \in Nat \ {0}, NEW f \in 0 .. n - 1, NEW k \in 0 .. n
  PROVE  slot(f, n, k) \in 0 .. n - 1
  BY SlotValue

\* Different elements have different slots: cb_add never overwrites an element
\* that is still in the buffer.
LEMMA SlotInjective ==
  ASSUME NEW n \in Nat \ {0}, NEW f \in 0 .. n - 1,
         NEW j \in 0 .. n - 1, NEW k \in 0 .. n - 1, j # k
  PROVE  slot(f, n, j) # slot(f, n, k)
<1>1. /\ slot(f, n, j) = IF f + j < n THEN f + j ELSE f + j - n
      /\ slot(f, n, k) = IF f + k < n THEN f + k ELSE f + k - n
  BY SlotValue
<1> QED
  BY <1>1

\* Advancing first by one shifts every slot by one.
LEMMA SlotShift ==
  ASSUME NEW n \in Nat \ {0}, NEW f \in 0 .. n - 1, NEW k \in 0 .. n - 1
  PROVE  slot(slot(f, n, 1), n, k) = slot(f, n, k + 1)
<1> DEFINE g == slot(f, n, 1)
<1>1. g = IF f + 1 < n THEN f + 1 ELSE f + 1 - n
  BY SlotValue
<1>2. g \in 0 .. n - 1
  BY SlotInBlock
<1>3. slot(f, n, k + 1) = IF f + (k + 1) < n THEN f + (k + 1) ELSE f + (k + 1) - n
  BY SlotValue
<1> HIDE DEF g
<1>4. slot(g, n, k) = IF g + k < n THEN g + k ELSE g + k - n
  BY <1>2, SlotValue
<1> QED
  BY <1>1, <1>3, <1>4 DEF g

-----------------------------------------------------------------------------
LEMMA ContentsType ==
  ASSUME NEW E, NEW b, WellFormed(b, E)
  PROVE  /\ Contents(b) \in [1 .. b.count -> E]
         /\ Contents(b) \in Seq(E)
         /\ Len(Contents(b)) = b.count
<1>1. /\ b.size \in Nat \ {0} /\ b.first \in 0 .. b.size - 1 /\ b.count \in 0 .. b.size
      /\ b.buffer \in [0 .. b.size - 1 -> E]
  BY DEF WellFormed
<1>2. ASSUME NEW x \in 1 .. b.count
      PROVE  b.buffer[slot(b.first, b.size, x - 1)] \in E
  <2>1. x - 1 \in 0 .. b.size
    BY <1>1
  <2>2. slot(b.first, b.size, x - 1) \in 0 .. b.size - 1
    BY <1>1, <2>1, SlotInBlock
  <2> QED
    BY <1>1, <2>2
<1>3. Contents(b) \in [1 .. b.count -> E]
  BY <1>2 DEF Contents
<1>4. b.count \in Nat
  BY <1>1
<1> QED
  BY <1>3, <1>4

\* cb_add puts the element behind the others and leaves a struct well formed.
LEMMA AddAppends ==
  ASSUME NEW E, NEW b, NEW e \in E, WellFormed(b, E), b.count < b.size
  PROVE  /\ cb_add(b, e).ret = 0
         /\ WellFormed(cb_add(b, e).cb, E)
         /\ cb_add(b, e).cb.size = b.size
         /\ Contents(cb_add(b, e).cb) = Append(Contents(b), e)
<1> DEFINE c == cb_add(b, e).cb
           k == slot(b.first, b.size, b.count)
<1>1. /\ b.size \in Nat \ {0} /\ b.first \in 0 .. b.size - 1 /\ b.count \in 0 .. b.size - 1
      /\ b.buffer \in [0 .. b.size - 1 -> E]
  BY DEF WellFormed
<1>2. k \in 0 .. b.size - 1
  BY <1>1, SlotInBlock
<1>3. /\ cb_add(b, e).ret = 0
      /\ c = [buffer |-> [b.buffer EXCEPT ![k] = e], first |-> b.first,
              count |-> b.count + 1, size |-> b.size]
  <2>1. ~(b.count >= b.size)
    BY <1>1
  <2> QED
    BY <2>1 DEF cb_add, cb_index
<1> HIDE DEF c, k
<1>4. WellFormed(c, E) /\ c.size = b.size
  BY <1>1, <1>2, <1>3 DEF WellFormed
<1>5. ASSUME NEW x \in 1 .. b.count + 1
      PROVE  Contents(c)[x] = Append(Contents(b), e)[x]
  <2> DEFINE j == slot(b.first, b.size, x - 1)
  <2>1. Contents(c)[x] = [b.buffer EXCEPT ![k] = e][j]
    BY <1>3 DEF Contents
  <2>2. x - 1 \in 0 .. b.size
    BY <1>1
  <2>3. j \in 0 .. b.size - 1
    BY <1>1, <2>2, SlotInBlock
  <2>4. CASE x = b.count + 1
    <3>1. j = k
      BY <1>1, <2>4 DEF k
    <3>2. Append(Contents(b), e)[x] = e
      BY <2>4, ContentsType
    <3> QED
      BY <1>1, <2>1, <2>3, <3>1, <3>2
  <2>5. CASE x \in 1 .. b.count
    <3>1. x - 1 \in 0 .. b.size - 1 /\ x - 1 # b.count
      BY <1>1, <2>5
    <3>2. j # k
      BY <1>1, <3>1, SlotInjective DEF k
    <3>3. Append(Contents(b), e)[x] = Contents(b)[x]
      BY <2>5, ContentsType
    <3>4. Contents(b)[x] = b.buffer[j]
      BY <2>5 DEF Contents
    <3> QED
      BY <1>1, <2>1, <2>3, <3>2, <3>3, <3>4
  <2>6. x = b.count + 1 \/ x \in 1 .. b.count
    BY <1>1
  <2> QED
    BY <2>4, <2>5, <2>6
<1>6. /\ Contents(c) \in Seq(E) /\ Len(Contents(c)) = b.count + 1
      /\ Append(Contents(b), e) \in Seq(E) /\ Len(Append(Contents(b), e)) = b.count + 1
  BY <1>3, <1>4, ContentsType, AppendProperties
<1>7. Contents(c) = Append(Contents(b), e)
  BY <1>5, <1>6, SeqEqual
<1> QED
  BY <1>3, <1>4, <1>7 DEF c

\* cb_remove takes the first element and leaves a struct well formed.
LEMMA RemoveTakesFirst ==
  ASSUME NEW E, NEW b, NEW e, WellFormed(b, E), b.count > 0
  PROVE  /\ cb_remove(b, e).ret = 0
         /\ cb_remove(b, e).elem = IF e = NULL THEN NULL ELSE Head(Contents(b))
         /\ WellFormed(cb_remove(b, e).cb, E)
         /\ cb_remove(b, e).cb.size = b.size
         /\ Contents(b) # <<>>
         /\ Contents(cb_remove(b, e).cb) = Tail(Contents(b))
<1> DEFINE c == cb_remove(b, e).cb
           f == slot(b.first, b.size, 1)
<1>1. /\ b.size \in Nat \ {0} /\ b.first \in 0 .. b.size - 1 /\ b.count \in 1 .. b.size
      /\ b.buffer \in [0 .. b.size - 1 -> E]
  BY DEF WellFormed
<1>2. f \in 0 .. b.size - 1
  <2>1. 1 \in 0 .. b.size
    BY <1>1
  <2> QED
    BY <1>1, <2>1, SlotInBlock
<1>3. /\ cb_remove(b, e).ret = 0
      /\ cb_remove(b, e).elem = IF e = NULL THEN NULL ELSE b.buffer[b.first]
      /\ c = [buffer |-> b.buffer, first |-> f, count |-> b.count - 1, size |-> b.size]
  <2>1. ~(b.count <= 0)
    BY <1>1
  <2> QED
    BY <2>1 DEF cb_remove
<1> HIDE DEF c, f
<1>4. WellFormed(c, E) /\ c.size = b.size
  BY <1>1, <1>2, <1>3 DEF WellFormed
<1>5. Head(Contents(b)) = b.buffer[b.first] /\ Contents(b) # <<>>
  <2>1. slot(b.first, b.size, 1 - 1) = b.first
    BY <1>1, SlotValue
  <2>2. Contents(b)[1] = b.buffer[slot(b.first, b.size, 1 - 1)]
    BY <1>1 DEF Contents
  <2> QED
    BY <1>1, <2>1, <2>2, ContentsType
<1>6. /\ Contents(c) \in Seq(E) /\ Len(Contents(c)) = b.count - 1
      /\ Tail(Contents(b)) \in Seq(E) /\ Len(Tail(Contents(b))) = b.count - 1
  BY <1>1, <1>3, <1>4, <1>5, ContentsType, HeadTailProperties
<1>7. ASSUME NEW x \in 1 .. b.count - 1
      PROVE  Contents(c)[x] = Tail(Contents(b))[x]
  <2>1. Contents(c)[x] = b.buffer[slot(f, b.size, x - 1)]
    BY <1>3 DEF Contents
  <2>2. x - 1 \in 0 .. b.size - 1 /\ x + 1 \in 1 .. b.count
    BY <1>1
  <2>3. slot(f, b.size, x - 1) = slot(b.first, b.size, (x - 1) + 1)
    BY <1>1, <2>2, SlotShift DEF f
  <2>4. Tail(Contents(b))[x] = Contents(b)[x + 1]
    BY <1>1, <1>5, ContentsType
  <2>5. Contents(b)[x + 1] = b.buffer[slot(b.first, b.size, (x + 1) - 1)]
    BY <2>2 DEF Contents
  <2>6. (x - 1) + 1 = (x + 1) - 1
    OBVIOUS
  <2> QED
    BY <2>1, <2>3, <2>4, <2>5, <2>6
<1>8. Contents(c) = Tail(Contents(b))
  BY <1>6, <1>7, SeqEqual
<1> QED
  BY <1>3, <1>4, <1>5, <1>8 DEF c

-----------------------------------------------------------------------------
(* Any caller that keeps to the order of calls *)

\* A struct in use is well formed in the sense of the lemmas on cb_add and
\* cb_remove; the outcome of the last call is always one of the declared ones.
CbIInv ==
  /\ ret \in {0, -1, -2}
  /\ got \in Elements \cup {NULL}
  /\ cb \in [buffer : {cb.buffer}, first : Int, count : Int, size : Int]
  /\ Live => WellFormed(cb, Elements) /\ cb.size \in Sizes

LEMMA CbInitIInv == CbInit => CbIInv
  BY DEF CbInit, CbIInv, Live

LEMMA InitBufferStep ==
  ASSUME CbIInv, NEW s \in Sizes, InitBuffer(s)
  PROVE  CbIInv' /\ fifo!Open(s)
<1> PICK mem \in {NULL} \cup [0 .. s - 1 -> Elements] :
         /\ ret' = cb_init(cb, s, mem).ret
         /\ cb' = cb_init(cb, s, mem).cb
  BY DEF InitBuffer
<1>1. ~Live /\ got' = NULL
  BY DEF InitBuffer
<1>2. s \in Int
  BY CircularBufferAssumption
<1>3. CASE s <= 0
  <2>1. ret' = -1 /\ cb' = cb
    BY <1>3 DEF cb_init
  <2> QED
    BY <1>1, <2>1 DEF CbIInv, Live, fifo!Open
<1>4. CASE s > 0 /\ mem = NULL
  <2>1. ret' = -2 /\ cb' = [cb EXCEPT !.buffer = NULL]
    BY <1>2, <1>4 DEF cb_init
  <2> QED
    BY <1>1, <2>1 DEF CbIInv, Live, fifo!Open
<1>5. CASE s > 0 /\ mem # NULL
  <2>1. ret' = 0 /\ cb' = [buffer |-> mem, first |-> 0, count |-> 0, size |-> s]
    BY <1>2, <1>5 DEF cb_init
  <2>2. WellFormed(cb', Elements)
    BY <1>2, <1>5, <2>1 DEF WellFormed
  <2>3. Contents(cb') = <<>>
    BY <2>1 DEF Contents
  <2> QED
    BY <1>1, <1>2, <1>5, <2>1, <2>2, <2>3 DEF CbIInv, Live, fifo!Open
<1> QED
  BY <1>2, <1>3, <1>4, <1>5

LEMMA DestroyStep ==
  ASSUME CbIInv, Destroy
  PROVE  CbIInv' /\ fifo!Close
<1>1. CASE Live
  <2>1. ret' = 0 /\ cb' = [cb EXCEPT !.buffer = NULL] /\ got' = NULL
    BY <1>1 DEF Destroy, cb_destroy, Live
  <2>2. cb.size # 0
    BY <1>1 DEF CbIInv, WellFormed
  <2> QED
    BY <1>1, <2>1, <2>2 DEF CbIInv, Live, fifo!Close
<1>2. CASE ~Live
  <2>1. ret' = -1 /\ cb' = cb /\ got' = NULL
    BY <1>2 DEF Destroy, cb_destroy, Live
  <2> QED
    BY <1>2, <2>1 DEF CbIInv, Live, fifo!Close
<1> QED
  BY <1>1, <1>2

\* A well-formed struct has a block, and a block is not the null pointer.
LEMMA WellFormedLive ==
  ASSUME NEW b, WellFormed(b, Elements), b.size \in Sizes
  PROVE  /\ b.buffer # NULL
         /\ b \in [buffer : {b.buffer}, first : Int, count : Int, size : Int]
  BY CircularBufferAssumption DEF WellFormed

LEMMA AddStep ==
  ASSUME CbIInv, NEW e \in Elements, Add(e)
  PROVE  CbIInv' /\ fifo!Put(e)
<1>1. Live /\ WellFormed(cb, Elements) /\ cb.size \in Sizes
  BY DEF Add, CbIInv
<1>2. /\ cb.count \in 0 .. cb.size /\ cb.size \in Nat \ {0}
      /\ Contents(cb) \in Seq(Elements) /\ Len(Contents(cb)) = cb.count
  BY <1>1, ContentsType DEF WellFormed
<1>3. CASE cb.count < cb.size
  <2>1. /\ ret' = 0
        /\ WellFormed(cb', Elements)
        /\ cb'.size = cb.size
        /\ Contents(cb') = Append(Contents(cb), e)
        /\ got' = NULL
    BY <1>1, <1>3, AddAppends DEF Add
  <2>2. cb'.buffer # NULL /\ cb' \in [buffer : {cb'.buffer}, first : Int, count : Int, size : Int]
    BY <1>1, <2>1, WellFormedLive
  <2> QED
    BY <1>1, <1>2, <1>3, <2>1, <2>2 DEF CbIInv, Live, fifo!Put
<1>4. CASE cb.count = cb.size
  <2>1. ret' = -1 /\ cb' = cb /\ got' = NULL
    BY <1>2, <1>4 DEF Add, cb_add
  <2> QED
    BY <1>1, <1>2, <1>4, <2>1 DEF CbIInv, Live, fifo!Put
<1> QED
  BY <1>2, <1>3, <1>4

LEMMA RemoveStep ==
  ASSUME CbIInv, Remove
  PROVE  CbIInv' /\ fifo!Take
<1>1. Live /\ WellFormed(cb, Elements) /\ cb.size \in Sizes
  BY DEF Remove, CbIInv
<1>2. /\ cb.count \in 0 .. cb.size /\ cb.size \in Nat \ {0}
      /\ Contents(cb) \in Seq(Elements) /\ Len(Contents(cb)) = cb.count
  BY <1>1, ContentsType DEF WellFormed
<1>3. PICK e \in Elements \cup {NULL} :
        /\ ret' = cb_remove(cb, e).ret
        /\ cb' = cb_remove(cb, e).cb
        /\ got' = IF cb_remove(cb, e).ret = 0 THEN cb_remove(cb, e).elem ELSE NULL
  BY DEF Remove
<1>4. CASE cb.count > 0
  <2>1. /\ ret' = 0
        /\ WellFormed(cb', Elements)
        /\ cb'.size = cb.size
        /\ Contents(cb) # <<>>
        /\ Contents(cb') = Tail(Contents(cb))
        /\ got' = IF e = NULL THEN NULL ELSE Head(Contents(cb))
    BY <1>1, <1>3, <1>4, RemoveTakesFirst
  <2>2. cb'.buffer # NULL /\ cb' \in [buffer : {cb'.buffer}, first : Int, count : Int, size : Int]
    BY <1>1, <2>1, WellFormedLive
  <2>3. Head(Contents(cb)) \in Elements
    BY <1>2, <2>1
  <2> QED
    BY <1>1, <1>2, <2>1, <2>2, <2>3 DEF CbIInv, Live, fifo!Take
<1>5. CASE cb.count = 0
  <2>1. ret' = -1 /\ cb' = cb /\ got' = NULL
    BY <1>3, <1>5 DEF cb_remove
  <2>2. Contents(cb) = <<>>
    BY <1>2, <1>5
  <2> QED
    BY <1>1, <1>2, <2>1, <2>2 DEF CbIInv, Live, fifo!Take
<1> QED
  BY <1>2, <1>4, <1>5

-----------------------------------------------------------------------------
\* The invariant holds in every reachable state.
LEMMA CbInductive == CbSpec => []CbIInv
<1>1. CbIInv /\ [CbNext]_cbVars => CbIInv'
  <2> SUFFICES ASSUME CbIInv, [CbNext]_cbVars PROVE CbIInv'
    OBVIOUS
  <2>1. CASE UNCHANGED cbVars
    BY <2>1 DEF cbVars, CbIInv, Live
  <2>2. CASE CbNext
    BY <2>2, InitBufferStep, DestroyStep, AddStep, RemoveStep DEF CbNext
  <2> QED
    BY <2>1, <2>2
<1> QED
  BY CbInitIInv, <1>1, PTL DEF CbSpec

\* While it is in use the struct is well formed, so no access leaves the block.
THEOREM CbTypeCorrect == CbSpec => []CbTypeOK
<1>1. CbIInv => CbTypeOK
  BY DEF CbIInv, CbTypeOK, WellFormed
<1> QED
  BY CbInductive, <1>1, PTL

\* The sums from which indices are computed stay within an int.
THEOREM NoOverflow == CbSpec => []SumFits
<1>1. CbIInv => SumFits
  <2> SUFFICES ASSUME CbIInv, Live PROVE SumFits
    BY DEF SumFits
  <2>1. /\ cb.first \in 0 .. cb.size - 1 /\ cb.count \in 0 .. cb.size
        /\ cb.size \in Nat \ {0} /\ 2 * cb.size - 2 <= INT_MAX /\ INT_MAX \in Nat \ {0}
    BY CircularBufferAssumption DEF CbIInv, WellFormed
  <2> QED
    BY <2>1 DEF SumFits
<1> QED
  BY CbInductive, <1>1, PTL

\* The circular buffer implements the queue of its header: initial states map to
\* initial states, and every call to the call of the same name.
THEOREM Implements == CbSpec => Fifo
<1>1. CbInit => fifo!Init
  BY DEF CbInit, Live, fifo!Init
<1>2. CbIInv /\ [CbNext]_cbVars => [fifo!Next]_(fifo!fifoVars)
  <2> SUFFICES ASSUME CbIInv, [CbNext]_cbVars PROVE [fifo!Next]_(fifo!fifoVars)
    OBVIOUS
  <2>1. CASE UNCHANGED cbVars
    BY <2>1 DEF cbVars, Live, fifo!fifoVars
  <2>2. CASE CbNext
    BY <2>2, InitBufferStep, DestroyStep, AddStep, RemoveStep DEF CbNext, fifo!Next
  <2> QED
    BY <2>1, <2>2
<1> QED
  BY CbInductive, <1>1, <1>2, PTL DEF CbSpec, Fifo, fifo!Spec

-----------------------------------------------------------------------------
(* Sensors and logger, at any interleaving                                  *)

\* Where the mutex is held.
Critical ==
  {"check", "add", "wait", "unlock", "log_take", "log_signal", "log_unlock"}

\* The two halves of TypeOK, and what else concerns where the threads are: the mutex is
\* held by one of them, a sensor that is registered as waiting does wait, and main
\* comes after all others.
ControlTypes ==
  /\ \A s \in Sensors : pc[s] \in SensorLabels
  /\ pc[Logger] \in LoggerLabels
  /\ pc[Main] \in MainLabels
  /\ owner \in [Mutexes -> Threads \cup {Nobody}]
  /\ waiting \in [Conds -> SUBSET Sensors]
  /\ counter \in {0, 1}
  /\ i \in 0 .. ITERATIONS
  /\ spurious \in 0 .. SPURIOUS

DataTypes ==
  /\ myCB.buffer \in [0 .. SIZE - 1 -> Nat] \cup {NULL}
  /\ myCB.first \in 0 .. SIZE - 1
  /\ myCB.count \in 0 .. SIZE
  /\ myCB.size = SIZE
  /\ summed \in Seq(Nat) /\ turns \in Seq(Nat)
  /\ produced \in Nat /\ removed \in Nat

Control ==
  /\ ControlTypes
  /\ pc \in [Threads -> SensorLabels \cup LoggerLabels \cup MainLabels]
  /\ \A t \in Threads : pc[t] \in Critical => owner["mutex"] = t
  /\ \A s \in waiting["producer"] : pc[s] = "waiting"
  /\ pc[Main] # "main_join" => \A t \in Sensors \cup {Logger} : pc[t] = "done"
  /\ pc[Logger] \in {"log_lock", "log_take", "log_signal", "log_unlock"} => i < ITERATIONS

\* What a sensor has read of the buffer is still true when it acts on it.
Checked ==
  /\ \A s \in Sensors : pc[s] = "add" => myCB.count < SIZE
  /\ \A s \in Sensors : pc[s] = "wait" => myCB.count = SIZE

\* If all sensors sleep the buffer is full, or the logger is about to signal.
Asleep ==
  (\A s \in Sensors : s \in waiting["producer"]) =>
    (myCB.count = SIZE \/ pc[Logger] = "log_signal")

\* The readings r + 1, ..., r + n.
Window(r, n) == [k \in 1 .. n |-> r + k]

\* Until main gives it back the buffer is well formed, and holds the readings that have
\* not been removed; those the logger has removed entered the sum in their order.
Kept ==
  /\ pc[Main] # "done" => WellFormed(myCB, Nat)
  /\ myCB.buffer # NULL =>
       /\ produced = removed + myCB.count
       /\ Contents(myCB) = Window(removed, myCB.count)
  /\ pc[Main] = "main_join" => SummedInOrder

IInv == Control /\ DataTypes /\ Checked /\ Asleep /\ Kept

LEMMA SensorControl ==
  ASSUME Control, NEW s \in Sensors, Sensor(s)
  PROVE  Control'
<1> USE SensorBufferAssumption, PthreadsAssumption
    DEF Control, ControlTypes, SensorLabels, LoggerLabels, MainLabels, Critical, data
<1>1. CASE SensorLoop(s)
  BY <1>1 DEF SensorLoop, Step
<1>2. CASE SensorLock(s)
  BY <1>2 DEF SensorLock, Step, Lock
<1>3. CASE SensorCheck(s)
  BY <1>3 DEF SensorCheck, Step
<1>4. CASE SensorAdd(s)
  BY <1>4 DEF SensorAdd, Step
<1>5. CASE SensorWait(s)
  BY <1>5 DEF SensorWait, Step, CondSleep, Unlock
<1>6. CASE SensorWake(s)
  BY <1>6 DEF SensorWake, Step, CondReturn, Lock
<1>7. CASE SensorUnlock(s)
  BY <1>7 DEF SensorUnlock, Step, Unlock
<1> QED
  BY <1>1, <1>2, <1>3, <1>4, <1>5, <1>6, <1>7 DEF Sensor

LEMMA OtherControl ==
  ASSUME Control, Log \/ MainThread \/ Wakeup
  PROVE  Control'
<1> USE SensorBufferAssumption, PthreadsAssumption
    DEF Control, ControlTypes, SensorLabels, LoggerLabels, MainLabels, Critical, data
<1>1. CASE LogLoop
  BY <1>1 DEF LogLoop, Step
<1>2. CASE LogLock
  BY <1>2 DEF LogLock, Step, Lock
<1>3. CASE LogTake
  BY <1>3 DEF LogTake, Step
<1>4. CASE LogSignal
  BY <1>4 DEF LogSignal, Step, Signal
<1>5. CASE LogUnlock
  BY <1>5 DEF LogUnlock, Step, Unlock
<1>6. CASE LogStop
  BY <1>6 DEF LogStop, Step
<1>7. CASE MainJoin
  BY <1>7 DEF MainJoin, Step
<1>8. CASE MainDrain
  BY <1>8 DEF MainDrain, Step
<1>9. CASE MainDestroy
  BY <1>9 DEF MainDestroy, Step
<1>10. CASE Wakeup
  BY <1>10 DEF Wakeup, SpuriousWakeup
<1> QED
  BY <1>1, <1>2, <1>3, <1>4, <1>5, <1>6, <1>7, <1>8, <1>9, <1>10 DEF Log, MainThread

LEMMA WindowAppend ==
  ASSUME NEW r \in Nat, NEW n \in Nat
  PROVE  /\ Window(r, n) \in Seq(Nat) /\ Len(Window(r, n)) = n
         /\ Append(Window(r, n), (r + n) + 1) = Window(r, n + 1)
<1>1. /\ Window(r, n) \in Seq(Nat) /\ Len(Window(r, n)) = n
      /\ Window(r, n + 1) \in Seq(Nat) /\ Len(Window(r, n + 1)) = n + 1
  BY DEF Window
<1>2. /\ Append(Window(r, n), (r + n) + 1) \in Seq(Nat)
      /\ Len(Append(Window(r, n), (r + n) + 1)) = n + 1
  BY <1>1, AppendProperties
<1>3. ASSUME NEW x \in 1 .. n + 1
      PROVE  Append(Window(r, n), (r + n) + 1)[x] = Window(r, n + 1)[x]
  <2>1. CASE x \in 1 .. n
    BY <1>1, <2>1 DEF Window
  <2>2. CASE x = n + 1
    BY <1>1, <2>2 DEF Window
  <2>3. x \in 1 .. n \/ x = n + 1
    OBVIOUS
  <2> QED
    BY <2>1, <2>2, <2>3
<1> QED
  BY <1>1, <1>2, <1>3, SeqEqual

LEMMA WindowTail ==
  ASSUME NEW r \in Nat, NEW n \in Nat \ {0}
  PROVE  /\ Head(Window(r, n)) = r + 1
         /\ Tail(Window(r, n)) = Window(r + 1, n - 1)
<1>1. /\ Window(r, n) \in Seq(Nat) /\ Len(Window(r, n)) = n /\ Window(r, n) # <<>>
      /\ Window(r + 1, n - 1) \in Seq(Nat) /\ Len(Window(r + 1, n - 1)) = n - 1
  BY DEF Window
<1>2. /\ Tail(Window(r, n)) \in Seq(Nat)
      /\ Len(Tail(Window(r, n))) = n - 1
  BY <1>1, HeadTailProperties
<1>3. ASSUME NEW x \in 1 .. n - 1
      PROVE  Tail(Window(r, n))[x] = Window(r + 1, n - 1)[x]
  <2>1. Tail(Window(r, n))[x] = Window(r, n)[x + 1]
    BY <1>1
  <2> QED
    BY <2>1 DEF Window
<1>4. Head(Window(r, n)) = r + 1
  BY <1>1 DEF Window
<1> QED
  BY <1>1, <1>2, <1>3, <1>4, SeqEqual

\* A step that leaves the buffer and the histories alone.
LEMMA SameData ==
  ASSUME DataTypes, Kept, UNCHANGED <<myCB, summed, turns, produced, removed>>,
         pc[Main] = "done" => pc'[Main] = "done",
         pc'[Main] = "main_join" => pc[Main] = "main_join"
  PROVE  DataTypes' /\ Kept'
<1>1. DataTypes'
  BY DEF DataTypes
<1>2. pc'[Main] # "done" => WellFormed(myCB', Nat)
  BY DEF Kept
<1>3. myCB'.buffer # NULL =>
        /\ produced' = removed' + myCB'.count
        /\ Contents(myCB') = Window(removed', myCB'.count)
  BY DEF Kept
<1>4. pc'[Main] = "main_join" => SummedInOrder'
  BY DEF Kept, SummedInOrder
<1> QED
  BY <1>1, <1>2, <1>3, <1>4 DEF Kept

\* The buffer is in use until main ends, and so is a reading in every place of it.
LEMMA InUse ==
  ASSUME Control, DataTypes, Kept, pc[Main] # "done"
  PROVE  /\ WellFormed(myCB, Nat) /\ myCB.buffer # NULL
         /\ myCB.buffer \in [0 .. SIZE - 1 -> Nat]
         /\ myCB.size = SIZE /\ SIZE \in Nat \ {0, 1}
         /\ myCB.count \in 0 .. SIZE
         /\ produced \in Nat /\ removed \in Nat /\ produced = removed + myCB.count
         /\ Contents(myCB) = Window(removed, myCB.count)
<1>1. WellFormed(myCB, Nat) /\ myCB.size = SIZE /\ myCB.count \in 0 .. SIZE
  BY DEF Kept, DataTypes
<1>2. myCB.buffer \in [0 .. SIZE - 1 -> Nat]
  BY <1>1 DEF WellFormed
<1>3. myCB.buffer # NULL
  BY <1>2, SensorBufferAssumption
<1> QED
  BY <1>1, <1>2, <1>3, SensorBufferAssumption DEF Kept, DataTypes

\* thread_func1 puts its reading behind those in the buffer.
LEMMA AddData ==
  ASSUME IInv, NEW s \in Sensors, SensorAdd(s)
  PROVE  DataTypes' /\ Kept'
<1>1. /\ pc[s] = "add" /\ s \in Threads /\ s # Main /\ pc[Main] = "main_join"
      /\ pc' = [pc EXCEPT ![s] = "unlock"]
      /\ myCB' = cb_add(myCB, produced + 1).cb
      /\ produced' = produced + 1 /\ UNCHANGED <<summed, turns, removed>>
  BY SensorBufferAssumption DEF SensorAdd, Step, IInv, Control, Critical
<1>2. pc'[Main] = "main_join"
  BY <1>1, SensorBufferAssumption DEF IInv, Control
<1>3. /\ WellFormed(myCB, Nat) /\ myCB.size = SIZE /\ SIZE \in Nat
      /\ produced \in Nat /\ removed \in Nat /\ produced = removed + myCB.count
      /\ Contents(myCB) = Window(removed, myCB.count)
  BY <1>1, InUse DEF IInv
<1>4. myCB.count < myCB.size /\ myCB.count \in Nat
  BY <1>1, <1>3 DEF IInv, Checked, DataTypes
<1>5. /\ WellFormed(myCB', Nat) /\ myCB'.size = SIZE
      /\ Contents(myCB') = Append(Contents(myCB), produced + 1)
  <2>1. produced + 1 \in Nat
    BY <1>3
  <2> QED
    BY <1>1, <1>3, <1>4, <2>1, AddAppends
<1>6. myCB'.count = myCB.count + 1
  BY <1>1, <1>3, <1>4 DEF cb_add
<1>7. Contents(myCB') = Window(removed, myCB.count + 1)
  BY <1>3, <1>4, <1>5, WindowAppend
<1>8. DataTypes'
  <2>1. /\ myCB'.buffer \in [0 .. SIZE - 1 -> Nat] /\ myCB'.first \in 0 .. SIZE - 1
        /\ myCB'.count \in 0 .. SIZE
    BY <1>5 DEF WellFormed
  <2>2. summed' \in Seq(Nat) /\ turns' \in Seq(Nat)
    BY <1>1 DEF IInv, DataTypes
  <2>3. produced' \in Nat /\ removed' \in Nat
    BY <1>1, <1>3
  <2> QED
    BY <1>5, <2>1, <2>2, <2>3 DEF DataTypes
<1>9. produced' = removed' + myCB'.count
  BY <1>1, <1>3, <1>4, <1>6
<1>10. SummedInOrder'
  BY <1>1 DEF IInv, Kept, SummedInOrder
<1>11. Contents(myCB') = Window(removed', myCB'.count)
  BY <1>1, <1>6, <1>7
<1> QED
  BY <1>5, <1>8, <1>9, <1>10, <1>11 DEF Kept

\* What an empty turn adds leaves the readings in their order in the sum.
LEMMA SumGrows ==
  ASSUME SummedInOrder, summed \in Seq(Nat), NEW e \in Nat,
         summed' = Append(summed, e), UNCHANGED <<turns, removed>>
  PROVE  SummedInOrder'
<1>1. \A j \in DOMAIN summed : j \in DOMAIN summed' /\ summed'[j] = summed[j]
  OBVIOUS
<1> QED
  BY <1>1 DEF SummedInOrder

\* A turn that removes a reading puts it behind the others.
LEMMA SumTakes ==
  ASSUME SummedInOrder, summed \in Seq(Nat), turns \in Seq(Nat), removed \in Nat,
         summed' = Append(summed, removed + 1), removed' = removed + 1,
         turns' = Append(turns, Len(summed) + 1)
  PROVE  SummedInOrder'
<1>1. /\ \A j \in DOMAIN summed : j \in DOMAIN summed' /\ summed'[j] = summed[j]
      /\ Len(summed) + 1 \in DOMAIN summed'
      /\ summed'[Len(summed) + 1] = removed + 1
  OBVIOUS
<1>2. /\ Len(turns) = removed /\ Len(turns') = removed'
      /\ turns'[removed + 1] = Len(summed) + 1
      /\ \A k \in 1 .. removed : turns'[k] = turns[k]
  BY DEF SummedInOrder
<1>3. \A k \in 1 .. removed : turns[k] \in DOMAIN summed /\ turns[k] < Len(summed) + 1
  BY DEF SummedInOrder
<1>4. \A k \in 1 .. removed' : k \in 1 .. removed \/ k = removed + 1
  OBVIOUS
<1>5. \A k \in 1 .. removed' : turns'[k] \in DOMAIN summed' /\ summed'[turns'[k]] = k
  BY <1>1, <1>2, <1>4 DEF SummedInOrder
<1>6. \A k \in 1 .. removed', j \in 1 .. removed' : j < k => turns'[j] < turns'[k]
  <2> SUFFICES ASSUME NEW k \in 1 .. removed', NEW j \in 1 .. removed', j < k
               PROVE  turns'[j] < turns'[k]
    OBVIOUS
  <2>1. j \in 1 .. removed
    OBVIOUS
  <2>2. CASE k \in 1 .. removed
    BY <1>2, <2>1, <2>2 DEF SummedInOrder
  <2>3. CASE k = removed + 1
    BY <1>2, <1>3, <2>1, <2>3
  <2> QED
    BY <1>4, <2>2, <2>3
<1> QED
  BY <1>2, <1>5, <1>6 DEF SummedInOrder

\* thread_func2 adds up what it takes, and some leftover when there is nothing to take.
LEMMA TakeData ==
  ASSUME IInv, LogTake
  PROVE  DataTypes' /\ Kept'
<1> DEFINE e == myCB.buffer[counter]
           call == cb_remove(myCB, e)
<1>1. /\ pc[Logger] = "log_take" /\ pc[Main] = "main_join"
      /\ pc' = [pc EXCEPT ![Logger] = "log_signal"]
      /\ myCB' = call.cb /\ summed' = Append(summed, call.elem)
      /\ removed' = (IF call.ret = 0 THEN removed + 1 ELSE removed)
      /\ turns' = (IF call.ret = 0 THEN Append(turns, Len(summed) + 1) ELSE turns)
      /\ produced' = produced
  BY SensorBufferAssumption DEF LogTake, Step, IInv, Control
<1>2. pc'[Main] = "main_join"
  BY <1>1, SensorBufferAssumption DEF IInv, Control
<1>3. /\ WellFormed(myCB, Nat) /\ myCB.size = SIZE /\ SIZE \in Nat \ {0, 1}
      /\ myCB.buffer \in [0 .. SIZE - 1 -> Nat] /\ myCB.count \in 0 .. SIZE
      /\ produced \in Nat /\ removed \in Nat /\ produced = removed + myCB.count
      /\ Contents(myCB) = Window(removed, myCB.count)
  BY <1>1, InUse DEF IInv
<1>4. e \in Nat /\ e # NULL
  BY <1>3, SensorBufferAssumption DEF IInv, Control, ControlTypes
<1>5. summed \in Seq(Nat) /\ turns \in Seq(Nat) /\ SummedInOrder
  BY <1>1 DEF IInv, DataTypes, Kept
<1> HIDE DEF e
<1>6. CASE myCB.count = 0
  <2>1. call.ret = -1 /\ call.cb = myCB /\ call.elem = e
    BY <1>6 DEF cb_remove
  <2>2. /\ myCB' = myCB /\ removed' = removed /\ turns' = turns
        /\ summed' = Append(summed, e)
    BY <1>1, <2>1
  <2>3. SummedInOrder'
    BY <1>4, <1>5, <2>2, SumGrows
  <2>4. summed' \in Seq(Nat) /\ turns' \in Seq(Nat)
    BY <1>4, <1>5, <2>2
  <2> HIDE DEF call
  <2>5. DataTypes'
    BY <1>1, <2>2, <2>4 DEF IInv, DataTypes
  <2> QED
    BY <1>1, <1>3, <2>2, <2>3, <2>5 DEF Kept
<1>7. CASE myCB.count > 0
  <2>1. /\ call.ret = 0 /\ call.elem = Head(Contents(myCB))
        /\ WellFormed(call.cb, Nat) /\ call.cb.size = SIZE
        /\ Contents(call.cb) = Tail(Contents(myCB))
    BY <1>3, <1>4, <1>7, RemoveTakesFirst
  <2>2. call.cb.count = myCB.count - 1
    BY <1>3, <1>7 DEF cb_remove
  <2>3. myCB.count \in Nat \ {0}
    BY <1>3, <1>7
  <2>4. call.elem = removed + 1 /\ Contents(call.cb) = Window(removed + 1, myCB.count - 1)
    BY <1>3, <2>1, <2>3, WindowTail
  <2> HIDE DEF call
  <2>5. /\ removed' = removed + 1 /\ summed' = Append(summed, removed + 1)
        /\ turns' = Append(turns, Len(summed) + 1)
    BY <1>1, <2>1, <2>4
  <2>6. summed' \in Seq(Nat) /\ turns' \in Seq(Nat)
    BY <1>3, <1>5, <2>5
  <2>7. SummedInOrder'
    BY <1>3, <1>5, <2>5, SumTakes
  <2>8. DataTypes'
    <3>1. /\ myCB'.buffer \in [0 .. SIZE - 1 -> Nat] /\ myCB'.first \in 0 .. SIZE - 1
          /\ myCB'.count \in 0 .. SIZE /\ myCB'.size = SIZE
      BY <1>1, <2>1 DEF WellFormed
    <3>2. produced' \in Nat /\ removed' \in Nat
      BY <1>1, <1>3, <2>5
    <3> QED
      BY <2>6, <3>1, <3>2 DEF DataTypes
  <2>9. produced' = removed' + myCB'.count
    <3>1. myCB'.count = myCB.count - 1
      BY <1>1, <2>2
    <3> QED
      BY <1>1, <1>3, <2>5, <3>1
  <2>10. Contents(myCB') = Window(removed', myCB'.count)
    BY <1>1, <2>2, <2>4, <2>5
  <2> QED
    BY <1>1, <2>1, <2>7, <2>8, <2>9, <2>10 DEF Kept
<1> QED
  BY <1>3, <1>6, <1>7

\* main adds one more reading if there is room, takes all out, and has done with it.
LEMMA DrainData ==
  ASSUME IInv, MainDrain
  PROVE  DataTypes' /\ Kept'
<1> DEFINE filled == cb_add(myCB, produced + 1)
<1>1. /\ pc[Main] = "main_drain" /\ pc' = [pc EXCEPT ![Main] = "main_destroy"]
      /\ produced' = (IF filled.ret = 0 THEN produced + 1 ELSE produced)
      /\ removed' = removed + cb_count(filled.cb)
      /\ myCB' = [filled.cb EXCEPT !.count = 0, !.first = slot(@, SIZE, cb_count(filled.cb))]
      /\ summed' = summed /\ turns' = turns
  BY DEF MainDrain, Step
<1>2. pc'[Main] = "main_destroy"
  BY <1>1, SensorBufferAssumption DEF IInv, Control
<1>3. /\ WellFormed(myCB, Nat) /\ myCB.size = SIZE /\ SIZE \in Nat \ {0, 1}
      /\ myCB.count \in 0 .. SIZE
      /\ produced \in Nat /\ removed \in Nat /\ produced = removed + myCB.count
  BY <1>1, InUse DEF IInv
<1>4. /\ WellFormed(filled.cb, Nat) /\ filled.cb.size = SIZE
      /\ (IF filled.ret = 0 THEN produced + 1 ELSE produced) = removed + cb_count(filled.cb)
  <2>1. CASE myCB.count < SIZE
    <3>1. produced + 1 \in Nat
      BY <1>3
    <3>2. filled.ret = 0 /\ WellFormed(filled.cb, Nat) /\ filled.cb.size = SIZE
      BY <1>3, <2>1, <3>1, AddAppends
    <3>3. cb_count(filled.cb) = myCB.count + 1
      BY <1>3, <2>1 DEF cb_add, cb_count
    <3> HIDE DEF filled
    <3> QED
      BY <1>3, <3>2, <3>3
  <2>2. CASE myCB.count = SIZE
    <3>1. filled.ret = -1 /\ filled.cb = myCB
      BY <1>3, <2>2 DEF cb_add
    <3> HIDE DEF filled
    <3> QED
      BY <1>3, <3>1 DEF cb_count
  <2> QED
    BY <1>3, <2>1, <2>2
<1> DEFINE c == filled.cb
           f == slot(c.first, SIZE, cb_count(c))
<1>5. /\ c.first \in 0 .. SIZE - 1 /\ cb_count(c) \in 0 .. SIZE
      /\ c.buffer \in [0 .. SIZE - 1 -> Nat]
      /\ c \in [buffer : {c.buffer}, first : {c.first}, count : {c.count}, size : {SIZE}]
  BY <1>4 DEF WellFormed, cb_count
<1>6. f \in 0 .. SIZE - 1
  BY <1>3, <1>5, SlotInBlock
<1>7. removed' = removed + cb_count(c) /\ produced' = removed' /\ myCB' = [c EXCEPT !.count = 0, !.first = f]
  BY <1>1, <1>4
<1> HIDE DEF c, f, filled
<1>8. myCB' = [buffer |-> c.buffer, first |-> f, count |-> 0, size |-> SIZE]
  BY <1>5, <1>7
<1>9. WellFormed(myCB', Nat) /\ Contents(myCB') = <<>> /\ myCB'.count = 0
  BY <1>3, <1>5, <1>6, <1>8 DEF WellFormed, Contents
<1>10. Window(removed', 0) = <<>>
  BY DEF Window
<1>11. removed' \in Nat /\ produced' \in Nat /\ produced' = removed' + 0
  BY <1>3, <1>5, <1>7
<1>12. DataTypes'
  <2>1. summed' \in Seq(Nat) /\ turns' \in Seq(Nat)
    BY <1>1 DEF IInv, DataTypes
  <2>2. /\ myCB'.buffer \in [0 .. SIZE - 1 -> Nat] /\ myCB'.first \in 0 .. SIZE - 1
        /\ myCB'.count \in 0 .. SIZE /\ myCB'.size = SIZE
    BY <1>3, <1>5, <1>6, <1>8
  <2> QED
    BY <1>11, <2>1, <2>2 DEF DataTypes
<1> QED
  BY <1>2, <1>9, <1>10, <1>11, <1>12 DEF Kept

LEMMA DestroyData ==
  ASSUME IInv, MainDestroy
  PROVE  DataTypes' /\ Kept' /\ myCB'.count = myCB.count
<1>1. /\ pc[Main] = "main_destroy" /\ pc' = [pc EXCEPT ![Main] = "done"]
      /\ myCB' = cb_destroy(myCB).cb /\ UNCHANGED <<summed, turns, produced, removed>>
  BY DEF MainDestroy, Step
<1>2. pc'[Main] = "done"
  BY <1>1, SensorBufferAssumption DEF IInv, Control
<1>3. WellFormed(myCB, Nat) /\ myCB.buffer # NULL
  BY <1>1, InUse DEF IInv
<1>4. myCB' = [myCB EXCEPT !.buffer = NULL]
  BY <1>1, <1>3 DEF cb_destroy
<1>5. /\ myCB'.buffer = NULL /\ myCB'.first = myCB.first /\ myCB'.count = myCB.count
      /\ myCB'.size = myCB.size
  BY <1>3, <1>4 DEF WellFormed
<1>6. DataTypes'
  BY <1>1, <1>5 DEF IInv, DataTypes
<1> QED
  BY <1>2, <1>5, <1>6 DEF Kept

\* The steps that change neither the buffer nor the histories.
LEMMA QuietSteps ==
  ASSUME IInv,
         \/ \E s \in Sensors : Sensor(s) /\ ~SensorAdd(s)
         \/ (Log /\ ~LogTake) \/ MainJoin \/ Wakeup
  PROVE  /\ UNCHANGED <<myCB, summed, turns, produced, removed>>
         /\ DataTypes' /\ Kept'
<1>1. UNCHANGED <<myCB, summed, turns, produced, removed>>
  BY DEF Sensor, SensorLoop, SensorLock, SensorCheck, SensorWait, SensorWake, SensorUnlock,
     Log, LogLoop, LogLock, LogSignal, LogUnlock, LogStop, MainJoin, Wakeup, data
<1>2. \/ UNCHANGED pc
      \/ \E t \in Threads \ {Main}, to \in SensorLabels \cup LoggerLabels :
           pc' = [pc EXCEPT ![t] = to]
      \/ pc[Main] = "main_join" /\ pc' = [pc EXCEPT ![Main] = "main_drain"]
  BY SensorBufferAssumption
  DEF Sensor, SensorLoop, SensorLock, SensorCheck, SensorWait, SensorWake, SensorUnlock,
     Log, LogLoop, LogLock, LogSignal, LogUnlock, LogStop, MainJoin, Wakeup, SpuriousWakeup,
     Step, SensorLabels, LoggerLabels
<1>3. /\ pc[Main] = "done" => pc'[Main] = "done"
      /\ pc'[Main] = "main_join" => pc[Main] = "main_join"
  BY <1>2, SensorBufferAssumption DEF IInv, Control
<1> QED
  BY <1>1, <1>3, SameData DEF IInv

\* What was read of the buffer stays true until it is used: nobody else has the mutex.
LEMMA CheckedStep ==
  ASSUME IInv, Next
  PROVE  Checked'
<1> USE SensorBufferAssumption
    DEF IInv, Control, ControlTypes, Checked, Critical, SensorLabels, LoggerLabels, MainLabels
<1>0. SIZE \in Nat /\ myCB.count \in 0 .. SIZE /\ myCB.size = SIZE
  BY DEF DataTypes
<1>1. ASSUME NEW s \in Sensors, SensorAdd(s)
      PROVE  Checked'
  BY <1>1 DEF SensorAdd, Step
<1>2. ASSUME LogTake
      PROVE  Checked'
  BY <1>2 DEF LogTake, Step
<1>3. ASSUME MainDrain \/ MainDestroy
      PROVE  Checked'
  BY <1>3 DEF MainDrain, MainDestroy, Step
<1>4. ASSUME NEW s \in Sensors, SensorCheck(s)
      PROVE  Checked'
  BY <1>0, <1>4 DEF SensorCheck, Step, cb_isFull, data
<1>5. ASSUME NEW s \in Sensors, Sensor(s), ~SensorAdd(s), ~SensorCheck(s)
      PROVE  Checked'
  BY <1>5
  DEF Sensor, SensorLoop, SensorLock, SensorWait, SensorWake, SensorUnlock, Step, data
<1>6. ASSUME (Log /\ ~LogTake) \/ MainJoin \/ Wakeup
      PROVE  Checked'
  BY <1>6
  DEF Log, LogLoop, LogLock, LogSignal, LogUnlock, LogStop, MainJoin, Wakeup,
      SpuriousWakeup, Step, data
<1> QED
  BY <1>1, <1>2, <1>3, <1>4, <1>5, <1>6 DEF Next, MainThread

\* The last sensor to fall asleep found the buffer full; the logger that then makes room
\* wakes one of them before it does anything else.
LEMMA AsleepStep ==
  ASSUME IInv, Next
  PROVE  Asleep'
<1> USE SensorBufferAssumption
    DEF IInv, Control, ControlTypes, Asleep, SensorLabels, LoggerLabels, MainLabels
<1>1. ASSUME NEW s \in Sensors, SensorWait(s)
      PROVE  Asleep'
  BY <1>1 DEF SensorWait, Step, Checked, data
<1>2. ASSUME NEW s \in Sensors, Sensor(s), ~SensorWait(s)
      PROVE  Asleep'
  <2>1. s \notin waiting["producer"] /\ UNCHANGED waiting
    BY <1>2
    DEF Sensor, SensorLoop, SensorLock, SensorCheck, SensorAdd, SensorWake, SensorUnlock,
        Step, CondReturn
  <2> QED
    BY <2>1
<1>3. ASSUME LogTake
      PROVE  Asleep'
  BY <1>3 DEF LogTake, Step
<1>4. ASSUME LogSignal
      PROVE  Asleep'
  <2>1. PICK s \in Sensors : s \notin waiting'["producer"]
    BY <1>4 DEF LogSignal, Signal
  <2> QED
    BY <2>1
<1>5. ASSUME Log, ~LogTake, ~LogSignal
      PROVE  Asleep'
  BY <1>5 DEF Log, LogLoop, LogLock, LogUnlock, LogStop, Step, data
<1>6. ASSUME MainThread
      PROVE  Asleep'
  <2>1. \A s \in Sensors : pc[s] = "done"
    BY <1>6 DEF MainThread, MainJoin, MainDrain, MainDestroy, Step
  <2>2. UNCHANGED waiting
    BY <1>6 DEF MainThread, MainJoin, MainDrain, MainDestroy
  <2>3. \A s \in Sensors : s \notin waiting["producer"]
    BY <2>1
  <2> QED
    BY <2>2, <2>3
<1>7. ASSUME Wakeup
      PROVE  Asleep'
  <2>1. PICK s \in Sensors : s \notin waiting'["producer"]
    BY <1>7 DEF Wakeup, SpuriousWakeup
  <2> QED
    BY <2>1
<1> QED
  BY <1>1, <1>2, <1>3, <1>4, <1>5, <1>6, <1>7 DEF Next

-----------------------------------------------------------------------------
LEMMA InitIInv == Init => IInv
<1> SUFFICES ASSUME Init PROVE IInv
  OBVIOUS
<1> DEFINE zero == [k \in 0 .. SIZE - 1 |-> 0]
<1>1. /\ pc = [c \in Contexts |->
                 IF c \in Sensors THEN "loop" ELSE IF c = Logger THEN "log_loop" ELSE "main_join"]
      /\ owner = [m \in Mutexes |-> Nobody] /\ waiting = [v \in Conds |-> {}]
      /\ nest = [t \in Threads |-> <<>>]
      /\ counter = 1 /\ i = 0 /\ summed = <<>> /\ turns = <<>> /\ produced = 0 /\ removed = 0 /\ spurious = 0
  BY DEF Init, PthreadsInit
<1>2. Control
  BY <1>1, SensorBufferAssumption, PthreadsAssumption
  DEF Control, ControlTypes, Critical, Contexts, SensorLabels, LoggerLabels, MainLabels
<1>3. myCB = [buffer |-> zero, first |-> 0, count |-> 0, size |-> SIZE]
  <2>1. zero # NULL /\ ~(SIZE <= 0)
    BY SensorBufferAssumption
  <2> QED
    BY <2>1 DEF Init, cb_init
<1>4. zero \in [0 .. SIZE - 1 -> Nat] /\ SIZE \in Nat \ {0, 1}
  BY SensorBufferAssumption
<1> HIDE DEF zero
<1>5. WellFormed(myCB, Nat) /\ myCB.count = 0 /\ Contents(myCB) = <<>>
  BY <1>3, <1>4 DEF WellFormed, Contents
<1>6. DataTypes
  BY <1>1, <1>3, <1>4 DEF DataTypes
<1>7. Checked
  BY <1>1, SensorBufferAssumption DEF Checked, Contexts
<1>8. Asleep
  BY <1>1, SensorBufferAssumption DEF Asleep
<1>9. Window(removed, 0) = <<>>
  BY DEF Window
<1>10. SummedInOrder
  BY <1>1 DEF SummedInOrder
<1>11. Kept
  BY <1>1, <1>5, <1>9, <1>10 DEF Kept
<1> QED
  BY <1>2, <1>6, <1>7, <1>8, <1>11 DEF IInv

LEMMA NextIInv == IInv /\ [Next]_vars => IInv'
<1> SUFFICES ASSUME IInv, [Next]_vars PROVE IInv'
  OBVIOUS
<1>1. CASE Next
  <2>1. Control'
    BY <1>1, SensorControl, OtherControl DEF Next, IInv
  <2>2. DataTypes' /\ Kept'
    BY <1>1, AddData, TakeData, DrainData, DestroyData, QuietSteps DEF Next, Log, MainThread
  <2> QED
    BY <1>1, <2>1, <2>2, CheckedStep, AsleepStep DEF IInv
<1>2. CASE UNCHANGED vars
  <2>1. Control' /\ Checked' /\ Asleep'
    BY <1>2 DEF vars, pthreadVars, data, IInv, Control, ControlTypes, Checked, Asleep
  <2>2. DataTypes' /\ Kept'
    BY <1>2, SameData DEF vars, pthreadVars, data, IInv
  <2> QED
    BY <2>1, <2>2 DEF IInv
<1> QED
  BY <1>1, <1>2

\* Every thread stays inside its function, and the struct inside its block (TypeOK).
THEOREM TypeCorrect == Spec => []TypeOK
<1>1. IInv => TypeOK
  BY DEF IInv, Control, ControlTypes, DataTypes, TypeOK
<1> QED
  BY InitIInv, NextIInv, <1>1, PTL DEF Spec

\* Readings leave the buffer in the order in which they came, none lost, none twice, and
\* enter the sum in that order, each by the turn that removed it (NoReadingLost).
THEOREM ReadingsKept == Spec => []NoReadingLost
<1>1. IInv => NoReadingLost
  BY DEF IInv, Kept, Window, NoReadingLost, cb_count
<1> QED
  BY InitIInv, NextIInv, <1>1, PTL DEF Spec

\* The sensors do not all sleep beside a buffer with room in it (SleepersHaveNoRoom).
THEOREM NoSleepBesideRoom == Spec => []SleepersHaveNoRoom
<1>1. IInv => SleepersHaveNoRoom
  <2> SUFFICES ASSUME IInv, \A s \in Sensors : s \in waiting["producer"],
                      owner["mutex"] = Nobody
               PROVE  cb_isFull(myCB)
    BY DEF SleepersHaveNoRoom
  <2>1. pc[Logger] # "log_signal"
    BY SensorBufferAssumption, PthreadsAssumption DEF IInv, Control, Critical
  <2> QED
    BY <2>1 DEF IInv, Asleep, DataTypes, cb_isFull
<1> QED
  BY InitIInv, NextIInv, <1>1, PTL DEF Spec

=============================================================================
