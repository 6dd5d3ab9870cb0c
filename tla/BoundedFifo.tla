---------------------------- MODULE BoundedFifo -----------------------------
(***************************************************************************)
(* What circularbuffer.h promises its caller: a queue that is opened with  *)
(* a capacity, gives out the elements in the order in which they were put  *)
(* in, and refuses with a negative return value what it cannot do.         *)
(***************************************************************************)
EXTENDS Integers, Sequences

CONSTANTS
  Elements,  \* what may be put into the queue
  Sizes,     \* the capacities callers may ask for, useless ones included
  NULL       \* no element

VARIABLES
  capacity,  \* 0 while the queue is not open
  queue,     \* the elements, oldest first
  ret,       \* the return value of the last call
  got        \* the element the last call handed out, or NULL

fifoVars == <<capacity, queue, ret, got>>

Init ==
  /\ capacity = 0
  /\ queue = <<>>
  /\ ret = 0
  /\ got = NULL

Open(size) ==
  /\ capacity = 0
  /\ \/ size > 0 /\ capacity' = size /\ ret' = 0
     \/ ret' < 0 /\ ret' \in Int /\ UNCHANGED capacity
  /\ queue' = <<>>
  /\ got' = NULL

Close ==
  /\ ret' = (IF capacity = 0 THEN -1 ELSE 0)
  /\ capacity' = 0
  /\ queue' = <<>>
  /\ got' = NULL

Put(e) ==
  /\ capacity > 0
  /\ IF Len(queue) < capacity
       THEN queue' = Append(queue, e) /\ ret' = 0
       ELSE ret' = -1 /\ UNCHANGED queue
  /\ got' = NULL
  /\ UNCHANGED capacity

\* The caller may have no use for the element.
Take ==
  /\ capacity > 0
  /\ IF queue # <<>>
       THEN ret' = 0 /\ queue' = Tail(queue) /\ got' \in {Head(queue), NULL}
       ELSE ret' = -1 /\ got' = NULL /\ UNCHANGED queue
  /\ UNCHANGED capacity

Next ==
  \/ \E s \in Sizes : Open(s)
  \/ Close
  \/ \E e \in Elements : Put(e)
  \/ Take

Spec == Init /\ [][Next]_fifoVars

=============================================================================
