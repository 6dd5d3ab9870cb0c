--------------------------- MODULE CircularBuffer ---------------------------
(***************************************************************************)
(* A caller of Circularbuffer/circularbuffer.c that keeps to the order the *)
(* header implies: elements are added and removed only between a           *)
(* successful cb_init and the cb_destroy that follows it.  In that order   *)
(* it calls what it likes, with sizes that are no good and with calls that *)
(* must fail.                                                              *)
(***************************************************************************)
EXTENDS CbOps, Sequences

CONSTANTS
  Elements,     \* the elements the caller adds
  Sizes,        \* the sizes the caller asks for
  INT_MAX       \* the largest int

ASSUME CircularBufferAssumption ==
  /\ NULL \notin Elements
  /\ \A s \in Sizes : NULL \notin [0 .. s - 1 -> Elements]
  /\ Elements # {}
  /\ INT_MAX \in Nat \ {0}
  /\ Sizes \subseteq Int
  /\ \A s \in Sizes : 2 * s - 2 <= INT_MAX

VARIABLES
  cb,    \* the struct
  ret,   \* the return value of the last call
  got    \* the element the last call stored through elem, or NULL

cbVars == <<cb, ret, got>>

\* Between cb_init and cb_destroy.
Live == cb.buffer # NULL

CbInit ==
  /\ cb = [buffer |-> NULL, first |-> 0, count |-> 0, size |-> 0]
  /\ ret = 0
  /\ got = NULL

\* The memory malloc returns may hold anything.
InitBuffer(size) ==
  /\ ~Live
  /\ \E mem \in {NULL} \cup [0 .. size - 1 -> Elements] :
       /\ ret' = cb_init(cb, size, mem).ret
       /\ cb' = cb_init(cb, size, mem).cb
  /\ got' = NULL

Destroy ==
  /\ ret' = cb_destroy(cb).ret
  /\ cb' = cb_destroy(cb).cb
  /\ got' = NULL

Add(e) ==
  /\ Live
  /\ ret' = cb_add(cb, e).ret
  /\ cb' = cb_add(cb, e).cb
  /\ got' = NULL

\* elem is NULL or points to a variable that holds e.
Remove ==
  /\ Live
  /\ \E e \in Elements \cup {NULL} :
       LET r == cb_remove(cb, e)
       IN /\ ret' = r.ret
          /\ cb' = r.cb
          /\ got' = IF r.ret = 0 THEN r.elem ELSE NULL

CbNext ==
  \/ \E s \in Sizes : InitBuffer(s)
  \/ Destroy
  \/ \E e \in Elements : Add(e)
  \/ Remove

CbSpec == CbInit /\ [][CbNext]_cbVars

-----------------------------------------------------------------------------
(* Properties *)

\* The struct is well formed while it is in use: first is an index, count fits,
\* and the block has the size it was allocated with, so no access leaves it
\* (circularbuffer.c:31-33, 42-45).
CbTypeOK ==
  /\ ret \in {0, -1, -2}
  /\ got \in Elements \cup {NULL}
  /\ cb \in [buffer : {cb.buffer}, first : Int, count : Int, size : Int]
  /\ Live => /\ cb.size \in Sizes /\ cb.size > 0
             /\ cb.first \in 0 .. cb.size - 1
             /\ cb.count \in 0 .. cb.size
             /\ cb.buffer \in [0 .. cb.size - 1 -> Elements]

\* The sum computed for an index never overflows an int (circularbuffer.c:31, 44),
\* for sizes that are at most half the range.
SumFits ==
  Live => /\ cb.count < cb.size => cb.first + cb.count <= INT_MAX
          /\ cb.count > 0 => cb.first + 1 <= INT_MAX

\* The circular buffer is the queue its header promises (circularbuffer.h:40-55):
\* whatever the position of first, wrapping around included.
fifo == INSTANCE BoundedFifo WITH
          capacity <- IF Live THEN cb.size ELSE 0,
          queue <- IF Live THEN Contents(cb) ELSE <<>>
Fifo == fifo!Spec

=============================================================================
