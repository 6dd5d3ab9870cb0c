------------------------------- MODULE CbOps --------------------------------
(***************************************************************************)
(* The functions of Circularbuffer/circularbuffer.c on a circularbuffer_t, *)
(* a record of the memory block "buffer" (NULL, or a function from the     *)
(* indices 0 .. size-1 to elements) and the integers first, count, size.   *)
(* The same code is part of Aufgabe_4_1/consumerproducer.c.                *)
(*                                                                         *)
(* A function that changes the struct returns its return value "ret", the  *)
(* new struct "cb" and, for cb_remove, the element that *elem holds after  *)
(* the call, given the one it held before.                                 *)
(***************************************************************************)
EXTENDS Integers

CONSTANT NULL   \* the null pointer

\* mem is what malloc returns: NULL, or a block of size indeterminate elements.
cb_init(b, size, mem) ==
  IF size <= 0 THEN [ret |-> -1, cb |-> b]
  ELSE IF mem = NULL THEN [ret |-> -2, cb |-> [b EXCEPT !.buffer = NULL]]
  ELSE [ret |-> 0,
        cb |-> [buffer |-> mem, first |-> 0, count |-> 0, size |-> size]]

\* count and size keep their values.
cb_destroy(b) ==
  IF b.buffer # NULL THEN [ret |-> 0, cb |-> [b EXCEPT !.buffer = NULL]]
  ELSE [ret |-> -1, cb |-> b]

\* The index of the k-th element after "first" in a block of the given size.
slot(first, size, k) == (first + k) % size

\* Faulty variant: the index does not wrap around.
cb_index_unwrapped(b) ==
  IF b.first + b.count < b.size THEN b.first + b.count ELSE b.size - 1

\* elem_index of cb_add
cb_index(b) == slot(b.first, b.size, b.count)

\* Faulty variant: one element too many.
cb_add_overfull(b, elem) ==
  IF b.count > b.size THEN [ret |-> -1, cb |-> b]
  ELSE [ret |-> 0,
        cb |-> [buffer |-> [b.buffer EXCEPT ![cb_index(b)] = elem],
                first |-> b.first, count |-> b.count + 1, size |-> b.size]]

cb_add(b, elem) ==
  IF b.count >= b.size THEN [ret |-> -1, cb |-> b]
  ELSE [ret |-> 0,
        cb |-> [buffer |-> [b.buffer EXCEPT ![cb_index(b)] = elem],
                first |-> b.first, count |-> b.count + 1, size |-> b.size]]

\* elem = NULL is a call that does not want the element.
cb_remove(b, elem) ==
  IF b.count <= 0 THEN [ret |-> -1, cb |-> b, elem |-> elem]
  ELSE [ret |-> 0,
        cb |-> [buffer |-> b.buffer, first |-> slot(b.first, b.size, 1),
                count |-> b.count - 1, size |-> b.size],
        elem |-> IF elem = NULL THEN NULL ELSE b.buffer[b.first]]

cb_count(b) == b.count

cb_isFull(b) == b.count = b.size

cb_isEmpty(b) == b.count = 0

\* The elements in the buffer, oldest first.
Contents(b) == [i \in 1 .. b.count |-> b.buffer[slot(b.first, b.size, i - 1)]]

=============================================================================
