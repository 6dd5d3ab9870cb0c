------------------------------- MODULE Mqueue -------------------------------
(***************************************************************************)
(* What the programs use of POSIX message queues: a queue keeps its        *)
(* messages by priority and, within a priority, by age; sending blocks     *)
(* while it holds mq_maxmsg messages, receiving while it is empty.  A name *)
(* leads to a queue until it is unlinked; who has the queue open keeps it. *)
(***************************************************************************)
EXTENDS Naturals, Sequences, FiniteSets

CONSTANT mq_maxmsg

CanSend(queue) == Len(queue) < mq_maxmsg

\* mq_send: behind the messages that are not less urgent.
Sent(queue, message) ==
  LET k == Cardinality({j \in DOMAIN queue : queue[j].prio >= message.prio})
  IN SubSeq(queue, 1, k) \o <<message>> \o SubSeq(queue, k + 1, Len(queue))

CanReceive(queue) == queue # <<>>

=============================================================================
