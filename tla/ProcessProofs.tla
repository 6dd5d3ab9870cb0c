---------------------------- MODULE ProcessProofs ----------------------------
(***************************************************************************)
(* The programs that run as several processes.  First the print server and *)
(* its clients, Aufgabe_6_3/printserver.c and Aufgabe_6_4/client.c, for    *)
(* any number of clients, priorities, restarts and kills and any size of   *)
(* the queues: a job is in one place at a time, and clients that run one   *)
(* at a time get the feedback on their own job.                            *)
(*                                                                         *)
(* Then the shells of Shell.tla, for any number of processes, pipes and    *)
(* descriptors and any lines of commands: before the next line every child *)
(* has been waited for, and every pipe end is accounted for.               *)
(***************************************************************************)
EXTENDS PrintQueue, Shell, FiniteSetTheorems, SequenceTheorems, WellFoundedInduction, TLAPS

-----------------------------------------------------------------------------
(* What sending and receiving do to the jobs in a queue *)

\* Job c is in the queue, and it is there once at most.
In(queue, c) == \E j \in DOMAIN queue : queue[j].job = c
OnceIn(queue, c) == \A j, k \in DOMAIN queue : queue[j].job = c /\ queue[k].job = c => j = k

\* A message between two sequences.
LEMMA Between ==
  ASSUME NEW E, NEW left \in Seq(E), NEW right \in Seq(E), NEW m \in E
  PROVE  /\ left \o <<m>> \o right \in Seq(E)
         /\ Len(left \o <<m>> \o right) = Len(left) + 1 + Len(right)
         /\ \A x \in 1 .. Len(left) : (left \o <<m>> \o right)[x] = left[x]
         /\ (left \o <<m>> \o right)[Len(left) + 1] = m
         /\ \A x \in Len(left) + 2 .. Len(left) + 1 + Len(right) :
              (left \o <<m>> \o right)[x] = right[x - (Len(left) + 1)]
<1> DEFINE one == <<m>>
           both == left \o one
<1>1. one \in Seq(E) /\ Len(one) = 1 /\ one[1] = m
  OBVIOUS
<1>2. Len(left) \in Nat /\ Len(right) \in Nat
  OBVIOUS
<1> HIDE DEF one
<1>3. /\ both \in Seq(E) /\ Len(both) = Len(left) + Len(one)
      /\ \A x \in 1 .. Len(left) + Len(one) :
           both[x] = IF x <= Len(left) THEN left[x] ELSE one[x - Len(left)]
  BY <1>1, ConcatProperties
<1> HIDE DEF both
<1>10. both \in Seq(E)
  BY <1>3
<1>4. /\ both \o right \in Seq(E) /\ Len(both \o right) = Len(both) + Len(right)
      /\ \A x \in 1 .. Len(both) + Len(right) :
           (both \o right)[x] = IF x <= Len(both) THEN both[x] ELSE right[x - Len(both)]
  BY <1>10, ConcatProperties
<1> DEFINE s == both \o right
<1> HIDE DEF s
<1>5. s \in Seq(E) /\ Len(s) = Len(left) + 1 + Len(right)
  BY <1>1, <1>3, <1>4 DEF s
<1>6. \A x \in 1 .. Len(left) + 1 :
        s[x] = IF x <= Len(left) THEN left[x] ELSE one[x - Len(left)]
  BY <1>1, <1>2, <1>3, <1>4 DEF s
<1>7. \A x \in 1 .. Len(left) : s[x] = left[x]
  BY <1>2, <1>6
<1>8. s[Len(left) + 1] = m
  BY <1>1, <1>2, <1>6
<1>9. \A x \in Len(left) + 2 .. Len(left) + 1 + Len(right) : s[x] = right[x - (Len(left) + 1)]
  BY <1>1, <1>2, <1>3, <1>4 DEF s
<1> QED
  BY <1>5, <1>7, <1>8, <1>9 DEF s, both, one

\* The first k messages of a queue, and the rest.
LEMMA Split ==
  ASSUME NEW E, NEW q \in Seq(E), NEW k \in 0 .. Len(q)
  PROVE  /\ SubSeq(q, 1, k) \in Seq(E) /\ SubSeq(q, k + 1, Len(q)) \in Seq(E)
         /\ Len(SubSeq(q, 1, k)) = k /\ Len(SubSeq(q, k + 1, Len(q))) = Len(q) - k
         /\ \A x \in 1 .. k : SubSeq(q, 1, k)[x] = q[x]
         /\ \A x \in 1 .. Len(q) - k : SubSeq(q, k + 1, Len(q))[x] = q[k + x]
<1>1. Len(q) \in Nat /\ \A x \in 1 .. Len(q) : q[x] \in E
  OBVIOUS
<1>2. PICK n \in Nat : n = Len(q)
  BY <1>1
<1>3. k \in Nat /\ k <= n /\ \A x \in 1 .. n : q[x] \in E
  BY <1>1, <1>2
<1> DEFINE left == SubSeq(q, 1, k)
           right == SubSeq(q, k + 1, n)
<1>4. /\ left \in Seq(E) /\ Len(left) = IF 1 <= k THEN k - 1 + 1 ELSE 0
      /\ \A x \in 1 .. k - 1 + 1 : left[x] = q[1 + x - 1]
  <2>1. \A x \in 1 .. k : q[x] \in E
    BY <1>3
  <2> QED
    BY <1>3, <2>1, SubSeqProperties
<1>5. /\ right \in Seq(E) /\ Len(right) = IF k + 1 <= n THEN n - (k + 1) + 1 ELSE 0
      /\ \A x \in 1 .. n - (k + 1) + 1 : right[x] = q[(k + 1) + x - 1]
  <2>1. \A x \in k + 1 .. n : q[x] \in E
    BY <1>3
  <2> QED
    BY <1>3, <2>1, SubSeqProperties
<1> HIDE DEF left, right
<1>6. Len(left) = k /\ \A x \in 1 .. k : left[x] = q[x]
  BY <1>3, <1>4
<1>7. Len(right) = n - k /\ \A x \in 1 .. n - k : right[x] = q[k + x]
  <2>1. Len(right) = n - k
    BY <1>3, <1>5
  <2>2. \A x \in 1 .. n - k : x \in 1 .. n - (k + 1) + 1 /\ (k + 1) + x - 1 = k + x
    BY <1>3
  <2> QED
    BY <1>5, <2>1, <2>2
<1> QED
  BY <1>2, <1>4, <1>5, <1>6, <1>7 DEF left, right

\* The messages that are not less urgent than this one.
Before(queue, message) == Cardinality({j \in DOMAIN queue : queue[j].prio >= message.prio})

\* mq_send puts the message somewhere between the others.
LEMMA SentInserts ==
  ASSUME NEW E, NEW q \in Seq(E), NEW m \in E
  PROVE  /\ Sent(q, m) \in Seq(E)
         /\ Len(Sent(q, m)) = Len(q) + 1
         /\ Before(q, m) \in 0 .. Len(q)
         /\ \A x \in 1 .. Len(q) + 1 :
              Sent(q, m)[x] = IF x <= Before(q, m) THEN q[x]
                              ELSE IF x = Before(q, m) + 1 THEN m ELSE q[x - 1]
<1> DEFINE S == {j \in DOMAIN q : q[j].prio >= m.prio}
<1>1. Len(q) \in Nat /\ DOMAIN q = 1 .. Len(q) /\ S \subseteq 1 .. Len(q)
  OBVIOUS
<1>2. IsFiniteSet(1 .. Len(q)) /\ Cardinality(1 .. Len(q)) = IF 1 > Len(q) THEN 0 ELSE Len(q) - 1 + 1
  BY <1>1, FS_Interval
<1>3. IsFiniteSet(S) /\ Cardinality(S) <= Cardinality(1 .. Len(q))
  BY <1>1, <1>2, FS_Subset
<1>4. Cardinality(S) \in Nat
  BY <1>3, FS_CardinalityType
<1>5. Cardinality(S) \in 0 .. Len(q)
  BY <1>1, <1>2, <1>3, <1>4
<1>6. PICK k \in 0 .. Len(q) : k = Cardinality(S) /\ k = Before(q, m)
  BY <1>5 DEF Before
<1>7. Sent(q, m) = SubSeq(q, 1, k) \o <<m>> \o SubSeq(q, k + 1, Len(q))
  BY <1>6 DEF Sent
<1> DEFINE left == SubSeq(q, 1, k)
           right == SubSeq(q, k + 1, Len(q))
           s == Sent(q, m)
<1>8. /\ left \in Seq(E) /\ right \in Seq(E) /\ Len(left) = k /\ Len(right) = Len(q) - k
      /\ \A x \in 1 .. k : left[x] = q[x]
      /\ \A x \in 1 .. Len(q) - k : right[x] = q[k + x]
  BY Split
<1> HIDE DEF left, right, s
<1>9. s = left \o <<m>> \o right
  BY <1>7 DEF left, right, s
<1>10. /\ s \in Seq(E) /\ Len(s) = Len(left) + 1 + Len(right)
       /\ \A x \in 1 .. Len(left) : s[x] = left[x]
       /\ s[Len(left) + 1] = m
       /\ \A x \in Len(left) + 2 .. Len(left) + 1 + Len(right) : s[x] = right[x - (Len(left) + 1)]
  <2>1. left \in Seq(E) /\ right \in Seq(E)
    BY <1>8
  <2> DEFINE t == left \o <<m>> \o right
  <2>2. /\ t \in Seq(E) /\ Len(t) = Len(left) + 1 + Len(right)
        /\ \A x \in 1 .. Len(left) : t[x] = left[x]
        /\ t[Len(left) + 1] = m
        /\ \A x \in Len(left) + 2 .. Len(left) + 1 + Len(right) : t[x] = right[x - (Len(left) + 1)]
    BY <2>1, Between
  <2> HIDE DEF t
  <2>3. s = t
    BY <1>9 DEF t
  <2> QED
    BY <2>2, <2>3
<1>11. Len(s) = Len(q) + 1
  BY <1>1, <1>8, <1>10
<1>12. ASSUME NEW x \in 1 .. Len(q) + 1
       PROVE  s[x] = IF x <= k THEN q[x] ELSE IF x = k + 1 THEN m ELSE q[x - 1]
  <2>1. CASE x \in 1 .. k
    BY <2>1, <1>8, <1>10
  <2>2. CASE x = k + 1
    BY <2>2, <1>8, <1>10
  <2>3. CASE x \in k + 2 .. Len(q) + 1
    <3>1. x - (k + 1) \in 1 .. Len(q) - k /\ k + (x - (k + 1)) = x - 1
      BY <2>3, <1>1
    <3>2. x \in Len(left) + 2 .. Len(left) + 1 + Len(right)
      BY <2>3, <1>1, <1>8
    <3>3. s[x] = q[x - 1]
      BY <3>1, <3>2, <1>8, <1>10
    <3> QED
      BY <2>3, <3>3
  <2>4. x \in 1 .. k \/ x = k + 1 \/ x \in k + 2 .. Len(q) + 1
    BY <1>1
  <2> QED
    BY <2>1, <2>2, <2>3, <2>4
<1> QED
  BY <1>6, <1>10, <1>11, <1>12 DEF s

\* It brings in its own job and no other.
LEMMA SentJobs ==
  ASSUME NEW E, NEW q \in Seq(E), NEW m \in E, NEW c
  PROVE  /\ In(Sent(q, m), c) => In(q, c) \/ m.job = c
         /\ OnceIn(q, c) /\ ~(In(q, c) /\ m.job = c) => OnceIn(Sent(q, m), c)
<1> DEFINE s == Sent(q, m)
           k == Before(q, m)
<1>1. s \in Seq(E) /\ Len(s) = Len(q) + 1
  BY SentInserts
<1>2. /\ k \in 0 .. Len(q)
      /\ \A x \in 1 .. Len(q) + 1 :
           s[x] = IF x <= k THEN q[x] ELSE IF x = k + 1 THEN m ELSE q[x - 1]
  BY SentInserts
<1> HIDE DEF s, k
<1>3. /\ DOMAIN s = 1 .. Len(q) + 1 /\ DOMAIN q = 1 .. Len(q) /\ Len(q) \in Nat
  BY <1>1
<1> DEFINE old(x) == IF x <= k THEN x ELSE x - 1
<1>4. ASSUME NEW x \in 1 .. Len(q) + 1, x # k + 1
      PROVE  old(x) \in 1 .. Len(q) /\ s[x] = q[old(x)]
  BY <1>2, <1>3, <1>4
<1>5. s[k + 1] = m
  BY <1>2, <1>3
<1>6. In(s, c) => In(q, c) \/ m.job = c
  BY <1>3, <1>4, <1>5 DEF In
<1>7. ASSUME OnceIn(q, c), ~(In(q, c) /\ m.job = c),
             NEW x \in 1 .. Len(q) + 1, NEW y \in 1 .. Len(q) + 1, s[x].job = c, s[y].job = c
      PROVE  x = y
  <2>1. CASE x # k + 1 /\ y # k + 1
    <3>1. old(x) \in DOMAIN q /\ old(y) \in DOMAIN q /\ q[old(x)].job = c /\ q[old(y)].job = c
      BY <1>3, <1>4, <1>7, <2>1
    <3>2. old(x) = old(y)
      BY <3>1, <1>7 DEF OnceIn
    <3> QED
      BY <3>2, <2>1, <1>2, <1>3
  <2>2. CASE x = k + 1 /\ y # k + 1
    BY <2>2, <1>3, <1>4, <1>5, <1>7 DEF In
  <2>3. CASE x # k + 1 /\ y = k + 1
    BY <2>3, <1>3, <1>4, <1>5, <1>7 DEF In
  <2> QED
    BY <2>1, <2>2, <2>3
<1> QED
  BY <1>3, <1>6, <1>7 DEF OnceIn, s

\* mq_receive takes out the first job and leaves the others.
LEMMA TailJobs ==
  ASSUME NEW E, NEW q \in Seq(E), q # <<>>
  PROVE  /\ Head(q) \in E /\ Tail(q) \in Seq(E) /\ Len(Tail(q)) = Len(q) - 1
         /\ In(q, Head(q).job)
         /\ OnceIn(q, Head(q).job) => ~In(Tail(q), Head(q).job)
         /\ \A c : /\ In(Tail(q), c) => In(q, c)
                   /\ OnceIn(q, c) => OnceIn(Tail(q), c)
<1>1. /\ Len(q) \in Nat \ {0} /\ DOMAIN q = 1 .. Len(q) /\ Head(q) = q[1]
      /\ Tail(q) \in Seq(E) /\ Len(Tail(q)) = Len(q) - 1 /\ Head(q) \in E
  OBVIOUS
<1>2. \A x \in 1 .. Len(q) - 1 : Tail(q)[x] = q[x + 1]
  OBVIOUS
<1> DEFINE t == Tail(q)
<1>3. DOMAIN t = 1 .. Len(q) - 1 /\ \A x \in DOMAIN t : x + 1 \in DOMAIN q /\ t[x] = q[x + 1] /\ x + 1 # 1
  BY <1>1, <1>2
<1> HIDE DEF t
<1>4. In(q, Head(q).job)
  BY <1>1 DEF In
<1>5. OnceIn(q, Head(q).job) => ~In(t, Head(q).job)
  <2>1. 1 \in DOMAIN q /\ q[1].job = Head(q).job
    BY <1>1
  <2> QED
    BY <2>1, <1>3 DEF In, OnceIn
<1>6. ASSUME NEW c
      PROVE  /\ In(t, c) => In(q, c)
             /\ OnceIn(q, c) => OnceIn(t, c)
  <2>1. In(t, c) => In(q, c)
    BY <1>3 DEF In
  <2>2. ASSUME OnceIn(q, c), NEW x \in DOMAIN t, NEW y \in DOMAIN t, t[x].job = c, t[y].job = c
        PROVE  x = y
    <3>1. x + 1 = y + 1
      BY <2>2, <1>3 DEF OnceIn
    <3> QED
      BY <3>1, <1>1, <1>3
  <2> QED
    BY <2>1, <2>2 DEF OnceIn
<1> QED
  BY <1>1, <1>4, <1>5, <1>6 DEF t

-----------------------------------------------------------------------------
(* The inductive invariant *)

InServerQueue(c) == \E n \in Queues : In(serverQueue[n], c)
InClientQueue(c) == \E d \in Clients : In(clientQueue[d], c)
Told(c) == \E d \in Clients : got[d] = c

\* Who is about to use a queue has it open, and a server that is to reply once more
\* has not reached its limit.
Opened ==
  /\ server \in {"receive", "open", "reply", "close"} => mqd_server \in Queues
  /\ server \in {"receive", "open", "reply"} => schleifencounter < LIMIT
  /\ \A c \in Clients :
       /\ client[c] \in {"server", "send", "receive", "unlink"} => own[c] \in Clients
       /\ client[c] \in {"send", "receive"} => dest[c] \in Queues

\* Job c is in one queue, with the server or with one client, and nowhere twice.
Once(c) ==
  /\ \A n \in Queues : OnceIn(serverQueue[n], c)
  /\ \A n, m \in Queues : In(serverQueue[n], c) /\ In(serverQueue[m], c) => n = m
  /\ \A d \in Clients : OnceIn(clientQueue[d], c)
  /\ \A d, e \in Clients : In(clientQueue[d], c) /\ In(clientQueue[e], c) => d = e
  /\ \A d, e \in Clients : got[d] = c /\ got[e] = c => d = e
  /\ InServerQueue(c) => ~InClientQueue(c) /\ ~Told(c) /\ job # c
  /\ InClientQueue(c) => ~Told(c) /\ job # c
  /\ Told(c) => job # c

Unsent(c) == client[c] \in {"start", "server", "send"}
Nowhere(c) == ~InServerQueue(c) /\ ~InClientQueue(c) /\ ~Told(c) /\ job # c

OneJob == \A c \in Clients : Once(c) /\ (Unsent(c) => Nowhere(c))

\* While clients run one at a time, the running one has the queue with the name open
\* and is the only one whose job is on the way.
Active(c) == client[c] \notin Ended \cup {"start"}
OnTheWay(c) == InServerQueue(c) \/ InClientQueue(c) \/ job = c

Alone ==
  (alone /\ NobodyKilled) =>
    /\ \A c, d \in Clients : Active(c) /\ Active(d) => c = d
    /\ \A c \in Clients : Active(c) => clientName = own[c]
    /\ \A c \in Clients : OnTheWay(c) => client[c] = "receive"
    /\ \A c \in Clients : got[c] \in {None, c}

IInv == TypeOK /\ Opened /\ OneJob /\ Alone

-----------------------------------------------------------------------------
(* Types *)

LEMMA Sizes ==
  /\ mq_maxmsg \in Nat \ {0} /\ LIMIT \in Nat \ {0} /\ STARTS \in Nat /\ KILLS \in Nat
  /\ None \notin Clients /\ None \notin Queues
  BY PrintQueueAssumption DEF Queues

\* A message put into a queue that has room, and the first one taken out.
LEMMA QueueTypes ==
  ASSUME NEW q \in Seq(Messages)
  PROVE  /\ \A m \in Messages : Len(q) < mq_maxmsg =>
              Sent(q, m) \in Seq(Messages) /\ Len(Sent(q, m)) <= mq_maxmsg
         /\ q # <<>> /\ Len(q) <= mq_maxmsg =>
              /\ Head(q).job \in Clients
              /\ Tail(q) \in Seq(Messages) /\ Len(Tail(q)) <= mq_maxmsg
<1>1. ASSUME NEW m \in Messages, Len(q) < mq_maxmsg
      PROVE  Sent(q, m) \in Seq(Messages) /\ Len(Sent(q, m)) <= mq_maxmsg
  <2>1. Sent(q, m) \in Seq(Messages) /\ Len(Sent(q, m)) = Len(q) + 1
    BY SentInserts
  <2>2. Len(q) \in Nat
    OBVIOUS
  <2> QED
    BY <1>1, <2>1, <2>2, Sizes
<1>2. ASSUME q # <<>>, Len(q) <= mq_maxmsg
      PROVE  /\ Head(q).job \in Clients
             /\ Tail(q) \in Seq(Messages) /\ Len(Tail(q)) <= mq_maxmsg
  <2>1. /\ Head(q) \in Messages /\ Tail(q) \in Seq(Messages) /\ Len(Tail(q)) = Len(q) - 1
    BY <1>2, TailJobs
  <2>2. Len(q) \in Nat
    OBVIOUS
  <2>3. Head(q).job \in Clients
    BY <2>1 DEF Messages
  <2> QED
    BY <1>2, <2>1, <2>2, <2>3, Sizes
<1> QED
  BY <1>1, <1>2

LEMMA ServerTypes ==
  ASSUME TypeOK, Opened, ServerStart \/ ServerKilled \/ ServerRuns
  PROVE  TypeOK' /\ Opened'
<1> USE Sizes
<1>1. CASE ServerStart
  <2>1. starts + 1 \in Queues /\ starts + 1 \in 0 .. STARTS
    BY <1>1 DEF ServerStart, TypeOK, Queues
  <2>2. mqd_server' \in Queues /\ serverName' \in Queues
    BY <1>1, <2>1 DEF ServerStart, TypeOK
  <2> QED
    BY <1>1, <2>1, <2>2 DEF ServerStart, ServerStep, TypeOK, Opened, clientVars
<1>2. CASE ServerKilled
  BY <1>2 DEF ServerKilled, TypeOK, Opened, clientVars
<1>3. CASE ServerReceive
  <2> DEFINE q == serverQueue[mqd_server]
  <2>1. mqd_server \in Queues /\ q \in Seq(Messages) /\ q # <<>> /\ Len(q) <= mq_maxmsg
    BY <1>3 DEF ServerReceive, ServerStep, CanReceive, TypeOK, Opened
  <2>2. Head(q).job \in Clients /\ Tail(q) \in Seq(Messages) /\ Len(Tail(q)) <= mq_maxmsg
    BY <2>1, QueueTypes
  <2> DEFINE h == Head(q).job
             t == Tail(q)
  <2>3. job' = h /\ serverQueue' = [serverQueue EXCEPT ![mqd_server] = t]
    BY <1>3 DEF ServerReceive
  <2>4. h \in Clients /\ t \in Seq(Messages) /\ Len(t) <= mq_maxmsg
    BY <2>2
  <2> HIDE DEF h, t, q
  <2>5. /\ serverQueue' \in [Queues -> Seq(Messages)]
        /\ \A n \in Queues : Len(serverQueue'[n]) <= mq_maxmsg
    BY <2>1, <2>3, <2>4 DEF TypeOK
  <2>6. /\ server = "receive" /\ server' = "open" /\ job' \in Clients /\ job' # None
        /\ UNCHANGED <<alone, mqd_server, mqd_client, schleifencounter, starts, kills, serverName,
                       clientVars, clientQueue>>
    BY <1>3, <2>3, <2>4 DEF ServerReceive, ServerStep
  <2> QED
    BY <2>5, <2>6 DEF TypeOK, Opened, clientVars
<1>4. CASE ServerOpen
  BY <1>4 DEF ServerOpen, ServerStep, TypeOK, Opened, clientVars
<1>5. CASE ServerReply
  <2> DEFINE q == clientQueue[mqd_client]
             m == [job |-> job, prio |-> 0]
             s == Sent(q, m)
  <2>1. mqd_client \in Clients /\ q \in Seq(Messages) /\ Len(q) < mq_maxmsg /\ m \in Messages
    BY <1>5 DEF ServerReply, ServerStep, CanSend, TypeOK, Messages
  <2>2. s \in Seq(Messages) /\ Len(s) <= mq_maxmsg
    BY <2>1, QueueTypes
  <2>3. clientQueue' = [clientQueue EXCEPT ![mqd_client] = s]
    BY <1>5 DEF ServerReply
  <2> HIDE DEF s, m, q
  <2>4. /\ clientQueue' \in [Clients -> Seq(Messages)]
        /\ \A c \in Clients : Len(clientQueue'[c]) <= mq_maxmsg
    BY <2>1, <2>2, <2>3 DEF TypeOK
  <2>5. schleifencounter + 1 \in 0 .. LIMIT /\ schleifencounter \in Nat
    BY <1>5 DEF ServerReply, ServerStep, TypeOK, Opened
  <2> QED
    BY <1>5, <2>4, <2>5 DEF ServerReply, ServerStep, TypeOK, Opened, clientVars
<1>6. CASE ServerDrop
  BY <1>6 DEF ServerDrop, ServerStep, TypeOK, Opened, clientVars
<1>7. CASE ServerClose
  BY <1>7 DEF ServerClose, ServerStep, TypeOK, Opened, clientVars
<1>8. CASE ServerUnlink
  BY <1>8 DEF ServerUnlink, ServerStep, TypeOK, Opened, clientVars
<1> QED
  BY <1>1, <1>2, <1>3, <1>4, <1>5, <1>6, <1>7, <1>8 DEF ServerRuns

LEMMA ClientTypes ==
  ASSUME TypeOK, Opened, NEW c \in Clients,
         ClientOpen(c) \/ ClientSendRefused(c) \/ ClientKilled(c) \/ ClientRuns(c)
  PROVE  TypeOK' /\ Opened'
<1> USE Sizes
<1>1. CASE ClientOpen(c)
  BY <1>1 DEF ClientOpen, ClientStep, TypeOK, Opened, serverVars
<1>2. CASE ClientSendRefused(c)
  BY <1>2 DEF ClientSendRefused, ClientStep, TypeOK, Opened, serverVars
<1>3. CASE ClientKilled(c)
  BY <1>3 DEF ClientKilled, TypeOK, Opened
<1>4. CASE ClientOpenServer(c)
  BY <1>4 DEF ClientOpenServer, ClientStep, TypeOK, Opened, serverVars
<1>5. CASE ClientSend(c)
  <2> DEFINE q == serverQueue[dest[c]]
  <2>1. PICK p \in Prios :
          serverQueue' = [serverQueue EXCEPT ![dest[c]] = Sent(q, [job |-> c, prio |-> p])]
    BY <1>5 DEF ClientSend
  <2> DEFINE m == [job |-> c, prio |-> p]
             s == Sent(q, m)
  <2>2. dest[c] \in Queues /\ q \in Seq(Messages) /\ Len(q) < mq_maxmsg /\ m \in Messages
    BY <1>5 DEF ClientSend, ClientStep, CanSend, TypeOK, Opened, Messages
  <2>3. s \in Seq(Messages) /\ Len(s) <= mq_maxmsg
    BY <2>2, QueueTypes
  <2>4. serverQueue' = [serverQueue EXCEPT ![dest[c]] = s]
    BY <2>1
  <2> HIDE DEF s, m, q
  <2>5. /\ serverQueue' \in [Queues -> Seq(Messages)]
        /\ \A n \in Queues : Len(serverQueue'[n]) <= mq_maxmsg
    BY <2>2, <2>3, <2>4 DEF TypeOK
  <2> QED
    BY <1>5, <2>5 DEF ClientSend, ClientStep, TypeOK, Opened, serverVars
<1>6. CASE ClientReceive(c)
  <2> DEFINE q == clientQueue[own[c]]
             h == Head(q).job
             t == Tail(q)
  <2>1. own[c] \in Clients /\ q \in Seq(Messages) /\ q # <<>> /\ Len(q) <= mq_maxmsg
    BY <1>6 DEF ClientReceive, ClientStep, CanReceive, TypeOK, Opened
  <2>2. h \in Clients /\ t \in Seq(Messages) /\ Len(t) <= mq_maxmsg
    BY <2>1, QueueTypes
  <2>3. got' = [got EXCEPT ![c] = h] /\ clientQueue' = [clientQueue EXCEPT ![own[c]] = t]
    BY <1>6 DEF ClientReceive
  <2> HIDE DEF h, t, q
  <2>4. /\ clientQueue' \in [Clients -> Seq(Messages)]
        /\ \A d \in Clients : Len(clientQueue'[d]) <= mq_maxmsg
    BY <2>1, <2>2, <2>3 DEF TypeOK
  <2> QED
    BY <1>6, <2>2, <2>3, <2>4 DEF ClientReceive, ClientStep, TypeOK, Opened, serverVars
<1>7. CASE ClientUnlink(c)
  BY <1>7 DEF ClientUnlink, ClientStep, TypeOK, Opened, serverVars
<1> QED
  BY <1>1, <1>2, <1>3, <1>4, <1>5, <1>6, <1>7 DEF ClientRuns

-----------------------------------------------------------------------------
(* A job is in one place *)

\* The step takes job c to no place where it was not, and does not undo its sending.
Keeps(c) ==
  /\ \A n \in Queues : /\ In(serverQueue'[n], c) => In(serverQueue[n], c)
                       /\ OnceIn(serverQueue[n], c) => OnceIn(serverQueue'[n], c)
  /\ \A d \in Clients : /\ In(clientQueue'[d], c) => In(clientQueue[d], c)
                        /\ OnceIn(clientQueue[d], c) => OnceIn(clientQueue'[d], c)
  /\ \A d \in Clients : got'[d] = c => got[d] = c
  /\ job' = c => job = c
  /\ Unsent(c)' => Unsent(c)

LEMMA KeepsOnce ==
  ASSUME NEW c \in Clients, Keeps(c), Once(c), Unsent(c) => Nowhere(c)
  PROVE  Once(c)' /\ (Unsent(c)' => Nowhere(c)')
<1>1. /\ InServerQueue(c)' => InServerQueue(c)
      /\ InClientQueue(c)' => InClientQueue(c)
      /\ Told(c)' => Told(c)
      /\ job' = c => job = c
      /\ Unsent(c)' => Unsent(c)
  BY DEF Keeps, InServerQueue, InClientQueue, Told
<1>2. /\ \A n \in Queues : OnceIn(serverQueue'[n], c)
      /\ \A n, m \in Queues : In(serverQueue'[n], c) /\ In(serverQueue'[m], c) => n = m
  BY DEF Keeps, Once
<1>3. /\ \A d \in Clients : OnceIn(clientQueue'[d], c)
      /\ \A d, e \in Clients : In(clientQueue'[d], c) /\ In(clientQueue'[e], c) => d = e
      /\ \A d, e \in Clients : got'[d] = c /\ got'[e] = c => d = e
  BY DEF Keeps, Once
<1>4. Unsent(c)' => Nowhere(c)'
  BY <1>1 DEF Nowhere
<1>5. /\ InServerQueue(c)' => ~InClientQueue(c)' /\ ~Told(c)' /\ job' # c
      /\ InClientQueue(c)' => ~Told(c)' /\ job' # c
      /\ Told(c)' => job' # c
  BY <1>1 DEF Once
<1> QED
  BY <1>2, <1>3, <1>4, <1>5 DEF Once

\* mq_receive by the server: the job leaves the queue for the server.
LEMMA ServerReceiveMoves ==
  ASSUME TypeOK, Opened, OneJob, ServerReceive, NEW j, j = job'
  PROVE  /\ j \in Clients /\ InServerQueue(j)
         /\ \A c \in Clients : c # j => Keeps(c)
         /\ Once(j)' /\ ~Unsent(j)'
<1> DEFINE q == serverQueue[mqd_server]
           t == Tail(q)
<1>1. mqd_server \in Queues /\ q \in Seq(Messages) /\ q # <<>>
  BY DEF ServerReceive, ServerStep, CanReceive, TypeOK, Opened
<1>2. /\ Head(q) \in Messages /\ In(q, Head(q).job)
      /\ OnceIn(q, Head(q).job) => ~In(t, Head(q).job)
      /\ \A c : /\ In(t, c) => In(q, c)
                /\ OnceIn(q, c) => OnceIn(t, c)
  BY <1>1, TailJobs
<1>3. /\ job' = Head(q).job /\ serverQueue' = [serverQueue EXCEPT ![mqd_server] = t]
      /\ UNCHANGED <<client, clientQueue, got>>
  BY DEF ServerReceive, clientVars
<1>4. /\ j \in Clients /\ In(q, j) /\ (OnceIn(q, j) => ~In(t, j))
      /\ \A c : /\ In(t, c) => In(q, c)
                /\ OnceIn(q, c) => OnceIn(t, c)
  BY <1>2, <1>3 DEF Messages
<1>5. \A n \in Queues : serverQueue'[n] = IF n = mqd_server THEN t ELSE serverQueue[n]
  BY <1>1, <1>3 DEF TypeOK
<1>6. q = serverQueue[mqd_server]
  OBVIOUS
<1> HIDE DEF q, t
<1>7. InServerQueue(j)
  BY <1>1, <1>4, <1>6 DEF InServerQueue
<1>8. Once(j) /\ ~Unsent(j)
  BY <1>4, <1>7 DEF OneJob, Nowhere
<1>9. ASSUME NEW c \in Clients, c # j
       PROVE  Keeps(c)
  BY <1>3, <1>4, <1>5, <1>6, <1>9 DEF Keeps, Unsent
<1>10. \A n \in Queues : ~In(serverQueue'[n], j)
  BY <1>1, <1>4, <1>5, <1>6, <1>8 DEF Once
<1>11. ~InClientQueue(j)' /\ ~Told(j)'
  BY <1>3, <1>7, <1>8 DEF Once, InClientQueue, Told
<1>12. ~InServerQueue(j)' /\ \A n \in Queues : OnceIn(serverQueue'[n], j)
  BY <1>10 DEF InServerQueue, In, OnceIn
<1>13. Once(j)'
  BY <1>3, <1>8, <1>10, <1>11, <1>12 DEF Once
<1>14. ~Unsent(j)'
  BY <1>3, <1>8 DEF Unsent
<1> QED
  BY <1>4, <1>7, <1>9, <1>13, <1>14

\* mq_send by the server: the job leaves the server for a client queue.
LEMMA ServerReplyMoves ==
  ASSUME TypeOK, Opened, OneJob, ServerReply
  PROVE  /\ mqd_client \in Clients
         /\ \A c \in Clients : c # job => Keeps(c)
         /\ \A c \in Clients : c = job => Once(c)' /\ ~Unsent(c)'
<1> DEFINE q == clientQueue[mqd_client]
           m == [job |-> job, prio |-> 0]
           s == Sent(q, m)
<1>1. mqd_client \in Clients /\ q \in Seq(Messages) /\ m \in Messages /\ m.job = job /\ job \in Clients
  BY Sizes DEF ServerReply, ServerStep, TypeOK, Messages
<1>2. ASSUME NEW c
      PROVE  /\ In(s, c) => In(q, c) \/ c = job
             /\ OnceIn(q, c) /\ ~(In(q, c) /\ c = job) => OnceIn(s, c)
  BY <1>1, SentJobs
<1>3. /\ clientQueue' = [clientQueue EXCEPT ![mqd_client] = s] /\ job' = None
      /\ UNCHANGED <<client, serverQueue, got>>
  BY DEF ServerReply, clientVars
<1>4. q = clientQueue[mqd_client]
  OBVIOUS
<1> HIDE DEF q, m, s
<1>5. \A d \in Clients : clientQueue'[d] = IF d = mqd_client THEN s ELSE clientQueue[d]
  BY <1>1, <1>3 DEF TypeOK
<1>6. ASSUME NEW c \in Clients, c # job
      PROVE  Keeps(c)
  BY <1>2, <1>3, <1>4, <1>5, <1>6, Sizes DEF Keeps, Unsent
<1>7. ASSUME NEW c \in Clients, c = job
      PROVE  Once(c)' /\ ~Unsent(c)'
  <2>1. Once(c) /\ ~Unsent(c)
    BY <1>7 DEF OneJob, Nowhere
  <2>2. ~InServerQueue(c) /\ ~InClientQueue(c) /\ ~Told(c)
    BY <1>7, <2>1 DEF Once
  <2>3. \A d \in Clients : d # mqd_client => ~In(clientQueue'[d], c)
    BY <1>5, <2>2 DEF InClientQueue
  <2>4. \A d \in Clients : OnceIn(clientQueue'[d], c)
    BY <1>1, <1>2, <1>4, <1>5, <2>1, <2>2 DEF Once, InClientQueue
  <2>5. ~InServerQueue(c)' /\ ~Told(c)' /\ job' # c
    BY <1>3, <2>2, Sizes DEF InServerQueue, Told
  <2>6. Once(c)'
    BY <1>3, <2>1, <2>3, <2>4, <2>5 DEF Once
  <2>7. ~Unsent(c)'
    BY <1>3, <2>1 DEF Unsent
  <2> QED
    BY <2>6, <2>7
<1> QED
  BY <1>1, <1>6, <1>7

\* mq_send by a client: its own job, that was nowhere, is in the server's queue.
LEMMA ClientSendMoves ==
  ASSUME TypeOK, Opened, OneJob, NEW c \in Clients, ClientSend(c)
  PROVE  /\ \A d \in Clients : d # c => Keeps(d)
         /\ Once(c)' /\ ~Unsent(c)'
<1> DEFINE q == serverQueue[dest[c]]
<1>1. PICK p \in Prios :
        serverQueue' = [serverQueue EXCEPT ![dest[c]] = Sent(q, [job |-> c, prio |-> p])]
  BY DEF ClientSend
<1> DEFINE m == [job |-> c, prio |-> p]
           s == Sent(q, m)
<1>2. dest[c] \in Queues /\ q \in Seq(Messages) /\ m \in Messages /\ m.job = c
  BY DEF ClientSend, ClientStep, TypeOK, Opened, Messages
<1>3. ASSUME NEW d
      PROVE  /\ In(s, d) => In(q, d) \/ d = c
             /\ OnceIn(q, d) /\ ~(In(q, d) /\ d = c) => OnceIn(s, d)
  BY <1>2, SentJobs
<1>4. /\ serverQueue' = [serverQueue EXCEPT ![dest[c]] = s]
      /\ client[c] = "send" /\ client' = [client EXCEPT ![c] = "receive"]
      /\ UNCHANGED <<clientQueue, got, job>>
  BY <1>1 DEF ClientSend, ClientStep, serverVars
<1>5. q = serverQueue[dest[c]]
  OBVIOUS
<1> HIDE DEF q, m, s
<1>6. /\ \A n \in Queues : serverQueue'[n] = IF n = dest[c] THEN s ELSE serverQueue[n]
      /\ \A d \in Clients : client'[d] = IF d = c THEN "receive" ELSE client[d]
  BY <1>2, <1>4 DEF TypeOK
<1>7. ASSUME NEW d \in Clients, d # c
      PROVE  Keeps(d)
  BY <1>3, <1>4, <1>5, <1>6, <1>7 DEF Keeps, Unsent
<1>8. Once(c) /\ ~InServerQueue(c) /\ ~InClientQueue(c) /\ ~Told(c) /\ job # c
  BY <1>4 DEF OneJob, Nowhere, Unsent
<1>9. \A n \in Queues : n # dest[c] => ~In(serverQueue'[n], c)
  BY <1>6, <1>8 DEF InServerQueue
<1>10. \A n \in Queues : OnceIn(serverQueue'[n], c)
  BY <1>2, <1>3, <1>5, <1>6, <1>8 DEF Once, InServerQueue
<1>11. ~InClientQueue(c)' /\ ~Told(c)' /\ job' # c
  BY <1>4, <1>8 DEF InClientQueue, Told
<1>12. Once(c)'
  BY <1>4, <1>8, <1>9, <1>10, <1>11 DEF Once
<1>13. ~Unsent(c)'
  BY <1>6 DEF Unsent
<1> QED
  BY <1>7, <1>12, <1>13

\* mq_receive by a client: the job leaves the queue, and the client knows of it.
LEMMA ClientReceiveMoves ==
  ASSUME TypeOK, Opened, OneJob, NEW c \in Clients, ClientReceive(c), NEW j, j = got'[c]
  PROVE  /\ j \in Clients /\ InClientQueue(j)
         /\ \A d \in Clients : d # j => Keeps(d)
         /\ Once(j)' /\ ~Unsent(j)' /\ Told(j)'
<1> DEFINE q == clientQueue[own[c]]
           t == Tail(q)
<1>1. own[c] \in Clients /\ q \in Seq(Messages) /\ q # <<>>
  BY DEF ClientReceive, ClientStep, CanReceive, TypeOK, Opened
<1>2. /\ Head(q) \in Messages /\ In(q, Head(q).job)
      /\ OnceIn(q, Head(q).job) => ~In(t, Head(q).job)
      /\ \A d : /\ In(t, d) => In(q, d)
                /\ OnceIn(q, d) => OnceIn(t, d)
  BY <1>1, TailJobs
<1>3. /\ got' = [got EXCEPT ![c] = Head(q).job] /\ clientQueue' = [clientQueue EXCEPT ![own[c]] = t]
      /\ client[c] = "receive" /\ client' = [client EXCEPT ![c] = "unlink"]
      /\ UNCHANGED <<serverQueue, job>>
  BY DEF ClientReceive, ClientStep, serverVars
<1>4. /\ j = Head(q).job
      /\ \A d \in Clients : got'[d] = IF d = c THEN j ELSE got[d]
      /\ \A d \in Clients : client'[d] = IF d = c THEN "unlink" ELSE client[d]
  BY <1>3 DEF TypeOK
<1>5. /\ j \in Clients /\ In(q, j) /\ (OnceIn(q, j) => ~In(t, j))
      /\ \A d : /\ In(t, d) => In(q, d)
                /\ OnceIn(q, d) => OnceIn(t, d)
  BY <1>2, <1>4 DEF Messages
<1>6. \A d \in Clients : clientQueue'[d] = IF d = own[c] THEN t ELSE clientQueue[d]
  BY <1>1, <1>3 DEF TypeOK
<1>7. q = clientQueue[own[c]]
  OBVIOUS
<1> HIDE DEF q, t
<1>8. InClientQueue(j)
  BY <1>1, <1>5, <1>7 DEF InClientQueue
<1>9. Once(j) /\ ~Unsent(j)
  BY <1>5, <1>8 DEF OneJob, Nowhere
<1>10. ASSUME NEW d \in Clients, d # j
       PROVE  Keeps(d)
  BY <1>3, <1>4, <1>5, <1>6, <1>7, <1>10 DEF Keeps, Unsent
<1>11. \A d \in Clients : ~In(clientQueue'[d], j)
  BY <1>1, <1>5, <1>6, <1>7, <1>9 DEF Once
<1>12. ~InServerQueue(j)' /\ ~InClientQueue(j)' /\ job' # j
  BY <1>3, <1>8, <1>9, <1>11 DEF Once, InClientQueue, InServerQueue
<1>13. \A d \in Clients : OnceIn(clientQueue'[d], j)
  BY <1>11 DEF In, OnceIn
<1>14. /\ \A d \in Clients : got'[d] = j => d = c
       /\ Told(j)'
  BY <1>4, <1>8, <1>9 DEF Once, Told
<1>15. Once(j)'
  BY <1>3, <1>9, <1>11, <1>12, <1>13, <1>14 DEF Once
<1>16. ~Unsent(j)'
  BY <1>4, <1>5, <1>9 DEF Unsent
<1> QED
  BY <1>5, <1>8, <1>10, <1>14, <1>15, <1>16

\* The other steps of the programs leave the queues alone.
QuietServer == ServerStart \/ ServerKilled \/ ServerOpen \/ ServerDrop \/ ServerClose \/ ServerUnlink
QuietClient(c) ==
  ClientOpen(c) \/ ClientSendRefused(c) \/ ClientKilled(c) \/ ClientOpenServer(c) \/ ClientUnlink(c)

LEMMA QuietSteps ==
  ASSUME TypeOK, QuietServer \/ \E c \in Clients : QuietClient(c)
  PROVE  /\ \A d \in Clients : Keeps(d)
         /\ UNCHANGED <<serverQueue, clientQueue, got, alone>> /\ job' \in {job, None}
<1>1. /\ UNCHANGED <<serverQueue, clientQueue, got, alone>> /\ job' \in {job, None}
      /\ \A d \in Clients : Unsent(d)' => Unsent(d)
  <2>1. CASE QuietServer
    BY <2>1 DEF QuietServer, ServerStart, ServerKilled, ServerOpen, ServerDrop, ServerClose,
                ServerUnlink, clientVars, Unsent
  <2>2. ASSUME NEW c \in Clients, QuietClient(c)
        PROVE  <1>1!1 /\ <1>1!2
    <3>1. UNCHANGED <<serverQueue, clientQueue, got, alone>> /\ job' = job
      BY <2>2 DEF QuietClient, ClientOpen, ClientSendRefused, ClientKilled, ClientOpenServer,
                  ClientUnlink, serverVars
    <3>2. \E t : client' = [client EXCEPT ![c] = t] /\ (t \in {"start", "server", "send"} => Unsent(c))
      BY <2>2 DEF QuietClient, ClientOpen, ClientSendRefused, ClientKilled, ClientOpenServer,
                  ClientUnlink, ClientStep, Unsent
    <3>3. \A d \in Clients : Unsent(d)' => Unsent(d)
      BY <3>2 DEF TypeOK, Unsent
    <3> QED
      BY <3>1, <3>3
  <2> QED
    BY <2>1, <2>2
<1> QED
  BY <1>1, Sizes DEF Keeps

LEMMA SpareSteps ==
  ASSUME TypeOK, UNCHANGED vars
  PROVE  \A d \in Clients : Keeps(d)
  BY DEF vars, serverVars, clientVars, Keeps, Unsent

LEMMA NextOneJob ==
  ASSUME TypeOK, Opened, OneJob, [Next]_vars
  PROVE  OneJob'
<1>1. ASSUME \A d \in Clients : Keeps(d)
      PROVE  OneJob'
  BY <1>1, KeepsOnce DEF OneJob
<1>2. ASSUME NEW j \in Clients, \A d \in Clients : d # j => Keeps(d), Once(j)', ~Unsent(j)'
      PROVE  OneJob'
  BY <1>2, KeepsOnce DEF OneJob
<1>3. CASE ServerReceive
  <2>1. PICK j : j = job'
    OBVIOUS
  <2> QED
    BY <1>2, <1>3, <2>1, ServerReceiveMoves
<1>4. CASE ServerReply
  <2>1. job \in Clients
    BY <1>4, Sizes DEF ServerReply, ServerStep, TypeOK
  <2>2. PICK j \in Clients : j = job
    BY <2>1
  <2> QED
    BY <1>2, <1>4, <2>2, ServerReplyMoves
<1>5. ASSUME NEW c \in Clients, ClientSend(c)
      PROVE  OneJob'
  BY <1>2, <1>5, ClientSendMoves
<1>6. ASSUME NEW c \in Clients, ClientReceive(c)
      PROVE  OneJob'
  <2>1. PICK j : j = got'[c]
    OBVIOUS
  <2> QED
    BY <1>2, <1>6, <2>1, ClientReceiveMoves
<1>7. CASE QuietServer \/ \E c \in Clients : QuietClient(c)
  BY <1>1, <1>7, QuietSteps
<1>8. CASE UNCHANGED vars
  BY <1>1, <1>8, SpareSteps
<1>9. Next => \/ ServerReceive \/ ServerReply
              \/ \E c \in Clients : ClientSend(c) \/ ClientReceive(c)
              \/ QuietServer \/ \E c \in Clients : QuietClient(c)
  BY DEF Next, ServerRuns, ClientRuns, QuietServer, QuietClient
<1> QED
  BY <1>3, <1>4, <1>5, <1>6, <1>7, <1>8, <1>9

-----------------------------------------------------------------------------
(* Clients that run one at a time *)

LEMMA KeepsOffTheWay ==
  ASSUME NEW c \in Clients, Keeps(c), OnTheWay(c)'
  PROVE  OnTheWay(c)
  BY DEF Keeps, OnTheWay, InServerQueue, InClientQueue

\* A step that neither moves a client nor sends a job.
LEMMA AloneServer ==
  ASSUME Alone, UNCHANGED <<alone, client, clientName, own, got>>,
         \A c \in Clients : OnTheWay(c)' => OnTheWay(c)
  PROVE  Alone'
  BY DEF Alone, NobodyKilled, Active

LEMMA AloneOpen ==
  ASSUME TypeOK, OneJob, Alone, NEW c \in Clients, ClientOpen(c),
         \A d \in Clients : OnTheWay(d)' => OnTheWay(d)
  PROVE  Alone'
<1>1. /\ client[c] = "start" /\ alone' = alone /\ got' = got
      /\ alone => \A d \in Clients : client[d] \in Ended \cup {"start"}
      /\ \A d \in Clients : client'[d] = IF d = c THEN "server" ELSE client[d]
      /\ clientName' = own'[c]
  BY DEF ClientOpen, ClientStep, TypeOK
<1>2. NobodyKilled' => NobodyKilled
  BY <1>1 DEF NobodyKilled
<1>3. ~OnTheWay(c)
  BY <1>1 DEF OneJob, Unsent, Nowhere, OnTheWay
<1>4. alone => \A d \in Clients : Active(d)' => d = c
  BY <1>1 DEF Active, Ended
<1>5. alone /\ NobodyKilled' => \A d \in Clients : OnTheWay(d)' => client'[d] = "receive"
  BY <1>1, <1>2, <1>3 DEF Alone
<1>6. alone /\ NobodyKilled' => \A d \in Clients : got'[d] \in {None, d}
  BY <1>1, <1>2 DEF Alone
<1> QED
  BY <1>1, <1>4, <1>5, <1>6 DEF Alone

\* A step of the running client, up to its end.
LEMMA AloneClient ==
  ASSUME TypeOK, Alone, NEW c \in Clients, Active(c),
         NEW t, client' = [client EXCEPT ![c] = t],
         UNCHANGED <<alone, own>>,
         t \notin Ended => clientName' = clientName,
         alone /\ NobodyKilled =>
           \A d \in Clients : OnTheWay(d)' => IF d = c THEN t = "receive" ELSE OnTheWay(d),
         alone /\ NobodyKilled => \A d \in Clients : got'[d] \in {None, d}
  PROVE  Alone'
<1>1. \A d \in Clients : client'[d] = IF d = c THEN t ELSE client[d]
  BY DEF TypeOK
<1>2. SUFFICES ASSUME alone', NobodyKilled'
               PROVE  Alone'
  BY DEF Alone
<1>3. alone /\ NobodyKilled
  BY <1>1, <1>2 DEF NobodyKilled, Active, Ended
<1>4. \A d \in Clients : Active(d) => d = c
  BY <1>3 DEF Alone
<1>5. \A d \in Clients : Active(d)' => d = c
  BY <1>1, <1>4 DEF Active
<1>6. Active(c)' => clientName' = own'[c]
  BY <1>1, <1>3 DEF Active, Alone
<1>7. \A d \in Clients : OnTheWay(d)' => client'[d] = "receive"
  BY <1>1, <1>3 DEF Alone
<1> QED
  BY <1>3, <1>5, <1>6, <1>7 DEF Alone

LEMMA NextAlone ==
  ASSUME TypeOK, Opened, OneJob, OneJob', Alone, [Next]_vars
  PROVE  Alone'
<1>1. ASSUME \A d \in Clients : Keeps(d)
      PROVE  \A d \in Clients : OnTheWay(d)' => OnTheWay(d)
  BY <1>1, KeepsOffTheWay
<1>2. CASE ServerReceive
  <2>1. PICK j : j = job'
    OBVIOUS
  <2>2. j \in Clients /\ OnTheWay(j) /\ \A c \in Clients : c # j => Keeps(c)
    BY <1>2, <2>1, ServerReceiveMoves DEF OnTheWay
  <2>3. UNCHANGED <<alone, client, clientName, own, got>>
    BY <1>2 DEF ServerReceive, clientVars
  <2> QED
    BY <2>2, <2>3, KeepsOffTheWay, AloneServer
<1>3. CASE ServerReply
  <2>1. \A c \in Clients : c # job => Keeps(c)
    BY <1>3, ServerReplyMoves
  <2>2. \A c \in Clients : c = job => OnTheWay(c)
    BY DEF OnTheWay
  <2>3. UNCHANGED <<alone, client, clientName, own, got>>
    BY <1>3 DEF ServerReply, clientVars
  <2> QED
    BY <2>1, <2>2, <2>3, KeepsOffTheWay, AloneServer
<1>4. CASE QuietServer
  <2>1. UNCHANGED <<alone, client, clientName, own, got>>
    BY <1>4 DEF QuietServer, ServerStart, ServerKilled, ServerOpen, ServerDrop, ServerClose,
                ServerUnlink, clientVars
  <2> QED
    BY <1>1, <1>4, <2>1, QuietSteps, AloneServer
<1>5. CASE UNCHANGED vars
  <2>1. UNCHANGED <<alone, client, clientName, own, got>>
    BY <1>5 DEF vars, clientVars
  <2> QED
    BY <1>1, <1>5, <2>1, SpareSteps, AloneServer
<1>6. ASSUME NEW c \in Clients, QuietClient(c)
      PROVE  Alone'
  <2>1. /\ \A d \in Clients : OnTheWay(d)' => OnTheWay(d)
        /\ alone' = alone /\ got' = got
    BY <1>1, <1>6, QuietSteps
  <2>2. alone /\ NobodyKilled /\ client[c] # "receive" =>
          \A d \in Clients : OnTheWay(d)' => d # c /\ OnTheWay(d)
    BY <2>1 DEF Alone
  <2>3. alone /\ NobodyKilled => \A d \in Clients : got'[d] \in {None, d}
    BY <2>1 DEF Alone
  <2>4. CASE ClientOpen(c)
    BY <2>1, <2>4, AloneOpen
  <2>5. CASE ClientOpenServer(c)
    <3>1. PICK t \in {"failed", "send"} : client' = [client EXCEPT ![c] = t]
      BY <2>5 DEF ClientOpenServer, ClientStep
    <3>2. client[c] = "server" /\ UNCHANGED <<own, clientName>>
      BY <2>5 DEF ClientOpenServer, ClientStep
    <3>3. Active(c)
      BY <3>2 DEF Active, Ended
    <3> QED
      BY <2>1, <2>2, <2>3, <3>1, <3>2, <3>3, AloneClient DEF Ended
  <2>6. CASE ClientSendRefused(c)
    <3>1. client[c] = "send" /\ client' = [client EXCEPT ![c] = "failed"] /\ UNCHANGED <<own, clientName>>
      BY <2>6 DEF ClientSendRefused, ClientStep
    <3>2. Active(c)
      BY <3>1 DEF Active, Ended
    <3> QED
      BY <2>1, <2>2, <2>3, <3>1, <3>2, AloneClient DEF Ended
  <2>7. CASE ClientUnlink(c)
    <3>1. PICK t \in {"failed", "done"} : client' = [client EXCEPT ![c] = t]
      BY <2>7 DEF ClientUnlink, ClientStep
    <3>2. client[c] = "unlink" /\ own' = own /\ t \in Ended
      BY <2>7 DEF ClientUnlink, ClientStep, Ended
    <3>3. Active(c)
      BY <3>2 DEF Active, Ended
    <3> QED
      BY <2>1, <2>2, <2>3, <3>1, <3>2, <3>3, AloneClient DEF Ended
  <2>8. CASE ClientKilled(c)
    BY <2>8 DEF ClientKilled, TypeOK, Alone, NobodyKilled
  <2> QED
    BY <1>6, <2>4, <2>5, <2>6, <2>7, <2>8 DEF QuietClient
<1>7. ASSUME NEW c \in Clients, ClientSend(c)
      PROVE  Alone'
  <2>1. /\ client[c] = "send" /\ client' = [client EXCEPT ![c] = "receive"]
        /\ UNCHANGED <<alone, own, clientName, got>>
    BY <1>7 DEF ClientSend, ClientStep
  <2>2. Active(c)
    BY <2>1 DEF Active, Ended
  <2>3. \A d \in Clients : d # c => (OnTheWay(d)' => OnTheWay(d))
    BY <1>7, ClientSendMoves, KeepsOffTheWay
  <2>4. alone /\ NobodyKilled => \A d \in Clients : got'[d] \in {None, d}
    BY <2>1 DEF Alone
  <2> QED
    BY <2>1, <2>2, <2>3, <2>4, AloneClient
<1>8. ASSUME NEW c \in Clients, ClientReceive(c)
      PROVE  Alone'
  <2>1. /\ client[c] = "receive" /\ client' = [client EXCEPT ![c] = "unlink"]
        /\ UNCHANGED <<alone, own, clientName>>
        /\ \E x : got' = [got EXCEPT ![c] = x]
    BY <1>8 DEF ClientReceive, ClientStep
  <2>2. Active(c)
    BY <2>1 DEF Active, Ended
  <2>3. PICK j : j = got'[c]
    OBVIOUS
  <2>4. /\ j \in Clients /\ OnTheWay(j)
        /\ \A d \in Clients : d # j => Keeps(d)
        /\ Once(j)' /\ Told(j)'
    BY <1>8, <2>3, ClientReceiveMoves DEF OnTheWay
  <2>5. ~OnTheWay(j)'
    BY <2>4 DEF Once, OnTheWay
  <2>6. \A d \in Clients : OnTheWay(d)' => OnTheWay(d) /\ d # j
    BY <2>4, <2>5, KeepsOffTheWay
  <2>7. alone /\ NobodyKilled => j = c
    <3>1. alone /\ NobodyKilled => Active(j)
      BY <2>4 DEF Alone, Active, Ended
    <3> QED
      BY <2>2, <2>4, <3>1 DEF Alone
  <2>8. alone /\ NobodyKilled => \A d \in Clients : got'[d] \in {None, d}
    BY <2>1, <2>3, <2>7 DEF Alone, TypeOK
  <2>9. alone /\ NobodyKilled =>
          \A d \in Clients : OnTheWay(d)' => d # c /\ OnTheWay(d)
    BY <2>6, <2>7
  <2> QED
    BY <2>1, <2>2, <2>8, <2>9, AloneClient
<1>9. Next => \/ ServerReceive \/ ServerReply \/ QuietServer
              \/ \E c \in Clients : ClientSend(c) \/ ClientReceive(c) \/ QuietClient(c)
  BY DEF Next, ServerRuns, ClientRuns, QuietServer, QuietClient
<1> QED
  BY <1>2, <1>3, <1>4, <1>5, <1>6, <1>7, <1>8, <1>9

-----------------------------------------------------------------------------
(* The theorems *)

LEMMA InitIInv == Init => IInv
<1>1. Init => TypeOK
  BY Sizes DEF Init, TypeOK, Queues
<1>2. ASSUME Init
      PROVE  /\ Opened
             /\ \A c \in Clients : ~In(<<>>, c) /\ OnceIn(<<>>, c)
  BY <1>2, Sizes DEF Init, Opened, In, OnceIn
<1>3. ASSUME Init, NEW c \in Clients
      PROVE  Nowhere(c) /\ Once(c)
  <2>1. /\ \A n \in Queues : ~In(serverQueue[n], c) /\ OnceIn(serverQueue[n], c)
        /\ \A d \in Clients : ~In(clientQueue[d], c) /\ OnceIn(clientQueue[d], c)
        /\ \A d \in Clients : got[d] # c
        /\ job # c
    BY <1>2, <1>3, Sizes DEF Init
  <2> QED
    BY <2>1 DEF Nowhere, Once, InServerQueue, InClientQueue, Told
<1>4. Init => OneJob
  BY <1>3 DEF OneJob
<1>5. Init => Alone
  <2>1. ASSUME Init, NEW c \in Clients
        PROVE  ~Active(c) /\ ~OnTheWay(c) /\ got[c] = None
    BY <1>3, <2>1 DEF Init, Active, Nowhere, OnTheWay
  <2> QED
    BY <2>1 DEF Alone
<1> QED
  BY <1>1, <1>2, <1>4, <1>5 DEF IInv

LEMMA NextIInv == IInv /\ [Next]_vars => IInv'
<1> SUFFICES ASSUME IInv, [Next]_vars
             PROVE  IInv'
  OBVIOUS
<1>1. TypeOK' /\ Opened'
  <2>1. CASE UNCHANGED vars
    BY <2>1 DEF IInv, TypeOK, Opened, vars, serverVars, clientVars
  <2>2. CASE Next
    BY <2>2, ServerTypes, ClientTypes DEF IInv, Next
  <2> QED
    BY <2>1, <2>2
<1>2. OneJob'
  BY NextOneJob DEF IInv
<1>3. Alone'
  BY <1>2, NextAlone DEF IInv
<1> QED
  BY <1>1, <1>2, <1>3 DEF IInv

\* No value is out of its type, no queue holds more than mq_maxmsg messages, and the
\* server has a job exactly from receiving it to replying to it (printserver.c:51-107).
THEOREM TypeCorrect == Spec => []TypeOK
<1>1. IInv => TypeOK
  BY DEF IInv
<1> QED
  BY InitIInv, NextIInv, <1>1, PTL DEF Spec

\* Two places of a job are the same place, as Once says.
LEMMA SamePlace ==
  ASSUME NEW c \in Clients, Once(c), NEW x \in Places(c), NEW y \in Places(c)
  PROVE  x = y
<1>1. ASSUME NEW z \in Places(c)
      PROVE  \/ InServerQueue(c) /\ \E n \in Queues : \E j \in DOMAIN serverQueue[n] :
                  serverQueue[n][j].job = c /\ z = <<"server queue", n, j>>
             \/ InClientQueue(c) /\ \E d \in Clients : \E j \in DOMAIN clientQueue[d] :
                  clientQueue[d][j].job = c /\ z = <<"client queue", d, j>>
             \/ Told(c) /\ \E d \in Clients : got[d] = c /\ z = <<"client", d>>
             \/ job = c /\ z = <<"server">>
  <2>1. \/ \E n \in Queues : \E j \in DOMAIN serverQueue[n] :
             serverQueue[n][j].job = c /\ z = <<"server queue", n, j>>
        \/ \E d \in Clients : \E j \in DOMAIN clientQueue[d] :
             clientQueue[d][j].job = c /\ z = <<"client queue", d, j>>
        \/ \E d \in Clients : got[d] = c /\ z = <<"client", d>>
        \/ job = c /\ z = <<"server">>
    BY <1>1 DEF Places
  <2> QED
    BY <2>1, Zenon DEF InServerQueue, InClientQueue, Told, In
<1>2. CASE InServerQueue(c)
  <2>1. ~InClientQueue(c) /\ ~Told(c) /\ job # c
    BY <1>2 DEF Once
  <2>2. PICK n \in Queues : \E j \in DOMAIN serverQueue[n] :
               serverQueue[n][j].job = c /\ x = <<"server queue", n, j>>
    BY <1>1, <2>1
  <2>3. PICK m \in Queues : \E j \in DOMAIN serverQueue[m] :
               serverQueue[m][j].job = c /\ y = <<"server queue", m, j>>
    BY <1>1, <2>1
  <2>4. n = m
    BY <2>2, <2>3 DEF Once, In
  <2> QED
    BY <2>2, <2>3, <2>4 DEF Once, OnceIn
<1>3. CASE InClientQueue(c)
  <2>1. ~InServerQueue(c) /\ ~Told(c) /\ job # c
    BY <1>3 DEF Once
  <2>2. PICK d \in Clients : \E j \in DOMAIN clientQueue[d] :
               clientQueue[d][j].job = c /\ x = <<"client queue", d, j>>
    BY <1>1, <2>1
  <2>3. PICK e \in Clients : \E j \in DOMAIN clientQueue[e] :
               clientQueue[e][j].job = c /\ y = <<"client queue", e, j>>
    BY <1>1, <2>1
  <2>4. d = e
    BY <2>2, <2>3 DEF Once, In
  <2> QED
    BY <2>2, <2>3, <2>4 DEF Once, OnceIn
<1>4. CASE Told(c)
  <2>1. ~InServerQueue(c) /\ ~InClientQueue(c) /\ job # c
    BY <1>4 DEF Once
  <2> QED
    BY <1>1, <2>1 DEF Once
<1>5. CASE ~InServerQueue(c) /\ ~InClientQueue(c) /\ ~Told(c)
  BY <1>1, <1>5
<1> QED
  BY <1>2, <1>3, <1>4, <1>5

\* A job is in one queue, with the server or with one client, however often the server is
\* killed with a job or started again with jobs waiting, and nowhere before it is sent.
THEOREM AnsweredOnce == Spec => []JobInOnePlace
<1>1. IInv => JobInOnePlace
  <2>1. ASSUME NEW c \in Clients, Once(c)
        PROVE  Cardinality(Places(c)) <= 1
    <3>1. CASE Places(c) = {}
      BY <3>1, FS_EmptySet
    <3>2. CASE Places(c) # {}
      <4>1. PICK x : x \in Places(c)
        BY <3>2
      <4>2. \A y \in Places(c) : y = x
        BY <2>1, <4>1, SamePlace
      <4>3. Places(c) = {x}
        BY <4>1, <4>2
      <4>4. Cardinality({x}) = 1
        BY FS_Singleton
      <4> QED
        BY <4>3, <4>4
    <3> QED
      BY <3>1, <3>2
  <2>2. ASSUME NEW c \in Clients, Nowhere(c)
        PROVE  Places(c) = {}
    BY <2>2 DEF Nowhere, Places, InServerQueue, InClientQueue, Told, In
  <2> QED
    BY <2>1, <2>2 DEF IInv, OneJob, Unsent, JobInOnePlace
<1> QED
  BY InitIInv, NextIInv, <1>1, PTL DEF Spec

\* Clients that run one at a time are told of their own job only, and leave no feedback
\* behind that the next one could read (client.c:49, 73, 90).
THEOREM OwnFeedback == Spec => []OwnFeedbackAlone
<1>1. IInv => OwnFeedbackAlone
  <2>1. SUFFICES ASSUME IInv, alone, NobodyKilled
                 PROVE  /\ \A c \in Clients : got[c] \in {None, c}
                        /\ (\A c \in Clients : client[c] \in Ended \cup {"start"}) =>
                             (clientName = None \/ clientQueue[clientName] = <<>>)
    BY DEF OwnFeedbackAlone
  <2>2. \A c \in Clients : got[c] \in {None, c}
    BY <2>1 DEF IInv, Alone
  <2>3. ASSUME \A c \in Clients : client[c] \in Ended \cup {"start"},
               clientName # None, clientQueue[clientName] # <<>>
        PROVE  FALSE
    <3> DEFINE q == clientQueue[clientName]
    <3>1. clientName \in Clients /\ q \in Seq(Messages) /\ q # <<>>
      BY <2>1, <2>3 DEF IInv, TypeOK
    <3>2. Head(q) \in Messages /\ In(q, Head(q).job)
      BY <3>1, TailJobs
    <3>3. PICK j \in Clients : j = Head(q).job
      BY <3>2 DEF Messages
    <3>4. OnTheWay(j)
      BY <3>1, <3>2, <3>3 DEF OnTheWay, InClientQueue
    <3> QED
      BY <2>1, <2>3, <3>4 DEF IInv, Alone, Ended
  <2> QED
    BY <2>2, <2>3
<1> QED
  BY InitIInv, NextIInv, <1>1, PTL DEF Spec

-----------------------------------------------------------------------------
(* The shells: the invariant *)

\* The next statement of a process, also of one that is in the handler.
At(r) == IF r.pc = "ask" THEN r.resume ELSE r.pc

PipeEnds == Pipes \X {"r", "w"}
Both(r) == Ends(r.pipefd[1]) \cup Ends(r.pipefd[2])

\* What a command may be: also the "exit" that the handler did not end.
Words == Programs \cup {"exit"}

Procs ==
  [pc : ShellLabels \cup {"free", "run", "exited", "ask"},
   resume : ShellLabels \cup {"free"},
   parent : 0 .. NPROC + 1,
   stdin : 0 .. NPIPE, stdout : 0 .. NPIPE,
   fds : SUBSET PipeEnds,
   pipefd : (0 .. NPIPE) \X (0 .. NPIPE),
   command : Seq(Words),
   cpid_array : [1 .. 3 -> 0 .. NPROC],
   left : 0 .. (ECHO + 1),
   kept : SUBSET PipeEnds]

\* From opening its two pipes to closing them a shell, or a child that may become one,
\* has them besides what it has lost track of, and afterwards only the latter.  A child
\* that has redirected itself has closed some of them already; the first one may lose
\* track of the others.
Descriptors(r) ==
  /\ r.kept \subseteq r.fds
  /\ Cardinality(r.fds) <= FD_MAX
  /\ At(r) \in {"read", "fork0", "fork1", "fork2", "child0", "child1", "child2"} =>
       r.fds = Both(r) \cup r.kept /\ r.kept \cap Both(r) = {}
  /\ At(r) \in {"exec1", "exec2", "close"} => r.fds \ Both(r) = r.kept
  /\ At(r) \in {"wait0", "wait1", "wait2", "pipe"} => r.fds = r.kept

\* The line has a command for each child.
Lengths(r) ==
  /\ At(r) \in {"fork0", "child0", "exec0"} => Len(r.command) > 0
  /\ At(r) \in {"fork1", "child1", "exec1"} => Len(r.command) > 1
  /\ At(r) \in {"fork2", "child2", "exec2"} => Len(r.command) > 2

\* What a process of shell v may be.
Sound(v) ==
  {r \in Procs : Descriptors(r) /\ Lengths(r) /\ (v = "simple" => r.pipefd = <<0, 0>>)}

\* The i-th child has been forked and not yet been waited for.
Awaits(r, i) ==
  \/ At(r) = "fork1" /\ i = 1
  \/ At(r) = "fork2" /\ i \in {1, 2}
  \/ At(r) \in {"close", "wait0"} /\ i <= Len(r.command)
  \/ At(r) = "wait1" /\ i > 1 /\ i <= Len(r.command)
  \/ At(r) = "wait2" /\ i = 3

Expects(r, q) == \E i \in 1 .. 3 : Awaits(r, i) /\ r.cpid_array[i] = q

\* Every child is one that its parent is going to wait for.
Kids == \A p, q \in Pids : proc[q].parent = p => q # p /\ Expects(proc[p], q)

Processes == proc \in [Pids -> Sound(variant)]

System ==
  /\ variant \in Variants /\ signals \in 0 .. SIGNALS
  /\ pipe \in [Pipes -> 0 .. CAP]

ShIInv == System /\ Processes /\ Kids

-----------------------------------------------------------------------------
(* Sets *)

LEMMA ShSizes ==
  /\ NPROC \in Nat \ {0} /\ NPIPE \in Nat /\ FD_MAX \in Nat
  /\ CAP \in Nat \ {0} /\ ECHO \in Nat /\ SIGNALS \in Nat
  BY ShellAssumption

\* A set of numbers has a least element.
LEMMA LeastIn ==
  ASSUME NEW S \in SUBSET Nat, S # {}
  PROVE  Least(S) \in S
<1>1. PICK x \in S : \A y \in S : ~(<<y, x>> \in OpToRel(<, Nat))
  BY NatLessThanWellFounded, WFMin
<1>2. ASSUME NEW y \in S
      PROVE  x <= y
  <2>1. ~(<<y, x>> \in OpToRel(<, Nat))
    BY <1>1
  <2>2. ~(y < x)
    BY <2>1 DEF OpToRel
  <2> QED
    BY <2>2
<1> QED
  BY <1>2 DEF Least

LEMMA PipeEndsFinite == IsFiniteSet(PipeEnds)
<1>1. IsFiniteSet(Pipes)
  BY ShSizes, FS_Interval DEF Pipes
<1>2. IsFiniteSet({"r", "w"})
  <2>1. IsFiniteSet({"r"})
    BY FS_Singleton
  <2>2. IsFiniteSet({"r"} \cup {"w"})
    BY <2>1, FS_AddElement
  <2>3. {"r", "w"} = {"r"} \cup {"w"}
    OBVIOUS
  <2> QED
    BY <2>2, <2>3
<1> QED
  BY <1>1, <1>2, FS_Product DEF PipeEnds

\* Who closes descriptors has fewer of them.
LEMMA FewerFds ==
  ASSUME NEW S \in SUBSET PipeEnds, Cardinality(S) <= FD_MAX, NEW T \in SUBSET S
  PROVE  Cardinality(T) <= FD_MAX
<1>1. IsFiniteSet(S)
  BY PipeEndsFinite, FS_Subset
<1>2. IsFiniteSet(T) /\ Cardinality(T) <= Cardinality(S)
  BY <1>1, FS_Subset
<1>3. Cardinality(S) \in Nat /\ Cardinality(T) \in Nat
  BY <1>1, <1>2, FS_CardinalityType
<1> QED
  BY <1>2, <1>3, ShSizes

\* An element more, or none.
LEMMA OneMore ==
  ASSUME NEW S, IsFiniteSet(S), NEW x
  PROVE  /\ IsFiniteSet(S \cup {x})
         /\ Cardinality(S) \in Nat /\ Cardinality(S \cup {x}) \in Nat
         /\ Cardinality(S \cup {x}) <= Cardinality(S) + 1
<1>1. IsFiniteSet(S \cup {x})
  BY FS_AddElement
<1>2. Cardinality(S \cup {x}) = IF x \in S THEN Cardinality(S) ELSE Cardinality(S) + 1
  BY FS_AddElement
<1>3. Cardinality(S) \in Nat
  BY FS_CardinalityType
<1> DEFINE n == Cardinality(S)
<1> HIDE DEF n
<1>4. n \in Nat /\ Cardinality(S \cup {x}) = IF x \in S THEN n ELSE n + 1
  BY <1>2, <1>3 DEF n
<1>5. Cardinality(S \cup {x}) \in Nat /\ Cardinality(S \cup {x}) <= n + 1
  BY <1>4
<1> QED
  BY <1>1, <1>3, <1>5 DEF n

\* A pipe more is two descriptors more, at most.
LEMMA TwoMore ==
  ASSUME NEW S, IsFiniteSet(S), NEW k
  PROVE  /\ IsFiniteSet(S \cup Ends(k))
         /\ Cardinality(S) \in Nat /\ Cardinality(S \cup Ends(k)) \in Nat
         /\ Cardinality(S \cup Ends(k)) <= Cardinality(S) + 2
<1>1. CASE k \in Pipes
  <2> DEFINE T == S \cup {<<k, "r">>}
             U == T \cup {<<k, "w">>}
  <2>1. /\ IsFiniteSet(T) /\ Cardinality(S) \in Nat /\ Cardinality(T) \in Nat
        /\ Cardinality(T) <= Cardinality(S) + 1
    BY OneMore
  <2>2. S \cup Ends(k) = U
    BY <1>1 DEF Ends
  <2> HIDE DEF T
  <2>3. IsFiniteSet(U) /\ Cardinality(U) \in Nat /\ Cardinality(U) <= Cardinality(T) + 1
    BY <2>1, OneMore
  <2> HIDE DEF U
  <2>4. Cardinality(U) <= Cardinality(S) + 2
    BY <2>1, <2>3
  <2> QED
    BY <2>1, <2>2, <2>3, <2>4
<1>2. CASE k \notin Pipes
  <2>1. S \cup Ends(k) = S
    BY <1>2 DEF Ends
  <2>2. Cardinality(S) \in Nat
    BY FS_CardinalityType
  <2>3. Cardinality(S) <= Cardinality(S) + 2
    BY <2>2
  <2> QED
    BY <2>1, <2>2, <2>3
<1> QED
  BY <1>1, <1>2

\* Two pipes more are four descriptors more, at most.
LEMMA FourMore ==
  ASSUME NEW S \in SUBSET PipeEnds, Cardinality(S) + 4 <= FD_MAX, NEW k, NEW l
  PROVE  Cardinality(S \cup Ends(k) \cup Ends(l)) <= FD_MAX
<1> DEFINE A == S \cup Ends(k)
           B == A \cup Ends(l)
<1>1. IsFiniteSet(S)
  BY PipeEndsFinite, FS_Subset
<1>2. /\ IsFiniteSet(A) /\ Cardinality(S) \in Nat /\ Cardinality(A) \in Nat
      /\ Cardinality(A) <= Cardinality(S) + 2
  BY <1>1, TwoMore
<1> HIDE DEF A
<1>3. Cardinality(B) \in Nat /\ Cardinality(B) <= Cardinality(A) + 2
  BY <1>2, TwoMore
<1> HIDE DEF B
<1>4. Cardinality(B) <= FD_MAX
  BY <1>2, <1>3, ShSizes
<1> QED
  BY <1>4 DEF A, B

\* If there are two free pipes, the two least are different.
LEMMA TwoPipes ==
  ASSUME ~(Cardinality(FreePipes) < 2)
  PROVE  /\ Least(FreePipes) \in FreePipes
         /\ Least(FreePipes \ {Least(FreePipes)}) \in FreePipes \ {Least(FreePipes)}
<1> DEFINE F == FreePipes
           k == Least(F)
<1>1. F \subseteq Pipes /\ F \subseteq Nat
  BY ShSizes DEF FreePipes, Pipes
<1>2. IsFiniteSet(F)
  <2>1. IsFiniteSet(Pipes)
    BY ShSizes, FS_Interval DEF Pipes
  <2> QED
    BY <1>1, <2>1, FS_Subset
<1>3. F # {} /\ ~\E x : F = {x}
  BY <1>2, FS_EmptySet, FS_Singleton
<1> HIDE DEF F
<1>4. k \in F
  BY <1>1, <1>3, LeastIn
<1> HIDE DEF k
<1>5. F \ {k} # {} /\ F \ {k} \subseteq Nat
  BY <1>1, <1>3, <1>4
<1>6. Least(F \ {k}) \in F \ {k}
  BY <1>5, LeastIn
<1> QED
  BY <1>4, <1>6 DEF F, k

LEMMA FreeNumber ==
  ASSUME FreePids # {}
  PROVE  Least(FreePids) \in FreePids
<1>1. FreePids \subseteq Nat
  BY ShSizes DEF FreePids, Pids
<1> QED
  BY <1>1, LeastIn

-----------------------------------------------------------------------------
(* What happens to processes and their children *)

\* A process that does not run waits for nobody.
LEMMA Waiting ==
  ASSUME NEW r, NEW q, Expects(r, q)
  PROVE  r.pc \notin {"free", "exited", "run"}
  BY DEF Expects, Awaits, At

\* A process goes on by itself, with the children it had.
LEMMA GoesOn ==
  ASSUME Processes, Kids, variant' = variant,
         NEW p \in Pids, NEW r \in Sound(variant), r.parent = proc[p].parent,
         \A q \in Pids : proc[q].parent = p /\ Expects(proc[p], q) => Expects(r, q),
         proc' = [proc EXCEPT ![p] = r]
  PROVE  Processes' /\ Kids'
<1>1. Processes'
  BY DEF Processes
<1>2. proc'[p] = r /\ \A q \in Pids : q # p => proc'[q] = proc[q]
  BY DEF Processes
<1>3. \A q \in Pids : proc'[q].parent = proc[q].parent
  BY <1>2
<1>4. ASSUME NEW q1 \in Pids, NEW q2 \in Pids, proc'[q2].parent = q1
      PROVE  q2 # q1 /\ Expects(proc'[q1], q2)
  <2>1. proc[q2].parent = q1
    BY <1>3, <1>4
  <2>2. q2 # q1 /\ Expects(proc[q1], q2)
    BY <2>1 DEF Kids
  <2> QED
    BY <1>2, <2>1, <2>2
<1> QED
  BY <1>1, <1>4 DEF Kids

\* A process p forks c, and will wait for it.
LEMMA Forks ==
  ASSUME Processes, Kids, variant' = variant,
         NEW p \in Pids, NEW c \in Pids, proc[p].pc # "free", proc[c].pc = "free",
         NEW r \in Sound(variant), r.parent = proc[p].parent,
         NEW s \in Sound(variant), s.parent = p,
         Expects(r, c), \A q \in Pids : Expects(proc[p], q) => Expects(r, q),
         proc' = [proc EXCEPT ![p] = r, ![c] = s]
  PROVE  Processes' /\ Kids'
<1>1. Processes'
  BY DEF Processes
<1>2. c # p
  OBVIOUS
<1>3. /\ proc'[p] = r /\ proc'[c] = s
      /\ \A q \in Pids : q # p /\ q # c => proc'[q] = proc[q]
  BY <1>2 DEF Processes
<1>4. ASSUME NEW q1 \in Pids, NEW q2 \in Pids, proc'[q2].parent = q1
      PROVE  q2 # q1 /\ Expects(proc'[q1], q2)
  <2>1. CASE q2 = c
    BY <1>2, <1>3, <1>4, <2>1
  <2>2. CASE q2 # c
    <3>1. proc[q2].parent = q1
      BY <1>3, <1>4, <2>2
    <3>2. q2 # q1 /\ Expects(proc[q1], q2)
      BY <3>1 DEF Kids
    <3>3. q1 # c
      BY <3>2, Waiting
    <3> QED
      BY <1>3, <3>2, <3>3
  <2> QED
    BY <2>1, <2>2
<1> QED
  BY <1>1, <1>4 DEF Kids

\* A process p has waited for its child c.
LEMMA Reaps ==
  ASSUME Processes, Kids, variant' = variant,
         NEW p \in Pids, NEW c \in Pids, proc[c].pc = "exited", proc[p].pc # "exited",
         NEW r \in Sound(variant), r.parent = proc[p].parent,
         Free \in Sound(variant),
         \A q \in Pids : Expects(proc[p], q) /\ q # c => Expects(r, q),
         proc' = [proc EXCEPT ![p] = r, ![c] = Free]
  PROVE  Processes' /\ Kids'
<1>1. Processes'
  BY DEF Processes
<1>2. c # p
  OBVIOUS
<1>3. /\ proc'[p] = r /\ proc'[c] = Free
      /\ \A q \in Pids : q # p /\ q # c => proc'[q] = proc[q]
  BY <1>2 DEF Processes
<1>4. ASSUME NEW q1 \in Pids, NEW q2 \in Pids, proc'[q2].parent = q1
      PROVE  q2 # q1 /\ Expects(proc'[q1], q2)
  <2>1. q2 # c
    BY <1>3, <1>4, ShSizes DEF Free, orphan, Pids
  <2>2. proc[q2].parent = q1
    BY <1>3, <1>4, <2>1
  <2>3. q2 # q1 /\ Expects(proc[q1], q2)
    BY <2>2 DEF Kids
  <2>4. q1 # c
    BY <2>3, Waiting
  <2> QED
    BY <1>3, <2>1, <2>3, <2>4
<1> QED
  BY <1>1, <1>4 DEF Kids

\* Where there is no process there are no descriptors.
LEMMA FreeSound ==
  ASSUME NEW v
  PROVE  Free \in Procs /\ Free \in Sound(v)
<1>1. Free \in Procs
  <2>1. <<0, 0, 0>> \in [1 .. 3 -> 0 .. NPROC]
    BY ShSizes
  <2>2. <<0, 0>> \in (0 .. NPIPE) \X (0 .. NPIPE)
    BY ShSizes
  <2>3. <<>> \in Seq(Words)
    OBVIOUS
  <2>4. 0 \in 0 .. NPIPE /\ 0 \in 0 .. ECHO + 1 /\ 0 \in 0 .. NPROC + 1
    BY ShSizes
  <2> QED
    BY <2>1, <2>2, <2>3, <2>4 DEF Free, Procs, tty, orphan
<1>2. Cardinality({}) <= FD_MAX
  BY FS_EmptySet, ShSizes
<1>3. Descriptors(Free) /\ Lengths(Free)
  BY <1>2 DEF Free, Descriptors, Lengths, At
<1> QED
  BY <1>1, <1>3 DEF Sound, Free

\* A process that has ended, and a parent that may wait for it.
Gone(parent) == [Free EXCEPT !.pc = "exited", !.parent = parent]

LEMMA EndedSound ==
  ASSUME NEW v, NEW parent \in 0 .. NPROC + 1
  PROVE  Gone(parent) \in Sound(v)
<1> DEFINE r == Gone(parent)
<1>1. r \in Procs
  BY FreeSound DEF Procs, Gone
<1>2. Cardinality({}) <= FD_MAX
  BY FS_EmptySet, ShSizes
<1>3. Descriptors(r) /\ Lengths(r)
  BY <1>2 DEF Gone, Free, Descriptors, Lengths, At
<1>4. r.pipefd = <<0, 0>>
  BY DEF Gone, Free
<1> HIDE DEF r
<1>5. r \in Sound(v)
  BY <1>1, <1>3, <1>4 DEF Sound
<1> QED
  BY <1>5 DEF r

\* The children and the descriptors do not depend on the rest of a process.
LEMMA SameShell ==
  ASSUME NEW v, NEW s \in Sound(v), NEW r \in Procs,
         At(r) = At(s), r.fds = s.fds, r.kept = s.kept, r.pipefd = s.pipefd,
         r.command = s.command, r.cpid_array = s.cpid_array
  PROVE  /\ r \in Sound(v)
         /\ \A q : Expects(s, q) => Expects(r, q)
<1>1. Both(r) = Both(s)
  BY DEF Both
<1>2. Descriptors(r) /\ Lengths(r)
  BY <1>1 DEF Sound, Descriptors, Lengths
<1>3. \A q : Expects(s, q) => Expects(r, q)
  BY DEF Expects, Awaits
<1> QED
  BY <1>2, <1>3 DEF Sound

\* A process that loses its parent is otherwise as it was.
LEMMA Orphaned ==
  ASSUME NEW v, NEW r \in Sound(v)
  PROVE  /\ [r EXCEPT !.parent = orphan] \in Sound(v)
         /\ \A q : Expects(r, q) => Expects([r EXCEPT !.parent = orphan], q)
<1> DEFINE s == [r EXCEPT !.parent = orphan]
<1>1. r \in Procs
  BY DEF Sound
<1>2. s \in Procs
  <2>1. 0 \in 0 .. NPROC + 1
    BY ShSizes
  <2> QED
    BY <1>1, <2>1 DEF Procs, orphan
<1>3. /\ s.pc = r.pc /\ s.resume = r.resume /\ s.fds = r.fds /\ s.kept = r.kept
      /\ s.pipefd = r.pipefd /\ s.command = r.command /\ s.cpid_array = r.cpid_array
  BY <1>1 DEF Procs
<1> HIDE DEF s
<1>4. At(s) = At(r)
  BY <1>3 DEF At
<1>5. s \in Sound(v) /\ \A q : Expects(r, q) => Expects(s, q)
  BY <1>2, <1>3, <1>4, SameShell
<1> QED
  BY <1>5 DEF s

\* A process ends, and leaves its children.
LEMMA Exits ==
  ASSUME Processes, Kids, variant' = variant, NEW p \in Pids, Exit(p)
  PROVE  Processes' /\ Kids'
<1>1. proc \in [Pids -> Sound(variant)]
  BY DEF Processes
<1>2. \A q \in Pids : proc[q] \in Sound(variant) /\ proc[q] \in Procs
  BY <1>1 DEF Sound
<1>3. proc[p].parent \in 0 .. NPROC + 1
  BY <1>2 DEF Procs
<1>4. Gone(proc[p].parent) \in Sound(variant)
  BY <1>3, EndedSound
<1>5. \A q \in Pids : proc'[q] \in Sound(variant)
  <2>1. proc'[p] = Free \/ proc'[p] = Gone(proc[p].parent)
    BY DEF Exit, Gone
  <2>2. \A q \in Pids \ {p} : \/ proc'[q] = proc[q] \/ proc'[q] = Free
                              \/ proc'[q] = [proc[q] EXCEPT !.parent = orphan]
    BY DEF Exit
  <2>3. proc'[p] \in Sound(variant)
    BY <1>4, <2>1, FreeSound
  <2>4. ASSUME NEW q \in Pids \ {p}
        PROVE  proc'[q] \in Sound(variant)
    <3>1. [proc[q] EXCEPT !.parent = orphan] \in Sound(variant)
      BY <1>2, Orphaned
    <3> QED
      BY <1>2, <2>2, <3>1, FreeSound
  <2> QED
    BY <2>3, <2>4
<1>6. Processes'
  BY <1>5 DEF Processes, Exit
<1>7. Free.parent = orphan /\ orphan \notin Pids
  BY ShSizes DEF Free, orphan, Pids
<1>8. ASSUME NEW q1 \in Pids, NEW q2 \in Pids, proc'[q2].parent = q1
      PROVE  q2 # q1 /\ Expects(proc'[q1], q2)
  <2>1. proc[q2].parent = q1 /\ q1 # p
    <3>1. CASE q2 = p
      <4>1. proc'[q2].parent = proc[p].parent
        BY <1>7, <1>8, <3>1 DEF Exit, Free
      <4> QED
        BY <1>8, <3>1, <4>1 DEF Kids
    <3>2. CASE q2 # p
      <4>1. CASE proc[q2].parent # p
        BY <1>8, <3>2, <4>1 DEF Exit
      <4>2. CASE proc[q2].parent = p
        <5>1. proc'[q2].parent = orphan
          BY <1>2, <1>7, <3>2, <4>2 DEF Exit, Procs
        <5> QED
          BY <1>7, <1>8, <5>1
      <4> QED
        BY <4>1, <4>2
    <3> QED
      BY <3>1, <3>2
  <2>2. q2 # q1 /\ Expects(proc[q1], q2)
    BY <2>1 DEF Kids
  <2>3. proc[q1].pc # "exited"
    BY <2>2, Waiting
  <2>4. proc'[q1] = proc[q1] \/ proc'[q1] = [proc[q1] EXCEPT !.parent = orphan]
    BY <2>1, <2>3 DEF Exit
  <2> QED
    BY <1>2, <2>2, <2>4, Orphaned
<1> QED
  BY <1>6, <1>8 DEF Kids

-----------------------------------------------------------------------------
(* One lemma for each action *)

LEMMA Now ==
  ASSUME Processes, NEW p \in Pids
  PROVE  /\ proc[p] \in Sound(variant) /\ proc[p] \in Procs
         /\ Descriptors(proc[p]) /\ Lengths(proc[p])
         /\ variant = "simple" => proc[p].pipefd = <<0, 0>>
  BY DEF Processes, Sound

\* The lines a program has still to write are nobody else's business.
LEMMA LeftOnly ==
  ASSUME Processes, Kids, variant' = variant, NEW p \in Pids,
         NEW n \in 0 .. (ECHO + 1), proc' = [proc EXCEPT ![p].left = n]
  PROVE  Processes' /\ Kids'
<1> DEFINE r == [proc[p] EXCEPT !.left = n]
<1>1. proc' = [proc EXCEPT ![p] = r]
  OBVIOUS
<1>2. proc[p] \in Procs /\ proc[p] \in Sound(variant)
  BY Now
<1>3. r \in Procs
  BY <1>2 DEF Procs
<1>4. /\ r.pc = proc[p].pc /\ r.resume = proc[p].resume /\ r.parent = proc[p].parent
      /\ r.fds = proc[p].fds /\ r.kept = proc[p].kept /\ r.pipefd = proc[p].pipefd
      /\ r.command = proc[p].command /\ r.cpid_array = proc[p].cpid_array
  BY <1>2 DEF Procs
<1> HIDE DEF r
<1>5. At(r) = At(proc[p])
  BY <1>4 DEF At
<1>6. r \in Sound(variant) /\ \A q : Expects(proc[p], q) => Expects(r, q)
  BY <1>2, <1>3, <1>4, <1>5, SameShell
<1> QED
  BY <1>1, <1>4, <1>6, GoesOn

LEMMA KeepProgram ==
  ASSUME Processes, Kids, variant' = variant, NEW p \in Pids, Program(p)
  PROVE  Processes' /\ Kids'
<1>1. CASE Exit(p)
  BY <1>1, Exits
<1>2. CASE Writes(p) /\ proc' = [proc EXCEPT ![p].left = @ - 1]
  <2>1. proc[p].left \in 0 .. (ECHO + 1) /\ proc[p].left > 0
    BY <1>2, Now DEF Procs, Writes
  <2>2. PICK n : n = proc[p].left - 1
    OBVIOUS
  <2>3. n \in 0 .. (ECHO + 1)
    BY <2>1, <2>2, ShSizes
  <2>4. proc' = [proc EXCEPT ![p].left = n]
    BY <1>2, <2>2
  <2> QED
    BY <2>3, <2>4, LeftOnly
<1>3. CASE proc' = [proc EXCEPT ![p].left = 1]
  <2>1. 1 \in 0 .. (ECHO + 1)
    BY ShSizes
  <2> QED
    BY <1>3, <2>1, LeftOnly
<1> QED
  BY <1>1, <1>2, <1>3 DEF Program, Writes, Reads, Finishes

\* A signal, and the answer to the question, leave the shell where it was.
LEMMA KeepInterrupted ==
  ASSUME Processes, Kids, variant' = variant, NEW p \in Shells, Interrupted(p)
  PROVE  Processes' /\ Kids'
<1> DEFINE r == [proc[p] EXCEPT !.pc = "ask", !.resume = proc[p].pc]
<1>0. p \in Pids /\ proc[p] \in Procs /\ proc[p] \in Sound(variant)
  BY Now DEF Shells
<1>1. proc' = [proc EXCEPT ![p] = r]
  BY <1>0 DEF Interrupted, Processes
<1>2. r \in Procs
  <2>1. proc[p].pc \in ShellLabels
    BY <1>0 DEF Shells, Interrupted, Procs
  <2> QED
    BY <1>0, <2>1 DEF Procs
<1>3. /\ r.pc = "ask" /\ r.resume = proc[p].pc /\ r.parent = proc[p].parent
      /\ r.fds = proc[p].fds /\ r.kept = proc[p].kept /\ r.pipefd = proc[p].pipefd
      /\ r.command = proc[p].command /\ r.cpid_array = proc[p].cpid_array
  BY <1>0 DEF Procs
<1> HIDE DEF r
<1>4. At(r) = At(proc[p])
  BY <1>3 DEF At, Interrupted
<1>5. r \in Sound(variant) /\ \A q : Expects(proc[p], q) => Expects(r, q)
  BY <1>0, <1>2, <1>3, <1>4, SameShell
<1> QED
  BY <1>0, <1>1, <1>3, <1>5, GoesOn

LEMMA KeepAnswer ==
  ASSUME Processes, Kids, variant' = variant, NEW p \in Pids, Answer(p)
  PROVE  Processes' /\ Kids'
<1>1. CASE Exit(p)
  BY <1>1, Exits
<1>2. CASE proc' = [proc EXCEPT ![p].pc = proc[p].resume, ![p].resume = "free"]
  <2> DEFINE r == [proc[p] EXCEPT !.pc = proc[p].resume, !.resume = "free"]
  <2>0. proc[p] \in Procs /\ proc[p] \in Sound(variant)
    BY Now
  <2>1. proc' = [proc EXCEPT ![p] = r]
    BY <1>2 DEF Processes
  <2>2. r \in Procs
    BY <2>0 DEF Procs
  <2>3. /\ r.pc = proc[p].resume /\ r.resume = "free" /\ r.parent = proc[p].parent
        /\ r.fds = proc[p].fds /\ r.kept = proc[p].kept /\ r.pipefd = proc[p].pipefd
        /\ r.command = proc[p].command /\ r.cpid_array = proc[p].cpid_array
    BY <2>0 DEF Procs
  <2> HIDE DEF r
  <2>4. At(r) = At(proc[p])
    <3>1. proc[p].resume # "ask"
      BY <2>0 DEF Procs, ShellLabels
    <3> QED
      BY <2>3, <3>1 DEF At, Answer
  <2>5. r \in Sound(variant) /\ \A q : Expects(proc[p], q) => Expects(r, q)
    BY <2>0, <2>2, <2>3, <2>4, SameShell
  <2> QED
    BY <2>1, <2>3, <2>5, GoesOn
<1> QED
  BY <1>1, <1>2 DEF Answer

\* What waits for no child.
LEMMA NoneAwaited ==
  ASSUME NEW r, At(r) \notin {"fork1", "fork2", "close", "wait0", "wait1", "wait2"}
  PROVE  \A q : ~Expects(r, q)
  BY DEF Expects, Awaits

\* The two new pipes are nobody's, so p has not lost track of their ends before.
LEMMA KeepOpenPipes ==
  ASSUME Processes, Kids, variant' = variant, variant # "simple", NEW p \in Pids, OpenPipes(p)
  PROVE  Processes' /\ Kids'
<1>1. CASE Exit(p)
  BY <1>1, Exits
<1>2. CASE ~Exit(p)
  <2>1. PICK k, l : k = Least(FreePipes) /\ l = Least(FreePipes \ {k})
    OBVIOUS
  <2>2. /\ ~(Cardinality(FreePipes) < 2) /\ ~(Cardinality(proc[p].fds) + 4 > FD_MAX)
        /\ proc[p].pc = "pipe"
        /\ proc' = [proc EXCEPT ![p].pc = "read", ![p].pipefd = <<k, l>>,
                                ![p].fds = @ \cup Ends(k) \cup Ends(l),
                                ![p].cpid_array = <<0, 0, 0>>]
    BY <1>2, <2>1 DEF OpenPipes
  <2>3. k \in FreePipes /\ l \in FreePipes
    BY <2>1, <2>2, TwoPipes
  <2> DEFINE new == proc[p].fds \cup Ends(k) \cup Ends(l)
             r == [proc[p] EXCEPT !.pc = "read", !.pipefd = <<k, l>>, !.fds = new,
                                  !.cpid_array = <<0, 0, 0>>]
  <2>4. /\ proc[p] \in Procs /\ proc[p] \in Sound(variant) /\ Descriptors(proc[p])
        /\ At(proc[p]) = "pipe"
    BY <2>2, Now DEF At
  <2>5. proc[p].fds \subseteq PipeEnds /\ proc[p].fds = proc[p].kept
    BY <2>4 DEF Procs, Descriptors
  <2>6. Ends(k) \cap proc[p].fds = {} /\ Ends(l) \cap proc[p].fds = {}
    <3>1. Alive(p)
      BY <2>2 DEF Alive
    <3>2. ASSUME NEW j \in FreePipes
          PROVE  Ends(j) \cap proc[p].fds = {}
      BY <3>1 DEF FreePipes, HasReader, HasWriter, Ends
    <3> QED
      BY <2>3, <3>2
  <2>7. k \in Pipes /\ l \in Pipes /\ new \subseteq PipeEnds
    BY <2>3, <2>5 DEF FreePipes, Ends, PipeEnds
  <2>8. Cardinality(new) <= FD_MAX
    <3>1. ~(Cardinality(proc[p].fds) + 4 > FD_MAX) => Cardinality(proc[p].fds) + 4 <= FD_MAX
      <4>1. IsFiniteSet(proc[p].fds)
        BY <2>5, PipeEndsFinite, FS_Subset
      <4>2. Cardinality(proc[p].fds) \in Nat
        BY <4>1, FS_CardinalityType
      <4> QED
        BY <4>2, ShSizes
    <3> QED
      BY <2>2, <2>5, <3>1, FourMore
  <2> HIDE DEF new
  <2>9. proc' = [proc EXCEPT ![p] = r]
    BY <2>2 DEF new, Processes
  <2>10. r \in Procs
    <3>1. <<0, 0, 0>> \in [1 .. 3 -> 0 .. NPROC]
      BY ShSizes
    <3>2. <<k, l>> \in (0 .. NPIPE) \X (0 .. NPIPE)
      BY <2>7, ShSizes DEF Pipes
    <3> QED
      BY <2>4, <2>7, <3>1, <3>2 DEF Procs, ShellLabels
  <2>11. /\ r.pc = "read" /\ r.parent = proc[p].parent /\ r.pipefd = <<k, l>>
         /\ r.fds = new /\ r.kept = proc[p].kept
    BY <2>4 DEF Procs
  <2> HIDE DEF r
  <2>12. At(r) = "read" /\ Both(r) = Ends(k) \cup Ends(l)
    BY <2>11 DEF At, Both
  <2>13. Descriptors(r) /\ Lengths(r)
    <3>1. r.fds = Both(r) \cup r.kept /\ r.kept \cap Both(r) = {} /\ r.kept \subseteq r.fds
      BY <2>5, <2>6, <2>11, <2>12 DEF new
    <3> QED
      BY <2>8, <2>11, <2>12, <3>1 DEF Descriptors, Lengths
  <2>14. r \in Sound(variant)
    BY <2>10, <2>13 DEF Sound
  <2>15. \A q : ~Expects(proc[p], q)
    BY <2>4, NoneAwaited
  <2> QED
    BY <2>9, <2>11, <2>14, <2>15, GoesOn
<1> QED
  BY <1>1, <1>2

\* A process of a shell goes on, as long as it waits for nobody, with what follows.
LEMMA NoChildren ==
  ASSUME Processes, Kids, variant' = variant, NEW p \in Pids,
         At(proc[p]) \notin {"fork1", "fork2", "close", "wait0", "wait1", "wait2"},
         NEW r \in Procs, r.parent = proc[p].parent, Descriptors(r), Lengths(r),
         variant = "simple" => r.pipefd = <<0, 0>>,
         proc' = [proc EXCEPT ![p] = r]
  PROVE  Processes' /\ Kids'
<1>1. r \in Sound(variant)
  BY DEF Sound
<1>2. \A q : ~Expects(proc[p], q)
  BY NoneAwaited
<1> QED
  BY <1>1, <1>2, GoesOn

LEMMA KeepParse ==
  ASSUME Processes, Kids, variant' = variant, NEW p \in Pids, proc[p].pc = "read",
         NEW line, line # <<>>, line = <<"exit">> \/ line \in Seq(Words), Parse(p, line)
  PROVE  Processes' /\ Kids'
<1>1. /\ proc[p] \in Procs /\ Descriptors(proc[p]) /\ At(proc[p]) = "read"
      /\ variant = "simple" => proc[p].pipefd = <<0, 0>>
  BY Now DEF At
<1>2. /\ proc[p].fds = Both(proc[p]) \cup proc[p].kept
      /\ proc[p].kept \cap Both(proc[p]) = {} /\ Cardinality(proc[p].fds) <= FD_MAX
  BY <1>1 DEF Descriptors
<1>3. CASE Exit(p)
  BY <1>3, Exits
<1>4. CASE proc' = [proc EXCEPT ![p].pc = "ask", ![p].resume = "fork0", ![p].command = <<"exit">>]
  <2> DEFINE r == [proc[p] EXCEPT !.pc = "ask", !.resume = "fork0", !.command = <<"exit">>]
  <2>1. proc' = [proc EXCEPT ![p] = r]
    BY <1>4 DEF Processes
  <2>2. <<"exit">> \in Seq(Words) /\ Len(<<"exit">>) = 1
    BY DEF Words
  <2>3. r \in Procs
    BY <1>1, <2>2 DEF Procs, ShellLabels
  <2>4. /\ r.pc = "ask" /\ r.resume = "fork0" /\ r.parent = proc[p].parent
        /\ r.fds = proc[p].fds /\ r.kept = proc[p].kept /\ r.pipefd = proc[p].pipefd
        /\ r.command = <<"exit">>
    BY <1>1 DEF Procs
  <2> HIDE DEF r
  <2>5. At(r) = "fork0" /\ Both(r) = Both(proc[p])
    BY <2>4 DEF At, Both
  <2>6. Descriptors(r) /\ Lengths(r)
    BY <1>2, <2>2, <2>4, <2>5 DEF Descriptors, Lengths
  <2> QED
    BY <1>1, <2>1, <2>3, <2>4, <2>6, NoChildren
<1>5. CASE /\ line # <<"exit">> /\ Len(line) > 3
           /\ proc' = [proc EXCEPT ![p].pc = "pipe", ![p].command = line,
                                   ![p].kept = @ \cup BothPipes(p)]
  <2> DEFINE r == [proc[p] EXCEPT !.pc = "pipe", !.command = line, !.kept = proc[p].fds]
  <2>1. proc' = [proc EXCEPT ![p] = r]
    <3>1. proc[p].kept \cup BothPipes(p) = proc[p].fds
      BY <1>2 DEF BothPipes, Both, pipe1, pipe2
    <3> QED
      BY <1>5, <3>1 DEF Processes
  <2>2. r \in Procs
    BY <1>1, <1>5 DEF Procs, ShellLabels
  <2>3. /\ r.pc = "pipe" /\ r.parent = proc[p].parent
        /\ r.fds = proc[p].fds /\ r.kept = proc[p].fds /\ r.pipefd = proc[p].pipefd
    BY <1>1 DEF Procs
  <2> HIDE DEF r
  <2>4. At(r) = "pipe"
    BY <2>3 DEF At
  <2>5. Descriptors(r) /\ Lengths(r)
    BY <1>2, <2>3, <2>4 DEF Descriptors, Lengths
  <2> QED
    BY <1>1, <2>1, <2>2, <2>3, <2>5, NoChildren
<1>6. ASSUME NEW command \in Seq(Words), command # <<>>,
             proc' = [proc EXCEPT ![p].pc = "fork0", ![p].command = command]
      PROVE  Processes' /\ Kids'
  <2> DEFINE r == [proc[p] EXCEPT !.pc = "fork0", !.command = command]
  <2>1. proc' = [proc EXCEPT ![p] = r]
    BY <1>6 DEF Processes
  <2>2. r \in Procs
    BY <1>1, <1>6 DEF Procs, ShellLabels
  <2>3. /\ r.pc = "fork0" /\ r.parent = proc[p].parent /\ r.command = command
        /\ r.fds = proc[p].fds /\ r.kept = proc[p].kept /\ r.pipefd = proc[p].pipefd
    BY <1>1 DEF Procs
  <2> HIDE DEF r
  <2>4. At(r) = "fork0" /\ Both(r) = Both(proc[p])
    BY <2>3 DEF At, Both
  <2>5. Len(command) > 0
    BY <1>6
  <2>6. Descriptors(r) /\ Lengths(r)
    BY <1>1, <1>2, <2>3, <2>4, <2>5 DEF Descriptors, Lengths
  <2> QED
    BY <1>1, <2>1, <2>2, <2>3, <2>6, NoChildren
<1>7. line # <<"exit">> => line \in Seq(Words) /\ <<line[1]>> \in Seq(Words) /\ <<line[1]>> # <<>>
  OBVIOUS
<1> QED
  BY <1>3, <1>4, <1>5, <1>6, <1>7 DEF Parse

LEMMA KeepRead ==
  ASSUME Processes, Kids, variant \in Variants, variant' = variant, NEW p \in Pids,
         ReadTerminal(p) \/ ReadPipe(p) \/ ReadNothing(p)
  PROVE  Processes' /\ Kids'
<1>1. proc[p].pc = "read"
  BY DEF ReadTerminal, ReadPipe, ReadNothing
<1>2. CASE ReadTerminal(p) \/ ReadPipe(p)
  <2>1. PICK line \in LinesOf(variant) : Parse(p, line)
    BY <1>2 DEF ReadTerminal, ReadPipe
  <2>2. line # <<>> /\ (line = <<"exit">> \/ line \in Seq(Programs))
    BY ShellAssumption
  <2>3. line \in Seq(Programs) => line \in Seq(Words)
    BY DEF Words
  <2> QED
    BY <1>1, <2>1, <2>2, <2>3, KeepParse
<1>3. CASE ReadNothing(p)
  <2>1. PICK x \in Words : Parse(p, <<x>>)
    <3>1. CASE proc[p].command = <<>>
      BY <1>3, <3>1 DEF ReadNothing, Words, Programs
    <3>2. CASE proc[p].command # <<>>
      <4>1. proc[p].command \in Seq(Words)
        BY Now DEF Procs
      <4>2. proc[p].command[1] \in Words
        BY <3>2, <4>1
      <4> QED
        BY <1>3, <3>2, <4>2 DEF ReadNothing
    <3> QED
      BY <3>1, <3>2
  <2>2. <<x>> # <<>> /\ <<x>> \in Seq(Words)
    OBVIOUS
  <2> QED
    BY <1>1, <2>1, <2>2, KeepParse
<1> QED
  BY <1>2, <1>3

\* Which fork this is: the i-th child starts at pc, and its parent goes on at next.
ForkOf(r, i, pc, next) ==
  \/ /\ i = 1 /\ r.pc = "fork0" /\ pc = "child0"
     /\ IF Len(r.command) > 1 THEN next = "fork1"
        ELSE next \in {"close", "wait0"} /\ (next = "wait0" => variant = "simple")
  \/ /\ i = 2 /\ r.pc = "fork1" /\ pc = "child1"
     /\ next = IF Len(r.command) > 2 THEN "fork2" ELSE "close"
  \/ /\ i = 3 /\ r.pc = "fork2" /\ pc = "child2" /\ next = "close"

LEMMA KeepForked ==
  ASSUME Processes, Kids, variant' = variant, NEW p \in Pids, NEW c \in FreePids,
         NEW i, NEW pc, NEW next, ForkOf(proc[p], i, pc, next), Forked(p, i, c, pc, next)
  PROVE  Processes' /\ Kids'
<1> DEFINE r == [proc[p] EXCEPT !.pc = next, !.cpid_array[i] = c]
           s == [proc[p] EXCEPT !.pc = pc, !.parent = p]
<1>1. /\ proc[p] \in Procs /\ Descriptors(proc[p]) /\ Lengths(proc[p])
      /\ variant = "simple" => proc[p].pipefd = <<0, 0>>
  BY Now
<1>2. c \in Pids /\ proc[c].pc = "free" /\ proc[p].pc # "free"
  BY DEF FreePids, ForkOf
<1>3. i \in 1 .. 3 /\ pc \in ShellLabels /\ next \in ShellLabels
  BY DEF ForkOf, ShellLabels
<1>4. proc' = [proc EXCEPT ![p] = r, ![c] = s]
  BY <1>2 DEF Forked, Processes
<1>5. r \in Procs
  <2>1. c \in 0 .. NPROC
    BY <1>2, ShSizes DEF Pids
  <2>2. proc[p].cpid_array \in [1 .. 3 -> 0 .. NPROC]
    BY <1>1 DEF Procs
  <2>3. [proc[p].cpid_array EXCEPT ![i] = c] \in [1 .. 3 -> 0 .. NPROC]
    BY <1>3, <2>1, <2>2
  <2> QED
    BY <1>1, <1>3, <2>3 DEF Procs
<1>6. s \in Procs
  <2>1. p \in 0 .. NPROC + 1
    BY ShSizes DEF Pids
  <2> QED
    BY <1>1, <1>3, <2>1 DEF Procs
<1>7. /\ r.pc = next /\ r.parent = proc[p].parent /\ r.command = proc[p].command
      /\ r.fds = proc[p].fds /\ r.kept = proc[p].kept /\ r.pipefd = proc[p].pipefd
  BY <1>1 DEF Procs
<1>8. r.cpid_array[i] = c /\ \A j \in 1 .. 3 : j # i => r.cpid_array[j] = proc[p].cpid_array[j]
  BY <1>1, <1>3 DEF Procs
<1>9. /\ s.pc = pc /\ s.parent = p /\ s.command = proc[p].command
      /\ s.fds = proc[p].fds /\ s.kept = proc[p].kept /\ s.pipefd = proc[p].pipefd
  BY <1>1 DEF Procs
<1> HIDE DEF r, s
<1>10. /\ At(proc[p]) = proc[p].pc /\ At(r) = next /\ At(s) = pc
       /\ Both(r) = Both(proc[p]) /\ Both(s) = Both(proc[p])
  BY <1>3, <1>7, <1>9 DEF At, Both, ForkOf, ShellLabels
<1>11. /\ proc[p].kept \subseteq proc[p].fds /\ Cardinality(proc[p].fds) <= FD_MAX
       /\ proc[p].fds = Both(proc[p]) \cup proc[p].kept /\ proc[p].kept \cap Both(proc[p]) = {}
  BY <1>1, <1>10 DEF Descriptors, ForkOf
<1>12. r \in Sound(variant)
  <2>1. next = "wait0" => Both(proc[p]) = {}
    BY <1>1, ShSizes DEF ForkOf, Both, Ends, Pipes
  <2>2. Descriptors(r)
    BY <1>7, <1>10, <1>11, <2>1 DEF Descriptors, ForkOf
  <2>3. Lengths(r)
    BY <1>7, <1>10 DEF Lengths, ForkOf
  <2> QED
    BY <1>1, <1>5, <1>7, <2>2, <2>3 DEF Sound
<1>13. s \in Sound(variant)
  <2>1. Descriptors(s)
    BY <1>9, <1>10, <1>11 DEF Descriptors, ForkOf
  <2>2. Lengths(s)
    BY <1>1, <1>9, <1>10 DEF Lengths, ForkOf
  <2> QED
    BY <1>1, <1>6, <1>9, <2>1, <2>2 DEF Sound
<1>14. Len(proc[p].command) \in Nat
  BY <1>1 DEF Procs
<1>15. Awaits(r, i)
  BY <1>1, <1>7, <1>10, <1>14 DEF Awaits, ForkOf, Lengths
<1>16. ASSUME NEW j \in 1 .. 3, Awaits(proc[p], j)
       PROVE  j # i /\ Awaits(r, j)
  BY <1>1, <1>7, <1>10, <1>14, <1>16 DEF Awaits, ForkOf, Lengths
<1>17. Expects(r, c) /\ \A q \in Pids : Expects(proc[p], q) => Expects(r, q)
  BY <1>3, <1>8, <1>15, <1>16 DEF Expects
<1> QED
  BY <1>2, <1>4, <1>7, <1>9, <1>12, <1>13, <1>17, Forks

\* Without a free number the first fork leads back to the beginning, the others out.
LEMMA KeepFork ==
  ASSUME Processes, Kids, variant' = variant, NEW p \in Pids, Fork0(p) \/ Fork1(p) \/ Fork2(p)
  PROVE  Processes' /\ Kids'
<1>1. CASE Exit(p)
  BY <1>1, Exits
<1>2. CASE FreePids # {} /\ ~Exit(p)
  <2>1. PICK c : c = Least(FreePids)
    OBVIOUS
  <2>2. c \in FreePids
    BY <1>2, <2>1, FreeNumber
  <2>3. PICK i, pc, next : ForkOf(proc[p], i, pc, next) /\ Forked(p, i, c, pc, next)
    <3>1. CASE Fork0(p)
      BY <1>2, <2>1, <3>1 DEF Fork0, ForkOf, command_counter
    <3>2. CASE Fork1(p)
      BY <1>2, <2>1, <3>2 DEF Fork1, ForkOf, command_counter
    <3>3. CASE Fork2(p)
      BY <1>2, <2>1, <3>3 DEF Fork2, ForkOf, command_counter
    <3> QED
      BY <3>1, <3>2, <3>3
  <2> QED
    BY <2>2, <2>3, KeepForked
<1>3. CASE FreePids = {} /\ ~Exit(p)
  <2> DEFINE r == [proc[p] EXCEPT !.pc = Again, !.kept = proc[p].fds]
  <2>1. /\ proc[p].pc = "fork0"
        /\ proc' = [proc EXCEPT ![p].pc = Again, ![p].kept = proc[p].fds]
    BY <1>3 DEF Fork0, Fork1, Fork2
  <2>2. /\ proc[p] \in Procs /\ Descriptors(proc[p]) /\ At(proc[p]) = "fork0"
        /\ variant = "simple" => proc[p].pipefd = <<0, 0>>
    BY <2>1, Now DEF At
  <2>3. proc' = [proc EXCEPT ![p] = r]
    BY <2>1 DEF Processes
  <2>4. r \in Procs
    BY <2>2 DEF Procs, Again, ShellLabels
  <2>5. /\ r.pc = Again /\ r.parent = proc[p].parent
        /\ r.fds = proc[p].fds /\ r.kept = proc[p].fds /\ r.pipefd = proc[p].pipefd
    BY <2>2 DEF Procs
  <2> HIDE DEF r
  <2>6. At(r) = Again /\ Again \in {"read", "pipe"} /\ (Again = "read" => variant = "simple")
    BY <2>5 DEF At, Again
  <2>7. Descriptors(r)
    <3>1. variant = "simple" => Both(r) = {}
      BY <2>2, <2>5, ShSizes DEF Both, Ends, Pipes
    <3>2. Cardinality(r.fds) <= FD_MAX
      BY <2>2, <2>5 DEF Descriptors
    <3> QED
      BY <2>5, <2>6, <3>1, <3>2 DEF Descriptors
  <2>8. Lengths(r)
    BY <2>6 DEF Lengths
  <2> QED
    BY <2>2, <2>3, <2>4, <2>5, <2>7, <2>8, NoChildren
<1> QED
  BY <1>1, <1>2, <1>3

\* What a child has before it redirects itself.
LEMMA ChildNow ==
  ASSUME Processes, NEW p \in Pids, proc[p].pc \in {"child0", "child1", "child2"}
  PROVE  /\ proc[p] \in Procs /\ At(proc[p]) = proc[p].pc
         /\ proc[p].fds \subseteq PipeEnds /\ Cardinality(proc[p].fds) <= FD_MAX
         /\ BothPipes(p) = Both(proc[p])
         /\ proc[p].fds = Both(proc[p]) \cup proc[p].kept
         /\ proc[p].kept \cap Both(proc[p]) = {}
         /\ pipe1(p) \in 0 .. NPIPE /\ pipe2(p) \in 0 .. NPIPE
         /\ variant = "simple" => proc[p].pipefd = <<0, 0>>
<1>1. proc[p] \in Procs /\ Descriptors(proc[p]) /\ At(proc[p]) = proc[p].pc
  BY Now DEF At
<1>2. proc[p].fds \subseteq PipeEnds /\ pipe1(p) \in 0 .. NPIPE /\ pipe2(p) \in 0 .. NPIPE
  BY <1>1 DEF Procs, pipe1, pipe2
<1>3. /\ Cardinality(proc[p].fds) <= FD_MAX
      /\ proc[p].fds = Both(proc[p]) \cup proc[p].kept
      /\ proc[p].kept \cap Both(proc[p]) = {}
  BY <1>1 DEF Descriptors
<1>4. BothPipes(p) = Both(proc[p])
  BY DEF BothPipes, Both, pipe1, pipe2
<1> QED
  BY <1>1, <1>2, <1>3, <1>4, Now

\* A child that redirects itself waits for nobody, and has the command it is to execute.
LEMMA KeepRedirect ==
  ASSUME Processes, Kids, variant' = variant, NEW p \in Pids,
         NEW r \in Procs,
         \/ proc[p].pc = "child0" /\ r.pc = "exec0"
         \/ proc[p].pc = "child1" /\ r.pc = "exec1"
         \/ proc[p].pc = "child2" /\ r.pc = "exec2",
         r.parent = proc[p].parent, r.command = proc[p].command,
         r.kept = proc[p].kept, r.pipefd = proc[p].pipefd,
         r.fds \subseteq proc[p].fds, proc[p].fds \ Both(proc[p]) \subseteq r.fds,
         proc' = [proc EXCEPT ![p] = r]
  PROVE  Processes' /\ Kids'
<1>1. /\ proc[p] \in Procs /\ At(proc[p]) = proc[p].pc /\ Lengths(proc[p])
      /\ proc[p].fds \subseteq PipeEnds /\ Cardinality(proc[p].fds) <= FD_MAX
      /\ proc[p].fds = Both(proc[p]) \cup proc[p].kept
      /\ proc[p].kept \cap Both(proc[p]) = {}
      /\ variant = "simple" => proc[p].pipefd = <<0, 0>>
  BY ChildNow, Now
<1>2. Cardinality(r.fds) <= FD_MAX
  BY <1>1, FewerFds
<1>3. /\ At(r) = r.pc /\ Both(r) = Both(proc[p]) /\ r.pc \in {"exec0", "exec1", "exec2"}
  BY DEF At, Both
<1>4. r.kept \subseteq r.fds /\ r.fds \ Both(r) = r.kept
  BY <1>1, <1>3
<1>5. Descriptors(r)
  BY <1>2, <1>3, <1>4 DEF Descriptors
<1>6. Lengths(r)
  BY <1>1, <1>3 DEF Lengths
<1>7. At(proc[p]) \notin {"fork1", "fork2", "close", "wait0", "wait1", "wait2"}
  BY <1>1
<1> QED
  BY <1>1, <1>5, <1>6, <1>7, NoChildren

LEMMA KeepChildren ==
  ASSUME Processes, Kids, variant' = variant, NEW p \in Pids,
         Child0(p) \/ Child1(p) \/ Child2(p)
  PROVE  Processes' /\ Kids'
<1>0. proc[p].pc \in {"child0", "child1", "child2"}
  BY DEF Child0, Child1, Child2
<1>1. /\ proc[p] \in Procs /\ BothPipes(p) = Both(proc[p])
      /\ pipe1(p) \in 0 .. NPIPE /\ pipe2(p) \in 0 .. NPIPE
      /\ Ends(pipe1(p)) \subseteq Both(proc[p])
  BY <1>0, ChildNow DEF Both, pipe1
<1>2. CASE Child0(p)
  <2> DEFINE r == IF command_counter(p) > 1
                THEN [proc[p] EXCEPT !.pc = "exec0", !.fds = @ \ Ends(pipe1(p)),
                                     !.stdout = pipe1(p)]
                ELSE [proc[p] EXCEPT !.pc = "exec0"]
  <2>1. proc[p].pc = "child0" /\ proc' = [proc EXCEPT ![p] = r]
    BY <1>2 DEF Child0, Processes
  <2>2. r \in Procs
    BY <1>1 DEF Procs, ShellLabels
  <2>3. /\ r.pc = "exec0" /\ r.parent = proc[p].parent /\ r.command = proc[p].command
        /\ r.kept = proc[p].kept /\ r.pipefd = proc[p].pipefd
    BY <1>1 DEF Procs
  <2>4. r.fds \subseteq proc[p].fds /\ proc[p].fds \ Both(proc[p]) \subseteq r.fds
    BY <1>1 DEF Procs
  <2> HIDE DEF r
  <2> QED
    BY <2>1, <2>2, <2>3, <2>4, KeepRedirect
<1>3. CASE Child1(p)
  <2> DEFINE r == IF command_counter(p) > 2
                THEN [proc[p] EXCEPT !.pc = "exec1", !.fds = @ \ BothPipes(p),
                                     !.stdin = pipe1(p), !.stdout = pipe2(p)]
                ELSE [proc[p] EXCEPT !.pc = "exec1", !.fds = @ \ Ends(pipe1(p)),
                                     !.stdin = pipe1(p)]
  <2>1. proc[p].pc = "child1" /\ proc' = [proc EXCEPT ![p] = r]
    BY <1>3 DEF Child1, Processes
  <2>2. r \in Procs
    BY <1>1 DEF Procs, ShellLabels
  <2>3. /\ r.pc = "exec1" /\ r.parent = proc[p].parent /\ r.command = proc[p].command
        /\ r.kept = proc[p].kept /\ r.pipefd = proc[p].pipefd
    BY <1>1 DEF Procs
  <2>4. r.fds \subseteq proc[p].fds /\ proc[p].fds \ Both(proc[p]) \subseteq r.fds
    BY <1>1 DEF Procs
  <2> HIDE DEF r
  <2> QED
    BY <2>1, <2>2, <2>3, <2>4, KeepRedirect
<1>4. CASE Child2(p)
  <2> DEFINE r == [proc[p] EXCEPT !.pc = "exec2", !.fds = @ \ BothPipes(p), !.stdin = pipe2(p)]
  <2>1. proc[p].pc = "child2" /\ proc' = [proc EXCEPT ![p] = r]
    BY <1>4 DEF Child2, Processes
  <2>2. r \in Procs
    BY <1>1 DEF Procs, ShellLabels
  <2>3. /\ r.pc = "exec2" /\ r.parent = proc[p].parent /\ r.command = proc[p].command
        /\ r.kept = proc[p].kept /\ r.pipefd = proc[p].pipefd
    BY <1>1 DEF Procs
  <2>4. r.fds \subseteq proc[p].fds /\ proc[p].fds \ Both(proc[p]) \subseteq r.fds
    BY <1>1 DEF Procs
  <2> HIDE DEF r
  <2> QED
    BY <2>1, <2>2, <2>3, <2>4, KeepRedirect
<1> QED
  BY <1>2, <1>3, <1>4

\* A child waits for nobody: it becomes the program, which has no record of the pipes,
\* or goes on as a shell.
LEMMA KeepExecv ==
  ASSUME Processes, Kids, variant' = variant, NEW p \in Pids,
         At(proc[p]) \in {"exec0", "exec1", "exec2"},
         NEW i \in 1 .. 3, i <= Len(proc[p].command),
         NEW o \in Procs, o.parent = proc[p].parent, Descriptors(o), Lengths(o),
         variant = "simple" => o.pipefd = <<0, 0>>,
         Execv(p, i, o)
  PROVE  Processes' /\ Kids'
<1>0. proc[p] \in Procs /\ Cardinality(proc[p].fds) <= FD_MAX
  BY Now DEF Descriptors
<1>1. CASE proc[p].command[i] \in {"bad", "exit"}
  <2>1. proc' = [proc EXCEPT ![p] = o]
    BY <1>1 DEF Execv
  <2> QED
    BY <2>1, NoChildren
<1>2. CASE proc[p].command[i] \notin {"bad", "exit"}
  <2>1. PICK name, lines : /\ name = proc[p].command[i]
                           /\ lines = IF proc[p].command[i] = "echo" THEN ECHO ELSE 0
    OBVIOUS
  <2> DEFINE program == [proc[p] EXCEPT !.pc = "run", !.command = <<name>>, !.left = lines,
                                  !.pipefd = <<0, 0>>, !.cpid_array = <<0, 0, 0>>, !.kept = {}]
  <2>2. proc' = [proc EXCEPT ![p] = program]
    BY <1>2, <2>1 DEF Execv
  <2>3. program \in Procs
    <3>1. <<0, 0, 0>> \in [1 .. 3 -> 0 .. NPROC]
      BY ShSizes
    <3>2. <<0, 0>> \in (0 .. NPIPE) \X (0 .. NPIPE)
      BY ShSizes
    <3>3. proc[p].command \in Seq(Words)
      BY <1>0 DEF Procs
    <3>4. name \in Words
      BY <2>1, <3>3
    <3>5. <<name>> \in Seq(Words)
      BY <3>4
    <3>6. lines \in 0 .. (ECHO + 1)
      BY <2>1, ShSizes
    <3> QED
      BY <1>0, <3>1, <3>2, <3>5, <3>6 DEF Procs
  <2>4. /\ program.pc = "run" /\ program.parent = proc[p].parent
        /\ program.fds = proc[p].fds /\ program.kept = {} /\ program.pipefd = <<0, 0>>
    BY <1>0 DEF Procs
  <2> HIDE DEF program
  <2>5. At(program) = "run"
    BY <2>4 DEF At
  <2>6. Descriptors(program) /\ Lengths(program)
    BY <1>0, <2>4, <2>5 DEF Descriptors, Lengths
  <2> QED
    BY <2>2, <2>3, <2>4, <2>6, NoChildren
<1> QED
  BY <1>1, <1>2

LEMMA KeepExec0 ==
  ASSUME Processes, Kids, variant' = variant, NEW p \in Pids, Exec0(p)
  PROVE  Processes' /\ Kids'
<1> DEFINE o == [proc[p] EXCEPT !.pc = Again, !.kept = proc[p].fds]
<1>1. proc[p].pc = "exec0" /\ Execv(p, 1, o)
  BY DEF Exec0
<1>2. /\ proc[p] \in Procs /\ At(proc[p]) = "exec0" /\ Lengths(proc[p])
      /\ Cardinality(proc[p].fds) <= FD_MAX
      /\ variant = "simple" => proc[p].pipefd = <<0, 0>>
  BY <1>1, Now DEF At, Descriptors
<1>3. o \in Procs
  BY <1>2 DEF Procs, Again, ShellLabels
<1>4. /\ o.pc = Again /\ o.parent = proc[p].parent /\ o.pipefd = proc[p].pipefd
      /\ o.fds = proc[p].fds /\ o.kept = proc[p].fds
  BY <1>2 DEF Procs
<1> HIDE DEF o
<1>5. At(o) = Again /\ Again \in {"read", "pipe"} /\ (Again = "read" => variant = "simple")
  BY <1>4 DEF At, Again
<1>6. Descriptors(o) /\ Lengths(o)
  <2>1. variant = "simple" => Both(o) = {}
    BY <1>2, <1>4, ShSizes DEF Both, Ends, Pipes
  <2> QED
    BY <1>2, <1>4, <1>5, <2>1 DEF Descriptors, Lengths
<1>7. 1 \in 1 .. 3 /\ 1 <= Len(proc[p].command)
  BY <1>2 DEF Lengths, Procs
<1> QED
  BY <1>1, <1>2, <1>3, <1>4, <1>6, <1>7, KeepExecv

\* The other two go on with the calls of close.
LEMMA KeepExec12 ==
  ASSUME Processes, Kids, variant' = variant, NEW p \in Pids, Exec1(p) \/ Exec2(p)
  PROVE  Processes' /\ Kids'
<1> DEFINE o == [proc[p] EXCEPT !.pc = "close"]
<1>1. PICK i \in {2, 3} : /\ proc[p].pc = IF i = 2 THEN "exec1" ELSE "exec2"
                          /\ Execv(p, i, o)
  BY DEF Exec1, Exec2
<1>2. /\ proc[p] \in Procs /\ At(proc[p]) \in {"exec1", "exec2"} /\ Lengths(proc[p])
      /\ At(proc[p]) = proc[p].pc /\ Descriptors(proc[p])
      /\ variant = "simple" => proc[p].pipefd = <<0, 0>>
  BY <1>1, Now DEF At
<1>3. o \in Procs
  BY <1>2 DEF Procs, ShellLabels
<1>4. /\ o.pc = "close" /\ o.parent = proc[p].parent /\ o.pipefd = proc[p].pipefd
      /\ o.fds = proc[p].fds /\ o.kept = proc[p].kept
  BY <1>2 DEF Procs
<1> HIDE DEF o
<1>5. At(o) = "close" /\ Both(o) = Both(proc[p])
  BY <1>4 DEF At, Both
<1>6. Descriptors(o) /\ Lengths(o)
  BY <1>2, <1>4, <1>5 DEF Descriptors, Lengths
<1>7. i \in 1 .. 3 /\ i <= Len(proc[p].command)
  BY <1>1, <1>2 DEF Lengths, Procs
<1> QED
  BY <1>1, <1>2, <1>3, <1>4, <1>6, <1>7, KeepExecv

LEMMA KeepClose ==
  ASSUME Processes, Kids, variant' = variant, NEW p \in Pids, Close(p)
  PROVE  Processes' /\ Kids'
<1> DEFINE r == [proc[p] EXCEPT !.pc = "wait0", !.fds = @ \ BothPipes(p)]
<1>1. proc[p].pc = "close" /\ proc' = [proc EXCEPT ![p].pc = "wait0", ![p].fds = @ \ BothPipes(p)]
  BY DEF Close
<1>2. /\ proc[p] \in Procs /\ Descriptors(proc[p]) /\ At(proc[p]) = "close"
      /\ variant = "simple" => proc[p].pipefd = <<0, 0>>
      /\ BothPipes(p) = Both(proc[p])
  BY <1>1, Now DEF At, BothPipes, Both, pipe1, pipe2
<1>3. proc' = [proc EXCEPT ![p] = r]
  BY <1>1 DEF Processes
<1>4. r \in Procs
  BY <1>2 DEF Procs, ShellLabels
<1>5. /\ r.pc = "wait0" /\ r.parent = proc[p].parent /\ r.command = proc[p].command
      /\ r.fds = proc[p].fds \ BothPipes(p) /\ r.kept = proc[p].kept
      /\ r.pipefd = proc[p].pipefd /\ r.cpid_array = proc[p].cpid_array
  BY <1>2 DEF Procs
<1> HIDE DEF r
<1>6. At(r) = "wait0"
  BY <1>5 DEF At
<1>7. r.fds = r.kept
  BY <1>2, <1>5 DEF Descriptors
<1>8. Cardinality(r.fds) <= FD_MAX
  <2>1. proc[p].fds \subseteq PipeEnds /\ Cardinality(proc[p].fds) <= FD_MAX
    BY <1>2 DEF Procs, Descriptors
  <2>2. r.fds \subseteq proc[p].fds
    BY <1>5
  <2> QED
    BY <2>1, <2>2, FewerFds
<1>9. r \in Sound(variant)
  BY <1>2, <1>4, <1>5, <1>6, <1>7, <1>8 DEF Sound, Descriptors, Lengths
<1>10. \A q \in Pids : Expects(proc[p], q) => Expects(r, q)
  BY <1>2, <1>5, <1>6 DEF Expects, Awaits
<1> QED
  BY <1>3, <1>5, <1>9, <1>10, GoesOn

\* Which wait this is: for the i-th child, at here, and its parent goes on at next.
WaitOf(r, i, here, next) ==
  \/ /\ i = 1 /\ here = "wait0"
     /\ IF Len(r.command) > 1 THEN next = "wait1" ELSE next = Again
  \/ /\ i = 2 /\ here = "wait1"
     /\ next = IF Len(r.command) > 2 THEN "wait2" ELSE "pipe"
  \/ /\ i = 3 /\ here = "wait2" /\ next = "pipe"

\* The i-th child is the one that is waited for, whoever it is.
LEMMA KeepWait ==
  ASSUME Processes, Kids, variant' = variant, NEW p \in Pids,
         NEW i, NEW here, NEW next, WaitOf(proc[p], i, here, next), Wait(p, i, here, next)
  PROVE  Processes' /\ Kids'
<1> DEFINE r == [proc[p] EXCEPT !.pc = next]
<1>1. /\ proc[p] \in Procs /\ Descriptors(proc[p]) /\ proc[p].pc = here
      /\ variant = "simple" => proc[p].pipefd = <<0, 0>>
  BY Now DEF Wait
<1>2. i \in 1 .. 3 /\ next \in {"wait1", "wait2", "pipe", "read"}
  BY DEF WaitOf, Again
<1>3. r \in Procs
  BY <1>1, <1>2 DEF Procs, ShellLabels
<1>4. /\ r.pc = next /\ r.parent = proc[p].parent /\ r.command = proc[p].command
      /\ r.fds = proc[p].fds /\ r.kept = proc[p].kept
      /\ r.pipefd = proc[p].pipefd /\ r.cpid_array = proc[p].cpid_array
  BY <1>1 DEF Procs
<1>5. PICK c : c = proc[p].cpid_array[i]
  OBVIOUS
<1>6. IF c \in Pids /\ proc[c].parent = p
        THEN proc[c].pc = "exited" /\ proc' = [proc EXCEPT ![p] = r, ![c] = Free]
        ELSE proc' = [proc EXCEPT ![p] = r]
  BY <1>5 DEF Wait, Processes
<1> HIDE DEF r
<1>7. At(proc[p]) = here /\ At(r) = next /\ Both(r) = Both(proc[p])
  BY <1>1, <1>2, <1>4 DEF At, Both, WaitOf
<1>8. Descriptors(r) /\ Lengths(r)
  <2>1. next = "read" => Both(r) = {}
    BY <1>1, <1>2, <1>4, ShSizes DEF WaitOf, Again, Both, Ends, Pipes
  <2>2. proc[p].fds = proc[p].kept /\ Cardinality(proc[p].fds) <= FD_MAX
    BY <1>1, <1>7 DEF Descriptors, WaitOf
  <2> QED
    BY <1>2, <1>4, <1>7, <2>1, <2>2 DEF Descriptors, Lengths
<1>9. r \in Sound(variant)
  BY <1>1, <1>3, <1>4, <1>8 DEF Sound
<1>10. Len(proc[p].command) \in Nat
  BY <1>1 DEF Procs
<1>11. ASSUME NEW j \in 1 .. 3, Awaits(proc[p], j), j # i
       PROVE  Awaits(r, j)
  BY <1>4, <1>7, <1>10, <1>11 DEF Awaits, WaitOf
<1>12. \A q \in Pids : Expects(proc[p], q) /\ q # c => Expects(r, q)
  BY <1>4, <1>5, <1>11 DEF Expects
<1>13. CASE c \in Pids /\ proc[c].parent = p
  <2>1. proc[p].pc # "exited"
    BY <1>1 DEF WaitOf
  <2> QED
    BY <1>4, <1>6, <1>9, <1>12, <1>13, <2>1, FreeSound, Reaps
<1>14. CASE ~(c \in Pids /\ proc[c].parent = p)
  <2>1. PICK s : s = r
    OBVIOUS
  <2>2. ASSUME NEW q \in Pids, proc[q].parent = p
        PROVE  q # c
    BY <1>14, <2>2
  <2> QED
    BY <1>6, <1>4, <1>9, <1>12, <1>14, <2>2, GoesOn
<1> QED
  BY <1>13, <1>14

LEMMA KeepWaits ==
  ASSUME Processes, Kids, variant' = variant, NEW p \in Pids, Wait0(p) \/ Wait1(p) \/ Wait2(p)
  PROVE  Processes' /\ Kids'
<1>1. PICK i, here, next : WaitOf(proc[p], i, here, next) /\ Wait(p, i, here, next)
  <2>1. CASE Wait0(p)
    BY <2>1 DEF Wait0, WaitOf, command_counter
  <2>2. CASE Wait1(p)
    BY <2>2 DEF Wait1, WaitOf, command_counter
  <2>3. CASE Wait2(p)
    BY <2>3 DEF Wait2, WaitOf
  <2> QED
    BY <2>1, <2>2, <2>3
<1> QED
  BY <1>1, KeepWait

-----------------------------------------------------------------------------
(* The pipes hold no more than fits into them *)

LEMMA LineTaken ==
  ASSUME ShIInv, NEW p \in Pids, CanRead(p), TakesLine(p)
  PROVE  pipe' \in [Pipes -> 0 .. CAP]
<1>1. pipe \in [Pipes -> 0 .. CAP]
  BY DEF ShIInv, System
<1>2. proc[p].stdin \in 0 .. NPIPE
  BY Now DEF ShIInv, Procs
<1>3. PICK k : k = proc[p].stdin
  OBVIOUS
<1>4. k \in Pipes /\ pipe[k] > 0 /\ pipe' = [pipe EXCEPT ![k] = pipe[k] - 1]
  BY <1>1, <1>2, <1>3, ShSizes DEF CanRead, TakesLine, Pipes, tty
<1>5. pipe[k] - 1 \in 0 .. CAP
  BY <1>1, <1>4, ShSizes
<1> QED
  BY <1>1, <1>4, <1>5

LEMMA LineWritten ==
  ASSUME ShIInv, NEW p \in Pids, Writes(p)
  PROVE  pipe' \in [Pipes -> 0 .. CAP]
<1>1. pipe \in [Pipes -> 0 .. CAP]
  BY DEF ShIInv, System
<1>2. proc[p].stdout \in 0 .. NPIPE
  BY Now DEF ShIInv, Procs
<1>3. PICK k : k = proc[p].stdout
  OBVIOUS
<1>4. \/ pipe' = pipe
      \/ k # tty /\ pipe[k] < CAP /\ pipe' = [pipe EXCEPT ![k] = pipe[k] + 1]
  BY <1>3 DEF Writes
<1>5. CASE k # tty /\ pipe[k] < CAP /\ pipe' = [pipe EXCEPT ![k] = pipe[k] + 1]
  <2>1. k \in Pipes
    BY <1>2, <1>3, <1>5, ShSizes DEF Pipes, tty
  <2>2. pipe[k] + 1 \in 0 .. CAP
    BY <1>1, <1>5, <2>1, ShSizes
  <2> QED
    BY <1>1, <1>5, <2>2
<1> QED
  BY <1>1, <1>4, <1>5

LEMMA PipesEmptied ==
  ASSUME ShIInv, NEW p \in Pids, OpenPipes(p)
  PROVE  pipe' \in [Pipes -> 0 .. CAP]
<1>1. pipe \in [Pipes -> 0 .. CAP] /\ 0 \in 0 .. CAP
  BY ShSizes DEF ShIInv, System
<1> QED
  BY <1>1 DEF OpenPipes

-----------------------------------------------------------------------------
(* The invariant holds *)

LEMMA ShInitIInv == ShInit => ShIInv
<1> SUFFICES ASSUME ShInit
             PROVE  ShIInv
  OBVIOUS
<1>1. System
  BY ShSizes DEF ShInit, System
<1> DEFINE r == [Free EXCEPT !.pc = Again, !.parent = login]
<1>2. proc = [p \in Pids |-> IF p = user THEN r ELSE Free]
  BY DEF ShInit
<1>3. r \in Procs
  <2>1. login \in 0 .. NPROC + 1
    BY ShSizes DEF login
  <2> QED
    BY <2>1, FreeSound DEF Procs, Again, ShellLabels
<1>4. r.pc = Again /\ r.parent = login /\ r.fds = {} /\ r.kept = {} /\ r.pipefd = <<0, 0>>
  BY DEF Free
<1>5. Free.parent = orphan
  BY DEF Free
<1> HIDE DEF r
<1>6. At(r) \in {"read", "pipe"} /\ Both(r) = {}
  BY <1>4, ShSizes DEF At, Again, Both, Ends, Pipes
<1>7. Descriptors(r) /\ Lengths(r)
  <2>1. Cardinality({}) <= FD_MAX
    BY FS_EmptySet, ShSizes
  <2> QED
    BY <1>4, <1>6, <2>1 DEF Descriptors, Lengths
<1>8. r \in Sound(variant)
  BY <1>3, <1>4, <1>7 DEF Sound
<1>9. Processes
  BY <1>2, <1>8, FreeSound DEF Processes
<1>10. Kids
  BY <1>2, <1>4, <1>5, ShSizes DEF Kids, Pids, login, orphan
<1> QED
  BY <1>1, <1>9, <1>10 DEF ShIInv

LEMMA ShNextIInv == ShIInv /\ [ShNext]_shVars => ShIInv'
<1> SUFFICES ASSUME ShIInv, [ShNext]_shVars
             PROVE  ShIInv'
  OBVIOUS
<1>0. Processes /\ Kids /\ System /\ variant \in Variants
  BY DEF ShIInv, System
<1>1. ASSUME NEW p \in Pids, Step(p)
      PROVE  ShIInv'
  <2>1. variant' = variant /\ signals' = signals
    BY <1>1 DEF Step
  <2>2. CASE Program(p)
    <3>1. Processes' /\ Kids'
      BY <1>0, <2>1, <2>2, KeepProgram
    <3>2. pipe' \in [Pipes -> 0 .. CAP]
      BY <1>0, <2>2, LineTaken, LineWritten DEF Program, Reads, Finishes, System
    <3> QED
      BY <1>0, <2>1, <3>1, <3>2 DEF ShIInv, System
  <2>3. CASE Answer(p)
    <3>1. Processes' /\ Kids'
      BY <1>0, <2>1, <2>3, KeepAnswer
    <3>2. pipe' \in [Pipes -> 0 .. CAP]
      BY <1>0, <2>3, LineTaken DEF Answer, System
    <3> QED
      BY <1>0, <2>1, <3>1, <3>2 DEF ShIInv, System
  <2>4. CASE ReadPipe(p) \/ ReadNothing(p)
    <3>1. Processes' /\ Kids'
      BY <1>0, <2>1, <2>4, KeepRead
    <3>2. pipe' \in [Pipes -> 0 .. CAP]
      BY <1>0, <2>4, LineTaken DEF ReadPipe, ReadNothing, System
    <3> QED
      BY <1>0, <2>1, <3>1, <3>2 DEF ShIInv, System
  <2>5. CASE OpenPipes(p) /\ variant # "simple"
    <3>1. Processes' /\ Kids'
      BY <1>0, <2>1, <2>5, KeepOpenPipes
    <3>2. pipe' \in [Pipes -> 0 .. CAP]
      BY <2>5, PipesEmptied
    <3> QED
      BY <1>0, <2>1, <3>1, <3>2 DEF ShIInv, System
  <2>6. CASE \/ Fork0(p) \/ Fork1(p) \/ Fork2(p) \/ Child0(p) \/ Child1(p) \/ Child2(p)
             \/ Exec0(p) \/ Exec1(p) \/ Exec2(p)
             \/ Close(p) \/ Wait0(p) \/ Wait1(p) \/ Wait2(p)
    <3>1. Processes' /\ Kids'
      BY <1>0, <2>1, <2>6, KeepFork, KeepChildren, KeepExec0, KeepExec12,
         KeepClose, KeepWaits
    <3>2. pipe' = pipe
      BY <2>6 DEF Fork0, Fork1, Fork2, Child0, Child1, Child2, Exec0, Exec1, Exec2, Close,
                  Wait0, Wait1, Wait2, Wait
    <3> QED
      BY <1>0, <2>1, <3>1, <3>2 DEF ShIInv, System
  <2> QED
    BY <1>1, <2>2, <2>3, <2>4, <2>5, <2>6 DEF Step, SimpleShell, SignalShell, PipingShell
<1>2. ASSUME NEW p \in Pids, Typed(p)
      PROVE  ShIInv'
  <2>1. variant' = variant /\ signals' = signals /\ (ReadTerminal(p) \/ ReadNothing(p))
    BY <1>2 DEF Typed
  <2>2. Processes' /\ Kids'
    BY <1>0, <2>1, KeepRead
  <2>3. pipe' = pipe
    BY <2>1 DEF ReadTerminal, ReadNothing
  <2> QED
    BY <1>0, <2>1, <2>2, <2>3 DEF ShIInv, System
<1>3. ASSUME NEW p \in Pids, SignalSent(p)
      PROVE  ShIInv'
  <2>1. /\ signals < SIGNALS /\ signals' = signals + 1 /\ variant' = variant /\ pipe' = pipe
        /\ (p \in Shells /\ Interrupted(p)) \/ Exit(p)
    BY <1>3 DEF SignalSent
  <2>2. Processes' /\ Kids'
    BY <1>0, <2>1, KeepInterrupted, Exits
  <2>3. signals' \in 0 .. SIGNALS
    BY <1>0, <2>1, ShSizes DEF System
  <2> QED
    BY <1>0, <2>1, <2>2, <2>3 DEF ShIInv, System
<1>4. CASE UNCHANGED shVars
  BY <1>0, <1>4 DEF shVars, ShIInv, System, Processes, Kids
<1> QED
  BY <1>1, <1>2, <1>3, <1>4 DEF ShNext

-----------------------------------------------------------------------------
(* What a reader should know of *)

\* Whatever the user types and whichever command cannot be executed, every field of
\* every process stays in its type, also in the shells that were meant to be commands,
\* no process has more descriptors than it may, and no pipe more lines than it holds.
THEOREM ShTypeCorrect == ShSpec => []ShTypeOK
<1>1. ShIInv => ShTypeOK
  <2> SUFFICES ASSUME ShIInv
               PROVE  ShTypeOK
    OBVIOUS
  <2>1. variant \in Variants /\ signals \in 0 .. SIGNALS /\ pipe \in [Pipes -> 0 .. CAP]
    BY DEF ShIInv, System
  <2>2. ASSUME NEW p \in Pids
        PROVE  /\ proc[p] \in Procs /\ Cardinality(proc[p].fds) <= FD_MAX
               /\ proc[p].kept \subseteq proc[p].fds
    BY Now DEF ShIInv, Descriptors
  <2>3. ASSUME NEW p \in Pids
        PROVE  \A i \in DOMAIN proc[p].command : proc[p].command[i] \in Programs \cup {"exit"}
    <3>1. proc[p].command \in Seq(Words)
      BY <2>2 DEF Procs
    <3> QED
      BY <3>1 DEF Words
  <2> QED
    BY <2>1, <2>2, <2>3 DEF ShTypeOK, Procs, PipeEnds
<1> QED
  BY ShInitIInv, ShNextIInv, <1>1, PTL DEF ShSpec

\* A shell that asks for the next line has no child that it has not waited for, be it a
\* command, a shell that a failed command became, or one that its parent has asked about
\* after a signal.
THEOREM EveryChildAwaited == ShSpec => []NoChildLeft
<1>1. ShIInv => NoChildLeft
  <2> SUFFICES ASSUME ShIInv, NEW p \in Pids, NEW q \in Pids, proc[p].pc = "read"
               PROVE  proc[q].parent # p
    BY DEF NoChildLeft
  <2>1. ~Expects(proc[p], q)
    BY NoneAwaited DEF At
  <2> QED
    BY <2>1 DEF ShIInv, Kids
<1> QED
  BY ShInitIInv, ShNextIInv, <1>1, PTL DEF ShSpec

\* Whatever a shell that asks for the next line has open are the ends of its two new
\* pipes, and of those it has lost track of on one of the three ways past the calls of
\* close.
THEOREM NothingLeftOpen == ShSpec => []DescriptorsKept
<1>1. ShIInv => DescriptorsKept
  <2> SUFFICES ASSUME ShIInv, NEW p \in Pids, proc[p].pc = "read"
               PROVE  proc[p].fds = BothPipes(p) \cup proc[p].kept
    BY DEF DescriptorsKept
  <2>1. Descriptors(proc[p]) /\ At(proc[p]) = "read"
    BY Now DEF ShIInv, At
  <2> QED
    BY <2>1 DEF Descriptors, BothPipes, Both, pipe1, pipe2
<1> QED
  BY ShInitIInv, ShNextIInv, <1>1, PTL DEF ShSpec

=============================================================================
