---------------------------- MODULE BankingProofs ----------------------------
(***************************************************************************)
(* The accounts of Banking add up, for any number of accounts, children,   *)
(* rounds, starts, signals and hangups, and every variable stays in its    *)
(* type.                                                                   *)
(***************************************************************************)
EXTENDS Banking, FiniteSetTheorems, TLAPS

Pending == [account : Accounts, action : Actions \cup {0}, read : Int]

\* The types of what the argument needs.
DataOK ==
  /\ counter \in Nat /\ bookings \in Nat
  /\ saldo \in [Accounts -> Int] /\ kredit \in [Accounts -> Int] /\ booked \in [Accounts -> Int]
  /\ child \in [Kids -> {"none", "lock", "book", "write", "unlock", "exited"}]
  /\ tmp \in [Kids -> Pending]

\* Who is in a critical region holds the mutex.
Owners ==
  /\ \A k \in Kids : child[k] \in {"book", "write", "unlock"} => mutex = k
  /\ pc \in {"zero", "read", "unlock"} => mutex = Server

\* When there is no segment nobody runs who could use the next one.
NoSegment == ~segment => (pc = "down" /\ \A k \in Kids : child[k] = "none")

\* What a child has read is still what the account shows when it writes.
Fresh == \A k \in Kids : child[k] = "write" => tmp[k].read = saldo[tmp[k].account]

Balanced ==
  /\ counter = bookings
  /\ \A a \in Accounts : saldo[a] - kredit[a] = booked[a]

\* Balanced alone is not inductive: a child that writes back an old saldo would undo
\* another booking.
IInv == DataOK /\ Owners /\ NoSegment /\ Fresh /\ Balanced

LEMMA NothingPending == Nothing \in Pending
<1>1. (CHOOSE a \in Accounts : TRUE) \in Accounts
  BY BankingAssumption
<1> QED
  BY <1>1 DEF Nothing, Pending

LEMMA ZerosType == Zeros \in [Accounts -> Int] /\ \A a \in Accounts : Zeros[a] = 0
  BY DEF Zeros

LEMMA InitIInv == Init => IInv
<1> SUFFICES ASSUME Init PROVE IInv
  OBVIOUS
<1>1. DataOK
  BY NothingPending, ZerosType DEF Init, DataOK
<1>2. Owners /\ NoSegment /\ Fresh
  BY DEF Init, Owners, NoSegment, Fresh
<1>3. Balanced
  BY ZerosType DEF Init, Balanced
<1> QED
  BY <1>1, <1>2, <1>3 DEF IInv

\* A step of the server outside its critical regions, or a signal: no account, no
\* owner and no child changes.
LEMMA QuietStep ==
  ASSUME IInv, UNCHANGED <<segment, mutex, data, child, tmp>>,
         pc' \in {"zero", "read", "unlock"} => pc' = pc,
         pc = "down" => pc' = "down"
  PROVE  IInv'
<1>1. DataOK' /\ Fresh' /\ Balanced'
  BY DEF IInv, DataOK, Fresh, Balanced, data
<1>2. Owners' /\ NoSegment'
  BY DEF IInv, Owners, NoSegment
<1> QED
  BY <1>1, <1>2 DEF IInv

\* The server takes the mutex.
LEMMA LockStep ==
  ASSUME IInv, mutex = Free, mutex' = Server, segment,
         UNCHANGED <<segment, data, child, tmp>>
  PROVE  IInv'
<1>1. DataOK' /\ Fresh' /\ Balanced'
  BY DEF IInv, DataOK, Fresh, Balanced, data
<1>2. Owners'
  BY BankingAssumption DEF IInv, Owners
<1> QED
  BY <1>1, <1>2 DEF IInv, NoSegment

\* While the server is in a critical region no child is.
LEMMA ServerAlone ==
  ASSUME IInv, pc \in {"zero", "read", "unlock"}
  PROVE  segment /\ mutex = Server /\ \A k \in Kids : child[k] \notin {"book", "write", "unlock"}
  BY BankingAssumption DEF IInv, Owners, NoSegment

\* All children are gone.
LEMMA NoKids ==
  ASSUME IInv, UNCHANGED data,
         child' = [k \in Kids |-> "none"],
         tmp' = tmp \/ tmp' = [k \in Kids |-> Nothing],
         pc' = "down"
  PROVE  IInv'
<1>1. \A k \in Kids : child'[k] = "none"
  OBVIOUS
<1>2. DataOK'
  BY NothingPending DEF IInv, DataOK, data
<1>3. Owners' /\ NoSegment' /\ Fresh'
  BY <1>1 DEF Owners, NoSegment, Fresh
<1>4. Balanced'
  BY DEF IInv, Balanced, data
<1> QED
  BY <1>2, <1>3, <1>4 DEF IInv

LEMMA StartStep == IInv /\ Start => IInv'
<1> SUFFICES ASSUME IInv, Start PROVE IInv'
  OBVIOUS
<1> USE DEF Start, Server_
<1>1. CASE segment
  <2>1. DataOK' /\ Owners' /\ NoSegment' /\ Fresh'
    BY <1>1 DEF IInv, DataOK, Owners, NoSegment, Fresh, kids
  <2>2. Balanced'
    BY <1>1 DEF IInv, Balanced
  <2> QED
    BY <2>1, <2>2 DEF IInv
<1>2. CASE ~segment
  <2>1. \A k \in Kids : child'[k] = "none"
    BY <1>2 DEF IInv, NoSegment, kids
  <2>2. DataOK'
    BY <1>2, ZerosType DEF IInv, DataOK, kids
  <2>3. Owners' /\ NoSegment' /\ Fresh'
    BY <2>1 DEF Owners, NoSegment, Fresh
  <2>4. Balanced'
    BY <1>2, ZerosType DEF Balanced
  <2> QED
    BY <2>2, <2>3, <2>4 DEF IInv
<1> QED
  BY <1>1, <1>2

LEMMA ZeroStep == IInv /\ Zero => IInv'
<1> SUFFICES ASSUME IInv, Zero PROVE IInv'
  OBVIOUS
<1> USE DEF Zero, Server_, kids
<1>1. segment /\ \A k \in Kids : child[k] \notin {"book", "write", "unlock"}
  BY ServerAlone
<1>2. DataOK'
  BY ZerosType DEF IInv, DataOK
<1>3. Owners' /\ NoSegment' /\ Fresh'
  BY <1>1 DEF Owners, NoSegment, Fresh
<1>4. Balanced'
  BY ZerosType DEF IInv, Balanced
<1> QED
  BY <1>2, <1>3, <1>4 DEF IInv

LEMMA ReadAccountsStep == IInv /\ ServerReadAccounts => IInv'
<1> SUFFICES ASSUME IInv, ServerReadAccounts PROVE IInv'
  OBVIOUS
<1> USE DEF ServerReadAccounts, Server_, kids
<1>1. segment /\ mutex = Server /\ \A k \in Kids : child[k] \notin {"book", "write", "unlock"}
  BY ServerAlone
<1>2. DataOK'
  BY BankingAssumption DEF IInv, DataOK
<1>3. Owners' /\ NoSegment' /\ Fresh'
  BY <1>1 DEF Owners, NoSegment, Fresh
<1>4. Balanced'
  BY BankingAssumption DEF IInv, DataOK, Balanced
<1> QED
  BY <1>2, <1>3, <1>4 DEF IInv

LEMMA UnlockStep == IInv /\ ServerUnlock => IInv'
<1> SUFFICES ASSUME IInv, ServerUnlock PROVE IInv'
  OBVIOUS
<1> USE DEF ServerUnlock, Server_, kids, data
<1>1. segment /\ \A k \in Kids : child[k] \notin {"book", "write", "unlock"}
  BY ServerAlone
<1>2. Owners' /\ NoSegment' /\ Fresh'
  BY <1>1 DEF Owners, NoSegment, Fresh
<1> QED
  BY <1>2 DEF IInv, DataOK, Balanced

\* A new child is outside the critical region.
LEMMA ForkStep == IInv /\ Fork => IInv'
<1> SUFFICES ASSUME IInv, Fork PROVE IInv'
  OBVIOUS
<1> USE DEF Fork, Server_, data
<1>1. \A k \in Kids : child'[k] \in {child[k], "lock"}
  BY DEF IInv, DataOK
<1>2. segment
  BY DEF IInv, NoSegment
<1>3. DataOK'
  BY DEF IInv, DataOK
<1>4. Owners' /\ NoSegment' /\ Fresh'
  BY <1>1, <1>2 DEF IInv, Owners, NoSegment, Fresh
<1> QED
  BY <1>3, <1>4 DEF IInv, Balanced

LEMMA WaitStep == IInv /\ Wait => IInv'
<1> SUFFICES ASSUME IInv, Wait PROVE IInv'
  OBVIOUS
<1> USE DEF Wait, Server_, data
<1>1. \A k \in Kids : child'[k] \in {child[k], "none"}
  BY DEF IInv, DataOK
<1>2. segment
  BY DEF IInv, NoSegment
<1>3. DataOK'
  BY DEF IInv, DataOK
<1>4. Owners' /\ NoSegment' /\ Fresh'
  BY <1>1, <1>2 DEF IInv, Owners, NoSegment, Fresh, AfterWait
<1> QED
  BY <1>3, <1>4 DEF IInv, Balanced

\* What every step of a child has in common.
LEMMA ChildFrame ==
  ASSUME IInv, NEW k \in Kids, NEW from, NEW to \in {"book", "write", "unlock", "exited"},
         Child_(k, from, to), from # "none"
  PROVE  /\ child' \in [Kids -> {"none", "lock", "book", "write", "unlock", "exited"}]
         /\ child'[k] = to /\ \A q \in Kids \ {k} : child'[q] = child[q]
         /\ segment /\ segment' /\ NoSegment' /\ pc' = pc
  BY DEF Child_, IInv, DataOK, NoSegment

\* Once a child is in the critical region nobody else is.
LEMMA ChildAlone ==
  ASSUME IInv, NEW k \in Kids, child[k] \in {"book", "write", "unlock"}
  PROVE  /\ mutex = k /\ pc \notin {"zero", "read", "unlock"}
         /\ \A q \in Kids \ {k} : child[q] \notin {"book", "write", "unlock"}
  BY BankingAssumption DEF IInv, Owners

LEMMA ChildLockStep == ASSUME IInv, NEW k \in Kids, ChildLock(k) PROVE IInv'
<1> USE DEF ChildLock, data
<1>1. Child_(k, "lock", "book")
  OBVIOUS
<1>2. /\ child' \in [Kids -> {"none", "lock", "book", "write", "unlock", "exited"}]
      /\ child'[k] = "book" /\ \A q \in Kids \ {k} : child'[q] = child[q]
      /\ NoSegment' /\ pc' = pc
  BY <1>1, ChildFrame
<1>3. Owners' /\ Fresh'
  BY <1>2, BankingAssumption DEF IInv, Owners, Fresh
<1> QED
  BY <1>2, <1>3 DEF IInv, DataOK, Balanced

LEMMA ChildBookStep == ASSUME IInv, NEW k \in Kids, ChildBook(k) PROVE IInv'
<1>1. Child_(k, "book", "write") /\ child[k] = "book"
  BY DEF ChildBook, Child_
<1>2. /\ child' \in [Kids -> {"none", "lock", "book", "write", "unlock", "exited"}]
      /\ child'[k] = "write" /\ \A q \in Kids \ {k} : child'[q] = child[q]
      /\ NoSegment' /\ pc' = pc
  BY <1>1, ChildFrame
<1>3. /\ mutex = k /\ pc \notin {"zero", "read", "unlock"}
      /\ \A q \in Kids \ {k} : child[q] \notin {"book", "write", "unlock"}
  BY <1>1, ChildAlone
<1>4. PICK a \in Accounts, x \in Actions :
        tmp' = [tmp EXCEPT ![k] = [account |-> a, action |-> x, read |-> saldo[a]]]
  BY DEF ChildBook
<1>5. [account |-> a, action |-> x, read |-> saldo[a]] \in Pending
  BY DEF IInv, DataOK, Pending
<1>6. tmp' \in [Kids -> Pending] /\ tmp'[k] = [account |-> a, action |-> x, read |-> saldo[a]]
  BY <1>4, <1>5 DEF IInv, DataOK
<1>7. Owners' /\ Fresh'
  BY <1>2, <1>3, <1>6 DEF ChildBook, Owners, Fresh
<1>8. DataOK' /\ Balanced'
  BY <1>2, <1>6 DEF ChildBook, IInv, DataOK, Balanced
<1> QED
  BY <1>2, <1>7, <1>8 DEF IInv

LEMMA ChildWriteStep == ASSUME IInv, NEW k \in Kids, clientAccessAccount(k) PROVE IInv'
<1>1. Child_(k, "write", "unlock") /\ child[k] = "write"
  BY DEF clientAccessAccount, Child_
<1>2. /\ child' \in [Kids -> {"none", "lock", "book", "write", "unlock", "exited"}]
      /\ child'[k] = "unlock" /\ \A q \in Kids \ {k} : child'[q] = child[q]
      /\ NoSegment' /\ pc' = pc
  BY <1>1, ChildFrame
<1>3. /\ mutex = k /\ pc \notin {"zero", "read", "unlock"}
      /\ \A q \in Kids \ {k} : child[q] \notin {"book", "write", "unlock"}
  BY <1>1, ChildAlone
<1>4. tmp[k].account \in Accounts /\ tmp[k].action \in Int
  <2>1. tmp[k] \in Pending
    BY DEF IInv, DataOK
  <2>2. tmp[k].account \in Accounts /\ tmp[k].action \in Actions \cup {0}
    BY <2>1 DEF Pending
  <2>3. Actions \subseteq Int
    BY BankingAssumption
  <2>4. Actions \cup {0} \subseteq Int
    BY <2>3
  <2> QED
    BY <2>2, <2>4
<1>5. tmp[k].read = saldo[tmp[k].account]
  BY <1>1 DEF IInv, Fresh
<1>6. DataOK'
  <2>1. tmp' \in [Kids -> Pending]
    BY NothingPending DEF clientAccessAccount, IInv, DataOK
  <2>2. saldo[tmp[k].account] \in Int /\ booked[tmp[k].account] \in Int
    BY <1>4 DEF IInv, DataOK
  <2>3. saldo' \in [Accounts -> Int] /\ booked' \in [Accounts -> Int]
    BY <1>4, <1>5, <2>2 DEF clientAccessAccount, IInv, DataOK
  <2> QED
    BY <1>2, <2>1, <2>3 DEF clientAccessAccount, IInv, DataOK
<1>7. Owners' /\ Fresh'
  BY <1>2, <1>3 DEF clientAccessAccount, Owners, Fresh
<1>8. Balanced'
  BY <1>4, <1>5 DEF clientAccessAccount, IInv, DataOK, Balanced
<1> QED
  BY <1>2, <1>6, <1>7, <1>8 DEF IInv

LEMMA ChildExitStep == ASSUME IInv, NEW k \in Kids, ChildExit(k) PROVE IInv'
<1>1. Child_(k, "unlock", "exited") /\ child[k] = "unlock"
  BY DEF ChildExit, Child_
<1>2. /\ child' \in [Kids -> {"none", "lock", "book", "write", "unlock", "exited"}]
      /\ child'[k] = "exited" /\ \A q \in Kids \ {k} : child'[q] = child[q]
      /\ NoSegment' /\ pc' = pc
  BY <1>1, ChildFrame
<1>3. /\ mutex = k /\ pc \notin {"zero", "read", "unlock"}
      /\ \A q \in Kids \ {k} : child[q] \notin {"book", "write", "unlock"}
  BY <1>1, ChildAlone
<1>4. Owners' /\ Fresh'
  BY <1>2, <1>3 DEF Owners, Fresh
<1> QED
  BY <1>2, <1>4 DEF ChildExit, IInv, DataOK, Balanced, data

LEMMA NextIInv == IInv /\ [Next]_vars => IInv'
<1> SUFFICES ASSUME IInv, [Next]_vars PROVE IInv'
  OBVIOUS
<1>1. CASE Start
  BY <1>1, StartStep
<1>2. CASE ZeroLock
  BY <1>2, LockStep DEF ZeroLock, Server_, kids, IInv, NoSegment
<1>3. CASE Zero
  BY <1>3, ZeroStep
<1>4. CASE Loop
  BY <1>4, QuietStep DEF Loop, Server_
<1>5. CASE Fork
  BY <1>5, ForkStep
<1>6. CASE Wait
  BY <1>6, WaitStep
<1>7. CASE SetAlarm \/ Pause \/ Check \/ ForkFails
  BY <1>7, QuietStep DEF SetAlarm, Pause, Check, ForkFails, Server_, kids
<1>8. CASE ServerLock
  BY <1>8, LockStep DEF ServerLock, Server_, kids, IInv, NoSegment
<1>9. CASE ServerReadAccounts
  BY <1>9, ReadAccountsStep
<1>10. CASE ServerUnlock
  BY <1>10, UnlockStep
<1>11. CASE Clear
  BY <1>11, NoKids DEF Clear, Server_
<1>12. CASE Hangup
  BY <1>12, NoKids DEF Hangup
<1>13. CASE Interrupt
  BY <1>13, QuietStep DEF Interrupt, kids
<1>14. CASE AlarmWhileAsking \/ AlarmExpires
  BY <1>14, QuietStep DEF AlarmWhileAsking, AlarmExpires, Woken, AfterWait, kids
<1>15. ASSUME NEW p, Answer(p) PROVE IInv'
  BY <1>15, QuietStep DEF Answer, Woken, kids
<1>16. ASSUME NEW k \in Kids, ChildStep(k) \/ AlarmOfChild(k) PROVE IInv'
  <2>1. CASE ChildStep(k)
    BY <2>1, ChildLockStep, ChildBookStep, ChildWriteStep, ChildExitStep DEF ChildStep
  <2>2. CASE AlarmOfChild(k)
    BY <2>2, QuietStep DEF AlarmOfChild, kids
  <2> QED
    BY <1>16, <2>1, <2>2
<1>17. CASE UNCHANGED vars
  BY <1>17, QuietStep DEF vars, kids
<1> QED
  BY <1>1, <1>2, <1>3, <1>4, <1>5, <1>6, <1>7, <1>8, <1>9, <1>10, <1>11, <1>12, <1>13,
     <1>14, <1>15, <1>16, <1>17 DEF Next, ServerStep, Alarm

\* The accounts add up and the counter is right whenever the mutex is free: in
\* bankingsystem.c no booking is lost to another one, to a credit or to a restart.
THEOREM AccountsAddUp == Spec => []Ledger
<1>1. IInv => Ledger
  BY DEF IInv, Balanced, Ledger
<1> QED
  BY InitIInv, NextIInv, <1>1, PTL DEF Spec

\* Nobody is in a critical region of the segment's mutex beside its owner.
THEOREM OwnerAlone == Spec => []Owners
<1>1. IInv => Owners
  BY DEF IInv
<1> QED
  BY InitIInv, NextIInv, <1>1, PTL DEF Spec

-----------------------------------------------------------------------------
(* There is always a process to fork *)

Used == {k \in Kids : child[k] # "none"}

\* Each round leaves CHILDREN processes unwaited for at most, and fork is called as
\* often in a round.
Forking ==
  /\ rounds \in 0 .. ROUNDS
  /\ Cardinality(Used) <= CHILDREN * rounds
  /\ pc = "wait" => children # <<>>
  /\ pc = "fork" =>
       /\ Len(children) < CHILDREN
       /\ Cardinality(Used) + CHILDREN <= CHILDREN * rounds + Len(children)

TInv == TypeOK /\ Forking

\* TypeOK without the array of the children.
RestOK ==
  /\ segment \in BOOLEAN /\ mutex \in {Free, Server, Dead} \cup Kids
  /\ counter \in Nat /\ bookings \in Nat
  /\ saldo \in [Accounts -> Int] /\ booked \in [Accounts -> Int] /\ kredit \in [Accounts -> Nat]
  /\ pc \in {"down", "zero_lock", "zero", "loop", "fork", "wait", "alarm", "alarmed",
             "pause", "check", "lock", "read", "unlock", "clear"}
  /\ alarm_flag \in {0, 1} /\ shutdownflag \in {0, 1}
  /\ timer \subseteq Kids \cup {Server} /\ asking \subseteq timer \cup {Server} \cup Kids
  /\ child \in [Kids -> {"none", "lock", "book", "write", "unlock", "exited"}]
  /\ tmp \in [Kids -> Pending]

LEMMA TypeParts ==
  /\ TypeOK <=> (RestOK /\ children \in Seq(Kids) /\ Len(children) <= CHILDREN)
  /\ TypeOK' <=> (RestOK' /\ children' \in Seq(Kids) /\ Len(children') <= CHILDREN)
  BY DEF TypeOK, RestOK, Pending

LEMMA BoundTypes ==
  /\ ROUNDS \in Nat /\ STARTS \in Nat /\ CHILDREN \in Nat /\ CHILDREN >= 1
  /\ IsFiniteSet(Kids) /\ Cardinality(Kids) \in Nat
  /\ CHILDREN * ROUNDS <= Cardinality(Kids)
<1>1. Cardinality(Kids) \in Nat
  BY BankingAssumption, FS_CardinalityType
<1> QED
  BY <1>1, BankingAssumption

LEMMA UsedFinite == IsFiniteSet(Used) /\ Cardinality(Used) \in Nat
<1>1. Used \subseteq Kids
  BY DEF Used
<1>2. IsFiniteSet(Used)
  BY <1>1, BoundTypes, FS_Subset
<1> QED
  BY <1>2, FS_CardinalityType

LEMMA InitTInv == Init => TInv
<1> SUFFICES ASSUME Init PROVE TInv
  OBVIOUS
<1>1. TypeOK
  <2>1. RestOK
    <3>1. tmp \in [Kids -> Pending]
      BY NothingPending DEF Init
    <3>2. saldo \in [Accounts -> Int] /\ booked \in [Accounts -> Int] /\ kredit \in [Accounts -> Nat]
      BY DEF Init, Zeros
    <3> QED
      BY <3>1, <3>2 DEF Init, RestOK
  <2>2. children \in Seq(Kids) /\ Len(children) <= CHILDREN
    BY BoundTypes DEF Init
  <2> QED
    BY <2>1, <2>2, TypeParts
<1>2. Used = {}
  BY DEF Init, Used
<1>3. Cardinality(Used) = 0
  BY <1>2, FS_EmptySet
<1> QED
  BY <1>1, <1>3, BoundTypes DEF Init, TInv, Forking

\* No process is forked and no round begins.
LEMMA NoFork ==
  ASSUME TInv, TypeOK', Used' \subseteq Used, rounds' = rounds,
         pc' = "wait" => children' # <<>>,
         pc' = "fork" => pc = "fork" /\ children' = children
  PROVE  TInv'
<1>1. IsFiniteSet(Used) /\ Cardinality(Used) \in Nat
  BY UsedFinite
<1>2. Cardinality(Used') <= Cardinality(Used) /\ IsFiniteSet(Used')
  BY <1>1, FS_Subset
<1>3. Cardinality(Used') \in Nat
  BY <1>2, FS_CardinalityType
<1> DEFINE c == Cardinality(Used)  d == Cardinality(Used')  m == CHILDREN * rounds
<1>4. m \in Int /\ c \in Nat /\ d \in Nat /\ d <= c
  BY <1>1, <1>2, <1>3, BoundTypes DEF TInv, Forking
<1>5. /\ c <= m
      /\ pc = "fork" => Len(children) < CHILDREN /\ c + CHILDREN <= m + Len(children)
  BY DEF TInv, Forking
<1>6. children \in Seq(Kids)
  BY DEF TInv, TypeOK
<1>7. rounds' \in 0 .. ROUNDS /\ CHILDREN * rounds' = m
  BY DEF TInv, Forking
<1> HIDE DEF c, d, m
<1>8. d <= m /\ (pc' = "fork" => Len(children') < CHILDREN /\ d + CHILDREN <= m + Len(children'))
  BY <1>4, <1>5, <1>6, BoundTypes
<1> QED
  BY <1>7, <1>8 DEF TInv, Forking, d

\* A new round.
LEMMA LoopTypes == TInv /\ Loop => TInv'
<1> SUFFICES ASSUME TInv, Loop PROVE TInv'
  OBVIOUS
<1>1. TypeOK'
  BY BoundTypes DEF TInv, TypeOK, Loop, Server_, data, flags
<1>2. Used' = Used
  BY DEF Loop, Used
<1>3. CASE shutdownflag # 0
  BY <1>1, <1>2, <1>3, NoFork DEF Loop, Server_
<1>4. CASE shutdownflag = 0
  <2>1. rounds' = rounds + 1 /\ rounds' \in 0 .. ROUNDS /\ rounds \in Nat
    BY <1>4, BoundTypes DEF Loop, TInv, Forking
  <2>2. CHILDREN * rounds' = CHILDREN * rounds + CHILDREN
    BY <2>1, BoundTypes
  <2>3. CHILDREN * rounds \in Int
    BY <2>1, BoundTypes
  <2>4. Cardinality(Used') \in Nat /\ Cardinality(Used') <= CHILDREN * rounds
    BY <1>2, UsedFinite DEF TInv, Forking
  <2>5. pc' = "fork" /\ children' = <<>>
    BY <1>4 DEF Loop, Server_
  <2>6. Len(children') = 0
    BY <2>5
  <2> DEFINE m == CHILDREN * rounds  d == Cardinality(Used')
  <2> HIDE DEF m, d
  <2>7. m \in Int /\ d \in Nat /\ d <= m /\ CHILDREN * rounds' = m + CHILDREN
    BY <2>2, <2>3, <2>4 DEF m, d
  <2>8. d <= m + CHILDREN /\ d + CHILDREN <= m + CHILDREN + 0
    BY <2>7, BoundTypes
  <2> QED
    BY <1>1, <2>1, <2>5, <2>6, <2>7, <2>8, BoundTypes DEF TInv, Forking, d
<1> QED
  BY <1>3, <1>4

\* fork finds a process that is not in use.
LEMMA ForkTypes == TInv /\ Fork => TInv'
<1> SUFFICES ASSUME TInv, Fork PROVE TInv'
  OBVIOUS
<1> DEFINE c == Cardinality(Used)  m == CHILDREN * rounds
<1>1. /\ c \in Nat /\ rounds \in 0 .. ROUNDS /\ m \in Int
      /\ Len(children) < CHILDREN /\ c + CHILDREN <= m + Len(children)
      /\ children \in Seq(Kids) /\ Len(children) \in Nat
  BY UsedFinite, BoundTypes DEF TInv, TypeOK, Forking, Fork, Server_
<1>2. m <= CHILDREN * ROUNDS
  BY <1>1, BoundTypes
<1>3. c < Cardinality(Kids)
  <2> HIDE DEF c, m
  <2> DEFINE n == CHILDREN * ROUNDS
  <2>1. n \in Int /\ m <= n /\ n <= Cardinality(Kids)
    BY <1>2, BoundTypes
  <2> HIDE DEF n
  <2> QED
    BY <1>1, <2>1, BoundTypes
<1>4. \E k \in Kids : child[k] = "none"
  <2>1. Used # Kids
    BY <1>1, <1>3, BoundTypes
  <2> QED
    BY <2>1 DEF Used
<1>5. NewKid \in Kids /\ child[NewKid] = "none"
  BY <1>4 DEF NewKid
<1>6. PICK new \in Kids : new = NewKid /\ child[new] = "none"
  BY <1>5
<1>7. child' = [child EXCEPT ![new] = "lock"] /\ children' = Append(children, new)
  BY <1>6 DEF Fork
<1>8. children' \in Seq(Kids) /\ Len(children') = Len(children) + 1 /\ children' # <<>>
  BY <1>1, <1>7
<1>9. TypeOK'
  <2>1. RestOK
    BY TypeParts DEF TInv
  <2>2. pc' \in {"fork", "wait"} /\ UNCHANGED <<segment, mutex, data, flags, tmp>>
    BY DEF Fork, Server_
  <2>3. RestOK'
    BY <1>7, <2>1, <2>2 DEF RestOK, data, flags
  <2>4. Len(children') <= CHILDREN
    BY <1>1, <1>8, BoundTypes
  <2> QED
    BY <1>8, <2>3, <2>4, TypeParts
<1>10. Used' = Used \cup {new} /\ new \notin Used
  BY <1>6, <1>7 DEF Used, TInv, TypeOK
<1>11. Cardinality(Used') = c + 1
  BY <1>10, UsedFinite, FS_AddElement
<1>12. /\ rounds' = rounds
       /\ pc' = IF Len(children) + 1 < CHILDREN THEN "fork" ELSE "wait"
  BY DEF Fork, Server_, bounds
<1> HIDE DEF c, m
<1>13. /\ c + 1 <= m
       /\ pc' = "fork" => Len(children') < CHILDREN /\ c + 1 + CHILDREN <= m + Len(children')
  BY <1>1, <1>8, <1>12, BoundTypes
<1> QED
  BY <1>1, <1>8, <1>9, <1>11, <1>12, <1>13 DEF TInv, Forking, m

LEMMA WaitTypes == TInv /\ Wait => TInv'
<1> SUFFICES ASSUME TInv, Wait PROVE TInv'
  OBVIOUS
<1>1. children \in Seq(Kids) /\ children # <<>> /\ Len(children) <= CHILDREN
  BY DEF TInv, TypeOK, Forking, Wait, Server_
<1>2. /\ Head(children) \in Kids /\ Tail(children) \in Seq(Kids)
      /\ Len(Tail(children)) = Len(children) - 1 /\ Len(children) \in Nat
  BY <1>1
<1>3. TypeOK'
  <2>1. RestOK
    BY TypeParts DEF TInv
  <2>2. /\ pc' \in {"alarm", "wait"} /\ UNCHANGED <<segment, mutex, data, flags, tmp>>
        /\ child' = [child EXCEPT ![Head(children)] = "none"]
    BY DEF Wait, Server_, AfterWait
  <2>3. RestOK'
    BY <1>2, <2>1, <2>2 DEF RestOK, data, flags
  <2>4. children' \in Seq(Kids) /\ Len(children') <= CHILDREN
    BY <1>1, <1>2, BoundTypes DEF Wait
  <2> QED
    BY <2>3, <2>4, TypeParts
<1>4. Used' \subseteq Used
  BY <1>2 DEF Wait, Used, TInv, TypeOK
<1>5. pc' = "wait" => children' # <<>>
  <2>1. pc' = "wait" => Len(children) # 1
    BY DEF Wait, Server_, AfterWait
  <2>2. children' = Tail(children)
    BY DEF Wait
  <2>3. pc' = "wait" => Len(children') >= 1
    BY <1>1, <1>2, <2>1, <2>2
  <2> QED
    BY <2>3
<1>6. pc' # "fork" /\ rounds' = rounds
  BY DEF Wait, Server_, AfterWait, bounds
<1> QED
  BY <1>3, <1>4, <1>5, <1>6, NoFork

\* SIGALRM may end the wait for a child before it.
LEMMA AlarmTypes == TInv /\ AlarmExpires => TInv'
<1> SUFFICES ASSUME TInv, AlarmExpires PROVE TInv'
  OBVIOUS
<1>1. Used' = Used /\ rounds' = rounds
  BY DEF AlarmExpires, Used, bounds
<1>2. CASE pc' = Woken /\ UNCHANGED children
  <2>1. TypeOK'
    BY <1>2 DEF TInv, TypeOK, AlarmExpires, Woken, data, bounds
  <2>2. pc' = pc \/ pc' = "check"
    BY <1>2 DEF Woken
  <2> QED
    BY <1>1, <1>2, <2>1, <2>2, NoFork DEF TInv, Forking
<1>3. CASE pc = "wait" /\ pc' = AfterWait /\ children' = Tail(children)
  <2>1. children \in Seq(Kids) /\ children # <<>> /\ Len(children) <= CHILDREN
    BY <1>3 DEF TInv, TypeOK, Forking
  <2>2. /\ Tail(children) \in Seq(Kids)
        /\ Len(Tail(children)) = Len(children) - 1 /\ Len(children) \in Nat
    BY <2>1
  <2>3. TypeOK'
    <3>1. RestOK
      BY TypeParts DEF TInv
    <3>2. /\ pc' \in {"alarm", "wait"} /\ alarm_flag' = 1 /\ timer' = timer \ {Server}
          /\ Server \notin asking /\ UNCHANGED <<segment, mutex, data, shutdownflag, asking, child, tmp>>
      BY <1>3 DEF AlarmExpires, AfterWait
    <3>3. RestOK'
      BY <3>1, <3>2 DEF RestOK, data
    <3>4. children' \in Seq(Kids) /\ Len(children') <= CHILDREN
      BY <1>3, <2>1, <2>2, BoundTypes
    <3> QED
      BY <3>3, <3>4, TypeParts
  <2>4. pc' = "wait" => children' # <<>>
    <3>1. pc' = "wait" => Len(children) # 1
      BY <1>3 DEF AfterWait
    <3>2. pc' = "wait" => Len(children') >= 1
      BY <1>3, <2>1, <2>2, <3>1
    <3> QED
      BY <3>2
  <2> QED
    BY <1>1, <1>3, <2>3, <2>4, NoFork DEF AfterWait
<1> QED
  BY <1>2, <1>3 DEF AlarmExpires

\* The processes' steps.
LEMMA ChildTypes == ASSUME TInv, NEW k \in Kids, ChildStep(k) PROVE TInv'
<1>1. PICK from \in {"lock", "book", "write", "unlock"},
           to \in {"book", "write", "unlock", "exited"} : Child_(k, from, to)
  BY DEF ChildStep, ChildLock, ChildBook, clientAccessAccount, ChildExit
<1>2. Used' = Used
  BY <1>1 DEF Child_, Used, TInv, TypeOK
<1>3. /\ child' \in [Kids -> {"none", "lock", "book", "write", "unlock", "exited"}]
      /\ UNCHANGED <<segment, pc, children, alarm_flag, shutdownflag, asking, rounds>>
  BY <1>1 DEF Child_, bounds, TInv, TypeOK
<1>4. TypeOK'
  <2>1. CASE ChildLock(k)
    BY <1>3, <2>1 DEF ChildLock, TInv, TypeOK, data
  <2>2. CASE ChildBook(k)
    <3>1. PICK a \in Accounts, x \in Actions :
            tmp' = [tmp EXCEPT ![k] = [account |-> a, action |-> x, read |-> saldo[a]]]
      BY <2>2 DEF ChildBook
    <3>2. [account |-> a, action |-> x, read |-> saldo[a]] \in Pending
      BY DEF TInv, TypeOK, Pending
    <3>3. tmp' \in [Kids -> Pending]
      BY <3>1, <3>2 DEF TInv, TypeOK, Pending
    <3> QED
      BY <1>3, <2>2, <3>3 DEF ChildBook, TInv, TypeOK, Pending
  <2>3. CASE clientAccessAccount(k)
    <3>1. tmp[k] \in Pending
      BY DEF TInv, TypeOK, Pending
    <3>2. tmp[k].account \in Accounts /\ tmp[k].action \in Actions \cup {0} /\ tmp[k].read \in Int
      BY <3>1 DEF Pending
    <3>3. Actions \cup {0} \subseteq Int
      BY BankingAssumption
    <3>4. PICK a \in Accounts, x \in Int, r \in Int :
            a = tmp[k].account /\ x = tmp[k].action /\ r = tmp[k].read
      BY <3>2, <3>3
    <3>5. saldo' \in [Accounts -> Int] /\ booked' \in [Accounts -> Int]
      BY <2>3, <3>4 DEF clientAccessAccount, TInv, TypeOK
    <3>6. tmp' \in [Kids -> Pending]
      BY <2>3, NothingPending DEF clientAccessAccount, TInv, TypeOK, Pending
    <3> QED
      BY <1>3, <2>3, <3>5, <3>6 DEF clientAccessAccount, TInv, TypeOK, Pending
  <2>4. CASE ChildExit(k)
    BY <1>3, <2>4 DEF ChildExit, TInv, TypeOK, data
  <2> QED
    BY <2>1, <2>2, <2>3, <2>4 DEF ChildStep
<1> QED
  BY <1>2, <1>3, <1>4, NoFork DEF TInv, Forking

\* Everything else: no process is forked, waited for or changed, unless all are killed.
LEMMA OtherTypes ==
  ASSUME TInv,
         \/ Start \/ ZeroLock \/ Zero \/ ForkFails \/ SetAlarm \/ Pause \/ Check
         \/ ServerLock \/ ServerReadAccounts \/ ServerUnlock \/ Clear \/ Interrupt
         \/ AlarmWhileAsking \/ Hangup \/ Answer(Server)
         \/ \E k \in Kids : AlarmOfChild(k) \/ Answer(k)
  PROVE  TInv'
<1> USE DEF Server_, Woken, data, flags, kids, bounds
<1>1. Used' \subseteq Used /\ rounds' = rounds
  BY DEF Used, Start, ZeroLock, Zero, ForkFails, SetAlarm, Pause, Check, ServerLock,
         ServerReadAccounts, ServerUnlock, Clear, Interrupt, AlarmWhileAsking, Hangup,
         Answer, AlarmOfChild
<1>2. pc' \in {"wait", "fork"} => pc' = pc /\ children' = children
  BY DEF Start, ZeroLock, Zero, ForkFails, SetAlarm, Pause, Check, ServerLock,
         ServerReadAccounts, ServerUnlock, Clear, Interrupt, AlarmWhileAsking, Hangup,
         Answer, AlarmOfChild
<1>3. TypeOK'
  <2> USE DEF TInv, TypeOK
  <2>1. CASE Start
    BY <2>1, ZerosType DEF Start, Zeros
  <2>2. CASE Zero
    BY <2>2, ZerosType DEF Zero, Zeros
  <2>3. CASE ServerReadAccounts
    BY <2>3, BankingAssumption DEF ServerReadAccounts
  <2>4. CASE ZeroLock \/ ForkFails \/ SetAlarm \/ Pause \/ Check \/ ServerLock \/ ServerUnlock
    BY <2>4 DEF ZeroLock, ForkFails, SetAlarm, Pause, Check, ServerLock, ServerUnlock
  <2>5. CASE Clear
    BY <2>5 DEF Clear
  <2>6. CASE Hangup
    <3>1. tmp' \in [Kids -> Pending]
      BY <2>6, NothingPending DEF Hangup
    <3> QED
      BY <2>6, <3>1, BoundTypes DEF Hangup, Pending
  <2>7. CASE Interrupt
    BY <2>7 DEF Interrupt, LiveKids
  <2>8. CASE AlarmWhileAsking
    BY <2>8 DEF AlarmWhileAsking
  <2>9. ASSUME NEW q, Answer(q) PROVE TypeOK'
    BY <2>9 DEF Answer
  <2>10. ASSUME NEW k \in Kids, AlarmOfChild(k) PROVE TypeOK'
    BY <2>10 DEF AlarmOfChild
  <2> QED
    BY <2>1, <2>2, <2>3, <2>4, <2>5, <2>6, <2>7, <2>8, <2>9, <2>10
<1> QED
  BY <1>1, <1>2, <1>3, NoFork DEF TInv, Forking

LEMMA NextTInv == TInv /\ [Next]_vars => TInv'
<1> SUFFICES ASSUME TInv, [Next]_vars PROVE TInv'
  OBVIOUS
<1>1. CASE UNCHANGED vars
  BY <1>1 DEF vars, data, flags, kids, bounds, TInv, TypeOK, Forking, Used
<1>2. CASE Next
  BY <1>2, LoopTypes, ForkTypes, WaitTypes, AlarmTypes, ChildTypes, OtherTypes
  DEF Next, ServerStep, Alarm
<1> QED
  BY <1>1, <1>2

\* Every variable stays in its type: in particular the places of the array children
\* suffice (bankingsystem.c:189-214), however often an alarm ends a wait early, and Kids holds
\* enough processes for every fork.
THEOREM TypeCorrect == Spec => []TypeOK
<1>1. TInv => TypeOK
  BY DEF TInv
<1> QED
  BY InitTInv, NextTInv, <1>1, PTL DEF Spec

=============================================================================
