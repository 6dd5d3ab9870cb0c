------------------------------- MODULE Banking -------------------------------
(***************************************************************************)
(* Aufgabe_6_5/bankingsystem.c: in each round the server forks children    *)
(* that book on accounts in a shared segment, waits for them and for an    *)
(* alarm, and grants credit to accounts below zero.  SIGINT asks whether   *)
(* to end.  The segment has a mutex, and a name under which it survives    *)
(* the program if that does not get to its end.                            *)
(***************************************************************************)
EXTENDS Integers, Sequences, FiniteSets

CONSTANTS
  Accounts,      \* 10 in the program
  Actions,       \* the amounts that are booked, -100 .. 99
  CREDIT,        \* what an account below zero is granted, 1000
  CHILDREN,      \* children in a round, 4
  Kids,          \* the processes that can be forked: enough for all rounds
  Free, Server, Dead,  \* holders of the mutex besides the children
  ROUNDS, STARTS, SIGNALS, HANGUPS  \* bounds of the model: how often that happens

ASSUME BankingAssumption ==
  /\ Accounts # {} /\ Actions \subseteq Int /\ CREDIT \in Nat
  /\ CHILDREN \in Nat \ {0}
  /\ {ROUNDS, STARTS, SIGNALS, HANGUPS} \subseteq Nat
  /\ IsFiniteSet(Kids) /\ Cardinality(Kids) >= CHILDREN * ROUNDS
  /\ Free # Server /\ Server # Dead /\ Free # Dead /\ {Free, Server, Dead} \cap Kids = {}

VARIABLES
  segment,      \* is there a segment with the name SHM_NAME?
  mutex,        \* who holds the mutex in it
  counter, saldo, kredit,
  booked,       \* history: what has been booked on an account since it was zeroed,
  bookings,     \* and how many bookings there were
  pc,           \* the server's next statement
  children,     \* the children of the round that are not waited for yet
  alarm_flag, shutdownflag,
  timer,        \* the processes that have an alarm set,
  asking,       \* and those in graceful_shutdown_handler
  child,        \* child[k]: the next statement of child k
  tmp,          \* tmp[k]: the account, the action and the saldo that k has read
  rounds, starts, signals, hangups

data == <<counter, saldo, kredit, booked, bookings>>
flags == <<alarm_flag, shutdownflag, timer, asking>>
kids == <<children, child, tmp>>
bounds == <<rounds, starts, signals, hangups>>
vars == <<segment, mutex, data, pc, flags, kids, bounds>>

Zeros == [a \in Accounts |-> 0]
Nothing == [account |-> CHOOSE a \in Accounts : TRUE, action |-> 0, read |-> 0]

Init ==
  /\ segment = FALSE /\ mutex = Free
  /\ counter = 0 /\ saldo = Zeros /\ kredit = Zeros /\ booked = Zeros /\ bookings = 0
  /\ pc = "down" /\ children = <<>>
  /\ alarm_flag = 0 /\ shutdownflag = 0 /\ timer = {} /\ asking = {}
  /\ child = [k \in Kids |-> "none"] /\ tmp = [k \in Kids |-> Nothing]
  /\ rounds = 0 /\ starts = 0 /\ signals = 0 /\ hangups = 0

-----------------------------------------------------------------------------
(* main before the first round *)

\* A step of the server; a handler keeps it from going on.
Server_(from, to) == pc = from /\ Server \notin asking /\ pc' = to

\* A segment that a run has left behind is used again; a new one is all zero,
\* which is a free mutex.
Start ==
  /\ Server_("down", "zero_lock")
  /\ starts < STARTS /\ starts' = starts + 1
  /\ segment' = TRUE
  /\ counter' = 0 /\ bookings' = 0
  /\ mutex' = IF segment THEN mutex ELSE Free
  /\ saldo' = IF segment THEN saldo ELSE Zeros
  /\ kredit' = IF segment THEN kredit ELSE Zeros
  /\ booked' = IF segment THEN booked ELSE Zeros
  /\ alarm_flag' = 0 /\ shutdownflag' = 0
  /\ UNCHANGED <<timer, asking, kids, rounds, signals, hangups>>

\* The mutex is locked before it is initialised.
ZeroLock ==
  /\ Server_("zero_lock", "zero")
  /\ mutex = Free /\ mutex' = Server
  /\ UNCHANGED <<segment, data, flags, kids, bounds>>

\* Zeroing, unlock and pthread_mutex_init; nobody else uses the segment yet.
Zero ==
  /\ Server_("zero", "loop")
  /\ saldo' = Zeros /\ kredit' = Zeros /\ booked' = Zeros
  /\ mutex' = Free
  /\ UNCHANGED <<segment, counter, bookings, flags, kids, bounds>>

-----------------------------------------------------------------------------
(* A round of the server *)

Loop ==
  /\ Server_("loop", IF shutdownflag = 0 THEN "fork" ELSE "clear")
  /\ shutdownflag = 0 => rounds < ROUNDS
  /\ rounds' = IF shutdownflag = 0 THEN rounds + 1 ELSE rounds
  /\ children' = <<>>
  /\ UNCHANGED <<segment, mutex, data, flags, child, tmp, starts, signals, hangups>>

NewKid == CHOOSE k \in Kids : child[k] = "none"

\* Faulty variant: the loop runs once more than there are places in children.
ForkOffByOne ==
  /\ Server_("fork", IF Len(children) < CHILDREN THEN "fork" ELSE "wait")
  /\ child' = [child EXCEPT ![NewKid] = "lock"]
  /\ children' = Append(children, NewKid)
  /\ UNCHANGED <<segment, mutex, data, flags, tmp, bounds>>

Fork ==
  /\ Server_("fork", IF Len(children) + 1 < CHILDREN THEN "fork" ELSE "wait")
  /\ child' = [child EXCEPT ![NewKid] = "lock"]
  /\ children' = Append(children, NewKid)
  /\ UNCHANGED <<segment, mutex, data, flags, tmp, bounds>>

\* main exits and leaves segment and children behind.  What the next start would do
\* beside such children is left out.
ForkFails ==
  /\ Server_("fork", "down")
  /\ starts = STARTS
  /\ timer' = timer \ {Server}
  /\ UNCHANGED <<segment, mutex, data, alarm_flag, shutdownflag, asking, kids, bounds>>

AfterWait == IF Len(children) = 1 THEN "alarm" ELSE "wait"

\* waitpid for the next child of the round
Wait ==
  /\ Server_("wait", AfterWait)
  /\ child[Head(children)] = "exited"
  /\ child' = [child EXCEPT ![Head(children)] = "none"]
  /\ children' = Tail(children)
  /\ UNCHANGED <<segment, mutex, data, flags, tmp, bounds>>

\* alarm(3)
SetAlarm ==
  /\ Server_("alarm", "alarmed")
  /\ timer' = timer \cup {Server}
  /\ UNCHANGED <<segment, mutex, data, alarm_flag, shutdownflag, asking, kids, bounds>>

\* pause() begins; a signal ends it.
Pause ==
  /\ Server_("alarmed", "pause")
  /\ UNCHANGED <<segment, mutex, data, flags, kids, bounds>>

Check ==
  /\ Server_("check", IF alarm_flag = 1 THEN "lock" ELSE "loop")
  /\ UNCHANGED <<segment, mutex, data, flags, kids, bounds>>

ServerLock ==
  /\ Server_("lock", "read")
  /\ mutex = Free /\ mutex' = Server
  /\ UNCHANGED <<segment, data, flags, kids, bounds>>

\* An account below zero is granted a credit, which is paid out at once.
ServerReadAccounts ==
  /\ Server_("read", "unlock")
  /\ kredit' = [a \in Accounts |-> IF saldo[a] < 0 THEN kredit[a] + CREDIT ELSE kredit[a]]
  /\ saldo' = [a \in Accounts |-> IF saldo[a] < 0 THEN saldo[a] + CREDIT ELSE saldo[a]]
  /\ UNCHANGED <<segment, mutex, counter, booked, bookings, flags, kids, bounds>>

\* Faulty variant: the mutex is not given back.
ServerUnlockNot ==
  /\ Server_("unlock", "loop")
  /\ alarm_flag' = 0
  /\ UNCHANGED <<segment, mutex, data, shutdownflag, timer, asking, kids, bounds>>

ServerUnlock ==
  /\ Server_("unlock", "loop")
  /\ mutex' = Free
  /\ alarm_flag' = 0
  /\ UNCHANGED <<segment, data, shutdownflag, timer, asking, kids, bounds>>

\* The name of the segment is removed and the process ends.  Children nobody has
\* waited for work on in a segment that no other process will see: they are dropped.
Clear ==
  /\ Server_("clear", "down")
  /\ segment' = FALSE
  /\ timer' = {} /\ asking' = {}
  /\ child' = [k \in Kids |-> "none"]
  /\ UNCHANGED <<mutex, data, alarm_flag, shutdownflag, children, tmp, bounds>>

ServerStep ==
  \/ ZeroLock \/ Zero \/ Loop \/ Fork \/ Wait \/ SetAlarm \/ Pause \/ Check
  \/ ServerLock \/ ServerReadAccounts \/ ServerUnlock \/ Clear

-----------------------------------------------------------------------------
(* The children *)

Child_(k, from, to) ==
  /\ child[k] = from /\ k \notin asking
  /\ child' = [child EXCEPT ![k] = to]
  /\ UNCHANGED <<segment, pc, children, alarm_flag, shutdownflag, asking, bounds>>

\* Faulty variant: the critical region is not protected.
ChildLockNot(k) ==
  /\ Child_(k, "lock", "book")
  /\ UNCHANGED <<mutex, data, timer, tmp>>

ChildLock(k) ==
  /\ Child_(k, "lock", "book")
  /\ mutex = Free /\ mutex' = k
  /\ UNCHANGED <<data, timer, tmp>>

\* counter += 1, and the first half of saldo += action for the account and the action
\* that rand gives
ChildBook(k) ==
  /\ Child_(k, "book", "write")
  /\ counter' = counter + 1 /\ bookings' = bookings + 1
  /\ \E a \in Accounts, x \in Actions :
       tmp' = [tmp EXCEPT ![k] = [account |-> a, action |-> x, read |-> saldo[a]]]
  /\ UNCHANGED <<mutex, saldo, kredit, booked, timer>>

\* The second half of saldo += action
clientAccessAccount(k) ==
  /\ Child_(k, "write", "unlock")
  /\ saldo' = [saldo EXCEPT ![tmp[k].account] = tmp[k].read + tmp[k].action]
  /\ booked' = [booked EXCEPT ![tmp[k].account] = @ + tmp[k].action]
  /\ tmp' = [tmp EXCEPT ![k] = Nothing]
  /\ UNCHANGED <<mutex, counter, kredit, bookings, timer>>

ChildExit(k) ==
  /\ Child_(k, "unlock", "exited")
  /\ mutex' = Free
  /\ timer' = timer \ {k}
  /\ UNCHANGED <<data, tmp>>

ChildStep(k) == ChildLock(k) \/ ChildBook(k) \/ clientAccessAccount(k) \/ ChildExit(k)

-----------------------------------------------------------------------------
(* Signals *)

LiveKids == {k \in Kids : child[k] \notin {"none", "exited"}}

\* A handler that ends also ends pause.
Woken == IF pc = "pause" THEN "check" ELSE pc

\* Faulty variant: the handler asks without setting an alarm.
InterruptSilent ==
  /\ pc # "down" /\ Server \notin asking
  /\ signals < SIGNALS /\ signals' = signals + 1
  /\ \E to \in {{Server}, {Server} \cup LiveKids} : asking' = asking \cup to
  /\ UNCHANGED <<segment, mutex, data, pc, alarm_flag, shutdownflag, timer, kids,
                 rounds, starts, hangups>>

\* SIGINT (or SIGTERM, SIGQUIT) for the server, from the terminal also for the
\* children, which have its handlers: alarm(20) and the question.
Interrupt ==
  /\ pc # "down" /\ Server \notin asking
  /\ signals < SIGNALS /\ signals' = signals + 1
  /\ \E to \in {{Server}, {Server} \cup LiveKids} :
       asking' = asking \cup to /\ timer' = timer \cup to
  /\ UNCHANGED <<segment, mutex, data, pc, alarm_flag, shutdownflag, kids,
                 rounds, starts, hangups>>

\* The user answers p; a child has flags of its own, which it does not look at.
Answer(p) ==
  /\ p \in asking
  /\ asking' = asking \ {p}
  /\ IF p = Server THEN shutdownflag' \in {shutdownflag, 1} /\ pc' = Woken
     ELSE UNCHANGED <<shutdownflag, pc>>
  /\ UNCHANGED <<segment, mutex, data, alarm_flag, timer, kids, bounds>>

\* SIGALRM for a child that asks: fgets fails, and it goes on.
AlarmOfChild(k) ==
  /\ k \in timer \cap Kids
  /\ timer' = timer \ {k} /\ asking' = asking \ {k}
  /\ UNCHANGED <<segment, mutex, data, pc, alarm_flag, shutdownflag, kids, bounds>>

\* SIGALRM for the server while it asks: fgets fails unnoticed, and the answer is
\* what happens to be in the buffer.
AlarmWhileAsking ==
  /\ Server \in timer \cap asking
  /\ timer' = timer \ {Server} /\ asking' = asking \ {Server}
  /\ alarm_flag' = 1 /\ shutdownflag' \in {shutdownflag, 1}
  /\ pc' = Woken
  /\ UNCHANGED <<segment, mutex, data, kids, bounds>>

\* SIGALRM otherwise.  It ends a pause, if that has begun, and a waitpid that blocks;
\* the handler was installed without SA_RESTART.
AlarmExpires ==
  /\ Server \in timer \ asking
  /\ timer' = timer \ {Server}
  /\ alarm_flag' = 1
  /\ \/ pc' = Woken /\ UNCHANGED children
     \/ /\ pc = "wait" /\ child[Head(children)] # "exited"
        /\ pc' = AfterWait /\ children' = Tail(children)
  /\ UNCHANGED <<segment, mutex, data, shutdownflag, asking, child, tmp, bounds>>

\* The terminal goes away: all processes are killed, the segment stays.
Hangup ==
  /\ pc # "down"
  /\ hangups < HANGUPS /\ hangups' = hangups + 1
  /\ pc' = "down"
  /\ mutex' = IF mutex = Free THEN Free ELSE Dead
  /\ child' = [k \in Kids |-> "none"] /\ tmp' = [k \in Kids |-> Nothing]
  /\ children' = <<>> /\ timer' = {} /\ asking' = {}
  /\ UNCHANGED <<segment, data, alarm_flag, shutdownflag, rounds, starts, signals>>

-----------------------------------------------------------------------------

Alarm == AlarmWhileAsking \/ AlarmExpires

Next ==
  \/ Start \/ ServerStep \/ ForkFails
  \/ Interrupt \/ Alarm \/ Hangup
  \/ Answer(Server)
  \/ \E k \in Kids : ChildStep(k) \/ AlarmOfChild(k) \/ Answer(k)

Spec == Init /\ [][Next]_vars

\* Processes that can go on do so, and alarms go off.  Nobody need answer.
Fairness ==
  /\ WF_vars(ServerStep) /\ WF_vars(Alarm)
  /\ \A k \in Kids : WF_vars(ChildStep(k)) /\ WF_vars(AlarmOfChild(k))

FairSpec == Spec /\ Fairness

-----------------------------------------------------------------------------
(* Properties *)

TypeOK ==
  /\ segment \in BOOLEAN /\ mutex \in {Free, Server, Dead} \cup Kids
  /\ counter \in Nat /\ bookings \in Nat
  /\ saldo \in [Accounts -> Int] /\ booked \in [Accounts -> Int] /\ kredit \in [Accounts -> Nat]
  /\ pc \in {"down", "zero_lock", "zero", "loop", "fork", "wait", "alarm", "alarmed",
             "pause", "check", "lock", "read", "unlock", "clear"}
  /\ children \in Seq(Kids) /\ Len(children) <= CHILDREN
  /\ alarm_flag \in {0, 1} /\ shutdownflag \in {0, 1}
  /\ timer \subseteq Kids \cup {Server} /\ asking \subseteq timer \cup {Server} \cup Kids
  /\ child \in [Kids -> {"none", "lock", "book", "write", "unlock", "exited"}]
  /\ tmp \in [Kids -> [account : Accounts, action : Actions \cup {0}, read : Int]]

\* "critical region start .. end" (:203-206): whenever the mutex is free, each account
\* that was zeroed has its credits and all that was ever booked on it, and the
\* counter the number of the bookings, also with children of an earlier round that
\* nobody has waited for.
Ledger ==
  mutex = Free =>
    /\ counter = bookings
    /\ \A a \in Accounts : saldo[a] - kredit[a] = booked[a]

\* "STRG + C gives me 20 seconds to act, otherwise go on with routine" (:46): no
\* process asks for ever, though nobody answers.
AskingEnds == \A p \in Kids \cup {Server} : (p \in asking) ~> (p \notin asking)

\* pause with no alarm to come: the one that should have ended it went off before, be it
\* late or in a question that came after alarm(3) and had replaced it by its own (:48).
PausesForEver == pc = "pause" /\ Server \notin timer \cup asking

\* Once the user wants to end, the server gets through its round to the end, waiting
\* for children, mutex and alarm on the way, whatever signals come when; unless the
\* alarm was over before pause began (:216-218), or it waits for a mutex whose owner
\* was killed in an earlier run.
ShutdownCleansUp == (shutdownflag = 1) ~> (pc = "down" \/ PausesForEver \/ mutex = Dead)

=============================================================================
