----------------------------- MODULE PrintQueue -----------------------------
(***************************************************************************)
(* Aufgabe_6_3/printserver.c and Aufgabe_6_4/client.c: clients send a      *)
(* print job to the server's message queue and wait for feedback on a      *)
(* queue of their own - which has the same name for all of them, is        *)
(* opened by the server anew for each job, and unlinked by every client    *)
(* that has its answer.                                                    *)
(*                                                                         *)
(* A message is a job, named by its client, with its priority; what is     *)
(* printed and whether printing failed is left out.                        *)
(***************************************************************************)
EXTENDS Mqueue

CONSTANTS
  Clients,    \* the clients that are started, each once
  Prios,      \* the priorities they are given
  LIMIT,      \* replies after which the server ends, 20
  STARTS,     \* bound of the model: how often the server is started
  KILLS,      \* bound of the model: how many processes are killed
  None        \* no queue, no job

ASSUME PrintQueueAssumption ==
  /\ mq_maxmsg \in Nat \ {0}
  /\ LIMIT \in Nat \ {0}
  /\ STARTS \in Nat /\ KILLS \in Nat
  /\ Prios \subseteq Nat
  /\ None \notin Clients \cup Nat

VARIABLES
  alone,       \* does the user wait for a client to end before starting another?
  server,      \* the server's next statement
  mqd_server,  \* the server queue that the server has open
  mqd_client,  \* the client queue the server opened last
  job,         \* the job the server has taken
  schleifencounter,
  starts, kills,
  serverName,  \* the queue with the server's name, or None
  serverQueue, \* serverQueue[n]: the messages in the n-th server queue
  client,      \* client[c]: the next statement of client c
  clientName,  \* the queue with the clients' name, or None
  clientQueue, \* clientQueue[c]: the messages in the queue that c created
  own,         \* own[c]: the client queue that c has open
  dest,        \* dest[c]: the server queue that c has open
  got          \* got[c]: the job whose feedback client c has received

serverVars == <<server, mqd_server, mqd_client, job, schleifencounter, starts, kills, serverName>>
clientVars == <<client, clientName, own, dest, got>>
vars == <<alone, serverVars, serverQueue, clientVars, clientQueue>>

Queues == 1 .. STARTS

Init ==
  /\ alone \in BOOLEAN
  /\ server = "down" /\ mqd_server = None /\ mqd_client = None /\ job = None
  /\ schleifencounter = 0 /\ starts = 0 /\ kills = 0
  /\ serverName = None
  /\ serverQueue = [n \in Queues |-> <<>>]
  /\ client = [c \in Clients |-> "start"]
  /\ clientName = None
  /\ clientQueue = [c \in Clients |-> <<>>]
  /\ own = [c \in Clients |-> None]
  /\ dest = [c \in Clients |-> None]
  /\ got = [c \in Clients |-> None]

-----------------------------------------------------------------------------
(* printserver.c *)

ServerStep(from, to) == server = from /\ server' = to

\* The server is started; mq_open creates the queue if the name is free.
ServerStart ==
  /\ ServerStep("down", "receive")
  /\ starts < STARTS
  /\ starts' = starts + 1
  /\ mqd_server' = IF serverName = None THEN starts + 1 ELSE serverName
  /\ serverName' = mqd_server'
  /\ schleifencounter' = 0
  /\ UNCHANGED <<alone, mqd_client, job, kills, serverQueue, clientVars, clientQueue>>

\* Faulty variant: the message stays in the queue.
ServerReceivePeek ==
  /\ ServerStep("receive", "open")
  /\ CanReceive(serverQueue[mqd_server])
  /\ job' = Head(serverQueue[mqd_server]).job
  /\ UNCHANGED <<alone, mqd_server, mqd_client, schleifencounter, starts, kills, serverName,
                 serverQueue, clientVars, clientQueue>>

ServerReceive ==
  /\ ServerStep("receive", "open")
  /\ CanReceive(serverQueue[mqd_server])
  /\ job' = Head(serverQueue[mqd_server]).job
  /\ serverQueue' = [serverQueue EXCEPT ![mqd_server] = Tail(@)]
  /\ UNCHANGED <<alone, mqd_server, mqd_client, schleifencounter, starts, kills, serverName,
                 clientVars, clientQueue>>

\* mq_open of the clients' name; its failure is compared with 1 and goes unnoticed.
ServerOpen ==
  /\ ServerStep("open", "reply")
  /\ mqd_client' = clientName
  /\ UNCHANGED <<alone, mqd_server, job, schleifencounter, starts, kills, serverName,
                 serverQueue, clientVars, clientQueue>>

\* Faulty variant: the request is kept after it has been answered.
ServerReplyKeeping ==
  /\ mqd_client # None /\ CanSend(clientQueue[mqd_client])
  /\ clientQueue' = [clientQueue EXCEPT ![mqd_client] = Sent(@, [job |-> job, prio |-> 0])]
  /\ schleifencounter' = schleifencounter + 1
  /\ ServerStep("reply", IF schleifencounter + 1 < LIMIT THEN "receive" ELSE "close")
  /\ UNCHANGED <<alone, mqd_server, mqd_client, job, starts, kills, serverName, serverQueue, clientVars>>

\* The feedback goes to the queue that had the name when it was opened ...
ServerReply ==
  /\ mqd_client # None /\ CanSend(clientQueue[mqd_client])
  /\ clientQueue' = [clientQueue EXCEPT ![mqd_client] = Sent(@, [job |-> job, prio |-> 0])]
  /\ schleifencounter' = schleifencounter + 1
  /\ job' = None
  /\ ServerStep("reply", IF schleifencounter + 1 < LIMIT THEN "receive" ELSE "close")
  /\ UNCHANGED <<alone, mqd_server, mqd_client, starts, kills, serverName, serverQueue, clientVars>>

\* Faulty variant: there is no feedback on a job that failed.
ServerDropFailed ==
  /\ ServerStep("reply", "receive")
  /\ job' = None
  /\ UNCHANGED <<alone, mqd_server, mqd_client, schleifencounter, starts, kills, serverName,
                 serverQueue, clientVars, clientQueue>>

\* ... and nowhere if there was none: the job is dropped and not counted.
ServerDrop ==
  /\ mqd_client = None
  /\ ServerStep("reply", "receive")
  /\ job' = None
  /\ UNCHANGED <<alone, mqd_server, mqd_client, schleifencounter, starts, kills, serverName,
                 serverQueue, clientVars, clientQueue>>

ServerClose ==
  /\ ServerStep("close", "unlink")
  /\ mqd_server' = None
  /\ UNCHANGED <<alone, mqd_client, job, schleifencounter, starts, kills, serverName,
                 serverQueue, clientVars, clientQueue>>

ServerUnlink ==
  /\ ServerStep("unlink", "down")
  /\ serverName' = None
  /\ mqd_client' = None
  /\ UNCHANGED <<alone, mqd_server, job, schleifencounter, starts, kills,
                 serverQueue, clientVars, clientQueue>>

\* The server is killed and leaves its queue behind.
ServerKilled ==
  /\ server # "down"
  /\ kills < KILLS
  /\ kills' = kills + 1
  /\ server' = "down"
  /\ mqd_server' = None /\ mqd_client' = None /\ job' = None
  /\ UNCHANGED <<alone, schleifencounter, starts, serverName, serverQueue, clientVars, clientQueue>>

ServerRuns ==
  \/ ServerReceive \/ ServerOpen \/ ServerReply \/ ServerDrop \/ ServerClose \/ ServerUnlink

-----------------------------------------------------------------------------
(* client.c *)

ClientStep(c, from, to) == client[c] = from /\ client' = [client EXCEPT ![c] = to]

Ended == {"done", "failed", "killed"}

\* The client is started and opens the clients' queue, or creates it.
ClientOpen(c) ==
  /\ alone => \A d \in Clients : client[d] \in Ended \cup {"start"}
  /\ ClientStep(c, "start", "server")
  /\ own' = [own EXCEPT ![c] = IF clientName = None THEN c ELSE clientName]
  /\ clientName' = own'[c]
  /\ UNCHANGED <<alone, serverVars, serverQueue, dest, got, clientQueue>>

\* Without a server queue the client exits, and leaves its own queue behind.
ClientOpenServer(c) ==
  /\ ClientStep(c, "server", IF serverName = None THEN "failed" ELSE "send")
  /\ dest' = [dest EXCEPT ![c] = serverName]
  /\ UNCHANGED <<alone, serverVars, serverQueue, clientName, own, got, clientQueue>>

ClientSend(c) ==
  /\ ClientStep(c, "send", "receive")
  /\ CanSend(serverQueue[dest[c]])
  /\ \E p \in Prios :
       serverQueue' = [serverQueue EXCEPT ![dest[c]] = Sent(@, [job |-> c, prio |-> p])]
  /\ UNCHANGED <<alone, serverVars, clientName, own, dest, got, clientQueue>>

\* mq_send takes no priority beyond MQ_PRIO_MAX, and atoi yields any; the client
\* exits as above.
ClientSendRefused(c) ==
  /\ ClientStep(c, "send", "failed")
  /\ UNCHANGED <<alone, serverVars, serverQueue, clientName, own, dest, got, clientQueue>>

ClientReceive(c) ==
  /\ ClientStep(c, "receive", "unlink")
  /\ CanReceive(clientQueue[own[c]])
  /\ got' = [got EXCEPT ![c] = Head(clientQueue[own[c]]).job]
  /\ clientQueue' = [clientQueue EXCEPT ![own[c]] = Tail(@)]
  /\ UNCHANGED <<alone, serverVars, serverQueue, clientName, own, dest>>

\* mq_close and mq_unlink: whatever queue has the name by now loses it.
ClientUnlink(c) ==
  /\ ClientStep(c, "unlink", IF clientName = None THEN "failed" ELSE "done")
  /\ clientName' = None
  /\ UNCHANGED <<alone, serverVars, serverQueue, own, dest, got, clientQueue>>

\* The user gives up a client that is waiting.
ClientKilled(c) ==
  /\ client[c] \in {"send", "receive"} /\ kills < KILLS
  /\ kills' = kills + 1
  /\ client' = [client EXCEPT ![c] = "killed"]
  /\ UNCHANGED <<alone, server, mqd_server, mqd_client, job, schleifencounter, starts, serverName,
                 serverQueue, clientName, own, dest, got, clientQueue>>

ClientRuns(c) ==
  ClientOpenServer(c) \/ ClientSend(c) \/ ClientReceive(c) \/ ClientUnlink(c)

Next ==
  \/ ServerStart \/ ServerKilled \/ ServerRuns
  \/ \E c \in Clients : ClientOpen(c) \/ ClientSendRefused(c) \/ ClientKilled(c) \/ ClientRuns(c)

Spec == Init /\ [][Next]_vars

\* A process that is not blocked goes on; nobody need start a server or a client, or
\* give a client a priority that is refused.
Fairness == WF_vars(ServerRuns) /\ \A c \in Clients : WF_vars(ClientRuns(c))

FairSpec == Spec /\ Fairness

-----------------------------------------------------------------------------
(* Properties *)

Messages == [job : Clients, prio : Prios \cup {0}]

TypeOK ==
  /\ alone \in BOOLEAN
  /\ server \in {"down", "receive", "open", "reply", "close", "unlink"}
  /\ mqd_server \in Queues \cup {None} /\ serverName \in Queues \cup {None}
  /\ mqd_client \in Clients \cup {None} /\ clientName \in Clients \cup {None}
  /\ job \in Clients \cup {None}
  /\ (job # None) = (server \in {"open", "reply"})
  /\ schleifencounter \in 0 .. LIMIT
  /\ starts \in 0 .. STARTS /\ kills \in 0 .. KILLS
  /\ serverQueue \in [Queues -> Seq(Messages)]
  /\ clientQueue \in [Clients -> Seq(Messages)]
  /\ \A n \in Queues : Len(serverQueue[n]) <= mq_maxmsg
  /\ \A c \in Clients : Len(clientQueue[c]) <= mq_maxmsg
  /\ client \in [Clients -> {"start", "server", "send", "receive", "unlink", "done", "failed", "killed"}]
  /\ own \in [Clients -> Clients \cup {None}]
  /\ dest \in [Clients -> Queues \cup {None}]
  /\ got \in [Clients -> Clients \cup {None}]

\* Where the job of client c is: in a server queue, with the server, or as
\* feedback in a client queue or with a client.
Places(c) ==
  (UNION {{<<"server queue", n, j>> : j \in {j \in DOMAIN serverQueue[n] : serverQueue[n][j].job = c}} : n \in Queues})
  \cup (UNION {{<<"client queue", d, j>> : j \in {j \in DOMAIN clientQueue[d] : clientQueue[d][j].job = c}} : d \in Clients})
  \cup {<<"client", d>> : d \in {d \in Clients : got[d] = c}}
  \cup (IF job = c THEN {<<"server">>} ELSE {})

\* A job is printed and answered at most once, whichever queue the feedback ends
\* in and however often the server is restarted with jobs waiting; and nobody
\* is told of a job that was not sent.
JobInOnePlace ==
  \A c \in Clients :
    /\ Cardinality(Places(c)) <= 1
    /\ client[c] \in {"start", "server", "send"} => Places(c) = {}

NobodyKilled == \A c \in Clients : client[c] # "killed"

\* Clients that are started one after another and left to end get the feedback
\* on their own job (printserver.c:62, 100; client.c:49, 73), whatever earlier ones
\* left behind and whenever the server is killed or ends; and when none is running
\* there is no feedback left that the next one could take for its own.
OwnFeedbackAlone ==
  (alone /\ NobodyKilled) =>
    /\ \A c \in Clients : got[c] \in {None, c}
    /\ (\A c \in Clients : client[c] \in Ended \cup {"start"}) =>
         (clientName = None \/ clientQueue[clientName] = <<>>)

\* If clients are started one after another, a job that the running server has or will
\* come to is answered and its client ends well, if neither is ended or killed first.
\* And a client gets its job into the server's queue, although the server waits when
\* the clients' queue is full: it takes one job more than both queues hold, left by
\* clients that were killed, before the two wait for each other.
AnsweredAlone ==
  \A c \in Clients :
    /\ (/\ alone
        /\ \/ job = c
           \/ mqd_server # None /\ \E j \in DOMAIN serverQueue[mqd_server] : serverQueue[mqd_server][j].job = c)
       ~> (client[c] \in {"done", "killed"} \/ server = "down")
    /\ (alone /\ client[c] = "send" /\ dest[c] = mqd_server)
       ~> (client[c] # "send" \/ server = "down" \/ kills > 2 * mq_maxmsg)

=============================================================================
