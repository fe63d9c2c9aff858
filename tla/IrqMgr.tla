------------------------------- MODULE IrqMgr -------------------------------
(***************************************************************************)
(* The interrupt manager (boot/irqmgr.c): the linked list of its clients,  *)
(* which they join and leave from their own threads, and the messages it   *)
(* sends them at a retrace and on the way to a reset.                      *)
(*                                                                         *)
(* Its thread has a higher priority than any client's and never waits in a *)
(* handler, so that an interrupt and its handler are one step.             *)
(***************************************************************************)
EXTENDS Integers, SequencesExt

CONSTANTS Clients, Null,
          Joined,        \* the list of them all: who joined last is the first
          QueueSize,     \* room in the queue of each client
          Pollers        \* the clients whose retrace messages are modelled

ASSUME IrqAssumption ==
  /\ IsFiniteSet(Clients) /\ Null \notin Clients
  /\ Joined \in Seq(Clients) /\ IsInjective(Joined) /\ ToSet(Joined) = Clients
  /\ Pollers \subseteq Clients /\ QueueSize \in [Clients -> Nat \ {0}]

VARIABLES clients,       \* the head of the list, and
          next,          \* each client's link
          queue,
          at,            \* how far each client's thread has come
          iter,          \* the head it read in IrqMgr_RemoveClient
          heard,         \* reset messages it has taken out of its queue
          missed,        \* clients whose queue had no room for one
          resetStatus

irqVars == <<clients, next, queue, at, iter, heard, missed, resetStatus>>
listVars == <<clients, next>>

IDLE == 0
PRENMI == 1
NMI == 2
Resets == {"prenmi", "nmi"}
Stages == {"start", "inserted", "told", "running", "leaving", "unlinking", "gone"}

IrqTypeOK ==
  /\ clients \in Clients \cup {Null}
  /\ next \in [Clients -> Clients \cup {Null}]
  /\ \A c \in Clients : queue[c] \in BoundedSeq(Resets \cup {"retrace"}, QueueSize[c])
  /\ at \in [Clients -> Stages]
  /\ iter \in [Clients -> Clients \cup {Null}]
  /\ heard \in [Clients -> SUBSET Resets]
  /\ missed \subseteq Clients
  /\ resetStatus \in {IDLE, PRENMI, NMI}

IrqInit ==
  /\ clients = Null
  /\ next = [c \in Clients |-> Null]
  /\ queue = [c \in Clients |-> <<>>]
  /\ at = [c \in Clients |-> "start"]
  /\ iter = [c \in Clients |-> Null]
  /\ heard = [c \in Clients |-> {}]
  /\ missed = {}
  /\ resetStatus = IDLE

\* The same once all have joined.
IrqRunning ==
  /\ clients = Joined[1]
  /\ next = [c \in Clients |-> IF c = Last(Joined) THEN Null
                               ELSE Joined[1 + CHOOSE n \in DOMAIN Joined : Joined[n] = c]]
  /\ queue = [c \in Clients |-> <<>>]
  /\ at = [c \in Clients |-> "running"]
  /\ iter = [c \in Clients |-> Null]
  /\ heard = [c \in Clients |-> {}]
  /\ missed = {}
  /\ resetStatus = IDLE

\* The clients that are met when the links are followed from c on.
From(c) ==
  LET met[n \in 0 .. Cardinality(Clients)] ==
        IF n = 0 THEN {c} ELSE met[n - 1] \cup {next[d] : d \in met[n - 1] \ {Null}}
  IN met[Cardinality(Clients)] \ {Null}
-----------------------------------------------------------------------------
\* osSendMesg with OS_MESG_NOBLOCK to each of a set of clients.
Full(S) == {c \in S : Len(queue[c]) = QueueSize[c]}
Sent(S, msg) ==
  queue' = [c \in Clients |-> IF c \in S \ Full(S) THEN Append(queue[c], msg) ELSE queue[c]]

\* IrqMgr_SendMesgToClients, and IrqMgr_JamMesgToClients, which does the same.
SendReset(S, msg) == Sent(S, msg) /\ missed' = missed \cup Full(S)

HandleRetrace ==
  /\ Sent(From(clients) \cap Pollers, "retrace")
  /\ UNCHANGED <<listVars, at, iter, heard, missed, resetStatus>>

HandlePreNMI ==
  /\ resetStatus = IDLE
  /\ resetStatus' = PRENMI
  /\ SendReset(From(clients), "prenmi")
  /\ UNCHANGED <<listVars, at, iter, heard>>

\* The timer it sets comes later; the two timers after that only check the
\* stacks.
HandlePRENMI450 ==
  /\ resetStatus = PRENMI
  /\ resetStatus' = NMI
  /\ SendReset(From(clients), "nmi")
  /\ UNCHANGED <<listVars, at, iter, heard>>

Irq == HandleRetrace \/ HandlePreNMI \/ HandlePRENMI450
-----------------------------------------------------------------------------
\* IrqMgr_AddClient: the links are changed with interrupts off; then the
\* client is told of a reset that has begun.
Insert(c) ==
  /\ at[c] = "start"
  /\ next' = [next EXCEPT ![c] = clients] /\ clients' = c
  /\ at' = [at EXCEPT ![c] = "inserted"]
  /\ UNCHANGED <<queue, iter, heard, missed, resetStatus>>

TellPreNMINever(c) ==
  /\ at[c] = "inserted"
  /\ at' = [at EXCEPT ![c] = "told"]
  /\ UNCHANGED <<listVars, queue, iter, heard, missed, resetStatus>>

TellPreNMI(c) ==
  /\ at[c] = "inserted"
  /\ at' = [at EXCEPT ![c] = "told"]
  /\ SendReset(IF resetStatus >= PRENMI THEN {c} ELSE {}, "prenmi")
  /\ UNCHANGED <<listVars, iter, heard, resetStatus>>

TellNMI(c) ==
  /\ at[c] = "told"
  /\ at' = [at EXCEPT ![c] = "running"]
  /\ SendReset(IF resetStatus >= NMI THEN {c} ELSE {}, "nmi")
  /\ UNCHANGED <<listVars, iter, heard, resetStatus>>

\* IrqMgr_RemoveClient reads the head before it turns interrupts off.
ReadClients(c) ==
  /\ at[c] = "leaving"
  /\ at' = [at EXCEPT ![c] = "unlinking"]
  /\ iter' = [iter EXCEPT ![c] = clients]
  /\ UNCHANGED <<listVars, queue, heard, missed, resetStatus>>

\* The links without c, when the search for it begins at first.
Unlinked(first, c) ==
  IF first = c THEN clients' = next[c] /\ UNCHANGED next
  ELSE /\ next' = [d \in Clients |-> IF d \in From(first) /\ next[d] = c THEN next[c]
                                     ELSE next[d]]
       /\ UNCHANGED clients

Unlink(c) ==
  /\ at[c] = "unlinking"
  /\ Unlinked(iter[c], c)
  /\ at' = [at EXCEPT ![c] = "gone"]
  /\ UNCHANGED <<queue, iter, heard, missed, resetStatus>>

Membership(c) == Insert(c) \/ TellPreNMI(c) \/ TellNMI(c) \/ ReadClients(c) \/ Unlink(c)

\* A client takes a message out of its queue.
Take(c) ==
  /\ at[c] = "running" /\ queue[c] # <<>>
  /\ queue' = [queue EXCEPT ![c] = Tail(@)]
  /\ heard' = [heard EXCEPT ![c] = @ \cup ({Head(queue[c])} \cap Resets)]

\* The main thread and the audio thread: they leave at the NMI.
TakeReset(c) ==
  /\ Take(c)
  /\ at' = [at EXCEPT ![c] = IF Head(queue[c]) = "nmi" THEN "leaving" ELSE "running"]
  /\ UNCHANGED <<listVars, iter, missed, resetStatus>>
-----------------------------------------------------------------------------
\* Whenever a client joins, before, during or after a handler that starts a
\* reset, and whoever is leaving with an old head of the list in hand, it hears
\* of the reset unless its queue had no room.  (IrqMgr_AddClient,
\* IrqMgr_RemoveClient, IrqMgr_HandlePreNMI, IrqMgr_HandlePRENMI450.)
HearsOfReset ==
  \A c \in Clients \ missed : at[c] = "running" =>
    LET told == heard[c] \cup ToSet(queue[c]) IN
    /\ resetStatus >= PRENMI => "prenmi" \in told
    /\ resetStatus = NMI => "nmi" \in told
=============================================================================
