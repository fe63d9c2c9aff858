----------------------------- MODULE MesgQueue -----------------------------
(***************************************************************************)
(* One OSMesgQueue and the threads and interrupts that use it:             *)
(* src/src/libultra/os/{sendmesg,jammesg,recvmesg,createmesgqueue}.c.      *)
(*                                                                         *)
(* Each function runs with interrupts masked except where it gives up the  *)
(* processor in __osEnqueueAndYield, so a call is one step when it does    *)
(* not block, and one step per turn of its while loop when it does: the    *)
(* call stays pending in `call` and is resumed when the thread is          *)
(* dispatched.                                                             *)
(***************************************************************************)
EXTENDS OSThread

CONSTANTS
    Mesgs,      \* message values
    msgCount,   \* the capacity of the ring buffer
    Calls,      \* Calls[t]: the calls <<kind, block>> that thread t makes
    Controls    \* what else happens: interrupts and calls of thread functions

ASSUME QueueAssumption ==
    /\ msgCount \in Nat \ {0}
    /\ WaitQueues = {"mt", "full"}
    /\ Controls \subseteq {"event", "stop", "destroy", "setpri", "yield"}

\* The idle thread loops for ever and calls nothing (idle.c:134).
ASSUME IdleAssumption == Calls[Idle] = {}

VARIABLES
    os,     \* the thread system, see OSThread
    mq,     \* the OSMesgQueue: first, validCount and the buffer msg
    call,   \* call[t]: the blocking call that thread t is inside of, or None
    last    \* *msg of the last osRecvMesg or osPeekMesg

vars == <<os, mq, call, last>>

Kinds == {"send", "jam", "recv", "peek"}
Slots == 0..(msgCount - 1)
None == [kind |-> "none"]
CallType == [kind : Kinds, m : Mesgs, block : BOOLEAN]

TypeOK ==
    /\ os \in ThreadSystem
    /\ mq \in [first : Slots, validCount : 0..msgCount, msg : [Slots -> Mesgs]]
    /\ call \in [Threads -> CallType \cup {None}]
    /\ last \in Mesgs

(***************************************************************************)
(* osCreateMesgQueue leaves the buffer as it found it: any contents.       *)
(***************************************************************************)
Init ==
    /\ os = [running  |-> Idle,
             threadq  |-> [q \in Queues |-> <<>>],
             state    |-> [t \in Threads |-> IF t = Idle THEN "RUNNING" ELSE "STOPPED"],
             queue    |-> [t \in Threads |-> "NULL"],
             priority |-> [t \in Threads |-> 0],
             active   |-> {Idle}]
    /\ mq \in [first : {0}, validCount : {0}, msg : [Slots -> Mesgs]]
    /\ call = [t \in Threads |-> None]
    /\ last \in Mesgs

-----------------------------------------------------------------------------
(* The ring buffer.                                                        *)

Full  == mq.validCount >= msgCount
Empty == mq.validCount = 0

\* A mutant: the slot is computed from the start of the buffer.
PutUnwound(m) ==
    mq' = [mq EXCEPT !.msg[mq.validCount] = m, !.validCount = @ + 1]

Put(m) ==
    mq' = [first      |-> mq.first,
           validCount |-> mq.validCount + 1,
           msg        |-> [mq.msg EXCEPT ![(mq.first + mq.validCount) % msgCount] = m]]

PutFront(m) ==
    LET f == (mq.first + msgCount - 1) % msgCount
    IN  mq' = [first      |-> f,
               validCount |-> mq.validCount + 1,
               msg        |-> [mq.msg EXCEPT ![f] = m]]

Take ==
    /\ mq' = [first      |-> (mq.first + 1) % msgCount,
              validCount |-> mq.validCount - 1,
              msg        |-> mq.msg]
    /\ last' = mq.msg[mq.first]

\* if (list->next != NULL) osStartThread(__osPopThread(&list))
WakeOne(q) ==
    os' = IF os.threadq[q] = <<>> THEN os
          ELSE StartThread(PopThread(os, q), os.threadq[q][1])

-----------------------------------------------------------------------------
(* One turn of the running thread through a call c.                        *)

Return == call' = [call EXCEPT ![os.running] = None]

\* The condition of the while loop holds: wait in q, or give up at once.
WaitIn(q, c) ==
    /\ IF c.block
       THEN /\ os' = EnqueueAndYield([os EXCEPT !.state[os.running] = "WAITING"], q)
            /\ call' = [call EXCEPT ![os.running] = c]
       ELSE Return /\ UNCHANGED os
    /\ UNCHANGED <<mq, last>>

\* A mutant: a sender does not look for threads that wait for a message.
SendMesgNoWake(c) ==
    \/ Full /\ WaitIn("full", c)
    \/ ~Full /\ Put(c.m) /\ Return /\ UNCHANGED <<os, last>>

\* A mutant: the loop on the full queue is an if; a thread that was woken
\* stores its message without looking again.
SendMesgNoRecheck(c) ==
    \/ Full /\ call[os.running] = None /\ WaitIn("full", c)
    \/ (~Full \/ call[os.running] # None) /\ Put(c.m) /\ WakeOne("mt") /\ Return
       /\ UNCHANGED last

SendMesg(c) ==
    \/ Full /\ WaitIn("full", c)
    \/ ~Full /\ Put(c.m) /\ WakeOne("mt") /\ Return /\ UNCHANGED last

JamMesg(c) ==
    \/ Full /\ WaitIn("full", c)
    \/ ~Full /\ PutFront(c.m) /\ WakeOne("mt") /\ Return /\ UNCHANGED last

\* A mutant: a receiver does not look for threads that wait for room.
RecvMesgNoWake(c) ==
    \/ Empty /\ WaitIn("mt", c)
    \/ ~Empty /\ Take /\ Return /\ UNCHANGED os

RecvMesg(c) ==
    \/ Empty /\ WaitIn("mt", c)
    \/ ~Empty /\ Take /\ WakeOne("full") /\ Return

\* It wakes a sender although it makes no room.
PeekMesg(c) ==
    \/ Empty /\ WaitIn("mt", c)
    \/ ~Empty /\ last' = mq.msg[mq.first] /\ WakeOne("full") /\ Return /\ UNCHANGED mq

MesgCall(c) ==
    CASE c.kind = "send" -> SendMesg(c)
      [] c.kind = "jam"  -> JamMesg(c)
      [] c.kind = "recv" -> RecvMesg(c)
      [] c.kind = "peek" -> PeekMesg(c)

\* The running thread makes a call, or resumes the one it was blocked in.
ThreadStep(t) ==
    /\ t = os.running
    /\ IF call[t] # None THEN MesgCall(call[t])
       ELSE \E c \in CallType : <<c.kind, c.block>> \in Calls[t] /\ MesgCall(c)

(***************************************************************************)
(* An interrupt posts the message that osSetEventMesg registered, without  *)
(* blocking, from the exception handler (assembly): a full queue drops it, *)
(* a waiting thread goes to the run queue with its state left as it was,   *)
(* and the interrupted thread is preempted by priority.  Interrupts are    *)
(* masked while the running thread is inside a call.                       *)
(***************************************************************************)
EventMesg(m) ==
    /\ "event" \in Controls
    /\ call[os.running] = None
    /\ ~Full
    /\ Put(m)
    /\ os' = IF os.threadq["mt"] = <<>> THEN os
             ELSE Preempt(EnqueueThread(PopThread(os, "mt"), "run", os.threadq["mt"][1]))
    /\ UNCHANGED <<call, last>>

-----------------------------------------------------------------------------
(* The thread functions, called by the running thread outside of a call.   *)

\* What becomes of the calls of t when it is created anew.
Control(s) == call[os.running] = None /\ os' = s /\ UNCHANGED <<mq, last>>

Create(t, p) ==
    /\ t \notin os.active
    /\ Control(CreateThread(os, t, p))
    /\ call' = [call EXCEPT ![t] = None]

Start(t) ==
    /\ t \in os.active /\ os.state[t] = "STOPPED"
    /\ Control(StartThread(os, t))
    /\ UNCHANGED call

Stop(t) ==
    /\ "stop" \in Controls /\ t \in os.active \ {Idle} /\ os.state[t] # "STOPPED"
    /\ Control(StopThread(os, t))
    /\ UNCHANGED call

Destroy(t) ==
    /\ "destroy" \in Controls /\ t \in os.active \ {Idle}
    /\ Control(DestroyThread(os, t))
    /\ UNCHANGED call

SetPri(t, p) ==
    /\ "setpri" \in Controls /\ t \in os.active \ {Idle}
    /\ Control(SetThreadPri(os, t, p))
    /\ UNCHANGED call

Yield ==
    /\ "yield" \in Controls /\ os.running # Idle
    /\ Control(YieldThread(os))
    /\ UNCHANGED call

ControlStep ==
    \/ \E t \in Threads \ {Idle} :
          \/ Start(t) \/ Stop(t) \/ Destroy(t)
          \/ \E p \in Priorities : Create(t, p) \/ SetPri(t, p)
    \/ Yield

Next ==
    \/ \E t \in Threads : ThreadStep(t)
    \/ \E m \in Mesgs : EventMesg(m)
    \/ ControlStep

Spec == Init /\ [][Next]_vars

(***************************************************************************)
(* The processor never stops executing the running thread, and a created   *)
(* thread is started: weak fairness of the calls and of Start.  A thread   *)
(* that can receive again and again does so at last, if it also polls and  *)
(* peeks.                                                                  *)
(***************************************************************************)
Fairness ==
    /\ WF_vars(\E t \in Threads : ThreadStep(t))
    /\ WF_vars(\E t \in Threads \ {Idle}, p \in Priorities : Create(t, p))
    /\ WF_vars(\E t \in Threads \ {Idle} : Start(t))
    /\ SF_vars((\E t \in Threads : ThreadStep(t)) /\ mq'.validCount < mq.validCount)

FairSpec == Spec /\ Fairness

-----------------------------------------------------------------------------
(* Properties.                                                             *)

\* The threads of a list.
Members(q) == {os.threadq[q][i] : i \in DOMAIN os.threadq[q]}

\* Every thread that is neither running, stopped nor destroyed is exactly once in
\* exactly one list, the one its queue field names; the others are in none.  A
\* restart of a stopped waiter, or a priority change, could link a thread twice
\* (startthread.c:16-21, setthreadpri.c:14-17).
OnOneList ==
    /\ \A q \in Queues : Cardinality(Members(q)) = Len(os.threadq[q])
    /\ \A t \in Threads, q \in Queues :
          t \in Members(q) <=>
             /\ t \in os.active /\ t # os.running
             /\ os.state[t] # "STOPPED" /\ os.queue[t] = q

\* No thread that could run has a higher priority than the running one, and every
\* list is in priority order, whatever woke, stopped or reprioritised its threads.
HighestRuns ==
    /\ \A t \in Members("run") : os.priority[t] <= os.priority[os.running]
    /\ \A q \in Queues : \A i, j \in DOMAIN os.threadq[q] :
          i < j => os.priority[os.threadq[q][i]] >= os.priority[os.threadq[q][j]]

\* The threads that were woken from a blocking call and have not looked again yet.
Woken(kinds) ==
    {t \in Members("run") \cup {os.running} : call[t] # None /\ call[t].kind \in kinds}

\* No wakeup is lost: while threads wait for room, every free slot has a woken sender
\* on its way to it, and while threads wait for a message, every message has a woken
\* receiver (the while loops and the two osStartThread calls of sendmesg.c, recvmesg.c).
NoLostWakeup ==
    /\ os.threadq["full"] # <<>> =>
          msgCount - mq.validCount <= Cardinality(Woken({"send", "jam"}))
    /\ os.threadq["mt"] # <<>> =>
          mq.validCount <= Cardinality(Woken({"recv", "peek"}))

\* The messages in the ring buffer, the oldest first.
Contents == [i \in 1..mq.validCount |-> mq.msg[(mq.first + i - 1) % msgCount]]

\* The ring buffer with its wait lists implements the bounded sequence: messages come
\* out in order, none is lost, duplicated or overwritten, across wraparound and jams.
Fifo == INSTANCE BoundedFifo WITH buf <- Contents
ImplementsFifo == Fifo!Spec

\* When threads that send and threads that receive keep running, messages keep flowing:
\* the threads never all end up waiting for each other.
MesgsFlow == []<><<mq.validCount' < mq.validCount>>_vars

=============================================================================
