------------------------------ MODULE OSThread ------------------------------
(***************************************************************************)
(* The thread primitives of libultra: src/src/libultra/os/*thread*.c.      *)
(*                                                                         *)
(* The console has one processor, and every one of these functions runs    *)
(* with interrupts masked (__osDisableInt ... __osRestoreInt), so each is  *)
(* modelled as a function from the state of the thread system to the next. *)
(* The state s is a record:                                                *)
(*   running   __osRunningThread                                           *)
(*   threadq   the linked lists of threads: the run queue "run" and the    *)
(*             queues that threads wait in, each from head to tail         *)
(*   state     OSThread.state                                              *)
(*   queue     OSThread.queue: the list the thread was last inserted in    *)
(*   priority  OSThread.priority                                           *)
(*   active    the threads on __osActiveQueue (created, not destroyed)     *)
(***************************************************************************)
EXTENDS Integers, Sequences, FiniteSets

CONSTANTS
    Threads,     \* the OSThread objects
    Idle,        \* the idle thread, which never blocks
    WaitQueues,  \* the lists other than the run queue that a thread may wait in
    Priorities   \* thread priorities

ASSUME ThreadAssumption ==
    /\ Idle \in Threads
    /\ IsFiniteSet(Threads)
    /\ "run" \notin WaitQueues
    /\ "NULL" \notin WaitQueues
    /\ Priorities \subseteq Nat \ {0}

States == {"STOPPED", "RUNNABLE", "RUNNING", "WAITING"}
Queues == WaitQueues \cup {"run"}

ThreadSystem ==
    [running  : Threads,
     threadq  : [Queues -> Seq(Threads)],
     state    : [Threads -> States],
     queue    : [Threads -> Queues \cup {"NULL"}],
     priority : [Threads -> Nat],
     active   : SUBSET Threads]

(***************************************************************************)
(* A list with t inserted behind every thread of its priority or a higher  *)
(* one: __osEnqueueThread, which is assembly.                              *)
(***************************************************************************)
Insert(priority, list, t) ==
    LET k == Cardinality({i \in DOMAIN list : priority[list[i]] >= priority[t]})
    IN  [i \in 1..(Len(list) + 1) |->
            IF i <= k THEN list[i] ELSE IF i = k + 1 THEN t ELSE list[i - 1]]

EnqueueThread(s, q, t) ==
    [s EXCEPT !.threadq[q] = Insert(s.priority, @, t), !.queue[t] = q]

PopThread(s, q) == [s EXCEPT !.threadq[q] = Tail(@)]

\* A list without t, which it holds at most once.
Unlink(list, t) ==
    LET k == CHOOSE i \in DOMAIN list : list[i] = t
    IN  IF \A i \in DOMAIN list : list[i] # t THEN list
        ELSE [i \in 1..(Len(list) - 1) |-> IF i < k THEN list[i] ELSE list[i + 1]]

\* __osDequeueThread(t->queue, t)
DequeueThread(s, t) == [s EXCEPT !.threadq[s.queue[t]] = Unlink(@, t)]

\* __osDispatchThread: the head of the run queue gets the processor.
DispatchThread(s) ==
    LET t == Head(s.threadq["run"])
    IN  [PopThread(s, "run") EXCEPT !.running = t, !.state[t] = "RUNNING"]

EnqueueAndYield(s, q) == DispatchThread(EnqueueThread(s, q, s.running))

\* The running thread gives way to the head of the run queue if that has a
\* higher priority.
Preempt(s) ==
    LET run == s.threadq["run"]
    IN  IF run # <<>> /\ s.priority[s.running] < s.priority[run[1]]
        THEN EnqueueAndYield([s EXCEPT !.state[s.running] = "RUNNABLE"], "run")
        ELSE s

StartThread(s, t) ==
    LET ready == EnqueueThread([s EXCEPT !.state[t] = "RUNNABLE"], "run", t)
        q     == s.queue[t]
        wait  == EnqueueThread([s EXCEPT !.state[t] = "WAITING"], q, t)
        \* t goes back to the list it was stopped in, whose head is then woken,
        \* with its state left as it was
        woken == EnqueueThread(PopThread(wait, q), "run", wait.threadq[q][1])
    IN  Preempt(CASE s.state[t] = "WAITING" -> ready
                  [] s.state[t] = "STOPPED" ->
                        IF q \in {"NULL", "run"} THEN ready ELSE woken
                  [] OTHER -> s)

\* A mutant: a stopped thread keeps its place in its list.
StopThreadKeepsPlace(s, t) ==
    IF t = s.running
    THEN DispatchThread([s EXCEPT !.state[t] = "STOPPED"])
    ELSE [s EXCEPT !.state[t] = "STOPPED"]

StopThread(s, t) ==
    CASE t = s.running -> DispatchThread([s EXCEPT !.state[t] = "STOPPED"])
      [] s.state[t] \in {"RUNNABLE", "WAITING"} ->
            DequeueThread([s EXCEPT !.state[t] = "STOPPED"], t)
      [] OTHER -> s

DestroyThread(s, t) ==
    LET gone == [(IF t = s.running \/ s.state[t] = "STOPPED" THEN s
                  ELSE DequeueThread(s, t)) EXCEPT !.active = @ \ {t}]
    IN  IF t = s.running THEN DispatchThread(gone) ELSE gone

\* A mutant: a thread whose priority changes keeps its place in its list.
SetThreadPriInPlace(s, t, p) == Preempt([s EXCEPT !.priority[t] = p])

SetThreadPri(s, t, p) ==
    LET set == [s EXCEPT !.priority[t] = p]
    IN  IF s.priority[t] = p THEN s
        ELSE Preempt(IF t # s.running /\ s.state[t] # "STOPPED"
                     THEN EnqueueThread(DequeueThread(set, t), s.queue[t], t)
                     ELSE set)

YieldThread(s) == EnqueueAndYield([s EXCEPT !.state[s.running] = "RUNNABLE"], "run")

CreateThread(s, t, p) ==
    [s EXCEPT !.priority[t] = p, !.queue[t] = "NULL", !.state[t] = "STOPPED",
              !.active = @ \cup {t}]

=============================================================================
