------------------------------- MODULE Sched -------------------------------
(***************************************************************************)
(* The RCP scheduler thread, src/src/code/sched.c, with the hardware it    *)
(* drives: the RSP and the RDP that run its tasks, and the VI that shows   *)
(* the framebuffers.  The threads that send it tasks are in RcpSystem.     *)
(*                                                                         *)
(* There is one OSScTask structure of each kind, reused by its sender for  *)
(* every task it sends: "gfx" (graph.c), "aud" (audio_thread_manager.c),   *)
(* "jpeg" (z_jpeg.c) and "null" (z_nulltask.c).  The message queues are    *)
(* bounded sequences (BoundedFifo); the linked lists of tasks are          *)
(* sequences.                                                              *)
(*                                                                         *)
(* A handler of the scheduler is one step, except where the thread gives   *)
(* up the processor or waits for hardware in the middle of it: pc then     *)
(* says where it is.                                                       *)
(***************************************************************************)
EXTENDS Integers, Sequences, SequencesExt

CONSTANTS
    MaxRate,    \* bound on CfbInfo.updateRate, the retraces a frame is shown for
    HaltWorks   \* whether the RSP always stops when SP_SET_HALT is written

ASSUME SchedAssumption == MaxRate \in Nat \ {0} /\ HaltWorks \in BOOLEAN

VARIABLES
    sc,      \* the task fields of the Scheduler structure
    pc,      \* where the scheduler thread is
    iq,      \* interruptQueue
    cmdq,    \* cmdQueue
    reply,   \* reply[t]: the queue that task t's msgQ points to
    disp,    \* the framebuffer fields of the Scheduler, the CfbInfos and the VI
    gfx,     \* the gfx task's framebuffer field, and its flag OS_SC_SWAPBUFFER
    hw       \* the RSP and the RDP

schedVars == <<sc, pc, iq, cmdq, reply, disp, gfx, hw>>

Tasks  == {"gfx", "aud", "jpeg", "null"}
NoTask == "none"
NeedsRDP == {"gfx", "null"}                \* flags & OS_SC_NEEDS_RDP
Bits == {"SP", "DP", "YIELD", "YIELDED"}
Cfbs == 0..2                               \* sGraphCfbInfos
NoCfb == 3
FBs == {0, 1}                              \* gFramebuffers
Boot == 2                                  \* what the VI shows before the first frame
IrqMesgs == {"notify", "retrace", "rspDone", "rdpDone", "audioCancel", "gfxCancel"}

InterruptQueueSize == 64
CmdQueueSize == 8
ReplySize(t) == IF t = "gfx" THEN 8 ELSE 1

Main == [at |-> "main"]
Sending(t, then) == [at |-> "send", task |-> t, then |-> then]
Loading(t, dp) == [at |-> "load", task |-> t, dp |-> dp]
Halting(t) == [at |-> "halt", task |-> t]

SchedTypeOK ==
    /\ sc \in [audioList : Seq({"aud"}), gfxList : Seq(Tasks \ {"aud"}),
               rsp : Tasks \cup {NoTask}, rdp : Tasks \cup {NoTask},
               state : [Tasks -> SUBSET Bits]]
    /\ \/ pc = Main
       \/ \E t \in Tasks : \/ pc = Halting(t)
                           \/ \E dp \in BOOLEAN : pc = Loading(t, dp)
                           \/ \E then \in {"rsp", "rdp", "end", "haltRdp"} :
                                 pc = Sending(t, then)
    /\ iq \in Seq(IrqMesgs) /\ cmdq \in Seq(Tasks)
    /\ reply \in [Tasks -> Seq({"done", "timeout"})]
    /\ disp \in [curBuf : Cfbs \cup {NoCfb}, pending : Cfbs \cup {NoCfb},
                 cfb : [Cfbs -> [fb : FBs, rate : 1..MaxRate, timer : 0..MaxRate]],
                 viCur : FBs \cup {Boot}, viNext : FBs \cup {Boot}]
    /\ gfx \in [cfb : Cfbs, swap : BOOLEAN]
    /\ hw \in [task : Tasks \cup {NoTask}, busy : BOOLEAN, yieldReq : BOOLEAN,
               yielded : BOOLEAN, working : SUBSET Tasks,
               drawing : {"no", "drawing", "synced"}, stale : Nat]

SchedInit ==
    /\ sc = [audioList |-> <<>>, gfxList |-> <<>>, rsp |-> NoTask, rdp |-> NoTask,
             state |-> [t \in Tasks |-> {}]]
    /\ pc = Main
    /\ iq = <<>> /\ cmdq = <<>>
    /\ reply = [t \in Tasks |-> <<>>]
    /\ disp = [curBuf |-> NoCfb, pending |-> NoCfb,
               cfb |-> [c \in Cfbs |-> [fb |-> 0, rate |-> 1, timer |-> 0]],
               viCur |-> Boot, viNext |-> Boot]
    /\ gfx = [cfb |-> 0, swap |-> TRUE]
    /\ hw = [task |-> NoTask, busy |-> FALSE, yieldReq |-> FALSE, yielded |-> FALSE,
             working |-> {}, drawing |-> "no", stale |-> 0]

\* A message that is sent without blocking, or by a thread that a full queue
\* would block (it never is full): dropped when there is no room.
Post(queue, m) == IF Len(queue) < InterruptQueueSize THEN Append(queue, m) ELSE queue

-----------------------------------------------------------------------------
(* Framebuffers.                                                           *)

\* Sched_SwapFramebuffer(pendingSwapBuf1)
SwapFramebuffer(d) ==
    [d EXCEPT !.viNext = d.cfb[d.pending].fb,
              !.cfb[d.pending].timer = d.cfb[d.pending].rate]

SetNextFramebuffer(d, c) ==
    LET e == [d EXCEPT !.pending = c]
    IN  IF d.curBuf # NoCfb /\ d.cfb[d.curBuf].timer > 0 THEN e ELSE SwapFramebuffer(e)

\* A mutant: the next frame is drawn as soon as the last one is done.
TaskFramebuffersValidEarly == disp.viCur # disp.cfb[gfx.cfb].fb \/ disp.viCur = disp.viNext

\* Sched_TaskFramebuffersValid(gfxTask)
TaskFramebuffersValid ==
    /\ disp.pending = NoCfb
    /\ disp.viCur # disp.cfb[gfx.cfb].fb \/ disp.viCur = disp.viNext

\* A mutant: the timer of the shown frame runs on below 0.
RetraceFramebuffersUnguarded(d) ==
    LET shown == d.pending # NoCfb /\ d.viCur = d.cfb[d.pending].fb
        e == IF shown THEN [d EXCEPT !.curBuf = d.pending, !.pending = NoCfb] ELSE d
        f == IF e.curBuf # NoCfb THEN [e EXCEPT !.cfb[e.curBuf].timer = @ - 1] ELSE e
    IN  IF f.curBuf # NoCfb /\ f.cfb[f.curBuf].timer <= 0 /\ f.pending # NoCfb
        THEN SwapFramebuffer(f) ELSE f

\* The first part of Sched_HandleRetrace.
RetraceFramebuffers(d) ==
    LET shown == d.pending # NoCfb /\ d.viCur = d.cfb[d.pending].fb
        e == IF shown THEN [d EXCEPT !.curBuf = d.pending, !.pending = NoCfb] ELSE d
        f == IF e.curBuf # NoCfb /\ e.cfb[e.curBuf].timer > 0
             THEN [e EXCEPT !.cfb[e.curBuf].timer = @ - 1] ELSE e
    IN  IF f.curBuf # NoCfb /\ f.cfb[f.curBuf].timer = 0 /\ f.pending # NoCfb
        THEN SwapFramebuffer(f) ELSE f

-----------------------------------------------------------------------------
(* Choosing and starting tasks.                                            *)

\* The tasks of q that are in S, in their order.
Those(q, S) ==
    LET kept[i \in 0..Len(q)] ==
          IF i = 0 THEN <<>>
          ELSE IF q[i] \in S THEN Append(kept[i - 1], q[i]) ELSE kept[i - 1]
    IN  kept[Len(q)]

QueueTasks(s, q) ==
    [s EXCEPT !.audioList = @ \o Those(q, {"aud"}),
              !.gfxList   = @ \o Those(q, Tasks \ {"aud"}),
              !.state     = [t \in Tasks |->
                    IF t \notin Range(q) THEN @[t]
                    ELSE IF t \in NeedsRDP THEN {"SP", "DP"} ELSE {"SP"}]]

\* A mutant: a null task does not wait for the RDP.
PicksNullEarly(s, valid) ==
    IF s.rsp # NoTask THEN {}
    ELSE IF s.audioList # <<>> THEN {[task |-> "aud", dp |-> FALSE]}
    ELSE IF s.gfxList = <<>> THEN {}
    ELSE LET g == Head(s.gfxList)
         IN  IF "YIELDED" \in s.state[g] \/ g # "gfx" THEN {[task |-> g, dp |-> FALSE]}
             ELSE IF s.rdp = NoTask /\ valid THEN {[task |-> g, dp |-> TRUE]} ELSE {}

\* The task that Sched_Schedule picks for the RSP, with whether it takes the RDP.
Picks(s, valid) ==
    IF s.rsp # NoTask THEN {}
    ELSE IF s.audioList # <<>> THEN {[task |-> "aud", dp |-> FALSE]}
    ELSE IF s.gfxList = <<>> THEN {}
    ELSE LET g == Head(s.gfxList)
         IN  IF "YIELDED" \in s.state[g] \/ g \notin NeedsRDP
             THEN {[task |-> g, dp |-> FALSE]}
             ELSE IF s.rdp = NoTask /\ (g = "gfx" => valid)
             THEN {[task |-> g, dp |-> TRUE]}
             ELSE {}

\* Sched_Schedule takes the task off its list; Sched_RunTask completes a null task
\* at once and loads any other.
ScheduleAndRun(s, valid) ==
    IF Picks(s, valid) = {} THEN sc' = s /\ pc' = Main
    ELSE \E p \in Picks(s, valid) :
            LET r == IF p.task = "aud" THEN [s EXCEPT !.audioList = Tail(@)]
                                       ELSE [s EXCEPT !.gfxList = Tail(@)]
            IN  IF p.task = "null"
                THEN /\ sc' = [r EXCEPT !.state["null"] = @ \ {"SP", "DP"}]
                     /\ pc' = Sending("null", "end")
                ELSE sc' = r /\ pc' = Loading(p.task, p.dp)

\* Sched_RunTask.  osSpTaskLoad spins until the RSP is halted.  It clears the
\* signals; a task that yielded goes on where it was.
RunTask ==
    /\ pc.at = "load" /\ ~hw.busy
    /\ LET t == pc.task
           fresh == t = "gfx" /\ "YIELDED" \notin sc.state[t]
       IN  /\ sc' = [sc EXCEPT !.state[t] = @ \ {"YIELD", "YIELDED"}, !.rsp = t,
                               !.rdp = IF pc.dp /\ @ = NoTask THEN t ELSE @]
           /\ hw' = [hw EXCEPT !.task = t, !.busy = TRUE, !.yieldReq = FALSE,
                               !.yielded = FALSE, !.working = @ \cup {t},
                               !.stale = IF fresh /\ hw.drawing = "synced" THEN @ + 1 ELSE @,
                               !.drawing = IF fresh THEN "drawing" ELSE @]
    /\ pc' = Main
    /\ UNCHANGED <<iq, cmdq, reply, disp, gfx>>

-----------------------------------------------------------------------------
(* The handlers.                                                           *)

Receive(m) == pc = Main /\ iq # <<>> /\ Head(iq) = m /\ iq' = Tail(iq)

\* Sched_HandleNotify: take in the new tasks; make a task that is not audio yield
\* to a waiting audio task, or schedule the next task.
Notify ==
    LET s == QueueTasks(sc, cmdq)
    IN  /\ cmdq' = <<>>
        /\ IF s.audioList # <<>> /\ s.rsp # NoTask
           THEN /\ pc' = Main
                /\ IF s.rsp = "aud" \/ "YIELD" \in s.state[s.rsp]
                   THEN sc' = s /\ UNCHANGED hw
                   ELSE /\ sc' = [s EXCEPT !.state[s.rsp] = @ \cup {"YIELD"}]
                        /\ hw' = [hw EXCEPT !.yieldReq = TRUE]
           ELSE ScheduleAndRun(s, TaskFramebuffersValid') /\ UNCHANGED hw

HandleNotify == Receive("notify") /\ UNCHANGED <<reply, disp, gfx>> /\ Notify

HandleRetrace ==
    /\ Receive("retrace")
    /\ UNCHANGED <<reply, gfx>>
    /\ disp' = RetraceFramebuffers(disp)
    /\ Notify

\* A mutant: the sender is told as soon as either processor is done with the task.
TaskCompleteEither(s, t, then) == sc' = s /\ pc' = Sending(t, then)

\* Sched_TaskComplete, and what the handler does next if the task is not complete.
TaskComplete(s, t, then) ==
    IF s.state[t] \cap {"SP", "DP"} = {}
    THEN sc' = s /\ pc' = Sending(t, then)
    ELSE ScheduleAndRun(s, TaskFramebuffersValid)

\* A mutant: a task that has yielded is taken for complete.
HandleRSPDoneForgetsYield ==
    /\ Receive("rspDone")
    /\ IF sc.rsp = NoTask THEN UNCHANGED <<sc, pc>>
       ELSE TaskComplete([sc EXCEPT !.rsp = NoTask, !.state[sc.rsp] = @ \ {"SP"}], sc.rsp, "rsp")
    /\ UNCHANGED <<cmdq, reply, disp, gfx, hw>>

\* A mutant: the RSP's task is not cleared when it is put back on its list.
HandleRSPDoneKeepsTask ==
    /\ Receive("rspDone")
    /\ LET t == sc.rsp
           s == [sc EXCEPT !.rsp = NoTask]
       IN  IF t = NoTask THEN UNCHANGED <<sc, pc>>
           ELSE IF "YIELD" \in sc.state[t] /\ hw.yielded
           THEN ScheduleAndRun([sc EXCEPT !.state[t] = @ \cup {"YIELDED"},
                                          !.gfxList = <<t>> \o @], TaskFramebuffersValid)
           ELSE TaskComplete([s EXCEPT !.state[t] = @ \ {"SP"}], t, "rsp")
    /\ UNCHANGED <<cmdq, reply, disp, gfx, hw>>

HandleRSPDone ==
    /\ Receive("rspDone")
    /\ LET t == sc.rsp
           s == [sc EXCEPT !.rsp = NoTask]
       IN  IF t = NoTask THEN UNCHANGED <<sc, pc>>
           ELSE IF "YIELD" \in sc.state[t] /\ hw.yielded
           THEN ScheduleAndRun([s EXCEPT !.state[t] = @ \cup {"YIELDED"},
                                         !.gfxList = <<t>> \o @], TaskFramebuffersValid)
           ELSE TaskComplete([s EXCEPT !.state[t] = @ \ {"SP"}], t, "rsp")
    /\ UNCHANGED <<cmdq, reply, disp, gfx, hw>>

HandleRDPDone ==
    /\ Receive("rdpDone")
    /\ IF sc.rdp = NoTask THEN UNCHANGED <<sc, pc>>
       ELSE TaskComplete([sc EXCEPT !.rdp = NoTask, !.state[sc.rdp] = @ \ {"DP"}], sc.rdp, "rdp")
    /\ UNCHANGED <<cmdq, reply, disp, gfx, hw>>

\* The end of Sched_HandleGfxCancel, after what precedes it posted to q.
HaltRDP(q) == IF sc.rdp = "gfx" THEN Post(q, "rdpDone") ELSE q

HandleAudioCancel ==
    /\ pc = Main /\ iq # <<>> /\ Head(iq) = "audioCancel"
    /\ IF sc.rsp = "aud"
       THEN /\ UNCHANGED sc
            /\ IF hw.busy THEN pc' = Halting("aud") /\ iq' = Tail(iq)
               ELSE pc' = Main /\ iq' = Post(Tail(iq), "rspDone")
       ELSE /\ iq' = Tail(iq)
            /\ IF sc.audioList # <<>>
               THEN sc' = [sc EXCEPT !.audioList = Tail(@)] /\ pc' = Sending("aud", "end")
               ELSE UNCHANGED <<sc, pc>>
    /\ UNCHANGED <<cmdq, reply, disp, gfx, hw>>

HandleGfxCancel ==
    /\ pc = Main /\ iq # <<>> /\ Head(iq) = "gfxCancel"
    /\ IF sc.rsp = "gfx"
       THEN /\ UNCHANGED sc
            /\ IF hw.busy THEN pc' = Halting("gfx") /\ iq' = Tail(iq)
               ELSE pc' = Main /\ iq' = HaltRDP(Post(Tail(iq), "rspDone"))
       ELSE IF sc.gfxList # <<>>
       THEN /\ sc' = [sc EXCEPT !.gfxList = Tail(@)]
            /\ pc' = Sending(Head(sc.gfxList), "haltRdp")
            /\ iq' = Tail(iq)
       ELSE iq' = HaltRDP(Tail(iq)) /\ UNCHANGED <<sc, pc>>
    /\ UNCHANGED <<cmdq, reply, disp, gfx, hw>>

\* SP_SET_HALT is written and the thread sleeps until the RSP has stopped, or for
\* 10 ms; either way it then sends itself RSP_DONE_MSG.  The RSP may also finish
\* between the test of SP_STATUS_HALT and the write.
FinishHalt ==
    /\ pc.at = "halt"
    /\ \/ hw' = [hw EXCEPT !.busy = FALSE]
       \/ ~HaltWorks /\ UNCHANGED hw
    /\ iq' = IF pc.task = "gfx" THEN HaltRDP(Post(iq, "rspDone")) ELSE Post(iq, "rspDone")
    /\ pc' = Main
    /\ UNCHANGED <<sc, cmdq, reply, disp, gfx>>

\* osSendMesg(task->msgQ, task->msg, OS_MESG_BLOCK), and the rest of the handler.
SendDone ==
    /\ pc.at = "send"
    /\ Len(reply[pc.task]) < ReplySize(pc.task)
    /\ reply' = [reply EXCEPT ![pc.task] = Append(@, "done")]
    /\ UNCHANGED <<cmdq, gfx, hw>>
    /\ CASE pc.then \in {"rsp", "rdp"} ->
              /\ disp' = IF pc.task = "gfx" /\ gfx.swap THEN SetNextFramebuffer(disp, gfx.cfb)
                        ELSE disp
              /\ ScheduleAndRun(sc, TaskFramebuffersValid')
              /\ UNCHANGED iq
         [] pc.then = "haltRdp" ->
              pc' = Main /\ iq' = HaltRDP(iq) /\ UNCHANGED <<sc, disp>>
         [] pc.then = "end" ->
              pc' = Main /\ UNCHANGED <<sc, iq, disp>>

SchedStep ==
    \/ HandleNotify \/ HandleRetrace \/ HandleRSPDone \/ HandleRDPDone
    \/ HandleAudioCancel \/ HandleGfxCancel \/ FinishHalt \/ SendDone \/ RunTask

-----------------------------------------------------------------------------
(* The hardware.  Its interrupts post messages to interruptQueue.          *)

\* The RSP has handed the last command of a gfx task, the full sync, to the RDP.
RSPSync ==
    /\ hw.busy /\ hw.task = "gfx" /\ hw.drawing = "drawing"
    /\ hw' = [hw EXCEPT !.drawing = "synced"]
    /\ UNCHANGED <<sc, pc, iq, cmdq, reply, disp, gfx>>

RSPFinish ==
    /\ hw.busy /\ (hw.task = "gfx" => hw.drawing # "drawing")
    /\ hw' = [hw EXCEPT !.busy = FALSE, !.working = @ \ {hw.task}]
    /\ iq' = Post(iq, "rspDone")
    /\ UNCHANGED <<sc, pc, cmdq, reply, disp, gfx>>

\* The microcode saw the yield request in time.
RSPYield ==
    /\ hw.busy /\ hw.yieldReq /\ hw.task # "aud"
    /\ hw' = [hw EXCEPT !.busy = FALSE, !.yielded = TRUE]
    /\ iq' = Post(iq, "rspDone")
    /\ UNCHANGED <<sc, pc, cmdq, reply, disp, gfx>>

\* The RDP has reached a full sync, perhaps that of an abandoned frame.
RDPFinish ==
    /\ hw.stale > 0 \/ hw.drawing = "synced"
    /\ hw' = IF hw.stale > 0 THEN [hw EXCEPT !.stale = @ - 1]
             ELSE [hw EXCEPT !.drawing = "no"]
    /\ iq' = Post(iq, "rdpDone")
    /\ UNCHANGED <<sc, pc, cmdq, reply, disp, gfx>>

Hardware == RSPSync \/ RSPFinish \/ RSPYield \/ RDPFinish

=============================================================================
