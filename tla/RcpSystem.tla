----------------------------- MODULE RcpSystem -----------------------------
(***************************************************************************)
(* The scheduler with the two threads that send it tasks and the timers    *)
(* and retraces that drive them: the graph thread (graph.c, game.c,        *)
(* z_jpeg.c, z_nulltask.c) and the audio thread (audio_thread_manager.c).  *)
(*                                                                         *)
(* The scheduler has the higher priority: the two threads take a step only *)
(* while it waits.  Interrupts, and the threads of the VI and IRQ managers *)
(* above it, take a step at any time.                                      *)
(***************************************************************************)
EXTENDS Sched

CONSTANTS
    Retries,   \* the initial value of both sRetryCount (10 in the code)
    Settings   \* what may happen in a behaviour: each a set of

\* - what is sent: tasks, and gfx tasks for frames that are not shown;
\* - for how many retraces a frame is shown;
\* - the tasks whose sender's timer may expire;
\* - whether the RSP and the RDP may stop for good.
ASSUME RcpAssumption ==
    /\ Retries \in Nat
    /\ Settings \subseteq [work : SUBSET (Tasks \cup {"unshown"}),
                          rates : SUBSET (1..MaxRate),
                          timers : SUBSET {"gfx", "aud"}, hangs : BOOLEAN]

VARIABLES
    graph,   \* the graph thread
    audio,   \* the audio thread
    setting  \* chosen at the start

vars == <<sc, pc, iq, cmdq, reply, disp, gfx, hw, graph, audio, setting>>

Work == setting.work
Timers == setting.timers

GraphPlaces == {"init", "game", "destroy", "wait", "got", "build", "drain",
                "send", "kick", "answer", "dead"}
AudioPlaces == {"idle", "send", "kick", "update", "wait", "got", "dead"}

TypeOK ==
    /\ SchedTypeOK
    /\ graph \in [at : GraphPlaces, in : {"init", "game"}, task : Tasks \ {"aud"},
                  mesg : {"done", "timeout"}, timer : BOOLEAN, left : -1..Retries,
                  cfbIndex : Cfbs, fbIndex : FBs]
    /\ audio \in [at : AudioPlaces, mesg : {"done", "timeout"}, timer : BOOLEAN,
                  left : -1..Retries, retrace : BOOLEAN]
    /\ setting \in Settings

Init ==
    /\ SchedInit
    /\ setting \in Settings
    /\ graph = [at |-> "init", in |-> "init", task |-> "gfx", mesg |-> "done",
                timer |-> FALSE, left |-> Retries, cfbIndex |-> 0, fbIndex |-> 0]
    /\ audio = [at |-> "idle", mesg |-> "done", timer |-> FALSE, left |-> Retries,
                retrace |-> FALSE]

\* The scheduler waits for a message, for room to send one, or for the RSP to stop.
SchedWaits ==
    \/ pc = Main /\ iq = <<>>
    \/ pc.at = "send" /\ Len(reply[pc.task]) = ReplySize(pc.task)
    \/ pc.at = "halt"

PostIrq(m) == iq' = Post(iq, m)

-----------------------------------------------------------------------------
(* The graph thread.                                                       *)

GraphUnchanged == UNCHANGED <<sc, pc, disp, hw, audio, setting>>

\* The end of GameState_Init: its message stands for that of a task before the first.
GameStateInit ==
    /\ graph.at = "init"
    /\ Len(reply["gfx"]) < ReplySize("gfx")
    /\ reply' = [reply EXCEPT !["gfx"] = Append(@, "done")]
    /\ graph' = [graph EXCEPT !.at = "game", !.in = "game"]
    /\ UNCHANGED <<iq, cmdq, gfx>> /\ GraphUnchanged

\* GameState_Destroy waits for the last frame.
GameStateDestroy ==
    \/ /\ graph.at = "game"
       /\ graph' = [graph EXCEPT !.at = "destroy"]
       /\ UNCHANGED <<reply, iq, cmdq, gfx>> /\ GraphUnchanged
    \/ /\ graph.at = "destroy" /\ reply["gfx"] # <<>>
       /\ reply' = [reply EXCEPT !["gfx"] = Tail(@)]
       /\ graph' = [graph EXCEPT !.at = "init", !.in = "init"]
       /\ UNCHANGED <<iq, cmdq, gfx>> /\ GraphUnchanged

\* Jpeg_ScheduleDecoderTask and Sched_FlushTaskQueue, at any time in the game's code.
\* A new queue is made for the answer.
GraphStartTask ==
    /\ graph.at \in {"init", "game"}
    /\ \E t \in Work \cap {"jpeg", "null"} :
          /\ graph' = [graph EXCEPT !.at = "send", !.task = t]
          /\ reply' = [reply EXCEPT ![t] = <<>>]
    /\ UNCHANGED <<iq, cmdq, gfx>> /\ GraphUnchanged

\* A mutant: the timer is set for retries only.
GraphStartFrameNoTimer ==
    /\ graph.at = "game" /\ Work \cap {"gfx", "unshown"} # {}
    /\ graph' = [graph EXCEPT !.at = "wait", !.task = "gfx"]
    /\ UNCHANGED <<reply, iq, cmdq, gfx>> /\ GraphUnchanged

\* Graph_TaskSet00: osSetTimer, then osRecvMesg.
GraphStartFrame ==
    /\ graph.at = "game" /\ Work \cap {"gfx", "unshown"} # {}
    /\ graph' = [graph EXCEPT !.at = "wait", !.timer = TRUE, !.task = "gfx"]
    /\ UNCHANGED <<reply, iq, cmdq, gfx>> /\ GraphUnchanged

GraphReceive ==
    /\ graph.at = "wait" /\ reply["gfx"] # <<>>
    /\ graph' = [graph EXCEPT !.at = "got", !.mesg = Head(reply["gfx"])]
    /\ reply' = [reply EXCEPT !["gfx"] = Tail(@)]
    /\ UNCHANGED <<iq, cmdq, gfx>> /\ GraphUnchanged

\* osStopTimer, and what the message asks for: build the task, cancel the last one
\* and wait again, or crash.
GraphGot ==
    /\ graph.at = "got"
    /\ IF graph.mesg = "done"
       THEN graph' = [graph EXCEPT !.at = "build", !.timer = FALSE] /\ UNCHANGED iq
       ELSE IF graph.left >= 0
       THEN graph' = [graph EXCEPT !.at = "wait", !.timer = TRUE, !.left = @ - 1]
            /\ PostIrq("gfxCancel")
       ELSE graph' = [graph EXCEPT !.at = "dead", !.timer = FALSE] /\ UNCHANGED iq
    /\ UNCHANGED <<reply, cmdq, gfx>> /\ GraphUnchanged

\* A mutant: the frames share one CfbInfo.
GraphBuildOneCfb ==
    /\ graph.at = "build"
    /\ \E swap \in {w = "gfx" : w \in Work \cap {"gfx", "unshown"}}, rate \in setting.rates :
          /\ gfx' = [cfb |-> graph.cfbIndex, swap |-> swap]
          /\ disp' = [disp EXCEPT !.cfb[graph.cfbIndex].fb = graph.fbIndex,
                                  !.cfb[graph.cfbIndex].rate = rate]
          /\ graph' = [graph EXCEPT !.at = "drain",
                          !.fbIndex = IF swap THEN 1 - @ ELSE @]
    /\ UNCHANGED <<sc, pc, iq, cmdq, reply, hw, audio, setting>>

\* The task and the next CfbInfo are written; SREG(33) asks for a frame that is not
\* shown.  framebufferIndex is advanced by the caller.
GraphBuild ==
    /\ graph.at = "build"
    /\ \E swap \in {w = "gfx" : w \in Work \cap {"gfx", "unshown"}}, rate \in setting.rates :
          /\ gfx' = [cfb |-> graph.cfbIndex, swap |-> swap]
          /\ disp' = [disp EXCEPT !.cfb[graph.cfbIndex].fb = graph.fbIndex,
                                  !.cfb[graph.cfbIndex].rate = rate]
          /\ graph' = [graph EXCEPT !.at = "drain",
                          !.cfbIndex = (@ + 1) % 3,
                          !.fbIndex = IF swap THEN 1 - @ ELSE @]
    /\ UNCHANGED <<sc, pc, iq, cmdq, reply, hw, audio, setting>>

\* A mutant: what is left in the queue is not thrown away.
GraphDrainNothing ==
    /\ graph.at = "drain"
    /\ graph' = [graph EXCEPT !.at = "send"]
    /\ UNCHANGED <<reply, iq, cmdq, gfx>> /\ GraphUnchanged

GraphDrain ==
    /\ graph.at = "drain"
    /\ reply' = [reply EXCEPT !["gfx"] = <<>>]
    /\ graph' = [graph EXCEPT !.at = "send"]
    /\ UNCHANGED <<iq, cmdq, gfx>> /\ GraphUnchanged

GraphSend ==
    /\ graph.at = "send" /\ Len(cmdq) < CmdQueueSize
    /\ cmdq' = Append(cmdq, graph.task)
    /\ graph' = [graph EXCEPT !.at = "kick"]
    /\ UNCHANGED <<reply, iq, gfx>> /\ GraphUnchanged

\* Sched_SendNotifyMsg.
GraphKick ==
    /\ graph.at = "kick"
    /\ PostIrq("notify")
    /\ graph' = [graph EXCEPT !.at = IF graph.task = "gfx" THEN "game" ELSE "answer"]
    /\ UNCHANGED <<reply, cmdq, gfx>> /\ GraphUnchanged

GraphAnswer ==
    /\ graph.at = "answer" /\ reply[graph.task] # <<>>
    /\ reply' = [reply EXCEPT ![graph.task] = Tail(@)]
    /\ graph' = [graph EXCEPT !.at = graph.in, !.task = "gfx"]
    /\ UNCHANGED <<iq, cmdq, gfx>> /\ GraphUnchanged

GraphStep ==
    /\ SchedWaits
    /\ \/ GameStateInit \/ GameStateDestroy \/ GraphStartTask \/ GraphStartFrame
       \/ GraphReceive \/ GraphGot \/ GraphBuild \/ GraphDrain \/ GraphSend
       \/ GraphKick \/ GraphAnswer

-----------------------------------------------------------------------------
(* The audio thread.                                                       *)

AudioUnchanged == UNCHANGED <<sc, pc, disp, gfx, hw, graph, setting>>

\* AudioMgr_HandleRetrace, with a task from the last AudioThread_Update or none.
\* The retraces that come while it runs are thrown away.
AudioRetrace ==
    /\ audio.at = "idle" /\ audio.retrace
    /\ reply' = [reply EXCEPT !["aud"] = <<>>]
    /\ \E at \in {"idle"} \cup {"send" : w \in Work \cap {"aud"}} :
          audio' = [audio EXCEPT !.at = at, !.retrace = FALSE]
    /\ UNCHANGED <<iq, cmdq>> /\ AudioUnchanged

AudioSend ==
    /\ audio.at = "send" /\ Len(cmdq) < CmdQueueSize
    /\ cmdq' = Append(cmdq, "aud")
    /\ audio' = [audio EXCEPT !.at = "kick"]
    /\ UNCHANGED <<reply, iq>> /\ AudioUnchanged

AudioKick ==
    /\ audio.at = "kick"
    /\ PostIrq("notify")
    /\ audio' = [audio EXCEPT !.at = "update"]
    /\ UNCHANGED <<reply, cmdq>> /\ AudioUnchanged

\* A mutant: the timer is set for retries only.
AudioUpdateNoTimer ==
    /\ audio.at = "update"
    /\ audio' = [audio EXCEPT !.at = "wait"]
    /\ UNCHANGED <<reply, iq, cmdq>> /\ AudioUnchanged

\* AudioThread_Update is over: osSetTimer.
AudioUpdate ==
    /\ audio.at = "update"
    /\ audio' = [audio EXCEPT !.at = "wait", !.timer = TRUE]
    /\ UNCHANGED <<reply, iq, cmdq>> /\ AudioUnchanged

AudioReceive ==
    /\ audio.at = "wait" /\ reply["aud"] # <<>>
    /\ audio' = [audio EXCEPT !.at = "got", !.mesg = Head(reply["aud"])]
    /\ reply' = [reply EXCEPT !["aud"] = Tail(@)]
    /\ UNCHANGED <<iq, cmdq>> /\ AudioUnchanged

\* osStopTimer; the task is done, or is cancelled and waited for again, or the
\* thread destroys itself.
AudioGot ==
    /\ audio.at = "got"
    /\ IF audio.mesg = "done"
       THEN audio' = [audio EXCEPT !.at = "idle", !.timer = FALSE, !.retrace = FALSE]
            /\ UNCHANGED iq
       ELSE IF audio.left >= 0
       THEN audio' = [audio EXCEPT !.at = "wait", !.timer = TRUE, !.left = @ - 1]
            /\ PostIrq("audioCancel")
       ELSE audio' = [audio EXCEPT !.at = "dead", !.timer = FALSE] /\ UNCHANGED iq
    /\ UNCHANGED <<reply, cmdq>> /\ AudioUnchanged

AudioStep ==
    /\ SchedWaits
    /\ AudioRetrace \/ AudioSend \/ AudioKick \/ AudioUpdate \/ AudioReceive \/ AudioGot

-----------------------------------------------------------------------------
(* Timers and retraces.                                                    *)

\* __osTimerInterrupt sends the message without blocking.
Expire(t) ==
    /\ reply' = IF Len(reply[t]) < ReplySize(t)
                THEN [reply EXCEPT ![t] = Append(@, "timeout")] ELSE reply
    /\ UNCHANGED <<sc, pc, iq, cmdq, disp, gfx, hw, setting>>

GraphTimeout ==
    /\ graph.timer /\ "gfx" \in Timers
    /\ graph' = [graph EXCEPT !.timer = FALSE]
    /\ Expire("gfx") /\ UNCHANGED audio

AudioTimeout ==
    /\ audio.timer /\ "aud" \in Timers
    /\ audio' = [audio EXCEPT !.timer = FALSE]
    /\ Expire("aud") /\ UNCHANGED graph

\* The VI turns to the next framebuffer; the IRQ manager tells its clients.  The
\* scheduler handles a retrace before the next one comes: the bound of the model.
Retrace ==
    /\ "retrace" \notin Range(iq)
    /\ disp' = [disp EXCEPT !.viCur = disp.viNext]
    /\ PostIrq("retrace")
    /\ audio' = [audio EXCEPT !.retrace = (audio.at # "dead")]
    /\ UNCHANGED <<sc, pc, cmdq, reply, gfx, hw, graph, setting>>

Environment == GraphTimeout \/ AudioTimeout \/ Retrace

Next ==
    \/ SchedStep /\ UNCHANGED <<graph, audio, setting>>
    \/ Hardware /\ UNCHANGED <<graph, audio, setting>>
    \/ GraphStep \/ AudioStep \/ Environment

Spec == Init /\ [][Next]_vars

-----------------------------------------------------------------------------
(* Safety.                                                                 *)

Count(q, m) == Cardinality({i \in DOMAIN q : q[i] = m})

At(place, t) == pc.at = place /\ pc.task = t

\* How often the scheduler holds a task that the RSP has yet to finish, or any task.
ForRSP(t) ==
    Count(cmdq, t) + Count(sc.audioList, t) + Count(sc.gfxList, t)
        + (IF sc.rsp = t \/ At("load", t) THEN 1 ELSE 0)
Held(t) ==
    (IF ForRSP(t) = 0 /\ sc.rdp = t THEN 1 ELSE ForRSP(t)) + (IF At("send", t) THEN 1 ELSE 0)

\* Whether a thread has sent t, or for "gfx" the message of GameState_Init, and has
\* not received the answer.
Awaited(t) ==
    CASE t = "gfx" -> /\ graph.in = "game"
                      /\ \/ graph.at \in {"game", "destroy", "wait", "kick", "answer"}
                         \/ graph.at = "send" /\ graph.task # "gfx"
      [] t = "aud" -> audio.at \in {"kick", "update", "wait"}
      [] OTHER     -> graph.at \in {"kick", "answer"} /\ graph.task = t

\* Every task that is sent is in exactly one place until its sender has its answer,
\* and answered once: no order of completions, yields, retraces and new tasks loses
\* it, runs it twice or answers it twice (Sched_HandleRSPDone, Sched_TaskComplete), as
\* long as no timer expires.
OneAnswer ==
    Timers = {} =>
        \A t \in Tasks : Held(t) + Len(reply[t]) = IF Awaited(t) THEN 1 ELSE 0

\* No graphics task is cancelled that has yielded to an audio task.
NoYieldCancelled == "gfx" \notin Timers \/ "aud" \notin Work

\* No task is linked twice or rewritten by its sender while it is on a list of the
\* scheduler or on the way to it, even if tasks are cancelled and completed too early:
\* the linked lists stay lists (Sched_QueueTask, graph.c:196, audio_thread_manager.c:28).
ListsIntact ==
    NoYieldCancelled =>
        /\ \A t \in Tasks :
              Count(cmdq, t) + Count(sc.audioList, t) + Count(sc.gfxList, t) <= 1
        /\ graph.at \in {"build", "drain", "send"} =>
              graph.task \notin Range(cmdq) \cup Range(sc.gfxList)
        /\ audio.at = "send" => "aud" \notin Range(cmdq) \cup Range(sc.audioList)

\* A sender is told that its task is done only when neither processor works on it
\* (the comment of Sched_TaskComplete, sched.c:327).
DoneMeansDone ==
    pc.at = "send" /\ pc.then \in {"rsp", "rdp"} =>
        /\ ~(hw.busy /\ hw.task = pc.task)
        /\ pc.task = "gfx" => hw.drawing = "no"

\* With no timeouts that is so (Sched_HandleRSPDone, Sched_HandleRDPDone).
DoneInTime == Timers = {} => DoneMeansDone

\* The answer to a null task means that no task runs and none is queued
\* (the comments of Sched_FlushTaskQueue, z_nulltask.c:6,26), as long as no timer expires.
FlushDrains ==
    Timers = {} /\ pc.at = "send" /\ pc.task = "null" =>
        /\ sc.rsp = NoTask /\ sc.rdp = NoTask
        /\ sc.audioList = <<>> /\ sc.gfxList = <<>>
        /\ ~hw.busy /\ hw.drawing = "no" /\ hw.working = {}

\* The RDP never draws into the framebuffer that is shown
\* (Sched_TaskFramebuffersValid, the two framebuffers of graph.c), as long as no frame is
\* abandoned.
NoTear == Timers = {} /\ hw.drawing # "no" => disp.viCur # disp.cfb[gfx.cfb].fb

\* A finished frame that waits to be shown is not overwritten with the next one's
\* data by the graph thread (the three CfbInfos of graph.c:210), as long as no frame is
\* abandoned.
FrameKept ==
    [][Timers = {} /\ disp.pending # NoCfb /\ disp'.pending = disp.pending
        => disp'.cfb[disp.pending].fb = disp.cfb[disp.pending].fb
           /\ disp'.cfb[disp.pending].rate = disp.cfb[disp.pending].rate]_vars

-----------------------------------------------------------------------------
(* Liveness.  The scheduler runs when it can.  The threads below it run    *)
(* again and again between its steps: strong fairness.  A task the RSP     *)
(* works on is finished if it is run again and again, and the RDP reaches  *)
(* the sync of what it was given; retraces go on.                          *)

GraphGoesOn ==
    /\ SchedWaits
    /\ \/ GraphReceive \/ GraphGot \/ GraphBuild \/ GraphDrain \/ GraphSend
       \/ GraphKick \/ GraphAnswer

SchedGoesOn == SchedStep /\ UNCHANGED <<graph, audio, setting>>
RSPGoesOn(A, gfxTask) ==
    ~setting.hangs /\ (hw.task = "gfx") = gfxTask /\ A /\ UNCHANGED <<graph, audio, setting>>
RDPGoesOn == ~setting.hangs /\ RDPFinish /\ UNCHANGED <<graph, audio, setting>>

Fairness ==
    /\ WF_vars(SchedGoesOn)
    /\ SF_vars(GraphGoesOn) /\ SF_vars(AudioStep)
    /\ WF_vars(GraphTimeout) /\ WF_vars(AudioTimeout) /\ WF_vars(Retrace)
    /\ SF_vars(RSPGoesOn(RSPSync \/ RSPFinish, TRUE))
    /\ WF_vars(RSPGoesOn(RSPFinish, FALSE))
    /\ WF_vars(RDPGoesOn)

LiveSpec == Spec /\ Fairness

\* With processors that work, whoever waits for a task gets it back, though audio makes
\* graphics yield again and again (Sched_Yield).
TasksAnswered ==
    /\ ~setting.hangs /\ graph.at \in {"wait", "answer"} ~> graph.at \in {"build", "game", "init"}
    /\ ~setting.hangs /\ audio.at = "wait" ~> audio.at = "idle"

\* A task is to be started on an RSP that still runs: osSpTaskLoad spins above both threads.
Spins == pc.at = "load" /\ hw.busy

\* Even if the RSP or the RDP hangs, the graph thread gets its task back or crashes the
\* game on purpose (graph.c:145); except that an RSP that does not stop when it is told to
\* (sched.c:165), and does not finish later, holds up the scheduler, and with it everything,
\* once the next task is to be started (osSpTaskLoad, sptask.c:37).
GraphRecovers ==
    graph.at = "wait" /\ "gfx" \in Timers ~> (graph.at \in {"build", "dead"} \/ []Spins)

\* Even if the RSP hangs, the audio thread gets its task back or destroys itself, and the
\* scheduler is not left blocked on the audio thread's queue of one message, which a
\* timer's message may fill (AudioMgr_HandleRetrace), with the same exception of an RSP that
\* does not stop (sched.c:102).
AudioRecovers ==
    /\ audio.at = "wait" /\ "aud" \in Timers ~> (audio.at \in {"idle", "dead"} \/ []Spins)
    /\ []<>(pc = Main \/ "aud" \notin Timers) \/ <>[]Spins

=============================================================================
