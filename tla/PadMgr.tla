------------------------------- MODULE PadMgr -------------------------------
(***************************************************************************)
(* The controller manager (code/padmgr.c) as a client of the interrupt     *)
(* manager, with the main thread as another client (code/main.c), any that *)
(* join and leave as it does (the audio thread), and the graph thread,     *)
(* which polls the inputs and talks to the voice recognition unit.  One    *)
(* message serves as the token for the serial interface (SI), another as   *)
(* the lock of the inputs.                                                 *)
(*                                                                         *)
(* There is one controller with one button, and nothing or a rumble pak in *)
(* it.  Looking for a voice recognition unit at the start is left out.     *)
(***************************************************************************)
EXTENDS IrqMgr

CONSTANTS RumbleTime,    \* retraces a wish to rumble is good for, 24 in the code
          PauseTime,     \* retraces of a pause, 12 in the code
          Settings       \* what the player and the hardware do, see TypeOK

Pad == "pad"
Graph == "graph"
ASSUME PadAssumption ==
  /\ {Pad, "main"} \subseteq Clients /\ Pollers = {Pad} /\ Null # Graph
  /\ RumbleTime \in Nat /\ PauseTime \in Nat
  /\ Settings \subseteq [late : BOOLEAN, fails : Nat, pulls : Nat]

VARIABLES padAt,         \* how far the padmgr thread is with its loop
          actionBits, exit,
          token,         \* who took the token out of serialLockQueue, or Null
          lock,          \* and the message out of lockQueue
          si,            \* whose operation the SI is doing, or Null
          serial,        \* the serial queue: the completed operations
          pads,          \* button and errno that were read
          ctrlrType, pakType, card,
          rumble,        \* rumbleEnable, rumbleTimer, rumbleOnTimer, rumbleOffTimer
          isResetting,
          input,         \* cur and press of the button
          graph,         \* how far the graph thread is, and the press it polled
          plugged, motor,  \* the controller and its motor
          left,          \* transmissions that may fail and pulls to come
          setting        \* the member of Settings this behaviour belongs to

serialVars == <<token, si, serial>>
padVars == <<padAt, actionBits, exit, pads, ctrlrType, pakType, card, rumble,
             isResetting, input>>
vars == <<irqVars, padVars, serialVars, lock, graph, plugged, motor, left, setting>>

Unread == [button |-> FALSE, errno |-> "ok"]
PadAts == {"recv", "act", "retrace", "read", "query", "inputs", "rumble",
           "stop", "stopping", "drive", "start", "halt", "init"}
TypeOK ==
  /\ IrqTypeOK
  /\ padAt \in PadAts
  /\ actionBits \subseteq Resets \cup {"retrace"} /\ exit \in BOOLEAN
  /\ {token, lock, si} \subseteq {Pad, Graph, Null}
  /\ serial \in BoundedSeq({Pad, Graph}, 1)
  /\ pads \in [button : BOOLEAN, errno : {"ok", "overrun", "noresp"}]
  /\ ctrlrType \in {"none", "normal"} /\ pakType \in {"none", "rumble"} /\ card \in BOOLEAN
  /\ rumble \in [enable : BOOLEAN, timer : 0..3 \cup {255},
                 on : 0..RumbleTime, off : 0..PauseTime]
  /\ isResetting \in BOOLEAN
  /\ input \in [cur : BOOLEAN, press : BOOLEAN]
  /\ graph \in [at : {"play", "poll", "voice", "listen", "destroyed"}, press : BOOLEAN]
  /\ plugged \in {"no", "bare", "pak"} /\ motor \in BOOLEAN
  /\ setting \in [late : BOOLEAN, fails : Nat, pulls : Nat]
  /\ left \in [fails : 0..setting.fails, pulls : 0..setting.pulls]

Init ==
  /\ setting \in Settings
  /\ IF setting.late THEN IrqInit ELSE IrqRunning
  /\ padAt = "recv" /\ actionBits = {} /\ exit = FALSE
  /\ token = Null /\ lock = Null /\ si = Null /\ serial = <<>>
  /\ pads = Unread
  /\ ctrlrType = "none" /\ pakType = "none" /\ card = FALSE
  /\ rumble = [enable |-> FALSE, timer |-> 0, on |-> 0, off |-> 0]
  /\ isResetting = FALSE
  /\ input = [cur |-> FALSE, press |-> FALSE]
  /\ graph = [at |-> "play", press |-> FALSE]
  /\ plugged = "pak" /\ motor = FALSE /\ left = [fails |-> setting.fails, pulls |-> setting.pulls]
-----------------------------------------------------------------------------
(* The token and the SI.                                                   *)

Acquire(t) == token = Null /\ token' = t
\* The token is taken and an operation begun.
Begin(t) == Acquire(t) /\ si' = t /\ UNCHANGED serial
\* The interrupt of an operation is awaited, and then the next one begun or
\* the token given back.
Await == serial # <<>> /\ serial' = <<>>
AwaitAndBegin(t) == Await /\ si' = t /\ UNCHANGED token
AwaitAndGoOn(t) == Await /\ si' = t /\ token' = Null
AwaitAndRelease == Await /\ token' = Null /\ UNCHANGED si

\* A transmission fails, if one may still do so.
Fails(failed) == /\ failed => left.fails > 0
                 /\ left' = [left EXCEPT !.fails = @ - IF failed THEN 1 ELSE 0]

SiDone ==
  /\ si # Null
  /\ si' = Null /\ serial' = IF serial = <<>> THEN <<si>> ELSE serial
  /\ UNCHANGED <<irqVars, padVars, token, lock, graph, plugged, motor, left>>
-----------------------------------------------------------------------------
(* PadMgr_ThreadEntry.                                                     *)

\* All messages are taken before any is acted upon.
Receive ==
  /\ padAt = "recv" /\ Take(Pad)
  /\ actionBits' = actionBits \cup {Head(queue[Pad])}
  /\ padAt' = IF Len(queue[Pad]) > 1 THEN "recv" ELSE "act"
  /\ UNCHANGED <<listVars, at, iter, missed, resetStatus, exit, pads, ctrlrType, pakType,
                 card, rumble, isResetting, input>>

\* PadMgr_HandlePreNMI: its rumble is paused, and never driven again.
ResetRumbleOnly(r) == r
ResetRumble(r) == [r EXCEPT !.off = PauseTime]

Act ==
  /\ padAt = "act" /\ at[Pad] = "running"
  /\ IF actionBits = {} THEN
        /\ padAt' = "recv"
        /\ at' = [at EXCEPT ![Pad] = IF exit THEN "leaving" ELSE "running"]
        /\ UNCHANGED <<actionBits, exit, isResetting, rumble>>
     ELSE \E msg \in actionBits :
        /\ msg = "prenmi" => "nmi" \notin actionBits
        /\ msg = "retrace" => actionBits = {"retrace"}
        /\ actionBits' = actionBits \ {msg}
        /\ exit' = (exit \/ msg = "nmi")
        /\ isResetting' = (isResetting \/ msg = "prenmi")
        /\ rumble' = IF msg = "prenmi" THEN ResetRumble(rumble) ELSE rumble
        /\ padAt' = IF msg = "retrace" THEN "retrace" ELSE "act"
        /\ UNCHANGED at
  /\ UNCHANGED <<listVars, queue, iter, heard, missed, resetStatus, pads, ctrlrType, pakType,
                 card, input>>

-----------------------------------------------------------------------------
(* PadMgr_HandleRetrace.                                                   *)

\* What the callback of the rumble manager asks for: nothing while there is no
\* game, else to rumble or not, or a pause.
RumbleUpdate(r) ==
  IF setting.late THEN {r}
  ELSE {[r EXCEPT !.enable = wish, !.on = RumbleTime] : wish \in BOOLEAN}
         \cup {[r EXCEPT !.enable = FALSE, !.on = RumbleTime, !.off = PauseTime]}

StartRead ==
  /\ padAt = "retrace" /\ Begin(Pad)
  /\ padAt' = "read"
  /\ rumble' \in RumbleUpdate(rumble)
  /\ UNCHANGED <<actionBits, exit, pads, ctrlrType, pakType, card, isResetting, input, motor, left>>

\* The inputs are read, cleared if a reset has begun, and the query begun.
ReadResult(p) ==
  \/ plugged = "no" /\ p = [button |-> FALSE, errno |-> "noresp"] /\ Fails(FALSE)
  \/ plugged # "no" /\ p.errno = "ok" /\ Fails(FALSE)
  \/ plugged # "no" /\ p.errno # "ok" /\ ~p.button /\ Fails(TRUE)

GotInputs(next_op) ==
  /\ padAt = "read" /\ next_op
  /\ \E p \in [button : BOOLEAN, errno : {"ok", "overrun", "noresp"}] :
        /\ ReadResult(p)
        /\ pads' = IF isResetting THEN Unread ELSE p
  /\ padAt' = "query"
  /\ UNCHANGED <<actionBits, exit, ctrlrType, pakType, card, rumble, isResetting, input, motor>>

FinishReadReleases == GotInputs(AwaitAndGoOn(Pad))
FinishRead == GotInputs(AwaitAndBegin(Pad))

\* PadMgr_UpdateConnections, with what the query found.
Disconnected == /\ ctrlrType' = "none" /\ pakType' = "none"
                /\ rumble' = [rumble EXCEPT !.timer = 255]

FinishQuery ==
  /\ padAt = "query" /\ AwaitAndRelease
  /\ \E answers \in BOOLEAN :
        /\ answers => plugged # "no"
        /\ Fails(~answers /\ plugged # "no")
        /\ card' = (answers /\ plugged = "pak")
        /\ IF answers THEN ctrlrType' = "normal" /\ UNCHANGED <<pakType, rumble>>
           ELSE IF ctrlrType # "none" THEN Disconnected
           ELSE UNCHANGED <<ctrlrType, pakType, rumble>>
  /\ padAt' = "inputs"
  /\ UNCHANGED <<actionBits, exit, pads, isResetting, input, motor>>

\* PadMgr_UpdateInputs, under the lock.
Polled == CASE ctrlrType = "none" -> FALSE
            [] pads.errno = "overrun" -> input.cur
            [] OTHER -> pads.button

UpdateInputs ==
  /\ padAt = "inputs" /\ lock = Null
  /\ input' = [cur |-> Polled, press |-> input.press \/ (Polled /\ ~input.cur)]
  /\ pads' = Unread   \* it is not looked at again
  /\ IF ctrlrType = "normal" /\ pads.errno = "noresp" THEN Disconnected
     ELSE UNCHANGED <<ctrlrType, pakType, rumble>>
  /\ padAt' = "rumble"
  /\ UNCHANGED <<actionBits, exit, card, isResetting, serialVars, motor, left>>

\* What is done about the rumble pak.
AfterInputs == IF rumble.off > 0 \/ rumble.on = 0 THEN "stop"
               ELSE IF isResetting THEN "act" ELSE "drive"

Rumble ==
  /\ padAt = "rumble"
  /\ padAt' = AfterInputs
  /\ rumble' = IF rumble.off > 0 THEN [rumble EXCEPT !.off = @ - 1] ELSE rumble
  /\ UNCHANGED <<actionBits, exit, pads, ctrlrType, pakType, card, isResetting, input,
                 serialVars, motor, left>>

\* PadMgr_RumbleStop, whatever is thought to be in the controller.
RumbleStop ==
  /\ padAt = "stop"
  /\ IF ctrlrType = "normal" THEN Begin(Pad) /\ padAt' = "stopping"
     ELSE token = Null /\ padAt' = "act" /\ UNCHANGED serialVars
  /\ UNCHANGED <<actionBits, exit, pads, ctrlrType, pakType, card, rumble, isResetting,
                 input, motor, left>>

Stopped(done) ==
  /\ padAt = "stopping" /\ done
  /\ \E failed \in BOOLEAN :
        /\ Fails(failed)
        /\ motor' = (motor /\ failed)
  /\ padAt' = "act"
  /\ UNCHANGED <<actionBits, exit, pads, ctrlrType, pakType, card, rumble, isResetting, input>>

FinishStopKeepsToken == Stopped(Await /\ UNCHANGED <<token, si>>)
FinishStop == Stopped(AwaitAndRelease)

\* PadMgr_UpdateRumble.  A port is looked at for a new pak every fourth time.
Drives ==
  IF ctrlrType = "normal" /\ card /\ pakType = "rumble"
  THEN IF rumble.enable
       THEN IF rumble.timer < 3 THEN {"start"} ELSE {"act"}
       ELSE IF rumble.timer # 0 THEN {"halt"} ELSE {"act"}
  ELSE IF ctrlrType = "normal" /\ card THEN {"init", "act"} ELSE {"act"}

UpdateRumble ==
  /\ padAt = "drive"
  /\ padAt' \in Drives
  /\ IF padAt' = "act" THEN token = Null /\ UNCHANGED serialVars ELSE Begin(Pad)
  /\ pakType' = IF ctrlrType = "normal" /\ ~card THEN "none" ELSE pakType
  /\ rumble' = IF padAt' = "act" THEN [rumble EXCEPT !.on = @ - 1] ELSE rumble
  /\ UNCHANGED <<actionBits, exit, pads, ctrlrType, card, isResetting, input, motor, left>>

FinishDrive ==
  /\ padAt \in {"start", "halt", "init"} /\ AwaitAndRelease
  /\ \E failed \in BOOLEAN :
        /\ failed \/ plugged = "pak"
        /\ Fails(failed /\ plugged = "pak")
        /\ pakType' = IF padAt = "init" THEN (IF failed THEN pakType ELSE "rumble")
                      ELSE IF failed THEN "none" ELSE pakType
        /\ motor' \in CASE padAt = "start" -> {plugged = "pak", motor /\ failed}
                        [] padAt = "halt" -> {motor /\ failed}
                        [] OTHER -> {motor}
        /\ rumble' = [rumble EXCEPT !.on = @ - 1,
                        !.timer = IF failed THEN @
                                  ELSE CASE padAt = "start" -> 3
                                         [] padAt = "halt" -> @ - 1
                                         [] OTHER -> 2]
  /\ padAt' = "act"
  /\ UNCHANGED <<actionBits, exit, pads, ctrlrType, card, isResetting, input>>

HandlePadRetrace ==
  /\ \/ StartRead \/ FinishRead \/ FinishQuery \/ UpdateInputs \/ Rumble
     \/ RumbleStop \/ FinishStop \/ UpdateRumble \/ FinishDrive
  /\ UNCHANGED <<irqVars, lock, graph, plugged>>

PadThread ==
  \/ Receive /\ UNCHANGED <<serialVars, lock, graph, plugged, motor, left>>
  \/ Act /\ UNCHANGED <<serialVars, lock, graph, plugged, motor, left>>
  \/ HandlePadRetrace
-----------------------------------------------------------------------------
(* The graph thread, until the main thread destroys it.                    *)

\* PadMgr_GetInput for the game: the inputs are copied, then the presses cleared.
CopyInputs ==
  /\ graph.at = "play"
  /\ graph' = [at |-> "poll", press |-> input.press]
  /\ UNCHANGED <<input, serialVars>>
CopyInputsNoLock == CopyInputs /\ UNCHANGED lock
CopyInputsLocked == CopyInputs /\ lock = Null /\ lock' = Graph

ClearPresses ==
  /\ graph.at = "poll"
  /\ graph' = [at |-> "play", press |-> FALSE]   \* the game is done with it
  /\ input' = [input EXCEPT !.press = FALSE]
  /\ lock' = Null
  /\ UNCHANGED serialVars

\* One of the functions that talk to the voice recognition unit.
VoiceStart ==
  /\ graph.at = "play" /\ Begin(Graph)
  /\ graph' = [graph EXCEPT !.at = "listen"]
  /\ UNCHANGED <<input, lock>>

VoiceDone ==
  /\ graph.at = "listen" /\ AwaitAndRelease
  /\ graph' = [graph EXCEPT !.at = "play"]
  /\ UNCHANGED <<input, lock>>

GraphFrame ==
  /\ CopyInputsLocked \/ ClearPresses \/ VoiceStart \/ VoiceDone
  /\ UNCHANGED <<irqVars, padAt, actionBits, exit, pads, ctrlrType, pakType, card, rumble,
                 isResetting, plugged, motor, left>>

\* The main thread has left the interrupt manager.
DestroyGraph ==
  /\ at["main"] = "gone" /\ graph.at # "destroyed"
  /\ graph' = [graph EXCEPT !.at = "destroyed"]
  /\ UNCHANGED <<irqVars, padVars, serialVars, lock, plugged, motor, left>>

\* The player.
PlugOrPull ==
  /\ left.pulls > 0 /\ left' = [left EXCEPT !.pulls = @ - 1]
  /\ plugged' \in {"no", "bare", "pak"} \ {plugged}
  /\ motor' = FALSE
  /\ UNCHANGED <<irqVars, padVars, serialVars, lock, graph>>

\* The threads of the clients; those of the others are started by the main
\* thread once it is a client.
ClientThreads ==
  /\ \/ \E c \in Clients : Membership(c) /\ (c = "main" \/ at["main"] = "running")
     \/ \E c \in Clients \ {Pad} : TakeReset(c) /\ setting.late
  /\ UNCHANGED <<padVars, serialVars, lock, graph, plugged, motor, left>>

Irqs == Irq /\ UNCHANGED <<padVars, serialVars, lock, graph, plugged, motor, left>>

Next == /\ \/ Irqs \/ ClientThreads \/ PadThread \/ SiDone
           \/ GraphFrame \/ DestroyGraph \/ PlugOrPull
        /\ UNCHANGED setting

Spec == Init /\ [][Next]_vars

\* The SI answers, and threads go on.  The padmgr thread has the highest
\* priority of those that wait for the token or the lock: it gets it.
Step(A) == A /\ UNCHANGED setting
LiveSpec == Spec /\ WF_vars(Step(SiDone)) /\ SF_vars(Step(PadThread))
                 /\ WF_vars(Step((ClearPresses \/ VoiceDone) /\ GraphFrame))
-----------------------------------------------------------------------------
\* Whoever takes the interrupt of an SI operation is who began it, and no
\* operation is begun before the last one's interrupt was taken.
\* (The comment at padmgr.c:139: "it becomes ambiguous as to which DMA has
\* completed".)
SerialForHolder ==
  /\ si # Null => si = token /\ serial = <<>>
  /\ serial # <<>> => serial = <<token>>

\* A press is taken from the inputs only by a poll that has seen it.
\* (PadMgr_GetInput against PadMgr_UpdateInputs.)
PressesAreSeen == [][input.press /\ ~input'.press => graph.press]_vars

\* When the pause that begins with the PreNMI is over the motor stands still
\* for good, though fewer transmissions fail than the pause has retraces, and
\* paks are pulled.  (PadMgr_HandlePreNMI, PadMgr_HandleRetrace.)
MotorStops ==
  isResetting /\ rumble.off = 0 /\ padAt \notin {"stop", "stopping"} => ~motor

\* Handling a retrace comes to its end, and after the NMI the thread does, if
\* the graph thread was not destroyed with the token or the lock in hand.
Orphaned == graph.at = "destroyed" /\ Graph \in {token, lock}
PadReturns ==
  padAt # "recv" ~> padAt = "recv" \/ Orphaned
=============================================================================
