---------------------------- MODULE PadMgrProofs ----------------------------
(***************************************************************************)
(* The serial line, the lock of the inputs and the motor, for all queue    *)
(* sizes, rumble times and pauses and any number of failing transmissions; *)
(* and that every client hears of a reset, for any number of clients.      *)
(***************************************************************************)
EXTENDS PadMgr, Lists, TLAPS

\* The threads are told apart, and none of them is the end of a list.
LEMMA Names == Pad # Graph /\ Null # Pad /\ Null # Graph /\ Pad \in Clients
BY PadAssumption, IrqAssumption DEF Pad, Graph

-----------------------------------------------------------------------------
(* The serial line.                                                        *)

\* Where the padmgr thread waits for an interrupt of the SI.
Waiting == {"read", "query", "stopping", "start", "halt", "init"}

\* The token is with the thread that is inside of an operation; while it is with none, the
\* line is quiet and no interrupt is left.
LineInv ==
  /\ token \in {Pad, Graph, Null}
  /\ token = Pad <=> padAt \in Waiting
  /\ graph.at = "listen" => token = Graph
  /\ token = Graph => graph.at \in {"listen", "destroyed"}
  /\ token = Null => si = Null /\ serial = <<>>
  /\ SerialForHolder

\* The serial line is quiet at the start.
LEMMA LineInit == Init => LineInv
BY Names DEF Init, LineInv, SerialForHolder, Waiting

\* An operation is begun by a thread that takes the token for it, goes on to the next, or
\* comes to its end.
LEMMA LineSteps ==
  ASSUME LineInv, NEW t \in {Pad, Graph}
  PROVE  /\ Begin(t) => token = Null /\ token' = t /\ (si' = t /\ serial' = <<>>)
         /\ AwaitAndBegin(t) /\ token = t => token' = t /\ si' = t /\ serial' = <<>>
         /\ AwaitAndRelease => token' = Null /\ si' = Null /\ serial' = <<>>
BY Names DEF LineInv, SerialForHolder, Begin, Acquire, AwaitAndBegin, AwaitAndRelease, Await

\* Every step leaves the serial line with who holds its token.
LEMMA LineNext == LineInv /\ [Next]_vars => LineInv'
<1> SUFFICES ASSUME LineInv, [Next]_vars PROVE LineInv'
  OBVIOUS
<1> USE Names
<1>1. ASSUME UNCHANGED <<serialVars, graph>>, padAt' \in Waiting <=> padAt \in Waiting PROVE LineInv'
  BY <1>1 DEF LineInv, SerialForHolder, serialVars
<1>2. CASE Irqs \/ ClientThreads \/ PlugOrPull \/ UNCHANGED vars
  BY <1>1, <1>2 DEF Irqs, ClientThreads, PlugOrPull, vars, padVars
<1>3. CASE Receive /\ UNCHANGED <<serialVars, lock, graph, plugged, motor, left>>
  BY <1>1, <1>3 DEF Receive, Waiting
<1>4. CASE Act /\ UNCHANGED <<serialVars, lock, graph, plugged, motor, left>>
  BY <1>1, <1>4 DEF Act, Waiting
<1>5. CASE HandlePadRetrace
  <2>1. UNCHANGED graph
    BY <1>5 DEF HandlePadRetrace
  <2>2. ASSUME padAt \notin Waiting, padAt' \in Waiting, Begin(Pad) PROVE LineInv'
    BY <2>1, <2>2, LineSteps DEF LineInv, SerialForHolder
  <2>3. ASSUME padAt \in Waiting, padAt' \in Waiting, AwaitAndBegin(Pad) PROVE LineInv'
    BY <2>1, <2>3, LineSteps DEF LineInv, SerialForHolder
  <2>4. ASSUME padAt \in Waiting, padAt' \notin Waiting, AwaitAndRelease PROVE LineInv'
    BY <2>1, <2>4, LineSteps DEF LineInv, SerialForHolder
  <2>5. CASE StartRead
    BY <2>2, <2>5 DEF StartRead, Waiting
  <2>6. CASE FinishRead
    BY <2>3, <2>6 DEF FinishRead, GotInputs, Waiting
  <2>7. CASE FinishQuery
    BY <2>4, <2>7 DEF FinishQuery, Waiting
  <2>8. CASE UpdateInputs \/ Rumble
    BY <1>1, <2>1, <2>8 DEF UpdateInputs, Rumble, AfterInputs, Waiting
  <2>9. CASE RumbleStop
    BY <1>1, <2>1, <2>2, <2>9 DEF RumbleStop, Waiting
  <2>10. CASE FinishStop
    BY <2>4, <2>10 DEF FinishStop, Stopped, Waiting
  <2>11. CASE UpdateRumble
    <3>1. padAt = "drive" /\ padAt' \in {"start", "halt", "init", "act"}
      BY <2>11 DEF UpdateRumble, Drives
    <3> QED BY <1>1, <2>1, <2>2, <2>11, <3>1 DEF UpdateRumble, Waiting
  <2>12. CASE FinishDrive
    BY <2>4, <2>12 DEF FinishDrive, Waiting
  <2> QED BY <1>5, <2>5, <2>6, <2>7, <2>8, <2>9, <2>10, <2>11, <2>12 DEF HandlePadRetrace
<1>6. CASE SiDone
  BY <1>6 DEF SiDone, padVars, LineInv, SerialForHolder
<1>7. CASE GraphFrame
  <2>1. padAt' = padAt
    BY <1>7 DEF GraphFrame
  <2>2. CASE CopyInputsLocked \/ ClearPresses
    BY <2>1, <2>2 DEF CopyInputsLocked, CopyInputs, ClearPresses, LineInv, SerialForHolder, serialVars
  <2>3. CASE VoiceStart
    BY <2>1, <2>3, LineSteps DEF VoiceStart, LineInv, SerialForHolder
  <2>4. CASE VoiceDone
    BY <2>1, <2>4, LineSteps DEF VoiceDone, LineInv, SerialForHolder
  <2> QED BY <1>7, <2>2, <2>3, <2>4 DEF GraphFrame
<1>8. CASE DestroyGraph
  BY <1>8 DEF DestroyGraph, padVars, serialVars, LineInv, SerialForHolder
<1> QED BY <1>2, <1>3, <1>4, <1>5, <1>6, <1>7, <1>8 DEF Next, PadThread

\* Whoever takes the interrupt of a serial operation is who began it: neither thread can
\* take the other's, although both wait on the same queue (padmgr.c:139).
THEOREM TokenGuardsSerial == Spec => []SerialForHolder
<1>1. LineInv => SerialForHolder
  BY DEF LineInv
<1> QED BY LineInit, LineNext, <1>1, PTL DEF Spec

-----------------------------------------------------------------------------
(* The presses.                                                            *)

\* While the graph thread polls it has the lock, so that the inputs keep no press but the
\* one it has seen.
PollInv ==
  /\ DOMAIN graph = {"at", "press"} /\ graph = [at |-> graph.at, press |-> graph.press]
  /\ graph.at = "poll" => lock = Graph /\ (input.press => graph.press)

\* A step that leaves the inputs and the lock alone, and neither begins nor ends a poll.
Unpolled ==
  /\ UNCHANGED <<input, lock>>
  /\ \/ graph' = graph
     \/ \E at_ \in {"play", "listen", "destroyed"} : graph' = [graph EXCEPT !.at = at_]

\* What a step may do to the inputs, the lock and the graph thread.
LEMMA PollSteps ==
  ASSUME [Next]_vars
  PROVE  \/ Unpolled \/ CopyInputsLocked \/ ClearPresses
         \/ UpdateInputs /\ UNCHANGED <<lock, graph>>
<1>1. CASE Irqs \/ ClientThreads \/ SiDone \/ PlugOrPull \/ UNCHANGED vars
  BY <1>1 DEF Irqs, ClientThreads, SiDone, PlugOrPull, vars, padVars, Unpolled
<1>2. CASE DestroyGraph
  BY <1>2 DEF DestroyGraph, padVars, Unpolled
<1>3. CASE PadThread
  <2>1. UNCHANGED <<lock, graph>>
    BY <1>3 DEF PadThread, HandlePadRetrace
  <2>2. UpdateInputs \/ UNCHANGED input
    BY <1>3 DEF PadThread, HandlePadRetrace, Receive, Act, StartRead, FinishRead, GotInputs,
                FinishQuery, Rumble, RumbleStop, FinishStop, Stopped, UpdateRumble, FinishDrive
  <2> QED BY <2>1, <2>2 DEF Unpolled
<1>4. CASE VoiceStart
  BY <1>4 DEF VoiceStart, Unpolled
<1>5. CASE VoiceDone
  BY <1>5 DEF VoiceDone, Unpolled
<1> QED BY <1>1, <1>2, <1>3, <1>4, <1>5 DEF Next, GraphFrame

\* Every step keeps what the polls know of the inputs.
LEMMA PollNext == PollInv /\ [Next]_vars => PollInv'
<1> SUFFICES ASSUME PollInv, [Next]_vars PROVE PollInv'
  OBVIOUS
<1>1. CASE Unpolled
  <2>1. CASE graph' = graph
    BY <1>1, <2>1 DEF Unpolled, PollInv
  <2>2. ASSUME NEW at_ \in {"play", "listen", "destroyed"}, graph' = [graph EXCEPT !.at = at_]
        PROVE  PollInv'
    <3>1. graph' = [at |-> at_, press |-> graph.press]
      BY <2>2 DEF PollInv
    <3> QED BY <3>1 DEF PollInv
  <2> QED BY <1>1, <2>1, <2>2 DEF Unpolled
<1>2. CASE CopyInputsLocked
  BY <1>2 DEF CopyInputsLocked, CopyInputs, PollInv
<1>3. CASE ClearPresses
  BY <1>3 DEF ClearPresses, PollInv
<1>4. CASE UpdateInputs /\ UNCHANGED <<lock, graph>>
  <2>1. graph.at # "poll"
    BY <1>4, Names DEF UpdateInputs, PollInv
  <2> QED BY <1>4, <2>1 DEF PollInv
<1> QED BY <1>1, <1>2, <1>3, <1>4, PollSteps

\* A press is cleared only once the graph thread has copied it.
LEMMA PollSees == PollInv /\ [Next]_vars => (input.press /\ ~input'.press => graph.press)
<1> SUFFICES ASSUME PollInv, [Next]_vars, input.press, ~input'.press PROVE graph.press
  OBVIOUS
<1>1. ~Unpolled /\ ~CopyInputsLocked
  BY DEF Unpolled, CopyInputsLocked, CopyInputs
<1>2. ASSUME UpdateInputs PROVE FALSE
  <2>1. input' = [cur |-> Polled, press |-> input.press \/ (Polled /\ ~input.cur)]
    BY <1>2 DEF UpdateInputs
  <2>2. input'.press = (input.press \/ (Polled /\ ~input.cur))
    BY <2>1
  <2> QED BY <2>2, Zenon
<1>3. CASE ClearPresses
  BY <1>3 DEF ClearPresses, PollInv
<1> QED BY <1>1, <1>2, <1>3, PollSteps

\* A poll and PadMgr_UpdateInputs may come in any order: a press leaves the inputs only
\* with a poll that has seen it.
THEOREM NoPressIsLost == Spec => PressesAreSeen
<1>1. Init => PollInv
  BY DEF Init, PollInv
<1>2. PollInv /\ [Next]_vars => [input.press /\ ~input'.press => graph.press]_vars
  BY PollSees
<1> QED BY <1>1, <1>2, PollNext, PTL DEF Spec, PressesAreSeen

-----------------------------------------------------------------------------
(* The motor.                                                              *)

\* The transmissions that have failed so far.
Failed == setting.fails - left.fails

\* The retraces of the pause that are over, or whose attempt to stop the motor is.
Pauses == PauseTime - rumble.off

Rumbles == [enable : BOOLEAN, timer : Int, on : Int, off : Nat]
CountsOK ==
  /\ rumble \in Rumbles
  /\ setting \in Settings
  /\ left \in [fails : 0..setting.fails, pulls : Nat]
  /\ motor \in BOOLEAN
  /\ isResetting \in BOOLEAN
  /\ padAt \in PadAts

\* Once the reset has begun the motor is not driven, nothing but the query finds out that
\* the controller is gone, and the motor goes on through a retrace of the pause only if a
\* transmission failed in it: that of the stop, or that of the query, without which the
\* stop is not tried.
Behind ==
  /\ Pauses <= Failed + 1
  /\ padAt \notin {"stop", "stopping"} => Pauses <= Failed
  /\ padAt = "stopping" => ctrlrType = "normal"
  /\ ctrlrType # "normal" => /\ padAt \in {"inputs", "rumble"} => Pauses + 1 <= Failed
                             /\ padAt = "stop" => Pauses <= Failed

MotorInv ==
  /\ motor => plugged = "pak"
  /\ isResetting => padAt \notin {"drive", "start", "halt", "init"}
  /\ isResetting /\ padAt \in {"query", "inputs"} => pads = Unread
  /\ isResetting /\ motor => Behind

\* At the start no motor runs and nothing has failed.
LEMMA CountsInit == Init => CountsOK /\ MotorInv
<1> SUFFICES ASSUME Init PROVE CountsOK /\ MotorInv
  OBVIOUS
<1>1. setting \in Settings /\ setting \in [late : BOOLEAN, fails : Nat, pulls : Nat]
  BY PadAssumption DEF Init
<1>2. left \in [fails : 0..setting.fails, pulls : Nat]
  BY <1>1 DEF Init
<1>3. /\ padAt = "recv" /\ ctrlrType = "none" /\ plugged = "pak" /\ motor = FALSE
      /\ rumble = [enable |-> FALSE, timer |-> 0, on |-> 0, off |-> 0]
      /\ isResetting = FALSE
  BY DEF Init
<1>4. [enable |-> FALSE, timer |-> 0, on |-> 0, off |-> 0] \in Rumbles
  BY DEF Rumbles
<1>5. CountsOK
  BY <1>1, <1>2, <1>3, <1>4 DEF CountsOK, PadAts
<1> QED BY <1>3, <1>5 DEF MotorInv

\* What the counts are after a step.
LEMMA FailsOK ==
  ASSUME CountsOK, setting' = setting, NEW f \in BOOLEAN, Fails(f)
  PROVE  /\ left' \in [fails : 0..setting.fails, pulls : Nat]
         /\ Failed' = Failed + (IF f THEN 1 ELSE 0)
<1>1. setting \in [late : BOOLEAN, fails : Nat, pulls : Nat]
  BY PadAssumption DEF CountsOK, Rumbles
<1>2. left' = [fails |-> left.fails - (IF f THEN 1 ELSE 0), pulls |-> left.pulls]
  BY DEF Fails, CountsOK, Rumbles
<1> QED BY <1>1, <1>2 DEF Fails, CountsOK, Rumbles, Failed

\* A step after which the motor runs and the console is being reset only if so before.
LEMMA MotorKept ==
  ASSUME MotorInv, isResetting' = isResetting, motor' => motor /\ plugged' = plugged,
         isResetting => padAt' \notin {"drive", "start", "halt", "init"},
         isResetting /\ padAt' \in {"query", "inputs"} => pads' = Unread,
         isResetting /\ motor /\ motor' /\ Behind => Behind'
  PROVE  MotorInv'
BY Zenon DEF MotorInv

\* The types of what the race is counted in.
LEMMA CountTypes ==
  ASSUME CountsOK
  PROVE  Failed \in Nat /\ Failed <= setting.fails /\ Pauses \in Int /\ PauseTime \in Nat
         /\ setting.fails \in Nat
BY PadAssumption DEF CountsOK, Rumbles, Failed, Pauses

\* A step that has nothing to do with the motor.
LEMMA MotorSame ==
  ASSUME CountsOK, MotorInv,
         UNCHANGED <<padAt, pads, ctrlrType, rumble, isResetting, plugged, motor, left, setting>>
  PROVE  CountsOK' /\ MotorInv'
BY DEF CountsOK, Rumbles, MotorInv, Behind, Pauses, Failed

\* The padmgr thread takes a message.
LEMMA MotorReceive ==
  ASSUME CountsOK, MotorInv, Receive, UNCHANGED <<plugged, motor, left, setting>>
  PROVE  CountsOK' /\ MotorInv'
<1>1. /\ padAt = "recv" /\ padAt' \in {"recv", "act"}
      /\ UNCHANGED <<pads, ctrlrType, rumble, isResetting>>
  BY DEF Receive
<1>2. Behind => Behind'
  BY <1>1 DEF Behind, Pauses, Failed
<1>3. CountsOK'
  BY <1>1 DEF CountsOK, Rumbles, PadAts
<1> QED BY <1>1, <1>2, <1>3, MotorKept

\* It acts on one; a PreNMI begins the pause.
LEMMA MotorAct ==
  ASSUME CountsOK, MotorInv, Act, UNCHANGED <<plugged, motor, left, setting>>
  PROVE  CountsOK' /\ MotorInv'
<1>1. padAt = "act" /\ padAt' \in {"recv", "act", "retrace"} /\ UNCHANGED <<pads, ctrlrType>>
  BY DEF Act
<1>2. \/ UNCHANGED <<rumble, isResetting>>
      \/ rumble' = [rumble EXCEPT !.off = PauseTime] /\ isResetting' = TRUE
  BY DEF Act, ResetRumble, CountsOK, Rumbles
<1>3. CASE UNCHANGED <<rumble, isResetting>>
  <2>1. Behind => Behind'
    BY <1>1, <1>3 DEF Behind, Pauses, Failed
  <2>2. CountsOK'
    BY <1>1, <1>3 DEF CountsOK, Rumbles, PadAts
  <2> QED BY <1>1, <1>3, <2>1, <2>2, MotorKept
<1>4. CASE rumble' = [rumble EXCEPT !.off = PauseTime] /\ isResetting' = TRUE
  <2>1. rumble' \in Rumbles /\ rumble'.off = PauseTime
    BY <1>4, CountTypes DEF CountsOK, Rumbles
  <2>2. CountsOK'
    BY <1>1, <1>4, <2>1 DEF CountsOK, Rumbles, PadAts
  <2>3. Pauses' = 0 /\ Failed' = Failed /\ Failed \in Nat
    BY <2>1, CountTypes DEF Pauses, Failed
  <2>4. Behind'
    BY <1>1, <2>3 DEF Behind
  <2>5. motor' => plugged' = "pak"
    BY Zenon DEF MotorInv
  <2>6. padAt' \notin {"drive", "start", "halt", "init"} /\ padAt' \notin {"query", "inputs"}
    BY <1>1
  <2> QED BY <2>2, <2>4, <2>5, <2>6, Zenon DEF MotorInv
<1> QED BY <1>2, <1>3, <1>4

\* What the callback of the rumble manager does to the counters: a wish to rumble or not,
\* and a pause.
LEMMA RumbleSet ==
  ASSUME NEW r \in Rumbles, NEW wish \in BOOLEAN, NEW on \in Int
  PROVE  /\ [r EXCEPT !.enable = wish, !.on = on] \in Rumbles
         /\ [r EXCEPT !.enable = wish, !.on = on].off = r.off
BY DEF Rumbles

\* A retrace of the pause takes one from those that are left.
LEMMA RumblePause ==
  ASSUME NEW r \in Rumbles, NEW on \in Int, NEW off \in Nat
  PROVE  /\ [r EXCEPT !.enable = FALSE, !.on = on, !.off = off] \in Rumbles
         /\ [r EXCEPT !.enable = FALSE, !.on = on, !.off = off].off = off
<1> DEFINE q == [r EXCEPT !.enable = FALSE]
<1>1. q \in Rumbles
  BY DEF Rumbles
<1>2. [r EXCEPT !.enable = FALSE, !.on = on, !.off = off] = [q EXCEPT !.on = on, !.off = off]
  OBVIOUS
<1> HIDE DEF q
<1>3. [q EXCEPT !.on = on, !.off = off] \in Rumbles
  BY <1>1 DEF Rumbles
<1>4. [q EXCEPT !.on = on, !.off = off].off = off
  BY <1>1 DEF Rumbles
<1> QED BY <1>2, <1>3, <1>4

\* The parts of PadMgr_HandleRetrace.
LEMMA MotorStartRead ==
  ASSUME CountsOK, MotorInv, StartRead, UNCHANGED <<plugged, setting>> PROVE CountsOK' /\ MotorInv'
<1>1. /\ padAt' = "read" /\ UNCHANGED <<pads, ctrlrType, isResetting, motor, left>>
      /\ padAt = "retrace" /\ rumble' \in RumbleUpdate(rumble)
  BY DEF StartRead
<1>2. /\ rumble' \in Rumbles
      /\ rumble'.off \in {rumble.off, PauseTime}
  <2>1. rumble \in Rumbles /\ RumbleTime \in Int /\ PauseTime \in Nat
    BY PadAssumption DEF CountsOK
  <2>2. CASE rumble' = rumble
    BY <2>1, <2>2
  <2>3. ASSUME NEW wish \in BOOLEAN, rumble' = [rumble EXCEPT !.enable = wish, !.on = RumbleTime]
        PROVE  rumble' \in Rumbles /\ rumble'.off = rumble.off
    BY <2>1, <2>3, RumbleSet
  <2>4. CASE rumble' = [rumble EXCEPT !.enable = FALSE, !.on = RumbleTime, !.off = PauseTime]
    <3> DEFINE q == [rumble EXCEPT !.enable = FALSE, !.on = RumbleTime, !.off = PauseTime]
    <3>1. q \in Rumbles /\ q.off = PauseTime
      BY <2>1, RumblePause, Zenon
    <3> HIDE DEF q
    <3> QED BY <2>4, <3>1 DEF q
  <2> QED BY <1>1, <2>2, <2>3, <2>4 DEF RumbleUpdate
<1>3. CountsOK'
  BY <1>1, <1>2 DEF CountsOK, Rumbles, PadAts
<1>4. Failed' = Failed /\ Pauses' \in {Pauses, 0}
  BY <1>1, <1>2, CountTypes DEF Failed, Pauses
<1>5. Behind => Behind'
  BY <1>1, <1>4, CountTypes DEF Behind
<1> QED BY <1>1, <1>3, <1>5, MotorKept

\* The answer to the read of the inputs.
LEMMA MotorFinishRead ==
  ASSUME CountsOK, MotorInv, FinishRead, UNCHANGED <<plugged, setting>> PROVE CountsOK' /\ MotorInv'
<1>1. /\ padAt = "read" /\ padAt' = "query" /\ UNCHANGED <<ctrlrType, rumble, isResetting, motor>>
      /\ isResetting => pads' = Unread
  BY DEF FinishRead, GotInputs
<1>2. PICK f \in BOOLEAN : Fails(f)
  BY DEF FinishRead, GotInputs, ReadResult
<1>3. left' \in [fails : 0..setting.fails, pulls : Nat] /\ Failed' = Failed + (IF f THEN 1 ELSE 0)
  BY <1>2, FailsOK
<1>4. CountsOK'
  BY <1>1, <1>3 DEF CountsOK, Rumbles, PadAts
<1>5. Pauses' = Pauses
  BY <1>1 DEF Pauses
<1>6. Failed' \in {Failed, Failed + 1}
  BY <1>3, CountTypes
<1>7. Behind => Behind'
  BY <1>1, <1>5, <1>6, CountTypes DEF Behind
<1> QED BY <1>1, <1>4, <1>7, MotorKept

\* The answer to the query of the controllers.
LEMMA MotorFinishQuery ==
  ASSUME CountsOK, MotorInv, FinishQuery, UNCHANGED <<plugged, setting>> PROVE CountsOK' /\ MotorInv'
<1>1. /\ padAt = "query" /\ padAt' = "inputs" /\ UNCHANGED <<pads, isResetting, motor>>
      /\ rumble' = rumble \/ rumble' = [rumble EXCEPT !.timer = 255]
  BY DEF FinishQuery, Disconnected
<1>2. PICK answers \in BOOLEAN : /\ Fails(~answers /\ plugged # "no")
                                 /\ answers => ctrlrType' = "normal"
  BY DEF FinishQuery
<1>3. PICK f \in BOOLEAN : Fails(f) /\ (plugged = "pak" /\ ~f => ctrlrType' = "normal")
  BY <1>2
<1>4. left' \in [fails : 0..setting.fails, pulls : Nat] /\ Failed' = Failed + (IF f THEN 1 ELSE 0)
  BY <1>3, FailsOK
<1>5. rumble'.off = rumble.off /\ rumble' \in Rumbles
  BY <1>1 DEF CountsOK, Rumbles
<1>6. CountsOK'
  BY <1>1, <1>4, <1>5 DEF CountsOK, Rumbles, PadAts
<1>7. Pauses' = Pauses
  BY <1>5 DEF Pauses
<1>8. CASE f
  <2>1. Failed' = Failed + 1
    BY <1>4, <1>8
  <2>2. Behind => Behind'
    BY <1>1, <1>7, <2>1, CountTypes DEF Behind
  <2> QED BY <1>1, <1>6, <2>2, MotorKept DEF MotorInv
<1>9. CASE ~f
  <2>1. Failed' = Failed
    BY <1>4, <1>9, CountTypes
  <2>2. plugged = "pak" /\ Behind => Behind'
    BY <1>1, <1>3, <1>7, <1>9, <2>1 DEF Behind
  <2>3. motor => plugged = "pak"
    BY DEF MotorInv
  <2>4. isResetting /\ padAt' \in {"query", "inputs"} => pads' = Unread
    BY <1>1 DEF MotorInv
  <2> QED BY <1>1, <1>6, <2>2, <2>3, <2>4, MotorKept
<1> QED BY <1>8, <1>9

\* The inputs are merged.
LEMMA MotorUpdateInputs ==
  ASSUME CountsOK, MotorInv, UpdateInputs, UNCHANGED <<plugged, setting>> PROVE CountsOK' /\ MotorInv'
<1>1. /\ padAt = "inputs" /\ padAt' = "rumble" /\ UNCHANGED <<isResetting, motor, left>>
      /\ rumble' = rumble \/ rumble' = [rumble EXCEPT !.timer = 255]
      /\ pads.errno # "noresp" => UNCHANGED <<ctrlrType, rumble>>
  BY DEF UpdateInputs, Disconnected
<1>2. rumble'.off = rumble.off /\ rumble' \in Rumbles
  BY <1>1 DEF CountsOK, Rumbles
<1>3. CountsOK' /\ Failed' = Failed /\ Pauses' = Pauses
  BY <1>1, <1>2 DEF CountsOK, Rumbles, PadAts, Failed, Pauses
<1>4. ctrlrType' = ctrlrType /\ Behind => Behind'
  BY <1>1, <1>3 DEF Behind
<1>5. isResetting => ctrlrType' = ctrlrType
  <2>1. isResetting => pads = Unread
    BY <1>1 DEF MotorInv
  <2>2. pads = Unread => ctrlrType' = ctrlrType
    BY <1>1 DEF Unread
  <2> QED BY <2>1, <2>2
<1> QED BY <1>1, <1>3, <1>4, <1>5, MotorKept

\* The retrace handler turns to the motor.
LEMMA MotorRumble ==
  ASSUME CountsOK, MotorInv, Rumble, UNCHANGED <<plugged, setting>> PROVE CountsOK' /\ MotorInv'
<1>1. /\ padAt = "rumble" /\ padAt' = AfterInputs
      /\ UNCHANGED <<pads, ctrlrType, isResetting, motor, left>>
      /\ rumble' = IF rumble.off > 0 THEN [rumble EXCEPT !.off = @ - 1] ELSE rumble
  BY DEF Rumble
<1>2. rumble'.off = (IF rumble.off > 0 THEN rumble.off - 1 ELSE 0) /\ rumble.off \in Nat
      /\ rumble' \in Rumbles
  BY <1>1 DEF CountsOK, Rumbles
<1>3. /\ padAt' \in {"stop", "act", "drive"}
      /\ isResetting => padAt' # "drive"
      /\ rumble.off > 0 => padAt' = "stop"
  BY <1>1 DEF AfterInputs
<1>4. CountsOK'
  BY <1>1, <1>2, <1>3 DEF CountsOK, Rumbles, PadAts
<1>5. Failed' = Failed /\ Pauses' = Pauses + IF rumble.off > 0 THEN 1 ELSE 0
  BY <1>1, <1>2, CountTypes DEF Failed, Pauses
<1>6. Behind => Behind'
  BY <1>1, <1>2, <1>3, <1>5, CountTypes DEF Behind
<1>7. isResetting => padAt' \notin {"drive", "start", "halt", "init"}
  BY <1>3
<1>8. padAt' \notin {"query", "inputs"}
  BY <1>3
<1> QED BY <1>1, <1>4, <1>6, <1>7, <1>8, MotorKept

\* A stop is begun.
LEMMA MotorRumbleStop ==
  ASSUME CountsOK, MotorInv, RumbleStop, UNCHANGED <<plugged, setting>> PROVE CountsOK' /\ MotorInv'
<1>1. /\ padAt = "stop" /\ padAt' = IF ctrlrType = "normal" THEN "stopping" ELSE "act"
      /\ UNCHANGED <<pads, ctrlrType, rumble, isResetting, motor, left>>
  BY DEF RumbleStop
<1>2. CountsOK' /\ Failed' = Failed /\ Pauses' = Pauses
  BY <1>1 DEF CountsOK, Rumbles, PadAts, Failed, Pauses
<1>3. Behind => Behind'
  BY <1>1, <1>2 DEF Behind
<1>4. padAt' \notin {"drive", "start", "halt", "init", "query", "inputs"}
  BY <1>1
<1> QED BY <1>1, <1>2, <1>3, <1>4, MotorKept

\* The answer to a stop.
LEMMA MotorFinishStop ==
  ASSUME CountsOK, MotorInv, FinishStop, UNCHANGED <<plugged, setting>> PROVE CountsOK' /\ MotorInv'
<1>1. /\ padAt = "stopping" /\ padAt' = "act" /\ UNCHANGED <<pads, ctrlrType, rumble, isResetting>>
  BY DEF FinishStop, Stopped
<1>2. PICK f \in BOOLEAN : Fails(f) /\ motor' = (motor /\ f)
  BY DEF FinishStop, Stopped
<1>3. left' \in [fails : 0..setting.fails, pulls : Nat] /\ Failed' = Failed + (IF f THEN 1 ELSE 0)
  BY <1>2, FailsOK
<1>4. motor' \in BOOLEAN /\ (motor' => motor /\ f)
  BY <1>2, Zenon
<1>5. CountsOK' /\ Pauses' = Pauses
  BY <1>1, <1>3, <1>4 DEF CountsOK, Rumbles, PadAts, Pauses
<1>6. CASE f
  <2>1. Behind => Behind'
    BY <1>1, <1>3, <1>5, <1>6, CountTypes DEF Behind
  <2> QED BY <1>1, <1>4, <1>5, <2>1, MotorKept
<1>7. CASE ~f
  BY <1>1, <1>4, <1>5, <1>7, MotorKept
<1> QED BY <1>6, <1>7

\* A motor is driven, or a pak looked for.
LEMMA MotorUpdateRumble ==
  ASSUME CountsOK, MotorInv, UpdateRumble, UNCHANGED <<plugged, setting>> PROVE CountsOK' /\ MotorInv'
<1>1. /\ padAt = "drive" /\ padAt' \in {"start", "halt", "init", "act"}
      /\ UNCHANGED <<isResetting, motor, left>>
      /\ rumble' = rumble \/ rumble' = [rumble EXCEPT !.on = @ - 1]
  BY DEF UpdateRumble, Drives
<1>2. ~isResetting
  BY <1>1 DEF MotorInv
<1>3. CountsOK'
  BY <1>1 DEF CountsOK, Rumbles, PadAts
<1> QED BY <1>1, <1>2, <1>3, MotorKept

\* The answer to that.
LEMMA MotorFinishDrive ==
  ASSUME CountsOK, MotorInv, FinishDrive, UNCHANGED <<plugged, setting>> PROVE CountsOK' /\ MotorInv'
<1>1. padAt \in {"start", "halt", "init"} /\ padAt' = "act" /\ UNCHANGED isResetting
  BY DEF FinishDrive
<1>2. ~isResetting
  BY <1>1 DEF MotorInv
<1>3. PICK f \in BOOLEAN, n \in Int :
        /\ \E g \in BOOLEAN : Fails(g)
        /\ motor' \in CASE padAt = "start" -> {plugged = "pak", motor /\ f}
                       [] padAt = "halt" -> {motor /\ f}
                       [] OTHER -> {motor}
        /\ rumble' = [rumble EXCEPT !.on = @ - 1, !.timer = n]
  <2>1. PICK f \in BOOLEAN :
          /\ Fails(f /\ plugged = "pak")
          /\ motor' \in CASE padAt = "start" -> {plugged = "pak", motor /\ f}
                         [] padAt = "halt" -> {motor /\ f}
                         [] OTHER -> {motor}
          /\ rumble' = [rumble EXCEPT !.on = @ - 1,
                           !.timer = IF f THEN @
                                     ELSE CASE padAt = "start" -> 3
                                            [] padAt = "halt" -> @ - 1
                                            [] OTHER -> 2]
    BY DEF FinishDrive
  <2>2. (IF f THEN rumble.timer ELSE CASE padAt = "start" -> 3
                                       [] padAt = "halt" -> rumble.timer - 1
                                       [] OTHER -> 2) \in Int
    BY DEF CountsOK, Rumbles
  <2>3. (f /\ plugged = "pak") \in BOOLEAN
    OBVIOUS
  <2> QED BY <2>1, <2>2, <2>3
<1>4. left' \in [fails : 0..setting.fails, pulls : Nat]
  BY <1>3, FailsOK
<1>5. rumble' = [enable |-> rumble.enable, timer |-> n, on |-> rumble.on - 1, off |-> rumble.off]
      /\ rumble.enable \in BOOLEAN /\ rumble.on \in Int /\ rumble.off \in Nat
  BY <1>3 DEF CountsOK, Rumbles
<1>6. motor' \in BOOLEAN /\ (motor' => plugged = "pak")
  <2>1. motor' \in {plugged = "pak", motor /\ f, motor}
    BY <1>1, <1>3
  <2>2. motor \in BOOLEAN /\ (motor => plugged = "pak")
    BY DEF CountsOK, Rumbles, MotorInv
  <2> QED BY <2>1, <2>2, Zenon
<1>7. CountsOK'
  BY <1>1, <1>4, <1>5, <1>6 DEF CountsOK, Rumbles, PadAts
<1> QED BY <1>1, <1>2, <1>6, <1>7, Zenon DEF MotorInv

\* Every step keeps the race.
LEMMA MotorNext == CountsOK /\ MotorInv /\ [Next]_vars => CountsOK' /\ MotorInv'
<1> SUFFICES ASSUME CountsOK, MotorInv, [Next]_vars PROVE CountsOK' /\ MotorInv'
  OBVIOUS
<1>1. CASE UNCHANGED vars
  BY <1>1, MotorSame DEF vars, padVars
<1>2. ASSUME Next PROVE setting' = setting
  BY <1>2 DEF Next
<1>3. CASE (Irqs \/ ClientThreads \/ SiDone \/ DestroyGraph) /\ UNCHANGED setting
  BY <1>3, MotorSame DEF Irqs, ClientThreads, SiDone, DestroyGraph, padVars
<1>4. CASE GraphFrame /\ UNCHANGED setting
  BY <1>4, MotorSame DEF GraphFrame
<1>5. CASE PlugOrPull /\ UNCHANGED setting
  <2>1. /\ UNCHANGED <<padVars, setting>> /\ motor' = FALSE
        /\ left.pulls > 0 /\ left' = [left EXCEPT !.pulls = @ - 1]
    BY <1>5 DEF PlugOrPull
  <2>2. setting.fails \in Nat /\ left.fails \in 0..setting.fails /\ left.pulls \in Nat
        /\ left' = [fails |-> left.fails, pulls |-> left.pulls - 1]
    BY <2>1, CountTypes DEF CountsOK, Rumbles
  <2>3. left' \in [fails : 0..setting.fails, pulls : Nat]
    <3>1. left.pulls - 1 \in Nat
      BY <2>1, <2>2
    <3> QED BY <2>2, <3>1
  <2>4. CountsOK'
    BY <1>5, <2>1, <2>3 DEF CountsOK, Rumbles, padVars
  <2> QED BY <2>1, <2>4 DEF MotorInv, padVars
<1>6. CASE PadThread /\ UNCHANGED setting
  <2>1. CASE HandlePadRetrace
    <3>1. UNCHANGED <<plugged, setting>>
      BY <1>6, <2>1 DEF HandlePadRetrace
    <3> QED BY <2>1, <3>1, MotorStartRead, MotorFinishRead, MotorFinishQuery, MotorUpdateInputs,
                 MotorRumble, MotorRumbleStop, MotorFinishStop, MotorUpdateRumble, MotorFinishDrive
            DEF HandlePadRetrace
  <2> QED BY <1>6, <2>1, MotorReceive, MotorAct DEF PadThread
<1> QED BY <1>1, <1>2, <1>3, <1>4, <1>5, <1>6 DEF Next

\* After the pause that begins with the PreNMI the motor stands still, if fewer
\* transmissions fail than the pause has retraces (padmgr.c:420): of the query that finds
\* the controller, of the stop, in any mixture, with paks pulled and put in again.
THEOREM PauseStopsMotor ==
  ASSUME \A s \in Settings : s.fails < PauseTime
  PROVE  Spec => []MotorStops
<1>1. CountsOK /\ MotorInv => MotorStops
  <2> SUFFICES ASSUME CountsOK, MotorInv, isResetting, rumble.off = 0, motor,
                      padAt \notin {"stop", "stopping"}
               PROVE  FALSE
    BY DEF MotorStops
  <2>1. Behind
    BY DEF MotorInv
  <2>2. Pauses = PauseTime /\ Pauses <= Failed
    BY <2>1, CountTypes DEF Behind, Pauses
  <2>3. setting.fails < PauseTime
    BY DEF CountsOK, Rumbles
  <2> QED BY <2>2, <2>3, CountTypes
<1> QED BY CountsInit, MotorNext, <1>1, PTL DEF Spec

-----------------------------------------------------------------------------
(* The clients of the interrupt manager.                                   *)

\* The i-th client of a list, or its end.
Nth(s, i) == IF i <= Len(s) THEN s[i] ELSE Null

\* The links make up the list s, which begins with first.
Linked(s, first, link) ==
  /\ s \in Seq(Clients) /\ Once(s) /\ first = Nth(s, 1)
  /\ \A i \in 1 .. Len(s) : link[s[i]] = Nth(s, i + 1)

\* met is the function that From is defined by, up to n.
Met(c, link, n, met) ==
  met = [k \in 0 .. n |->
           IF k = 0 THEN {c} ELSE met[k - 1] \cup {link[d] : d \in met[k - 1] \ {Null}}]

\* It exists for every length.
LEMMA MetExists ==
  ASSUME NEW c, NEW link, NEW n \in Nat
  PROVE  \E met : Met(c, link, n, met)
<1> DEFINE step(S) == S \cup {link[d] : d \in S \ {Null}}
           P == {m \in Nat : \E f : Met(c, link, m, f)}
<1>0. \A m, f : Met(c, link, m, f) <=> f = [k \in 0 .. m |-> IF k = 0 THEN {c} ELSE step(f[k - 1])]
  BY DEF Met
<1>1. 0 \in P
  <2> DEFINE f == [k \in 0 .. 0 |-> {c}]
  <2>1. f = [k \in 0 .. 0 |-> IF k = 0 THEN {c} ELSE step(f[k - 1])]
    OBVIOUS
  <2>2. Met(c, link, 0, f)
    BY <2>1, <1>0
  <2>3. QED BY <2>2
<1>2. ASSUME NEW m \in Nat, m \in P PROVE m + 1 \in P
  <2>1. PICK f : Met(c, link, m, f)
    BY <1>2
  <2>2. \A k \in 0 .. m : f[k] = IF k = 0 THEN {c} ELSE step(f[k - 1])
    BY <2>1 DEF Met
  <2> HIDE DEF step
  <2> DEFINE g == [k \in 0 .. m + 1 |-> IF k <= m THEN f[k] ELSE step(f[m])]
  <2>3. ASSUME NEW k \in 0 .. m + 1 PROVE g[k] = IF k = 0 THEN {c} ELSE step(g[k - 1])
    <3>1. CASE k = m + 1
      BY <3>1
    <3>2. CASE k = 0
      BY <3>2, <2>2
    <3>3. CASE k \in 1 .. m
      <4>1. k \in 0 .. m /\ k - 1 \in 0 .. m /\ k # 0 /\ k <= m /\ k - 1 <= m
        BY <3>3
      <4>2. f[k] = step(f[k - 1])
        BY <4>1, <2>2
      <4>3. g[k] = f[k] /\ g[k - 1] = f[k - 1]
        BY <4>1
      <4>4. QED BY <4>1, <4>2, <4>3
    <3>4. QED BY <3>1, <3>2, <3>3
  <2>4. g = [k \in 0 .. m + 1 |-> IF k = 0 THEN {c} ELSE step(g[k - 1])]
    BY <2>3
  <2>5. Met(c, link, m + 1, g)
    BY <2>4, <1>0
  <2>6. QED BY <2>5
<1> HIDE DEF P
<1>3. Nat \subseteq P
  BY <1>1, <1>2, NatInduct
<1>4. QED BY <1>3 DEF P

\* A list has no more members than there are clients.
LEMMA ListFits ==
  ASSUME NEW s \in Seq(Clients), Once(s)
  PROVE  Cardinality(Clients) \in Nat /\ Len(s) <= Cardinality(Clients)
<1>1. IsFiniteSet(Clients) /\ Cardinality(Clients) \in Nat /\ Len(s) \in Nat
  BY IrqAssumption, FS_CardinalityType
<1>2. s \in Injection(1 .. Len(s), Clients)
  BY DEF Once, Injection, IsInjective
<1>3. Cardinality(1 .. Len(s)) <= Cardinality(Clients)
  BY <1>1, <1>2, FS_Injection
<1>4. Cardinality(1 .. Len(s)) = Len(s)
  <2>1. 1 \in Int /\ Len(s) \in Int
    BY <1>1
  <2>2. Cardinality(1 .. Len(s)) = IF 1 > Len(s) THEN 0 ELSE Len(s) - 1 + 1
    BY ONLY <2>1, FS_Interval
  <2>3. QED BY <1>1, <2>2
<1>5. QED BY <1>1, <1>3, <1>4

\* Following the links from the head meets exactly the members of the list.
LEMMA FromIs ==
  ASSUME NEW s, Linked(s, clients, next)
  PROVE  From(clients) = {c \in Clients : In(c, s)}
<1> DEFINE N == Cardinality(Clients)
           met == CHOOSE f : Met(clients, next, N, f)
           P == {n \in Nat : n <= N => met[n] = {Nth(s, i) : i \in 1 .. n + 1}}
<1>1. /\ s \in Seq(Clients) /\ Len(s) \in Nat /\ clients = Nth(s, 1)
      /\ \A i \in 1 .. Len(s) : next[s[i]] = Nth(s, i + 1)
      /\ \A i \in 1 .. Len(s) : s[i] \in Clients /\ s[i] # Null
  BY IrqAssumption DEF Linked
<1>2. N \in Nat /\ Len(s) <= N
  BY ListFits DEF Linked
<1>3. From(clients) = met[N] \ {Null}
  BY DEF From, Met
<1> HIDE DEF N
<1>4. Met(clients, next, N, met)
  BY <1>2, MetExists
<1> HIDE DEF met
<1>5. met[0] = {clients}
  BY <1>2, <1>4 DEF Met
<1>6. \A k \in 1 .. N : met[k] = met[k - 1] \cup {next[d] : d \in met[k - 1] \ {Null}}
  BY <1>2, <1>4 DEF Met
<1>7. 0 \in P
  <2>1. {Nth(s, i) : i \in 1 .. 0 + 1} = {Nth(s, 1)}
    OBVIOUS
  <2>2. QED BY <1>1, <1>5, <2>1
<1>8. ASSUME NEW n \in Nat, n \in P PROVE n + 1 \in P
  <2> SUFFICES ASSUME n + 1 <= N PROVE met[n + 1] = {Nth(s, i) : i \in 1 .. (n + 1) + 1}
    OBVIOUS
  <2> DEFINE A == {Nth(s, i) : i \in 1 .. n + 1}
             B == {Nth(s, i) : i \in 1 .. (n + 1) + 1}
  <2>1. met[n] = A
    BY <1>2, <1>8
  <2>2. met[n + 1] = A \cup {next[d] : d \in A \ {Null}}
    <3>1. n + 1 \in 1 .. N /\ (n + 1) - 1 = n
      BY <1>2
    <3>2. QED BY <3>1, <2>1, <1>6
  <2>3. ASSUME NEW x \in A \cup {next[d] : d \in A \ {Null}} PROVE x \in B
    <3>1. CASE x \in A
      <4>1. PICK i \in 1 .. n + 1 : x = Nth(s, i)
        BY <3>1
      <4>2. i \in 1 .. (n + 1) + 1
        OBVIOUS
      <4>3. QED BY <4>1, <4>2
    <3>2. CASE x \in {next[d] : d \in A \ {Null}}
      <4>1. PICK i \in 1 .. n + 1 : x = next[Nth(s, i)] /\ Nth(s, i) # Null
        BY <3>2
      <4>2. i \in 1 .. Len(s) /\ Nth(s, i) = s[i]
        BY <4>1, <1>1 DEF Nth
      <4>3. x = Nth(s, i + 1) /\ i + 1 \in 1 .. (n + 1) + 1
        BY <4>1, <4>2, <1>1
      <4>4. QED BY <4>3
    <3>3. QED BY <3>1, <3>2
  <2>4. ASSUME NEW x \in B PROVE x \in A \cup {next[d] : d \in A \ {Null}}
    <3>1. PICK i \in 1 .. (n + 1) + 1 : x = Nth(s, i)
      OBVIOUS
    <3>2. CASE i \in 1 .. n + 1
      BY <3>1, <3>2
    <3>3. CASE i = (n + 1) + 1
      <4>1. PICK j \in 1 .. n + 1 : i = j + 1
        BY <3>3
      <4>2. CASE j \in 1 .. Len(s)
        <5>1. Nth(s, j) \in A /\ Nth(s, j) # Null /\ next[Nth(s, j)] = x
          BY <4>1, <4>2, <3>1, <1>1 DEF Nth
        <5>2. QED BY <5>1
      <4>3. CASE j \notin 1 .. Len(s)
        <5>1. Nth(s, j) = Null /\ x = Null
          BY <4>1, <4>3, <3>1, <1>1 DEF Nth
        <5>2. QED BY <5>1
      <4>4. QED BY <4>2, <4>3
    <3>4. QED BY <3>2, <3>3
  <2>5. QED BY <2>2, <2>3, <2>4
<1>9. met[N] = {Nth(s, i) : i \in 1 .. N + 1}
  <2> HIDE DEF P
  <2>1. Nat \subseteq P
    BY <1>7, <1>8, NatInduct
  <2>2. QED BY <1>2, <2>1 DEF P
<1>10. ASSUME NEW c \in met[N] \ {Null} PROVE c \in Clients /\ In(c, s)
  <2>1. PICK i \in 1 .. N + 1 : c = Nth(s, i)
    BY <1>9
  <2>2. i \in 1 .. Len(s) /\ c = s[i]
    BY <2>1, <1>1, <1>2 DEF Nth
  <2>3. QED BY <2>2, <1>1 DEF In
<1>11. ASSUME NEW c \in Clients, In(c, s) PROVE c \in met[N] \ {Null}
  <2>1. PICK i \in 1 .. Len(s) : c = s[i]
    BY <1>11 DEF In
  <2>2. i \in 1 .. N + 1 /\ c = Nth(s, i) /\ c # Null
    BY <2>1, <1>1, <1>2 DEF Nth
  <2>3. QED BY <2>2, <1>9
<1>12. QED BY <1>3, <1>10, <1>11

\* The links of a list that c, which is not in the list s, is put before.
Put(c, s, first, link, new) ==
  /\ Linked(s, first, link) /\ ~ In(c, s) /\ link \in [Clients -> Clients \cup {Null}]
  /\ new = [link EXCEPT ![c] = first]

\* A client that joins becomes the head of the list.
LEMMA InsertLinked ==
  ASSUME NEW s, NEW c \in Clients, NEW first, NEW link, NEW new, Put(c, s, first, link, new)
  PROVE  \E r : Linked(r, c, new) /\ \A d \in Clients : In(d, r) <=> d = c \/ In(d, s)
<1> DEFINE r == <<c>> \o s
<1>0. /\ Linked(s, first, link) /\ ~ In(c, s) /\ link \in [Clients -> Clients \cup {Null}]
      /\ new = [link EXCEPT ![c] = first]
  BY DEF Put
<1>1. /\ s \in Seq(Clients) /\ Len(s) \in Nat /\ Once(s) /\ first = Nth(s, 1)
      /\ \A i \in 1 .. Len(s) : link[s[i]] = Nth(s, i + 1) /\ s[i] \in Clients /\ s[i] # c
  BY <1>0 DEF Linked, In
<1>2. r \in Seq(Clients) /\ Len(r) = Len(s) + 1
  BY <1>1
<1>3. r[1] = c /\ \A i \in 1 .. Len(s) : r[i + 1] = s[i]
  BY <1>1
<1> HIDE DEF r
<1>4. \A i \in 1 .. Len(r) : i = 1 \/ (i - 1 \in 1 .. Len(s) /\ r[i] = s[i - 1])
  BY <1>1, <1>2, <1>3
<1>5. Once(r)
  <2> SUFFICES ASSUME NEW i \in 1 .. Len(r), NEW j \in 1 .. Len(r), r[i] = r[j] PROVE i = j
    BY DEF Once
  <2>0. \A k \in 1 .. Len(r) : k # 1 => r[k] # r[1]
    BY <1>1, <1>3, <1>4
  <2>1. CASE i = 1 \/ j = 1
    BY <2>0, <2>1
  <2>2. CASE i # 1 /\ j # 1
    <3>1. i - 1 \in 1 .. Len(s) /\ j - 1 \in 1 .. Len(s) /\ s[i - 1] = s[j - 1]
      BY <2>2, <1>4
    <3>2. i - 1 = j - 1
      BY <3>1, <1>1 DEF Once
    <3>3. QED BY <3>2
  <2>3. QED BY <2>1, <2>2
<1>6. c = Nth(r, 1)
  BY <1>1, <1>2, <1>3 DEF Nth
<1>7. ASSUME NEW i \in 1 .. Len(r) PROVE new[r[i]] = Nth(r, i + 1)
  <2>1. \A k \in 1 .. Len(s) + 1 : Nth(r, k + 1) = Nth(s, k)
    BY <1>1, <1>2, <1>3 DEF Nth
  <2>2. CASE i = 1
    <3>1. new[r[i]] = first
      BY <1>0, <2>2, <1>3
    <3>2. PICK k \in 1 .. Len(s) + 1 : k = i
      BY <2>2, <1>1
    <3>3. QED BY <3>1, <3>2, <2>1, <2>2, <1>1
  <2>3. CASE i # 1
    <3>1. PICK k \in 1 .. Len(s) : k = i - 1 /\ r[i] = s[k]
      BY <2>3, <1>4
    <3>2. new[r[i]] = link[s[k]]
      BY <1>0, <3>1, <1>1
    <3>3. i \in 1 .. Len(s) + 1 /\ k + 1 = i
      BY <3>1, <1>2
    <3>4. QED BY <3>1, <3>2, <3>3, <2>1, <1>1
  <2>4. QED BY <2>2, <2>3
<1>8. \A d : In(d, r) <=> d = c \/ In(d, s)
  <2>1. ASSUME NEW d, In(d, r) PROVE d = c \/ In(d, s)
    BY <2>1, <1>3, <1>4 DEF In
  <2>2. In(c, r)
    BY <1>1, <1>2, <1>3 DEF In
  <2>3. ASSUME NEW d, In(d, s) PROVE In(d, r)
    <3>1. PICK i \in 1 .. Len(s) : s[i] = d
      BY <2>3 DEF In
    <3>2. i + 1 \in 1 .. Len(r) /\ r[i + 1] = d
      BY <3>1, <1>1, <1>2, <1>3
    <3>3. QED BY <3>2 DEF In
  <2>4. QED BY <2>1, <2>2, <2>3
<1>9. QED BY <1>2, <1>5, <1>6, <1>7, <1>8 DEF Linked

\* Once all have joined they are in the list.
LEMMA RunningLinked ==
  ASSUME IrqRunning
  PROVE  Linked(Joined, clients, next) /\ \A c \in Clients : In(c, Joined)
<1>1. /\ Joined \in Seq(Clients) /\ Len(Joined) \in Nat /\ DOMAIN Joined = 1 .. Len(Joined)
      /\ IsInjective(Joined) /\ ToSet(Joined) = Clients
  BY IrqAssumption
<1>2. Once(Joined)
  BY <1>1 DEF Once, IsInjective
<1>3. \A c \in Clients : In(c, Joined)
  BY <1>1 DEF In, ToSet
<1>4. Len(Joined) >= 1
  <2>1. In(Pad, Joined)
    BY <1>3, PadAssumption DEF Pad
  <2>2. QED BY <2>1, <1>1 DEF In
<1>5. clients = Nth(Joined, 1)
  BY <1>1, <1>4 DEF IrqRunning, Nth
<1>6. ASSUME NEW i \in 1 .. Len(Joined) PROVE next[Joined[i]] = Nth(Joined, i + 1)
  <2>1. next[Joined[i]] = IF Joined[i] = Last(Joined) THEN Null
                          ELSE Joined[1 + CHOOSE n \in DOMAIN Joined : Joined[n] = Joined[i]]
    BY <1>1 DEF IrqRunning
  <2>2. (CHOOSE n \in DOMAIN Joined : Joined[n] = Joined[i]) = i
    BY <1>1, <1>2 DEF Once
  <2>3. Joined[i] = Last(Joined) <=> i = Len(Joined)
    <3>1. Last(Joined) = Joined[Len(Joined)] /\ Len(Joined) \in 1 .. Len(Joined)
      BY <1>1, <1>4 DEF Last
    <3>2. QED BY <3>1, <1>2 DEF Once
  <2>4. CASE i = Len(Joined)
    BY <2>1, <2>3, <2>4, <1>1 DEF Nth
  <2>5. CASE i # Len(Joined)
    <3>0. Len(Joined) \in Nat
      BY <1>1
    <3>1. i + 1 <= Len(Joined) /\ 1 + i = i + 1
      BY <3>0, <2>5
    <3>2. next[Joined[i]] = Joined[i + 1]
      BY <2>1, <2>2, <2>3, <2>5, <3>1
    <3>3. QED BY <3>1, <3>2 DEF Nth
  <2>6. QED BY <2>4, <2>5
<1>7. QED BY <1>1, <1>2, <1>3, <1>5, <1>6 DEF Linked

Msgs == Resets \cup {"retrace"}

\* The types of what the clients and the interrupt manager share.
ClientsTyped ==
  /\ clients \in Clients \cup {Null} /\ next \in [Clients -> Clients \cup {Null}]
  /\ queue \in [Clients -> Seq(Msgs)]
  /\ at \in [Clients -> Stages] /\ iter \in [Clients -> Clients \cup {Null}]
  /\ heard \in [Clients -> SUBSET Resets] /\ missed \subseteq Clients
  /\ resetStatus \in {IDLE, PRENMI, NMI}

\* Until the NMI nobody leaves: the list is whole, and all that have joined are in it.
WholeInv ==
  resetStatus # NMI =>
    /\ \A c \in Clients : at[c] \in {"start", "inserted", "told", "running"}
    /\ \A c \in Clients : "nmi" \notin ToSet(queue[c])
    /\ "nmi" \notin actionBits /\ ~exit
    /\ \E s : /\ Linked(s, clients, next)
              /\ \A c \in Clients : In(c, s) <=> at[c] # "start"

\* The resets that a client has heard of or is going to.
Told(c) == heard[c] \cup ToSet(queue[c])

\* A client is told when it has joined, before it runs.
ToldInv ==
  \A c \in Clients \ missed :
    /\ at[c] \in {"told", "running"} /\ resetStatus # IDLE => "prenmi" \in Told(c)
    /\ at[c] = "running" /\ resetStatus = NMI => "nmi" \in Told(c)

ClientsInv == ClientsTyped /\ WholeInv /\ ToldInv

\* The stages of a reset are told apart.
LEMMA Statuses == IDLE # PRENMI /\ PRENMI # NMI /\ IDLE # NMI
BY DEF IDLE, PRENMI, NMI

\* Appending to a queue and taking its head, as seen by Told.
LEMMA AppendTold ==
  ASSUME NEW q \in Seq(Msgs), NEW msg \in Msgs
  PROVE  Append(q, msg) \in Seq(Msgs) /\ ToSet(Append(q, msg)) = ToSet(q) \cup {msg}
<1>1. /\ Append(q, msg) \in Seq(Msgs) /\ Len(Append(q, msg)) = Len(q) + 1 /\ Len(q) \in Nat
      /\ \A i \in 1 .. Len(q) : Append(q, msg)[i] = q[i]
      /\ Append(q, msg)[Len(q) + 1] = msg
  BY AppendProperties
<1>2. DOMAIN Append(q, msg) = 1 .. Len(q) + 1 /\ DOMAIN q = 1 .. Len(q)
  BY <1>1
<1>3. \A i \in 1 .. Len(q) + 1 : i \in 1 .. Len(q) \/ i = Len(q) + 1
  BY <1>1
<1>4. QED BY <1>1, <1>2, <1>3 DEF ToSet

\* Taking the head of a queue.
LEMMA TailTold ==
  ASSUME NEW q \in Seq(Msgs), q # <<>>
  PROVE  /\ Tail(q) \in Seq(Msgs) /\ Head(q) \in Msgs
         /\ ToSet(q) = ToSet(Tail(q)) \cup {Head(q)}
<1>1. /\ Tail(q) \in Seq(Msgs) /\ Head(q) \in Msgs /\ Len(Tail(q)) = Len(q) - 1
      /\ \A i \in 1 .. Len(q) - 1 : Tail(q)[i] = q[i + 1]
      /\ Head(q) = q[1] /\ Len(q) \in Nat /\ Len(q) > 0
  BY HeadTailProperties, EmptySeq
<1>2. DOMAIN q = 1 .. Len(q) /\ DOMAIN Tail(q) = 1 .. Len(q) - 1
  BY <1>1
<1>3. ASSUME NEW i \in 1 .. Len(q) PROVE q[i] \in ToSet(Tail(q)) \cup {Head(q)}
  <2>1. CASE i = 1
    BY <2>1, <1>1
  <2>2. CASE i # 1
    <3>1. PICK j \in 1 .. Len(q) - 1 : j + 1 = i
      BY <2>2, <1>1
    <3>2. q[i] = Tail(q)[j]
      BY <3>1, <1>1
    <3>3. QED BY <3>2, <1>2 DEF ToSet
  <2>3. QED BY <2>1, <2>2
<1>4. ASSUME NEW j \in 1 .. Len(q) - 1 PROVE Tail(q)[j] \in ToSet(q)
  <2>1. j + 1 \in 1 .. Len(q) /\ Tail(q)[j] = q[j + 1]
    BY <1>1
  <2>2. QED BY <2>1, <1>2 DEF ToSet
<1>5. Head(q) \in ToSet(q)
  BY <1>1, <1>2 DEF ToSet
<1>6. QED BY <1>1, <1>2, <1>3, <1>4, <1>5 DEF ToSet

\* What a message sent to S does to the queues.
LEMMA SentTold ==
  ASSUME ClientsTyped, NEW S, S \subseteq Clients, NEW msg \in Msgs, Sent(S, msg)
  PROVE  /\ queue' \in [Clients -> Seq(Msgs)]
         /\ \A c \in Clients : /\ ToSet(queue[c]) \subseteq ToSet(queue'[c])
                               /\ ToSet(queue'[c]) \subseteq ToSet(queue[c]) \cup {msg}
                               /\ c \in S \ Full(S) => msg \in ToSet(queue'[c])
<1>1. queue' = [c \in Clients |-> IF c \in S \ Full(S) THEN Append(queue[c], msg) ELSE queue[c]]
  BY DEF Sent
<1>2. \A c \in Clients : queue[c] \in Seq(Msgs)
  BY DEF ClientsTyped
<1>3. ASSUME NEW c \in Clients
      PROVE  /\ queue'[c] \in Seq(Msgs) /\ ToSet(queue[c]) \subseteq ToSet(queue'[c])
             /\ ToSet(queue'[c]) \subseteq ToSet(queue[c]) \cup {msg}
             /\ c \in S \ Full(S) => msg \in ToSet(queue'[c])
  <2>1. CASE c \in S \ Full(S)
    BY <2>1, <1>1, <1>2, AppendTold
  <2>2. CASE c \notin S \ Full(S)
    BY <2>2, <1>1, <1>2
  <2>3. QED BY <2>1, <2>2
<1>4. QED BY <1>1, <1>3

\* All that have joined are reached.
LEMMA FromJoined ==
  ASSUME ClientsTyped, WholeInv, resetStatus # NMI
  PROVE  From(clients) = {c \in Clients : at[c] # "start"}
<1>1. PICK s : Linked(s, clients, next) /\ \A c \in Clients : In(c, s) <=> at[c] # "start"
  BY DEF WholeInv
<1>2. From(clients) = {c \in Clients : In(c, s)}
  BY <1>1, FromIs
<1>3. QED BY <1>1, <1>2

\* In the others nothing changes.
padLoop == <<actionBits, exit>>

\* A retrace.
LEMMA RetraceClients ==
  ASSUME ClientsInv, HandleRetrace, UNCHANGED padLoop
  PROVE  ClientsInv'
<1>0. ClientsTyped /\ WholeInv /\ ToldInv
  BY DEF ClientsInv
<1>1. /\ Sent(From(clients) \cap Pollers, "retrace") /\ clients' = clients /\ next' = next
      /\ at' = at /\ iter' = iter /\ heard' = heard /\ missed' = missed
      /\ resetStatus' = resetStatus /\ actionBits' = actionBits /\ exit' = exit
  BY DEF HandleRetrace, listVars, padLoop
<1>2. From(clients) \cap Pollers \subseteq Clients /\ "retrace" \in Msgs /\ "retrace" # "nmi"
  BY IrqAssumption DEF Msgs
<1>3. /\ queue' \in [Clients -> Seq(Msgs)]
      /\ \A c \in Clients : /\ ToSet(queue[c]) \subseteq ToSet(queue'[c])
                            /\ ToSet(queue'[c]) \subseteq ToSet(queue[c]) \cup {"retrace"}
  BY <1>0, <1>1, <1>2, SentTold
<1>4. ClientsTyped'
  BY <1>0, <1>1, <1>3 DEF ClientsTyped
<1>5. WholeInv'
  BY <1>0, <1>1, <1>2, <1>3 DEF WholeInv
<1>6. ToldInv'
  BY <1>0, <1>1, <1>3 DEF ToldInv, Told
<1>7. QED BY <1>4, <1>5, <1>6 DEF ClientsInv

\* The reset begins: all that have joined are told.
LEMMA PreNMIClients ==
  ASSUME ClientsInv, HandlePreNMI, UNCHANGED padLoop
  PROVE  ClientsInv'
<1>0. ClientsTyped /\ WholeInv /\ ToldInv
  BY DEF ClientsInv
<1> DEFINE S == From(clients)
<1>1. /\ resetStatus = IDLE /\ resetStatus' = PRENMI /\ Sent(S, "prenmi")
      /\ missed' = missed \cup Full(S) /\ clients' = clients /\ next' = next
      /\ at' = at /\ iter' = iter /\ heard' = heard /\ actionBits' = actionBits /\ exit' = exit
  BY DEF HandlePreNMI, SendReset, listVars, padLoop
<1>2. S = {c \in Clients : at[c] # "start"}
  BY <1>0, <1>1, Statuses, FromJoined
<1>3. Full(S) \subseteq S
  BY DEF Full
<1> HIDE DEF S
<1>4. S \subseteq Clients /\ "prenmi" \in Msgs /\ "prenmi" # "nmi"
  BY <1>2 DEF Msgs, Resets
<1>5. /\ queue' \in [Clients -> Seq(Msgs)]
      /\ \A c \in Clients : /\ ToSet(queue[c]) \subseteq ToSet(queue'[c])
                            /\ ToSet(queue'[c]) \subseteq ToSet(queue[c]) \cup {"prenmi"}
                            /\ c \in S \ Full(S) => "prenmi" \in ToSet(queue'[c])
  BY <1>0, <1>1, <1>4, SentTold
<1>6. ClientsTyped'
  <2>1. missed' \subseteq Clients /\ resetStatus' \in {IDLE, PRENMI, NMI}
    BY <1>0, <1>1, <1>3, <1>4 DEF ClientsTyped
  <2>2. QED BY <1>0, <1>1, <1>5, <2>1 DEF ClientsTyped
<1>7. WholeInv'
  BY <1>0, <1>1, <1>4, <1>5, Statuses DEF WholeInv
<1>8. ToldInv'
  <2> SUFFICES ASSUME NEW c \in Clients \ missed', at[c] \in {"told", "running"}
               PROVE  "prenmi" \in ToSet(queue'[c])
    BY <1>1, Statuses DEF ToldInv, Told
  <2>1. c \in S \ Full(S)
    BY <1>1, <1>2
  <2>2. QED BY <1>5, <2>1
<1>9. QED BY <1>6, <1>7, <1>8 DEF ClientsInv

\* The NMI comes: all that have joined are told, and none has left.
LEMMA NMIClients ==
  ASSUME ClientsInv, HandlePRENMI450, UNCHANGED padLoop
  PROVE  ClientsInv'
<1>0. ClientsTyped /\ WholeInv /\ ToldInv
  BY DEF ClientsInv
<1> DEFINE S == From(clients)
<1>1. /\ resetStatus = PRENMI /\ resetStatus' = NMI /\ Sent(S, "nmi")
      /\ missed' = missed \cup Full(S) /\ clients' = clients /\ next' = next
      /\ at' = at /\ iter' = iter /\ heard' = heard
  BY DEF HandlePRENMI450, SendReset, listVars
<1>2. S = {c \in Clients : at[c] # "start"}
  BY <1>0, <1>1, Statuses, FromJoined
<1>3. Full(S) \subseteq S
  BY DEF Full
<1> HIDE DEF S
<1>4. S \subseteq Clients /\ "nmi" \in Msgs
  BY <1>2 DEF Msgs, Resets
<1>5. /\ queue' \in [Clients -> Seq(Msgs)]
      /\ \A c \in Clients : /\ ToSet(queue[c]) \subseteq ToSet(queue'[c])
                            /\ c \in S \ Full(S) => "nmi" \in ToSet(queue'[c])
  BY <1>0, <1>1, <1>4, SentTold
<1>6. ClientsTyped'
  <2>1. missed' \subseteq Clients /\ resetStatus' \in {IDLE, PRENMI, NMI}
    BY <1>0, <1>1, <1>3, <1>4 DEF ClientsTyped
  <2>2. QED BY <1>0, <1>1, <1>5, <2>1 DEF ClientsTyped
<1>7. WholeInv'
  BY <1>1 DEF WholeInv
<1>8. ToldInv'
  <2> SUFFICES ASSUME NEW c \in Clients \ missed', at[c] \in {"told", "running"}
               PROVE  "prenmi" \in Told(c)' /\ "nmi" \in Told(c)'
    BY <1>1 DEF ToldInv
  <2>1. c \in S \ Full(S) /\ c \in Clients \ missed
    BY <1>1, <1>2
  <2>2. "prenmi" \in Told(c)
    BY <1>0, <1>1, <2>1, Statuses DEF ToldInv
  <2>3. QED BY <1>1, <1>5, <2>1, <2>2 DEF Told
<1>9. QED BY <1>6, <1>7, <1>8 DEF ClientsInv

\* A client joins.
LEMMA InsertClients ==
  ASSUME ClientsInv, NEW c \in Clients, Insert(c), UNCHANGED padLoop
  PROVE  ClientsInv'
<1>0. ClientsTyped /\ WholeInv /\ ToldInv
  BY DEF ClientsInv
<1>1. /\ at[c] = "start" /\ next' = [next EXCEPT ![c] = clients] /\ clients' = c
      /\ at' = [at EXCEPT ![c] = "inserted"] /\ queue' = queue /\ iter' = iter /\ heard' = heard
      /\ missed' = missed /\ resetStatus' = resetStatus /\ actionBits' = actionBits /\ exit' = exit
  BY DEF Insert, padLoop
<1>2. ClientsTyped'
  BY <1>0, <1>1 DEF ClientsTyped, Stages
<1>3. WholeInv'
  <2> SUFFICES ASSUME resetStatus # NMI
               PROVE  /\ \A d \in Clients : at'[d] \in {"start", "inserted", "told", "running"}
                      /\ \E r : /\ Linked(r, clients', next')
                                /\ \A d \in Clients : In(d, r) <=> at'[d] # "start"
    BY <1>0, <1>1 DEF WholeInv
  <2>1. at \in [Clients -> Stages] /\ next \in [Clients -> Clients \cup {Null}]
    BY <1>0 DEF ClientsTyped
  <2>2. \A d \in Clients : at[d] \in {"start", "inserted", "told", "running"}
    BY <1>0 DEF WholeInv
  <2>3. PICK s : Linked(s, clients, next) /\ \A d \in Clients : In(d, s) <=> at[d] # "start"
    BY <1>0 DEF WholeInv
  <2>4. ~ In(c, s)
    BY <1>1, <2>3
  <2>5. PICK r : /\ Linked(r, c, next')
                 /\ \A d \in Clients : In(d, r) <=> d = c \/ In(d, s)
    <3>1. Put(c, s, clients, next, next')
      BY <1>1, <2>1, <2>3, <2>4 DEF Put
    <3>2. QED BY <3>1, InsertLinked
  <2>6. ASSUME NEW d \in Clients PROVE In(d, r) <=> at'[d] # "start"
    BY <1>1, <2>1, <2>3, <2>5
  <2>7. \A d \in Clients : at'[d] \in {"start", "inserted", "told", "running"}
    BY <1>1, <2>1, <2>2
  <2>8. QED BY <1>1, <2>5, <2>6, <2>7
<1>4. ToldInv'
  <2> SUFFICES ASSUME NEW d \in Clients \ missed, at'[d] \in {"told", "running"}
               PROVE  at[d] = at'[d] /\ Told(d)' = Told(d)
    BY <1>0, <1>1 DEF ToldInv
  <2>1. QED BY <1>0, <1>1 DEF ClientsTyped, Told
<1>5. QED BY <1>2, <1>3, <1>4 DEF ClientsInv

\* A client that joins, or has joined, is told of a reset that has begun.
LEMMA TellClients ==
  ASSUME ClientsInv, NEW c \in Clients, TellPreNMI(c) \/ TellNMI(c), UNCHANGED padLoop
  PROVE  ClientsInv'
<1>0. ClientsTyped /\ WholeInv /\ ToldInv
  BY DEF ClientsInv
<1>1. PICK S \in {{}, {c}}, msg \in {"prenmi", "nmi"}, stage \in {"told", "running"} :
        /\ Sent(S, msg) /\ missed' = missed \cup Full(S) /\ at' = [at EXCEPT ![c] = stage]
        /\ \/ /\ stage = "told" /\ msg = "prenmi" /\ at[c] = "inserted"
              /\ resetStatus # IDLE => S = {c}
           \/ /\ stage = "running" /\ msg = "nmi" /\ at[c] = "told"
              /\ resetStatus = NMI <=> S = {c}
  <2>1. CASE TellPreNMI(c)
    <3>1. /\ at[c] = "inserted" /\ at' = [at EXCEPT ![c] = "told"]
          /\ SendReset(IF resetStatus >= PRENMI THEN {c} ELSE {}, "prenmi")
      BY <2>1 DEF TellPreNMI
    <3>2. resetStatus # IDLE => resetStatus >= PRENMI
      BY <1>0 DEF ClientsTyped, IDLE, PRENMI, NMI
    <3>3. PICK S : S = IF resetStatus >= PRENMI THEN {c} ELSE {}
      OBVIOUS
    <3>4. Sent(S, "prenmi") /\ missed' = missed \cup Full(S) /\ S \in {{}, {c}}
          /\ (resetStatus # IDLE => S = {c})
      BY <3>1, <3>2, <3>3 DEF SendReset
    <3>5. QED BY <3>1, <3>4
  <2>2. CASE TellNMI(c)
    <3>1. /\ at[c] = "told" /\ at' = [at EXCEPT ![c] = "running"]
          /\ SendReset(IF resetStatus >= NMI THEN {c} ELSE {}, "nmi")
      BY <2>2 DEF TellNMI
    <3>2. resetStatus = NMI <=> resetStatus >= NMI
      BY <1>0 DEF ClientsTyped, IDLE, PRENMI, NMI
    <3>3. PICK S : S = IF resetStatus >= NMI THEN {c} ELSE {}
      OBVIOUS
    <3>4. Sent(S, "nmi") /\ missed' = missed \cup Full(S) /\ S \in {{}, {c}}
          /\ (resetStatus = NMI <=> S = {c})
      BY <3>1, <3>2, <3>3 DEF SendReset
    <3>5. QED BY <3>1, <3>4
  <2>3. QED BY <2>1, <2>2
<1>2. /\ clients' = clients /\ next' = next /\ iter' = iter /\ heard' = heard
      /\ resetStatus' = resetStatus /\ actionBits' = actionBits /\ exit' = exit
  BY DEF TellPreNMI, TellNMI, listVars, padLoop
<1>3. S \subseteq Clients /\ msg \in Msgs /\ Full(S) \subseteq S
  BY DEF Msgs, Resets, Full
<1>4. /\ queue' \in [Clients -> Seq(Msgs)]
      /\ \A d \in Clients : /\ ToSet(queue[d]) \subseteq ToSet(queue'[d])
                            /\ ToSet(queue'[d]) \subseteq ToSet(queue[d]) \cup {msg}
                            /\ d \in S \ Full(S) => msg \in ToSet(queue'[d])
  BY <1>0, <1>1, <1>3, SentTold
<1>5. at \in [Clients -> Stages] /\ \A d \in Clients : at'[d] = IF d = c THEN stage ELSE at[d]
  BY <1>0, <1>1 DEF ClientsTyped
<1>6. ClientsTyped'
  <2>1. at' \in [Clients -> Stages] /\ missed' \subseteq Clients
    BY <1>0, <1>1, <1>3, <1>5 DEF ClientsTyped, Stages
  <2>2. QED BY <1>0, <1>2, <1>4, <2>1 DEF ClientsTyped
<1>7. WholeInv'
  <2> SUFFICES ASSUME resetStatus # NMI
               PROVE  /\ \A d \in Clients : at'[d] \in {"start", "inserted", "told", "running"}
                      /\ \A d \in Clients : "nmi" \notin ToSet(queue'[d])
                      /\ \A d \in Clients : at[d] # "start" <=> at'[d] # "start"
    BY <1>0, <1>2 DEF WholeInv
  <2>1. \A d \in Clients : at'[d] \in {"start", "inserted", "told", "running"}
    BY <1>0, <1>5 DEF WholeInv
  <2>2. \A d \in Clients : at[d] # "start" <=> at'[d] # "start"
    BY <1>1, <1>5
  <2>3. ASSUME NEW d \in Clients PROVE "nmi" \notin ToSet(queue'[d])
    <3>1. "nmi" \notin ToSet(queue[d])
      BY <1>0 DEF WholeInv
    <3>2. CASE msg = "prenmi"
      BY <3>1, <3>2, <1>4
    <3>3. CASE msg = "nmi"
      <4>1. S = {}
        BY <1>1, <3>3
      <4>2. queue'[d] = queue[d]
        BY <1>1, <4>1 DEF Sent
      <4>3. QED BY <3>1, <4>2
    <3>4. QED BY <3>2, <3>3
  <2>4. QED BY <2>1, <2>2, <2>3
<1>8. ToldInv'
  <2> SUFFICES ASSUME NEW d \in Clients \ missed'
               PROVE  /\ at'[d] \in {"told", "running"} /\ resetStatus # IDLE => "prenmi" \in Told(d)'
                      /\ at'[d] = "running" /\ resetStatus = NMI => "nmi" \in Told(d)'
    BY <1>2 DEF ToldInv
  <2>1. d \in Clients \ missed /\ d \notin Full(S) /\ Told(d) \subseteq Told(d)'
    BY <1>1, <1>2, <1>4 DEF Told
  <2>2. CASE d # c
    BY <1>0, <1>5, <2>1, <2>2 DEF ToldInv
  <2>3. CASE d = c /\ stage = "told"
    <3>1. resetStatus # IDLE => "prenmi" \in ToSet(queue'[d])
      BY <1>1, <1>4, <2>1, <2>3
    <3>2. QED BY <1>5, <2>3, <3>1 DEF Told
  <2>4. CASE d = c /\ stage = "running"
    <3>1. resetStatus = NMI => "nmi" \in ToSet(queue'[d])
      BY <1>1, <1>4, <2>1, <2>4
    <3>2. resetStatus # IDLE => "prenmi" \in Told(d)
      BY <1>0, <1>1, <2>1, <2>4 DEF ToldInv
    <3>3. QED BY <2>1, <3>1, <3>2 DEF Told
  <2>5. QED BY <2>2, <2>3, <2>4
<1>9. QED BY <1>6, <1>7, <1>8 DEF ClientsInv

\* A client leaves, with an old head of the list in hand.
LEMMA LeaveClients ==
  ASSUME ClientsInv, NEW c \in Clients, ReadClients(c) \/ Unlink(c), UNCHANGED padLoop
  PROVE  ClientsInv'
<1>0. ClientsTyped /\ WholeInv /\ ToldInv
  BY DEF ClientsInv
<1>1. PICK stage \in {"unlinking", "gone"} : at' = [at EXCEPT ![c] = stage]
  BY DEF ReadClients, Unlink
<1>2. /\ at[c] \in {"leaving", "unlinking"} /\ queue' = queue /\ heard' = heard
      /\ missed' = missed /\ resetStatus' = resetStatus
  BY DEF ReadClients, Unlink
<1>3. resetStatus = NMI
  BY <1>0, <1>2 DEF WholeInv
<1>4. /\ clients' \in Clients \cup {Null} /\ next' \in [Clients -> Clients \cup {Null}]
      /\ iter' \in [Clients -> Clients \cup {Null}]
  <2>1. CASE ReadClients(c)
    BY <1>0, <2>1 DEF ReadClients, listVars, ClientsTyped
  <2>2. CASE Unlink(c)
    <3>1. Unlinked(iter[c], c) /\ iter' = iter
      BY <2>2 DEF Unlink
    <3>2. next[c] \in Clients \cup {Null} /\ \A d \in Clients : next[d] \in Clients \cup {Null}
      BY <1>0 DEF ClientsTyped
    <3>3. CASE iter[c] = c
      BY <1>0, <3>1, <3>2, <3>3 DEF Unlinked, ClientsTyped
    <3>4. CASE iter[c] # c
      BY <1>0, <3>1, <3>2, <3>4 DEF Unlinked, ClientsTyped
    <3>5. QED BY <3>3, <3>4
  <2>3. QED BY <2>1, <2>2
<1>5. at \in [Clients -> Stages] /\ \A d \in Clients : at'[d] = IF d = c THEN stage ELSE at[d]
  BY <1>0, <1>1 DEF ClientsTyped
<1>6. ClientsTyped'
  <2>1. at' \in [Clients -> Stages]
    BY <1>1, <1>5 DEF Stages
  <2>2. QED BY <1>0, <1>2, <1>4, <2>1 DEF ClientsTyped
<1>7. WholeInv'
  BY <1>2, <1>3 DEF WholeInv
<1>8. ToldInv'
  <2> SUFFICES ASSUME NEW d \in Clients \ missed, at'[d] \in {"told", "running"}
               PROVE  at[d] = at'[d] /\ Told(d)' = Told(d)
    BY <1>0, <1>2 DEF ToldInv
  <2>1. d # c
    BY <1>5
  <2>2. QED BY <1>2, <1>5, <2>1 DEF Told
<1>9. QED BY <1>6, <1>7, <1>8 DEF ClientsInv

\* A client takes a message, which it has then heard.
LEMMA TakeTold ==
  ASSUME ClientsInv, NEW c \in Clients, Take(c)
  PROVE  /\ queue' \in [Clients -> Seq(Msgs)] /\ heard' \in [Clients -> SUBSET Resets]
         /\ Head(queue[c]) \in Msgs /\ Head(queue[c]) \in ToSet(queue[c]) /\ at[c] = "running"
         /\ \A d \in Clients : ToSet(queue'[d]) \subseteq ToSet(queue[d])
         /\ \A d \in Clients, r \in Resets : r \in Told(d) => r \in Told(d)'
<1>1. /\ at[c] = "running" /\ queue[c] # <<>> /\ queue' = [queue EXCEPT ![c] = Tail(@)]
      /\ heard' = [heard EXCEPT ![c] = @ \cup ({Head(queue[c])} \cap Resets)]
  BY DEF Take
<1>2. queue \in [Clients -> Seq(Msgs)] /\ heard \in [Clients -> SUBSET Resets]
  BY DEF ClientsInv, ClientsTyped
<1>3. PICK q \in Seq(Msgs) : q = queue[c] /\ q # <<>>
  BY <1>1, <1>2
<1>4. Tail(q) \in Seq(Msgs) /\ Head(q) \in Msgs /\ ToSet(q) = ToSet(Tail(q)) \cup {Head(q)}
  BY <1>3, TailTold
<1>5. queue' \in [Clients -> Seq(Msgs)] /\ heard' \in [Clients -> SUBSET Resets]
  BY <1>1, <1>2, <1>3, <1>4
<1>6. ASSUME NEW d \in Clients
      PROVE  /\ ToSet(queue'[d]) \subseteq ToSet(queue[d])
             /\ \A r \in Resets : r \in Told(d) => r \in Told(d)'
  <2>1. CASE d = c
    <3>1. queue'[d] = Tail(q) /\ heard'[d] = heard[d] \cup ({Head(q)} \cap Resets) /\ queue[d] = q
      BY <1>1, <1>2, <1>3, <2>1
    <3>2. QED BY <1>4, <3>1 DEF Told
  <2>2. CASE d # c
    <3>1. queue'[d] = queue[d] /\ heard'[d] = heard[d]
      BY <1>1, <1>2, <2>2
    <3>2. QED BY <3>1 DEF Told
  <2>3. QED BY <2>1, <2>2
<1>7. QED BY <1>1, <1>3, <1>4, <1>5, <1>6

\* The main thread and the audio thread take a message.
LEMMA TakeResetClients ==
  ASSUME ClientsInv, NEW c \in Clients, TakeReset(c), UNCHANGED padLoop
  PROVE  ClientsInv'
<1>0. ClientsTyped /\ WholeInv /\ ToldInv
  BY DEF ClientsInv
<1>1. /\ Take(c) /\ at' = [at EXCEPT ![c] = IF Head(queue[c]) = "nmi" THEN "leaving" ELSE "running"]
      /\ clients' = clients /\ next' = next /\ iter' = iter /\ missed' = missed
      /\ resetStatus' = resetStatus /\ actionBits' = actionBits /\ exit' = exit
  BY DEF TakeReset, listVars, padLoop
<1>2. /\ queue' \in [Clients -> Seq(Msgs)] /\ heard' \in [Clients -> SUBSET Resets]
      /\ Head(queue[c]) \in ToSet(queue[c]) /\ at[c] = "running"
      /\ \A d \in Clients : ToSet(queue'[d]) \subseteq ToSet(queue[d])
      /\ \A d \in Clients, r \in Resets : r \in Told(d) => r \in Told(d)'
  BY <1>1, TakeTold
<1>3. PICK stage \in {"leaving", "running"} :
        /\ at' = [at EXCEPT ![c] = stage] /\ (stage = "leaving" => "nmi" \in ToSet(queue[c]))
  BY <1>1, <1>2
<1>4. at \in [Clients -> Stages] /\ \A d \in Clients : at'[d] = IF d = c THEN stage ELSE at[d]
  BY <1>0, <1>3 DEF ClientsTyped
<1>5. ClientsTyped'
  <2>1. at' \in [Clients -> Stages]
    BY <1>3, <1>4 DEF Stages
  <2>2. QED BY <1>0, <1>1, <1>2, <2>1 DEF ClientsTyped
<1>6. WholeInv'
  <2> SUFFICES ASSUME resetStatus # NMI
               PROVE  \A d \in Clients : at'[d] = at[d] /\ "nmi" \notin ToSet(queue'[d])
    BY <1>0, <1>1 DEF WholeInv
  <2>1. \A d \in Clients : "nmi" \notin ToSet(queue[d])
    BY <1>0 DEF WholeInv
  <2>2. QED BY <1>2, <1>3, <1>4, <2>1
<1>7. ToldInv'
  <2> SUFFICES ASSUME NEW d \in Clients \ missed, at'[d] \in {"told", "running"}
               PROVE  at[d] = at'[d] /\ \A r \in Resets : r \in Told(d) => r \in Told(d)'
    BY <1>0, <1>1 DEF ToldInv, Resets
  <2>1. QED BY <1>2, <1>3, <1>4
<1>8. QED BY <1>5, <1>6, <1>7 DEF ClientsInv

\* So does the padmgr thread.
LEMMA ReceiveClients ==
  ASSUME ClientsInv, Receive
  PROVE  ClientsInv'
<1>0. ClientsTyped /\ WholeInv /\ ToldInv
  BY DEF ClientsInv
<1>1. /\ Take(Pad) /\ actionBits' = actionBits \cup {Head(queue[Pad])}
      /\ clients' = clients /\ next' = next /\ at' = at /\ iter' = iter /\ missed' = missed
      /\ resetStatus' = resetStatus /\ exit' = exit
  BY DEF Receive, listVars
<1>2. /\ queue' \in [Clients -> Seq(Msgs)] /\ heard' \in [Clients -> SUBSET Resets]
      /\ Head(queue[Pad]) \in ToSet(queue[Pad])
      /\ \A d \in Clients : ToSet(queue'[d]) \subseteq ToSet(queue[d])
      /\ \A d \in Clients, r \in Resets : r \in Told(d) => r \in Told(d)'
  BY <1>1, Names, TakeTold
<1>3. ClientsTyped'
  BY <1>0, <1>1, <1>2 DEF ClientsTyped
<1>4. WholeInv'
  <2> SUFFICES ASSUME resetStatus # NMI
               PROVE  "nmi" \notin actionBits' /\ \A d \in Clients : "nmi" \notin ToSet(queue'[d])
    BY <1>0, <1>1 DEF WholeInv
  <2>1. "nmi" \notin actionBits /\ \A d \in Clients : "nmi" \notin ToSet(queue[d])
    BY <1>0 DEF WholeInv
  <2>2. QED BY <1>1, <1>2, <2>1, Names
<1>5. ToldInv'
  BY <1>0, <1>1, <1>2 DEF ToldInv, Resets
<1>6. QED BY <1>3, <1>4, <1>5 DEF ClientsInv

\* Once it has been told of the NMI the padmgr thread leaves its loop.
LEMMA ActClients ==
  ASSUME ClientsInv, Act
  PROVE  ClientsInv'
<1>0. ClientsTyped /\ WholeInv /\ ToldInv
  BY DEF ClientsInv
<1>1. /\ clients' = clients /\ next' = next /\ queue' = queue /\ iter' = iter /\ heard' = heard
      /\ missed' = missed /\ resetStatus' = resetStatus /\ at[Pad] = "running"
  BY DEF Act, listVars
<1>2. /\ actionBits' \subseteq actionBits
      /\ exit' => exit \/ "nmi" \in actionBits
  BY DEF Act
<1>3. at \in [Clients -> Stages] /\ \A d \in Clients : at'[d] = at[d] \/ (exit /\ at'[d] = "leaving")
  <2>1. at \in [Clients -> Stages]
    BY <1>0 DEF ClientsTyped
  <2>2. at' = at \/ at' = [at EXCEPT ![Pad] = IF exit THEN "leaving" ELSE "running"]
    BY DEF Act
  <2>3. QED BY <1>1, <2>1, <2>2
<1>4. ClientsTyped'
  <2>1. at' \in [Clients -> Stages]
    <3>1. at' = at \/ at' = [at EXCEPT ![Pad] = IF exit THEN "leaving" ELSE "running"]
      BY DEF Act
    <3>2. QED BY <1>3, <3>1 DEF Stages
  <2>2. QED BY <1>0, <1>1, <2>1 DEF ClientsTyped
<1>5. WholeInv'
  <2> SUFFICES ASSUME resetStatus # NMI
               PROVE  "nmi" \notin actionBits' /\ ~exit' /\ \A d \in Clients : at'[d] = at[d]
    BY <1>0, <1>1 DEF WholeInv
  <2>1. QED BY <1>0, <1>2, <1>3 DEF WholeInv
<1>6. ToldInv'
  <2> SUFFICES ASSUME NEW d \in Clients \ missed, at'[d] \in {"told", "running"}
               PROVE  at[d] = at'[d] /\ Told(d)' = Told(d)
    BY <1>0, <1>1 DEF ToldInv
  <2>1. QED BY <1>1, <1>3 DEF Told
<1>7. QED BY <1>4, <1>5, <1>6 DEF ClientsInv

\* The other steps of the threads do nothing to the clients.
LEMMA SameClients ==
  ASSUME ClientsInv, UNCHANGED irqVars, UNCHANGED padLoop
  PROVE  ClientsInv'
<1>1. /\ clients' = clients /\ next' = next /\ queue' = queue /\ at' = at /\ iter' = iter
      /\ heard' = heard /\ missed' = missed /\ resetStatus' = resetStatus
      /\ actionBits' = actionBits /\ exit' = exit
  BY DEF irqVars, padLoop
<1>2. ClientsTyped' /\ ToldInv'
  BY <1>1 DEF ClientsInv, ClientsTyped, ToldInv, Told
<1>3. WholeInv'
  BY <1>1 DEF ClientsInv, WholeInv
<1>4. QED BY <1>2, <1>3 DEF ClientsInv

\* Every step keeps what the clients have been told.
LEMMA ClientsNext == ClientsInv /\ [Next]_vars => ClientsInv'
<1> SUFFICES ASSUME ClientsInv, [Next]_vars PROVE ClientsInv'
  OBVIOUS
<1>1. CASE Irqs
  <2>1. UNCHANGED padLoop
    BY <1>1 DEF Irqs, padVars, padLoop
  <2>2. QED BY <1>1, <2>1, RetraceClients, PreNMIClients, NMIClients DEF Irqs, Irq
<1>2. CASE ClientThreads
  <2>1. UNCHANGED padLoop
    BY <1>2 DEF ClientThreads, padVars, padLoop
  <2>2. PICK c \in Clients : Membership(c) \/ TakeReset(c)
    BY <1>2 DEF ClientThreads
  <2>3. QED BY <2>1, <2>2, InsertClients, TellClients, LeaveClients, TakeResetClients DEF Membership
<1>3. CASE PadThread
  <2>1. CASE HandlePadRetrace
    <3>1. UNCHANGED irqVars /\ UNCHANGED padLoop
      BY <2>1 DEF HandlePadRetrace, StartRead, FinishRead, GotInputs, FinishQuery, UpdateInputs,
                  Rumble, RumbleStop, FinishStop, Stopped, UpdateRumble, FinishDrive, padLoop
    <3>2. QED BY <3>1, SameClients
  <2>2. QED BY <1>3, <2>1, ReceiveClients, ActClients DEF PadThread
<1>4. CASE SiDone \/ GraphFrame \/ DestroyGraph \/ PlugOrPull \/ UNCHANGED vars
  <2>1. UNCHANGED irqVars /\ UNCHANGED padLoop
    BY <1>4 DEF SiDone, GraphFrame, DestroyGraph, PlugOrPull, vars, padVars, padLoop
  <2>2. QED BY <2>1, SameClients
<1>5. QED BY <1>1, <1>2, <1>3, <1>4 DEF Next

\* At the start nobody has joined, or all have and no reset has begun.
LEMMA ClientsInit == Init => ClientsInv
<1> SUFFICES ASSUME Init PROVE ClientsInv
  OBVIOUS
<1>1. /\ queue = [c \in Clients |-> <<>>] /\ iter = [c \in Clients |-> Null]
      /\ heard = [c \in Clients |-> {}] /\ missed = {} /\ resetStatus = IDLE
      /\ actionBits = {} /\ exit = FALSE
      /\ at = [c \in Clients |-> "start"] \/ at = [c \in Clients |-> "running"]
  BY DEF Init, IrqInit, IrqRunning
<1>2. \E s : Linked(s, clients, next) /\ \A c \in Clients : In(c, s) <=> at[c] # "start"
  <2>1. CASE IrqInit
    <3>1. clients = Null /\ \A c \in Clients : at[c] = "start"
      BY <2>1 DEF IrqInit
    <3>2. <<>> \in Seq(Clients) /\ Len(<<>>) = 0
      OBVIOUS
    <3>3. Once(<<>>) /\ Nth(<<>>, 1) = Null /\ \A c : ~ In(c, <<>>)
      BY <3>2 DEF Once, Nth, In
    <3>4. Linked(<<>>, clients, next)
      BY <3>1, <3>2, <3>3 DEF Linked
    <3>5. QED BY <3>1, <3>3, <3>4
  <2>2. CASE IrqRunning
    <3>1. \A c \in Clients : at[c] # "start"
      BY <2>2 DEF IrqRunning
    <3>2. QED BY <2>2, <3>1, RunningLinked
  <2>3. QED BY <2>1, <2>2 DEF Init
<1>3. clients \in Clients \cup {Null} /\ next \in [Clients -> Clients \cup {Null}]
  <2>1. CASE IrqInit
    BY <2>1 DEF IrqInit
  <2>2. CASE IrqRunning
    <3>1. PICK s : s = Joined /\ Linked(s, clients, next)
      BY <2>2, RunningLinked
    <3>2. s \in Seq(Clients) /\ clients = Nth(s, 1)
      BY <3>1 DEF Linked
    <3>3. clients \in Clients \cup {Null}
      <4>1. Len(s) \in Nat /\ (1 <= Len(s) => 1 \in 1 .. Len(s))
        BY <3>2
      <4>2. QED BY <3>2, <4>1 DEF Nth
    <3>4. \A c \in Clients : next[c] \in Clients \cup {Null}
      <4> TAKE c \in Clients
      <4>1. In(c, s)
        BY <2>2, <3>1, RunningLinked
      <4>2. PICK i \in 1 .. Len(s) : s[i] = c
        BY <4>1 DEF In
      <4>3. next[c] = Nth(s, i + 1)
        BY <3>1, <4>2 DEF Linked
      <4>4. Len(s) \in Nat /\ (i + 1 <= Len(s) => i + 1 \in 1 .. Len(s))
        BY <3>2
      <4>5. QED BY <3>2, <4>3, <4>4 DEF Nth
    <3>5. next = [c \in Clients |-> next[c]]
      BY <2>2 DEF IrqRunning
    <3>6. QED BY <3>3, <3>4, <3>5
  <2>3. QED BY <2>1, <2>2 DEF Init
<1>4. ClientsTyped
  <2>1. at \in [Clients -> Stages]
    BY <1>1 DEF Stages
  <2>2. QED BY <1>1, <1>3, <2>1 DEF ClientsTyped
<1>5. WholeInv
  <2>1. \A c \in Clients : "nmi" \notin ToSet(queue[c])
    BY <1>1 DEF ToSet
  <2>2. \A c \in Clients : at[c] \in {"start", "inserted", "told", "running"}
    BY <1>1
  <2>3. QED BY <1>1, <1>2, <2>1, <2>2 DEF WholeInv
<1>6. ToldInv
  BY <1>1, Statuses DEF ToldInv
<1>7. QED BY <1>4, <1>5, <1>6 DEF ClientsInv

\* Whenever a client joins, before, during or after a handler that starts a reset, and
\* whoever is leaving, it hears of the reset unless its queue had no room
\* (IrqMgr_AddClient, IrqMgr_HandlePreNMI, IrqMgr_HandlePRENMI450).
THEOREM ResetIsHeard == Spec => []HearsOfReset
<1>1. ClientsInv => HearsOfReset
  <2> SUFFICES ASSUME ClientsInv, NEW c \in Clients \ missed, at[c] = "running"
               PROVE  /\ resetStatus >= PRENMI => "prenmi" \in Told(c)
                      /\ resetStatus = NMI => "nmi" \in Told(c)
    BY DEF HearsOfReset, Told
  <2>1. resetStatus >= PRENMI => resetStatus # IDLE
    BY DEF ClientsInv, ClientsTyped, IDLE, PRENMI, NMI
  <2>2. QED BY <2>1 DEF ClientsInv, ToldInv
<1>2. QED BY ClientsInit, ClientsNext, <1>1, PTL DEF Spec

=============================================================================
