# A verification of mm-chaos

mm-chaos is the Nintendo 64 game "The Legend of Zelda: Majora's Mask", decompiled to C, with a
mod that lets *chaos effects* strike the player every few seconds. This directory holds TLA+
models of its core, the TLC configurations that check them on small instances, and proofs that
TLAPS checks for every size. Paths below are relative to the repository's root, where the
repository's own `src` directory holds the C code.

    tlc -config RcpSafe.cfg MCRcpSystem       a run; PROJECT.json names the module of each cfg
    tlapm ChaosCodesProofs.tla                a module of proofs

The models are of four kinds of code:

1. the kernel: threads, message queues and timers, on which everything else rests;
2. the system's managers and the threads that use them: the RCP scheduler, the interrupt manager
   and the controller manager, the most concurrent parts of the game;
3. the mod's own code: the list of active chaos effects, and the actors that effects spawn, with
   the object slots and rooms they live in;
4. the save files, which must survive a console that is switched off at the wrong moment.


## 1. Inventory

The console has one processor. Interrupts, and a dozen threads of fixed priority, share it: the
idle thread 0, graph 9, low-priority DMA 10, audio 11, main 12, flash 13, controllers 15,
scheduler 16, DMA 17, interrupts (IRQ) 18, fault 127 (`include/z64thread.h`). They talk through
message queues; almost nothing else is locked.

| part | source | state | operations | who calls it |
|---|---|---|---|---|
| threads and message queues | `libultra/os/*thread*.c`, `*mesg.c`, `createmesgqueue.c` | run queue, wait lists, thread states and priorities; a ring buffer per queue | send, jam, receive, create, start, stop, destroy, priority, yield, event messages | every thread, interrupts |
| timers | `libultra/os/settimer.c`, `stoptimer.c`, `timerintr.c` | one list of timers with relative expiry times | set, stop, expiry in the interrupt | graph, audio, DMA and flash threads, IRQ manager |
| IRQ manager | `boot/irqmgr.c` | list of clients, reset status | add and remove clients, retrace, PreNMI and its timers | VI, timers; tells scheduler, audio, controllers, main |
| RCP scheduler | `code/sched.c`, `z_nulltask.c` | two task lists, the task on the RSP and the one on the RDP, framebuffers | new tasks, retrace, RSP and RDP done, cancel | graph and audio threads, IRQ manager, interrupts |
| graph thread | `code/graph.c`, `game.c`, `z_jpeg.c` | the gfx task, `CfbInfo`s, retry counter | a frame, its timeout, jpeg and null tasks, changes of game state | runs the game |
| audio thread | `code/audio_thread_manager.c` | the audio task, retry counter | retrace, timeout, reset | IRQ manager |
| controller manager | `code/padmgr.c`, `sys_rumble.c` | inputs, a token for the serial line, a lock | retrace, poll, rumble, connections, reset | graph thread, IRQ manager |
| chaos effects | `code/chaos_fuckery.c` | active list and its index array, clocks, a one-place queue, spawned actors, games | update once per frame, selection, deactivation, spawning | play state, player, many actors |
| object slots | `code/z_scene.c` | slots, a ring of loads in flight | request, overwrite, completion, a room's list | play state, chaos effects, actors |
| play state, rooms | `code/z_play.c`, `z_room.c`, `z_actor.c` | current and last room, actors | the parts of a frame, room change, scene change | graph thread |
| cutscenes, schedules | `code/z_eventmgr.c`, `z_schedule.c` | queue of waiting cutscenes; none | queue, start, stop; run a script | actors |
| save and flash | `code/z_sram_NES.c`, `sys_flashrom.c`, `osFlash.c` | cycle, owl and crash saves of two files, and their backups | start-up check and repair, menu, saves of the game, writes with retries | play state, file select, fault handler |
| DMA manager | `boot/z_std_dma.c` | a queue of requests | read, in turn | everyone |
| arenas | `boot/libc64/__osMalloc.c`, `TwoHeadArena.c` | a list of blocks | malloc, free, realloc | everyone |
| audio synthesis | `audio/lib`, `audio/*.c` | command queue, notes, sequences | commands, one update per frame | game, audio thread |
| the rest | actors, overlays, collision, rendering, fault handler, tools | | | |

What makes each part correct, and what is hard about it:

* *Message queues.* Messages come out in the order they went in, none lost, doubled or
  overwritten; no thread sleeps while what it waits for is there; the highest priority runs.
  Hard: a woken thread runs later than it was woken, and others come in between; threads are
  stopped, restarted and given other priorities while they wait.
* *Timers.* None expires before its time, none is put off by another by more than the code needs to
  read its counter, and the interrupt of the first is never missed. Hard: each keeps only the
  cycles from the one before it, counted from a reading of a counter that wraps and goes on
  meanwhile; a timer may expire while it is stopped.
* *Scheduler.* Every task is held once and answered once, when both processors are done with
  it; frames do not tear and are not overwritten before they are shown; everybody gets an
  answer, even if the RSP hangs. Hard: five kinds of events in any order, audio preempting
  graphics, timeouts that race completions, a task structure that is used again for every frame.
* *IRQ manager.* Every client hears of a reset, whenever it joins. Hard: clients join from their
  own threads between two stages of a reset; messages are dropped at full queues.
* *Controller manager.* An interrupt of the serial line is taken by whoever began the operation,
  the token comes back on every path, no press is lost, and the motor of a rumble pak stands
  still when the console is reset. Hard: two threads share the line and the inputs; transmissions
  fail; paks are pulled; a pause is counted in retraces.
* *Chaos effects.* The list and its index array agree; effects that exclude each other never
  meet; time passes once for each effect; effects end. Hard: the list is changed by the loop
  that walks over it and, between frames, by play and player; situations hold effects over
  their time; conditions are compared at the draw and change later.
* *Object slots and chaos actors.* A slot that says it is loaded is; no actor is drawn from
  another's object; the list of chaos actors holds no freed actor. Hard: a load is requested,
  done and noticed at three different times; slots are overwritten and cut off by room changes
  while actors of the last room are still drawn; an actor is killed, destroyed and freed at
  three different times, and four functions take it off the list.
* *Save files.* What is opened is whole, and the newest; a backup stands in when a write was cut
  off; an owl save can be loaded once. Hard: a sector is erased whole, and with it the backup;
  writes go on while the game runs; each kind of save invalidates others; flags of the menu are
  kept beside the flash.

The hazards that follow from this are listed in PROJECT.json, each at its line with the
properties that would catch it.


## 2. Modules

| module | models | from |
|---|---|---|
| `OSThread` | the thread functions, as functions of the state of the thread system | `libultra/os/*thread*.c` |
| `MesgQueue` | one queue, the threads and interrupts that use it | `sendmesg.c`, `jammesg.c`, `recvmesg.c`, `createmesgqueue.c` |
| `BoundedFifo` | what a queue promises (abstract) | |
| `OSTimer` | the list of timers, the counter, the VI manager that takes its interrupts | `settimer.c`, `stoptimer.c`, `timerintr.c`, `vimgr.c` |
| `Sched` | the scheduler thread; RSP, RDP and VI | `sched.c` |
| `RcpSystem` | `Sched` with the graph and audio threads, timers, retraces | `graph.c`, `game.c`, `z_jpeg.c`, `z_nulltask.c`, `audio_thread_manager.c` |
| `IrqMgr` | the clients of the interrupt manager and what it sends them | `irqmgr.c` |
| `PadMgr` | `IrqMgr` with the controller manager, the main thread and the game's polls | `padmgr.c`, `sys_rumble.c`, `main.c`, `game.c`, `voice_internal.c` |
| `ChaosCodes` | the active list and `Chaos_UpdateChaos` | `chaos_fuckery.c` |
| `ActiveEffects` | what the active list promises (abstract) | |
| `ObjectSlots` | slots, the ring of loads, the DMA manager's queue | `z_scene.c`, `z_std_dma.c` |
| `ChaosActors` | `ObjectSlots` with the actors that effects and rooms spawn, over the frames | `chaos_fuckery.c`, `z_room.c`, `z_actor.c`, `z_play.c` |
| `SaveFiles` | the saves, the flash thread, the menu, the game's saves, power cuts | `z_sram_NES.c`, `sys_flashrom.c`, `osFlash.c` |
| `MC...` | values for TLC | |
| `...Proofs` | theorems, section 4 | |

`map` in PROJECT.json gives the lines each definition stands for.

### OSThread and MesgQueue

Every function of libultra modelled here runs with interrupts masked, so it is one step, except
where it gives up the processor in `__osEnqueueAndYield`. `OSThread` is therefore a set of
functions from one state of the thread system to the next; `MesgQueue` keeps that state in `os`,
the `OSMesgQueue` in `mq`, and in `call[t]` the call a thread is blocked in. One `ThreadStep` is
one turn of the while loop of such a call. `StartThread`, `StopThread` and the others follow the
code case by case, including the one in which a restarted thread goes back to its queue and the
head of that queue is woken. The list primitives (`__osEnqueueThread`, `__osPopThread`,
`__osDispatchThread`) and the exception handler are assembly; they are modelled from their use
and marked external.

### OSTimer

`list` and `value` are the linked list and the cycles in it, `timerCounter` the reading they count
from, `count` and `compare` the processor's registers. `osSetTimer` works with interrupts masked
and is one step (`SetTimer`); it reads the counter up to twice, so the step says how many cycles
pass from one reading to the next, and from that to the setting of the counter. `osStopTimer` is
two, `StopTimer` before the mask and `EndStop` under it, with room for the interrupt in between.
`Interrupt` is the message that wakes the VI manager, `NoneLeft`, `NotYet` and `Expire` are the
rounds of its loop, of which `NotYet` reads the counter twice as well; no thread runs between them,
since its priority is the highest. `left` is no state of the code: the cycles before which a timer
may not expire. Any owner may stop its timer here; in the code `csleep` waits for it instead.

### Sched and RcpSystem

`sc` holds the fields of the `Scheduler` about tasks, `disp` those about framebuffers with the
`CfbInfo`s and the VI, `hw` the RSP and the RDP, `iq` and `cmdq` the two queues of the thread.
A handler of the scheduler is one step (`HandleNotify`, `HandleRetrace`, `HandleRSPDone`,
`HandleRDPDone`, `HandleAudioCancel`, `HandleGfxCancel`). Where it may block or wait, `pc` says
so: `SendDone` is the blocking send of the answer with the rest of the handler, `RunTask` the
busy wait for the RSP in `osSpTaskLoad` with the start of the task, `FinishHalt` the end of the
wait of at most 10 ms for the RSP to halt. Each sender owns one `OSScTask`, so a task is one of
"gfx", "aud", "jpeg" and "null". Queues have the sizes they have in the code (64, 8, 8, 1, 1).

The RSP may finish a task, or yield if asked and still able to; it hands the last command of a
frame to the RDP (`RSPSync`) and the RDP finishes some time later. If a frame was abandoned, the
RDP may yet reach that frame's sync; `hw.stale` counts such interrupts.

The graph and audio threads are below the scheduler and run only while it waits (`SchedWaits`).
Their own order of priority is left out, so they interleave freely: every real order is among
those checked. A timer may expire at any moment while it is set, also between `osRecvMesg` and
`osStopTimer`. Black screen and VI mode, the fault client and the (empty) PreNMI handler are not
part of the model; nor is what a frame computes.

### IrqMgr and PadMgr

`IrqMgr` keeps the linked list of clients in `clients` (its head) and `next`, as the code does.
A client's thread joins in three steps, `Insert` under the mask and the two looks at
`resetStatus` (`TellPreNMI`, `TellNMI`), and leaves in two, since `IrqMgr_RemoveClient` reads the
head before it masks interrupts. The manager's thread has a higher priority than any client and
never waits in a handler, so an interrupt and its handler are one step. The timers of 480 and
500 ms only set the next timer or check stacks, and are left out. `missed` are the clients whose
queue had no room for a reset message.

`PadMgr` composes it with the padmgr thread, the main thread and any clients that join and leave as
that does; `Joined` is the order of the list where the model begins with all of them in it. The
runs have the first two. One message is the token of the serial line (`token`), another the lock of
the inputs (`lock`); `si` is whose operation the line is doing and `serial` the queue of its
interrupt. `padAt` is how far the padmgr thread is: taking all messages there are (`Receive`),
acting on them by precedence (`Act`), and the parts of `PadMgr_HandleRetrace` between which another
thread can get in. The graph thread polls (`CopyInputsLocked`, `ClearPresses`) and talks to the
voice recognition unit, the other user of the token. At the NMI the main thread leaves and destroys
the graph thread, wherever that is. The audio manager's code as a client is the main thread's; the
run leaves it out, the proofs do not. The search for a voice unit at the start is left out.

### ChaosCodes

One step is one call from outside or one step of `Chaos_UpdateChaos` up to the next iteration
of its loops; the variables have the names of the code. `Enable` and `Disable` are the call with
the outcome of `Chaos_CanUpdateChaos`; `Revoke` the two effects that
`Chaos_UpdateEnabledChaosEffectsAndEntrances` ends; `Clock`, `CodeTimer` and `ChaosTimer` the
passage of time; `Select` an iteration of the loop that draws a new code. `Perform` is every
deactivation by play or player between two updates, in any order; `SimonSays` the state of that
game.

What is abstract: the restrictions of a code are sets of situations instead of bit masks; the
weights and the enabled list, so that a draw returns any code; what an effect does when it
starts and ends. Whether a spawner's object is loaded is the business of `ChaosActors`. A freed
slot is reset, where the code leaves its bytes, which it never reads.

### ObjectSlots and ChaosActors

A slot shows the id of its object, negated until the object is in memory; `mem` is what really is
there. `UpdateEntries` takes the messages that have come, oldest first and only up to the first
that has not, each turning the sign of its slot, and issues requests for the slots that want one
until the ring is full. `RequestOverwrite` is what a chaos effect does to its slot, and
`SceneCommandObjectList` what a room does to its own: it keeps the slots that agree with its list
and cuts off the others. `dma` is the queue of the DMA manager, which rooms go through as well.

`ChaosActors` divides a frame of `Play_UpdateMain` into the steps in whose order the code makes
them: effects perform and spawn (`PerformCode`, `PerformChicken`), slots are updated, a room that
is there is processed, the room's actors spawn, every actor is updated, a door may ask for a room
or finish a change, `Chaos_UpdateChaos` drops codes and actors and draws a code, and the frame is
drawn. The DMA manager works in between. An actor is "live", "dead" once killed, and free again
after the update or room change that deletes it; its destroy function runs at most once, and not
at all if it was never initialised. A frame of a game that is paused, frozen or advanced by hand
goes from any of its parts to `Chaos_UpdateChaos` at once (`Before`, `LeftOut`).

No part waits for another: a slot is overwritten and cut off while its load is in flight, as in the
code. Three history variables, which no action reads, record what the properties except:
`overtaken`, the slots that were given an object in this scene while a load was in flight to their
memory; `forgotten`, that a listed actor was deleted before it was initialised; `unnoticed`, that
actors were left without a look at a slot between two objects. Section 3 has what the code does
then.

### SaveFiles

The flash is an array of units of 0x40 pages; a sector is two of them and is erased whole. A save
is a record of what decides its fate: the flags of an owl and a crash save, the chaos
configuration, whether the first cycle is over, whether its checksum covers the whole context and
whether it is its own, and a stamp that tells which operation made it. An operation that writes
asks the flash thread for a list of writes (`todo`); the game goes on only when they are done, and
the flash thread erases, programs unit by unit, and starts again after an error. A power cut may
come between any two of its steps; what is half written is `Torn`.

`CheckFile` is a round of the loop with which the file select screen starts, `Menu` the screen's
operations, `Play` the saves that a running game makes: a new cycle, a new day, the first clock
town, an owl, a crash, and the moon's fall, which loads. `latest` records what a file should open
with. `FlagsRight` and `FlagsSet` name the settings in which the menu's flags of the owl saves can
be trusted; finding (c) on saves below says what happens in the others.


## 3. Runs

Properties have their statement in words above their definition. Sizes are distinct states.

| run | instance | shows | states |
|---|---|---|---|
| `queue_traffic` | two senders that also jam, a receiver that also polls and peeks, interrupts, yields; capacity 2 | `NoLostWakeup`, `ImplementsFifo`, `MesgsFlow` | 36,860 |
| `queue_threads` | waiting threads are stopped, restarted, destroyed, created anew and reprioritised; capacity 1 | `OnOneList`, `HighestRuns` | 66,900 |
| `timers` | three timers of 1 or 5 cycles, a counter of 8 values | `NeverEarly`, `AlwaysArmed`, `OthersStay` | 769,723 |
| `rcp_safe` | gfx, audio, jpeg and null tasks; frames shown for one or two retraces, or not shown; the graph or the audio thread's timeouts | `TypeOK`, `OneAnswer`, `DoneInTime`, `FlushDrains`, `NoTear`, `ListsIntact`, `FrameKept` | 1,450,324 |
| `rcp_live` | RSP and RDP that work, and each of the two threads with an RSP or RDP that may hang, or an RSP that does not stop | `TasksAnswered`, `GraphRecovers`, `AudioRecovers` | 371,696 |
| `rcp_early_done` | the audio thread times out while a jpeg task waits | violates `DoneMeansDone` | 6,212 |
| `chaos_effects` | eight codes, two slots | `ListIntact`, `NoClash`, `ImplementsEffects`, `EffectsEnd` | 42,212 |
| `chaos_simon` | a game of Simon Says and CHANGE_HEALTH | violates `SimonDeathStands` | 751 |
| `chaos_objects` | four slots, a room with an empty object file and one of two objects, a ring of two loads, no actors | `RequestsInOrder`, `LoadedIsThere`, `ObjectComes` | 624,792 |
| `chaos_actors` | two actors, three slots, a ring of one load, two rooms, a change of the room or the scene | `NoDangling`, `KeepsItsObject`, `DrawnFromItsObject` | 7,355,713 |
| `save_files` | two files; five settings of errors, power cuts, copies, early crashes | `InfoTrue`, `CopiesAgree`, `OwlIsSpent`, `LoadsWhole`, `OpensLatest`, `RetriesSuffice`, `OwlKeepsTheRest` | 2,464,051 |
| `pad_reset` | the padmgr and main threads around a reset; a game that rumbles and polls | `HearsOfReset`, `SerialForHolder`, `MotorStops`, `PressesAreSeen`, `PadReturns` | 1,149,328 |

Every property has a mutant of the code that breaks it (`mutants` in PROJECT.json), so that none
holds for want of behaviour. `TypeOK` is checked by the run `rcp_safe` for `RcpSystem`, and proved
for `RcpSystem`, `MesgQueue`, `ChaosCodes`, `ChaosActors` and `SaveFiles`; in the other modules it
documents the variables.

### Bounds

* *Queues.* Three threads, the idle thread and two priorities give a thread that waits, one that
  is woken and one that comes in between, of a higher, equal or lower priority. A capacity of 2
  wraps around; a capacity of 1 makes both wait lists fill. The proofs cover all other sizes.
* *Timers.* Three timers are one that changes, one before and one behind it. The counter wraps
  around after 8 values; timers of 5 cycles are more than half of that, as the code's longest, 50
  s, is of the counter's 91 s, and timers of 1 are less than the 2 cycles the counter is set ahead
  at least (468). Two readings of the counter are at most one cycle apart (`Gap`), less than that,
  and three such gaps are less than a round. The proofs cover every number of timers, every counter
  and every countdown, other than 0, that leaves room in a round of the counter for the least time
  it is set ahead, if that is at most half a round (`TimersAssumption`).
* *Scheduler.* There are no more than four tasks in the code either, and the queues are of
  their real size. A retrace comes only once the last one has been handled (`Retrace`);
  without that bound, retraces alone would fill the queue. `Retries` is 0 or 1 where the code
  has 10: what follows a timeout does not depend on the counter until it runs out, and both
  outcomes are reached. `MaxRate` is 2, so that a frame can wait for its successor's turn. A
  behaviour belongs to one *setting*, which says which tasks there are, which threads set their
  timers and whether the hardware may hang: everything at once is beyond TLC's reach. The proofs
  cover what two settings have apart (frames shown at different rates with four tasks, say), as
  long as no timer expires, and for `ListsIntact` even then. `HaltWorks` is
  FALSE in `rcp_safe` and `rcp_live`, so that the RSP may refuse to halt.
* *Chaos effects.* Two slots let a code move when another goes and let the list be full. Codes
  have durations of 0 to 3 s, frames last up to 1.5 s (`Second` = 2, `MaxFrame` = 3), so that a
  frame may pass over the end of a timer. The codes stand for the kinds there are: one that
  speeds the clock up, pairs that exclude each other in both directions and in one, one performed
  early, one dropped early, one held by a cutscene, one that needs an object. `MaxRepeats` is an
  assumption, see below.
* *Objects and actors.* Four slots are one persistent object, the chaos slot and two of the room:
  with a ring of two loads there is one more to be loaded than the ring has room for, and it fills
  and wraps. With actors there are three slots and a ring of one load, for which the chaos object and
  the room's compete. Two actors are a chaos actor and one that takes its memory, or two that die
  in either order; the spawner queue has one place in the code too. A change of the room, which may
  be taken back, or of the scene (`MaxMoves`) is what each chaos actor can live through. The proofs
  cover every number of slots, requests, actors and changes.
* *Saves.* There are two files in the code too. Each behaviour makes three or four saves, which
  reaches an owl save over a crash save over a cycle save and the opening of each. Three errors
  are as many as a write has retries. One power cut falls into any write, the writes of the
  repair at the next start included. A stamp per operation tells saves apart. The proofs cover any
  number of saves and of power cuts.
* *Controllers.* `QueueSize` is 2 where the code has 8 or more: two are enough for a retrace
  before a reset message and, as `missed`, for a queue that is full. `RumbleTime` is 1 (24) and
  `PauseTime` 2 (12), with one transmission that fails: fewer than the pause has retraces, which
  is the condition that matters, and the proof covers every other pair. In the setting `late`,
  clients join while a reset may have begun, and the main thread takes messages; in the other a
  game rumbles and polls. Both parts do not meet: by then all clients have long joined.

### Fairness

* `MesgQueue!FairSpec`: the processor always executes the running thread, and threads are
  created and started at some time. Nothing is assumed about which thread runs. A thread that
  can receive again and again does so at last (strong), if it may also poll and peek: the game's
  receivers loop around a blocking `osRecvMesg`.
* `RcpSystem!LiveSpec`: weak fairness of the scheduler, which has the highest priority of those
  modelled; strong fairness of the graph and audio threads, which run again and again between
  the scheduler's steps; timers expire, retraces go on. The RSP and the RDP finish what they are
  given: strong for a gfx task, which audio makes yield again and again but which goes on where
  it was, weak for the others. In a setting that `hangs` there is none of that: the hardware may
  stop for good. No fairness is given to jpeg or null tasks there, whose senders wait without a
  timer.
* `ChaosCodes!LiveSpec`: `Chaos_UpdateChaos` runs on until it returns. Nothing is assumed about
  when it is called; `EffectsEnd` is conditional on seconds that pass without a restriction.
* `ChaosActors!LiveSpec`: frames follow each other (weak: the graph thread runs whenever it is in
  the game), again and again one of them gets to the update of the slots (strong: a pause ends),
  and the DMA manager, whose thread has the higher priority, works again and again
  between the parts of a frame (strong).
* `PadMgr!LiveSpec`: the serial line answers (weak); the padmgr thread, which has the highest
  priority of those that wait for the token and the lock, gets them when they are free again and
  again (strong); the graph thread finishes what it holds them for (weak).
* `SaveFiles` has no liveness property, and stops when the game hangs (below): its configuration
  does not check deadlock. All others do.

### Findings

* `rcp_early_done` (`sched.c:117`). An audio task completes between the audio thread's timeout
  and the handling of its cancel. The interrupt has posted `RSP_DONE_MSG`, and
  `Sched_HandleAudioCancel`, which finds the RSP halted, posts a second one. The first answers
  the audio thread and starts the next task; the second takes *that* task for done.
* `chaos_simon` (`chaos_fuckery.c:1349`). CHANGE_HEALTH is refused only after a game of Simon
  Says is lost, to save the death that follows. Activated while the game still waits for input,
  it lasts over the loss.

### What the code does not promise

Each property above holds under conditions, some of which the code does not establish. They are
named in the models, and this is what happens without them.

* *Queues.* `osPeekMesg` with `OS_MESG_BLOCK` would use up a wakeup without taking the message;
  its only caller (`fault.c:927`) does not block. A thread that is stopped or destroyed after it
  was woken takes the wakeup with it.
* *Timers.* `osStopTimer` looks at the timer's link before it masks interrupts. If the timer
  expires in between, the thread follows a null pointer (`owner[t] = "dead"`): the graph and audio
  threads do this on every frame, with a timer of 3 s and one of 32 ms. `osSetTimer` and an
  interrupt that comes early take the time up to one reading of the counter off the first timer,
  and count on from a second reading: the cycles between the two are lost, and every timer in the
  list is late by them. A timer that is overdue when another is set gets one more cycle and with it
  shifts all behind it (`Overdue`). `Delay` is the sum of both, and `OthersStay` says that a step
  loses no more, net of the cycles that pass in it. Nothing bounds what many steps lose together;
  timers are late by that, never early.
* *An RSP that does not stop* (`Spins`). `Sched_HandleAudioCancel` and `Sched_HandleGfxCancel` wait
  10 ms for the RSP to halt, and then go on as if it had (`sched.c:102`, `165`). The task is answered,
  and the start of the next one spins in `osSpTaskLoad` (`sptask.c:37`) in the scheduler's
  thread, above the graph and audio threads, for as long as the RSP runs. `GraphRecovers` and
  `AudioRecovers` except exactly that; both fail in `rcp_live` without the exception.
* *Abandoned frames* (`Timers = {}`). When a frame times out, its task may be answered while the RDP
  draws it (`rcp_early_done`), and the next goes to the same framebuffer. With two timeouts before
  one retrace the ring of three `CfbInfo`s comes round to the one that waits to be shown, so
  `FrameKept` has the condition too. The model lets a timer expire at any moment; in the console
  a frame has 3 s, and a retrace comes every 16 ms.
* *Cancelled yields* (`NoYieldCancelled`). A frame that has yielded to an audio task is on the
  scheduler's list while its RDP half is current. `Sched_HandleGfxCancel` takes it off, answers it
  and posts `RDP_DONE_MSG` behind what the queue holds (`sched.c:209`). If the scheduler blocks
  before it gets there, on the audio queue whose one place a timeout fills, the graph thread sends
  the next frame, in the same `OSScTask`, and a retrace queues it. The message then clears
  `OS_SC_DP` of that frame, which is answered twice: when the RSP is done with it and when the RDP
  is. So the graph thread once does not wait, and the frame after it is set up (`next` = NULL,
  `graph.c:196`) while it is linked, although `graph.c:141` says that it waits for the current task
  to complete. TLC finds this in 70 steps if both threads' timers are on and `ListsIntact` is
  stated without its condition (`Timers` = {"gfx", "aud"}, `Work` = {"unshown", "aud"},
  `MaxRate` = 1, `Retries` = 0).
* *Draws* (`MaxRepeats`). The loop that draws a code repeats while `attempts >= 50`
  (`chaos_fuckery.c:1460`), where the intent seems to be to give up. Once fifty draws in a row
  have been refused it never ends. `EffectsEnd` holds under the assumption that fewer are
  refused, and the model keeps the loop as it is.
* *Slow loads* (`overtaken`, `forgotten`). Nothing keeps a new code from overwriting the chaos slot,
  nor a room from cutting slots off, while a load into them is under way; a room's slots also begin
  where the ones before them end, so that a load for a slot that is gone may run into them. The
  message of the old load turns the sign of the slot's new id, and the slot says it is loaded before
  it is; overwritten twice, it turns the sign back and the object never comes. `LoadedIsThere`,
  `ObjectComes` and `DrawnFromItsObject` except such a slot for the rest of the scene, and no
  other. A chaos actor whose object does not come stays uninitialised; `func_800BA798` deletes an
  uninitialised actor without its destroy function, and `gChaosContext.actors` keeps a pointer that
  `Chaos_UpdateChaos` follows until a room empties the list. `NoDangling` excepts that time. If the
  room that cut the slot off has nothing for it the slot's id is 0, and the message sets bit 0 of
  `gLoadedObjects`, of no object: the types of `ChaosActors` allow for that because their proof
  found it.
* *Pauses* (`unnoticed`). While the game is paused or frozen `Chaos_UpdateChaos` still runs, and
  actors are not updated. A draw may overwrite the slot of an actor that is on the screen, taken off
  the list but not yet deleted, and the new object may arrive before that actor's next turn, in
  which it would have died. `DrawnFromItsObject` excepts the actors of the chaos slot that no list
  protects from then to the end of the scene; listed actors are never in that place
  (`KeepsItsObject`).
* *Actors' own destroy functions.* `Chaos_KillActorAtIndex` and `Chaos_ClearActors` drop the
  entry before the actor is destroyed, so that `Chaos_DestroyFunction` does not find it and the
  actor's own function never runs.
* *Loaded objects.* A bit of `gLoadedObjects` is cleared with one slot while another may hold the
  object; a code may become active before its object is there.
* *Reset messages* (`missed`). A full queue loses the message of a reset. Also, a client that
  leaves with an old head of the list (`irqmgr.c:84`) may stay on the list or drop one that
  joined; that happens only after an NMI and costs retraces, not resets.
* *The graph thread's end* (`Orphaned`). `osDestroyThread` at the NMI (`main.c:117`) may leave
  the token or the lock with a thread that is gone.
* *Rumble.* `PadMgr_RumbleStop` leaves `rumbleTimer` at 3, so a game's next wish to rumble is
  ignored until it has wished once not to. More transmissions that fail than the pause has
  retraces leave the motor on.
* *Saves.* (a) If a cycle save is bad and its backup good, `func_801457CC` copies over the
  pointer to the buffer (`z_sram_NES.c:1559`), and the flash thread faults, at every start. A
  power cut between the two writes of `Sram_InvalidateOwlSave` gets there. The model stops in
  the state "hung". (b) A cycle save and its backup share a sector: a cut while it is written
  loses both, and an owl or crash save that survives is opened by the next file in that place.
  (c) `Sram_CopySave` sets the owl flag of the copy from the cycle save (`z_sram_NES.c:1903`). A
  copied owl save may then open wrongly. Also, a power cut in `Sram_SaveChaosConfig` may tear a
  cycle save whose owl save stays good. Another file copied to that place clears the flag, and
  at the next start the owl save appears with the copied file. (d) A crash before the first clock
  town leaves the crash save in front of newer ones. `OpensLatest`, `LoadsWhole` and `InfoTrue`
  except the settings in which (c) and (d) happen, and say so. (e) Where there is an owl or crash save,
  `Sram_SaveChaosConfig` sums the backup's checksum over the cycle save, whose own checksum is set by
  then (`z_sram_NES.c:2228`). The backup it writes is bad (`WrongSum`) until the next start makes it
  anew from the cycle save, and cannot stand in for it; `OpensLatest` holds because opening does
  not look at checksums. The branch for a save whose newf is bad is left out: where the flags of the
  menu are true (`InfoTrue`) there is none. (f) Nobody looks at the result of
  a write, so that one that is given up after four errors goes unnoticed (`NeverGivesUp`).


## 4. Proofs

TLAPS checks the following for every value of the constants that their assumptions admit
(`ThreadAssumption`, `IdleAssumption`, `QueueAssumption`, `SizeAssumption`, `CodesAssumption`,
`TimersAssumption`, `DefAssumption`, `TimerAssumption`, `IrqAssumption`, `PadAssumption`,
`SchedAssumption`, `RcpAssumption`, `ObjectsAssumption`, `ActorsAssumption`,
`SettingsAssumption`). TLC evaluates those
assumptions in the runs.

### Threads and queues

For any finite set of threads and their priorities, any capacity of at least 1 and any messages:

| theorem | states |
|---|---|
| `TypeCorrect` | `Spec => []TypeOK` |
| `NeverLinkedTwice` | `Spec => []OnOneList` |
| `HighestAlwaysRuns` | `Spec => []HighestRuns` |
| `WakeupsReach` | `Steady`, an assumption on the constants, and `Spec` imply `[]NoLostWakeup` |
| `RingImplementsFifo` | `Spec => ImplementsFifo` |

The inductive invariant is `MqOK` (the queue, the calls, the last message) with `ThreadInv`. The
core of that is `ThreadsOK`: every active thread that is neither stopped nor running is in exactly
the list that its queue field names, once; the lists are in priority order; threads in the run
queue are runnable and threads in a wait list waiting. It is inductive only with one more fact: the
idle thread is never in a call, so that there is always a thread to dispatch. The first half of
`MesgQueueProofs` proves what each function does to it. Within one function the threads pass
through states that satisfy less, and those have names: `NoneRuns` (no thread has the processor),
`Between` (one thread is on its way from one list to another) and `LinkedOK` (all but that the head
of the run queue may have a higher priority than the running thread).

`WakeupsReach` needs more. That a message and a waiting receiver never rest together depends on how
many wakeups are on their way. `WakeInv` counts them: while a receiver waits, at least as many
receivers are on their way to the processor (`Going`) as there are messages, and while a sender
waits, as many senders as there are free places. `WaitInv` says that a thread in a wait list has a
pending call of the list's kind. The sets are counted with the library's theorems on finite sets.
`Steady` excludes what would lose a wakeup: stopping or destroying a thread, and a peek that
blocks.

For the refinement, the contents of the ring are the sequence `Ring(first, validCount, msg)`;
three lemmas say that storing at the end appends to it, storing before the start prepends, and
taking removes the head, each across the wraparound (`RingPut`, `RingPutFront`, `RingTake`).
Nothing of the thread system is needed: it decides who takes a step, never what the step does to
the ring.

### Timers

`OSTimerProofs` proves for every number of timers, width of the counter and delay within `Gap`:

| theorem | states |
|---|---|
| `NeverEarlyHolds`, `AlwaysArmedHolds` | `Spec => []NeverEarly`, `Spec => []AlwaysArmed` |
| `OthersStayHolds` | `Spec => OthersStay` |

All three are about sums. The i-th timer is due when `Sum(value, i)` cycles have passed since
`timerCounter`, and an operation changes the cycles of one timer or two, not the sums: after
`__osInsertTimer`, the unlinking in `osStopTimer`, an expiry or the correction of the first timer,
the sum of every timer that stays is the old one less a constant `c` (`Come`; `InsertSums`,
`UnlinkSums`, `TailSums`, `FirstLess`). `AllMoved` then compares `c` with the time that passed:
less makes no timer early, and what it lacks of that time is what the timer is put off by. The
counter says how many cycles passed in the step (`CyclesAre`), and whether it was read in it, the
case of no cycle since the last reading apart (`DelayIs`); with them `OthersStay` bounds what is
lost by one gap and by what the first timer is overdue.

That the difference of two readings is the time between them is the other half. The inductive
invariant is `NeverEarly` with

* `SpanInv`: every sum is less than a round of the counter, and the first timer has a cycle left
  or more, or the thread would sleep for a round;
* `ArmedInv`: unless the interrupt is pending, the counter meets `compare` within the first
  timer's cycles, or the least it is set ahead, counted from `timerCounter`;
* `TimelyInv`: no more than that has passed since `timerCounter`.

`TimelyInv` needs `ArmedInv`, for time passes only while the interrupt is not pending, and keeps
the counter from going around unnoticed (`NoWrap`), on which every other step rests. When a timer
is stopped `compare` stays where it was although the first timer may now be another: `UnlinkFirst`
shows that it can only be a later one. The sums are a recursive function, over which `Lists.NatInduct`
makes the inductions (`SumNat`, `SumShift`).

### Chaos effects

For any set of codes, up to 255 slots, and any durations:

* `Typed`: `Spec => []TypeOK`, in particular that no timer wraps below 0;
* `ListStaysIntact`: `Spec => []ListIntact`;
* `ClashesNeverMeet`: `Spec => []NoClash`;
* `ListImplementsEffects`: `Spec => ImplementsEffects`.

The inductive invariant `IInv` is the types, `ListIntact` and `SecondsCounted`. The type of the
list is not inductive alone: without `ListIntact`, the slot that a deactivation empties need not
be the one whose index it clears, and the number of active codes could differ from the number
of indices. `SecondsCounted` says that the whole seconds taken off the clocks at the end of an
update are in them, without which the clocks' types would not be inductive. Three lemmas carry
the rest: `Deactivation` (a deactivation loses one code, keeps all other timers, and moves at
most the last), `Activation` and `NewTimer`.

The refinement maps each code to the seconds it has left, `Shown`. The code takes the elapsed
time off one slot after the other and removes codes as it goes; the abstract specification lets
time pass for all at once. So within the loop, a code not yet visited is shown with the time it
will have. `Clock`, the step into the loop, is then the abstract `Tick`, and every step of the
loop is a stutter, the one that removes a code and moves another included
(`ClockImplements`, `CodeTimerImplements`). The proof that a code which moves into the freed
slot is neither skipped nor charged twice is that last lemma.

### Object slots and chaos actors

`ChaosActorsProofs` proves for any objects, of which any may be empty, any number of slots and any
ring of requests, any rooms whose objects the slots have room for, any finite set of actors and any
list of chaos actors:

| theorem | states |
|---|---|
| `ObjectTypesAreCorrect`, `LoadsAreInOrder` | `Spec => []TypeOK`, `Spec => []RequestsInOrder` |
| `LoadedObjectsAreThere` | `Spec => []LoadedIsThere` |
| `NoActorDangles` | `Spec => []NoDangling` |
| `ActorsKeepTheirObject` | `Spec => []KeepsItsObject` |
| `ActorsAreDrawnFromTheirObject` | `Spec => []DrawnFromItsObject` |

None has a condition on the constants, and the specification lets loads take as long as they like.
What the second, third and last except is part of the properties, and a state of the behaviour: a
slot that is `overtaken`, a list since an actor was `forgotten`, actors that no list protects once one
was `unnoticed`.

The first two are one invariant. `Object_UpdateEntries` takes the oldest requests off the ring and
puts new ones on it, in the order of the slots. What that does to the requests is stated for the
ring as it turns (`RingTurns`, `RingUpdate`, `RequestsUpdate`, `DmaUpdate`): the requests that stay
move up by as many as are finished, and the k-th new one has the slot of rank k among those that
were served. A slot's rank is the number of those before it; that there is one slot of each rank
(`NthIs`) is a fact about finite sets of numbers, used again where a room hands out its slots. With
the requests known, `UpdateKeepsOrder` and `DmaKeepsOrder` compare two loads at a time.

The others rest on one another:

* `SlotInv`, for slots that are not overtaken: one with a request has been cleared, or its id is
  negative, it says `load_pending`, and its memory has the object once the message is there; no
  two requests have the same slot; a load is of the object its slot is for. `SlotMoves` derives from
  it that the id of such a slot turns its sign once and only when it should. A slot leaves the
  invariant in the step that gives it another object with a load in flight (`EffectKeepsSlots`,
  `RoomKeepsSlots`), and comes back to it with the next scene, which waits for the DMA manager
  (`FreshKeepsSlots`). `StrayFrom` is there for the rooms: a cleared slot
  with a load in flight lies where a new one may begin.
* `FirstInv`: before the first room nothing is in flight, so that this room may take any slot.
  `KeepInv`: the slot of the effects is for the object they asked for last, which is not empty, so
  that no update of the slots gives it up, overtaken or not.
* `ListInv`, for the list of chaos actors, unless one was forgotten: no actor is listed twice, and a
  listed actor is there, was made for an effect and has its destroy function left. When a room is
  left, an actor that is initialised is taken out by that function (`FinishKeepsList`,
  `AfterDestroyIs`); one that is not is the case in which `forgotten` is set.
* `KeptInv`: a listed actor in the slot of the effects was made for the object they asked for last.
  With `KeepInv` it is `KeepsItsObject`. It needs nothing of the loads: a draw overwrites the slot
  only when the list is empty.
* `ActorInv`, for all actors over the parts of the frame (`Fits`), in slots that are not overtaken.
  An actor that is listed, or whose slot is not that of the effects, is `Sound`: if it is
  initialised the slot's object is its own and loaded, and if not it is its own or the slot was
  cleared. An actor in the slot of the effects that is no longer listed may see the slot given away
  (`Passing`): only between the draw that overwrote it and its own next turn, in which it dies,
  and before that turn no load is issued for the slot. A frame that leaves the turn out is what
  breaks that, and sets `unnoticed` if anything was to be seen. So at the end of a frame whoever is
  drawn has its object, and `StepKeepsDrawn` shows that no load comes before the next.

`AfterDestroy` is a fold over a set, in an order that nothing fixes; `AfterDestroyIs` shows that the
order does not matter as long as no actor is listed twice. All parts were invariants of a TLC run
before they were proved.

### Controllers

For any number of clients, queue sizes, rumble and pause times, and settings:

* `TokenGuardsSerial`: `Spec => []SerialForHolder`. `LineInv` relates the token to where its two
  users are: it is with the padmgr thread exactly in the parts of the retrace handler that wait
  for an interrupt, and with the graph thread while that listens, or was destroyed listening.
  With the token free, the line is quiet.
* `NoPressIsLost`: `Spec => PressesAreSeen`. `PollInv` says who holds the lock, and that what the
  graph thread copied is still what it will clear.
* `PauseStopsMotor`: `Spec => []MotorStops`, if fewer transmissions fail than a pause has
  retraces. The invariant `MotorInv` is a race of two counters: while the motor still runs, the
  retraces of the pause gone by are at most the transmissions that have failed, plus one within
  the handler of a retrace before its stop is answered (`Behind`). A retrace gets no stop through
  only if its stop failed, or if its query failed and the controller passes for gone. At the end
  of the pause the counters contradict the assumption.
* `ResetIsHeard`: `Spec => []HearsOfReset`. A reset is sent to those whom the manager meets on its
  way along the links, so that the invariant has to say who these are. `WholeInv`: until the NMI
  nobody leaves, and the list is that of the clients that have joined, all of them. `ToldInv`: of
  those, who has looked at `resetStatus` since the PreNMI, or had joined before it, was told, and
  the same for the NMI. After the NMI clients leave, perhaps with an old head in hand, and the
  list may break; nothing but retraces is sent then, and `ToldInv` needs no list. The walk `From`
  is recursive in its depth. `FromIs` shows by induction with `Lists.NatInduct` that on a list
  without repetition (`Linked`: the sequence whose links they are) it meets exactly its elements.

### The scheduler

`RcpSystemProofs` proves for every maximal retrace rate, number of retries and set of settings that
`RcpAssumption` and `SchedAssumption` admit:

| theorem | states |
|---|---|
| `TypeCorrect` | `Spec => []TypeOK` |
| `OneAnswerHolds`, `DoneInTimeHolds` | `Spec => []OneAnswer`, `Spec => []DoneInTime` |
| `FlushDrainsHolds`, `NoTearHolds` | `Spec => []FlushDrains`, `Spec => []NoTear` |
| `FrameKeptHolds` | `Spec => FrameKept` |
| `ListsIntactHolds` | `Spec => []ListsIntact` |

All between the first and the last speak of a system in which no timer expires, which
`Timers = {}` says in the properties themselves. With timeouts, tasks are answered that still run
(`rcp_early_done`), and most of what `IInv` says of bits and processors is no longer so.

The inductive invariant `IInv` has eight parts, and none is inductive without the others:

* `PlaceInv`: each task is in at most one place, which is the command queue, a list, the RSP and
  perhaps the RDP, or the answer the scheduler is about to send.
* `ReplyInv`: what was sent and not got back (`AwaitedBy`) is in such a place, or its answer is in
  the sender's queue. This is `OneAnswer` stated without counting, one task at a time.
* `StateInv`: what the bits of `OSScTask.state` say of the place. The handlers decide by these
  bits alone whether a task is done, so that `PlaceInv` rests on it: a task on the RSP has
  `OS_SC_SP`, one that is to be answered neither bit, and `OS_SC_YIELDED` means that the task is
  on its list again or being loaded.
* `HardwareInv`: the processors work on what the scheduler believes, or their message is in the
  queue, once. That is why a completion is never handled for a task that is not there.
* `FlushInv`: a null task is the last of its list, and what comes after it in the command queue is
  audio. The comment of `Sched_FlushTaskQueue` is true because of that and because the graph
  thread sends nothing until it is answered.
* `FrameInv`: which of the two framebuffers belongs to the last frame that was finished
  (`LastFb`), which is shown, and where the frame in flight is drawn. Retrace and completion can
  come in either order; the three `CfbInfo`s go round by one with every frame.
* `CalmInv` (nothing is cancelled) and `ThreadInv` (where the graph and audio threads are).

`ListsIntact` is about timers that do expire, and has an invariant of its own, `ListInv`, which
speaks of the lists and of who may write a task, and not of what the processors do. Its condition
`NoYieldCancelled` says that graphics tasks are not cancelled, or that there is no audio for them
to yield to; section 3 has what happens otherwise. Its parts are

* `PlaceInv` as above; a task that is taken for done too early is in no place at all any more;
* `BitsInv`: what is left of `StateInv`. A task on a list or on the RSP has `OS_SC_SP`, the RDP's
  has `OS_SC_DP`, and a graphics task on its list that has not yielded is not the RDP's;
* `NoYields`: without audio no task is ever asked to yield;
* `OwnInv`: a task that its sender may write (`Free`: not sent, or answered) is not held by the
  scheduler, no further answer to it is on the way, and no queue has two. That a task is answered
  twice is what would break it;
* `CancelInv` and `PathInv`: only a thread whose timer may expire has a task cancelled, and where
  the graph thread is when its timer's message comes. The draining of the queue before a
  task is sent (`GraphDrain`) is why a timeout that comes late does not cancel the next frame.

`ListInv` was an invariant of TLC runs in several settings before it was proved, with one lemma
per handler as for `IInv`. An earlier version of `ListsIntact` had no condition; the step of
`Sched_HandleGfxCancel` would not go through for a task that has yielded, and TLC found that
behaviour.

The parts are operators on a state given by parameters. `Sched_HandleRSPDone`, `Sched_TaskComplete`
and `Sched_Schedule` are called one from another, and the states between those calls are no
states of the system; with the parameters the lemma about each function speaks of the state in
which it is called and the one it leaves (`QueueKeeps`, `ScheduleKeeps`, `CompleteKeeps`,
`YieldedKeeps`, `RSPDoneKeeps`, `RDPDoneKeeps`). `Places`, `Received` and the other lemmas of that
kind say what a handler finds. `IInv` was an invariant of a TLC run before it was proved.

`Sched_QueueTask` is a loop over the command queue. What it keeps (`ThoseKeeps`) needs induction on
the queue's length. The library's induction theorems take an operator; `Lists.NatInduct` takes a
set instead, of the numbers for which a property holds, and is proved from the well-foundedness of
the inclusion of finite sets. `Lists` also has the facts about elements of queues.

### Saves

`SaveFilesProofs` proves for any number of saves, erasures, copies, starts and power cuts:

| theorem | states | if |
|---|---|---|
| `InfoIsAlwaysTrue` | `Spec => []InfoTrue` | `NeverGivesUp` |
| `CopiesAlwaysAgree` | `Spec => []CopiesAgree` | `NeverGivesUp` |
| `OwlIsAlwaysSpent` | `Spec => []OwlIsSpent` | |
| `LoadsAlwaysWhole`, `AlwaysOpensLatest` | `Spec => LoadsWhole`, `Spec => OpensLatest` | `NeverGivesUp` |
| `RetriesAlwaysSuffice`, `OwlAlwaysKeepsTheRest` | `Spec => RetriesSuffice`, `Spec => OwlKeepsTheRest` | |
| `TypesAlwaysCorrect` | `Spec => []TypeOK` | |

`NeverGivesUp` says that the device does not err four times during one write, however often it
errs. After four the code gives the write up, and since nobody looks at its result the game goes
on as if it had been made. TLC finds each of these four violated in a setting of four errors.
`OwlIsSpent` holds even so: a write that is given up leaves its first unit written or torn
(`WillOrTorn`), and an owl save that was to be invalidated is not good in either case.

Between two steps of the game the flash thread makes several of its own, and what is in the flash
is then neither the old nor the new save. The proofs therefore speak of `Will(p, k)`, what the
k-th unit of the sector at p holds when nothing is left to be written: the unit of the request
that is still to be made, if there is one, or what the flash has. The flash thread changes nothing
about it, however often it fails and starts again (`WillFlash`), unless it gives up. Only the game
changes it, at once, by what it asks for, which `Sent` and `Leaves` describe for each operation. A
power cut is the one step that makes the two differ: what was still to be written keeps its old
content, or is torn.

The invariants are then about the saves as they will be:

* `Sound`: types, and how far the flash thread is with its request.
* `KindInv`: which kinds of save lie in which sectors (`CellsInv`: only owl and crash saves have
  the checksum of a whole context, and none of them is in a sector of cycle saves) and that
  saves of one stamp are of one kind (`StampInv`), so that a game made from a cycle or crash save
  cannot have the stamp of an owl save that is left.
* `BackupInv` for `CopiesAgree`: while the start checks, the files already looked at agree with
  their backups or are gone with them. A cut restarts the checks, so it claims nothing then.
* `SpentInv` for `OwlIsSpent`: neither copy of the owl save of the file that is played has the
  stamp of the game, unless it is a crash save.
* `TablesInv`, which joins `InfoInv` (the flags) and `LatestInv` (what a file should open with) and
  must: that a copied cycle save has no owl save in front of it at its new place is only known
  because the place is empty in `latest` too, and that `latest` is what opens because of the flags.

The proof of `InfoTrue` corrected it. It had said that the flags show every good owl save unless
owl saves are copied; the step of `CopySave` would not go through with a cycle save torn by a cut.
That is the second case of (c) above. A run with a power cut and copies reaches it, and belongs
to `save_files` since.

### Only model-checked

The liveness properties, which are out of the prover's reach: `MesgsFlow`, `TasksAnswered`,
`GraphRecovers`, `AudioRecovers` (these two with the exception of `Spins`), `EffectsEnd`, `ObjectComes`
and `PadReturns`. Every other property
of a passing run is stated by a theorem.


## 5. Plan

Done: kernel, timers, scheduler, interrupt and controller managers, the chaos effects and their
actors, the save files; the proofs of section 4. What is left, in the order in which it would add
most:

1. `ChaosGames`: the snake game with the health capacity and the save it touches.
2. The enabled list of chaos codes and its distribution; the arenas; the cutscene queue; the audio
   command queue.
3. What the scheduler promises when timers expire beyond `ListsIntact`: how often a frame can be
   answered too early, and that the threads get back in step.


## 6. Not modelled

Nearly all of the repository's lines are actors, overlays, collision, rendering and generated
data: sequential game content without a protocol among them. The share of lines that the models
cover is small for that reason, not because parts of what they model are missing.

Audio synthesis is numeric; only the task it hands to the scheduler matters here. The fault
handler runs once, after the end. VI and video configuration are register values. DMA is one
request after another in one thread, whose clients wait on a queue that `MesgQueue` covers;
`ObjectSlots` has its order. The managers' models do not contain `OSTimer`: they let a timer
expire at any moment while it is set. Play state and rooms are modelled as far as object
slots and chaos actors depend on them; `Actor_KillAllOnHalfDayChange` is modelled where a room's
actors spawn, and not where the actor that keeps the time (`z_en_test4.c`) makes them spawn anew
at a new half day. The pause menu's and the game-over screen's prompts to
save are not reachable in this version of the game. A crash while a write of a save is under way
creates the flash thread a second time while it runs; that, and a fault in
`PadMgr_UpdateInputs` under the lock for which the fault handler then waits (`fault.c:861`),
belong to the fault handler. Assets, tools and build files are no part of the running program.
PROJECT.json lists each part with its reason.
