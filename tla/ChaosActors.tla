---------------------------- MODULE ChaosActors ----------------------------
(***************************************************************************)
(* Chaos effects that spawn actors, over the object slots: the one-place   *)
(* queue of an effect whose object is being loaded, the list of spawned    *)
(* actors, rooms that come and go and the update of all actors             *)
(* (chaos_fuckery.c, z_scene.c, z_room.c, z_actor.c, z_play.c).            *)
(*                                                                         *)
(* A step is a part of one frame of Play_UpdateMain; the DMA manager, whose *)
(* thread has the higher priority, works at any time in between.           *)
(***************************************************************************)
EXTENDS ObjectSlots

CONSTANTS
    Codes,       \* the effects that spawn actors
    CodeObject,  \* the object of each: gSpawnActorCodeDefs, or a persistent one
    Chicken,     \* CHICKEN_ARISE, which spawns as long as it is active
    NoCode,
    Actors,      \* memory for actors
    MAX_SPAWNED_ACTORS,  \* 48 in the code
    RoomList,    \* the object list of each room
    MaxMoves     \* bound: how often the room or the scene changes

Spawners == {c \in Codes : CodeObject[c] \notin ToSet(Persistent)}
Rooms == DOMAIN RoomList

ASSUME ActorsAssumption ==
    /\ CodeObject \in [Codes -> Objects \ Sizeless] /\ Chicken \in Spawners /\ NoCode \notin Codes
    /\ MAX_SPAWNED_ACTORS \in Nat /\ Actors \subseteq Nat /\ IsFiniteSet(Actors)
    /\ 0 \in Rooms /\ Rooms \subseteq Nat /\ \A r \in Rooms :
          RoomList[r] \in Seq(Objects) /\ NumPersistent + Len(RoomList[r]) <= MaxSlots
    /\ MaxMoves \in Nat

VARIABLES
    phase,                    \* the part of the frame that comes next
    turn,                     \* the actors Actor_UpdateAll has yet to update
    active,                   \* the codes of Codes in the active list
    queued_spawn_actor_code,
    loaded_object_id,
    spawned,                  \* gChaosContext.actors.slots
    actors,
    roomCtx,
    moves,
    forgotten,   \* history: a listed actor was deleted without its destroy function since
                 \* the list was last emptied
    unnoticed    \* history: in this scene actors were left without a look at their object

chaosVars == <<active, queued_spawn_actor_code, loaded_object_id>>
historyVars == <<forgotten, unnoticed>>
vars == <<objectVars, phase, turn, chaosVars, spawned, actors, roomCtx, moves, historyVars>>

NoActor == [st |-> "none", inited |-> FALSE, object |-> 0, slot |-> 0, room |-> 0,
            chaos |-> FALSE, destroy |-> FALSE, isDrawn |-> FALSE]

TypeOK ==
    /\ ObjectTypeOK
    /\ phase \in {"play", "entries", "room", "first", "actors", "chaos"}
    /\ turn \subseteq Actors
    /\ active \subseteq Codes
    /\ queued_spawn_actor_code \in Spawners \cup {NoCode}
    /\ loaded_object_id \in {CodeObject[c] : c \in Spawners} \cup {0}
    /\ spawned \in BoundedSeq(Actors, MAX_SPAWNED_ACTORS)
    /\ actors \in [Actors -> [st : {"none", "live", "dead"}, inited : BOOLEAN, object : Objects \cup {0},
                              slot : Slots, room : Rooms, chaos : BOOLEAN,
                              destroy : BOOLEAN, isDrawn : BOOLEAN]]
    /\ roomCtx \in [cur : Rooms, prev : Rooms \cup {-1}, status : {0, 1}, setup : BOOLEAN]
    /\ moves \in 0 .. MaxMoves
    /\ forgotten \in BOOLEAN /\ unnoticed \in BOOLEAN

FirstRoom == [cur |-> 0, prev |-> -1, status |-> 1, setup |-> FALSE]

Init ==
    /\ ObjectInit
    /\ phase = "first" /\ turn = {}
    /\ active = {} /\ queued_spawn_actor_code = NoCode /\ loaded_object_id = 0
    /\ spawned = <<>>
    /\ actors = [a \in Actors |-> NoActor]
    /\ roomCtx = FirstRoom
    /\ moves = 0
    /\ forgotten = FALSE /\ unnoticed = FALSE

-----------------------------------------------------------------------------
(* Actors.                                                                 *)

\* No actor's profile has ACTOR_FLAG_CHAOS, so Actor_SpawnAsChildAndCutscene never takes
\* the branch for it.
ObjectSlot(o) == GetSlot(o)

\* The actor that Actor_Spawn makes.  It may also fail: no memory, too many actors, a
\* room cleared of enemies.
NewActor(o, room, chaos) ==
    [st |-> "live", inited |-> IsLoaded(ObjectSlot(o)), object |-> o, slot |-> ObjectSlot(o),
     room |-> room, chaos |-> chaos, destroy |-> TRUE, isDrawn |-> FALSE]
Free(as) == {a \in Actors : as[a] = NoActor}
FreeActor(as) == CHOOSE a \in Free(as) : TRUE
CanSpawn(o, as) == ObjectSlot(o) # MaxSlots /\ Free(as) # {}

\* A mutant: the last is lost.
DropActorAtIndexOnly(list, i) == SubSeq(list, 1, Len(list) - 1)

\* Chaos_DropActorAtIndex: the last takes the place of the one dropped.
DropActorAtIndex(list, i) ==
    [k \in 1 .. Len(list) - 1 |-> IF k = i THEN list[Len(list)] ELSE list[k]]

\* Chaos_DestroyFunction.
DropActor(list, a) ==
    IF a \in ToSet(list) THEN DropActorAtIndex(list, CHOOSE i \in DOMAIN list : list[i] = a)
    ELSE list

\* Actor_Destroy of each of a set of actors: the function is called once, and only if the
\* actor was initialised.
WillDestroy(a) == actors[a].inited /\ actors[a].destroy
AfterDestroy(S) ==
    FoldSet(LAMBDA a, list : IF WillDestroy(a) /\ actors[a].chaos THEN DropActor(list, a) ELSE list,
            spawned, S)
Destroyed(a) == [actors[a] EXCEPT !.st = "dead", !.destroy = actors[a].destroy /\ ~actors[a].inited]

\* Chaos_SpawnActor and Chaos_SpawnAsChild.  The parent of a chicken is a dummy whose room
\* stays 0.
SpawnActor(c) ==
    \/ /\ Len(spawned) < MAX_SPAWNED_ACTORS /\ CanSpawn(CodeObject[c], actors)
       /\ spawned' = Append(spawned, FreeActor(actors))
       /\ actors' = [actors EXCEPT ![FreeActor(actors)] =
                        NewActor(CodeObject[c], IF c = Chicken THEN 0 ELSE roomCtx.cur, TRUE)]
    \/ UNCHANGED <<spawned, actors>>

-----------------------------------------------------------------------------
(* The frame.                                                              *)

\* With the game advanced frame by frame, paused or frozen, or all actors halted, the rest of
\* the frame up to Chaos_UpdateChaos is left out.  Actors that wait for an object, or whose
\* object's slot waits for another one, do not find out in such a frame.
Before(part) == {part, "chaos"}
Awaited == slots[ChaosSlot].id < 0 \/ \E a \in Actors : actors[a].st # "none" /\ ~actors[a].inited
LeftOut(part) ==
    /\ phase' \in Before(part)
    /\ unnoticed' = (unnoticed \/ (phase' = "chaos" /\ Awaited'))
    /\ UNCHANGED forgotten

\* Play_UpdateMain spawns for an active code; it may be held back by a situation.
PerformCode ==
    /\ phase = "play"
    /\ \E c \in active \ {Chicken} :
          /\ SpawnActor(c)
          /\ active' = active \ {c}
    /\ UNCHANGED <<objectVars, phase, turn, queued_spawn_actor_code, loaded_object_id, roomCtx,
                   moves, historyVars>>

\* The chickens come last.
PerformChicken ==
    /\ phase = "play"
    /\ IF Chicken \in active THEN SpawnActor(Chicken) ELSE UNCHANGED <<spawned, actors>>
    /\ UNCHANGED <<objectVars, turn, chaosVars, roomCtx, moves>>
    /\ LeftOut("entries")

UpdateObjects ==
    /\ phase = "entries"
    /\ UpdateEntries
    /\ UNCHANGED <<turn, chaosVars, spawned, actors, roomCtx, moves>>
    /\ LeftOut("room")

RoomIsThere == roomCtx.status = 1 /\ \A k \in DOMAIN dma : dma[k].request # Room

\* Room_ProcessRoomRequest once the room is there: Scene_ExecuteCommands with the object
\* list and Actor_KillAllWithMissingObject.
ProcessRoom(kept) ==
    /\ SceneCommandObjectList(RoomList[roomCtx.cur], loaded_object_id, kept)
    /\ spawned' = <<>>
    /\ actors' =
         IF NumPersistent + kept = numEntries THEN actors
         ELSE [a \in Actors |->
                  IF actors[a].st = "live" /\ (~IsLoaded(actors[a].slot) \/ actors[a].slot >= NumPersistent + kept)
                  THEN [actors[a] EXCEPT !.st = "dead"] ELSE actors[a]]
    /\ roomCtx' = [roomCtx EXCEPT !.status = 0, !.setup = TRUE]
    /\ UNCHANGED dma

ProcessRoomRequest ==
    /\ phase = "room"
    /\ IF RoomIsThere
       THEN /\ \E kept \in KeptSlots(RoomList[roomCtx.cur]) : ProcessRoom(kept)
            /\ forgotten' = FALSE
       ELSE UNCHANGED <<objectVars, spawned, actors, roomCtx, forgotten>>
    /\ phase' \in Before("actors")
    /\ unnoticed' = (unnoticed \/ (phase' = "chaos" /\ Awaited'))
    /\ turn' = IF phase' = "actors" THEN Actors ELSE {}
    /\ UNCHANGED <<chaosVars, moves>>

\* Play_Init: the first room is loaded before the first frame.
ProcessFirstRoom ==
    /\ phase = "first"
    /\ \E kept \in KeptSlots(RoomList[roomCtx.cur]) : ProcessRoom(kept)
    /\ phase' = "play"
    /\ forgotten' = FALSE
    /\ UNCHANGED <<turn, chaosVars, moves, unnoticed>>

\* Actor_KillAllOnHalfDayChange for the actors whose half day is over: they are deleted, or
\* killed and destroyed if they were drawn.  Chaos actors are spawned for all half days.
AfterHalfDay(over) ==
    [a \in Actors |-> IF a \notin over THEN actors[a]
                      ELSE IF actors[a].isDrawn THEN Destroyed(a) ELSE NoActor]

\* Actor_SpawnSetupActors: an actor of the room, if it has any.
SpawnSetupActors ==
    /\ phase = "actors" /\ turn = Actors /\ roomCtx.setup
    /\ roomCtx' = [roomCtx EXCEPT !.setup = FALSE]
    /\ \E over \in SUBSET {a \in Actors : actors[a].st # "none" /\ ~actors[a].chaos} :
          LET left == AfterHalfDay(over) IN
          \/ actors' = left
          \/ \E o \in ToSet(RoomList[roomCtx.cur]) :
                /\ CanSpawn(o, left)
                /\ actors' = [left EXCEPT ![FreeActor(left)] = NewActor(o, roomCtx.cur, FALSE)]
    /\ UNCHANGED <<objectVars, phase, turn, chaosVars, spawned, moves, historyVars>>

\* Actor_UpdateActor.  The lists' order is abstract: actors are updated in the order of
\* their ids.
UpdateActor ==
    /\ phase = "actors" /\ turn # {} /\ ~(turn = Actors /\ roomCtx.setup)
    /\ LET a == Min(turn)  x == actors[a] IN
          /\ turn' = turn \ {a}
          /\ \/ /\ x.st # "none" /\ ~x.inited
                /\ actors' = [actors EXCEPT ![a].inited = IsLoaded(x.slot)]
                /\ UNCHANGED spawned
             \/ /\ x.st = "dead" /\ x.inited
                /\ spawned' = AfterDestroy({a})
                /\ actors' = [actors EXCEPT ![a] = IF x.isDrawn THEN Destroyed(a) ELSE NoActor]
             \/ /\ x.st = "live" /\ x.inited
                /\ \E dies \in BOOLEAN :   \* what its update decides
                      actors' = [actors EXCEPT ![a].st =
                                    IF dies \/ ~IsLoaded(x.slot) THEN "dead" ELSE "live"]
                /\ UNCHANGED spawned
             \/ x.st = "none" /\ UNCHANGED <<actors, spawned>>
    /\ UNCHANGED <<objectVars, phase, chaosVars, roomCtx, moves, historyVars>>

\* Room_RequestNewRoom, called by a door, a loading plane or the player.
RequestNewRoom ==
    /\ phase = "actors" /\ turn = {}
    /\ roomCtx.status = 0 /\ roomCtx.prev < 0 /\ moves < MaxMoves
    /\ moves' = moves + 1
    /\ \E r \in Rooms \ {roomCtx.cur} :
          roomCtx' = [roomCtx EXCEPT !.prev = roomCtx.cur, !.cur = r, !.status = 1]
    /\ dma' = Append(dma, [request |-> Room, slot |-> 0, id |-> 0])
    /\ phase' = "chaos"
    /\ UNCHANGED <<slots, numEntries, load_requests, next_available_request,
                   pending_request_count, gLoadedObjects, mem, overtaken, turn, chaosVars, spawned,
                   actors, historyVars>>

\* Room_FinishRoomChange by whoever turned back or went through: the actors of the other
\* room are deleted, or killed if they were drawn.
FinishRoomChange ==
    /\ phase = "actors" /\ turn = {}
    /\ roomCtx.status = 0 /\ roomCtx.prev >= 0
    /\ \E stays \in {roomCtx.cur, roomCtx.prev} :
          LET left == {a \in Actors : actors[a].st # "none" /\ actors[a].room # stays} IN
          /\ roomCtx' = [roomCtx EXCEPT !.cur = stays, !.prev = -1]
          /\ spawned' = AfterDestroy(left)
          /\ actors' = [a \in Actors |->
                          IF a \notin left THEN actors[a]
                          ELSE IF actors[a].isDrawn THEN Destroyed(a) ELSE NoActor]
          /\ forgotten' = (forgotten \/ \E a \in left : ~actors[a].inited /\ a \in ToSet(spawned))
    /\ phase' = "chaos"
    /\ UNCHANGED <<objectVars, turn, chaosVars, moves, unnoticed>>

DoorsStayShut ==
    /\ phase = "actors" /\ turn = {}
    /\ phase' = "chaos"
    /\ UNCHANGED <<objectVars, turn, chaosVars, spawned, actors, roomCtx, moves, historyVars>>

-----------------------------------------------------------------------------
(* Chaos_UpdateChaos and the drawing of the frame.                         *)

\* An actor that was out of view for too long: Chaos_KillActorAtIndex.
KillActorAtIndex ==
    /\ phase = "chaos"
    /\ \E i \in DOMAIN spawned :
          /\ actors' = [actors EXCEPT ![spawned[i]].st = "dead"]
          /\ spawned' = DropActorAtIndex(spawned, i)
    /\ UNCHANGED <<objectVars, phase, turn, chaosVars, roomCtx, moves, historyVars>>

\* A code runs out of time.
DropCode ==
    /\ phase = "chaos"
    /\ \E c \in active : active' = active \ {c}
    /\ UNCHANGED <<objectVars, phase, turn, queued_spawn_actor_code, loaded_object_id,
                   spawned, actors, roomCtx, moves, historyVars>>

\* A mutant: actors that live on after their code are not looked for.
ObjectInUseByCode == Chicken \in active

ObjectInUse == Chicken \in active \/ spawned # <<>>

\* What is drawn for activation: the queued code once its object is there, or any.
QueueReady == queued_spawn_actor_code # NoCode /\ IsLoaded(ChaosSlot)
Draws == IF QueueReady THEN {queued_spawn_actor_code} ELSE Codes

DrawFrame ==
    /\ phase' = "play"
    /\ \E seen \in BOOLEAN :
          actors' = [a \in Actors |->
                       IF actors[a].st = "none" THEN NoActor
                       ELSE [actors[a] EXCEPT !.isDrawn = seen /\ actors[a].st = "live" /\ actors[a].inited]]
    /\ UNCHANGED <<turn, spawned, roomCtx, moves, forgotten>>

\* A draw that activates c, or finds no slot, or is refused for other reasons.
ActivateCode(c) ==
    /\ c \in Spawners => loaded_object_id = CodeObject[c]
    /\ active' \in {active, active \cup {c}}
    /\ queued_spawn_actor_code' = IF QueueReady THEN NoCode ELSE queued_spawn_actor_code
    /\ UNCHANGED <<objectVars, loaded_object_id, unnoticed>>

\* A draw that has its object loaded first, unless the one that is loaded is in use.
RequestObject(c) ==
    /\ c \in Spawners /\ loaded_object_id # CodeObject[c]
    /\ IF ObjectInUse
       THEN /\ UNCHANGED <<objectVars, active, loaded_object_id, unnoticed>>
            /\ queued_spawn_actor_code' = IF QueueReady THEN NoCode ELSE queued_spawn_actor_code
       ELSE /\ RequestOverwrite(ChaosSlot, CodeObject[c])
            /\ loaded_object_id' = CodeObject[c]
            /\ queued_spawn_actor_code' = c
            /\ unnoticed' = (unnoticed \/ slots[ChaosSlot].id < 0)
            /\ UNCHANGED active

UpdateChaos ==
    /\ phase = "chaos"
    /\ \/ \E c \in Draws : ActivateCode(c) \/ RequestObject(c)
       \/ UNCHANGED <<objectVars, chaosVars, unnoticed>>
    /\ DrawFrame

\* Play_Destroy and Play_Init: all actors are deleted, and the slots made anew with the
\* object of the chaos effects asked for again.
NewScene ==
    /\ phase = "play" /\ moves < MaxMoves
    /\ moves' = moves + 1
    /\ InitContext(loaded_object_id)
    /\ actors' = [a \in Actors |-> NoActor]
    /\ spawned' = AfterDestroy({a \in Actors : actors[a].st # "none"})
    /\ roomCtx' = FirstRoom
    /\ phase' = "first"
    /\ unnoticed' = FALSE
    /\ UNCHANGED <<turn, chaosVars, forgotten>>

\* The DMA manager works at any time, but only these parts of the frame can tell when:
\* the others neither read its messages nor the memory it fills.
Dma ==
    /\ phase \in {"first", "play", "entries", "room"}
    /\ DmaDone
    /\ UNCHANGED <<phase, turn, chaosVars, spawned, actors, roomCtx, moves, historyVars>>

Frame ==
    \/ PerformCode \/ PerformChicken \/ UpdateObjects \/ ProcessRoomRequest \/ ProcessFirstRoom
    \/ SpawnSetupActors \/ UpdateActor \/ RequestNewRoom \/ FinishRoomChange \/ DoorsStayShut
    \/ KillActorAtIndex \/ DropCode \/ UpdateChaos

Next == Frame \/ NewScene \/ Dma

Spec == Init /\ [][Next]_vars

\* Frames go on, not all of them held up by the frame advance, and the DMA manager works.
LiveSpec ==
    Spec /\ WF_vars(Frame) /\ SF_vars(PerformChicken /\ phase' = "entries") /\ SF_vars(Dma)

-----------------------------------------------------------------------------

\* The list of chaos actors has no actor twice and none whose memory was freed, whatever
\* kills the actors, in whatever order (Chaos_UpdateChaos follows these pointers, line 1075),
\* as long as no listed actor was deleted before it was initialised: its destroy function,
\* which would take it off the list, is then not called (Actor_Destroy, z_actor.c:1184).
NoDangling ==
    phase # "first" /\ ~forgotten =>
        /\ IsInjective(spawned)
        /\ \A a \in ToSet(spawned) : actors[a].st # "none" /\ actors[a].chaos

\* The slot that a listed actor has its object in is not given to another object: neither
\* a draw nor a change of the scene overwrites it (the comment at chaos_fuckery.c:1301).
KeepsItsObject ==
    phase # "first" =>
        \A a \in ToSet(spawned) : actors[a].st # "none" /\ actors[a].slot = ChaosSlot =>
            {AbsId(ChaosSlot), loaded_object_id} = {actors[a].object}

\* What is drawn is drawn with its object: no load has overwritten it (Actor_Draw, 2887),
\* provided that no load in flight was meant for another object of its slot, and, of the
\* actors of the chaos slot that no list protects any more, that none was left without a look
\* at the slot between two objects.
DrawnFromItsObject ==
    phase = "play" =>
        \A a \in Actors :
            /\ actors[a].isDrawn /\ actors[a].slot \notin overtaken
            /\ unnoticed => actors[a].slot # ChaosSlot \/ a \in ToSet(spawned)
            => /\ mem[actors[a].slot] = actors[a].object
               /\ \A k \in Loads : dma[k].slot # actors[a].slot

\* An object that is asked for gets loaded, unless it was asked for while another one was
\* on its way to the slot: of two messages the second undoes the first.
ObjectComes ==
    slots[ChaosSlot].id < 0 ~> (slots[ChaosSlot].id > 0 \/ ChaosSlot \in overtaken)

=============================================================================
